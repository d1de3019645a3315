------------------------------- MODULE ScreenLayout -------------------------------
(***************************************************************************)
(* Where the screens are drawn and what the pointers mean there: the       *)
(* layout that drastic_config.c computes, the pictures and the cursor that *)
(* the renderer draws by it (drastic_vk_renderer.c), and the touch panel,  *)
(* the mouse, the stick and the motion sensor with which the sampler's     *)
(* thread (input_sampler.c) points at a pixel of the touch screen, by a    *)
(* copy of the layout that the main thread hands it.                       *)
(*                                                                         *)
(* Lengths are integers in a unit that divides what the code divides; a    *)
(* place within a screen is a pair of fractions, <<numerator,              *)
(* denominator>>.                                                          *)
(***************************************************************************)
EXTENDS Integers

CONSTANTS
  Panel,     \* width and height of the panel
  Native,    \* pixels of a DS screen
  Unit,      \* length of a pixel that is not scaled
  Side,      \* width of the small screens of the hybrid layouts
  Gaps,      \* screen_gap
  Customs,   \* custom_screens, both rectangles, that may be configured
  Point,     \* places of the panel that are pointed at
  Fine       \* denominator of the places within a screen, a multiple of each
             \* number of pixels and of one less

Layouts == {"vertical", "horizontal", "top", "bottom", "hybrid top", "hybrid bottom", "custom"}

VARIABLES
  config,   \* layout, rotation, swap, integer, gap and custom of DrasticRuntimeConfig
  screens,  \* config.screens: the rectangles, in the order they are drawn
  menu,     \* the in-game menu is open
  pc,       \* "input" before process_input, "present" before the frame is drawn
  runtime,  \* the sampler's copy: on, rotation, screens
  shown,    \* the frame on the panel was drawn by this layout
  stylus    \* stylus_x, stylus_y

host == <<config, screens, menu, pc, shown>>
vars == <<host, runtime, stylus>>

NoPixel == <<-1, -1>>

Fewer(a, b) == IF a <= b THEN a ELSE b
Within(n, limit) == IF n < 0 THEN 0 ELSE IF n > limit THEN limit ELSE n
Odd(rotation) == rotation \in {1, 3}

--------------------------------------------------------------------------------
(* drastic_rotation.h, on pairs of fractions and on directions                  *)

Flip(f) == <<f[2] - f[1], f[2]>>

DisplayToSource(rotation, u, v) ==
  CASE rotation = 0 -> <<u, v>>
    [] rotation = 1 -> <<v, Flip(u)>>
    [] rotation = 2 -> <<Flip(u), Flip(v)>>
    [] rotation = 3 -> <<Flip(v), u>>

SourceToDisplay(rotation, u, v) ==
  CASE rotation = 0 -> <<u, v>>
    [] rotation = 1 -> <<Flip(v), u>>
    [] rotation = 2 -> <<Flip(u), Flip(v)>>
    [] rotation = 3 -> <<v, Flip(u)>>

DeltaToSource(rotation, x, y) ==
  CASE rotation = 0 -> <<x, y>>
    [] rotation = 1 -> <<y, -x>>
    [] rotation = 2 -> <<-x, -y>>
    [] rotation = 3 -> <<-y, x>>

--------------------------------------------------------------------------------
(* The layout                                                                    *)

\* fit_size: width and height of a screen in the space there is
Fit(c, width, height) ==
  LET n == IF Odd(c.rotation) THEN <<Native[2], Native[1]>> ELSE Native
      w == Fewer(width, (height * n[1]) \div n[2])
      h == Fewer(height, (width * n[2]) \div n[1])
      scale == w \div (n[1] * Unit)
  IN  IF c.integer /\ scale >= 1 THEN <<n[1] * Unit * scale, n[2] * Unit * scale>> ELSE <<w, h>>

\* A plausible slip: the target stays with the rectangle when the screens swap.
RectUnswapped(c, screen, x, y, size) ==
  [x |-> x, y |-> y, w |-> size[1], h |-> size[2],
   screen |-> IF c.swap THEN 1 - screen ELSE screen, touch |-> screen = 1]

\* set_rect with remap_screen
Rect(c, screen, x, y, size) ==
  LET drawn == IF c.swap THEN 1 - screen ELSE screen
  IN  [x |-> x, y |-> y, w |-> size[1], h |-> size[2], screen |-> drawn, touch |-> drawn = 1]

Half(n) == n \div 2

\* drastic_config_calculate_layout
Calculated(c) ==
  LET stacked == Fit(c, Panel[1], Half(Panel[2] - c.gap))
      beside == Fit(c, Half(Panel[1] - c.gap), Panel[2])
      alone == Fit(c, Panel[1], Panel[2])
      small == Fit(c, Side, Half(Panel[2] - c.gap))
      large == Fit(c, Panel[1] - small[1] - c.gap, Panel[2])
      single(screen) == <<Rect(c, screen, Half(Panel[1] - alone[1]), Half(Panel[2] - alone[2]), alone)>>
      hybrid(primary) ==
        LET x == Half(Panel[1] - (large[1] + c.gap + small[1]))
            y == Half(Panel[2] - (2 * small[2] + c.gap))
        IN  <<Rect(c, primary, x, Half(Panel[2] - large[2]), large),
              Rect(c, 0, x + large[1] + c.gap, y, small),
              Rect(c, 1, x + large[1] + c.gap, y + small[2] + c.gap, small)>>
  IN  CASE c.layout = "custom" ->
             LET r == c.custom
             IN  [i \in 1 .. 2 |-> Rect(c, i - 1, r[i].x, r[i].y, <<r[i].w, r[i].h>>)]
        [] c.layout = "vertical" ->
             LET x == Half(Panel[1] - stacked[1])
                 y == Half(Panel[2] - (2 * stacked[2] + c.gap))
             IN  <<Rect(c, 0, x, y, stacked), Rect(c, 1, x, y + stacked[2] + c.gap, stacked)>>
        [] c.layout = "horizontal" ->
             LET x == Half(Panel[1] - (2 * beside[1] + c.gap))
                 y == Half(Panel[2] - beside[2])
             IN  <<Rect(c, 0, x, y, beside), Rect(c, 1, x + beside[1] + c.gap, y, beside)>>
        [] c.layout = "top" -> single(0)
        [] c.layout = "bottom" -> single(1)
        [] c.layout = "hybrid top" -> hybrid(0)
        [] c.layout = "hybrid bottom" -> hybrid(1)

--------------------------------------------------------------------------------
(* Pointers                                                                      *)

Holds(r, p) == p[1] >= r.x /\ p[2] >= r.y /\ p[1] < r.x + r.w /\ p[2] < r.y + r.h

\* The first of the largest rectangles among some of them
Largest(rects, among) ==
  CHOOSE i \in among : \A j \in among :
    \/ rects[i].w * rects[i].h > rects[j].w * rects[j].h
    \/ rects[i].w * rects[i].h = rects[j].w * rects[j].h /\ i <= j

\* drastic_config_map_touch_rects
MapTouch(rects, rotation, p) ==
  LET targets == {i \in DOMAIN rects : rects[i].touch /\ Holds(rects[i], p)}
  IN  IF targets = {} THEN NoPixel
      ELSE LET r == rects[Largest(rects, targets)]
               s == DisplayToSource(rotation, <<p[1] - r.x, r.w>>, <<p[2] - r.y, r.h>>)
           IN  [axis \in 1 .. 2 |->
                  Within((s[axis][1] * Native[axis]) \div s[axis][2], Native[axis] - 1)]

\* drastic_config_map_stylus: the rectangle and the place in it; {} if no
\* rectangle is touched.
MapStylus(rects, rotation, pixel) ==
  LET targets == {i \in DOMAIN rects : rects[i].touch}
      source == [axis \in 1 .. 2 |-> <<pixel[axis] * (Fine \div (Native[axis] - 1)), Fine>>]
  IN  {[rect |-> Largest(rects, targets), at |-> SourceToDisplay(rotation, source[1], source[2])] :
         any \in IF targets = {} THEN {} ELSE {1}}

--------------------------------------------------------------------------------
(* The main thread                                                               *)

\* drastic_input_sampler_update_runtime
Handed(on) == [on |-> on, rotation |-> config'.rotation, screens |-> screens']

Drawn == shown' = (shown /\ config'.rotation = config.rotation /\ screens' = screens)

Configs ==
  [layout : Layouts, rotation : 0 .. 3, swap : BOOLEAN, integer : BOOLEAN, gap : Gaps,
   custom : Customs]

Init ==
  /\ config \in Configs /\ screens = Calculated(config)
  /\ menu = FALSE /\ pc = "input" /\ shown = FALSE
  /\ runtime = [on |-> TRUE, rotation |-> config.rotation, screens |-> screens]
  /\ stylus = [axis \in 1 .. 2 |-> Half(Native[axis])]

\* process_input, with the hotkey that swaps the screens or without
ProcessInput ==
  /\ pc = "input" /\ ~menu /\ pc' = "present"
  /\ config' \in {config, [config EXCEPT !.swap = ~@]}
  /\ screens' = (IF config' = config THEN screens ELSE Calculated(config'))
  /\ runtime' = Handed(TRUE) /\ Drawn /\ UNCHANGED <<menu, stylus>>

\* process_input with the menu's hotkey
OpenMenu ==
  /\ pc = "input" /\ ~menu /\ pc' = "present" /\ menu' = TRUE
  /\ UNCHANGED <<config, screens, shown, stylus>>
  /\ runtime' = Handed(FALSE)

\* A row of the display page, a layout of the editor, or none, and the menu
\* stays open or closes
MenuFrame ==
  /\ pc = "input" /\ menu /\ pc' = "present"
  /\ \/ config' = config
     \/ \E layout \in Layouts : config' = [config EXCEPT !.layout = layout]
     \/ config' = [config EXCEPT !.swap = ~@]
     \/ \E turn \in {1, 3} : config' = [config EXCEPT !.rotation = (@ + turn) % 4]
     \/ \E gap \in Gaps : config' = [config EXCEPT !.gap = gap]
     \/ config' = [config EXCEPT !.integer = ~@]
     \/ \E custom \in Customs : config' = [config EXCEPT !.custom = custom]
  /\ screens' = Calculated(config')
  /\ menu' \in BOOLEAN /\ runtime' = Handed(~menu')
  /\ Drawn /\ UNCHANGED stylus

\* drastic_renderer_present, which may find no image; build_draws
Present ==
  /\ pc = "present" /\ pc' = "input" /\ shown' \in {shown, TRUE}
  /\ UNCHANGED <<config, screens, menu, runtime, stylus>>

--------------------------------------------------------------------------------
(* The sampler's thread                                                          *)

\* The mouse takes the stylus along; the touch panel goes past it.
Mouse ==
  /\ runtime.on /\ UNCHANGED <<host, runtime>>
  /\ \E p \in Point :
       LET pixel == MapTouch(runtime.screens, runtime.rotation, p)
       IN  pixel # NoPixel /\ stylus' = pixel

\* analog_stylus_delta_to_source, for a controller that stays upright or for
\* the console turned with the game
SourceDirection(upright, d) ==
  IF upright THEN DeltaToSource(runtime.rotation, d[1], d[2]) ELSE d

Directions == {<<1, 0>>, <<-1, 0>>, <<0, 1>>, <<0, -1>>}

Pushed(upright, d) ==
  LET by == SourceDirection(upright, d)
  IN  [axis \in 1 .. 2 |-> Within(stylus[axis] + by[axis], Native[axis] - 1)]

Stick ==
  /\ runtime.on /\ UNCHANGED <<host, runtime>>
  /\ \E d \in Directions, upright \in BOOLEAN : stylus' = Pushed(upright, d)

\* update_motion_stylus: the pointer's place over the screen as it is seen, in
\* quarters, and the nearest pixel
Aimed(u, v) ==
  LET s == DisplayToSource(runtime.rotation, <<Within(u, 4), 4>>, <<Within(v, 4), 4>>)
  IN  [axis \in 1 .. 2 |->
         (2 * s[axis][1] * (Native[axis] - 1) + s[axis][2]) \div (2 * s[axis][2])]

Motion ==
  /\ runtime.on /\ UNCHANGED <<host, runtime>>
  /\ \E u \in -1 .. 5, v \in -1 .. 5 : stylus' = Aimed(u, v)

Next == ProcessInput \/ OpenMenu \/ MenuFrame \/ Present \/ Mouse \/ Stick \/ Motion

Spec == Init /\ [][Next]_vars

--------------------------------------------------------------------------------
Rectangle == [x : Int, y : Int, w : Int, h : Int, screen : 0 .. 1, touch : BOOLEAN]

(* One to three rectangles, and the target is the lower screen's, whichever      *)
(* rectangle it is in.                                                           *)
IsLayout(rects) ==
  \E n \in 1 .. 3 :
    rects \in [1 .. n -> Rectangle] /\ \A i \in 1 .. n : rects[i].touch <=> rects[i].screen = 1

TypeOK ==
  /\ config \in Configs /\ IsLayout(screens) /\ menu \in BOOLEAN /\ shown \in BOOLEAN
  /\ runtime.on \in BOOLEAN /\ runtime.rotation \in 0 .. 3 /\ IsLayout(runtime.screens)
  /\ \A axis \in 1 .. 2 : stylus[axis] \in 0 .. Native[axis] - 1

(* Where a rectangle shows a pixel: its corners in turn, as seen                 *)
Corner(rotation, pixel, more) ==
  LET f(axis) == <<(pixel[axis] + more) * (Fine \div Native[axis]), Fine>>
  IN  SourceToDisplay(rotation, f(1), f(2))

Between(n, a, b) == (a <= n /\ n <= b) \/ (b <= n /\ n <= a)

Shows(r, rotation, pixel, p) ==
  LET a == Corner(rotation, pixel, 0)
      b == Corner(rotation, pixel, 1)
  IN  /\ Between((p[1] - r.x) * Fine, a[1][1] * r.w, b[1][1] * r.w)
      /\ Between((p[2] - r.y) * Fine, a[2][1] * r.h, b[2][1] * r.h)

(* The sampler has the layout of the frame on the panel.                         *)
InStep == shown /\ runtime.rotation = config.rotation /\ runtime.screens = screens

(* A touch means a pixel that is seen under the finger, and nothing where the    *)
(* touch screen is not seen, in every layout, however it is turned and swapped   *)
(* (drastic_config.c:355-383).  Where custom rectangles overlap, the touch       *)
(* screen is touched through the other.                                          *)
TouchIsSeen ==
  InStep => \A p \in Point :
    LET pixel == MapTouch(runtime.screens, runtime.rotation, p)
        seen == {i \in DOMAIN screens : screens[i].screen = 1 /\ Holds(screens[i], p)}
    IN  IF pixel = NoPixel THEN seen = {}
        ELSE \E i \in seen : Shows(screens[i], config.rotation, pixel, p)

(* The cursor is drawn on the pixel that the stylus touches.                     *)
CursorIsStylus ==
  \A c \in MapStylus(screens, config.rotation, stylus) :
    LET a == Corner(config.rotation, stylus, 0)
        b == Corner(config.rotation, stylus, 1)
    IN  /\ screens[c.rect].screen = 1
        /\ \A axis \in 1 .. 2 : Between(c.at[axis][1], a[axis][1], b[axis][1])

(* The comment of analog_stylus_delta_to_source: external controllers keep       *)
(* "their cursor movement relative to the visible screen": pushing the stick     *)
(* moves the cursor that way, or not at all where the screen ends; and the       *)
(* motion sensor moves it to the pixel nearest to the place pointed at           *)
(* (input_sampler.c:62-82, 224-242).                                             *)
CursorFollows ==
  InStep =>
    /\ \A d \in Directions : \A a \in MapStylus(screens, config.rotation, stylus),
                               b \in MapStylus(screens, config.rotation, Pushed(TRUE, d)) :
         /\ \A axis \in 1 .. 2 :
              LET by == b.at[axis][1] - a.at[axis][1]
              IN  IF d[axis] = 0 THEN by = 0 ELSE by * d[axis] >= 0
         /\ a.at = b.at => \E axis \in 1 .. 2 : d[axis] # 0 /\ a.at[axis][1] \in {0, Fine}
    /\ \A u \in 0 .. 4, v \in 0 .. 4 :
         \A b \in MapStylus(screens, config.rotation, Aimed(u, v)), axis \in 1 .. 2 :
           LET n == Native[IF Odd(config.rotation) THEN 3 - axis ELSE axis]
               off == 4 * b.at[axis][1] - <<u, v>>[axis] * Fine
           IN  Between(off * 2 * (n - 1), -4 * Fine, 4 * Fine)

(* Pointing means what is seen: all of the above.                                *)
PointedAsSeen == TouchIsSeen /\ CursorIsStylus /\ CursorFollows
================================================================================
