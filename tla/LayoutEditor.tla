------------------------------ MODULE LayoutEditor ------------------------------
(***************************************************************************)
(* The custom screen layout of the in-game menu: the rectangle of each DS  *)
(* screen on the panel, edited in the orientation the user sees, kept in   *)
(* the panel's orientation, optionally with its native aspect, 4:3 or 3:4  *)
(* (src/source/ingame_menu.c:982-1091 and 1730-1832;                       *)
(* src/source/drastic_config.c:263-293).                                   *)
(*                                                                         *)
(* Lengths are whole units of a square panel of Side units, so that the    *)
(* panel's width and height, which the code multiplies with, cancel; the   *)
(* steps are chosen such that every aspect comes out whole.                *)
(***************************************************************************)
EXTENDS Naturals, Integers

CONSTANTS
  Side,      \* the panel's side in units
  MinSide,   \* the shortest side of a screen (0.08 of the panel)
  Moves,     \* moves by the left stick or the arrows: <<x, y>>
  Sizes,     \* changes of the size by the right stick or ZL and the arrows
  Loaded,    \* rectangles the preferences may hold
  MaxEdits   \* bound: operations in the editor

Screens == {0, 1}
Still == <<0, 0>>
Nothing == [move |-> Still, size |-> Still]

VARIABLES
  editing,   \* the editor is open
  rotation,  \* quarter turns of the picture
  layout,    \* the layout is the custom one
  lock,      \* custom_aspect_lock
  rect,      \* custom_screens
  saved,     \* the preferences: [layout, lock, rect]
  backup,    \* what B goes back to
  screen,    \* editor_screen
  asked,     \* history: what the user asked of the last step
  edits

vars == <<editing, rotation, layout, lock, rect, saved, backup, screen, asked, edits>>

Rect == [x : 0 .. Side, y : 0 .. Side, w : 1 .. Side, h : 1 .. Side]

TypeOK ==
  /\ editing \in BOOLEAN /\ rotation \in 0 .. 3
  /\ layout \in BOOLEAN /\ lock \in BOOLEAN
  /\ rect \in [Screens -> Rect]
  /\ {saved, backup} \subseteq [layout : BOOLEAN, lock : BOOLEAN, rect : [Screens -> Rect]]
  /\ screen \in Screens
  /\ asked \in [move : Moves \cup {Still}, size : Sizes \cup {Still}]
  /\ edits \in 0 .. MaxEdits

--------------------------------------------------------------------------------
(* Geometry *)

Clamp(v, low, high) == IF v < low THEN low ELSE IF v > high THEN high ELSE v
Abs(v) == IF v < 0 THEN -v ELSE v

\* custom_rect_to_ui
ToUi(r) ==
  CASE rotation = 1 -> [x |-> r.y, y |-> Side - r.x - r.w, w |-> r.h, h |-> r.w]
    [] rotation = 2 -> [r EXCEPT !.x = Side - @ - r.w, !.y = Side - @ - r.h]
    [] rotation = 3 -> [x |-> Side - r.y - r.h, y |-> r.x, w |-> r.h, h |-> r.w]
    [] OTHER -> r

\* custom_rect_from_ui
FromUi(u) ==
  CASE rotation = 1 -> [x |-> Side - u.y - u.h, y |-> u.x, w |-> u.h, h |-> u.w]
    [] rotation = 2 -> [u EXCEPT !.x = Side - @ - u.w, !.y = Side - @ - u.h]
    [] rotation = 3 -> [x |-> u.y, y |-> Side - u.x - u.w, w |-> u.h, h |-> u.w]
    [] OTHER -> u

Placed(r) == [r EXCEPT !.x = Clamp(@, 0, Side - r.w), !.y = Clamp(@, 0, Side - r.h)]

\* constrain_custom_rect
Constrained(r) ==
  Placed([r EXCEPT !.w = Clamp(@, MinSide, Side), !.h = Clamp(@, MinSide, Side)])

Greater(a, b) == IF a < b THEN b ELSE a
Smaller(a, b) == IF a < b THEN a ELSE b

(* set_custom_rect_aspect: the driving side is kept, the other follows from the *)
(* aspect, width over height; both stay within the panel.                       *)
WithAspect(r, aspect, widthDrives, centred) ==
  LET a == aspect[1]
      b == aspect[2]
      height == Clamp(IF widthDrives THEN (r.w * b) \div a ELSE r.h,
                      Greater(MinSide, (MinSide * b) \div a), Smaller(Side, (Side * b) \div a))
      width == (height * a) \div b
      sized == [r EXCEPT !.w = width, !.h = height]
  IN  Placed(IF centred THEN [sized EXCEPT !.x = @ + (r.w - width) \div 2,
                                           !.y = @ + (r.h - height) \div 2]
             ELSE sized)

\* custom_native_aspect
NativeAspect == IF rotation % 2 = 1 THEN <<3, 4>> ELSE <<4, 3>>

\* The side that changes less follows; on a square panel that is the shorter
\* side of the aspect.
Normalized(r) ==
  WithAspect(r, NativeAspect,
    NativeAspect[1] > NativeAspect[2] \/ r.w * NativeAspect[2] = r.h * NativeAspect[1], TRUE)

\* drastic_config_calculate_layout, of the custom layout.
Calculated(rs, custom, locked) ==
  IF custom /\ locked THEN [s \in Screens |-> Normalized(rs[s])] ELSE rs

\* reset_custom_layout: side by side, with the native aspect.
Standard ==
  LET height == Smaller((Side * 3) \div 4, (Side * NativeAspect[2]) \div (2 * NativeAspect[1]))
      width == (height * NativeAspect[1]) \div NativeAspect[2]
  IN  [s \in Screens |-> [x |-> (Side + 2 * s * Side) \div 4 - width \div 2,
                         y |-> (Side - height) \div 2, w |-> width, h |-> height]]

--------------------------------------------------------------------------------
Init ==
  /\ rotation \in 0 .. 3
  /\ saved \in [layout : BOOLEAN, lock : BOOLEAN, rect : [Screens -> Loaded]]
  /\ editing = FALSE /\ screen = 0 /\ edits = 0 /\ asked = Nothing
  /\ layout = saved.layout /\ lock = saved.lock
  /\ rect = Calculated(saved.rect, layout, lock)
  /\ backup = [layout |-> layout, lock |-> lock, rect |-> rect]

\* update_display, the editor's row.
Begin ==
  /\ ~editing /\ edits = 0
  /\ editing' = TRUE /\ screen' = 0
  /\ backup' = [layout |-> layout, lock |-> lock, rect |-> rect]
  /\ layout' = TRUE
  /\ rect' = Calculated(rect, TRUE, lock)
  /\ asked' = Nothing
  /\ UNCHANGED <<rotation, lock, saved, edits>>

Cancel ==
  /\ editing /\ editing' = FALSE
  /\ layout' = backup.layout /\ lock' = backup.lock
  /\ rect' = Calculated(backup.rect, layout', lock')
  /\ asked' = Nothing
  /\ UNCHANGED <<rotation, saved, backup, screen, edits>>

\* save_custom_layout
Apply ==
  /\ editing /\ editing' = FALSE
  /\ layout' = TRUE
  /\ saved' = [layout |-> TRUE, lock |-> lock, rect |-> rect]
  /\ rect' = Calculated(rect, TRUE, lock)
  /\ asked' = Nothing
  /\ UNCHANGED <<rotation, lock, backup, screen, edits>>

Editing == editing /\ edits < MaxEdits /\ edits' = edits + 1
kept == <<editing, rotation, layout, saved, backup>>

OtherScreen ==
  /\ Editing
  /\ screen' = 1 - screen /\ asked' = Nothing
  /\ UNCHANGED <<kept, lock, rect>>

Reset ==
  /\ Editing
  /\ rect' = Calculated(Standard, TRUE, lock)
  /\ asked' = Nothing
  /\ UNCHANGED <<kept, lock, screen>>

ToggleLock ==
  /\ Editing
  /\ lock' = ~lock
  /\ rect' = Calculated(rect, TRUE, lock')
  /\ asked' = Nothing
  /\ UNCHANGED <<kept, screen>>

Changed(u, m, s) == [x |-> u.x + m[1], y |-> u.y + m[2], w |-> u.w + s[1], h |-> u.h + s[2]]

\* Mutant: the rectangle is edited in the panel's orientation.
EditedUnturned(r, m, s) ==
  Constrained(IF lock /\ s # Still
              THEN WithAspect(Changed(r, m, s), NativeAspect, Abs(s[1]) >= Abs(s[2]), FALSE)
              ELSE Constrained(Changed(r, m, s)))

\* The aspect of what is seen is 4:3 in every orientation.
Edited(r, m, s) ==
  LET u == Changed(ToUi(r), m, s)
  IN  Constrained(FromUi(IF lock /\ s # Still
                         THEN WithAspect(u, <<4, 3>>, Abs(s[1]) >= Abs(s[2]), FALSE)
                         ELSE Constrained(u)))

Edit ==
  /\ Editing
  /\ \E m \in Moves \cup {Still}, s \in Sizes \cup {Still} :
       /\ <<m, s>> # <<Still, Still>>
       /\ asked' = [move |-> m, size |-> s]
       /\ rect' = Calculated([rect EXCEPT ![screen] = Edited(@, m, s)], TRUE, lock)
  /\ UNCHANGED <<kept, lock, screen>>

Next == Begin \/ Cancel \/ Apply \/ OtherScreen \/ Reset \/ ToggleLock \/ Edit

Spec == Init /\ [][Next]_vars

--------------------------------------------------------------------------------
(* Where the user sees a rectangle: by the transform the renderer turns the     *)
(* picture with, drastic_rotation_display_to_source.                            *)
Seen(p) ==
  CASE rotation = 1 -> <<p[2], Side - p[1]>>
    [] rotation = 2 -> <<Side - p[1], Side - p[2]>>
    [] rotation = 3 -> <<Side - p[2], p[1]>>
    [] OTHER -> p

Span(r, axis) ==
  LET one == Seen(<<r.x, r.y>>)[axis]
      two == Seen(<<r.x + r.w, r.y + r.h>>)[axis]
  IN  [from |-> Smaller(one, two), to |-> Greater(one, two), length |-> Abs(one - two)]

\* A length changes the way it was asked to, or is at its limit.
Follows(before, after, by) ==
  /\ by > 0 => after >= before
  /\ by < 0 => after <= before
  /\ by = 0 => after = before

(* On the panel, of the least size or more, and seen with a width that is a     *)
(* multiple of the aspect's, so that the height that follows from it is whole.  *)
IsPlaced(r) ==
  /\ r = [x |-> r.x, y |-> r.y, w |-> r.w, h |-> r.h]
  /\ {r.x, r.y, r.w, r.h} \subseteq Int
  /\ MinSide <= r.w /\ MinSide <= r.h
  /\ 0 <= r.x /\ r.x + r.w <= Side /\ 0 <= r.y /\ r.y + r.h <= Side
  /\ ToUi(r).w % 4 = 0

IsNative(r) == 3 * ToUi(r).w = 4 * ToUi(r).h

ArePlaced(rs) == rs = [s \in Screens |-> rs[s]] /\ \A s \in Screens : IsPlaced(rs[s])

(* The rectangles are on the panel, in the editor and in what B goes back to,   *)
(* and with the lock the custom layout's have the native aspect.  It is         *)
(* inductive.                                                                   *)
IInv ==
  /\ rotation \in 0 .. 3 /\ screen \in Screens
  /\ layout \in BOOLEAN /\ lock \in BOOLEAN /\ (editing => layout)
  /\ ArePlaced(rect) /\ ArePlaced(backup.rect)
  /\ backup.layout \in BOOLEAN /\ backup.lock \in BOOLEAN
  /\ layout /\ lock => \A s \in Screens : IsNative(rect[s])

(* The comment of update_layout_editor: the rectangle is edited "in the same    *)
(* rotated coordinate space shown by the overlay.  Otherwise at 90 degrees a    *)
(* rightward resize changes height, and at 270 degrees the axes appear          *)
(* inverted."  A move moves what is seen that way and no other; a resize        *)
(* changes the side it was asked for; the other screen stays; and with the lock *)
(* the screen is seen with its native 4:3 (ingame_menu.c:1799-1827).            *)
EditsAsShown ==
  asked' # Nothing =>
    LET after == rect'[screen]
        before == rect[screen]
    IN  /\ asked'.size = Still =>
             \A axis \in 1 .. 2 :
               /\ Follows(Span(before, axis).from, Span(after, axis).from, asked'.move[axis])
               /\ Span(after, axis).length = Span(before, axis).length
        /\ ~lock => \A axis \in 1 .. 2 :
             Follows(Span(before, axis).length, Span(after, axis).length, asked'.size[axis])
        /\ lock => 3 * Span(after, 1).length = 4 * Span(after, 2).length
        /\ rect'[1 - screen] = rect[1 - screen]
        /\ after.x + after.w <= Side /\ after.y + after.h <= Side
================================================================================
