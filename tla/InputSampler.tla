------------------------------ MODULE InputSampler ------------------------------
(***************************************************************************)
(* The controller sampler of source/input_sampler.c.  A thread polls the   *)
(* controller, sends changed game input to the core, and publishes a       *)
(* snapshot in which button presses and hotkeys stay latched until the     *)
(* host reads them.  The host's frame loop reads the snapshot and tells    *)
(* the sampler whether the game or a menu takes the input.                 *)
(*                                                                         *)
(* The stylus is abstracted to the place it points at; sticks, sensors and *)
(* the mouse only move it, and the touch panel stands for all of them.     *)
(***************************************************************************)
EXTENDS Naturals, FiniteSets

CONSTANTS
  Button,      \* buttons of the controller
  Key,         \* keys of the emulated console
  TouchKey,    \* DS_TOUCH, which no button is bound to
  KeyOf,       \* config.bindings: the keys a button stands for
  RepeatKey,   \* the keys autofire repeats
  Hotkey,      \* the hotkeys that are acted on
  Combo,       \* config.hotkeys: the buttons of each hotkey; {} is unassigned
  Recenter,    \* the hotkey that works in motion mode only
  Autofire,    \* the hotkey that turns held keys into repeating ones
  TouchButton, \* config.analog_touch_button, as a set of at most one button
  Place,       \* positions on the touch screen
  NoPlace      \* touch_position = 0

ASSUME ConfigAssumption ==
  /\ KeyOf \in [Button -> SUBSET Key] /\ TouchKey \notin Key
  /\ RepeatKey \subseteq Key
  /\ Combo \in [Hotkey -> SUBSET Button]
  /\ Recenter \in Hotkey /\ Autofire \in Hotkey
  /\ TouchButton \subseteq Button
  /\ NoPlace \notin Place

Mode == {"off", "stick", "motion"}
Runtime == [gameplay : BOOLEAN, mode : Mode]
Input == [keys : SUBSET (Key \cup {TouchKey}), touch : Place \cup {NoPlace},
          repeat : SUBSET Key]
NoInput == [keys |-> {}, touch |-> NoPlace, repeat |-> {}]

VARIABLES
  runtime,     \* sampler->runtime, what the host wants of the sampler
  held,        \* the buttons of the latest poll
  wanted,      \* the runtime the latest poll read
  previous,    \* previous_buttons
  last,        \* last_buttons, last_touch, last_autofire
  lastValid,   \* last_update_valid
  lastEnabled, \* last_enabled
  snapshot,    \* the buttons of the published snapshot
  downLatch,   \* buttons_down_latched
  hotLatch,    \* hotkeys_latched
  readHeld,    \* the buttons of the last snapshot the host read
  core,        \* the input the core has (external)
  stop,        \* set when the sampler is destroyed
  pc           \* the thread: "poll", "update", "publish", "exited"

poll == <<held, wanted>>
lastVars == <<last, lastValid, lastEnabled>>
latch == <<snapshot, downLatch, hotLatch>>
vars == <<runtime, poll, previous, lastVars, latch, readHeld, core, stop, pc>>

--------------------------------------------------------------------------------
(* What one poll makes of the buttons *)

ComboHeld(b, h) == Combo[h] # {} /\ Combo[h] \subseteq b

Listened(h, r) == h = Recenter => r.mode = "motion"

HeldHotkeys(b, r) == {h \in Hotkey : Listened(h, r) /\ ComboHeld(b, h)}

PressedHotkeys(b, prev, r) == {h \in HeldHotkeys(b, r) : ~ComboHeld(prev, h)}

VirtualTouch(b, r) ==
  /\ r.gameplay /\ r.mode # "off"
  /\ TouchButton # {} /\ TouchButton \subseteq b
  /\ ~(r.mode = "motion" /\ ComboHeld(b, Recenter))

\* The buttons the game sees: those of a held combination are taken away.
GameHeld(b, r) ==
  (b \ UNION {Combo[h] : h \in HeldHotkeys(b, r)})
    \ (IF VirtualTouch(b, r) THEN TouchButton ELSE {})

\* Where the game may be touched: by the panel or the mouse, if they are
\* touched, or else where the stylus points.
Touches(b, r) == IF VirtualTouch(b, r) THEN Place ELSE Place \cup {NoPlace}

\* Mutant: input is passed on while the menu is open.
GameInputInMenu(b, r, t) ==
  LET keys == UNION {KeyOf[x] : x \in GameHeld(b, r)}
  IN [keys |-> IF t = NoPlace THEN keys ELSE keys \cup {TouchKey},
      touch |-> t, repeat |-> {}]

GameInput(b, r, t) ==
  LET keys == UNION {KeyOf[x] : x \in GameHeld(b, r)}
  IN IF ~r.gameplay THEN NoInput
     ELSE [keys   |-> IF t = NoPlace THEN keys ELSE keys \cup {TouchKey},
           touch  |-> t,
           repeat |-> IF ComboHeld(b, Autofire) THEN keys \cap RepeatKey ELSE {}]

--------------------------------------------------------------------------------
(* The sampler thread *)

\* The poll of the controller, which may hold any buttons, and the reading of
\* the runtime; nobody sees what is between them.
Poll ==
  /\ pc = "poll" /\ ~stop
  /\ held' \in SUBSET Button /\ wanted' = runtime
  /\ pc' = "update"
  /\ UNCHANGED <<runtime, previous, lastVars, latch, readHeld, core, stop>>

\* config.update is called with changed input only.
Update ==
  /\ pc = "update"
  /\ \E t \in Touches(held, wanted) :
       LET out == GameInput(held, wanted, t)
           due == ~lastValid \/ out # last \/ wanted.gameplay # lastEnabled
       IN /\ core' = IF due THEN out ELSE core
          /\ last' = IF due THEN out ELSE last
          /\ lastValid' = (lastValid \/ due)
  /\ lastEnabled' = wanted.gameplay
  /\ pc' = "publish"
  /\ UNCHANGED <<runtime, poll, previous, latch, readHeld, stop>>

\* Mutant: the latch is overwritten.
PublishOverwrites ==
  /\ pc = "publish"
  /\ snapshot' = held
  /\ downLatch' = held \ previous
  /\ hotLatch' = hotLatch \cup PressedHotkeys(held, previous, wanted)
  /\ previous' = held
  /\ pc' = "poll"
  /\ UNCHANGED <<runtime, poll, lastVars, readHeld, core, stop>>

\* publish_snapshot
Publish ==
  /\ pc = "publish"
  /\ snapshot' = held
  /\ downLatch' = downLatch \cup (held \ previous)
  /\ hotLatch' = hotLatch \cup PressedHotkeys(held, previous, wanted)
  /\ previous' = held
  /\ pc' = "poll"
  /\ UNCHANGED <<runtime, poll, lastVars, readHeld, core, stop>>

\* Mutant: the core keeps the keys that were held when the sampler stopped.
ExitSilently ==
  /\ pc = "poll" /\ stop
  /\ pc' = "exited"
  /\ UNCHANGED <<runtime, poll, previous, lastVars, latch, readHeld, core, stop>>

\* The end of the thread lets go of everything the core holds.
Exit ==
  /\ pc = "poll" /\ stop
  /\ core' = IF lastValid /\ (last # NoInput \/ lastEnabled) THEN NoInput ELSE core
  /\ pc' = "exited"
  /\ UNCHANGED <<runtime, poll, previous, lastVars, latch, readHeld, stop>>

SamplerStep == Poll \/ Update \/ Publish \/ Exit

--------------------------------------------------------------------------------
(* The host *)

\* drastic_input_sampler_read
Read ==
  /\ ~stop
  /\ readHeld' = snapshot
  /\ downLatch' = {} /\ hotLatch' = {}
  /\ UNCHANGED <<runtime, poll, previous, lastVars, snapshot, core, stop, pc>>

\* drastic_input_sampler_update_runtime
UpdateRuntime(r) ==
  /\ ~stop
  /\ runtime' = r
  /\ UNCHANGED <<poll, previous, lastVars, latch, readHeld, core, stop, pc>>

\* drastic_input_sampler_destroy, up to the join.
Destroy ==
  /\ ~stop /\ stop' = TRUE
  /\ UNCHANGED <<runtime, poll, previous, lastVars, latch, readHeld, core, pc>>

HostStep == Read \/ Destroy \/ \E r \in Runtime : UpdateRuntime(r)

--------------------------------------------------------------------------------
\* drastic_input_sampler_create: the sampler is zeroed.
Init ==
  /\ runtime = [gameplay |-> FALSE, mode |-> "off"]
  /\ held = {} /\ wanted = runtime /\ previous = {}
  /\ last = NoInput /\ lastValid = FALSE /\ lastEnabled = FALSE
  /\ snapshot = {} /\ downLatch = {} /\ hotLatch = {}
  /\ readHeld = {}
  /\ core = NoInput
  /\ stop = FALSE /\ pc = "poll"

Next == SamplerStep \/ HostStep

Spec == Init /\ [][Next]_vars

\* The sampler's thread runs; the host may do nothing at all.
FairSpec == Spec /\ WF_vars(SamplerStep)

--------------------------------------------------------------------------------
(* Properties *)

(* Types. *)
TypeOK ==
  /\ runtime \in Runtime /\ wanted \in Runtime
  /\ held \in SUBSET Button /\ previous \in SUBSET Button
  /\ last \in Input /\ core \in Input
  /\ lastValid \in BOOLEAN /\ lastEnabled \in BOOLEAN /\ stop \in BOOLEAN
  /\ snapshot \in SUBSET Button /\ downLatch \in SUBSET Button
  /\ hotLatch \in SUBSET Hotkey
  /\ readHeld \in SUBSET Button
  /\ pc \in {"poll", "update", "publish", "exited"}

(* However often the sampler polled since the host's last read, a button    *)
(* that is newly held is reported as pressed by the next read, and so is    *)
(* every newly held hotkey: frame-rate reads lose no press (the recenter    *)
(* hotkey is exempt, it depends on the mode of the poll).                   *)
PressesAreLatched ==
  /\ snapshot \ readHeld \subseteq downLatch
  /\ \A h \in Hotkey \ {Recenter} :
       ComboHeld(snapshot, h) /\ ~ComboHeld(readHeld, h) => h \in hotLatch

(* A hotkey held through two reads without being let go between them is     *)
(* reported by at most the first: a latched hotkey that was already held at *)
(* the last read had one of its buttons pressed anew since then.            *)
NoHotkeyTwice ==
  \A h \in Hotkey :
    h \in hotLatch => ~ComboHeld(readHeld, h) \/ Combo[h] \cap downLatch # {}

(* Once the sampler is gone the core holds no key and no touch: no input    *)
(* outlives the thread, at whatever point of a poll it was stopped.         *)
ReleasedAtTheEnd == pc = "exited" => core = NoInput

(* A press reaches the host once and nothing outlives the sampler: all of   *)
(* the above.                                                               *)
InputIsWhole == PressesAreLatched /\ NoHotkeyTwice /\ ReleasedAtTheEnd

(* After the host gave the input to a menu, the core holds nothing before   *)
(* long, even if a poll was under way with the old setting.                 *)
MenuReleasesCore == ~runtime.gameplay ~> core = NoInput \/ runtime.gameplay
================================================================================
