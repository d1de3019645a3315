--------------------------- MODULE InputSampler_proofs ---------------------------
(***************************************************************************)
(* Proofs about the controller sampler, for every configuration: TypeOK,   *)
(* that no press is lost or reported twice, and that the core holds no     *)
(* input once the sampler has stopped.                                     *)
(***************************************************************************)
EXTENDS InputSampler, TLAPS

(* What the thread knows between its steps: the snapshot it published is the *)
(* poll it compares the next one with, and the core has what it sent last.  *)
ThreadInv ==
  /\ previous = snapshot
  /\ pc # "exited" => core = last
  /\ ~lastValid => last = NoInput

IInv == TypeOK /\ ThreadInv /\ PressesAreLatched /\ NoHotkeyTwice /\ ReleasedAtTheEnd

--------------------------------------------------------------------------------
(* The operators of a poll *)

(* No input at all is an input. *)
LEMMA NoInputTyped == NoInput \in Input
  BY DEF NoInput, Input

(* Pressed hotkeys are hotkeys whose combination is held now and was not in  *)
(* the previous poll.                                                       *)
LEMMA PressedMeaning ==
  ASSUME NEW b, NEW prev, NEW r, NEW h \in PressedHotkeys(b, prev, r)
  PROVE  h \in Hotkey /\ ComboHeld(b, h) /\ ~ComboHeld(prev, h)
  BY DEF PressedHotkeys, HeldHotkeys

(* A hotkey other than Recenter whose combination becomes held is pressed.  *)
LEMMA PressedComplete ==
  ASSUME NEW b, NEW prev, NEW r, NEW h \in Hotkey \ {Recenter},
         ComboHeld(b, h), ~ComboHeld(prev, h)
  PROVE  h \in PressedHotkeys(b, prev, r)
  BY DEF PressedHotkeys, HeldHotkeys, Listened

(* What a poll makes of the buttons is an input of the core.                *)
LEMMA GameInputTyped ==
  ASSUME NEW b \in SUBSET Button, NEW r \in Runtime, NEW t \in Place \cup {NoPlace}
  PROVE  GameInput(b, r, t) \in Input
<1> DEFINE keys == UNION {KeyOf[x] : x \in GameHeld(b, r)}
<1>1. GameHeld(b, r) \subseteq Button
  BY DEF GameHeld
<1>2. keys \subseteq Key
  BY <1>1, ConfigAssumption
<1>3. CASE ~r.gameplay
  BY <1>3, NoInputTyped DEF GameInput
<1>4. CASE r.gameplay
  <2> DEFINE k == IF t = NoPlace THEN keys ELSE keys \cup {TouchKey}
             a == IF ComboHeld(b, Autofire) THEN keys \cap RepeatKey ELSE {}
  <2>1. GameInput(b, r, t) = [keys |-> k, touch |-> t, repeat |-> a]
    BY <1>4 DEF GameInput
  <2>2. k \subseteq Key \cup {TouchKey} /\ a \subseteq Key
    BY <1>2
  <2>3. QED  BY <2>1, <2>2 DEF Input
<1>5. QED  BY <1>3, <1>4

(* The game is touched at a place or nowhere.                               *)
LEMMA TouchesTyped ==
  ASSUME NEW b, NEW r
  PROVE  Touches(b, r) \subseteq Place \cup {NoPlace}
  BY DEF Touches

--------------------------------------------------------------------------------
(* The inductive invariant *)

(* The zeroed sampler satisfies it.                                         *)
LEMMA InitIInv == Init => IInv
<1> SUFFICES ASSUME Init PROVE IInv
  OBVIOUS
<1>1. runtime \in Runtime
  BY DEF Init, Runtime, Mode
<1>2. TypeOK
  BY <1>1, NoInputTyped DEF Init, TypeOK
<1>3. ThreadInv /\ ReleasedAtTheEnd
  BY DEF Init, ThreadInv, ReleasedAtTheEnd
<1>4. PressesAreLatched /\ NoHotkeyTwice
  BY DEF Init, PressesAreLatched, NoHotkeyTwice
<1>5. QED  BY <1>2, <1>3, <1>4 DEF IInv

(* Every step keeps the types.                                              *)
LEMMA TypeStep == TypeOK /\ [Next]_vars => TypeOK'
<1> SUFFICES ASSUME TypeOK, [Next]_vars PROVE TypeOK'
  OBVIOUS
<1> USE DEF TypeOK
<1>1. CASE Poll
  BY <1>1 DEF Poll, lastVars, latch
<1>2. CASE Update
  <2>1. PICK t \in Touches(held, wanted) :
          LET out == GameInput(held, wanted, t)
              due == ~lastValid \/ out # last \/ wanted.gameplay # lastEnabled
          IN /\ core' = IF due THEN out ELSE core
             /\ last' = IF due THEN out ELSE last
             /\ lastValid' = (lastValid \/ due)
    BY <1>2 DEF Update
  <2>2. GameInput(held, wanted, t) \in Input
    BY <2>1, TouchesTyped, GameInputTyped
  <2>3. core' \in Input /\ last' \in Input
    BY <2>1, <2>2
  <2>4. lastValid' \in BOOLEAN
    BY <2>1
  <2>5. lastEnabled' \in BOOLEAN
    BY <1>2 DEF Update, Runtime
  <2>6. QED  BY <1>2, <2>3, <2>4, <2>5 DEF Update, poll, latch
<1>3. CASE Publish
  <2>1. PressedHotkeys(held, previous, wanted) \subseteq Hotkey
    BY DEF PressedHotkeys, HeldHotkeys
  <2>2. QED  BY <1>3, <2>1 DEF Publish, poll, lastVars
<1>4. CASE Exit
  BY <1>4, NoInputTyped DEF Exit, poll, lastVars, latch
<1>5. CASE Read
  BY <1>5 DEF Read, poll, lastVars
<1>6. CASE Destroy
  BY <1>6 DEF Destroy, poll, lastVars, latch
<1>7. CASE \E r \in Runtime : UpdateRuntime(r)
  BY <1>7 DEF UpdateRuntime, poll, lastVars, latch
<1>8. CASE UNCHANGED vars
  BY <1>8 DEF vars, poll, lastVars, latch
<1>9. QED
  BY <1>1, <1>2, <1>3, <1>4, <1>5, <1>6, <1>7, <1>8 DEF Next, SamplerStep, HostStep

(* Every step keeps what the thread knows.                                  *)
LEMMA ThreadStep == TypeOK /\ ThreadInv /\ [Next]_vars => ThreadInv'
<1> SUFFICES ASSUME TypeOK, ThreadInv, [Next]_vars PROVE ThreadInv'
  OBVIOUS
<1> USE DEF ThreadInv
<1>1. CASE Poll
  BY <1>1 DEF Poll, lastVars, latch
<1>2. CASE Update
  <2>1. PICK t \in Touches(held, wanted) :
          LET out == GameInput(held, wanted, t)
              due == ~lastValid \/ out # last \/ wanted.gameplay # lastEnabled
          IN /\ core' = IF due THEN out ELSE core
             /\ last' = IF due THEN out ELSE last
             /\ lastValid' = (lastValid \/ due)
    BY <1>2 DEF Update
  <2>2. core' = last'
    BY <1>2, <2>1 DEF Update
  <2>3. lastValid'
    BY <2>1
  <2>4. QED  BY <1>2, <2>2, <2>3 DEF Update, latch
<1>3. CASE Publish
  BY <1>3 DEF Publish, lastVars
<1>4. CASE Exit
  BY <1>4 DEF Exit, lastVars, latch
<1>5. CASE Read
  BY <1>5 DEF Read, lastVars
<1>6. CASE Destroy
  BY <1>6 DEF Destroy, lastVars, latch
<1>7. CASE \E r \in Runtime : UpdateRuntime(r)
  BY <1>7 DEF UpdateRuntime, lastVars, latch
<1>8. CASE UNCHANGED vars
  BY <1>8 DEF vars, lastVars, latch
<1>9. QED
  BY <1>1, <1>2, <1>3, <1>4, <1>5, <1>6, <1>7, <1>8 DEF Next, SamplerStep, HostStep

(* Steps other than Publish and Read leave the latches and the last read    *)
(* alone.                                                                   *)
LEMMA OthersKeepLatches ==
  ASSUME [Next]_vars, ~Publish, ~Read
  PROVE  UNCHANGED <<snapshot, downLatch, hotLatch, readHeld>>
<1>1. CASE SamplerStep
  BY <1>1 DEF SamplerStep, Poll, Update, Exit, latch
<1>2. CASE HostStep
  BY <1>2 DEF HostStep, Destroy, UpdateRuntime, latch
<1>3. CASE UNCHANGED vars
  BY <1>3 DEF vars, latch
<1>4. QED  BY <1>1, <1>2, <1>3 DEF Next

(* Every step keeps the presses that the host has not read latched.  In the *)
(* poll that is published a press is an edge against the last snapshot; a   *)
(* button held in both was latched already, or the host knows it.           *)
LEMMA PressesStep ==
  TypeOK /\ ThreadInv /\ PressesAreLatched /\ [Next]_vars => PressesAreLatched'
<1> SUFFICES ASSUME TypeOK, ThreadInv, PressesAreLatched, [Next]_vars
             PROVE  PressesAreLatched'
  OBVIOUS
<1>1. CASE Publish
  <2>1. /\ snapshot' = held /\ readHeld' = readHeld
        /\ downLatch' = downLatch \cup (held \ snapshot)
        /\ hotLatch' = hotLatch \cup PressedHotkeys(held, snapshot, wanted)
    BY <1>1 DEF Publish, ThreadInv
  <2>2. snapshot' \ readHeld' \subseteq downLatch'
    BY <2>1 DEF PressesAreLatched
  <2>3. ASSUME NEW h \in Hotkey \ {Recenter}, ComboHeld(held, h), ~ComboHeld(readHeld, h)
        PROVE  h \in hotLatch'
    <3>1. CASE ComboHeld(snapshot, h)
      BY <2>1, <2>3, <3>1 DEF PressesAreLatched
    <3>2. CASE ~ComboHeld(snapshot, h)
      BY <2>1, <2>3, <3>2, PressedComplete
    <3>3. QED  BY <3>1, <3>2
  <2>4. QED  BY <2>1, <2>2, <2>3 DEF PressesAreLatched, ComboHeld
<1>2. CASE Read
  BY <1>2 DEF Read, PressesAreLatched, ComboHeld
<1>3. CASE ~Publish /\ ~Read
  BY <1>3, OthersKeepLatches DEF PressesAreLatched, ComboHeld
<1>4. QED  BY <1>1, <1>2, <1>3

(* Every step keeps hotkeys from being reported twice: a combination that   *)
(* is complete anew has a button that the last snapshot did not have.       *)
LEMMA HotkeyStep ==
  TypeOK /\ ThreadInv /\ NoHotkeyTwice /\ [Next]_vars => NoHotkeyTwice'
<1> SUFFICES ASSUME TypeOK, ThreadInv, NoHotkeyTwice, [Next]_vars PROVE NoHotkeyTwice'
  OBVIOUS
<1>1. CASE Publish
  <2>1. /\ readHeld' = readHeld
        /\ downLatch' = downLatch \cup (held \ snapshot)
        /\ hotLatch' = hotLatch \cup PressedHotkeys(held, snapshot, wanted)
    BY <1>1 DEF Publish, ThreadInv
  <2>2. ASSUME NEW h \in Hotkey, h \in hotLatch'
        PROVE  ~ComboHeld(readHeld, h) \/ Combo[h] \cap downLatch' # {}
    <3>1. CASE h \in hotLatch
      BY <2>1, <3>1 DEF NoHotkeyTwice
    <3>2. CASE h \in PressedHotkeys(held, snapshot, wanted)
      <4>1. ComboHeld(held, h) /\ ~ComboHeld(snapshot, h)
        BY <3>2, PressedMeaning
      <4>2. PICK x \in Combo[h] : x \in held \ snapshot
        BY <4>1 DEF ComboHeld
      <4>3. QED  BY <2>1, <4>2
    <3>3. QED  BY <2>1, <2>2, <3>1, <3>2
  <2>3. QED  BY <2>1, <2>2 DEF NoHotkeyTwice, ComboHeld
<1>2. CASE Read
  BY <1>2 DEF Read, NoHotkeyTwice
<1>3. CASE ~Publish /\ ~Read
  BY <1>3, OthersKeepLatches DEF NoHotkeyTwice, ComboHeld
<1>4. QED  BY <1>1, <1>2, <1>3

(* Every step keeps the core free of input after the end.                   *)
LEMMA EndStep ==
  TypeOK /\ ThreadInv /\ ReleasedAtTheEnd /\ [Next]_vars => ReleasedAtTheEnd'
<1> SUFFICES ASSUME TypeOK, ThreadInv, ReleasedAtTheEnd, [Next]_vars
             PROVE  ReleasedAtTheEnd'
  OBVIOUS
<1>1. CASE Exit
  <2>1. core' = IF lastValid /\ (last # NoInput \/ lastEnabled) THEN NoInput ELSE core
    BY <1>1 DEF Exit
  <2>2. core = last /\ (~lastValid => last = NoInput)
    BY <1>1 DEF Exit, ThreadInv
  <2>3. QED  BY <2>1, <2>2 DEF ReleasedAtTheEnd
<1>2. CASE Poll \/ Update \/ Publish
  BY <1>2 DEF Poll, Update, Publish, ReleasedAtTheEnd
<1>3. CASE HostStep
  BY <1>3 DEF HostStep, Read, Destroy, UpdateRuntime, ReleasedAtTheEnd
<1>4. CASE UNCHANGED vars
  BY <1>4 DEF vars, ReleasedAtTheEnd
<1>5. QED  BY <1>1, <1>2, <1>3, <1>4 DEF Next, SamplerStep

(* The invariant is inductive.                                              *)
LEMMA StepIInv == IInv /\ [Next]_vars => IInv'
  BY TypeStep, ThreadStep, PressesStep, HotkeyStep, EndStep DEF IInv

--------------------------------------------------------------------------------
(* The theorems *)

(* The sampler's state is well typed.                                       *)
THEOREM SamplerTypeCorrect == Spec => []TypeOK
<1>1. IInv => TypeOK
  BY DEF IInv
<1>2. QED  BY InitIInv, StepIInv, <1>1, PTL DEF Spec

(* A press is latched until the host reads it, however the sampler's polls  *)
(* and the host's reads interleave (publish_snapshot against                *)
(* drastic_input_sampler_read).                                             *)
THEOREM PressesLatched == Spec => []PressesAreLatched
<1>1. IInv => PressesAreLatched
  BY DEF IInv
<1>2. QED  BY InitIInv, StepIInv, <1>1, PTL DEF Spec

(* A hotkey that stays held is reported once.                               *)
THEOREM HotkeysOnce == Spec => []NoHotkeyTwice
<1>1. IInv => NoHotkeyTwice
  BY DEF IInv
<1>2. QED  BY InitIInv, StepIInv, <1>1, PTL DEF Spec

(* The end of the thread leaves no key held in the core, wherever in a poll *)
(* the sampler was destroyed.                                               *)
THEOREM CoreReleased == Spec => []ReleasedAtTheEnd
<1>1. IInv => ReleasedAtTheEnd
  BY DEF IInv
<1>2. QED  BY InitIInv, StepIInv, <1>1, PTL DEF Spec

(* A press reaches the host once, and nothing outlives the sampler, however  *)
(* polls, reads and the sampler's end interleave.                            *)
THEOREM InputWhole == Spec => []InputIsWhole
<1>1. PressesAreLatched /\ NoHotkeyTwice /\ ReleasedAtTheEnd => InputIsWhole
  BY DEF InputIsWhole
<1>2. QED  BY PressesLatched, HotkeysOnce, CoreReleased, <1>1, PTL
================================================================================
