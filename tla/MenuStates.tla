------------------------------- MODULE MenuStates -------------------------------
(***************************************************************************)
(* Save states and the in-game menu's page of them                         *)
(* (src/source/ingame_menu.c:219-286, 1273-1317, 1901-1911).  The core     *)
(* saves on a thread of its own: a save is requested and ends later, while *)
(* the menu shows a picture of the slot it has read before.                *)
(*                                                                         *)
(* The core tells nobody the name of a state's file.  To delete a state    *)
(* the menu looks for the one file whose name ends with the slot's number  *)
(* and whose pictures are those it shows; states of other games have such  *)
(* names too.                                                              *)
(***************************************************************************)
EXTENDS Naturals, Integers, FiniteSets

CONSTANTS
  Slots,    \* slots (10 in the code)
  Pictures  \* bound: pictures a state may hold, 0 the black one

Slot == 0 .. Slots - 1
Picture == 0 .. Pictures - 1
NoFile == -1
NoSlot == -1
Game == {"own", "other"}
Nobody == [game |-> "none", picture |-> NoFile]

VARIABLES
  files,      \* the states on the card: [Game -> [Slot -> their pictures]]
  slot,       \* *state_slot, which the page selects
  shown,      \* the picture shown; NoFile if there is none to show
  open,       \* the page is shown
  confirm,    \* confirm_delete_slot
  pending,    \* pending_snapshot
  saving,     \* the slot the core is saving
  removing,   \* the file delete_matching_state has found
  asked,      \* history: the picture that was shown when Y was pressed first
  disturbed   \* history: a save of the slot has ended and is not shown yet, or is
              \* shown since the user was asked

vars == <<files, slot, shown, open, confirm, pending, saving, removing, asked, disturbed>>
question == <<confirm, asked, disturbed>>

TypeOK ==
  /\ files \in [Game -> [Slot -> Picture \cup {NoFile}]]
  /\ slot \in Slot
  /\ shown \in Picture \cup {NoFile}
  /\ open \in BOOLEAN /\ pending \in BOOLEAN /\ disturbed \in BOOLEAN
  /\ confirm \in Slot \cup {NoSlot}
  /\ saving \in Slot \cup {NoSlot}
  /\ removing \in Game \cup {"none", "nothing"}
  /\ asked \in Picture \cup {NoFile}

Init ==
  /\ files \in [Game -> [Slot -> Picture \cup {NoFile}]]
  /\ slot \in Slot
  /\ shown = NoFile /\ open = FALSE /\ confirm = NoSlot /\ pending = FALSE
  /\ saving = NoSlot /\ removing = "none" /\ asked = NoFile /\ disturbed = FALSE

\* refresh_snapshot: black pictures are none.
Read(s) == IF files["own"][s] = 0 THEN NoFile ELSE files["own"][s]

\* confirm_delete_slot is set or forgotten.
Ask(s) ==
  /\ confirm' = s /\ asked' = (IF s = NoSlot THEN NoFile ELSE shown)
  /\ disturbed' = (shown' # Read(slot'))

Idle == removing = "none"

--------------------------------------------------------------------------------
(* The core *)

SaveEnds ==
  /\ saving # NoSlot
  /\ \E p \in Picture : files' = [files EXCEPT !["own"][saving] = p]
  /\ disturbed' = (disturbed \/ saving = slot)
  /\ saving' = NoSlot
  /\ UNCHANGED <<slot, shown, open, confirm, pending, removing, asked>>

(* Out of the page: hotkeys of the session *)

HotkeySave ==
  /\ ~open /\ saving = NoSlot
  /\ saving' = slot
  /\ UNCHANGED <<files, slot, shown, open, question, pending, removing>>

HotkeySlot ==
  /\ ~open
  /\ slot' \in {(slot + 1) % Slots, (slot + Slots - 1) % Slots}
  /\ UNCHANGED <<files, shown, open, question, pending, saving, removing>>

\* select_page(MENU_STATES)
OpenPage ==
  /\ ~open /\ open' = TRUE
  /\ shown' = Read(slot)
  /\ UNCHANGED <<files, slot, pending, saving, removing>>
  /\ Ask(NoSlot)

--------------------------------------------------------------------------------
(* One update of the page *)

\* drastic_menu_update looks at the pending save first, on every page.
Notice ==
  /\ pending /\ saving = NoSlot /\ Idle
  /\ pending' = FALSE
  /\ shown' = Read(slot)
  /\ disturbed' = (confirm # NoSlot)
  /\ UNCHANGED <<files, slot, open, confirm, saving, removing, asked>>

Ready == open /\ Idle /\ ~(pending /\ saving = NoSlot)

Navigate ==
  /\ Ready
  /\ slot' \in Slot \ {slot}
  /\ shown' = Read(slot')
  /\ UNCHANGED <<files, open, pending, saving, removing>>
  /\ Ask(NoSlot)

\* B, or A with a state that loads: the page is left, the question forgotten.
LeavePage ==
  /\ Ready /\ open' = FALSE
  /\ UNCHANGED <<files, slot, shown, pending, saving, removing>>
  /\ Ask(NoSlot)

LoadFails ==
  /\ Ready
  /\ UNCHANGED <<files, slot, shown, open, pending, saving, removing>>
  /\ Ask(NoSlot)

\* The core takes the request or refuses it.
RequestSave ==
  /\ Ready
  /\ \/ saving = NoSlot /\ saving' = slot /\ pending' = TRUE
     \/ saving' = saving /\ pending' = FALSE
  /\ UNCHANGED <<files, slot, shown, open, removing>>
  /\ Ask(NoSlot)

\* The first Y asks; without a picture there is nothing to delete.
AskDelete ==
  /\ Ready /\ (shown = NoFile \/ confirm # slot)
  /\ UNCHANGED <<files, slot, shown, open, pending, saving, removing>>
  /\ Ask(IF shown = NoFile THEN NoSlot ELSE slot)

Matching == {g \in Game : files[g][slot] = shown}

\* Mutant: the first file that matches will do.
FindFileFirst ==
  /\ Ready /\ shown # NoFile /\ confirm = slot
  /\ removing' \in IF Matching = {} THEN {"nothing"} ELSE Matching
  /\ UNCHANGED <<files, slot, shown, open, question, pending, saving>>

\* The second Y: delete_matching_state compares every file of that number.
FindFile ==
  /\ Ready /\ shown # NoFile /\ confirm = slot
  /\ removing' \in IF Cardinality(Matching) = 1 THEN Matching ELSE {"nothing"}
  /\ UNCHANGED <<files, slot, shown, open, question, pending, saving>>

\* The file is removed, unless that fails, and the preview read again.
RemoveFile ==
  /\ removing # "none" /\ removing' = "none"
  /\ \/ removing \in Game /\ files' = [files EXCEPT ![removing][slot] = NoFile]
     \/ files' = files
  /\ confirm' = NoSlot /\ asked' = NoFile /\ disturbed' = FALSE
  /\ shown' = IF files'["own"][slot] = 0 THEN NoFile ELSE files'["own"][slot]
  /\ UNCHANGED <<slot, open, pending, saving>>

Next ==
  \/ SaveEnds \/ HotkeySave \/ HotkeySlot \/ OpenPage \/ Notice \/ Navigate \/ LeavePage
  \/ LoadFails \/ RequestSave \/ AskDelete \/ FindFile \/ RemoveFile

Spec == Init /\ [][Next]_vars

--------------------------------------------------------------------------------
(* A state is deleted only if it is this game's state of the selected slot and  *)
(* holds the picture that was shown when the user was asked, whatever states of *)
(* other games look like; except where a save of that slot ends between the     *)
(* reading of the picture and the removal, which the code does not exclude      *)
(* (ingame_menu.c:240-286, 1299-1312): then it may be another game's.           *)
DeletesWhatIsShown ==
  \A g \in Game, s \in Slot :
    files[g][s] # NoFile /\ files'[g][s] = NoFile /\ ~disturbed
      => g = "own" /\ s = slot /\ files[g][s] = asked
--------------------------------------------------------------------------------
(* What holds in every state, and why only what is shown is deleted: a question *)
(* is asked on the page only, and with no save in between it is about the       *)
(* picture of the own state; and of files that match there is one, the own.     *)
AskedOnThePage == ~open => confirm = NoSlot /\ removing = "none"

AskedAsShown ==
  confirm # NoSlot /\ ~disturbed => shown = Read(slot) /\ asked = shown

FoundAsAsked ==
  removing \in Game /\ ~disturbed => removing = "own" /\ files["own"][slot] = asked

IInv == TypeOK /\ AskedOnThePage /\ AskedAsShown /\ FoundAsAsked
================================================================================
