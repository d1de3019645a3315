------------------------------- MODULE EmuSession -------------------------------
(***************************************************************************)
(* The host's session around the core, src/source/main.c from the start of *)
(* main to its end: the steps that start it, the frame loop with its       *)
(* hotkeys, the in-game menu opening and closing over it, the system taking*)
(* the focus away and giving it back, the core's game thread ending by     *)
(* itself, and the shutdown.                                               *)
(*                                                                         *)
(* The main thread does everything but run the game; the game thread may   *)
(* end between any two of its steps.  The system's notices are handled     *)
(* inside appletMainLoop, so on the main thread too.                       *)
(***************************************************************************)
EXTENDS Naturals, Integers, Sequences, FiniteSets

CONSTANTS
  Config,   \* the core's settings, without the fast-forward bit
  Slots,    \* save slots (10 in the code)
  Together  \* bound: hotkeys pressed at most between two reads

\* save, load and reset are told apart by nothing here: "state".
Hotkey == {"menu", "state", "next", "quit", "fast", "swap", "lid"}

\* The steps of the start and of the end, in their order.
Starting == <<"storage", "load", "init", "renderer", "rom", "menu", "thread", "sampler", "hook">>
Ending == <<"leaving", "stopping", "joining", "tearing", "ended">>

VARIABLES
  stage,     \* the main thread's step
  game,      \* the core: [alive, paused, config, fast]
  settings,  \* DrasticRuntimeConfig: [config, noise, vibration, swapped]
  controls,  \* RuntimeControls: [fast, latched, toggle, feed, lid, slot, exit]
  menuOpen,  \* the in-game menu is open
  away,      \* AppletLifecycle: [suspended, resume, resumed]
  hooked,    \* the system's notices reach us
  gameplay,  \* the sampler feeds the core
  rumble,    \* rumble_active
  cheated,   \* persisted_cheats_applied
  opening    \* open_menu, of the frame under way

host == <<settings, controls, rumble>>
session == <<menuOpen, away, hooked, cheated, opening>>
vars == <<stage, game, host, session, gameplay>>

CoreState == [alive : BOOLEAN, paused : BOOLEAN, config : Config, fast : BOOLEAN]
Settings == [config : Config, noise : BOOLEAN, vibration : BOOLEAN, swapped : BOOLEAN]
Controls == [fast : -1 .. 1, latched : BOOLEAN, toggle : BOOLEAN, feed : BOOLEAN,
             lid : BOOLEAN, slot : 0 .. Slots - 1, exit : BOOLEAN]
Lifecycle == [suspended : BOOLEAN, resume : BOOLEAN, resumed : BOOLEAN]

TypeOK ==
  /\ stage \in {Starting[i] : i \in DOMAIN Starting} \cup {Ending[i] : i \in DOMAIN Ending}
               \cup {"top", "frame", "wait", "present", "shown", "fatal"}
  /\ game \in CoreState /\ settings \in Settings
  /\ controls \in Controls /\ away \in Lifecycle
  /\ {menuOpen, hooked, gameplay, rumble, cheated, opening} \subseteq BOOLEAN

Init ==
  /\ stage = "storage"
  /\ settings \in [config : Config, noise : BOOLEAN, vibration : BOOLEAN, swapped : {FALSE}]
  /\ game = [alive |-> FALSE, paused |-> FALSE, config |-> settings.config, fast |-> FALSE]
  /\ controls \in [fast : {0}, latched : {FALSE}, toggle : BOOLEAN, feed : {FALSE},
                   lid : {FALSE}, slot : {0}, exit : {FALSE}]
  /\ away = [suspended |-> FALSE, resume |-> FALSE, resumed |-> FALSE]
  /\ menuOpen = FALSE /\ hooked = FALSE /\ gameplay = FALSE
  /\ rumble = FALSE /\ cheated = FALSE /\ opening = FALSE

--------------------------------------------------------------------------------
(* The start.  What cannot be started ends the program with a message. *)

Fatal(from) == stage = from /\ stage' = "fatal" /\ UNCHANGED <<game, host, session, gameplay>>
Go(from, to) == stage = from /\ stage' = to /\ UNCHANGED <<game, host, session, gameplay>>

MountStorage == Go("storage", "load") \/ Fatal("storage")
LoadCore == Go("load", "init") \/ Fatal("load")
InitCore == Go("init", "renderer") \/ Fatal("init")
StartRenderer == Go("renderer", "rom") \/ Fatal("renderer")
PrepareRom == Go("rom", "menu") \/ Fatal("rom")
CreateMenu == Go("menu", "thread") \/ Fatal("menu")

StartGame ==
  \/ Fatal("thread")
  \/ /\ stage = "thread" /\ stage' = "sampler"
     /\ game' = [game EXCEPT !.alive = TRUE]
     /\ UNCHANGED <<host, session, gameplay>>

StartSampler ==
  \/ Fatal("sampler")
  \/ /\ stage = "sampler" /\ stage' = "hook"
     /\ gameplay' = TRUE
     /\ UNCHANGED <<game, host, session>>

Hook ==
  /\ stage = "hook" /\ stage' = "top"
  /\ hooked' \in BOOLEAN
  /\ UNCHANGED <<game, host, menuOpen, away, cheated, opening, gameplay>>

\* core_game_thread_main: startGame has returned.
GameEnds ==
  /\ game.alive
  /\ game' = [game EXCEPT !.alive = FALSE]
  /\ UNCHANGED <<stage, host, session, gameplay>>

--------------------------------------------------------------------------------
(* The focus, inside appletMainLoop *)

Noticing == stage = "top" /\ hooked /\ ~controls.exit

Suspend ==
  /\ Noticing /\ ~away.suspended
  /\ away' = [away EXCEPT !.suspended = TRUE, !.resume = game.alive /\ ~menuOpen]
  /\ game' = [game EXCEPT !.paused = @ \/ away'.resume]
  /\ gameplay' = FALSE
  /\ UNCHANGED <<stage, host, menuOpen, hooked, cheated, opening>>

\* Mutant: the core runs on although the menu is open.
ResumeAnyway ==
  /\ Noticing /\ away.suspended
  /\ game' = [game EXCEPT !.paused = FALSE]
  /\ away' = [suspended |-> FALSE, resume |-> FALSE, resumed |-> TRUE]
  /\ gameplay' = ~menuOpen
  /\ UNCHANGED <<stage, host, menuOpen, hooked, cheated, opening>>

Resume ==
  /\ Noticing /\ away.suspended
  /\ game' = [game EXCEPT !.paused = @ /\ ~(away.resume /\ game.alive)]
  /\ away' = [suspended |-> FALSE, resume |-> FALSE, resumed |-> TRUE]
  /\ gameplay' = ~menuOpen
  /\ UNCHANGED <<stage, host, menuOpen, hooked, cheated, opening>>

--------------------------------------------------------------------------------
(* The loop *)

\* Asked to leave, at the game's end, or at the system's wish.
LeaveLoop == Go("top", "leaving")

\* A resumed session reconciles the fast-forward bit again.
NextFrame ==
  /\ stage = "top" /\ ~controls.exit /\ game.alive /\ ~away.suspended
  /\ away' = [away EXCEPT !.resumed = FALSE]
  /\ controls' = [controls EXCEPT !.fast = IF away.resumed THEN -1 ELSE @]
  /\ stage' = "frame"
  /\ UNCHANGED <<game, settings, rumble, menuOpen, hooked, cheated, opening, gameplay>>

(* An iteration with the menu open: drastic_menu_update leaves it open, having  *)
(* changed settings perhaps, or closes it.                                      *)

\* apply_core_config sets the core's settings without the fast-forward bit.
Change ==
  /\ menuOpen' = menuOpen
  /\ settings' \in {[settings EXCEPT !.config = c] : c \in Config}
                   \cup {[settings EXCEPT !.noise = ~@], [settings EXCEPT !.vibration = ~@],
                         [settings EXCEPT !.swapped = ~@]}
  /\ game' = IF settings' = [settings EXCEPT !.config = settings'.config]
             THEN [game EXCEPT !.config = settings'.config, !.fast = FALSE] ELSE game

NoChange == UNCHANGED <<menuOpen, settings, game>>

\* Resume, a loaded state or Reset.
CloseAndResume ==
  /\ menuOpen' = FALSE
  /\ game' = [game EXCEPT !.paused = FALSE]
  /\ settings' = settings

\* Mutant: fast-forwarding is not reconciled when the menu closes.
MenuFrameForgetsFast ==
  /\ stage = "frame" /\ menuOpen
  /\ NoChange \/ Change \/ CloseAndResume
  /\ gameplay' = ~menuOpen'
  /\ stage' = "top"
  /\ UNCHANGED <<controls, rumble, away, hooked, cheated, opening>>

MenuFrame ==
  /\ stage = "frame" /\ menuOpen
  /\ NoChange \/ Change \/ CloseAndResume
  /\ controls' = [controls EXCEPT !.fast = IF menuOpen' THEN @ ELSE -1]
  /\ gameplay' = ~menuOpen'
  /\ stage' = "top"
  /\ UNCHANGED <<rumble, away, hooked, cheated, opening>>

\* drastic_menu_take_exit_request takes the request at once.
QuitFrame ==
  /\ stage = "frame" /\ menuOpen
  /\ menuOpen' = FALSE
  /\ controls' = [controls EXCEPT !.exit = TRUE, !.fast = -1]
  /\ gameplay' = TRUE
  /\ stage' = "top"
  /\ UNCHANGED <<game, settings, rumble, away, hooked, cheated, opening>>

(* process_input *)

Rumble == rumble' \in IF settings.vibration THEN BOOLEAN ELSE {FALSE}

\* The menu's hotkey comes before all others, which are lost.
AskMenu ==
  /\ opening' = TRUE
  /\ gameplay' = FALSE
  /\ UNCHANGED <<game, host>>

\* pauseSystem, the state's operation, pauseSystem.
StatePaused(p) == IF "state" \in p THEN FALSE ELSE game.paused

FastForward(p, held) ==
  LET latched == controls.latched # ("fast" \in p /\ controls.toggle)
      on == IF controls.toggle THEN latched ELSE held
      fast == IF on THEN 1 ELSE 0
  IN  /\ controls' = [controls EXCEPT !.latched = latched, !.fast = fast,
                                      !.slot = IF "next" \in p THEN (@ + 1) % Slots ELSE @,
                                      !.feed = held /\ settings.noise,
                                      !.lid = @ # ("lid" \in p),
                                      !.exit = @ \/ "quit" \in p]
      /\ game' = IF fast = controls.fast THEN [game EXCEPT !.paused = StatePaused(p)]
                 ELSE [game EXCEPT !.paused = StatePaused(p),
                                   !.config = settings.config, !.fast = on]

ObeyHotkeys(p, held) ==
  /\ FastForward(p, held)
  /\ settings' = [settings EXCEPT !.swapped = @ # ("swap" \in p)]
  /\ Rumble
  /\ opening' = FALSE
  /\ gameplay' = TRUE

ProcessInput ==
  \E p \in {q \in SUBSET Hotkey : Cardinality(q) <= Together}, held \in BOOLEAN :
    IF "menu" \in p THEN AskMenu ELSE ObeyHotkeys(p, held)

\* getFrameInfo reports a transition: the pictures stay as they are.
TransitionFrame ==
  /\ stage = "frame" /\ ~menuOpen
  /\ ProcessInput
  /\ stage' = "shown"
  /\ UNCHANGED <<menuOpen, away, hooked, cheated>>

GameFrame ==
  /\ stage = "frame" /\ ~menuOpen
  /\ ProcessInput
  /\ stage' = "wait"
  /\ UNCHANGED <<menuOpen, away, hooked, cheated>>

\* waitScreen returns with a screen of the running core, or at the game's end.
ScreenArrives ==
  /\ stage = "wait" /\ game.alive /\ ~game.paused
  /\ stage' = "present"
  /\ UNCHANGED <<game, host, session, gameplay>>

EndNoticed ==
  /\ stage = "wait" /\ ~game.alive
  /\ stage' = "leaving"
  /\ UNCHANGED <<game, host, session, gameplay>>

\* The first picture: the saved cheats are set with the core paused.
Present ==
  /\ stage = "present" /\ stage' = "shown"
  /\ cheated' = TRUE
  /\ game' = [game EXCEPT !.paused = @ /\ cheated]
  /\ UNCHANGED <<host, menuOpen, away, hooked, opening, gameplay>>

\* drastic_menu_open, when it was asked for.
FrameDone ==
  /\ stage = "shown" /\ stage' = "top"
  /\ menuOpen' = opening
  /\ game' = [game EXCEPT !.paused = @ \/ opening]
  /\ opening' = FALSE
  /\ UNCHANGED <<host, away, hooked, cheated, gameplay>>

--------------------------------------------------------------------------------
(* The end *)

\* A core that ended by itself before its first picture, and without a result,
\* could not be started: the program ends with a message.
CouldNotStart ==
  /\ stage = "leaving" /\ ~cheated /\ ~game.alive
  /\ stage' = "fatal" /\ hooked' = FALSE
  /\ UNCHANGED <<game, host, menuOpen, away, cheated, opening, gameplay>>

\* The hook is taken away, the slot saved, the launcher scheduled, the sampler
\* destroyed, the motors stopped and the menu freed.
LeaveSession ==
  /\ stage = "leaving" /\ stage' = "stopping"
  /\ hooked' = FALSE /\ gameplay' = FALSE /\ rumble' = FALSE
  /\ menuOpen' = FALSE
  /\ UNCHANGED <<game, settings, controls, away, cheated, opening>>

\* shutdown_core: a live core is paused and told to quit.
StopCore ==
  /\ stage = "stopping" /\ stage' = "joining"
  /\ game' = [game EXCEPT !.paused = game.alive \/ @]
  /\ UNCHANGED <<host, session, gameplay>>

JoinGame ==
  /\ stage = "joining" /\ ~game.alive
  /\ stage' = "tearing"
  /\ UNCHANGED <<game, host, session, gameplay>>

TearDown == Go("tearing", "ended")

Next ==
  \/ MountStorage \/ LoadCore \/ InitCore \/ StartRenderer \/ PrepareRom \/ CreateMenu
  \/ StartGame \/ StartSampler \/ Hook \/ GameEnds
  \/ Suspend \/ Resume
  \/ LeaveLoop \/ NextFrame \/ MenuFrame \/ QuitFrame
  \/ TransitionFrame \/ GameFrame \/ ScreenArrives \/ EndNoticed \/ Present \/ FrameDone
  \/ CouldNotStart \/ LeaveSession \/ StopCore \/ JoinGame \/ TearDown

Spec == Init /\ [][Next]_vars

--------------------------------------------------------------------------------
(* While the menu is open, or the focus is away, a live core stands still and   *)
(* gets no input; and the main thread never waits for a screen of a core that   *)
(* is paused, nor leaves it running after Quit (main.c:773-853, 1062-1141;      *)
(* ingame_menu.c:1262-1268).                                                    *)
CoreStandsStill ==
  /\ menuOpen \/ away.suspended => ~gameplay /\ (game.alive => game.paused)
  /\ stage = "wait" => ~game.paused

(* A frame of the game is run with the settings the menu has set last and the   *)
(* fast-forward bit the host has set, unless the host knows that it has still   *)
(* to set them, the menu being asked for again at once (main.c:725-735,         *)
(* 1086-1091).                                                                  *)
CoreRunsAsSet ==
  stage \in {"wait", "present", "shown"} /\ controls.fast # -1
    => game.config = settings.config /\ (game.fast <=> controls.fast = 1)

(* The core follows the host: both of the above.                                *)
SessionInStep == CoreStandsStill /\ CoreRunsAsSet
--------------------------------------------------------------------------------
(* What holds in every state, and why the core follows the host.                *)

Begun == {"top", "frame", "wait", "present", "shown"}
Finishing == {Ending[i] : i \in DOMAIN Ending}

(* The menu is open, asked for, and the focus away, in these steps only; and    *)
(* the core is not there before its thread is started.                          *)
InTheirSteps ==
  /\ menuOpen => stage \in {"top", "frame", "leaving", "fatal"}
  /\ opening => stage \in {"wait", "present", "shown", "fatal"} \cup Finishing
  /\ away.suspended => stage \in {"top", "fatal"} \cup Finishing
  /\ game.alive => stage \in {"sampler", "hook", "fatal"} \cup Begun \cup Finishing

(* The core stands still while it should, and a menu that was asked for finds   *)
(* the input taken away already.                                                *)
StandsStill ==
  /\ menuOpen \/ away.suspended => ~gameplay /\ (game.alive => game.paused)
  /\ opening => ~gameplay

(* Before a frame a core is paused for a reason; the focus, given back, lets it *)
(* run on unless the reason is the menu; and a frame without the menu runs it.  *)
RunsOtherwise ==
  /\ stage \notin Begun \cup Finishing \cup {"fatal"} => ~game.paused
  /\ stage = "top" /\ game.paused /\ game.alive =>
       menuOpen \/ away.suspended \/ controls.exit
  /\ stage = "top" /\ away.suspended => (away.resume => ~menuOpen)
                                     /\ (game.alive /\ ~menuOpen => away.resume)
  /\ stage \in {"frame", "wait", "present", "shown"} /\ ~menuOpen => ~game.paused

(* Only the menu changes settings without the fast-forward bit.                 *)
SetAsKnown ==
  ~menuOpen /\ controls.fast # -1 /\ stage \notin Finishing \cup {"fatal"} =>
    game.config = settings.config /\ (game.fast <=> controls.fast = 1)

IInv == TypeOK /\ InTheirSteps /\ StandsStill /\ RunsOtherwise /\ SetAsKnown
================================================================================
