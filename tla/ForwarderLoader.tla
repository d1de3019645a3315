--------------------------- MODULE ForwarderLoader ---------------------------
(***************************************************************************)
(* What runs when a HOME shortcut is started (src/launcher/fwd/main.c): the*)
(* title's loader reads its configuration and loads the launcher with the  *)
(* game's key; the launcher names the emulator as the next program, the    *)
(* emulator the launcher.  A program that names none leaves the loader's   *)
(* own argument in place, which tells it to go back to the shortcut's      *)
(* program or, when that is what ended, to HOME.                           *)
(***************************************************************************)
CONSTANT Nro    \* the programs on the card, of "launcher", "emulator", "hbmenu"

Program == {"launcher", "emulator", "hbmenu"}
\* EXIT_DETECTION_STR, an argument no program uses.
Argument == {"none", "key", "exitDetection"}
Command == [nro : Program, argv : Argument]

VARIABLES
    config,     \* the shortcut's configuration: what it says, hbmenu when it is unreadable
    next,       \* g_nextNroPath, g_nextArgv
    default,    \* g_defaultNroPath, g_defaultArgv
    mapped,     \* g_nroSize: an NRO is mapped as code
    proc,       \* what runs: "home", "loader", a program, or "aborted"
    argv,       \* what the program was started with
    chosen      \* history: the game was selected since the user last left one

vars == <<config, next, default, mapped, proc, argv, chosen>>

Shortcut == [nro |-> "launcher", argv |-> "key"]
Nothing == [nro |-> "hbmenu", argv |-> "none"]

Init ==
    /\ config \in {Shortcut, [nro |-> "launcher", argv |-> "none"], Nothing}
    /\ next = Nothing /\ default = Nothing /\ mapped = FALSE
    /\ proc = "home" /\ argv = "none" /\ chosen = FALSE

StartShortcut ==
    /\ proc = "home"
    /\ proc' = "loader" /\ mapped' = FALSE /\ chosen' = TRUE
    /\ UNCHANGED <<config, next, default, argv>>

-----------------------------------------------------------------------------
(* loadNro.                                                                *)

\* The first time, the configuration; when it is not two strings, hbmenu.
ReadConfig(command) ==
    /\ ~mapped
    /\ command = config
    /\ default' = command

\* Afterwards, what the program named: the default's end has no next.
NextCommand(command) ==
    /\ mapped /\ UNCHANGED default
    /\ ~(next.argv = "exitDetection" /\ next.nro = default.nro)
    /\ command = IF next.argv = "exitDetection" THEN default ELSE next

\* The last program is unmapped, the next read, checked and mapped.
LoadNro ==
    /\ proc = "loader"
    /\ \E command \in Command :
          /\ ReadConfig(command) \/ NextCommand(command)
          /\ IF command.nro \in Nro
             THEN proc' = command.nro /\ mapped' = TRUE
             ELSE proc' = "aborted" /\ mapped' = FALSE
          /\ argv' = command.argv
          /\ next' = [nro |-> command.nro, argv |-> "exitDetection"]
    /\ UNCHANGED <<config, chosen>>

selfExit ==
    /\ proc = "loader" /\ mapped
    /\ next.argv = "exitDetection" /\ next.nro = default.nro
    /\ proc' = "home"
    /\ UNCHANGED <<config, next, default, mapped, argv, chosen>>

-----------------------------------------------------------------------------
(* The programs' ends.                                                     *)

\* The game of the key, or one that the user selects, is chained.
LauncherChains ==
    /\ proc = "launcher"
    /\ next' = [nro |-> "emulator", argv |-> "none"] /\ proc' = "loader"
    /\ chosen' = (chosen \/ argv = "none")
    /\ UNCHANGED <<config, default, mapped, argv>>

(* The bug of an exit that leaves the way back to the loader.              *)
ExitsUnnamed ==
    /\ proc = "emulator" /\ proc' = "loader" /\ chosen' = FALSE
    /\ UNCHANGED <<config, next, default, mapped, argv>>

\* The user left: the launcher is next, without the key.
EmulatorExits ==
    /\ proc = "emulator"
    /\ next' = [nro |-> "launcher", argv |-> "none"] /\ proc' = "loader"
    /\ chosen' = FALSE
    /\ UNCHANGED <<config, default, mapped, argv>>

\* A game that ended by itself names no program, and neither does a launcher
\* that is left or hbmenu.
Ends ==
    /\ proc \in Program /\ proc' = "loader"
    /\ UNCHANGED <<config, next, default, mapped, argv, chosen>>

Next == StartShortcut \/ LoadNro \/ selfExit \/ LauncherChains \/ EmulatorExits \/ Ends

Spec == Init /\ [][Next]_vars

-----------------------------------------------------------------------------
\* A user who left the game is not put into it again by the loader, which still
\* has the shortcut's key: the game starts only after it was selected.
ChosenGameOnly == proc = "emulator" => chosen

-----------------------------------------------------------------------------
(* What ChosenGameOnly rests on.                                           *)

TypeOK ==
    /\ config \in Command /\ next \in Command /\ default \in Command
    /\ mapped \in BOOLEAN /\ chosen \in BOOLEAN
    /\ argv \in Argument

\* The shortcut starts the launcher, with a key or without, or hbmenu.
Configured ==
    /\ config.nro # "emulator"
    /\ config.argv = "key" => config.nro = "launcher"
    /\ config.argv # "exitDetection"

\* While a program is mapped the default is the shortcut's.
DefaultIsShortcut ==
    /\ mapped => default = config
    /\ proc \in Program => mapped

\* What is next, with the default: the emulator only for a chosen game, the key
\* only by the default.
NextIsChosen ==
    /\ next.argv # "key"
    /\ mapped /\ next.nro = "emulator" => chosen
    /\ mapped /\ next.nro = "hbmenu" => config.nro = "hbmenu"

\* No program is started with the loader's own argument.
StartedIsChosen ==
    /\ argv # "exitDetection"
    /\ proc = "loader" /\ ~mapped => chosen
    /\ proc = "launcher" /\ argv = "key" => chosen

IInv ==
    TypeOK /\ Configured /\ DefaultIsShortcut /\ NextIsChosen /\ StartedIsChosen /\ ChosenGameOnly
================================================================================
