-------------------------------- MODULE MenuPages --------------------------------
(***************************************************************************)
(* The pages of the in-game menu that change settings                      *)
(* (src/source/ingame_menu.c): the main page, the display page with the    *)
(* filter picker and the way into and out of the layout editor, the        *)
(* emulation page and the audio and input page.                            *)
(*                                                                         *)
(* A setting is kept in up to three places: the running configuration, the *)
(* preferences, and the word the core was given.  A filter is tried on the *)
(* running picture before it is chosen; a custom shader has to be loaded   *)
(* for that, which may fail.                                               *)
(***************************************************************************)
EXTENDS Naturals, Integers, Sequences

CONSTANTS
  Filters,  \* the built-in filters, in their order
  Shader    \* paths of custom shaders

Custom == "custom"
NoShader == "none"

(* A row toggles between two values here, and stands for the rows of its page   *)
(* that are kept in the same places.  Running: rows of DrasticRuntimeConfig;    *)
(* Core: those that drastic_config_build_core_config reads from the preferences. *)
DisplayRow == {"layout", "swapped"}
EmulationRow == {"frameskip"}
AudioRow == {"sound", "microphone"}
Running == {"layout", "swapped", "microphone"}
Core == {"frameskip", "sound", "microphone"}
Row == DisplayRow \cup EmulationRow \cup AudioRow

Page == {"closed", "main", "display", "picker", "editor", "emulation", "audio", "other"}
Values(s) == {s[i] : i \in DOMAIN s}
Lists == {s \in UNION {[1 .. n -> Shader] : n \in 0 .. 2} : \A i, j \in DOMAIN s : s[i] = s[j] => i = j}

VARIABLES
  page,       \* "other": the pages of states and cheats
  config,     \* the running configuration: [row, filter, shader]
  saved,      \* the preferences: [row, filter, shader]
  core,       \* the rows of the word the core was given
  installed,  \* the shader the renderer has loaded
  found,      \* custom_shaders, as last scanned
  backup,     \* what B in the picker or in the editor goes back to
  picker,     \* [custom, index, valid]; both of no use, and Nothing, elsewhere
  leaving     \* exit_requested

vars == <<page, config, saved, core, installed, found, backup, picker, leaving>>

Nothing == [row |-> <<>>]
Filter == Values(Filters) \cup {Custom}
Running0 == [row : [Running -> BOOLEAN], filter : Filter, shader : Shader \cup {NoShader}]

TypeOK ==
  /\ page \in Page
  /\ config \in Running0
  /\ saved \in [row : [Row -> BOOLEAN], filter : Filter, shader : Shader \cup {NoShader}]
  /\ core \in [Core -> BOOLEAN]
  /\ installed \in Shader \cup {NoShader}
  /\ found \in Lists
  /\ backup \in Running0 \cup {Nothing}
  /\ picker \in {Nothing} \cup [custom : BOOLEAN, index : Nat, valid : BOOLEAN]
  /\ leaving \in BOOLEAN

(* drastic_config_load has read the preferences; a custom filter whose shader   *)
(* does not load ends the start (drastic_vk_renderer.c:2327-2330).              *)
Init ==
  /\ page = "closed" /\ leaving = FALSE
  /\ saved \in [row : {[r \in Row |-> FALSE]}, filter : Filter, shader : Shader \cup {NoShader}]
  /\ saved.filter = Custom => saved.shader # NoShader
  /\ config = [row |-> [r \in Running |-> saved.row[r]], filter |-> saved.filter, shader |-> saved.shader]
  /\ core = [r \in Core |-> saved.row[r]]
  /\ installed = IF saved.filter = Custom THEN saved.shader ELSE NoShader
  /\ found = <<>> /\ backup = Nothing /\ picker = Nothing

chosen == <<config, saved, core, installed>>
trying == <<backup, picker, found>>
Forget == backup' = Nothing /\ picker' = Nothing /\ found' = <<>>

--------------------------------------------------------------------------------
(* Opening, closing and the main page *)

Open ==
  /\ page = "closed" /\ ~leaving
  /\ page' = "main"
  /\ UNCHANGED <<chosen, trying, leaving>>

\* The swap hotkey changes the running configuration alone.
SwapHotkey ==
  /\ page = "closed" /\ ~leaving
  /\ config' = [config EXCEPT !.row["swapped"] = ~@]
  /\ UNCHANGED <<page, saved, core, installed, trying, leaving>>

\* Resume, Reset, or Quit.
Close ==
  /\ page = "main" /\ page' = "closed"
  /\ leaving' \in BOOLEAN
  /\ UNCHANGED <<chosen, trying>>

SelectPage ==
  /\ page = "main"
  /\ page' \in {"display", "emulation", "audio", "other"}
  /\ UNCHANGED <<chosen, trying, leaving>>

Back ==
  /\ page \in {"display", "emulation", "audio", "other"}
  /\ page' = "main"
  /\ UNCHANGED <<chosen, trying, leaving>>

--------------------------------------------------------------------------------
(* Rows: a change is saved at once *)

Toggled(v, r) == IF r \in DOMAIN v THEN [v EXCEPT ![r] = ~@] ELSE v

\* A row of the running configuration is saved as it is there now.
Save(r) ==
  /\ config' = [config EXCEPT !.row = Toggled(@, r)]
  /\ saved' = [saved EXCEPT !.row[r] = IF r \in Running THEN config'.row[r] ELSE ~@]

\* apply_core_config
ApplyCore == core' = [r \in Core |-> saved'.row[r]]

ChangeDisplay ==
  /\ page = "display"
  /\ \E r \in DisplayRow : Save(r)
  /\ UNCHANGED <<page, core, installed, trying, leaving>>

ChangeEmulation ==
  /\ page = "emulation"
  /\ \E r \in EmulationRow : Save(r)
  /\ ApplyCore
  /\ UNCHANGED <<page, installed, trying, leaving>>

\* Mutant: the core is told of the microphone's rows only.
ChangeAudioSound ==
  /\ page = "audio"
  /\ \E r \in AudioRow :
       /\ Save(r)
       /\ IF r = "microphone" THEN ApplyCore ELSE core' = core
  /\ UNCHANGED <<page, installed, trying, leaving>>

\* Sound, the microphone and its level are in the core's word.
ChangeAudio ==
  /\ page = "audio"
  /\ \E r \in AudioRow :
       /\ Save(r)
       /\ IF r \in Core THEN ApplyCore ELSE core' = core
  /\ UNCHANGED <<page, installed, trying, leaving>>

--------------------------------------------------------------------------------
(* The filter picker *)

Step(i, d, n) == ((i - 1 + d + n) % n) + 1

\* select_builtin_filter_candidate
TryBuiltin(i) ==
  /\ picker' = [custom |-> FALSE, index |-> i, valid |-> TRUE]
  /\ config' = [config EXCEPT !.filter = Filters[i]]
  /\ UNCHANGED installed

\* select_custom_shader_candidate: the renderer keeps its shader if this fails.
TryShader(i, list) ==
  \/ /\ picker' = [custom |-> TRUE, index |-> i, valid |-> TRUE]
     /\ config' = [config EXCEPT !.filter = Custom, !.shader = list[i]]
     /\ installed' = list[i]
  \/ /\ picker' = [custom |-> TRUE, index |-> i, valid |-> FALSE]
     /\ UNCHANGED <<config, installed>>

\* The place of the configured filter in the list, 0 if it is not in it.
IndexOf(list, x) == IF \E i \in DOMAIN list : list[i] = x
                    THEN CHOOSE i \in DOMAIN list : list[i] = x ELSE 0

FirstCandidate(list, x, d) ==
  IF IndexOf(list, x) = 0 THEN IF d < 0 THEN Len(list) ELSE 1
  ELSE Step(IndexOf(list, x), d, Len(list))

BeginBuiltin ==
  /\ page = "display" /\ page' = "picker"
  /\ backup' = config
  /\ \E d \in -1 .. 1 : TryBuiltin(FirstCandidate(Filters, config.filter, d))
  /\ UNCHANGED <<saved, core, found, leaving>>

\* The shaders are scanned anew; without any the page stays.
BeginCustom ==
  /\ page = "display"
  /\ found' \in Lists
  /\ IF found' = <<>>
     THEN UNCHANGED <<page, config, installed, backup, picker>>
     ELSE /\ page' = "picker" /\ backup' = config
          /\ \E d \in -1 .. 1 : TryShader(FirstCandidate(found', config.shader, d), found')
  /\ UNCHANGED <<saved, core, leaving>>

Preview ==
  /\ page = "picker"
  /\ \E d \in {-1, 1} :
       IF picker.custom THEN TryShader(Step(picker.index, d, Len(found)), found)
       ELSE TryBuiltin(Step(picker.index, d, Len(Filters)))
  /\ UNCHANGED <<page, saved, core, backup, found, leaving>>

\* Mutant: the shader that was tried last stays installed.
CancelPickerKeepsShader ==
  /\ page = "picker"
  /\ page' = "display"
  /\ config' = [config EXCEPT !.filter = backup.filter, !.shader = backup.shader]
  /\ UNCHANGED <<saved, core, installed, leaving>>
  /\ Forget

\* restore_filter_backup: a custom shader is loaded again, which may fail and
\* keeps the picker open.
CancelPicker ==
  /\ page = "picker"
  /\ \/ /\ page' = "display"
        /\ installed' = IF backup.filter = Custom THEN backup.shader ELSE installed
        /\ config' = [config EXCEPT !.filter = backup.filter, !.shader = backup.shader]
        /\ Forget
     \/ /\ backup.filter = Custom
        /\ UNCHANGED <<page, installed, config, trying>>
  /\ UNCHANGED <<saved, core, leaving>>

ApplyPicker ==
  /\ page = "picker" /\ picker.valid
  /\ page' = "display"
  /\ saved' = [saved EXCEPT !.filter = config.filter,
                            !.shader = IF picker.custom THEN config.shader ELSE @]
  /\ UNCHANGED <<config, core, installed, leaving>>
  /\ Forget

--------------------------------------------------------------------------------
(* The layout editor shows the custom layout; LayoutEditor has its rectangles.  *)

BeginEditor ==
  /\ page = "display" /\ page' = "editor"
  /\ backup' = config
  /\ config' = [config EXCEPT !.row["layout"] = TRUE]
  /\ UNCHANGED <<saved, core, installed, picker, found, leaving>>

CancelEditor ==
  /\ page = "editor" /\ page' = "display"
  /\ config' = [config EXCEPT !.row["layout"] = backup.row["layout"]]
  /\ UNCHANGED <<saved, core, installed, leaving>>
  /\ Forget

ApplyEditor ==
  /\ page = "editor" /\ page' = "display"
  /\ config' = [config EXCEPT !.row["layout"] = TRUE]
  /\ saved' = [saved EXCEPT !.row["layout"] = TRUE]
  /\ UNCHANGED <<core, installed, leaving>>
  /\ Forget

Next ==
  \/ Open \/ SwapHotkey \/ Close \/ SelectPage \/ Back
  \/ ChangeDisplay \/ ChangeEmulation \/ ChangeAudio
  \/ BeginBuiltin \/ BeginCustom \/ Preview \/ CancelPicker \/ ApplyPicker
  \/ BeginEditor \/ CancelEditor \/ ApplyEditor

Spec == Init /\ [][Next]_vars

--------------------------------------------------------------------------------
(* Trying, cancelling and failing leave no trace: outside the picker and the    *)
(* editor the game runs as the preferences say, so that the next start shows    *)
(* the same (the screens may have been swapped by the hotkey); the core has the *)
(* saved rows; and whenever a custom filter is chosen, the shader it names is   *)
(* the one the renderer has (ingame_menu.c:1385-1520).                          *)
MenuLeavesNoTrace ==
  /\ page \notin {"picker", "editor"} =>
       /\ config.filter = saved.filter /\ config.shader = saved.shader
       /\ \A r \in Running \ {"swapped"} : config.row[r] = saved.row[r]
  /\ \A r \in Core : core[r] = saved.row[r]
  /\ config.filter = Custom => installed = config.shader

--------------------------------------------------------------------------------
(* What holds in every state, and why trying leaves no trace: the picker and    *)
(* the editor know what they go back to, and change nothing else; the picker's  *)
(* candidate is one of its list.                                                *)
CandidateListed ==
  page = "picker" =>
    /\ picker # Nothing
    /\ picker.index \in DOMAIN IF picker.custom THEN found ELSE Filters

BackAsSaved ==
  /\ page = "picker" => backup.filter = saved.filter /\ backup.shader = saved.shader
  /\ page = "editor" => backup.row["layout"] = saved.row["layout"]

OnlyTried ==
  /\ page = "picker" =>
       /\ \A r \in Running \ {"swapped"} : config.row[r] = saved.row[r]
       /\ picker.custom \/ config.shader = saved.shader
  /\ page = "editor" =>
       /\ config.row["microphone"] = saved.row["microphone"]
       /\ config.filter = saved.filter /\ config.shader = saved.shader

IInv ==
  /\ TypeOK
  /\ page \in {"picker", "editor"} => backup # Nothing
  /\ CandidateListed /\ BackAsSaved /\ OnlyTried /\ MenuLeavesNoTrace
================================================================================
