------------------------------- MODULE VkTextures -------------------------------
(***************************************************************************)
(* What the Vulkan renderer (source/drastic_vk_renderer.c) draws a frame   *)
(* from: the filter textures with their validity flags, the installed      *)
(* custom shader and the overlay textures, while the in-game menu changes  *)
(* the filter, the layout and the overlay between two frames and a frame   *)
(* may be given up at every point where drastic_renderer_present returns.  *)
(*                                                                         *)
(* One queue executes the submitted frames in order, so a texture is shown *)
(* here as the submitted frames leave it; that the host does not overwrite *)
(* what a frame still reads is the concern of VkFrames.  What a texture    *)
(* shows is told apart only as far as the core's last uploaded picture and *)
(* the overlay's current pixels go.                                        *)
(***************************************************************************)
EXTENDS FiniteSets

CONSTANTS
  Screen,    \* the DS screens
  Layout,    \* the sets of screens a layout may show
  Builtin,   \* the built-in filters
  Shader,    \* the custom shader files
  Direct,    \* filters of one pass: they draw the screen textures themselves
  None       \* no filter

ASSUME TexturesAssumption ==
  /\ Layout \subseteq (SUBSET Screen) \ {{}} /\ Layout # {}
  /\ Builtin \cap Shader = {} /\ Builtin # {}
  /\ Direct \subseteq Builtin \cup Shader
  /\ None \notin Builtin \cup Shader \cup {"custom"}
  /\ "custom" \notin Builtin

Filter == Builtin \cup Shader
Family == {"builtin", "custom"}
Orientation == {"landscape", "portrait"}

VARIABLES
  config,      \* filter and layout of DrasticRuntimeConfig
  overlay,     \* the overlay frame: visible, orientation, and whether its
               \* generation is still the one in g_overlay_generation
  custom,      \* g_custom: the shader that is installed
  filtered,    \* g_filtered_filter
  valid,       \* g_filter_valid: screens with a valid flag
  output,      \* the filter whose passes made a screen's output texture from the
               \* current picture; None when it shows an older one or nothing
  pixels,      \* overlay textures that hold the overlay's current pixels
  pc,          \* "idle", or "acquire" between the frame slot and the image
  upload,      \* the frame in progress carries a new picture
  tainted,     \* history: flags were set by commands that were never submitted
  shown        \* the last submitted frame: filter asked for, filters drawn, overlay

vars == <<config, overlay, custom, filtered, valid, output, pixels, pc, upload, tainted, shown>>
menuVars == <<filtered, valid, output, pc, upload, tainted, shown>>

\* The value of video_filter: every custom shader is the same one.
VideoFilter(f) == IF f \in Shader THEN "custom" ELSE f

FamilyOf(f) == IF f \in Shader THEN "custom" ELSE "builtin"

Chained(f) == f \notin Direct

NoOutput == [family \in Family |-> [s \in Screen |-> None]]

--------------------------------------------------------------------------------
(* The in-game menu, between two frames *)

\* select_builtin_filter_candidate
SelectBuiltin(f) ==
  /\ pc = "idle" /\ f \in Builtin
  /\ config' = [config EXCEPT !.filter = f]
  /\ UNCHANGED <<overlay, custom, pixels, menuVars>>

\* A shader that is installed stays; another replaces it with its textures
\* once the device is idle, and nothing is filtered any more.
Install(f) ==
  IF custom = f THEN UNCHANGED <<custom, output, valid, tainted>>
  ELSE /\ custom' = f
       /\ output' = [output EXCEPT !["custom"] = [s \in Screen |-> None]]
       /\ valid' = {}
       /\ tainted' = FALSE

\* select_custom_shader_candidate and restore_filter_backup; when the shader
\* does not load nothing changes.
SelectCustom(f) ==
  /\ pc = "idle" /\ f \in Shader
  /\ Install(f)
  /\ config' = [config EXCEPT !.filter = f]
  /\ UNCHANGED <<overlay, filtered, pixels, pc, upload, shown>>

SelectLayout(screens) ==
  /\ pc = "idle"
  /\ config' = [config EXCEPT !.layout = screens]
  /\ UNCHANGED <<overlay, custom, pixels, menuVars>>

OverlayFinish ==
  /\ pc = "idle"
  /\ overlay' = [overlay EXCEPT !.visible = TRUE, !.uploaded = FALSE]
  /\ pixels' = {}
  /\ UNCHANGED <<config, custom, menuVars>>

OverlayHide ==
  /\ pc = "idle" /\ overlay.visible
  /\ overlay' = [overlay EXCEPT !.visible = FALSE, !.uploaded = FALSE]
  /\ UNCHANGED <<config, custom, pixels, menuVars>>

\* A quarter turn exchanges the overlay's sides, and with them its texture.
OverlayRotate(o) ==
  /\ pc = "idle" /\ o # overlay.orientation
  /\ overlay' = [visible |-> FALSE, orientation |-> o, uploaded |-> FALSE]
  /\ pixels' = {}
  /\ UNCHANGED <<config, custom, menuVars>>

\* drastic_renderer_resume: the flags and the overlay generation are forgotten.
Resume ==
  /\ pc = "idle"
  /\ valid' = {}
  /\ tainted' = FALSE
  /\ overlay' = [overlay EXCEPT !.uploaded = FALSE]
  /\ UNCHANGED <<config, custom, filtered, output, pixels, pc, upload, shown>>

--------------------------------------------------------------------------------
(* drastic_renderer_present *)

\* Mutant: one built-in filter's textures serve another.
RefreshOnPictureOnly(consume) ==
  /\ pc = "idle"
  /\ pc' = "acquire"
  /\ upload' = consume
  /\ filtered' = VideoFilter(config.filter)
  /\ valid' = IF consume THEN {} ELSE valid
  /\ tainted' = (tainted /\ valid' # {})
  /\ UNCHANGED <<config, overlay, custom, output, pixels, shown>>

\* With the frame slot at hand: another filter or a new picture makes every
\* filter texture stale.
Refresh(consume) ==
  /\ pc = "idle"
  /\ pc' = "acquire"
  /\ upload' = consume
  /\ filtered' = VideoFilter(config.filter)
  /\ valid' = IF consume \/ filtered # filtered' THEN {} ELSE valid
  /\ tainted' = (tainted /\ valid' # {})
  /\ UNCHANGED <<config, overlay, custom, output, pixels, shown>>

AcquireFails ==
  /\ pc = "acquire"
  /\ pc' = "idle"
  /\ UNCHANGED <<config, overlay, custom, filtered, valid, output, pixels, upload, tainted, shown>>

\* Screens whose chains are recorded: shown, and not flagged as valid.
Needed == IF Chained(config.filter) THEN config.layout \ valid ELSE {}

\* The output textures once the upload and the chains of this frame have run.
Recorded ==
  LET current == IF upload THEN NoOutput ELSE output
  IN  [current EXCEPT ![FamilyOf(config.filter)] =
        [s \in Screen |-> IF s \in Needed THEN config.filter ELSE @[s]]]

\* The filter a screen is seen through in the frame.
Seen(s) ==
  IF Chained(config.filter) THEN Recorded[FamilyOf(config.filter)][s] ELSE config.filter

UploadOverlay == overlay.visible /\ ~overlay.uploaded

Draw ==
  /\ pc = "acquire"
  /\ pc' = "idle"
  /\ valid' = valid \cup Needed
  /\ output' = Recorded
  /\ pixels' = IF UploadOverlay THEN {overlay.orientation} ELSE pixels
  /\ overlay' = [overlay EXCEPT !.uploaded = @ \/ UploadOverlay]
  /\ shown' = [asked |-> config.filter,
               seen |-> [s \in config.layout |-> Seen(s)], tainted |-> tainted,
               overlay |-> IF ~overlay.visible THEN "hidden"
                           ELSE IF overlay.orientation \in pixels' THEN "current" ELSE "old"]
  /\ UNCHANGED <<config, custom, filtered, upload, tainted>>

\* Recording or submitting fails: the screens whose chains were recorded stay
\* flagged, though nothing was filtered.
DrawFails ==
  /\ pc = "acquire"
  /\ pc' = "idle"
  /\ \E flagged \in SUBSET Needed :
       /\ valid' = valid \cup flagged
       /\ tainted' = (tainted \/ flagged # {})
  /\ UNCHANGED <<config, overlay, custom, filtered, output, pixels, upload, shown>>

--------------------------------------------------------------------------------
\* drastic_renderer_init installs the configured custom shader.
Init ==
  /\ config \in [filter : Filter, layout : Layout]
  /\ overlay \in [visible : {FALSE}, orientation : Orientation, uploaded : {FALSE}]
  /\ custom = IF config.filter \in Shader THEN config.filter ELSE None
  /\ filtered = None
  /\ valid = {}
  /\ output = NoOutput
  /\ pixels = {}
  /\ pc = "idle"
  /\ upload = FALSE
  /\ tainted = FALSE
  /\ shown = [asked |-> None, seen |-> [s \in {} |-> None], tainted |-> FALSE, overlay |-> "hidden"]

Next ==
  \/ \E f \in Filter : SelectBuiltin(f) \/ SelectCustom(f)
  \/ \E screens \in Layout : SelectLayout(screens)
  \/ OverlayFinish \/ OverlayHide \/ Resume
  \/ \E o \in Orientation : OverlayRotate(o)
  \/ \E consume \in BOOLEAN : Refresh(consume)
  \/ AcquireFails \/ Draw \/ DrawFails

Spec == Init /\ [][Next]_vars

--------------------------------------------------------------------------------
(* What every state is made of. *)
TypeOK ==
  /\ config \in [filter : Filter, layout : Layout]
  /\ overlay \in [visible : BOOLEAN, orientation : Orientation, uploaded : BOOLEAN]
  /\ custom \in Shader \cup {None}
  /\ filtered \in Builtin \cup {"custom", None}
  /\ valid \subseteq Screen
  /\ output \in [Family -> [Screen -> Filter \cup {None}]]
  /\ pixels \subseteq Orientation
  /\ pc \in {"idle", "acquire"}
  /\ upload \in BOOLEAN /\ tainted \in BOOLEAN
  /\ shown.asked \in Filter \cup {None}
  /\ \A s \in DOMAIN shown.seen : shown.seen[s] \in Filter \cup {None}

(* Each screen of a submitted frame shows the core's latest uploaded        *)
(* picture through the filter that was configured for the frame, however    *)
(* filters, shaders and layouts were changed before it and whatever frames  *)
(* found no image: the validity flags and g_filtered_filter never keep a    *)
(* texture of an older picture or of another filter.  A frame whose         *)
(* commands failed may leave flags behind, until the next picture.          *)
ShownAsConfigured ==
  ~shown.tainted => \A s \in DOMAIN shown.seen : shown.seen[s] = shown.asked

(* A visible overlay is drawn with its current pixels, in the texture of    *)
(* its orientation: the generation that upload_overlay compares follows     *)
(* every change, and is only taken over by a frame that was submitted.      *)
OverlayCurrent == shown.overlay # "old"

(* The shader that is installed is the configured one whenever a custom     *)
(* filter is: drastic_renderer_present never draws another shader's         *)
(* pipelines, nor returns for want of one without taking the core's frame.  *)
CustomInstalled == config.filter \in Shader => custom = config.filter
================================================================================
