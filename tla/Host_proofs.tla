------------------------------ MODULE Host_proofs ------------------------------
(***************************************************************************)
(* Proofs about the emulator's host and what the renderer draws, for any   *)
(* values of the constants.  Of VkTextures: its types, that a frame shows  *)
(* the latest picture through the configured filter, the overlay's pixels, *)
(* and that the configured shader is installed.  Of the host's other parts *)
(* an inductive invariant, which the part's module states, is shown to     *)
(* hold at first and to survive every step; the theorems at the end say so *)
(* of the whole, where the part never changes.                             *)
(***************************************************************************)
EXTENDS MCHost, FiniteSetTheorems, WellFoundedInduction, TLAPS

--------------------------------------------------------------------------------
(* Textures: a frame shows what is configured.                                *)

(* A flag that no failed frame set stands for a texture of the filter that  *)
(* the flags are about: a built-in one, or whichever shader is installed.   *)
FlagInv ==
  /\ filtered = None => valid = {}
  /\ ~tainted => \A s \in valid :
       IF filtered = "custom" THEN output["custom"][s] = custom
                              ELSE output["builtin"][s] = filtered

(* Between slot and image the flags are about the configured filter, and    *)
(* none is set when a new picture comes.                                    *)
AcquireInv ==
  pc = "acquire" => filtered = VideoFilter(config.filter) /\ (upload => valid = {})

(* The renderer's generation equals a visible overlay's only if its texture *)
(* has been uploaded.                                                       *)
OverlayInv ==
  overlay.uploaded => overlay.visible /\ overlay.orientation \in pixels

IInv ==
  /\ TypeOK /\ FlagInv /\ AcquireInv /\ OverlayInv
  /\ ShownAsConfigured /\ OverlayCurrent /\ CustomInstalled

--------------------------------------------------------------------------------
LEMMA InitInv == Init => IInv
  <1> SUFFICES ASSUME Init PROVE IInv
    OBVIOUS
  <1>1. TypeOK
    BY TexturesAssumption
    DEF Init, TypeOK, NoOutput, Filter, Family, Orientation
  <1>2. FlagInv /\ AcquireInv /\ OverlayInv
    BY DEF Init, FlagInv, AcquireInv, OverlayInv
  <1>3. ShownAsConfigured /\ OverlayCurrent /\ CustomInstalled
    BY DEF Init, ShownAsConfigured, OverlayCurrent, CustomInstalled
  <1> QED BY <1>1, <1>2, <1>3 DEF IInv

(* The menu's steps that change neither shader nor filter state.            *)
LEMMA MenuInv ==
  ASSUME IInv,
         (\E f \in Filter : SelectBuiltin(f)) \/ (\E screens \in Layout : SelectLayout(screens))
           \/ OverlayFinish \/ OverlayHide \/ (\E o \in Orientation : OverlayRotate(o))
  PROVE  IInv'
  <1> USE DEF menuVars
  <1>1. CASE \E f \in Filter : SelectBuiltin(f)
    <2>1. PICK f \in Builtin : SelectBuiltin(f)
      BY <1>1 DEF SelectBuiltin
    <2>2. TypeOK'
      BY <2>1 DEF IInv, TypeOK, SelectBuiltin, Filter
    <2>3. FlagInv' /\ AcquireInv' /\ OverlayInv'
      BY <2>1 DEF IInv, SelectBuiltin, FlagInv, AcquireInv, OverlayInv
    <2>4. ShownAsConfigured' /\ OverlayCurrent' /\ CustomInstalled'
      BY <2>1, TexturesAssumption
      DEF IInv, TypeOK, SelectBuiltin, ShownAsConfigured, OverlayCurrent, CustomInstalled
    <2> QED BY <2>2, <2>3, <2>4 DEF IInv
  <1>2. CASE \E screens \in Layout : SelectLayout(screens)
    <2>1. PICK screens \in Layout : SelectLayout(screens)
      BY <1>2
    <2>2. TypeOK'
      BY <2>1 DEF IInv, TypeOK, SelectLayout
    <2>3. FlagInv' /\ AcquireInv' /\ OverlayInv'
      BY <2>1 DEF IInv, SelectLayout, FlagInv, AcquireInv, OverlayInv
    <2>4. ShownAsConfigured' /\ OverlayCurrent' /\ CustomInstalled'
      BY <2>1 DEF IInv, TypeOK, SelectLayout, ShownAsConfigured, OverlayCurrent, CustomInstalled
    <2> QED BY <2>2, <2>3, <2>4 DEF IInv
  <1>3. CASE OverlayFinish
    <2>1. TypeOK'
      BY <1>3 DEF IInv, TypeOK, OverlayFinish
    <2>2. FlagInv' /\ AcquireInv' /\ OverlayInv'
      BY <1>3 DEF IInv, TypeOK, OverlayFinish, FlagInv, AcquireInv, OverlayInv
    <2>3. ShownAsConfigured' /\ OverlayCurrent' /\ CustomInstalled'
      BY <1>3 DEF IInv, OverlayFinish, ShownAsConfigured, OverlayCurrent, CustomInstalled
    <2> QED BY <2>1, <2>2, <2>3 DEF IInv
  <1>4. CASE OverlayHide
    <2>1. TypeOK'
      BY <1>4 DEF IInv, TypeOK, OverlayHide
    <2>2. FlagInv' /\ AcquireInv' /\ OverlayInv'
      BY <1>4 DEF IInv, TypeOK, OverlayHide, FlagInv, AcquireInv, OverlayInv
    <2>3. ShownAsConfigured' /\ OverlayCurrent' /\ CustomInstalled'
      BY <1>4 DEF IInv, OverlayHide, ShownAsConfigured, OverlayCurrent, CustomInstalled
    <2> QED BY <2>1, <2>2, <2>3 DEF IInv
  <1>5. CASE \E o \in Orientation : OverlayRotate(o)
    <2>1. PICK o \in Orientation : OverlayRotate(o)
      BY <1>5
    <2>2. TypeOK'
      BY <2>1 DEF IInv, TypeOK, OverlayRotate
    <2>3. FlagInv' /\ AcquireInv' /\ OverlayInv'
      BY <2>1 DEF IInv, OverlayRotate, FlagInv, AcquireInv, OverlayInv
    <2>4. ShownAsConfigured' /\ OverlayCurrent' /\ CustomInstalled'
      BY <2>1 DEF IInv, OverlayRotate, ShownAsConfigured, OverlayCurrent, CustomInstalled
    <2> QED BY <2>2, <2>3, <2>4 DEF IInv
  <1> QED BY <1>1, <1>2, <1>3, <1>4, <1>5

(* A shader that is installed anew leaves no flag.                          *)
LEMMA CustomInv ==
  ASSUME IInv, NEW f \in Shader, SelectCustom(f)
  PROVE  IInv'
  <1> USE DEF SelectCustom, Install
  <1>1. TypeOK'
    <2>1. config' \in [filter : Filter, layout : Layout]
      BY DEF IInv, TypeOK, Filter
    <2>2. output' \in [Family -> [Screen -> Filter \cup {None}]]
      BY DEF IInv, TypeOK, Family
    <2> QED BY <2>1, <2>2 DEF IInv, TypeOK
  <1>2. FlagInv'
    <2>1. CASE custom = f
      BY <2>1 DEF IInv, FlagInv
    <2>2. CASE custom # f
      BY <2>2 DEF IInv, FlagInv
    <2> QED BY <2>1, <2>2
  <1>3. AcquireInv' /\ OverlayInv'
    BY DEF IInv, AcquireInv, OverlayInv
  <1>4. ShownAsConfigured' /\ OverlayCurrent'
    BY DEF IInv, ShownAsConfigured, OverlayCurrent
  <1>5. CustomInstalled'
    BY DEF IInv, TypeOK, CustomInstalled
  <1> QED BY <1>1, <1>2, <1>3, <1>4, <1>5 DEF IInv

LEMMA ResumeInv ==
  ASSUME IInv, Resume
  PROVE  IInv'
  <1> USE DEF Resume
  <1>1. TypeOK'
    BY DEF IInv, TypeOK
  <1>2. FlagInv' /\ AcquireInv' /\ OverlayInv'
    BY DEF IInv, TypeOK, FlagInv, AcquireInv, OverlayInv
  <1>3. ShownAsConfigured' /\ OverlayCurrent' /\ CustomInstalled'
    BY DEF IInv, ShownAsConfigured, OverlayCurrent, CustomInstalled
  <1> QED BY <1>1, <1>2, <1>3 DEF IInv

LEMMA RefreshInv ==
  ASSUME IInv, NEW consume \in BOOLEAN, Refresh(consume)
  PROVE  IInv'
  <1> USE DEF Refresh
  <1>1. TypeOK'
    BY DEF IInv, TypeOK, VideoFilter, Filter
  <1>2. FlagInv'
    <2>1. CASE valid' = {}
      BY <2>1 DEF FlagInv
    <2>2. CASE valid' # {}
      BY <2>2 DEF IInv, TypeOK, FlagInv
    <2> QED BY <2>1, <2>2
  <1>3. AcquireInv' /\ OverlayInv'
    BY DEF IInv, AcquireInv, OverlayInv, VideoFilter
  <1>4. ShownAsConfigured' /\ OverlayCurrent' /\ CustomInstalled'
    BY DEF IInv, ShownAsConfigured, OverlayCurrent, CustomInstalled
  <1> QED BY <1>1, <1>2, <1>3, <1>4 DEF IInv

LEMMA AcquireFailsInv ==
  ASSUME IInv, AcquireFails
  PROVE  IInv'
  <1> USE DEF AcquireFails
  <1>1. TypeOK'
    BY DEF IInv, TypeOK
  <1>2. FlagInv' /\ AcquireInv' /\ OverlayInv'
    BY DEF IInv, FlagInv, AcquireInv, OverlayInv
  <1>3. ShownAsConfigured' /\ OverlayCurrent' /\ CustomInstalled'
    BY DEF IInv, ShownAsConfigured, OverlayCurrent, CustomInstalled
  <1> QED BY <1>1, <1>2, <1>3 DEF IInv

LEMMA DrawFailsInv ==
  ASSUME IInv, DrawFails
  PROVE  IInv'
  <1>1. PICK flagged \in SUBSET Needed :
          /\ valid' = valid \cup flagged
          /\ tainted' = (tainted \/ flagged # {})
    BY DEF DrawFails
  <1> USE DEF DrawFails
  <1>2. Needed \subseteq Screen
    BY TexturesAssumption DEF IInv, TypeOK, Needed
  <1>3. TypeOK'
    BY <1>1, <1>2 DEF IInv, TypeOK
  <1>4. filtered # None
    BY TexturesAssumption DEF IInv, TypeOK, AcquireInv, VideoFilter, Filter
  <1>5. FlagInv'
    BY <1>1, <1>4 DEF IInv, FlagInv
  <1>6. AcquireInv' /\ OverlayInv'
    BY DEF IInv, AcquireInv, OverlayInv
  <1>7. ShownAsConfigured' /\ OverlayCurrent' /\ CustomInstalled'
    BY DEF IInv, ShownAsConfigured, OverlayCurrent, CustomInstalled
  <1> QED BY <1>3, <1>5, <1>6, <1>7 DEF IInv

(* What the chains of a frame leave in the textures of its filter's family. *)
LEMMA RecordedFacts ==
  ASSUME TypeOK
  PROVE  /\ Recorded \in [Family -> [Screen -> Filter \cup {None}]]
         /\ \A s \in Screen :
              Recorded[FamilyOf(config.filter)][s] =
                IF s \in Needed THEN config.filter
                ELSE IF upload THEN None ELSE output[FamilyOf(config.filter)][s]
  <1> DEFINE current == IF upload THEN NoOutput ELSE output
             fam     == FamilyOf(config.filter)
             made    == [s \in Screen |-> IF s \in Needed THEN config.filter ELSE current[fam][s]]
  <1>1. fam \in Family /\ config.filter \in Filter
    BY DEF TypeOK, FamilyOf, Family
  <1>2. current \in [Family -> [Screen -> Filter \cup {None}]]
    BY DEF TypeOK, NoOutput
  <1>3. Recorded = [current EXCEPT ![fam] = made]
    BY <1>1, <1>2 DEF Recorded
  <1>4. made \in [Screen -> Filter \cup {None}]
    BY <1>1, <1>2
  <1>5. \A s \in Screen : current[fam][s] = IF upload THEN None ELSE output[fam][s]
    BY <1>1 DEF NoOutput
  <1>6. Recorded \in [Family -> [Screen -> Filter \cup {None}]] /\ Recorded[fam] = made
    <2> HIDE DEF current, fam, made
    <2> QED BY <1>1, <1>2, <1>3, <1>4
  <1> QED BY <1>5, <1>6

(* A submitted frame: a screen is filtered in it, or flagged before it, and *)
(* then no picture was uploaded in between.                                 *)
LEMMA DrawInv ==
  ASSUME IInv, Draw
  PROVE  IInv'
  <1> DEFINE fam == FamilyOf(config.filter)
  <1>1. TypeOK /\ FlagInv /\ AcquireInv /\ OverlayInv /\ CustomInstalled
    BY DEF IInv
  <1>2. /\ config.filter \in Filter /\ config.layout \subseteq Screen
        /\ Needed \subseteq Screen /\ valid \subseteq Screen
    BY <1>1, TexturesAssumption DEF TypeOK, Needed
  <1>3. /\ filtered = VideoFilter(config.filter) /\ filtered # None
        /\ upload => valid = {}
    BY <1>1, <1>2, TexturesAssumption DEF AcquireInv, Draw, VideoFilter, Filter
  <1>4. \A s \in Screen :
          Recorded[fam][s] = IF s \in Needed THEN config.filter
                             ELSE IF upload THEN None ELSE output[fam][s]
    BY <1>1, RecordedFacts
  <1>5. ~tainted => \A s \in valid \cup Needed : Recorded[fam][s] = config.filter
    <2> SUFFICES ASSUME ~tainted, NEW s \in valid, s \notin Needed
                 PROVE  Recorded[fam][s] = config.filter
      BY <1>2, <1>4
    <2>1. Recorded[fam][s] = output[fam][s]
      BY <1>2, <1>3, <1>4
    <2>2. CASE config.filter \in Shader
      BY <2>1, <2>2, <1>1, <1>3 DEF FlagInv, CustomInstalled, VideoFilter, FamilyOf
    <2>3. CASE config.filter \notin Shader
      BY <2>1, <2>3, <1>1, <1>2, <1>3, TexturesAssumption
      DEF FlagInv, VideoFilter, FamilyOf, Filter
    <2> QED BY <2>2, <2>3
  <1>6. FlagInv'
    <2>1. /\ filtered' = filtered /\ tainted' = tainted /\ custom' = custom
          /\ valid' = valid \cup Needed /\ output' = Recorded
      BY DEF Draw
    <2>2. CASE config.filter \in Shader
      BY <2>1, <2>2, <1>1, <1>3, <1>5 DEF FlagInv, CustomInstalled, VideoFilter, FamilyOf
    <2>3. CASE config.filter \notin Shader
      BY <2>1, <2>3, <1>2, <1>3, <1>5, TexturesAssumption
      DEF FlagInv, VideoFilter, FamilyOf, Filter
    <2> QED BY <2>2, <2>3
  <1>7. AcquireInv' /\ CustomInstalled'
    BY <1>1 DEF Draw, AcquireInv, CustomInstalled
  <1>8. /\ overlay' = [overlay EXCEPT !.uploaded = @ \/ UploadOverlay]
        /\ pixels' = IF UploadOverlay THEN {overlay.orientation} ELSE pixels
    BY DEF Draw
  <1>9. /\ overlay' \in [visible : BOOLEAN, orientation : Orientation, uploaded : BOOLEAN]
        /\ pixels' \subseteq Orientation /\ OverlayInv'
    BY <1>1, <1>8 DEF TypeOK, OverlayInv, UploadOverlay
  <1>10. overlay.visible => overlay.orientation \in pixels'
    BY <1>1, <1>8 DEF TypeOK, OverlayInv, UploadOverlay
  <1>11. /\ shown'.asked = config.filter /\ shown'.tainted = tainted
         /\ shown'.seen = [s \in config.layout |-> Seen(s)]
         /\ shown'.overlay # "old"
    BY <1>10 DEF Draw
  <1>12. \A s \in config.layout :
           Seen(s) \in Filter \cup {None} /\ (~tainted => Seen(s) = config.filter)
    <2> SUFFICES ASSUME NEW s \in config.layout
                 PROVE  Seen(s) \in Filter \cup {None} /\ (~tainted => Seen(s) = config.filter)
      OBVIOUS
    <2>1. CASE Chained(config.filter)
      <3>1. s \in valid \cup Needed
        BY <2>1 DEF Needed
      <3>2. fam \in Family
        BY DEF FamilyOf, Family
      <3>3. Recorded[fam][s] \in Filter \cup {None}
        BY <3>2, <1>1, <1>2, RecordedFacts
      <3> QED BY <2>1, <3>1, <3>3, <1>5 DEF Seen
    <2>2. CASE ~Chained(config.filter)
      BY <2>2, <1>2 DEF Seen
    <2> QED BY <2>1, <2>2
  <1>13. ShownAsConfigured' /\ OverlayCurrent'
    BY <1>11, <1>12 DEF ShownAsConfigured, OverlayCurrent
  <1>14. TypeOK'
    <2>1. output' \in [Family -> [Screen -> Filter \cup {None}]]
      BY <1>1, RecordedFacts DEF Draw
    <2>2. UNCHANGED <<config, custom, filtered, upload, tainted>> /\ valid' = valid \cup Needed
          /\ pc' = "idle"
      BY DEF Draw
    <2> QED BY <2>1, <2>2, <1>1, <1>2, <1>9, <1>11, <1>12 DEF TypeOK
  <1> QED BY <1>6, <1>7, <1>9, <1>13, <1>14 DEF IInv

LEMMA NextInv ==
  ASSUME IInv, [Next]_vars
  PROVE  IInv'
  <1>1. CASE UNCHANGED vars
    BY <1>1 DEF vars, IInv, TypeOK, FlagInv, AcquireInv, OverlayInv,
                ShownAsConfigured, OverlayCurrent, CustomInstalled
  <1>2. CASE \E f \in Filter : SelectCustom(f)
    BY <1>2, CustomInv DEF SelectCustom
  <1>3. CASE \E consume \in BOOLEAN : Refresh(consume)
    BY <1>3, RefreshInv
  <1> QED
    BY <1>1, <1>2, <1>3, MenuInv, ResumeInv, AcquireFailsInv, DrawInv, DrawFailsInv DEF Next

LEMMA SpecInv == Spec => []IInv
  BY InitInv, NextInv, PTL DEF Spec

--------------------------------------------------------------------------------
(* Every state is well typed.                                               *)
THEOREM TexturesTypeCorrect == Spec => []TypeOK
  <1>1. IInv => TypeOK
    BY DEF IInv
  <1> QED BY <1>1, SpecInv, PTL

(* Whatever the menu changed and whichever frames failed, a screen of a     *)
(* submitted frame shows the latest picture through the configured filter.  *)
THEOREM FramesShownAsConfigured == Spec => []ShownAsConfigured
  <1>1. IInv => ShownAsConfigured
    BY DEF IInv
  <1> QED BY <1>1, SpecInv, PTL

(* A visible overlay is never drawn from a texture of older pixels.         *)
THEOREM OverlayIsCurrent == Spec => []OverlayCurrent
  <1>1. IInv => OverlayCurrent
    BY DEF IInv
  <1> QED BY <1>1, SpecInv, PTL

(* The configured custom shader is the installed one.                       *)
THEOREM ShaderIsInstalled == Spec => []CustomInstalled
  <1>1. IInv => CustomInstalled
    BY DEF IInv
  <1> QED BY <1>1, SpecInv, PTL

(* The parts that count do so with FiniteSets' operators. *)
LEMMA SameSize ==
  \A S : /\ Prefs!Cardinality(S) = Cardinality(S) /\ States!Cardinality(S) = Cardinality(S)
         /\ Prefs!IsFiniteSet(S) <=> IsFiniteSet(S)
<1>1. \A S : Prefs!Cardinality(S) = Cardinality(S)
  BY DEF Prefs!Cardinality, Cardinality
<1>2. \A S : States!Cardinality(S) = Cardinality(S)
  BY DEF States!Cardinality, Cardinality
<1>3. \A S : Prefs!IsFiniteSet(S) <=> IsFiniteSet(S)
  BY DEF Prefs!IsFiniteSet, IsFiniteSet
<1>4. QED  BY <1>1, <1>2, <1>3

--------------------------------------------------------------------------------
(* Session: the core follows the host, whenever the menu and the focus come.  *)

eStage == v1
eGame == v2
eSettings == v3
eControls == v4
eMenuOpen == v5
eAway == v6
eHooked == v7
eGameplay == v8
eRumble == v9
eCheated == v10
eOpening == v11

USE DEF eStage, eGame, eSettings, eControls, eMenuOpen, eAway, eHooked, eGameplay, eRumble,
        eCheated, eOpening

(* No two of these steps are the same.                                      *)
LEMMA SessionStages ==
  /\ Session!Finishing = {"leaving", "stopping", "joining", "tearing", "ended"}
  /\ {Session!Starting[i] : i \in DOMAIN Session!Starting} =
       {"storage", "load", "init", "renderer", "rom", "menu", "thread", "sampler", "hook"}
  /\ {Session!Ending[i] : i \in DOMAIN Session!Ending} = Session!Finishing
<1>1. DOMAIN Session!Ending = 1 .. 5 /\ DOMAIN Session!Starting = 1 .. 9
  BY DEF Session!Ending, Session!Starting
<1>2. /\ 1 .. 5 = {1, 2, 3, 4, 5}
      /\ 1 .. 9 = {1, 2, 3, 4, 5, 6, 7, 8, 9}
  OBVIOUS
<1>3. {Session!Ending[i] : i \in DOMAIN Session!Ending} = {"leaving", "stopping", "joining",
        "tearing", "ended"}
  BY <1>1, <1>2 DEF Session!Ending
<1>4. {Session!Starting[i] : i \in DOMAIN Session!Starting} =
       {"storage", "load", "init", "renderer", "rom", "menu", "thread", "sampler", "hook"}
  BY <1>1, <1>2 DEF Session!Starting
<1>5. Session!Finishing = {Session!Ending[i] : i \in DOMAIN Session!Ending}
  BY DEF Session!Finishing
<1>6. QED  BY <1>3, <1>4, <1>5

(* The session begins with the core as its settings say.                    *)
LEMMA SessionInit == Session!Init => Session!IInv
<1> SUFFICES ASSUME Session!Init PROVE Session!IInv
  OBVIOUS
<1>1. /\ eSettings \in Session!Settings /\ eSettings.config \in Config
      /\ eGame \in Session!CoreState /\ ~eGame.alive /\ ~eGame.paused
      /\ eGame.config = eSettings.config /\ eGame.fast = FALSE
  <2>1. eSettings \in [config : Config, noise : BOOLEAN, vibration : BOOLEAN, swapped : {FALSE}]
    BY DEF Session!Init
  <2>2. eSettings \in Session!Settings /\ eSettings.config \in Config
    BY <2>1 DEF Session!Settings
  <2>3. eGame = [alive |-> FALSE, paused |-> FALSE, config |-> eSettings.config, fast |-> FALSE]
    BY DEF Session!Init
  <2>4. QED  BY <2>2, <2>3 DEF Session!CoreState
<1>2. eControls \in Session!Controls /\ eControls.fast = 0
  <2>1. eControls \in [fast : {0}, latched : {FALSE}, toggle : BOOLEAN, feed : {FALSE},
                      lid : {FALSE}, slot : {0}, exit : {FALSE}]
    BY DEF Session!Init
  <2>2. 0 \in 0 .. SessionSlots - 1 /\ 0 \in -1 .. 1
    BY SlotsAssumption
  <2>3. QED  BY <2>1, <2>2 DEF Session!Controls
<1>3. eAway \in Session!Lifecycle /\ ~eAway.suspended /\ ~eAway.resume
  BY DEF Session!Init, Session!Lifecycle
<1>4. /\ eStage = "storage" /\ eMenuOpen = FALSE /\ eHooked = FALSE /\ eGameplay = FALSE
      /\ eRumble = FALSE /\ eCheated = FALSE /\ eOpening = FALSE
  BY DEF Session!Init
<1>5. Session!TypeOK
  <2>1. {eMenuOpen, eHooked, eGameplay, eRumble, eCheated, eOpening} \subseteq BOOLEAN
    BY <1>4
  <2>2. eStage \in {Session!Starting[i] : i \in DOMAIN Session!Starting}
    BY <1>4, SessionStages
  <2>3. QED  BY <1>1, <1>2, <1>3, <2>1, <2>2 DEF Session!TypeOK
<1>6. Session!Finishing = {"leaving", "stopping", "joining", "tearing", "ended"}
  BY SessionStages
<1>7. Session!InTheirSteps /\ Session!StandsStill /\ Session!RunsOtherwise
  BY <1>1, <1>3, <1>4, <1>6
     DEF Session!InTheirSteps, Session!StandsStill, Session!RunsOtherwise, Session!Begun
<1>8. Session!SetAsKnown
  BY <1>1, <1>2 DEF Session!SetAsKnown
<1>9. QED  BY <1>5, <1>7, <1>8 DEF Session!IInv

LEMMA SessionTyped ==
  ASSUME Session!TypeOK
  PROVE  /\ eGame.alive \in BOOLEAN /\ eGame.paused \in BOOLEAN /\ eGame.fast \in BOOLEAN
         /\ eGame.config \in Config /\ eSettings.config \in Config
         /\ eControls.fast \in -1 .. 1 /\ eControls.exit \in BOOLEAN
         /\ eAway.suspended \in BOOLEAN /\ eAway.resume \in BOOLEAN
         /\ eMenuOpen \in BOOLEAN /\ eOpening \in BOOLEAN /\ eGameplay \in BOOLEAN
<1>1. /\ eGame \in Session!CoreState /\ eSettings \in Session!Settings
      /\ eControls \in Session!Controls /\ eAway \in Session!Lifecycle
  BY DEF Session!TypeOK
<1>2. eMenuOpen \in BOOLEAN /\ eOpening \in BOOLEAN /\ eGameplay \in BOOLEAN
  BY DEF Session!TypeOK
<1>3. /\ eGame.alive \in BOOLEAN /\ eGame.paused \in BOOLEAN /\ eGame.fast \in BOOLEAN
      /\ eGame.config \in Config
  BY <1>1 DEF Session!CoreState
<1>4. eSettings.config \in Config
  BY <1>1 DEF Session!Settings
<1>5. eControls.fast \in -1 .. 1 /\ eControls.exit \in BOOLEAN
  BY <1>1 DEF Session!Controls
<1>6. eAway.suspended \in BOOLEAN /\ eAway.resume \in BOOLEAN
  BY <1>1 DEF Session!Lifecycle
<1>7. QED  BY <1>2, <1>3, <1>4, <1>5, <1>6

(* The start, up to the core's thread.                                      *)
LEMMA StartInv ==
  ASSUME Session!IInv,
         Session!MountStorage \/ Session!LoadCore \/ Session!InitCore \/
         Session!StartRenderer \/ Session!PrepareRom \/ Session!CreateMenu
           \/ Session!Fatal("thread") \/ Session!Fatal("sampler") \/ Session!LeaveLoop
           \/ Session!TearDown
  PROVE  Session!IInv'
<1>1. /\ UNCHANGED <<eGame, eSettings, eControls, eRumble>>
      /\ UNCHANGED <<eMenuOpen, eAway, eHooked, eCheated, eOpening, eGameplay>>
  BY DEF Session!MountStorage, Session!LoadCore, Session!InitCore, Session!StartRenderer,
         Session!PrepareRom, Session!CreateMenu, Session!LeaveLoop, Session!TearDown,
         Session!Go, Session!Fatal, Session!host, Session!session
<1>2. \/ /\ eStage \in {"storage", "load", "init", "renderer", "rom", "menu"}
         /\ eStage' \in {"load", "init", "renderer", "rom", "menu", "thread", "fatal"}
      \/ eStage \in {"thread", "sampler"} /\ eStage' = "fatal"
      \/ eStage = "top" /\ eStage' = "leaving"
      \/ eStage = "tearing" /\ eStage' = "ended"
  BY DEF Session!MountStorage, Session!LoadCore, Session!InitCore, Session!StartRenderer,
         Session!PrepareRom, Session!CreateMenu, Session!LeaveLoop, Session!TearDown,
         Session!Go, Session!Fatal
<1>3. Session!TypeOK'
  BY <1>1, <1>2, SessionStages DEF Session!IInv, Session!TypeOK
<1>4. Session!Finishing = {"leaving", "stopping", "joining", "tearing", "ended"}
  BY SessionStages
<1>5. Session!InTheirSteps' /\ Session!StandsStill'
  BY <1>1, <1>2, <1>4
     DEF Session!IInv, Session!InTheirSteps, Session!StandsStill, Session!Begun
<1>6. Session!RunsOtherwise' /\ Session!SetAsKnown'
  BY <1>1, <1>2, <1>4
     DEF Session!IInv, Session!InTheirSteps, Session!StandsStill, Session!RunsOtherwise,
         Session!SetAsKnown, Session!Begun
<1>7. QED  BY <1>3, <1>5, <1>6 DEF Session!IInv

(* A hotkey's state operation ends with the core running, and the           *)
(* fast-forward bit changes only with the settings.                         *)
LEMMA HotkeyEffect ==
  ASSUME NEW p \in SUBSET Session!Hotkey, NEW held \in BOOLEAN,
         eGame \in Session!CoreState, eSettings \in Session!Settings,
         eControls \in Session!Controls,
         Session!FastForward(p, held)
  PROVE  /\ eControls' \in Session!Controls /\ eControls'.fast \in {0, 1}
         /\ eGame' \in Session!CoreState /\ eGame'.alive = eGame.alive
         /\ eGame'.paused = FALSE \/ eGame'.paused = eGame.paused
         /\ \/ /\ eControls'.fast = eControls.fast
               /\ eGame'.config = eGame.config /\ eGame'.fast = eGame.fast
            \/ eGame'.config = eSettings.config /\ (eGame'.fast <=> eControls'.fast = 1)
<1>1. PICK latched \in BOOLEAN : latched = (eControls.latched # ("fast" \in p /\ eControls.toggle))
  OBVIOUS
<1>2. PICK on \in BOOLEAN : on = IF eControls.toggle THEN latched ELSE held
  OBVIOUS
<1>3. PICK fast \in {0, 1} : fast = IF on THEN 1 ELSE 0
  OBVIOUS
<1>4. PICK slot \in 0 .. SessionSlots - 1 : slot = IF "next" \in p
        THEN (eControls.slot + 1) % SessionSlots ELSE eControls.slot
  <2>1. eControls.slot \in 0 .. SessionSlots - 1
    BY DEF Session!Controls
  <2>2. (eControls.slot + 1) % SessionSlots \in 0 .. SessionSlots - 1
    BY <2>1, SlotsAssumption
  <2>3. QED  BY <2>1, <2>2
<1>5. PICK feed \in BOOLEAN : feed = (held /\ eSettings.noise)
  OBVIOUS
<1>6. PICK lid \in BOOLEAN : lid = (eControls.lid # ("lid" \in p))
  OBVIOUS
<1>7. PICK exit \in BOOLEAN : exit = (eControls.exit \/ "quit" \in p)
  OBVIOUS
<1>8. PICK paused \in BOOLEAN : paused = Session!StatePaused(p) /\ (paused = FALSE \/
        paused = eGame.paused)
  BY DEF Session!StatePaused, Session!CoreState
<1>9. eControls' = [eControls EXCEPT !.latched = latched, !.fast = fast, !.slot = slot,
                                   !.feed = feed, !.lid = lid, !.exit = exit]
  BY <1>1, <1>2, <1>3, <1>4, <1>5, <1>6, <1>7 DEF Session!FastForward
<1>10. eControls' \in Session!Controls /\ eControls'.fast = fast
  <2>1. fast \in -1 .. 1
    BY <1>3
  <2>2. QED  BY <1>9, <2>1 DEF Session!Controls
<1>11. IF fast = eControls.fast THEN eGame' = [eGame EXCEPT !.paused = paused]
       ELSE eGame' = [eGame EXCEPT !.paused = paused, !.config = eSettings.config, !.fast = on]
  BY <1>1, <1>2, <1>3, <1>8 DEF Session!FastForward
<1>12. eSettings.config \in Config
  BY DEF Session!Settings
<1>13. /\ eGame' \in Session!CoreState /\ eGame'.alive = eGame.alive
       /\ eGame'.paused = paused
       /\ \/ fast = eControls.fast /\ eGame'.config = eGame.config /\ eGame'.fast = eGame.fast
          \/ eGame'.config = eSettings.config /\ eGame'.fast = on
  <2>1. CASE eGame' = [eGame EXCEPT !.paused = paused] /\ fast = eControls.fast
    BY <2>1 DEF Session!CoreState
  <2>2. CASE eGame' = [eGame EXCEPT !.paused = paused, !.config = eSettings.config, !.fast = on]
    BY <1>12, <2>2 DEF Session!CoreState
  <2>3. QED  BY <1>11, <2>1, <2>2
<1>14. on <=> fast = 1
  BY <1>3
<1>15. QED  BY <1>8, <1>10, <1>13, <1>14

(* The core's thread starts, and may end at any time.                         *)
LEMMA ThreadInv ==
  ASSUME Session!IInv, Session!StartGame \/ Session!GameEnds
  PROVE  Session!IInv'
<1> USE DEF Session!IInv
<1>1. Session!Finishing = {"leaving", "stopping", "joining", "tearing", "ended"}
  BY SessionStages
<1>2. /\ eGame.alive \in BOOLEAN /\ eGame.paused \in BOOLEAN /\ eGame.fast \in BOOLEAN
      /\ eGame.config \in Config /\ eSettings.config \in Config
      /\ eGame \in Session!CoreState /\ eSettings \in Session!Settings
      /\ eControls \in Session!Controls
      /\ eAway \in Session!Lifecycle /\ eMenuOpen \in BOOLEAN
  BY SessionTyped DEF Session!TypeOK
<1>3. /\ \/ eStage = "thread" /\ eStage' \in {"fatal", "sampler"}
         \/ eStage' = eStage /\ ~eGame'.alive
      /\ eGame' \in Session!CoreState /\ eGame'.paused = eGame.paused
      /\ eGame'.config = eGame.config /\ eGame'.fast = eGame.fast
      /\ eStage' = "fatal" => eGame'.alive = eGame.alive \/ eStage = "fatal"
      /\ UNCHANGED <<eSettings, eControls, eRumble, eMenuOpen, eAway>>
      /\ UNCHANGED <<eHooked, eCheated, eOpening, eGameplay>>
  <2>1. CASE Session!Fatal("thread")
    BY <1>2, <2>1 DEF Session!Fatal, Session!host, Session!session
  <2>2. CASE eStage = "thread" /\ Session!StartGame /\ ~Session!Fatal("thread")
    <3>1. /\ eStage' = "sampler" /\ eGame' = [eGame EXCEPT !.alive = TRUE]
          /\ UNCHANGED <<eSettings, eControls, eRumble, eMenuOpen, eAway>>
          /\ UNCHANGED <<eHooked, eCheated, eOpening, eGameplay>>
      BY <2>2 DEF Session!StartGame, Session!host, Session!session
    <3>2. /\ eGame' \in Session!CoreState /\ eGame'.paused = eGame.paused
          /\ eGame'.config = eGame.config /\ eGame'.fast = eGame.fast
      BY <1>2, <3>1 DEF Session!CoreState
    <3>3. QED  BY <2>2, <3>1, <3>2
  <2>3. CASE Session!GameEnds
    <3>1. /\ eStage' = eStage /\ eGame' = [eGame EXCEPT !.alive = FALSE]
          /\ UNCHANGED <<eSettings, eControls, eRumble, eMenuOpen, eAway>>
          /\ UNCHANGED <<eHooked, eCheated, eOpening, eGameplay>>
      BY <2>3 DEF Session!GameEnds, Session!host, Session!session
    <3>2. /\ eGame' \in Session!CoreState /\ eGame'.paused = eGame.paused
          /\ eGame'.alive = FALSE
          /\ eGame'.config = eGame.config /\ eGame'.fast = eGame.fast
      BY <1>2, <3>1 DEF Session!CoreState
    <3>3. QED  BY <3>1, <3>2
  <2>4. QED  BY <2>1, <2>2, <2>3 DEF Session!StartGame
<1>4. Session!TypeOK'
  BY <1>3, SessionStages DEF Session!TypeOK
<1>5. Session!InTheirSteps' /\ Session!StandsStill'
  BY <1>1, <1>2, <1>3
     DEF Session!InTheirSteps, Session!StandsStill, Session!RunsOtherwise, Session!Begun
<1>6. Session!RunsOtherwise'
  BY <1>1, <1>2, <1>3
     DEF Session!InTheirSteps, Session!StandsStill, Session!RunsOtherwise, Session!Begun
<1>7. Session!SetAsKnown'
  BY <1>1, <1>2, <1>3 DEF Session!InTheirSteps, Session!SetAsKnown, Session!Begun
<1>8. QED  BY <1>4, <1>5, <1>6, <1>7

(* The sampler and the system's notices.                                      *)
LEMMA InputStartsInv ==
  ASSUME Session!IInv, Session!StartSampler \/ Session!Hook
  PROVE  Session!IInv'
<1> USE DEF Session!IInv
<1>1. Session!Finishing = {"leaving", "stopping", "joining", "tearing", "ended"}
  BY SessionStages
<1>2. /\ eGame.alive \in BOOLEAN /\ eGame.paused \in BOOLEAN /\ eGame.fast \in BOOLEAN
      /\ eGame.config \in Config /\ eSettings.config \in Config
      /\ eGame \in Session!CoreState /\ eSettings \in Session!Settings
      /\ eControls \in Session!Controls
      /\ eAway \in Session!Lifecycle /\ eMenuOpen \in BOOLEAN
  BY SessionTyped DEF Session!TypeOK
<1>3. /\ \/ eStage = "sampler" /\ eStage' = "hook" /\ eGameplay' = TRUE /\ UNCHANGED eHooked
         \/ eStage = "sampler" /\ eStage' = "fatal" /\ UNCHANGED <<eGameplay, eHooked>>
         \/ eStage = "hook" /\ eStage' = "top" /\ eHooked' \in BOOLEAN /\ UNCHANGED eGameplay
      /\ UNCHANGED <<eGame, eSettings, eControls, eRumble, eMenuOpen, eAway, eCheated, eOpening>>
  BY <1>2
     DEF Session!StartSampler, Session!Hook, Session!Fatal, Session!host, Session!session,
         Session!CoreState
<1>4. Session!TypeOK'
  BY <1>3, SessionStages DEF Session!TypeOK
<1>5. Session!InTheirSteps' /\ Session!StandsStill'
  BY <1>1, <1>2, <1>3
     DEF Session!InTheirSteps, Session!StandsStill, Session!RunsOtherwise, Session!Begun
<1>6. Session!RunsOtherwise'
  BY <1>1, <1>2, <1>3
     DEF Session!InTheirSteps, Session!StandsStill, Session!RunsOtherwise, Session!Begun
<1>7. Session!SetAsKnown'
  BY <1>1, <1>2, <1>3 DEF Session!InTheirSteps, Session!SetAsKnown, Session!Begun
<1>8. QED  BY <1>4, <1>5, <1>6, <1>7

(* The focus goes and comes back.                                             *)
LEMMA FocusInv ==
  ASSUME Session!IInv, Session!Suspend \/ Session!Resume
  PROVE  Session!IInv'
<1> USE DEF Session!IInv
<1>1. Session!Finishing = {"leaving", "stopping", "joining", "tearing", "ended"}
  BY SessionStages
<1>2. /\ eGame.alive \in BOOLEAN /\ eGame.paused \in BOOLEAN /\ eGame.fast \in BOOLEAN
      /\ eGame.config \in Config /\ eSettings.config \in Config
      /\ eGame \in Session!CoreState /\ eSettings \in Session!Settings
      /\ eControls \in Session!Controls
      /\ eAway \in Session!Lifecycle /\ eMenuOpen \in BOOLEAN
  BY SessionTyped DEF Session!TypeOK
<1>3. /\ eStage = "top" /\ ~eControls.exit /\ eGame' \in Session!CoreState
      /\ eGame'.alive = eGame.alive
      /\ eGame'.config = eGame.config /\ eGame'.fast = eGame.fast
      /\ eAway' \in Session!Lifecycle
      /\ \/ /\ ~eAway.suspended /\ eAway'.suspended
            /\ (eAway'.resume <=> eGame.alive /\ ~eMenuOpen)
            /\ (eGame'.paused <=> eGame.paused \/ (eGame.alive /\ ~eMenuOpen))
            /\ eGameplay' = FALSE
         \/ /\ eAway.suspended /\ ~eAway'.suspended
            /\ (eGame'.paused <=> eGame.paused /\ ~(eAway.resume /\ eGame.alive))
            /\ eGameplay' = ~eMenuOpen
      /\ eGameplay' \in BOOLEAN
      /\ UNCHANGED <<eStage, eSettings, eControls, eRumble, eMenuOpen, eHooked, eCheated, eOpening>>
  <2>1. CASE Session!Suspend
    <3>1. PICK r \in BOOLEAN : r = (eGame.alive /\ ~eMenuOpen)
      BY <1>2
    <3>2. eAway' = [eAway EXCEPT !.suspended = TRUE, !.resume = r]
      BY <2>1, <3>1 DEF Session!Suspend
    <3>3. eAway' \in Session!Lifecycle /\ eAway'.suspended /\ eAway'.resume = r
      BY <1>2, <3>2 DEF Session!Lifecycle
    <3>4. PICK p \in BOOLEAN : p = (eGame.paused \/ r)
      BY <1>2
    <3>5. eGame' = [eGame EXCEPT !.paused = p]
      BY <2>1, <3>3, <3>4 DEF Session!Suspend
    <3>6. /\ eGame' \in Session!CoreState /\ eGame'.alive = eGame.alive /\ eGame'.paused = p
          /\ eGame'.config = eGame.config /\ eGame'.fast = eGame.fast
      BY <1>2, <3>5 DEF Session!CoreState
    <3>7. /\ eStage = "top" /\ ~eControls.exit /\ ~eAway.suspended /\ eGameplay' = FALSE
          /\ UNCHANGED <<eStage, eSettings, eControls, eRumble, eMenuOpen, eHooked,
               eCheated, eOpening>>
      BY <2>1 DEF Session!Suspend, Session!Noticing, Session!host
    <3>8. QED  BY <3>1, <3>3, <3>4, <3>6, <3>7
  <2>2. CASE Session!Resume
    <3>1. PICK p \in BOOLEAN : p = (eGame.paused /\ ~(eAway.resume /\ eGame.alive))
      BY <1>2
    <3>2. eGame' = [eGame EXCEPT !.paused = p]
      BY <2>2, <3>1 DEF Session!Resume
    <3>3. /\ eGame' \in Session!CoreState /\ eGame'.alive = eGame.alive /\ eGame'.paused = p
          /\ eGame'.config = eGame.config /\ eGame'.fast = eGame.fast
      BY <1>2, <3>2 DEF Session!CoreState
    <3>4. eAway' \in Session!Lifecycle /\ ~eAway'.suspended
      BY <2>2 DEF Session!Resume, Session!Lifecycle
    <3>5. /\ eStage = "top" /\ ~eControls.exit /\ eAway.suspended /\ eGameplay' = ~eMenuOpen
          /\ UNCHANGED <<eStage, eSettings, eControls, eRumble, eMenuOpen, eHooked,
               eCheated, eOpening>>
      BY <2>2 DEF Session!Resume, Session!Noticing, Session!host
    <3>6. QED  BY <1>2, <3>1, <3>3, <3>4, <3>5
  <2>3. QED  BY <2>1, <2>2
<1>4. Session!TypeOK'
  BY <1>3, SessionStages DEF Session!TypeOK
<1>5. Session!InTheirSteps' /\ Session!StandsStill'
  BY <1>1, <1>2, <1>3
     DEF Session!InTheirSteps, Session!StandsStill, Session!RunsOtherwise, Session!Begun
<1>6. Session!RunsOtherwise'
  BY <1>1, <1>2, <1>3
     DEF Session!InTheirSteps, Session!StandsStill, Session!RunsOtherwise, Session!Begun
<1>7. Session!SetAsKnown'
  BY <1>1, <1>2, <1>3 DEF Session!InTheirSteps, Session!SetAsKnown, Session!Begun
<1>8. QED  BY <1>4, <1>5, <1>6, <1>7

(* A frame begins with a live core and the focus.                             *)
LEMMA FrameBeginsInv ==
  ASSUME Session!IInv, Session!NextFrame
  PROVE  Session!IInv'
<1> USE DEF Session!IInv
<1>1. Session!Finishing = {"leaving", "stopping", "joining", "tearing", "ended"}
  BY SessionStages
<1>2. /\ eGame.alive \in BOOLEAN /\ eGame.paused \in BOOLEAN /\ eGame.fast \in BOOLEAN
      /\ eGame.config \in Config /\ eSettings.config \in Config
      /\ eGame \in Session!CoreState /\ eSettings \in Session!Settings
      /\ eControls \in Session!Controls
      /\ eAway \in Session!Lifecycle /\ eMenuOpen \in BOOLEAN
  BY SessionTyped DEF Session!TypeOK
<1>3. /\ eStage = "top" /\ eStage' = "frame" /\ eGame.alive /\ ~eAway.suspended
      /\ ~eControls.exit
      /\ eAway' \in Session!Lifecycle /\ ~eAway'.suspended
      /\ eControls' \in Session!Controls /\ eControls'.exit = eControls.exit
      /\ eControls'.fast = -1 \/ eControls'.fast = eControls.fast
      /\ UNCHANGED <<eGame, eSettings, eRumble, eMenuOpen, eHooked, eCheated, eOpening, eGameplay>>
  <2>1. eAway' = [eAway EXCEPT !.resumed = FALSE]
    BY DEF Session!NextFrame
  <2>2. eAway' \in Session!Lifecycle /\ eAway'.suspended = eAway.suspended
    BY <1>2, <2>1 DEF Session!Lifecycle
  <2>3. PICK f \in -1 .. 1 : f = IF eAway.resumed THEN -1 ELSE eControls.fast
    BY SessionTyped
  <2>4. eControls' = [eControls EXCEPT !.fast = f]
    BY <2>3 DEF Session!NextFrame
  <2>5. /\ eControls' \in Session!Controls /\ eControls'.exit = eControls.exit
        /\ eControls'.fast = f
    BY <1>2, <2>4 DEF Session!Controls
  <2>6. /\ eStage = "top" /\ eStage' = "frame" /\ eGame.alive /\ ~eAway.suspended
        /\ ~eControls.exit
        /\ UNCHANGED <<eGame, eSettings, eRumble, eMenuOpen, eHooked, eCheated, eOpening,
             eGameplay>>
    BY DEF Session!NextFrame
  <2>7. QED  BY <2>2, <2>3, <2>5, <2>6
<1>4. Session!TypeOK'
  BY <1>3, SessionStages DEF Session!TypeOK
<1>5. Session!InTheirSteps' /\ Session!StandsStill'
  BY <1>1, <1>2, <1>3
     DEF Session!InTheirSteps, Session!StandsStill, Session!RunsOtherwise, Session!Begun
<1>6. Session!RunsOtherwise'
  BY <1>1, <1>2, <1>3
     DEF Session!InTheirSteps, Session!StandsStill, Session!RunsOtherwise, Session!Begun
<1>7. Session!SetAsKnown'
  BY <1>1, <1>2, <1>3 DEF Session!InTheirSteps, Session!SetAsKnown, Session!Begun
<1>8. QED  BY <1>4, <1>5, <1>6, <1>7

(* The menu's iteration changes settings, or closes it and lets the core run.  *)
LEMMA MenuFrameInv ==
  ASSUME Session!IInv, Session!MenuFrame
  PROVE  Session!IInv'
<1> USE DEF Session!IInv
<1>1. Session!Finishing = {"leaving", "stopping", "joining", "tearing", "ended"}
  BY SessionStages
<1>2. /\ eGame.alive \in BOOLEAN /\ eGame.paused \in BOOLEAN /\ eGame.fast \in BOOLEAN
      /\ eGame.config \in Config /\ eSettings.config \in Config
      /\ eGame \in Session!CoreState /\ eSettings \in Session!Settings
      /\ eControls \in Session!Controls
      /\ eAway \in Session!Lifecycle /\ eMenuOpen \in BOOLEAN
  BY SessionTyped DEF Session!TypeOK
<1>3. /\ eStage = "frame" /\ eStage' = "top" /\ eMenuOpen /\ eMenuOpen' \in BOOLEAN
      /\ eGame' \in Session!CoreState /\ eGame'.alive = eGame.alive
      /\ eSettings' \in Session!Settings /\ eControls' \in Session!Controls
      /\ eControls'.exit = eControls.exit
      /\ eMenuOpen' => eGame'.paused = eGame.paused
      /\ ~eMenuOpen' => ~eGame'.paused /\ eControls'.fast = -1
      /\ eGameplay' = ~eMenuOpen' /\ eGameplay' \in BOOLEAN
      /\ UNCHANGED <<eRumble, eAway, eHooked, eCheated, eOpening>>
  <2>1. /\ eStage = "frame" /\ eStage' = "top" /\ eMenuOpen /\ eGameplay' = ~eMenuOpen'
        /\ UNCHANGED <<eRumble, eAway, eHooked, eCheated, eOpening>>
    BY DEF Session!MenuFrame
  <2>2. /\ eMenuOpen' \in BOOLEAN /\ eSettings' \in Session!Settings
        /\ eGame' \in Session!CoreState /\ eGame'.alive = eGame.alive
        /\ eMenuOpen' => eGame'.paused = eGame.paused
        /\ ~eMenuOpen' => ~eGame'.paused
    <3>1. CASE Session!NoChange
      BY <1>2, <2>1, <3>1 DEF Session!NoChange
    <3>2. CASE Session!Change
      <4>1. eSettings' \in Session!Settings
        <5>1. CASE eSettings' \in {[eSettings EXCEPT !.config = c] : c \in Config}
          BY <1>2, <5>1 DEF Session!Settings
        <5>2. CASE eSettings' = [eSettings EXCEPT !.noise = ~@]
          BY <1>2, <5>2 DEF Session!Settings
        <5>3. CASE eSettings' = [eSettings EXCEPT !.vibration = ~@]
          BY <1>2, <5>3 DEF Session!Settings
        <5>4. CASE eSettings' = [eSettings EXCEPT !.swapped = ~@]
          BY <1>2, <5>4 DEF Session!Settings
        <5>5. QED  BY <3>2, <5>1, <5>2, <5>3, <5>4 DEF Session!Change
      <4>2. PICK c \in Config : c = eSettings'.config
        BY <4>1 DEF Session!Settings
      <4>3. eGame' = [eGame EXCEPT !.config = c, !.fast = FALSE] \/ eGame' = eGame
        BY <3>2, <4>2 DEF Session!Change
      <4>4. /\ eGame' \in Session!CoreState /\ eGame'.alive = eGame.alive
            /\ eGame'.paused = eGame.paused
        BY <1>2, <4>3 DEF Session!CoreState
      <4>5. eMenuOpen' = eMenuOpen
        BY <3>2 DEF Session!Change
      <4>6. QED  BY <1>2, <2>1, <4>1, <4>4, <4>5
    <3>3. CASE Session!CloseAndResume
      <4>1. /\ eGame' = [eGame EXCEPT !.paused = FALSE] /\ eMenuOpen' = FALSE
            /\ eSettings' = eSettings
        BY <3>3 DEF Session!CloseAndResume
      <4>2. /\ eGame' \in Session!CoreState /\ eGame'.alive = eGame.alive
            /\ eGame'.paused = FALSE
        BY <1>2, <4>1 DEF Session!CoreState
      <4>3. QED  BY <1>2, <4>1, <4>2
    <3>4. QED  BY <3>1, <3>2, <3>3 DEF Session!MenuFrame
  <2>3. PICK f \in -1 .. 1 : f = IF eMenuOpen' THEN eControls.fast ELSE -1
    BY SessionTyped
  <2>4. eControls' = [eControls EXCEPT !.fast = f]
    BY <2>3 DEF Session!MenuFrame
  <2>5. /\ eControls' \in Session!Controls /\ eControls'.exit = eControls.exit
        /\ eControls'.fast = f
    BY <1>2, <2>4 DEF Session!Controls
  <2>6. QED  BY <2>1, <2>2, <2>3, <2>5
<1>4. Session!TypeOK'
  BY <1>3, SessionStages DEF Session!TypeOK
<1>5. Session!InTheirSteps' /\ Session!StandsStill'
  BY <1>1, <1>2, <1>3
     DEF Session!InTheirSteps, Session!StandsStill, Session!RunsOtherwise, Session!Begun
<1>6. Session!RunsOtherwise'
  BY <1>1, <1>2, <1>3
     DEF Session!InTheirSteps, Session!StandsStill, Session!RunsOtherwise, Session!Begun
<1>7. Session!SetAsKnown'
  BY <1>1, <1>2, <1>3 DEF Session!InTheirSteps, Session!SetAsKnown, Session!Begun
<1>8. QED  BY <1>4, <1>5, <1>6, <1>7

(* The menu's Quit leaves the core paused.                                    *)
LEMMA QuitInv ==
  ASSUME Session!IInv, Session!QuitFrame
  PROVE  Session!IInv'
<1> USE DEF Session!IInv
<1>1. Session!Finishing = {"leaving", "stopping", "joining", "tearing", "ended"}
  BY SessionStages
<1>2. /\ eGame.alive \in BOOLEAN /\ eGame.paused \in BOOLEAN /\ eGame.fast \in BOOLEAN
      /\ eGame.config \in Config /\ eSettings.config \in Config
      /\ eGame \in Session!CoreState /\ eSettings \in Session!Settings
      /\ eControls \in Session!Controls
      /\ eAway \in Session!Lifecycle /\ eMenuOpen \in BOOLEAN
  BY SessionTyped DEF Session!TypeOK
<1>3. /\ eStage = "frame" /\ eStage' = "top" /\ eMenuOpen /\ eMenuOpen' = FALSE
      /\ eControls' \in Session!Controls /\ eControls'.exit = TRUE /\ eControls'.fast = -1
      /\ eGameplay' = TRUE
      /\ UNCHANGED <<eGame, eSettings, eRumble, eAway, eHooked, eCheated, eOpening>>
  <2>1. eControls' = [eControls EXCEPT !.exit = TRUE, !.fast = -1]
    BY DEF Session!QuitFrame
  <2>2. eControls' \in Session!Controls /\ eControls'.exit = TRUE /\ eControls'.fast = -1
    <3>1. PICK f \in -1 .. 1 : f = -1
      OBVIOUS
    <3>2. eControls' = [eControls EXCEPT !.exit = TRUE, !.fast = f]
      BY <2>1, <3>1
    <3>3. eControls' \in Session!Controls /\ eControls'.exit = TRUE /\ eControls'.fast = f
      BY <1>2, <3>2 DEF Session!Controls
    <3>4. QED  BY <3>1, <3>3
  <2>3. QED  BY <2>2 DEF Session!QuitFrame
<1>4. Session!TypeOK'
  BY <1>3, SessionStages DEF Session!TypeOK
<1>5. Session!InTheirSteps' /\ Session!StandsStill'
  BY <1>1, <1>2, <1>3
     DEF Session!InTheirSteps, Session!StandsStill, Session!RunsOtherwise, Session!Begun
<1>6. Session!RunsOtherwise'
  BY <1>1, <1>2, <1>3
     DEF Session!InTheirSteps, Session!StandsStill, Session!RunsOtherwise, Session!Begun
<1>7. Session!SetAsKnown'
  BY <1>1, <1>2, <1>3 DEF Session!InTheirSteps, Session!SetAsKnown, Session!Begun
<1>8. QED  BY <1>4, <1>5, <1>6, <1>7

(* A frame's input: the menu is asked for, or the hotkeys are obeyed.         *)
LEMMA InputInv ==
  ASSUME Session!IInv, Session!TransitionFrame \/ Session!GameFrame
  PROVE  Session!IInv'
<1> USE DEF Session!IInv
<1>1. Session!Finishing = {"leaving", "stopping", "joining", "tearing", "ended"}
  BY SessionStages
<1>2. /\ eGame.alive \in BOOLEAN /\ eGame.paused \in BOOLEAN /\ eGame.fast \in BOOLEAN
      /\ eGame.config \in Config /\ eSettings.config \in Config
      /\ eGame \in Session!CoreState /\ eSettings \in Session!Settings
      /\ eControls \in Session!Controls
      /\ eAway \in Session!Lifecycle /\ eMenuOpen \in BOOLEAN
  BY SessionTyped DEF Session!TypeOK
<1>3. /\ eStage = "frame" /\ eStage' \in {"shown", "wait"} /\ ~eMenuOpen
      /\ \/ eOpening' = TRUE /\ eGameplay' = FALSE /\ UNCHANGED <<eGame, eSettings,
              eControls, eRumble>>
         \/ /\ eOpening' = FALSE /\ eGameplay' = TRUE /\ eRumble' \in BOOLEAN
            /\ eSettings' \in Session!Settings /\ eSettings'.config = eSettings.config
            /\ eControls' \in Session!Controls /\ eControls'.fast \in {0, 1}
            /\ eGame' \in Session!CoreState /\ eGame'.alive = eGame.alive
            /\ eGame'.paused = FALSE \/ eGame'.paused = eGame.paused
            /\ \/ /\ eControls'.fast = eControls.fast
                  /\ eGame'.config = eGame.config /\ eGame'.fast = eGame.fast
               \/ eGame'.config = eSettings.config /\ (eGame'.fast <=> eControls'.fast = 1)
      /\ UNCHANGED <<eMenuOpen, eAway, eHooked, eCheated>>
  <2>1. /\ eStage = "frame" /\ eStage' \in {"shown", "wait"} /\ ~eMenuOpen
        /\ UNCHANGED <<eMenuOpen, eAway, eHooked, eCheated>> /\ Session!ProcessInput
    BY DEF Session!TransitionFrame, Session!GameFrame
  <2>2. CASE Session!AskMenu
    BY <2>1, <2>2 DEF Session!AskMenu, Session!host
  <2>3. CASE \E p \in SUBSET Session!Hotkey, held \in BOOLEAN : Session!ObeyHotkeys(p, held)
    <3>1. PICK p \in SUBSET Session!Hotkey, held \in BOOLEAN : Session!ObeyHotkeys(p, held)
      BY <2>3
    <3>2. PICK s \in BOOLEAN : s = (eSettings.swapped # ("swap" \in p))
      BY <1>2 DEF Session!Settings
    <3>3. eSettings' = [eSettings EXCEPT !.swapped = s]
      BY <3>1, <3>2 DEF Session!ObeyHotkeys
    <3>4. eSettings' \in Session!Settings /\ eSettings'.config = eSettings.config
      BY <1>2, <3>3 DEF Session!Settings
    <3>5. eOpening' = FALSE /\ eGameplay' = TRUE /\ eRumble' \in BOOLEAN
      BY <3>1 DEF Session!ObeyHotkeys, Session!Rumble
    <3>6. /\ eControls' \in Session!Controls /\ eControls'.fast \in {0, 1}
          /\ eGame' \in Session!CoreState /\ eGame'.alive = eGame.alive
          /\ eGame'.paused = FALSE \/ eGame'.paused = eGame.paused
          /\ \/ /\ eControls'.fast = eControls.fast
                /\ eGame'.config = eGame.config /\ eGame'.fast = eGame.fast
             \/ eGame'.config = eSettings.config /\ (eGame'.fast <=> eControls'.fast = 1)
      BY <1>2, <3>1, HotkeyEffect DEF Session!ObeyHotkeys
    <3>7. QED  BY <2>1, <3>4, <3>5, <3>6
  <2>4. QED  BY <2>1, <2>2, <2>3 DEF Session!ProcessInput
<1>4. Session!TypeOK'
  BY <1>3, SessionStages DEF Session!TypeOK
<1>5. Session!InTheirSteps' /\ Session!StandsStill'
  BY <1>1, <1>2, <1>3
     DEF Session!InTheirSteps, Session!StandsStill, Session!RunsOtherwise, Session!Begun
<1>6. Session!RunsOtherwise'
  BY <1>1, <1>2, <1>3
     DEF Session!InTheirSteps, Session!StandsStill, Session!RunsOtherwise, Session!Begun
<1>7. Session!SetAsKnown'
  BY <1>1, <1>2, <1>3 DEF Session!InTheirSteps, Session!SetAsKnown, Session!Begun
<1>8. QED  BY <1>4, <1>5, <1>6, <1>7

(* A picture arrives, is shown, and the menu opens that was asked for.        *)
LEMMA FrameEndsInv ==
  ASSUME Session!IInv,
         Session!ScreenArrives \/ Session!EndNoticed \/ Session!Present \/ Session!FrameDone
  PROVE  Session!IInv'
<1> USE DEF Session!IInv
<1>1. Session!Finishing = {"leaving", "stopping", "joining", "tearing", "ended"}
  BY SessionStages
<1>2. /\ eGame.alive \in BOOLEAN /\ eGame.paused \in BOOLEAN /\ eGame.fast \in BOOLEAN
      /\ eGame.config \in Config /\ eSettings.config \in Config
      /\ eGame \in Session!CoreState /\ eSettings \in Session!Settings
      /\ eControls \in Session!Controls
      /\ eAway \in Session!Lifecycle /\ eMenuOpen \in BOOLEAN
  BY SessionTyped DEF Session!TypeOK
<1>3. /\ \/ eStage = "wait" /\ eStage' \in {"present", "leaving"} /\ UNCHANGED <<eGame,
              eMenuOpen, eOpening>>
         \/ /\ eStage = "present" /\ eStage' = "shown" /\ UNCHANGED <<eMenuOpen, eOpening>>
            /\ eGame'.paused => eGame.paused
         \/ /\ eStage = "shown" /\ eStage' = "top" /\ eMenuOpen' = eOpening
            /\ eOpening' = FALSE
            /\ (eGame'.paused <=> eGame.paused \/ eOpening)
      /\ eGame' \in Session!CoreState /\ eGame'.alive = eGame.alive
      /\ eGame'.config = eGame.config /\ eGame'.fast = eGame.fast
      /\ eCheated' \in BOOLEAN /\ eMenuOpen' \in BOOLEAN /\ eOpening' \in BOOLEAN
      /\ UNCHANGED <<eSettings, eControls, eRumble, eAway, eHooked, eGameplay>>
  <2>1. eOpening \in BOOLEAN /\ eCheated \in BOOLEAN
    BY DEF Session!TypeOK
  <2>2. CASE Session!ScreenArrives \/ Session!EndNoticed
    BY <1>2, <2>1, <2>2
       DEF Session!ScreenArrives, Session!EndNoticed, Session!host, Session!session
  <2>3. CASE Session!Present
    <3>1. PICK p \in BOOLEAN : p = (eGame.paused /\ eCheated)
      BY <1>2
    <3>2. /\ eGame' = [eGame EXCEPT !.paused = p] /\ eCheated' = TRUE
          /\ eStage = "present" /\ eStage' = "shown"
          /\ UNCHANGED <<eSettings, eControls, eRumble, eMenuOpen, eAway, eHooked, eOpening,
               eGameplay>>
      BY <2>3, <3>1 DEF Session!Present, Session!host
    <3>3. /\ eGame' \in Session!CoreState /\ eGame'.alive = eGame.alive /\ eGame'.paused = p
          /\ eGame'.config = eGame.config /\ eGame'.fast = eGame.fast
      BY <1>2, <3>2 DEF Session!CoreState
    <3>4. QED  BY <1>2, <2>1, <3>1, <3>2, <3>3
  <2>4. CASE Session!FrameDone
    <3>1. PICK p \in BOOLEAN : p = (eGame.paused \/ eOpening)
      BY <1>2
    <3>2. /\ eGame' = [eGame EXCEPT !.paused = p] /\ eMenuOpen' = eOpening
          /\ eOpening' = FALSE
          /\ eStage = "shown" /\ eStage' = "top"
          /\ UNCHANGED <<eSettings, eControls, eRumble, eAway, eHooked, eCheated, eGameplay>>
      BY <2>4, <3>1 DEF Session!FrameDone, Session!host
    <3>3. /\ eGame' \in Session!CoreState /\ eGame'.alive = eGame.alive /\ eGame'.paused = p
          /\ eGame'.config = eGame.config /\ eGame'.fast = eGame.fast
      BY <1>2, <3>2 DEF Session!CoreState
    <3>4. QED  BY <1>2, <2>1, <3>1, <3>2, <3>3
  <2>5. QED  BY <2>2, <2>3, <2>4
<1>4. Session!TypeOK'
  BY <1>3, SessionStages DEF Session!TypeOK
<1>5. Session!InTheirSteps' /\ Session!StandsStill'
  BY <1>1, <1>2, <1>3
     DEF Session!InTheirSteps, Session!StandsStill, Session!RunsOtherwise, Session!Begun
<1>6. Session!RunsOtherwise'
  BY <1>1, <1>2, <1>3
     DEF Session!InTheirSteps, Session!StandsStill, Session!RunsOtherwise, Session!Begun
<1>7. Session!SetAsKnown'
  BY <1>1, <1>2, <1>3 DEF Session!InTheirSteps, Session!SetAsKnown, Session!Begun
<1>8. QED  BY <1>4, <1>5, <1>6, <1>7

(* The end: the input is taken away before the core is stopped.               *)
LEMMA SessionEndsInv ==
  ASSUME Session!IInv, Session!LeaveSession \/ Session!StopCore \/ Session!JoinGame
  PROVE  Session!IInv'
<1> USE DEF Session!IInv
<1>1. Session!Finishing = {"leaving", "stopping", "joining", "tearing", "ended"}
  BY SessionStages
<1>2. /\ eGame.alive \in BOOLEAN /\ eGame.paused \in BOOLEAN /\ eGame.fast \in BOOLEAN
      /\ eGame.config \in Config /\ eSettings.config \in Config
      /\ eGame \in Session!CoreState /\ eSettings \in Session!Settings
      /\ eControls \in Session!Controls
      /\ eAway \in Session!Lifecycle /\ eMenuOpen \in BOOLEAN
  BY SessionTyped DEF Session!TypeOK
<1>3. /\ \/ /\ eStage = "leaving" /\ eStage' = "stopping" /\ eGameplay' = FALSE
            /\ eMenuOpen' = FALSE
            /\ eHooked' = FALSE /\ eRumble' = FALSE /\ UNCHANGED eGame
         \/ /\ eStage = "stopping" /\ eStage' = "joining"
            /\ UNCHANGED <<eGameplay, eMenuOpen, eHooked, eRumble>>
            /\ eGame' \in Session!CoreState /\ eGame'.alive = eGame.alive
            /\ (eGame'.paused <=> eGame.alive \/ eGame.paused)
         \/ /\ eStage = "joining" /\ eStage' = "tearing"
            /\ UNCHANGED <<eGame, eGameplay, eMenuOpen, eHooked, eRumble>>
      /\ eGame' \in Session!CoreState
      /\ UNCHANGED <<eSettings, eControls, eAway, eCheated, eOpening>>
  <2>1. CASE Session!LeaveSession
    BY <1>2, <2>1 DEF Session!LeaveSession
  <2>2. CASE Session!StopCore
    <3>1. PICK p \in BOOLEAN : p = (eGame.alive \/ eGame.paused)
      BY <1>2
    <3>2. eGame' = [eGame EXCEPT !.paused = p]
      BY <2>2, <3>1 DEF Session!StopCore
    <3>3. eGame' \in Session!CoreState /\ eGame'.alive = eGame.alive /\ eGame'.paused = p
      BY <1>2, <3>2 DEF Session!CoreState
    <3>4. QED  BY <2>2, <3>1, <3>3 DEF Session!StopCore, Session!host, Session!session
  <2>3. CASE Session!JoinGame
    BY <1>2, <2>3 DEF Session!JoinGame, Session!host, Session!session
  <2>4. QED  BY <2>1, <2>2, <2>3
<1>4. Session!TypeOK'
  BY <1>3, SessionStages DEF Session!TypeOK
<1>5. Session!InTheirSteps' /\ Session!StandsStill'
  BY <1>1, <1>2, <1>3
     DEF Session!InTheirSteps, Session!StandsStill, Session!RunsOtherwise, Session!Begun
<1>6. Session!RunsOtherwise'
  BY <1>1, <1>2, <1>3
     DEF Session!InTheirSteps, Session!StandsStill, Session!RunsOtherwise, Session!Begun
<1>7. Session!SetAsKnown'
  BY <1>1, <1>2, <1>3 DEF Session!InTheirSteps, Session!SetAsKnown, Session!Begun
<1>8. QED  BY <1>4, <1>5, <1>6, <1>7

(* Without the core: the session ends before its first picture.              *)
LEMMA SessionFailsInv ==
  ASSUME Session!IInv, Session!CouldNotStart
  PROVE  Session!IInv'
<1> USE DEF Session!IInv
<1>1. Session!Finishing = {"leaving", "stopping", "joining", "tearing", "ended"}
  BY SessionStages
<1>2. /\ eStage = "leaving" /\ eStage' = "fatal" /\ ~eCheated /\ ~eGame.alive
      /\ eHooked' = FALSE
      /\ UNCHANGED <<eGame, eSettings, eControls, eRumble, eMenuOpen, eAway, eCheated,
                    eOpening, eGameplay>>
  BY DEF Session!CouldNotStart, Session!host
<1>3. Session!TypeOK'
  BY <1>2, SessionStages DEF Session!TypeOK
<1>4. Session!InTheirSteps' /\ Session!StandsStill'
  BY <1>1, <1>2
     DEF Session!InTheirSteps, Session!StandsStill, Session!RunsOtherwise, Session!Begun
<1>5. Session!RunsOtherwise' /\ Session!SetAsKnown'
  BY <1>1, <1>2
     DEF Session!InTheirSteps, Session!StandsStill, Session!RunsOtherwise,
         Session!SetAsKnown, Session!Begun
<1>6. QED  BY <1>3, <1>4, <1>5

(* Every step keeps the invariant.                                          *)
LEMMA SessionStep == Session!IInv /\ Session!Next => Session!IInv'
  BY StartInv, ThreadInv, InputStartsInv, FocusInv, FrameBeginsInv, MenuFrameInv, QuitInv,
     InputInv, FrameEndsInv, SessionEndsInv, SessionFailsInv
     DEF Session!Next, Session!StartGame, Session!StartSampler

LEMMA SessionStutter == Session!IInv /\ UNCHANGED Session!vars => Session!IInv'
  BY DEF Session!vars, Session!host, Session!session, Session!IInv, Session!TypeOK,
         Session!InTheirSteps, Session!StandsStill, Session!RunsOtherwise,
         Session!SetAsKnown

(* The core follows the host.                                               *)
LEMMA SessionSafe == Session!IInv => Session!SessionInStep
<1> SUFFICES ASSUME Session!IInv PROVE Session!SessionInStep
  OBVIOUS
<1>1. Session!CoreStandsStill
  BY SessionStages
     DEF Session!IInv, Session!InTheirSteps, Session!StandsStill, Session!RunsOtherwise,
         Session!CoreStandsStill
<1>2. Session!CoreRunsAsSet
  BY SessionStages
     DEF Session!IInv, Session!InTheirSteps, Session!SetAsKnown, Session!CoreRunsAsSet
<1>3. QED  BY <1>1, <1>2 DEF Session!SessionInStep

HIDE DEF eStage, eGame, eSettings, eControls, eMenuOpen, eAway, eHooked, eGameplay, eRumble,
         eCheated, eOpening

--------------------------------------------------------------------------------
(* Pages: trying, cancelling and failing leave no trace.                      *)

mPage == v1
mConfig == v2
mSaved == v3
mCore == v4
mInstalled == v5
mFound == v6
mBackup == v7
mPicker == v8
mLeaving == v9

USE DEF mPage, mConfig, mSaved, mCore, mInstalled, mFound, mBackup, mPicker, mLeaving

(* The lists the picker goes through.                                       *)
LEMMA PagesLists ==
  /\ DOMAIN PageFilters = 1 .. Len(PageFilters) /\ Len(PageFilters) \in Nat \ {0}
  /\ \A i \in DOMAIN PageFilters :
        PageFilters[i] \in Pages!Filter /\ PageFilters[i] # Pages!Custom
  /\ \A l \in Pages!Lists :
       /\ DOMAIN l = 1 .. Len(l) /\ Len(l) \in Nat
       /\ l # <<>> => Len(l) # 0
       /\ \A i \in DOMAIN l : l[i] \in PageShaders
  /\ <<>> \in Pages!Lists /\ Pages!Custom \in Pages!Filter
<1>1. DOMAIN PageFilters = 1 .. Len(PageFilters) /\ Len(PageFilters) \in Nat \ {0}
  BY FiltersAssumption
<1>2. \A i \in DOMAIN PageFilters :
            PageFilters[i] \in Pages!Filter /\ PageFilters[i] # Pages!Custom
  BY FiltersAssumption DEF Pages!Values, Pages!Filter
<1>3. ASSUME NEW l \in Pages!Lists
      PROVE  /\ DOMAIN l = 1 .. Len(l) /\ Len(l) \in Nat
             /\ l # <<>> => Len(l) # 0
             /\ \A i \in DOMAIN l : l[i] \in PageShaders
  <2>1. PICK n \in 0 .. 2 : l \in [1 .. n -> PageShaders]
    BY DEF Pages!Lists
  <2>2. l \in Seq(PageShaders)
    BY <2>1
  <2>3. QED  BY <2>2
<1>4. <<>> \in Pages!Lists /\ Pages!Custom \in Pages!Filter
  BY DEF Pages!Lists, Pages!Filter
<1>5. QED  BY <1>1, <1>2, <1>3, <1>4

LEMMA StepStays ==
  ASSUME NEW n \in Nat \ {0}, NEW i \in 1 .. n, NEW d \in -1 .. 1
  PROVE  Pages!Step(i, d, n) \in 1 .. n
<1>1. i - 1 + d + n \in Nat
  OBVIOUS
<1>2. \A k \in Nat : k % n \in 0 .. n - 1
  OBVIOUS
<1>3. (i - 1 + d + n) % n \in 0 .. n - 1
  BY <1>1, <1>2
<1>4. QED  BY <1>3 DEF Pages!Step

LEMMA FirstStays ==
  ASSUME NEW list, DOMAIN list = 1 .. Len(list), Len(list) \in Nat \ {0},
         NEW x, NEW d \in -1 .. 1
  PROVE  Pages!FirstCandidate(list, x, d) \in 1 .. Len(list)
<1>1. Pages!IndexOf(list, x) = 0 \/ Pages!IndexOf(list, x) \in 1 .. Len(list)
  BY DEF Pages!IndexOf
<1>2. CASE Pages!IndexOf(list, x) = 0
  BY <1>2 DEF Pages!FirstCandidate
<1>3. CASE Pages!IndexOf(list, x) \in 1 .. Len(list)
  <2>1. Pages!IndexOf(list, x) # 0
    BY <1>3
  <2>2. Pages!Step(Pages!IndexOf(list, x), d, Len(list)) \in 1 .. Len(list)
    BY <1>3, StepStays
  <2>3. QED  BY <2>1, <2>2 DEF Pages!FirstCandidate
<1>4. QED  BY <1>1, <1>2, <1>3

(* What the two configurations hold, and what a change of one makes of it.  *)
LEMMA PagesConfigs ==
  ASSUME Pages!TypeOK
  PROVE  /\ mConfig.row \in [Pages!Running -> BOOLEAN] /\ mSaved.row \in [Pages!Row -> BOOLEAN]
         /\ mCore \in [Pages!Core -> BOOLEAN]
         /\ \A c \in Pages!Running0 :
              /\ c.filter \in Pages!Filter /\ c.shader \in PageShaders \cup {Pages!NoShader}
              /\ c.row["layout"] \in BOOLEAN
         /\ \A f \in Pages!Filter, s \in PageShaders \cup {Pages!NoShader},
              v \in [Pages!Running -> BOOLEAN] :
              [row |-> v, filter |-> f, shader |-> s] \in Pages!Running0
         /\ mConfig = [row |-> mConfig.row, filter |-> mConfig.filter, shader |-> mConfig.shader]
         /\ mConfig \in Pages!Running0 /\ mSaved.filter \in Pages!Filter
         /\ mSaved.shader \in PageShaders \cup {Pages!NoShader}
         /\ Pages!Running \subseteq Pages!Row /\ Pages!Core \subseteq Pages!Row
<1>1. mConfig \in Pages!Running0 /\ mCore \in [Pages!Core -> BOOLEAN]
  BY DEF Pages!TypeOK
<1>2. mConfig.row \in [Pages!Running -> BOOLEAN]
  BY <1>1 DEF Pages!Running0
<1>3. /\ mSaved.row \in [Pages!Row -> BOOLEAN] /\ mSaved.filter \in Pages!Filter
      /\ mSaved.shader \in PageShaders \cup {Pages!NoShader}
  BY DEF Pages!TypeOK
<1>4. mConfig = [row |-> mConfig.row, filter |-> mConfig.filter, shader |-> mConfig.shader]
  BY <1>1 DEF Pages!Running0
<1>5. ASSUME NEW c \in Pages!Running0
      PROVE  /\ c.filter \in Pages!Filter /\ c.shader \in PageShaders \cup {Pages!NoShader}
             /\ c.row["layout"] \in BOOLEAN
  BY <1>5 DEF Pages!Running0, Pages!Running
<1>6. \A f \in Pages!Filter, s \in PageShaders \cup {Pages!NoShader},
        v \in [Pages!Running -> BOOLEAN] :
        [row |-> v, filter |-> f, shader |-> s] \in Pages!Running0
  BY DEF Pages!Running0
<1>7. Pages!Running \subseteq Pages!Row /\ Pages!Core \subseteq Pages!Row
  BY DEF Pages!Running, Pages!Core, Pages!DisplayRow, Pages!EmulationRow, Pages!AudioRow,
         Pages!Row
<1>8. QED  BY <1>1, <1>2, <1>3, <1>4, <1>5, <1>6, <1>7

LEMMA PagesInit == Pages!Init => Pages!IInv
<1> SUFFICES ASSUME Pages!Init PROVE Pages!IInv
  OBVIOUS
<1>1. /\ mSaved \in [row : [Pages!Row -> BOOLEAN], filter : Pages!Filter,
           shader : PageShaders \cup {Pages!NoShader}]
      /\ mSaved.row \in [Pages!Row -> BOOLEAN]
      /\ mSaved.filter \in Pages!Filter
      /\ mSaved.shader \in PageShaders \cup {Pages!NoShader}
  BY DEF Pages!Init
<1>2. \A r \in Pages!Running \cup Pages!Core : r \in Pages!Row
  BY DEF Pages!Running, Pages!Core, Pages!Row, Pages!DisplayRow, Pages!EmulationRow,
         Pages!AudioRow
<1>3. mConfig \in Pages!Running0 /\ mCore \in [Pages!Core -> BOOLEAN]
  BY <1>1, <1>2 DEF Pages!Init, Pages!Running0
<1>4. mInstalled \in PageShaders \cup {Pages!NoShader}
  BY <1>1 DEF Pages!Init
<1>5. Pages!TypeOK
  BY <1>1, <1>3, <1>4, PagesLists DEF Pages!Init, Pages!TypeOK, Pages!Page
<1>6. Pages!MenuLeavesNoTrace
  BY DEF Pages!Init, Pages!MenuLeavesNoTrace
<1>7. QED
  BY <1>5, <1>6
     DEF Pages!Init, Pages!IInv, Pages!CandidateListed, Pages!BackAsSaved, Pages!OnlyTried

(* The ways between the pages.                                              *)
LEMMA WaysInv ==
  ASSUME Pages!IInv, Pages!Open \/ Pages!Close \/ Pages!SelectPage \/ Pages!Back
  PROVE  Pages!IInv'
<1>1. /\ UNCHANGED <<mConfig, mSaved, mCore, mInstalled, mBackup, mPicker, mFound>>
      /\ mPage' \in Pages!Page \ {"picker", "editor"} /\ mPage \notin {"picker", "editor"}
      /\ mLeaving' \in BOOLEAN
  BY DEF Pages!Open, Pages!Close, Pages!SelectPage, Pages!Back, Pages!chosen, Pages!trying,
         Pages!Page, Pages!IInv, Pages!TypeOK
<1>2. Pages!TypeOK'
  BY <1>1 DEF Pages!IInv, Pages!TypeOK
<1>3. QED
  BY <1>1, <1>2
     DEF Pages!IInv, Pages!CandidateListed, Pages!BackAsSaved, Pages!OnlyTried,
         Pages!MenuLeavesNoTrace

LEMMA SwapInv == ASSUME Pages!IInv, Pages!SwapHotkey PROVE Pages!IInv'
<1>1. /\ mConfig.row \in [Pages!Running -> BOOLEAN] /\ "swapped" \in Pages!Running
      /\ mConfig \in Pages!Running0
  BY PagesConfigs DEF Pages!IInv, Pages!Running
<1>2. PICK v \in [Pages!Running -> BOOLEAN] :
        /\ mConfig' = [mConfig EXCEPT !.row = v]
        /\ \A r \in Pages!Running \ {"swapped"} : v[r] = mConfig.row[r]
  <2>1. mConfig' = [mConfig EXCEPT !.row =
          [mConfig.row EXCEPT !["swapped"] = ~mConfig.row["swapped"]]]
    BY DEF Pages!SwapHotkey
  <2>2. [mConfig.row EXCEPT !["swapped"] = ~mConfig.row["swapped"]] \in [Pages!Running -> BOOLEAN]
    BY <1>1
  <2>3. QED  BY <1>1, <2>1, <2>2
<1>3. /\ mConfig' \in Pages!Running0 /\ mConfig'.row = v /\ mConfig'.filter = mConfig.filter
      /\ mConfig'.shader = mConfig.shader
  BY <1>1, <1>2 DEF Pages!Running0
<1>4. /\ mPage = "closed"
      /\ UNCHANGED <<mPage, mSaved, mCore, mInstalled, mBackup, mPicker, mFound, mLeaving>>
  BY DEF Pages!SwapHotkey, Pages!trying
<1>5. Pages!TypeOK'
  BY <1>3, <1>4 DEF Pages!IInv, Pages!TypeOK
<1>6. Pages!MenuLeavesNoTrace'
  BY <1>2, <1>3, <1>4 DEF Pages!IInv, Pages!MenuLeavesNoTrace
<1>7. QED
  BY <1>4, <1>5, <1>6
     DEF Pages!IInv, Pages!CandidateListed, Pages!BackAsSaved, Pages!OnlyTried

(* A row that is changed is saved, and told the core if it is in its word.  *)
LEMMA RowInv ==
  ASSUME Pages!IInv, mPage \notin {"picker", "editor"}, NEW r \in Pages!Row, Pages!Save(r),
         r \in Pages!Core => Pages!ApplyCore, r \notin Pages!Core => mCore' = mCore,
         UNCHANGED <<mPage, mInstalled, Pages!trying, mLeaving>>
  PROVE  Pages!IInv'
<1>1. /\ mConfig.row \in [Pages!Running -> BOOLEAN] /\ mSaved.row \in [Pages!Row -> BOOLEAN]
      /\ mConfig \in Pages!Running0 /\ mCore \in [Pages!Core -> BOOLEAN]
      /\ Pages!Running \subseteq Pages!Row /\ Pages!Core \subseteq Pages!Row
  BY PagesConfigs DEF Pages!IInv
<1>2. PICK v \in [Pages!Running -> BOOLEAN] :
        /\ mConfig' = [mConfig EXCEPT !.row = v]
        /\ \A q \in Pages!Running \ {r} : v[q] = mConfig.row[q]
  <2>1. mConfig' = [mConfig EXCEPT !.row = Pages!Toggled(mConfig.row, r)]
    BY DEF Pages!Save
  <2>2. /\ Pages!Toggled(mConfig.row, r) \in [Pages!Running -> BOOLEAN]
        /\ \A q \in Pages!Running \ {r} : Pages!Toggled(mConfig.row, r)[q] = mConfig.row[q]
    BY <1>1 DEF Pages!Toggled
  <2>3. QED  BY <2>1, <2>2
<1>3. /\ mConfig' \in Pages!Running0 /\ mConfig'.row = v
      /\ mConfig'.filter = mConfig.filter /\ mConfig'.shader = mConfig.shader
  BY <1>1, <1>2 DEF Pages!Running0
<1>4. PICK w \in [Pages!Row -> BOOLEAN] :
        /\ mSaved' = [mSaved EXCEPT !.row = w]
        /\ \A q \in Pages!Row \ {r} : w[q] = mSaved.row[q]
        /\ r \in Pages!Running => w[r] = v[r]
  <2>1. PICK b \in BOOLEAN : /\ b = IF r \in Pages!Running THEN v[r] ELSE ~mSaved.row[r]
                             /\ mSaved' = [mSaved EXCEPT !.row[r] = b]
    BY <1>1, <1>3 DEF Pages!Save
  <2>2. mSaved' = [mSaved EXCEPT !.row = [mSaved.row EXCEPT ![r] = b]]
    BY <2>1
  <2>3. [mSaved.row EXCEPT ![r] = b] \in [Pages!Row -> BOOLEAN]
    BY <1>1
  <2>4. QED  BY <1>1, <2>1, <2>2, <2>3
<1>5. /\ mSaved' \in [row : [Pages!Row -> BOOLEAN], filter : Pages!Filter,
           shader : PageShaders \cup {Pages!NoShader}]
      /\ mSaved'.row = w /\ mSaved'.filter = mSaved.filter /\ mSaved'.shader = mSaved.shader
  BY <1>4 DEF Pages!IInv, Pages!TypeOK
<1>6. UNCHANGED <<mPage, mInstalled, mBackup, mPicker, mFound, mLeaving>>
  BY DEF Pages!trying
<1>7. mCore' \in [Pages!Core -> BOOLEAN] /\ \A q \in Pages!Core : mCore'[q] = w[q]
  <2>1. CASE r \in Pages!Core
    BY <1>1, <1>4, <1>5, <2>1 DEF Pages!ApplyCore
  <2>2. CASE r \notin Pages!Core
    BY <1>1, <1>4, <2>2 DEF Pages!IInv, Pages!MenuLeavesNoTrace
  <2>3. QED  BY <2>1, <2>2
<1>8. Pages!TypeOK'
  BY <1>3, <1>5, <1>6, <1>7 DEF Pages!IInv, Pages!TypeOK
<1>9. \A q \in Pages!Running \ {"swapped"} : v[q] = w[q]
  BY <1>1, <1>2, <1>4 DEF Pages!IInv, Pages!MenuLeavesNoTrace
<1>10. Pages!MenuLeavesNoTrace'
  BY <1>3, <1>5, <1>6, <1>7, <1>9 DEF Pages!IInv, Pages!MenuLeavesNoTrace
<1>11. QED
  BY <1>6, <1>8, <1>10
     DEF Pages!IInv, Pages!CandidateListed, Pages!BackAsSaved, Pages!OnlyTried

LEMMA RowsInv ==
  ASSUME Pages!IInv, Pages!ChangeDisplay \/ Pages!ChangeEmulation \/ Pages!ChangeAudio
  PROVE  Pages!IInv'
<1>1. /\ Pages!DisplayRow \cup Pages!EmulationRow \cup Pages!AudioRow \subseteq Pages!Row
      /\ Pages!Core \cap Pages!DisplayRow = {} /\ Pages!EmulationRow \subseteq Pages!Core
      /\ Pages!AudioRow \subseteq Pages!Core
  BY DEF Pages!Core, Pages!DisplayRow, Pages!EmulationRow, Pages!AudioRow, Pages!Row
<1>2. CASE Pages!ChangeDisplay
  BY <1>1, <1>2, RowInv DEF Pages!ChangeDisplay
<1>3. CASE Pages!ChangeEmulation
  BY <1>1, <1>3, RowInv DEF Pages!ChangeEmulation
<1>4. CASE Pages!ChangeAudio
  BY <1>1, <1>4, RowInv DEF Pages!ChangeAudio
<1>5. QED  BY <1>2, <1>3, <1>4

(* A candidate is tried on the running configuration, and the renderer's    *)
(* shader follows.                                                          *)
LEMMA TryBuiltinGives ==
  ASSUME Pages!TypeOK, NEW i \in DOMAIN PageFilters, Pages!TryBuiltin(i)
  PROVE  /\ mPicker' = [custom |-> FALSE, index |-> i, valid |-> TRUE]
         /\ mConfig' \in Pages!Running0 /\ mConfig'.row = mConfig.row
         /\ mConfig'.shader = mConfig.shader /\ mConfig'.filter # Pages!Custom
         /\ mInstalled' = mInstalled
<1>1. PageFilters[i] \in Pages!Filter /\ PageFilters[i] # Pages!Custom
  BY PagesLists
<1>2. mConfig \in Pages!Running0 /\ mConfig' = [mConfig EXCEPT !.filter = PageFilters[i]]
  BY DEF Pages!TypeOK, Pages!TryBuiltin
<1>3. QED  BY <1>1, <1>2 DEF Pages!TryBuiltin, Pages!Running0

LEMMA TryShaderGives ==
  ASSUME Pages!TypeOK, mConfig.filter = Pages!Custom => mInstalled = mConfig.shader,
         NEW list \in Pages!Lists, NEW i \in DOMAIN list, Pages!TryShader(i, list)
  PROVE  /\ \E b \in BOOLEAN : mPicker' = [custom |-> TRUE, index |-> i, valid |-> b]
         /\ mConfig' \in Pages!Running0 /\ mConfig'.row = mConfig.row
         /\ mInstalled' \in PageShaders \cup {Pages!NoShader}
         /\ mConfig'.filter = Pages!Custom => mInstalled' = mConfig'.shader
<1>1. list[i] \in PageShaders /\ Pages!Custom \in Pages!Filter
  BY PagesLists
<1>2. mConfig \in Pages!Running0 /\ mInstalled \in PageShaders \cup {Pages!NoShader}
  BY DEF Pages!TypeOK
<1>3. CASE /\ mConfig' = [mConfig EXCEPT !.filter = Pages!Custom, !.shader = list[i]]
           /\ mInstalled' = list[i]
           /\ mPicker' = [custom |-> TRUE, index |-> i, valid |-> TRUE]
  BY <1>1, <1>2, <1>3 DEF Pages!Running0
<1>4. CASE /\ UNCHANGED <<mConfig, mInstalled>>
           /\ mPicker' = [custom |-> TRUE, index |-> i, valid |-> FALSE]
  BY <1>2, <1>4
<1>5. QED  BY <1>3, <1>4 DEF Pages!TryShader

(* What a candidate that is tried leaves, from the display page or in the   *)
(* picker.                                                                  *)
LEMMA TriedInv ==
  ASSUME Pages!IInv, mPage' = "picker", NEW c \in BOOLEAN, NEW i \in Nat, NEW b \in BOOLEAN,
         mPicker' = [custom |-> c, index |-> i, valid |-> b],
         mFound' \in Pages!Lists, i \in DOMAIN IF c THEN mFound' ELSE PageFilters,
         mConfig' \in Pages!Running0, mConfig'.row = mConfig.row,
         \A r \in Pages!Running \ {"swapped"} : mConfig.row[r] = mSaved.row[r],
         c \/ mConfig'.shader = mSaved.shader,
         mBackup' \in Pages!Running0, mBackup'.filter = mSaved.filter,
         mBackup'.shader = mSaved.shader,
         mInstalled' \in PageShaders \cup {Pages!NoShader},
         mConfig'.filter = Pages!Custom => mInstalled' = mConfig'.shader,
         mBackup' # Pages!Nothing,
         UNCHANGED <<mSaved, mCore, mLeaving>>
  PROVE  Pages!IInv'
<1>1. Pages!TypeOK'
  <2>1. mPicker' \in [custom : BOOLEAN, index : Nat, valid : BOOLEAN]
    OBVIOUS
  <2>2. QED  BY <2>1 DEF Pages!IInv, Pages!TypeOK, Pages!Page
<1>2. Pages!CandidateListed'
  <2>1. mPicker' # Pages!Nothing /\ mPicker'.custom = c /\ mPicker'.index = i
    BY DEF Pages!Nothing
  <2>2. QED  BY <2>1 DEF Pages!CandidateListed
<1>3. Pages!BackAsSaved' /\ Pages!OnlyTried' /\ Pages!MenuLeavesNoTrace'
  BY DEF Pages!IInv, Pages!BackAsSaved, Pages!OnlyTried, Pages!MenuLeavesNoTrace
<1>4. QED  BY <1>1, <1>2, <1>3 DEF Pages!IInv

LEMMA NothingApart ==
  /\ \A c \in Pages!Running0 : c # Pages!Nothing
  /\ \A p \in [custom : BOOLEAN, index : Nat, valid : BOOLEAN] : p # Pages!Nothing
<1>1. ASSUME NEW c \in Pages!Running0 PROVE c # Pages!Nothing
  <2>1. DOMAIN c = {"row", "filter", "shader"}
    BY DEF Pages!Running0
  <2>2. DOMAIN Pages!Nothing = {"row"}
    BY DEF Pages!Nothing
  <2>3. QED  BY <2>1, <2>2
<1>2. ASSUME NEW p \in [custom : BOOLEAN, index : Nat, valid : BOOLEAN] PROVE p # Pages!Nothing
  <2>1. DOMAIN p = {"custom", "index", "valid"}
    OBVIOUS
  <2>2. DOMAIN Pages!Nothing = {"row"}
    BY DEF Pages!Nothing
  <2>3. QED  BY <2>1, <2>2
<1>3. QED  BY <1>1, <1>2

LEMMA BeginInv ==
  ASSUME Pages!IInv, Pages!BeginBuiltin \/ Pages!BeginCustom
  PROVE  Pages!IInv'
<1>1. /\ Pages!TypeOK /\ mConfig \in Pages!Running0 /\ mConfig # Pages!Nothing
      /\ mFound \in Pages!Lists
  BY NothingApart DEF Pages!IInv, Pages!TypeOK
<1>2. CASE Pages!BeginBuiltin
  <2>1. /\ mPage = "display" /\ mPage' = "picker" /\ mBackup' = mConfig
        /\ UNCHANGED <<mSaved, mCore, mFound, mLeaving>>
    BY <1>2 DEF Pages!BeginBuiltin
  <2>2. PICK d \in -1 .. 1 : Pages!TryBuiltin(Pages!FirstCandidate(PageFilters, mConfig.filter, d))
    BY <1>2 DEF Pages!BeginBuiltin
  <2>3. PICK i \in DOMAIN PageFilters : i \in Nat /\ Pages!TryBuiltin(i)
    BY <2>2, FirstStays, PagesLists
  <2>4. /\ mPicker' = [custom |-> FALSE, index |-> i, valid |-> TRUE]
        /\ mConfig' \in Pages!Running0 /\ mConfig'.row = mConfig.row
        /\ mConfig'.shader = mConfig.shader /\ mConfig'.filter # Pages!Custom
        /\ mInstalled' = mInstalled
    BY <1>1, <2>3, TryBuiltinGives
  <2>5. /\ mConfig.filter = mSaved.filter /\ mConfig.shader = mSaved.shader
        /\ \A r \in Pages!Running \ {"swapped"} : mConfig.row[r] = mSaved.row[r]
        /\ mInstalled \in PageShaders \cup {Pages!NoShader}
    BY <2>1 DEF Pages!IInv, Pages!MenuLeavesNoTrace, Pages!TypeOK
  <2>6. QED  BY <1>1, <2>1, <2>3, <2>4, <2>5, TriedInv
<1>3. CASE Pages!BeginCustom
  <2>1. /\ mPage = "display" /\ mFound' \in Pages!Lists
        /\ UNCHANGED <<mSaved, mCore, mLeaving>>
    BY <1>3 DEF Pages!BeginCustom
  <2>2. CASE mFound' = <<>>
    <3>1. UNCHANGED <<mPage, mConfig, mInstalled, mBackup, mPicker>>
      BY <1>3, <2>2 DEF Pages!BeginCustom
    <3>2. Pages!TypeOK'
      BY <2>1, <3>1 DEF Pages!IInv, Pages!TypeOK
    <3>3. QED
      BY <2>1, <3>1, <3>2
         DEF Pages!IInv, Pages!CandidateListed, Pages!BackAsSaved, Pages!OnlyTried,
             Pages!MenuLeavesNoTrace
  <2>3. CASE mFound' # <<>>
    <3>1. /\ mPage' = "picker" /\ mBackup' = mConfig
          /\ \E d \in -1 .. 1 :
                Pages!TryShader(Pages!FirstCandidate(mFound', mConfig.shader, d), mFound')
      BY <1>3, <2>3 DEF Pages!BeginCustom
    <3>2. PICK d \in -1 .. 1 : Pages!TryShader(Pages!FirstCandidate(mFound', mConfig.shader,
            d), mFound')
      BY <3>1
    <3>3. PICK i \in DOMAIN mFound' : i \in Nat /\ Pages!TryShader(i, mFound')
      BY <2>1, <2>3, <3>2, FirstStays, PagesLists
    <3>4. /\ mConfig.filter = mSaved.filter /\ mConfig.shader = mSaved.shader
          /\ \A r \in Pages!Running \ {"swapped"} : mConfig.row[r] = mSaved.row[r]
          /\ mConfig.filter = Pages!Custom => mInstalled = mConfig.shader
      BY <2>1 DEF Pages!IInv, Pages!MenuLeavesNoTrace
    <3>5. /\ \E b \in BOOLEAN : mPicker' = [custom |-> TRUE, index |-> i, valid |-> b]
          /\ mConfig' \in Pages!Running0 /\ mConfig'.row = mConfig.row
          /\ mInstalled' \in PageShaders \cup {Pages!NoShader}
          /\ mConfig'.filter = Pages!Custom => mInstalled' = mConfig'.shader
      BY <1>1, <2>1, <3>3, <3>4, TryShaderGives
    <3>6. QED  BY <1>1, <2>1, <3>1, <3>3, <3>4, <3>5, TriedInv
  <2>4. QED  BY <2>2, <2>3
<1>4. QED  BY <1>2, <1>3

LEMMA PreviewInv ==
  ASSUME Pages!IInv, Pages!Preview
  PROVE  Pages!IInv'
<1>1. /\ Pages!TypeOK /\ mFound \in Pages!Lists /\ mPage = "picker" /\ mPage' = "picker"
      /\ UNCHANGED <<mSaved, mCore, mBackup, mFound, mLeaving>>
      /\ mConfig.filter = Pages!Custom => mInstalled = mConfig.shader
      /\ mInstalled \in PageShaders \cup {Pages!NoShader}
  BY DEF Pages!IInv, Pages!TypeOK, Pages!Preview, Pages!MenuLeavesNoTrace
<1>2. /\ mBackup \in Pages!Running0 /\ mBackup # Pages!Nothing
      /\ mBackup.filter = mSaved.filter /\ mBackup.shader = mSaved.shader
      /\ \A r \in Pages!Running \ {"swapped"} : mConfig.row[r] = mSaved.row[r]
      /\ mPicker.custom \/ mConfig.shader = mSaved.shader
  BY <1>1 DEF Pages!IInv, Pages!TypeOK, Pages!BackAsSaved, Pages!OnlyTried
<1>3. /\ mPicker.custom \in BOOLEAN
      /\ mPicker.index \in DOMAIN IF mPicker.custom THEN mFound ELSE PageFilters
  BY <1>1 DEF Pages!IInv, Pages!TypeOK, Pages!CandidateListed
<1>4. PICK d \in {-1, 1} :
        IF mPicker.custom THEN Pages!TryShader(Pages!Step(mPicker.index, d, Len(mFound)), mFound)
        ELSE Pages!TryBuiltin(Pages!Step(mPicker.index, d, Len(PageFilters)))
  BY DEF Pages!Preview
<1>5. d \in -1 .. 1
  OBVIOUS
<1>6. CASE mPicker.custom
  <2>1. /\ Len(mFound) \in Nat \ {0} /\ mPicker.index \in 1 .. Len(mFound)
        /\ DOMAIN mFound = 1 .. Len(mFound)
    BY <1>1, <1>3, <1>6, PagesLists
  <2>2. PICK i \in DOMAIN mFound : i \in Nat /\ Pages!TryShader(i, mFound)
    <3>1. Pages!Step(mPicker.index, d, Len(mFound)) \in 1 .. Len(mFound)
      BY <1>5, <2>1, StepStays
    <3>2. QED  BY <1>4, <1>6, <2>1, <3>1
  <2>3. /\ \E b \in BOOLEAN : mPicker' = [custom |-> TRUE, index |-> i, valid |-> b]
        /\ mConfig' \in Pages!Running0 /\ mConfig'.row = mConfig.row
        /\ mInstalled' \in PageShaders \cup {Pages!NoShader}
        /\ mConfig'.filter = Pages!Custom => mInstalled' = mConfig'.shader
    BY <1>1, <2>2, TryShaderGives
  <2>4. QED  BY <1>1, <1>2, <2>2, <2>3, TriedInv
<1>7. CASE ~mPicker.custom
  <2>1. /\ Len(PageFilters) \in Nat \ {0} /\ mPicker.index \in 1 .. Len(PageFilters)
        /\ DOMAIN PageFilters = 1 .. Len(PageFilters)
    BY <1>3, <1>7, PagesLists
  <2>2. PICK i \in DOMAIN PageFilters : i \in Nat /\ Pages!TryBuiltin(i)
    <3>1. Pages!Step(mPicker.index, d, Len(PageFilters)) \in 1 .. Len(PageFilters)
      BY <1>5, <2>1, StepStays
    <3>2. QED  BY <1>4, <1>7, <2>1, <3>1
  <2>3. /\ mPicker' = [custom |-> FALSE, index |-> i, valid |-> TRUE]
        /\ mConfig' \in Pages!Running0 /\ mConfig'.row = mConfig.row
        /\ mConfig'.shader = mConfig.shader /\ mConfig'.filter # Pages!Custom
        /\ mInstalled' = mInstalled
    BY <1>1, <2>2, TryBuiltinGives
  <2>4. QED  BY <1>1, <1>2, <1>7, <2>2, <2>3, TriedInv
<1>8. QED  BY <1>3, <1>6, <1>7

(* Going back and choosing.                                                 *)
LEMMA LeavingInv ==
  ASSUME Pages!IInv, mPage' = "display", Pages!Forget,
         mConfig' \in Pages!Running0,
         mSaved' \in [row : [Pages!Row -> BOOLEAN], filter : Pages!Filter,
         shader : PageShaders \cup {Pages!NoShader}],
         mConfig'.filter = mSaved'.filter, mConfig'.shader = mSaved'.shader,
         \A r \in Pages!Running \ {"swapped"} : mConfig'.row[r] = mSaved'.row[r],
         \A r \in Pages!Core : mSaved'.row[r] = mSaved.row[r],
         mInstalled' \in PageShaders \cup {Pages!NoShader},
         mConfig'.filter = Pages!Custom => mInstalled' = mConfig'.shader,
         UNCHANGED <<mCore, mLeaving>>
  PROVE  Pages!IInv'
<1>1. mBackup' = Pages!Nothing /\ mPicker' = Pages!Nothing /\ mFound' \in Pages!Lists
  BY PagesLists DEF Pages!Forget
<1>2. Pages!TypeOK'
  BY <1>1 DEF Pages!IInv, Pages!TypeOK, Pages!Page
<1>3. Pages!MenuLeavesNoTrace'
  BY DEF Pages!IInv, Pages!MenuLeavesNoTrace
<1>4. QED
  BY <1>2, <1>3
     DEF Pages!IInv, Pages!CandidateListed, Pages!BackAsSaved, Pages!OnlyTried

LEMMA PickedInv ==
  ASSUME Pages!IInv, Pages!CancelPicker \/ Pages!ApplyPicker
  PROVE  Pages!IInv'
<1>1. /\ mPage = "picker" /\ Pages!TypeOK /\ mConfig \in Pages!Running0
      /\ mSaved \in [row : [Pages!Row -> BOOLEAN], filter : Pages!Filter,
           shader : PageShaders \cup {Pages!NoShader}]
      /\ mInstalled \in PageShaders \cup {Pages!NoShader}
  BY DEF Pages!IInv, Pages!TypeOK, Pages!CancelPicker, Pages!ApplyPicker
<1>2. /\ mBackup \in Pages!Running0 /\ mBackup.filter = mSaved.filter
      /\ mBackup.shader = mSaved.shader
      /\ \A r \in Pages!Running \ {"swapped"} : mConfig.row[r] = mSaved.row[r]
      /\ mPicker.custom \/ mConfig.shader = mSaved.shader
      /\ mConfig.filter = Pages!Custom => mInstalled = mConfig.shader
      /\ mPicker.custom \in BOOLEAN
  BY <1>1
     DEF Pages!IInv, Pages!TypeOK, Pages!BackAsSaved, Pages!OnlyTried,
         Pages!MenuLeavesNoTrace, Pages!CandidateListed
<1>3. /\ mBackup.filter \in Pages!Filter
      /\ mBackup.shader \in PageShaders \cup {Pages!NoShader}
  BY <1>2, PagesConfigs DEF Pages!IInv
<1>4. CASE Pages!CancelPicker
  <2>1. UNCHANGED <<mSaved, mCore, mLeaving>>
    BY <1>4 DEF Pages!CancelPicker
  <2>2. CASE /\ mPage' = "display"
             /\ mInstalled' = IF mBackup.filter = Pages!Custom THEN mBackup.shader ELSE mInstalled
             /\ mConfig' = [mConfig EXCEPT !.filter = mBackup.filter, !.shader = mBackup.shader]
             /\ Pages!Forget
    <3>1. /\ mConfig' \in Pages!Running0 /\ mConfig'.row = mConfig.row
          /\ mConfig'.filter = mBackup.filter /\ mConfig'.shader = mBackup.shader
      BY <1>1, <1>3, <2>2 DEF Pages!Running0
    <3>2. QED  BY <1>1, <1>2, <1>3, <2>1, <2>2, <3>1, LeavingInv
  <2>3. CASE UNCHANGED <<mPage, mInstalled, mConfig, Pages!trying>>
    <3>1. UNCHANGED Pages!vars
      BY <2>1, <2>3 DEF Pages!vars, Pages!trying
    <3>2. QED
      BY <3>1
         DEF Pages!IInv, Pages!TypeOK, Pages!vars, Pages!CandidateListed, Pages!BackAsSaved,
             Pages!OnlyTried, Pages!MenuLeavesNoTrace
  <2>4. QED  BY <1>4, <2>2, <2>3 DEF Pages!CancelPicker
<1>5. CASE Pages!ApplyPicker
  <2>1. /\ mPage' = "display" /\ Pages!Forget
        /\ UNCHANGED <<mConfig, mCore, mInstalled, mLeaving>>
    BY <1>5 DEF Pages!ApplyPicker
  <2>2. PICK s \in PageShaders \cup {Pages!NoShader} :
          /\ s = mConfig.shader
          /\ mSaved' = [mSaved EXCEPT !.filter = mConfig.filter, !.shader = s]
    <3>1. mConfig.shader \in PageShaders \cup {Pages!NoShader}
      BY <1>1, PagesConfigs
    <3>2. mSaved' = [mSaved EXCEPT !.filter = mConfig.filter,
                                 !.shader = IF mPicker.custom THEN mConfig.shader
                                 ELSE mSaved.shader]
      BY <1>5 DEF Pages!ApplyPicker
    <3>3. (IF mPicker.custom THEN mConfig.shader ELSE mSaved.shader) = mConfig.shader
      BY <1>2
    <3>4. QED  BY <3>1, <3>2, <3>3
  <2>3. mConfig.filter \in Pages!Filter
    BY <1>1, PagesConfigs
  <2>4. /\ mSaved' \in [row : [Pages!Row -> BOOLEAN], filter : Pages!Filter,
             shader : PageShaders \cup {Pages!NoShader}]
        /\ mSaved'.row = mSaved.row /\ mSaved'.filter = mConfig.filter
        /\ mSaved'.shader = mConfig.shader
    BY <1>1, <2>2, <2>3
  <2>5. QED  BY <1>1, <1>2, <2>1, <2>4, LeavingInv
<1>6. QED  BY <1>4, <1>5

(* The editor sets the layout alone.                                        *)
LEMMA EditorInv ==
  ASSUME Pages!IInv, Pages!BeginEditor \/ Pages!CancelEditor \/ Pages!ApplyEditor
  PROVE  Pages!IInv'
<1>1. /\ Pages!TypeOK /\ mConfig \in Pages!Running0
      /\ mConfig.row \in [Pages!Running -> BOOLEAN]
      /\ mSaved \in [row : [Pages!Row -> BOOLEAN], filter : Pages!Filter,
           shader : PageShaders \cup {Pages!NoShader}]
      /\ mSaved.row \in [Pages!Row -> BOOLEAN]
      /\ Pages!Running = {"layout", "swapped", "microphone"}
      /\ mConfig.filter = Pages!Custom => mInstalled = mConfig.shader
      /\ mInstalled \in PageShaders \cup {Pages!NoShader}
      /\ "layout" \in Pages!Row /\ "layout" \notin Pages!Core
      /\ Pages!Core \subseteq Pages!Row
  BY PagesConfigs
     DEF Pages!IInv, Pages!TypeOK, Pages!MenuLeavesNoTrace, Pages!Running, Pages!Row,
         Pages!DisplayRow, Pages!Core
<1>2. ASSUME NEW b \in BOOLEAN, mConfig' = [mConfig EXCEPT !.row["layout"] = b]
      PROVE  /\ mConfig' \in Pages!Running0
             /\ mConfig'.filter = mConfig.filter /\ mConfig'.shader = mConfig.shader
             /\ mConfig'.row["layout"] = b
             /\ \A r \in Pages!Running \ {"layout"} : mConfig'.row[r] = mConfig.row[r]
  <2>1. /\ mConfig' = [mConfig EXCEPT !.row = [mConfig.row EXCEPT !["layout"] = b]]
        /\ [mConfig.row EXCEPT !["layout"] = b] \in [Pages!Running -> BOOLEAN]
    BY <1>1, <1>2
  <2>2. mConfig' \in Pages!Running0 /\ mConfig'.row = [mConfig.row EXCEPT !["layout"] = b]
    BY <1>1, <2>1 DEF Pages!Running0
  <2>3. QED  BY <1>1, <1>2, <2>2 DEF Pages!Running0
<1>3. CASE Pages!BeginEditor
  <2>1. /\ mPage = "display" /\ mPage' = "editor" /\ mBackup' = mConfig
        /\ mConfig' = [mConfig EXCEPT !.row["layout"] = TRUE]
        /\ UNCHANGED <<mSaved, mCore, mInstalled, mPicker, mFound, mLeaving>>
    BY <1>3 DEF Pages!BeginEditor
  <2>2. /\ mConfig' \in Pages!Running0
        /\ mConfig'.filter = mConfig.filter /\ mConfig'.shader = mConfig.shader
        /\ \A r \in Pages!Running \ {"layout"} : mConfig'.row[r] = mConfig.row[r]
    BY <1>2, <2>1
  <2>3. Pages!TypeOK'
    BY <1>1, <2>1, <2>2 DEF Pages!TypeOK, Pages!Page
  <2>4. mBackup' # Pages!Nothing
    BY <1>1, <2>1, NothingApart
  <2>5. /\ Pages!CandidateListed' /\ Pages!BackAsSaved' /\ Pages!OnlyTried'
        /\ Pages!MenuLeavesNoTrace'
    BY <1>1, <2>1, <2>2
       DEF Pages!IInv, Pages!CandidateListed, Pages!BackAsSaved, Pages!OnlyTried,
           Pages!MenuLeavesNoTrace
  <2>6. QED  BY <2>3, <2>4, <2>5 DEF Pages!IInv
<1>4. CASE Pages!CancelEditor
  <2>1. /\ mPage = "editor" /\ mPage' = "display"
        /\ mConfig' = [mConfig EXCEPT !.row["layout"] = mBackup.row["layout"]]
        /\ UNCHANGED <<mSaved, mCore, mInstalled, mLeaving>> /\ Pages!Forget
    BY <1>4 DEF Pages!CancelEditor
  <2>2. /\ mBackup.row["layout"] = mSaved.row["layout"] /\ mSaved.row["layout"] \in BOOLEAN
        /\ mConfig.row["microphone"] = mSaved.row["microphone"]
        /\ mConfig.filter = mSaved.filter /\ mConfig.shader = mSaved.shader
    BY <1>1, <2>1 DEF Pages!IInv, Pages!BackAsSaved, Pages!OnlyTried
  <2>3. PICK b \in BOOLEAN : b = mSaved.row["layout"] /\
          mConfig' = [mConfig EXCEPT !.row["layout"] = b]
    BY <2>1, <2>2
  <2>4. /\ mConfig' \in Pages!Running0
        /\ mConfig'.filter = mConfig.filter /\ mConfig'.shader = mConfig.shader
        /\ mConfig'.row["layout"] = b
        /\ \A r \in Pages!Running \ {"layout"} : mConfig'.row[r] = mConfig.row[r]
    BY <1>2, <2>3
  <2>5. \A r \in Pages!Running \ {"swapped"} : mConfig'.row[r] = mSaved.row[r]
    BY <1>1, <2>2, <2>3, <2>4
  <2>6. QED  BY <1>1, <2>1, <2>2, <2>4, <2>5, LeavingInv
<1>5. CASE Pages!ApplyEditor
  <2>1. /\ mPage = "editor" /\ mPage' = "display"
        /\ mConfig' = [mConfig EXCEPT !.row["layout"] = TRUE]
        /\ mSaved' = [mSaved EXCEPT !.row["layout"] = TRUE]
        /\ UNCHANGED <<mCore, mInstalled, mLeaving>> /\ Pages!Forget
    BY <1>5 DEF Pages!ApplyEditor
  <2>2. /\ mConfig.row["microphone"] = mSaved.row["microphone"]
        /\ mConfig.filter = mSaved.filter /\ mConfig.shader = mSaved.shader
    BY <2>1 DEF Pages!IInv, Pages!OnlyTried
  <2>3. /\ mConfig' \in Pages!Running0
        /\ mConfig'.filter = mConfig.filter /\ mConfig'.shader = mConfig.shader
        /\ mConfig'.row["layout"] = TRUE
        /\ \A r \in Pages!Running \ {"layout"} : mConfig'.row[r] = mConfig.row[r]
    BY <1>2, <2>1
  <2>4. /\ mSaved' \in [row : [Pages!Row -> BOOLEAN], filter : Pages!Filter,
             shader : PageShaders \cup {Pages!NoShader}]
        /\ mSaved'.filter = mSaved.filter /\ mSaved'.shader = mSaved.shader
        /\ mSaved'.row["layout"] = TRUE
        /\ \A r \in Pages!Row \ {"layout"} : mSaved'.row[r] = mSaved.row[r]
    <3>1. /\ mSaved' = [mSaved EXCEPT !.row = [mSaved.row EXCEPT !["layout"] = TRUE]]
          /\ [mSaved.row EXCEPT !["layout"] = TRUE] \in [Pages!Row -> BOOLEAN]
      BY <1>1, <2>1
    <3>2. QED  BY <1>1, <3>1
  <2>5. \A r \in Pages!Running \ {"swapped"} : mConfig'.row[r] = mSaved'.row[r]
    <3>1. "microphone" \in Pages!Row \ {"layout"}
      BY DEF Pages!Row, Pages!AudioRow
    <3>2. QED  BY <1>1, <2>2, <2>3, <2>4, <3>1
  <2>6. QED  BY <1>1, <2>1, <2>2, <2>3, <2>4, <2>5, LeavingInv
<1>6. QED  BY <1>3, <1>4, <1>5

LEMMA PagesStep == Pages!IInv /\ Pages!Next => Pages!IInv'
  BY WaysInv, SwapInv, RowsInv, BeginInv, PreviewInv, PickedInv, EditorInv DEF Pages!Next

LEMMA PagesStutter == Pages!IInv /\ UNCHANGED Pages!vars => Pages!IInv'
  BY DEF Pages!IInv, Pages!TypeOK, Pages!vars, Pages!CandidateListed, Pages!BackAsSaved,
         Pages!OnlyTried, Pages!MenuLeavesNoTrace

LEMMA PagesSafe == Pages!IInv => Pages!MenuLeavesNoTrace
  BY DEF Pages!IInv

HIDE DEF mPage, mConfig, mSaved, mCore, mInstalled, mFound, mBackup, mPicker, mLeaving

--------------------------------------------------------------------------------
(* States: what is deleted is what was shown.                                 *)

sFiles == v1
sSlot == v2
sShown == v3
sOpen == v4
sConfirm == v5
sPending == v6
sSaving == v7
sRemoving == v8
sAsked == v9
sDisturbed == v10

USE DEF sFiles, sSlot, sShown, sOpen, sConfirm, sPending, sSaving, sRemoving, sAsked,
        sDisturbed

(* The state of a slot, and what a save or a removal makes of the files.    *)
LEMMA StateFiles ==
  ASSUME States!TypeOK
  PROVE  /\ \A g \in States!Game, s \in States!Slot :
              sFiles[g][s] \in States!Picture \cup {States!NoFile}
         /\ \A s \in States!Slot : States!Read(s) \in States!Picture \cup {States!NoFile}
         /\ sSlot \in States!Slot
         /\ \A g \in States!Game, s \in States!Slot, p \in States!Picture \cup {States!NoFile} :
              /\ [sFiles EXCEPT ![g][s] = p]
                   \in [States!Game -> [States!Slot -> States!Picture \cup {States!NoFile}]]
              /\ \A h \in States!Game, t \in States!Slot :
                   [sFiles EXCEPT ![g][s] = p][h][t] = IF h = g /\ t = s THEN p ELSE sFiles[h][t]
<1>1. /\ sFiles \in [States!Game -> [States!Slot -> States!Picture \cup {States!NoFile}]]
      /\ sSlot \in States!Slot
  BY DEF States!TypeOK
<1>2. \A g \in States!Game, s \in States!Slot :
            sFiles[g][s] \in States!Picture \cup {States!NoFile}
  BY <1>1
<1>3. \A s \in States!Slot : States!Read(s) \in States!Picture \cup {States!NoFile}
  BY <1>2 DEF States!Read, States!Game
<1>4. ASSUME NEW g \in States!Game, NEW s \in States!Slot,
        NEW p \in States!Picture \cup {States!NoFile}
      PROVE  /\ [sFiles EXCEPT ![g][s] = p]
                  \in [States!Game -> [States!Slot -> States!Picture \cup {States!NoFile}]]
             /\ \A h \in States!Game, t \in States!Slot :
                  [sFiles EXCEPT ![g][s] = p][h][t] = IF h = g /\ t = s THEN p ELSE sFiles[h][t]
  BY <1>1, <1>4
<1>5. QED  BY <1>1, <1>2, <1>3, <1>4

LEMMA StatesKinds ==
  /\ States!NoFile \notin States!Picture /\ States!NoSlot \notin States!Slot
  /\ 0 \in States!Slot
  /\ \A s \in States!Slot :
        (s + 1) % SaveSlots \in States!Slot /\ (s + SaveSlots - 1) % SaveSlots \in States!Slot
<1>1. /\ States!NoFile \notin States!Picture /\ States!NoSlot \notin States!Slot
      /\ 0 \in States!Slot
  BY SlotsAssumption DEF States!NoFile, States!NoSlot, States!Picture, States!Slot
<1>2. ASSUME NEW s \in States!Slot
      PROVE  (s + 1) % SaveSlots \in States!Slot /\ (s + SaveSlots - 1) % SaveSlots \in States!Slot
  <2>1. s \in Nat /\ s + 1 \in Nat /\ s + SaveSlots - 1 \in Nat
    BY SlotsAssumption DEF States!Slot
  <2>2. \A i \in Nat : i % SaveSlots \in 0 .. SaveSlots - 1
    BY SlotsAssumption
  <2>3. QED  BY <2>1, <2>2 DEF States!Slot
<1>3. QED  BY <1>1, <1>2

LEMMA StatesInit == States!Init => States!IInv
  BY StatesKinds
     DEF States!Init, States!IInv, States!TypeOK, States!AskedOnThePage,
         States!AskedAsShown, States!FoundAsAsked, States!Game

(* A question is set, or forgotten, with what is shown then.                *)
LEMMA AskInv ==
  ASSUME States!IInv, NEW s \in {sSlot', States!NoSlot}, States!Ask(s), States!Idle,
         sRemoving' = sRemoving,
         UNCHANGED sFiles, sSlot' \in States!Slot, sOpen' \in BOOLEAN, sPending' \in BOOLEAN,
         sSaving' \in States!Slot \cup {States!NoSlot},
         sShown' \in States!Picture \cup {States!NoFile},
         s # States!NoSlot => sOpen' /\ UNCHANGED sShown
  PROVE  States!IInv'
<1>1. /\ sConfirm' = s /\ sRemoving' = "none"
      /\ sDisturbed' \in BOOLEAN /\ (~sDisturbed' => sShown' = States!Read(sSlot'))
      /\ s # States!NoSlot => sAsked' = sShown'
      /\ s = States!NoSlot => sAsked' = States!NoFile
      /\ sFiles' = sFiles
  BY DEF States!Ask, States!Idle
<1>2. States!TypeOK'
  BY <1>1, StatesKinds DEF States!IInv, States!TypeOK
<1>3. sShown' = States!Read(sSlot') => sShown' = States!Read(sSlot)'
  BY <1>1 DEF States!Read
<1>4. States!AskedOnThePage' /\ States!AskedAsShown' /\ States!FoundAsAsked'
  BY <1>1, <1>3
     DEF States!AskedOnThePage, States!AskedAsShown, States!FoundAsAsked, States!Game
<1>5. QED  BY <1>2, <1>4 DEF States!IInv

(* The core saves, and what the hotkeys do.                                 *)
LEMMA SavesInv ==
  ASSUME States!IInv, States!SaveEnds \/ States!HotkeySave \/ States!HotkeySlot
  PROVE  States!IInv'
<1> USE DEF States!IInv
<1>1. CASE States!SaveEnds
  <2>1. PICK p \in States!Picture : sFiles' = [sFiles EXCEPT !["own"][sSaving] = p]
    BY <1>1 DEF States!SaveEnds
  <2>2. /\ sSaving \in States!Slot /\ sSaving' = States!NoSlot
        /\ sDisturbed' = (sDisturbed \/ sSaving = sSlot)
        /\ UNCHANGED <<sSlot, sShown, sOpen, sConfirm, sPending, sRemoving, sAsked>>
    BY <1>1 DEF States!SaveEnds, States!TypeOK
  <2>3. /\ sFiles' \in [States!Game -> [States!Slot -> States!Picture \cup {States!NoFile}]]
        /\ \A t \in States!Slot : t # sSaving => sFiles'["own"][t] = sFiles["own"][t]
    BY <2>1, <2>2, StateFiles DEF States!Game
  <2>4. States!TypeOK'
    BY <2>2, <2>3 DEF States!TypeOK
  <2>5. ~sDisturbed' => ~sDisturbed /\ sFiles'["own"][sSlot] = sFiles["own"][sSlot]
    BY <2>2, <2>3 DEF States!TypeOK
  <2>6. States!AskedOnThePage' /\ States!AskedAsShown' /\ States!FoundAsAsked'
    BY <2>2, <2>5
       DEF States!AskedOnThePage, States!AskedAsShown, States!FoundAsAsked, States!Read
  <2>7. QED  BY <2>4, <2>6
<1>2. CASE States!HotkeySave
  <2>1. sSaving' \in States!Slot
    BY <1>2 DEF States!HotkeySave, States!TypeOK
  <2>2. UNCHANGED <<sFiles, sSlot, sShown, sOpen, sConfirm, sAsked, sDisturbed, sPending,
          sRemoving>>
    BY <1>2 DEF States!HotkeySave, States!question
  <2>3. States!TypeOK'
    BY <2>1, <2>2 DEF States!TypeOK
  <2>4. States!AskedOnThePage' /\ States!AskedAsShown' /\ States!FoundAsAsked'
    BY <2>2 DEF States!AskedOnThePage, States!AskedAsShown, States!FoundAsAsked, States!Read
  <2>5. QED  BY <2>3, <2>4
<1>3. CASE States!HotkeySlot
  <2>1. sSlot' \in States!Slot
    BY <1>3, StatesKinds DEF States!HotkeySlot, States!TypeOK
  <2>2. /\ ~sOpen
        /\ UNCHANGED <<sFiles, sShown, sOpen, sConfirm, sAsked, sDisturbed, sPending,
             sSaving, sRemoving>>
    BY <1>3 DEF States!HotkeySlot, States!question
  <2>3. States!TypeOK'
    BY <2>1, <2>2 DEF States!TypeOK
  <2>4. States!AskedOnThePage' /\ States!AskedAsShown' /\ States!FoundAsAsked'
    BY <2>2 DEF States!AskedOnThePage, States!AskedAsShown, States!FoundAsAsked, States!Game
  <2>5. QED  BY <2>3, <2>4
<1>4. QED  BY <1>1, <1>2, <1>3

(* The page's steps that ask the question or forget it.                     *)
LEMMA PageInv ==
  ASSUME States!IInv,
         States!OpenPage \/ States!Navigate \/ States!LeavePage \/ States!LoadFails \/
         States!RequestSave \/ States!AskDelete
  PROVE  States!IInv'
<1> USE DEF States!IInv
<1>1. /\ sSlot \in States!Slot /\ sOpen \in BOOLEAN /\ sPending \in BOOLEAN
      /\ sSaving \in States!Slot \cup {States!NoSlot}
      /\ sShown \in States!Picture \cup {States!NoFile}
      /\ \A s \in States!Slot : States!Read(s) \in States!Picture \cup {States!NoFile}
  BY StateFiles DEF States!TypeOK
<1>2. CASE States!OpenPage
  <2>1. sRemoving = "none"
    BY <1>2 DEF States!OpenPage, States!AskedOnThePage
  <2>2. /\ States!Ask(States!NoSlot) /\ sOpen' \in BOOLEAN /\ sShown' = States!Read(sSlot)
        /\ UNCHANGED <<sFiles, sSlot, sPending, sSaving, sRemoving>>
    BY <1>2 DEF States!OpenPage
  <2>3. QED  BY <1>1, <2>1, <2>2, AskInv DEF States!Idle
<1>3. CASE States!Navigate
  <2>1. /\ States!Idle /\ States!Ask(States!NoSlot) /\ sSlot' \in States!Slot
        /\ sShown' = States!Read(sSlot')
        /\ UNCHANGED <<sFiles, sOpen, sPending, sSaving, sRemoving>>
    BY <1>3 DEF States!Navigate, States!Ready
  <2>2. sShown' \in States!Picture \cup {States!NoFile}
    BY <1>1, <2>1
  <2>3. QED  BY <1>1, <2>1, <2>2, AskInv
<1>4. CASE States!LeavePage \/ States!LoadFails
  <2>1. /\ States!Idle /\ States!Ask(States!NoSlot) /\ sOpen' \in BOOLEAN
        /\ UNCHANGED <<sFiles, sSlot, sShown, sPending, sSaving, sRemoving>>
    BY <1>1, <1>4 DEF States!LeavePage, States!LoadFails, States!Ready
  <2>2. QED  BY <1>1, <2>1, AskInv
<1>5. CASE States!RequestSave
  <2>1. /\ States!Idle /\ States!Ask(States!NoSlot) /\ sSaving' \in {sSaving, sSlot}
        /\ sPending' \in BOOLEAN
        /\ UNCHANGED <<sFiles, sSlot, sShown, sOpen, sRemoving>>
    BY <1>5 DEF States!RequestSave, States!Ready
  <2>2. sSaving' \in States!Slot \cup {States!NoSlot}
    BY <1>1, <2>1
  <2>3. QED  BY <1>1, <2>1, <2>2, AskInv
<1>6. CASE States!AskDelete
  <2>1. /\ States!Idle /\ sOpen /\ (States!Ask(States!NoSlot) \/ States!Ask(sSlot))
        /\ UNCHANGED <<sFiles, sSlot, sShown, sOpen, sPending, sSaving, sRemoving>>
    BY <1>6 DEF States!AskDelete, States!Ready
  <2>2. CASE States!Ask(States!NoSlot)
    BY <1>1, <2>1, <2>2, AskInv
  <2>3. CASE States!Ask(sSlot)
    BY <1>1, <2>1, <2>3, AskInv
  <2>4. QED  BY <2>1, <2>2, <2>3
<1>7. QED  BY <1>2, <1>3, <1>4, <1>5, <1>6

(* A finished save is noticed, a file is looked for and removed.            *)
LEMMA RemovalInv ==
  ASSUME States!IInv, States!Notice \/ States!FindFile \/ States!RemoveFile
  PROVE  States!IInv'
<1> USE DEF States!IInv
<1>1. /\ sSlot \in States!Slot
      /\ \A s \in States!Slot : States!Read(s) \in States!Picture \cup {States!NoFile}
  BY StateFiles
<1>2. CASE States!Notice
  <2>1. /\ sPending' = FALSE /\ sShown' = States!Read(sSlot)
        /\ sDisturbed' = (sConfirm # States!NoSlot)
        /\ sRemoving = "none"
        /\ UNCHANGED <<sFiles, sSlot, sOpen, sConfirm, sSaving, sRemoving, sAsked>>
    BY <1>2 DEF States!Notice, States!Idle
  <2>2. States!TypeOK'
    BY <1>1, <2>1 DEF States!TypeOK
  <2>3. States!AskedOnThePage' /\ States!AskedAsShown' /\ States!FoundAsAsked'
    BY <2>1 DEF States!AskedOnThePage, States!AskedAsShown, States!FoundAsAsked, States!Game
  <2>4. QED  BY <2>2, <2>3
<1>3. CASE States!FindFile
  <2>1. /\ sOpen /\ sShown # States!NoFile /\ sConfirm = sSlot
        /\ sRemoving' = "nothing" \/ (States!Cardinality(States!Matching) = 1 /\
             sRemoving' \in States!Matching)
        /\ UNCHANGED <<sFiles, sSlot, sShown, sOpen, sConfirm, sAsked, sDisturbed, sPending,
             sSaving>>
    BY <1>3 DEF States!FindFile, States!Ready, States!question
  <2>2. States!Matching \subseteq States!Game
    BY DEF States!Matching
  <2>3. States!TypeOK'
    BY <2>1, <2>2 DEF States!TypeOK
  <2>4. States!AskedOnThePage' /\ States!AskedAsShown'
    BY <2>1 DEF States!AskedOnThePage, States!AskedAsShown, States!Read
  <2>5. ASSUME sRemoving' \in States!Game, ~sDisturbed'
        PROVE  sRemoving' = "own" /\ sFiles'["own"][sSlot'] = sAsked'
    <3>1. sConfirm # States!NoSlot
      BY <1>1, <2>1, StatesKinds
    <3>2. sShown = States!Read(sSlot) /\ sAsked = sShown
      BY <2>1, <2>5, <3>1 DEF States!AskedAsShown
    <3>3. sFiles["own"][sSlot] = sShown
      BY <2>1, <3>2 DEF States!Read
    <3>4. "own" \in States!Matching
      BY <3>3 DEF States!Matching, States!Game
    <3>5. sRemoving' \in States!Matching /\ States!Cardinality(States!Matching) = 1
      BY <2>1, <2>5 DEF States!Game
    <3>6. IsFiniteSet(States!Game)
      <4>1. IsFiniteSet({"own"})
        BY FS_Singleton
      <4>2. IsFiniteSet({"own"} \cup {"other"})
        BY <4>1, FS_AddElement
      <4>3. States!Game = {"own"} \cup {"other"}
        BY DEF States!Game
      <4>4. QED  BY <4>2, <4>3
    <3>7. IsFiniteSet(States!Matching)
      BY <2>2, <3>6, FS_Subset
    <3>8. sRemoving' = "own"
      BY <3>4, <3>5, <3>7, FS_Singleton, SameSize
    <3>9. QED  BY <2>1, <3>2, <3>3, <3>8
  <2>6. QED  BY <2>3, <2>4, <2>5 DEF States!FoundAsAsked
<1>4. CASE States!RemoveFile
  <2>1. /\ sRemoving' = "none" /\ sConfirm' = States!NoSlot /\ sAsked' = States!NoFile
        /\ sDisturbed' = FALSE
        /\ \/ sRemoving \in States!Game /\
                sFiles' = [sFiles EXCEPT ![sRemoving][sSlot] = States!NoFile]
           \/ sFiles' = sFiles
        /\ sShown' = IF sFiles'["own"][sSlot] = 0 THEN States!NoFile ELSE sFiles'["own"][sSlot]
        /\ UNCHANGED <<sSlot, sOpen, sPending, sSaving>>
    BY <1>4 DEF States!RemoveFile
  <2>2. sFiles' \in [States!Game -> [States!Slot -> States!Picture \cup {States!NoFile}]]
    <3>1. sFiles \in [States!Game -> [States!Slot -> States!Picture \cup {States!NoFile}]]
      BY DEF States!TypeOK
    <3>2. CASE sRemoving \in States!Game /\
            sFiles' = [sFiles EXCEPT ![sRemoving][sSlot] = States!NoFile]
      BY <1>1, <3>1, <3>2
    <3>3. QED  BY <2>1, <3>1, <3>2
  <2>3. sFiles'["own"][sSlot] \in States!Picture \cup {States!NoFile}
    BY <1>1, <2>2 DEF States!Game
  <2>4. States!TypeOK'
    BY <2>1, <2>2, <2>3 DEF States!TypeOK
  <2>5. States!AskedOnThePage' /\ States!AskedAsShown' /\ States!FoundAsAsked'
    BY <2>1 DEF States!AskedOnThePage, States!AskedAsShown, States!FoundAsAsked, States!Game
  <2>6. QED  BY <2>4, <2>5
<1>5. QED  BY <1>2, <1>3, <1>4

LEMMA StatesStep == States!IInv /\ States!Next => States!IInv'
  BY SavesInv, PageInv, RemovalInv DEF States!Next

LEMMA StatesStutter == States!IInv /\ UNCHANGED States!vars => States!IInv'
  BY DEF States!vars, States!IInv, States!TypeOK, States!AskedOnThePage,
         States!AskedAsShown, States!FoundAsAsked, States!Read

(* Of the steps only the removal makes a state disappear, and it removes    *)
(* what was found.                                                          *)
LEMMA StatesSafe == States!IInv /\ States!Next => States!DeletesWhatIsShown
<1> SUFFICES ASSUME States!IInv, States!Next, NEW g \in States!Game, NEW s \in States!Slot,
                    sFiles[g][s] # States!NoFile, sFiles'[g][s] = States!NoFile, ~sDisturbed
             PROVE  g = "own" /\ s = sSlot /\ sFiles[g][s] = sAsked
  BY DEF States!DeletesWhatIsShown
<1> USE DEF States!IInv
<1>1. CASE States!SaveEnds
  <2>1. PICK p \in States!Picture : sFiles' = [sFiles EXCEPT !["own"][sSaving] = p]
    BY <1>1 DEF States!SaveEnds
  <2>2. sSaving \in States!Slot /\ p # States!NoFile
    BY <1>1, StatesKinds DEF States!SaveEnds, States!TypeOK
  <2>3. sFiles'[g][s] \in {p, sFiles[g][s]}
    BY <2>1, <2>2, StateFiles DEF States!Game
  <2>4. QED  BY <2>2, <2>3
<1>2. CASE States!RemoveFile
  <2>1. sSlot \in States!Slot
    BY DEF States!TypeOK
  <2>2. /\ sRemoving \in States!Game
        /\ sFiles' = [sFiles EXCEPT ![sRemoving][sSlot] = States!NoFile]
    BY <1>2 DEF States!RemoveFile
  <2>3. g = sRemoving /\ s = sSlot
    BY <2>1, <2>2, StateFiles
  <2>4. QED  BY <2>2, <2>3 DEF States!FoundAsAsked
<1>3. ~States!SaveEnds /\ ~States!RemoveFile => sFiles' = sFiles
  BY DEF States!Next, States!HotkeySave, States!HotkeySlot, States!OpenPage, States!Notice,
         States!Navigate, States!LeavePage, States!LoadFails, States!RequestSave,
         States!AskDelete, States!FindFile
<1>4. QED  BY <1>1, <1>2, <1>3

HIDE DEF sFiles, sSlot, sShown, sOpen, sConfirm, sPending, sSaving, sRemoving, sAsked,
         sDisturbed

--------------------------------------------------------------------------------
(* Prefs: what the user has chosen outlives the session.                      *)

pUp == v1
pProfiled == v2
pEntries == v3
pLaunch == v4
pProfile == v5
pTemporary == v6
pPc == v7
pKey == v8
pMeant == v9
pSpoiled == v10

USE DEF pUp, pProfiled, pEntries, pLaunch, pProfile, pTemporary, pPc, pKey, pMeant, pSpoiled

(* An entry that is put is there, or the table is full; the others stay.    *)
LEMMA PutKeeps ==
  ASSUME NEW f, NEW k, NEW v, Prefs!IsFile(f)
  PROVE  /\ Prefs!IsFile(Prefs!Put(f, k, v))
         /\ DOMAIN f \subseteq DOMAIN Prefs!Put(f, k, v)
         /\ DOMAIN Prefs!Put(f, k, v) \subseteq DOMAIN f \cup {k}
         /\ k \in DOMAIN Prefs!Put(f, k, v) \/ Prefs!Full(f)
         /\ Prefs!Full(f) => Prefs!Full(Prefs!Put(f, k, v))
         /\ \A x \in DOMAIN f : x # k => Prefs!Put(f, k, v)[x] = f[x]
         /\ k \in DOMAIN Prefs!Put(f, k, v) => Prefs!Put(f, k, v)[k] = v
         /\ k \notin DOMAIN f /\ Prefs!Full(f) => Prefs!Put(f, k, v) = f
<1>1. Prefs!Cardinality(DOMAIN f) \in Nat
  BY FS_CardinalityType, SameSize DEF Prefs!IsFile
<1>2. CASE k \in DOMAIN f \/ Prefs!Cardinality(DOMAIN f) < PrefsLimit
  <2>1. Prefs!Put(f, k, v) = Prefs!With(f, k, v)
    BY <1>2 DEF Prefs!Put
  <2>2. /\ DOMAIN Prefs!With(f, k, v) = DOMAIN f \cup {k}
        /\ \A x \in DOMAIN f : x # k => Prefs!With(f, k, v)[x] = f[x]
        /\ Prefs!With(f, k, v)[k] = v
        /\ Prefs!With(f, k, v) = [x \in DOMAIN f \cup {k} |-> Prefs!With(f, k, v)[x]]
    BY DEF Prefs!With
  <2>3. Prefs!IsFiniteSet(DOMAIN f \cup {k})
    BY FS_AddElement, SameSize DEF Prefs!IsFile
  <2>4. Prefs!IsFile(Prefs!Put(f, k, v))
    BY <2>1, <2>2, <2>3 DEF Prefs!IsFile
  <2>5. Prefs!Full(f) => Prefs!Full(Prefs!Put(f, k, v))
    <3>1. SUFFICES ASSUME Prefs!Full(f) PROVE k \in DOMAIN f
      BY <2>1, <2>2 DEF Prefs!Full
    <3>2. QED  BY <1>1, <1>2, <3>1, PrefsAssumption DEF Prefs!Full
  <2>6. /\ DOMAIN Prefs!Put(f, k, v) = DOMAIN f \cup {k} /\ Prefs!Put(f, k, v)[k] = v
        /\ \A x \in DOMAIN f : x # k => Prefs!Put(f, k, v)[x] = f[x]
    BY <2>1, <2>2
  <2>7. k \notin DOMAIN f => ~Prefs!Full(f)
    BY <1>1, <1>2, PrefsAssumption DEF Prefs!Full
  <2>8. QED  BY <2>4, <2>5, <2>6, <2>7
<1>3. CASE ~(k \in DOMAIN f \/ Prefs!Cardinality(DOMAIN f) < PrefsLimit)
  <2>1. Prefs!Put(f, k, v) = f
    BY <1>3 DEF Prefs!Put
  <2>2. Prefs!Full(f)
    BY <1>1, <1>3, PrefsAssumption DEF Prefs!Full
  <2>3. QED  BY <1>3, <2>1, <2>2
<1>4. QED  BY <1>2, <1>3

(* What a session's preferences have in common from the seeding on.         *)
Seeding(f) ==
  /\ Prefs!IsFile(f) /\ "boost" \notin DOMAIN f
  /\ \A k \in Prefs!Defaults : k \in DOMAIN f \/ Prefs!Full(f)

LEMMA PutSeeding ==
  ASSUME NEW f, NEW k, NEW v, Seeding(f), k # "boost"
  PROVE  Seeding(Prefs!Put(f, k, v))
  BY PutKeeps DEF Seeding

(* Seeding all defaults, and that it changes nothing when they are there.   *)
LEMMA SeedKeeps ==
  ASSUME NEW f, NEW k, NEW v, Prefs!IsFile(f), "boost" \notin DOMAIN f, k # "boost"
  PROVE  /\ Prefs!IsFile(Prefs!Seed(f, k, v)) /\ "boost" \notin DOMAIN Prefs!Seed(f, k, v)
         /\ k \in DOMAIN Prefs!Seed(f, k, v) \/ Prefs!Full(Prefs!Seed(f, k, v))
         /\ \A x :
                  x \in DOMAIN f \/ Prefs!Full(f) => x \in DOMAIN Prefs!Seed(f, k,
                  v) \/ Prefs!Full(Prefs!Seed(f, k, v))
         /\ k \in DOMAIN f \/ Prefs!Full(f) => Prefs!Seed(f, k, v) = f
  BY PutKeeps DEF Prefs!Seed

LEMMA SeededSeeding ==
  ASSUME NEW f, Prefs!IsFile(f), "boost" \notin DOMAIN f
  PROVE  Seeding(Prefs!Seeded(f))
<1> DEFINE a == Prefs!Seed(f, "menu", Prefs!DefaultMenu)
           b == Prefs!Seed(a, "quit", "None")
           c == Prefs!Seed(b, "save", Prefs!DefaultSave)
           d == Prefs!Seed(c, "stylus", "stick")
           e == Prefs!Seed(d, "speed", 2)
<1>1. Prefs!IsFile(a) /\ "boost" \notin DOMAIN a /\ ("menu" \in DOMAIN a \/ Prefs!Full(a))
  BY SeedKeeps
<1> HIDE DEF a
<1>2. /\ Prefs!IsFile(b) /\ "boost" \notin DOMAIN b
      /\ \A k \in {"menu", "quit"} : k \in DOMAIN b \/ Prefs!Full(b)
  BY <1>1, SeedKeeps
<1> HIDE DEF b
<1>3. /\ Prefs!IsFile(c) /\ "boost" \notin DOMAIN c
      /\ \A k \in {"menu", "quit", "save"} : k \in DOMAIN c \/ Prefs!Full(c)
  BY <1>2, SeedKeeps
<1> HIDE DEF c
<1>4. /\ Prefs!IsFile(d) /\ "boost" \notin DOMAIN d
      /\ \A k \in {"menu", "quit", "save", "stylus"} : k \in DOMAIN d \/ Prefs!Full(d)
  BY <1>3, SeedKeeps
<1> HIDE DEF d
<1>5. /\ Prefs!IsFile(e) /\ "boost" \notin DOMAIN e
      /\ \A k \in {"menu", "quit", "save", "stylus", "speed"} :
            k \in DOMAIN e \/ Prefs!Full(e)
  BY <1>4, SeedKeeps
<1>6. e = Prefs!Seeded(f)
  BY DEF a, b, c, d, e, Prefs!Seeded
<1>7. QED  BY <1>5, <1>6 DEF Seeding, Prefs!Defaults

LEMMA SeededFixed ==
  ASSUME NEW f, Seeding(f)
  PROVE  Prefs!Seeded(f) = f
<1>1. \A k \in Prefs!Defaults : k \in DOMAIN f \/ Prefs!Full(f)
  BY DEF Seeding
<1>2. Prefs!Seed(f, "menu", Prefs!DefaultMenu) = f
  BY <1>1, SeedKeeps DEF Seeding, Prefs!Defaults
<1>3. Prefs!Seed(f, "quit", "None") = f
  BY <1>1, SeedKeeps DEF Seeding, Prefs!Defaults
<1>4. Prefs!Seed(f, "save", Prefs!DefaultSave) = f
  BY <1>1, SeedKeeps DEF Seeding, Prefs!Defaults
<1>5. Prefs!Seed(f, "stylus", "stick") = f
  BY <1>1, SeedKeeps DEF Seeding, Prefs!Defaults
<1>6. Prefs!Seed(f, "speed", 2) = f
  BY <1>1, SeedKeeps DEF Seeding, Prefs!Defaults
<1>7. QED  BY <1>2, <1>3, <1>4, <1>5, <1>6 DEF Prefs!Seeded

(* Each of the migrations keeps what the seeding gave.                      *)
LEMMA StylusKeeps ==
  ASSUME NEW f, Prefs!IsFile(f), "boost" \notin DOMAIN f
  PROVE  /\ Prefs!IsFile(Prefs!StylusMigrated(f)) /\ "boost" \notin DOMAIN Prefs!StylusMigrated(f)
         /\ Seeding(f) => Prefs!StylusMigrated(f) = f
<1>1. CASE "stylus" \in DOMAIN f \/ "legacy" \notin DOMAIN f
  BY <1>1 DEF Prefs!StylusMigrated
<1>2. CASE ~("stylus" \in DOMAIN f \/ "legacy" \notin DOMAIN f)
  <2>1. PICK v : Prefs!StylusMigrated(f) = Prefs!Put(f, "stylus", v)
    BY <1>2 DEF Prefs!StylusMigrated
  <2>2. Seeding(f) => Prefs!Full(f)
    BY <1>2 DEF Seeding, Prefs!Defaults
  <2>3. QED  BY <1>2, <2>1, <2>2, PutKeeps
<1>3. QED  BY <1>1, <1>2

LEMMA MovedSeeding ==
  ASSUME NEW f, Seeding(f)
  PROVE  Seeding(Prefs!HotkeysMoved(f))
<1>1. Seeding(Prefs!Put(f, "menu", Prefs!DefaultMenu))
  BY PutSeeding
<1>2. Seeding(Prefs!Put(Prefs!Put(f, "menu", Prefs!DefaultMenu), "quit", "None"))
  BY <1>1, PutSeeding
<1>3. PICK a : /\ a = f \/ a = Prefs!Put(Prefs!Put(f, "menu", Prefs!DefaultMenu), "quit", "None")
               /\ Prefs!HotkeysMoved(f) = a \/ Prefs!HotkeysMoved(f) = Prefs!Put(a, "save",
                    Prefs!DefaultSave)
  BY DEF Prefs!HotkeysMoved
<1>4. Seeding(a)
  BY <1>2, <1>3
<1>5. Seeding(Prefs!Put(a, "save", Prefs!DefaultSave))
  BY <1>4, PutSeeding
<1>6. QED  BY <1>3, <1>4, <1>5

LEMMA HotkeysSettle ==
  ASSUME NEW f, Seeding(f)
  PROVE  /\ Seeding(Prefs!HotkeysMigrated(f))
         /\ "hotkeys" \in DOMAIN Prefs!HotkeysMigrated(f) =>
              Prefs!HotkeysMigrated(f)["hotkeys"] >= 3
         /\ "hotkeys" \in DOMAIN f /\ f["hotkeys"] >= 3 => Prefs!HotkeysMigrated(f) = f
<1>1. CASE Prefs!Get(f, "hotkeys", 0) >= 3
  <2>1. Prefs!HotkeysMigrated(f) = f
    BY <1>1 DEF Prefs!HotkeysMigrated
  <2>2. "hotkeys" \in DOMAIN f => f["hotkeys"] >= 3
    BY <1>1 DEF Prefs!Get
  <2>3. QED  BY <2>1, <2>2
<1>2. CASE ~(Prefs!Get(f, "hotkeys", 0) >= 3)
  <2> DEFINE g == Prefs!HotkeysMoved(f)
  <2>1. Seeding(g) /\ Prefs!IsFile(g)
    BY MovedSeeding DEF Seeding
  <2> HIDE DEF g
  <2>2. /\ Seeding(Prefs!Put(g, "hotkeys", 3))
        /\ "hotkeys" \in DOMAIN Prefs!Put(g, "hotkeys", 3) => Prefs!Put(g, "hotkeys",
             3)["hotkeys"] = 3
    BY <2>1, PutSeeding, PutKeeps
  <2>3. Prefs!HotkeysMigrated(f) = Prefs!Put(g, "hotkeys", 3)
    BY <1>2 DEF Prefs!HotkeysMigrated, g
  <2>4. ~("hotkeys" \in DOMAIN f /\ f["hotkeys"] >= 3)
    BY <1>2 DEF Prefs!Get
  <2>5. QED  BY <2>2, <2>3, <2>4
<1>3. QED  BY <1>1, <1>2

LEMMA SpeedSettle ==
  ASSUME NEW f, Seeding(f), "hotkeys" \in DOMAIN f => f["hotkeys"] >= 3
  PROVE  /\ Prefs!Settled(Prefs!SpeedMigrated(f))
         /\ "settings" \in DOMAIN f /\ f["settings"] >= 3 => Prefs!SpeedMigrated(f) = f
<1>1. CASE Prefs!Get(f, "settings", 0) >= 3
  <2>1. Prefs!SpeedMigrated(f) = f
    BY <1>1 DEF Prefs!SpeedMigrated
  <2>2. "settings" \in DOMAIN f => f["settings"] >= 3
    BY <1>1 DEF Prefs!Get
  <2>3. QED  BY <2>1, <2>2 DEF Prefs!Settled, Seeding
<1>2. CASE ~(Prefs!Get(f, "settings", 0) >= 3)
  <2>1. PICK g : /\ g = f \/ g = Prefs!Put(f, "speed", 5)
                 /\ Prefs!SpeedMigrated(f) = Prefs!Put(g, "settings", 3)
    BY <1>2 DEF Prefs!SpeedMigrated
  <2>2. Seeding(g) /\ Prefs!IsFile(g)
    BY <2>1, PutSeeding DEF Seeding
  <2>3. "hotkeys" \in DOMAIN g => g["hotkeys"] >= 3
    <3>1. Prefs!IsFile(f)
      BY DEF Seeding
    <3>2. /\ DOMAIN Prefs!Put(f, "speed", 5) \subseteq DOMAIN f \cup {"speed"}
          /\ \A x \in DOMAIN f : x # "speed" => Prefs!Put(f, "speed", 5)[x] = f[x]
      BY <3>1, PutKeeps
    <3>3. QED  BY <2>1, <3>2
  <2>4. Seeding(Prefs!Put(g, "settings", 3))
    BY <2>2, PutSeeding
  <2>5. /\ DOMAIN Prefs!Put(g, "settings", 3) \subseteq DOMAIN g \cup {"settings"}
        /\ \A x \in DOMAIN g : x # "settings" => Prefs!Put(g, "settings", 3)[x] = g[x]
        /\ "settings" \in DOMAIN Prefs!Put(g, "settings", 3) => Prefs!Put(g, "settings",
             3)["settings"] = 3
    BY <2>2, PutKeeps
  <2>6. Prefs!Settled(Prefs!Put(g, "settings", 3))
    BY <2>3, <2>4, <2>5 DEF Prefs!Settled, Seeding
  <2>7. ~("settings" \in DOMAIN f /\ f["settings"] >= 3)
    BY <1>2 DEF Prefs!Get
  <2>8. QED  BY <2>1, <2>6, <2>7
<1>3. QED  BY <1>1, <1>2

(* What is loaded is settled, and what is settled is loaded as it is.       *)
LEMMA WithoutFile ==
  ASSUME NEW f, NEW ks, Prefs!IsFile(f)
  PROVE  /\ Prefs!IsFile(Prefs!Without(f, ks))
         /\ DOMAIN Prefs!Without(f, ks) = DOMAIN f \ ks
         /\ \A k \in DOMAIN f \ ks : Prefs!Without(f, ks)[k] = f[k]
         /\ (\A k \in ks : k \notin DOMAIN f) => Prefs!Without(f, ks) = f
<1>1. Prefs!Without(f, ks) = [k \in DOMAIN f \ ks |-> f[k]]
  BY DEF Prefs!Without, Prefs!Restrict
<1>2. Prefs!IsFiniteSet(DOMAIN f \ ks)
  BY FS_Subset, SameSize DEF Prefs!IsFile
<1>3. (\A k \in ks : k \notin DOMAIN f) => DOMAIN f \ ks = DOMAIN f
  OBVIOUS
<1>4. DOMAIN Prefs!Without(f, ks) = DOMAIN f \ ks
  BY <1>1
<1>5. \A k \in DOMAIN f \ ks : Prefs!Without(f, ks)[k] = f[k]
  BY <1>1
<1>6. Prefs!Without(f, ks) = [k \in DOMAIN Prefs!Without(f, ks) |-> Prefs!Without(f, ks)[k]]
  BY <1>1
<1>7. QED  BY <1>1, <1>2, <1>3, <1>4, <1>5, <1>6 DEF Prefs!IsFile

LEMMA WithoutKey ==
  ASSUME NEW f, NEW k, Prefs!IsFile(f)
  PROVE  /\ Prefs!IsFile(Prefs!Without(f, {k})) /\ k \notin DOMAIN Prefs!Without(f, {k})
         /\ k \notin DOMAIN f => Prefs!Without(f, {k}) = f
<1>1. Prefs!IsFile(Prefs!Without(f, {k}))
  BY WithoutFile
<1>2. DOMAIN Prefs!Without(f, {k}) = DOMAIN f \ {k}
  BY WithoutFile
<1>3. (\A x \in {k} : x \notin DOMAIN f) => Prefs!Without(f, {k}) = f
  BY WithoutFile
<1>4. QED  BY <1>1, <1>2, <1>3

LEMMA EmptyFile == Prefs!IsFile(<<>>) /\ DOMAIN <<>> = {}
<1>1. DOMAIN <<>> = {}
  OBVIOUS
<1>2. <<>> = [k \in {} |-> <<>>[k]]
  OBVIOUS
<1>3. QED  BY <1>1, <1>2, FS_EmptySet, SameSize DEF Prefs!IsFile

LEMMA LoadedSettled ==
  ASSUME NEW file, Prefs!IsFile(file)
  PROVE  Prefs!Settled(Prefs!Loaded(file))
<1> DEFINE read == IF file = Prefs!NoFile THEN <<>> ELSE Prefs!Without(file, {"boost"})
           s == Prefs!Seeded(Prefs!StylusMigrated(read))
           h == Prefs!HotkeysMigrated(s)
<1>1. Prefs!IsFile(read) /\ "boost" \notin DOMAIN read
  <2>1. /\ Prefs!IsFile(Prefs!Without(file, {"boost"}))
        /\ "boost" \notin DOMAIN Prefs!Without(file, {"boost"})
    BY WithoutKey
  <2>2. Prefs!IsFile(<<>>) /\ "boost" \notin DOMAIN <<>>
    BY EmptyFile
  <2>3. read = <<>> \/ read = Prefs!Without(file, {"boost"})
    OBVIOUS
  <2> HIDE DEF read
  <2>4. QED  BY <2>1, <2>2, <2>3
<1> HIDE DEF read
<1>2. Seeding(s)
  BY <1>1, StylusKeeps, SeededSeeding
<1> HIDE DEF s
<1>3. Seeding(h) /\ ("hotkeys" \in DOMAIN h => h["hotkeys"] >= 3)
  BY <1>2, HotkeysSettle
<1> HIDE DEF h
<1>4. Prefs!Settled(Prefs!SpeedMigrated(h))
  BY <1>3, SpeedSettle
<1>5. QED  BY <1>4 DEF Prefs!Loaded, read, s, h

LEMMA LoadedFixed ==
  ASSUME NEW f, Prefs!Settled(f), {"hotkeys", "settings"} \subseteq DOMAIN f
  PROVE  Prefs!Loaded(f) = f
<1>1. Prefs!IsFile(f) /\ Seeding(f) /\ "boost" \notin DOMAIN f
  BY DEF Prefs!Settled, Seeding
<1>2. f # Prefs!NoFile
  BY DEF Prefs!NoFile
<1>3. Prefs!Without(f, {"boost"}) = f
  BY <1>1, WithoutFile
<1>4. Prefs!StylusMigrated(f) = f
  BY <1>1, StylusKeeps
<1>5. Prefs!Seeded(f) = f
  BY <1>1, SeededFixed
<1>6. Prefs!HotkeysMigrated(f) = f
  BY <1>1, HotkeysSettle DEF Prefs!Settled
<1>7. Prefs!SpeedMigrated(f) = f
  BY <1>1, SpeedSettle DEF Prefs!Settled
<1>8. QED  BY <1>2, <1>3, <1>4, <1>5, <1>6, <1>7 DEF Prefs!Loaded

(* What the host's files hold: functions with finitely many keys.           *)
LEMMA WithFile ==
  ASSUME NEW f, NEW k, NEW v, Prefs!IsFile(f)
  PROVE  /\ Prefs!IsFile(Prefs!With(f, k, v)) /\ DOMAIN Prefs!With(f, k, v) = DOMAIN f \cup {k}
         /\ Prefs!With(f, k, v)[k] = v
<1>1. /\ DOMAIN Prefs!With(f, k, v) = DOMAIN f \cup {k} /\ Prefs!With(f, k, v)[k] = v
      /\ Prefs!With(f, k, v) = [x \in DOMAIN f \cup {k} |-> Prefs!With(f, k, v)[x]]
  BY DEF Prefs!With
<1>2. Prefs!IsFiniteSet(DOMAIN f \cup {k})
  BY FS_AddElement, SameSize DEF Prefs!IsFile
<1>3. QED  BY <1>1, <1>2 DEF Prefs!IsFile

LEMMA OverFile ==
  ASSUME NEW f, NEW g, Prefs!IsFile(f), Prefs!IsFile(g)
  PROVE  Prefs!IsFile(Prefs!Over(f, g))
<1>1. /\ DOMAIN Prefs!Over(f, g) = DOMAIN f \cup DOMAIN g
      /\ Prefs!Over(f, g) = [x \in DOMAIN f \cup DOMAIN g |-> Prefs!Over(f, g)[x]]
  BY DEF Prefs!Over
<1>2. Prefs!IsFiniteSet(DOMAIN f \cup DOMAIN g)
  BY FS_Union, SameSize DEF Prefs!IsFile
<1>3. QED  BY <1>1, <1>2 DEF Prefs!IsFile

LEMMA MissingFile == Prefs!IsFile(Prefs!NoFile) /\ DOMAIN Prefs!NoFile = {"missing"}
<1>1. DOMAIN Prefs!NoFile = {"missing"}
  BY DEF Prefs!NoFile
<1>2. Prefs!NoFile = [k \in DOMAIN Prefs!NoFile |-> Prefs!NoFile[k]]
  BY DEF Prefs!NoFile
<1>3. Prefs!IsFiniteSet({"missing"})
  BY FS_Singleton, SameSize
<1>4. QED  BY <1>1, <1>2, <1>3 DEF Prefs!IsFile

(* A change of a value leaves the preferences settled.                      *)
LEMMA PutSettled ==
  ASSUME NEW f, NEW k \in {"speed", "stylus"}, NEW v, Prefs!Settled(f)
  PROVE  Prefs!Settled(Prefs!Put(f, k, v))
<1>1. Prefs!IsFile(f) /\ Seeding(f)
  BY DEF Prefs!Settled, Seeding
<1>2. Seeding(Prefs!Put(f, k, v))
  BY <1>1, PutSeeding
<1>3. /\ DOMAIN Prefs!Put(f, k, v) \subseteq DOMAIN f \cup {k}
      /\ \A x \in DOMAIN f : x # k => Prefs!Put(f, k, v)[x] = f[x]
  BY <1>1, PutKeeps
<1>4. QED  BY <1>2, <1>3 DEF Prefs!Settled, Seeding

LEMMA PrefsInit ==
  ASSUME Prefs!Init
  PROVE  Prefs!IInv
<1>1. Prefs!IsFile(pLaunch) /\ Prefs!IsFile(pProfile) /\ Prefs!IsFile(pTemporary)
  BY PrefsAssumption, MissingFile DEF Prefs!Init
<1>2. QED
  BY <1>1
     DEF Prefs!Init, Prefs!IInv, Prefs!SessionsSettled, Prefs!FilesAreFiles,
         Prefs!MirrorsKey, Prefs!WrittenFirst, Prefs!ProfileKeepsOthers

LEMMA PrefsStep ==
  ASSUME Prefs!IInv, Prefs!Next
  PROVE  Prefs!IInv'
<1> USE DEF Prefs!IInv
<1>1. CASE Prefs!StartHost
  <2>1. /\ Prefs!Settled(pEntries') /\ pUp' /\ pPc' = "idle"
        /\ UNCHANGED <<Prefs!onCard, pKey, pMeant, pSpoiled>>
    BY <1>1, LoadedSettled DEF Prefs!StartHost, Prefs!FilesAreFiles
  <2>2. pPc = "gone"
    BY <1>1 DEF Prefs!StartHost, Prefs!MirrorsKey
  <2>3. Prefs!SessionsSettled' /\ Prefs!FilesAreFiles'
    BY <2>1
       DEF Prefs!SessionsSettled, Prefs!FilesAreFiles, Prefs!onCard, Prefs!Settled,
           Prefs!IsFile, Prefs!Full
  <2>4. Prefs!MirrorsKey' /\ Prefs!WrittenFirst'
    BY <2>1 DEF Prefs!MirrorsKey, Prefs!WrittenFirst
  <2>5. Prefs!ProfileKeepsOthers'
    BY <2>1, <2>2 DEF Prefs!ProfileKeepsOthers, Prefs!onCard
  <2>6. QED  BY <2>3, <2>4, <2>5
<1>2. CASE Prefs!Launch
  <2> DEFINE overrides == IF pProfile = Prefs!NoFile THEN <<>> ELSE pProfile
             migrated == Prefs!Without(IF "legacy" \in DOMAIN overrides /\
             "stylus" \notin DOMAIN overrides
                                 THEN Prefs!With(overrides, "stylus",
                                 IF overrides["legacy"] THEN "stick" ELSE "off")
                                 ELSE overrides, {"legacy", "boost"})
  <2>1. Prefs!IsFile(overrides)
    BY EmptyFile DEF Prefs!FilesAreFiles
  <2>2. Prefs!IsFile(migrated)
    <3> HIDE DEF overrides
    <3>1. \A v : Prefs!IsFile(Prefs!With(overrides, "stylus", v))
      BY <2>1, WithFile
    <3>2. PICK m : Prefs!IsFile(m) /\ migrated = Prefs!Without(m, {"legacy", "boost"})
      BY <2>1, <3>1
    <3>3. QED  BY <3>2, WithoutFile
  <2>3. pLaunch' = Prefs!Over(migrated, Global)
    BY <1>2 DEF Prefs!Launch
  <2>4. Prefs!IsFile(pLaunch')
    <3> HIDE DEF migrated
    <3>1. QED  BY <2>2, <2>3, OverFile, PrefsAssumption
  <2>5. Prefs!Settled(pEntries')
    BY <1>2, <2>4, LoadedSettled DEF Prefs!Launch
  <2>6. /\ pUp' /\ pPc' = "idle" /\ pPc = "gone" /\ pTemporary' = Prefs!NoFile
        /\ UNCHANGED <<pProfile, pKey, pMeant, pSpoiled>>
    BY <1>2 DEF Prefs!Launch, Prefs!MirrorsKey
  <2>7. Prefs!SessionsSettled'
    BY <2>5 DEF Prefs!SessionsSettled
  <2>8. Prefs!FilesAreFiles'
    BY <2>4, <2>6, MissingFile DEF Prefs!FilesAreFiles
  <2>9. Prefs!MirrorsKey' /\ Prefs!WrittenFirst'
    BY <2>6 DEF Prefs!MirrorsKey, Prefs!WrittenFirst
  <2>10. Prefs!ProfileKeepsOthers'
    BY <2>6 DEF Prefs!ProfileKeepsOthers
  <2>11. QED  BY <2>7, <2>8, <2>9, <2>10
<1>3. CASE Prefs!Change
  <2>1. PICK v : pEntries' = Prefs!Put(pEntries, pKey', v) /\ pKey' \in {"speed", "stylus"}
    BY <1>3 DEF Prefs!Change
  <2>2. /\ pUp /\ UNCHANGED pUp /\ pPc = "idle" /\ pPc' = "save"
        /\ UNCHANGED <<pLaunch, pProfile, pTemporary, pMeant, pSpoiled>>
    BY <1>3 DEF Prefs!Change, Prefs!Idle, Prefs!onCard
  <2>3. Prefs!Settled(pEntries')
    BY <2>1, <2>2, PutSettled DEF Prefs!SessionsSettled
  <2>4. Prefs!SessionsSettled' /\ Prefs!FilesAreFiles'
    BY <2>2, <2>3 DEF Prefs!SessionsSettled, Prefs!FilesAreFiles
  <2>5. Prefs!MirrorsKey' /\ Prefs!WrittenFirst' /\ Prefs!ProfileKeepsOthers'
    BY <2>1, <2>2 DEF Prefs!MirrorsKey, Prefs!WrittenFirst, Prefs!ProfileKeepsOthers
  <2>6. QED  BY <2>4, <2>5
<1>4. CASE Prefs!End
  <2>1. /\ pUp /\ UNCHANGED pUp /\ pPc = "idle" /\ pPc' = "save" /\ pKey' = ""
        /\ UNCHANGED <<pEntries, pLaunch, pProfile, pTemporary, pMeant, pSpoiled>>
    BY <1>4 DEF Prefs!End, Prefs!Idle, Prefs!onCard
  <2>2. Prefs!SessionsSettled' /\ Prefs!FilesAreFiles'
    BY <2>1 DEF Prefs!SessionsSettled, Prefs!FilesAreFiles
  <2>3. Prefs!MirrorsKey' /\ Prefs!WrittenFirst' /\ Prefs!ProfileKeepsOthers'
    BY <2>1 DEF Prefs!MirrorsKey, Prefs!WrittenFirst, Prefs!ProfileKeepsOthers
  <2>4. QED  BY <2>2, <2>3
<1>5. CASE Prefs!Save \/ Prefs!RenameLaunch
  <2>1. /\ pUp /\ UNCHANGED <<pUp, pEntries, pProfile, pTemporary, pKey, pMeant, pSpoiled>>
        /\ pPc \in {"save", "renameLaunch"}
        /\ pPc' \in {"renameLaunch", "gone", "mirror"} /\ (pPc' = "mirror" => pKey # "")
        /\ pLaunch' \in {pLaunch, pEntries, Prefs!NoFile}
    BY <1>5 DEF Prefs!Save, Prefs!RenameLaunch, Prefs!SaveReturns
  <2>2. Prefs!IsFile(pLaunch')
    BY <2>1, MissingFile DEF Prefs!FilesAreFiles, Prefs!SessionsSettled, Prefs!Settled
  <2>3. Prefs!SessionsSettled' /\ Prefs!FilesAreFiles'
    BY <2>1, <2>2 DEF Prefs!SessionsSettled, Prefs!FilesAreFiles
  <2>4. Prefs!MirrorsKey' /\ Prefs!WrittenFirst' /\ Prefs!ProfileKeepsOthers'
    BY <2>1 DEF Prefs!MirrorsKey, Prefs!WrittenFirst, Prefs!ProfileKeepsOthers
  <2>5. QED  BY <2>3, <2>4
<1>6. CASE Prefs!Mirror
  <2>1. /\ pUp /\ pPc = "mirror"
        /\ UNCHANGED <<pUp, pEntries, pLaunch, pProfile, pKey, pMeant>>
        /\ pKey \in {"speed", "stylus"}
    BY <1>6 DEF Prefs!Mirror, Prefs!MirrorsKey
  <2>2. CASE pTemporary' \in {pTemporary, Prefs!NoFile} /\ pPc' = "idle" /\ UNCHANGED pSpoiled
    <3>1. Prefs!FilesAreFiles'
      BY <2>1, <2>2, MissingFile DEF Prefs!FilesAreFiles
    <3>2. /\ Prefs!SessionsSettled' /\ Prefs!MirrorsKey' /\ Prefs!WrittenFirst'
          /\ Prefs!ProfileKeepsOthers'
      BY <2>1, <2>2
         DEF Prefs!SessionsSettled, Prefs!MirrorsKey, Prefs!WrittenFirst,
             Prefs!ProfileKeepsOthers
    <3>3. QED  BY <3>1, <3>2
  <2>3. CASE /\ pPc' = "remove"
             /\ \E read \in {IF pProfile = Prefs!NoFile THEN <<>> ELSE pProfile, <<>>} :
                  /\ pTemporary' \in {Prefs!Mirrored(read),
                       Prefs!Without(Prefs!Mirrored(read), {"other"})}
                  /\ pSpoiled' = (pSpoiled \/
                       (pProfile # Prefs!NoFile /\ pTemporary' # Prefs!Mirrored(pProfile)))
    <3>1. PICK read \in {IF pProfile = Prefs!NoFile THEN <<>> ELSE pProfile, <<>>} :
                /\ pTemporary' \in {Prefs!Mirrored(read),
                     Prefs!Without(Prefs!Mirrored(read), {"other"})}
                /\ pSpoiled' = (pSpoiled \/
                     (pProfile # Prefs!NoFile /\ pTemporary' # Prefs!Mirrored(pProfile)))
      BY <2>3
    <3>2. read \in {pProfile, <<>>} /\ (pProfile = Prefs!NoFile => read = <<>>)
      OBVIOUS
    <3>3. /\ ~pSpoiled' => ~pSpoiled
          /\ ~pSpoiled' => pProfile = Prefs!NoFile \/ pTemporary' = Prefs!Mirrored(pProfile)
      <4> DEFINE lost == pProfile # Prefs!NoFile /\ pTemporary' # Prefs!Mirrored(pProfile)
      <4>1. pSpoiled' = (pSpoiled \/ lost)
        BY <3>1
      <4> HIDE DEF lost
      <4>2. ~pSpoiled' => ~pSpoiled /\ ~lost
        BY <4>1
      <4>3. QED  BY <4>2 DEF lost
    <3>4. /\ Prefs!IsFile(Prefs!Mirrored(read))
          /\ DOMAIN Prefs!Mirrored(read) = DOMAIN read \cup {pKey}
      <4>1. Prefs!IsFile(read)
        BY <3>2, EmptyFile DEF Prefs!FilesAreFiles
      <4>2. QED  BY <4>1, WithFile DEF Prefs!Mirrored
    <3>5. Prefs!IsFile(pTemporary')
      <4>1. Prefs!IsFile(Prefs!Without(Prefs!Mirrored(read), {"other"}))
        BY <3>4, WithoutKey
      <4>2. pTemporary' = Prefs!Mirrored(read) \/
              pTemporary' = Prefs!Without(Prefs!Mirrored(read), {"other"})
        BY <3>1
      <4>3. QED  BY <3>4, <4>1, <4>2
    <3>6. ~pSpoiled' => pTemporary' = Prefs!With(pMeant, pKey, pEntries[pKey])
      <4>1. CASE pProfile # Prefs!NoFile
        BY <2>1, <3>3, <4>1 DEF Prefs!ProfileKeepsOthers, Prefs!Mirrored
      <4>2. CASE pProfile = Prefs!NoFile /\ ~pSpoiled
        <5>1. read = <<>> /\ pMeant = <<>>
          BY <2>1, <3>2, <4>2 DEF Prefs!ProfileKeepsOthers
        <5>2. "other" \notin DOMAIN Prefs!Mirrored(read)
          BY <2>1, <3>4, <5>1, EmptyFile
        <5>3. Prefs!Without(Prefs!Mirrored(read), {"other"}) = Prefs!Mirrored(read)
          BY <3>4, <5>2, WithoutKey
        <5>4. QED  BY <3>1, <5>1, <5>3 DEF Prefs!Mirrored
      <4>3. QED  BY <3>3, <4>1, <4>2
    <3>7. Prefs!FilesAreFiles'
      BY <2>1, <3>5 DEF Prefs!FilesAreFiles
    <3>8. Prefs!SessionsSettled' /\ Prefs!MirrorsKey'
      BY <2>1, <2>3 DEF Prefs!SessionsSettled, Prefs!MirrorsKey
    <3>9. Prefs!WrittenFirst'
      BY <2>1, <3>6 DEF Prefs!WrittenFirst
    <3>10. Prefs!ProfileKeepsOthers'
      BY <2>1, <2>3, <3>3 DEF Prefs!ProfileKeepsOthers
    <3>11. QED  BY <3>7, <3>8, <3>9, <3>10
  <2>4. QED  BY <1>6, <2>2, <2>3 DEF Prefs!Mirror
<1>7. CASE Prefs!RemoveProfile
  <2>1. /\ pUp /\ pPc = "remove"
        /\ UNCHANGED <<pUp, pEntries, pLaunch, pTemporary, pKey, pMeant, pSpoiled>>
        /\ \/ pProfile' = Prefs!NoFile /\ pPc' = "rename"
           \/ pProfile' = pProfile /\ pPc' = "idle"
    BY <1>7 DEF Prefs!RemoveProfile
  <2>2. Prefs!FilesAreFiles'
    BY <2>1, MissingFile DEF Prefs!FilesAreFiles
  <2>3. Prefs!SessionsSettled' /\ Prefs!MirrorsKey' /\ Prefs!WrittenFirst'
    BY <2>1 DEF Prefs!SessionsSettled, Prefs!MirrorsKey, Prefs!WrittenFirst
  <2>4. Prefs!ProfileKeepsOthers'
    BY <2>1 DEF Prefs!ProfileKeepsOthers, Prefs!WrittenFirst
  <2>5. QED  BY <2>2, <2>3, <2>4
<1>8. CASE Prefs!RenameProfile
  <2>1. /\ pUp /\ pPc = "rename" /\ pPc' = "idle"
        /\ UNCHANGED <<pUp, pEntries, pLaunch, pKey>>
        /\ pKey \in {"speed", "stylus"}
    BY <1>8 DEF Prefs!RenameProfile, Prefs!MirrorsKey
  <2>2. Prefs!SessionsSettled' /\ Prefs!MirrorsKey' /\ Prefs!WrittenFirst'
    BY <2>1 DEF Prefs!SessionsSettled, Prefs!MirrorsKey, Prefs!WrittenFirst
  <2>3. Prefs!FilesAreFiles'
    BY <1>8, <2>1, MissingFile DEF Prefs!RenameProfile, Prefs!FilesAreFiles
  <2>4. Prefs!ProfileKeepsOthers'
    <3>1. CASE pProfile' = pTemporary /\ pMeant' = Prefs!With(pMeant, pKey,
            pEntries[pKey]) /\ UNCHANGED pSpoiled
      <4>1. SUFFICES ASSUME ~pSpoiled PROVE pProfile' = pMeant' /\ pProfile' # Prefs!NoFile
        BY <2>1, <3>1 DEF Prefs!ProfileKeepsOthers
      <4>2. pProfile' = pMeant'
        BY <2>1, <3>1, <4>1 DEF Prefs!ProfileKeepsOthers
      <4>3. pKey \in DOMAIN pMeant'
        BY <3>1 DEF Prefs!With
      <4>4. QED  BY <2>1, <4>2, <4>3, MissingFile
    <3>2. CASE pSpoiled' = TRUE
      BY <3>2 DEF Prefs!ProfileKeepsOthers
    <3>3. QED  BY <1>8, <3>1, <3>2 DEF Prefs!RenameProfile
  <2>5. QED  BY <2>2, <2>3, <2>4
<1>9. CASE Prefs!Stop
  <2>1. /\ ~pUp' /\ pKey' = "" /\ pPc' = "gone"
        /\ UNCHANGED <<pLaunch, pProfile, pTemporary, pMeant>>
        /\ ~pSpoiled' => ~pSpoiled /\ pPc # "rename"
    BY <1>9 DEF Prefs!Stop, Prefs!onCard
  <2>2. Prefs!SessionsSettled' /\ Prefs!MirrorsKey' /\ Prefs!WrittenFirst'
    BY <2>1 DEF Prefs!SessionsSettled, Prefs!MirrorsKey, Prefs!WrittenFirst
  <2>3. Prefs!FilesAreFiles' /\ Prefs!ProfileKeepsOthers'
    BY <2>1 DEF Prefs!FilesAreFiles, Prefs!ProfileKeepsOthers
  <2>4. QED  BY <2>2, <2>3
<1>10. QED  BY <1>1, <1>2, <1>3, <1>4, <1>5, <1>6, <1>7, <1>8, <1>9 DEF Prefs!Next

LEMMA PrefsStutter ==
  ASSUME Prefs!IInv, UNCHANGED Prefs!vars
  PROVE  Prefs!IInv'
<1>1. /\ UNCHANGED <<pUp, pProfiled, pEntries, pLaunch, pProfile, pTemporary>>
      /\ UNCHANGED <<pPc, pKey, pMeant, pSpoiled>>
  BY DEF Prefs!vars
<1>2. Prefs!FilesAreFiles'
  BY <1>1 DEF Prefs!IInv, Prefs!FilesAreFiles
<1>3. Prefs!SessionsSettled' /\ Prefs!MirrorsKey'
  BY <1>1 DEF Prefs!IInv, Prefs!SessionsSettled, Prefs!MirrorsKey
<1>4. Prefs!WrittenFirst' /\ Prefs!ProfileKeepsOthers'
  BY <1>1 DEF Prefs!IInv, Prefs!WrittenFirst, Prefs!ProfileKeepsOthers
<1>5. QED  BY <1>2, <1>3, <1>4 DEF Prefs!IInv

LEMMA PrefsSafe ==
  ASSUME Prefs!IInv
  PROVE  Prefs!ChoicesSurvive
<1>1. Prefs!RestartKeepsChoices
  BY LoadedFixed DEF Prefs!IInv, Prefs!SessionsSettled, Prefs!RestartKeepsChoices
<1>2. QED  BY <1>1 DEF Prefs!IInv, Prefs!ChoicesSurvive

HIDE DEF pUp, pProfiled, pEntries, pLaunch, pProfile, pTemporary, pPc, pKey, pMeant,
         pSpoiled

--------------------------------------------------------------------------------
(* Archives: the copy that is played is the chosen archive's.                 *)

aArchives == v1
aWanted == v2
aRom == v3
aMeta == v4
aPc == v5
aSplit == v6

USE DEF aArchives, aWanted, aRom, aMeta, aPc, aSplit

(* A game's fields; the game that is expected, if the archive has one.      *)
LEMMA ArchiveGames ==
  /\ Archives!Missing.archive = "none" /\ Archives!Missing.version = 0
  /\ \A g \in Archives!Game : g.version \in 1 .. Versions /\ g # Archives!Missing
  /\ Archives!TypeOK /\ aArchives[aWanted] # Archives!Unusable =>
       Archives!Expected \in Archives!Game
  /\ aArchives[aWanted] # Archives!Unusable => Archives!Expected # Archives!Missing
<1>1. Archives!Missing.archive = "none" /\ Archives!Missing.version = 0
  BY DEF Archives!Missing
<1>2. \A g \in Archives!Game : g.version \in 1 .. Versions /\ g # Archives!Missing
  BY <1>1 DEF Archives!Game
<1>3. Archives!Expected.version = aArchives[aWanted]
  BY DEF Archives!Expected
<1>4. Archives!TypeOK /\ aArchives[aWanted] # Archives!Unusable =>
        Archives!Expected \in Archives!Game
  <2> SUFFICES ASSUME Archives!TypeOK, aArchives[aWanted] # Archives!Unusable
        PROVE Archives!Expected \in Archives!Game
    OBVIOUS
  <2>1. /\ aWanted \in Archive /\ aArchives[aWanted] \in 0 .. Versions
        /\ aArchives[aWanted] # 0
    BY DEF Archives!TypeOK, Archives!Unusable
  <2>2. aArchives[aWanted] \in 1 .. Versions
    BY <2>1, VersionsAssumption
  <2>3. QED  BY <2>1, <2>2 DEF Archives!Game, Archives!Expected
<1>5. aArchives[aWanted] # Archives!Unusable => Archives!Expected # Archives!Missing
  BY <1>1, <1>3 DEF Archives!Unusable
<1>6. QED  BY <1>1, <1>2, <1>4, <1>5

LEMMA ArchivesInit == Archives!Init => Archives!IInv
<1> SUFFICES ASSUME Archives!Init PROVE Archives!IInv
  OBVIOUS
<1>1. aArchives \in [Archive -> Archives!Unusable .. Versions]
  BY VersionsAssumption DEF Archives!Init, Archives!Unusable
<1>2. QED
  BY <1>1
     DEF Archives!Init, Archives!IInv, Archives!TypeOK, Archives!Steps,
         Archives!ThereToUnpack, Archives!CopiedFirst, Archives!DescribedAsCopied,
         Archives!PlaysChosenArchive

(* A copy and its description are split only where the code splits them.    *)
LEMMA ArchivesStep == Archives!IInv /\ Archives!Next => Archives!IInv'
<1> SUFFICES ASSUME Archives!IInv, Archives!Next PROVE Archives!IInv'
  OBVIOUS
<1> USE DEF Archives!IInv
<1>1. CASE Archives!Replace
  <2>1. aArchives' \in [Archive -> Archives!Unusable .. Versions]
    BY <1>1 DEF Archives!Replace, Archives!TypeOK
  <2>2. aPc = "off" /\ UNCHANGED <<aWanted, aRom, aMeta, aPc, aSplit>>
    BY <1>1 DEF Archives!Replace
  <2>3. QED
    BY <2>1, <2>2
       DEF Archives!TypeOK, Archives!Steps, Archives!ThereToUnpack, Archives!CopiedFirst,
           Archives!DescribedAsCopied, Archives!PlaysChosenArchive
<1>2. CASE Archives!Start
  BY <1>2
     DEF Archives!Start, Archives!TypeOK, Archives!Steps, Archives!ThereToUnpack,
         Archives!CopiedFirst, Archives!DescribedAsCopied, Archives!PlaysChosenArchive
<1>3. CASE Archives!Look
  <2>1. /\ aPc = "look" /\ UNCHANGED <<aArchives, aWanted, aRom, aMeta, aSplit>>
        /\ \/ aPc' = "failed"
           \/ aArchives[aWanted] # Archives!Unusable /\ aPc' = "unpack"
           \/ aArchives[aWanted] # Archives!Unusable /\ aPc' = "ready" /\ Archives!Matches
    BY <1>3 DEF Archives!Look, Archives!Fails
  <2>2. Archives!TypeOK' /\ aPc' \in Archives!Steps
    BY <2>1 DEF Archives!TypeOK, Archives!Steps
  <2>3. Archives!ThereToUnpack' /\ Archives!CopiedFirst' /\ Archives!DescribedAsCopied'
    BY <2>1 DEF Archives!ThereToUnpack, Archives!CopiedFirst, Archives!DescribedAsCopied
  <2>4. Archives!Expected' = Archives!Expected
    BY <2>1 DEF Archives!Expected
  <2>5. Archives!PlaysChosenArchive'
    BY <2>1, <2>4, ArchiveGames
       DEF Archives!PlaysChosenArchive, Archives!DescribedAsCopied, Archives!Matches
  <2>6. QED  BY <2>2, <2>3, <2>5
<1>4. CASE Archives!Unpack
  BY <1>4
     DEF Archives!Unpack, Archives!Fails, Archives!TypeOK, Archives!Steps,
         Archives!ThereToUnpack, Archives!CopiedFirst, Archives!DescribedAsCopied,
         Archives!PlaysChosenArchive
<1>5. CASE Archives!RemoveCopy
  BY <1>5
     DEF Archives!RemoveCopy, Archives!Fails, Archives!TypeOK, Archives!Steps,
         Archives!ThereToUnpack, Archives!CopiedFirst, Archives!DescribedAsCopied,
         Archives!PlaysChosenArchive
<1>6. CASE Archives!RenameCopy
  <2>1. /\ aPc = "replace" /\ aRom = Archives!Missing
        /\ UNCHANGED <<aArchives, aWanted, aMeta>>
        /\ \/ aPc' = "failed" /\ UNCHANGED <<aRom, aSplit>>
           \/ aPc' = "describe" /\ aRom' = Archives!Expected /\ aSplit' = (aMeta # Archives!Missing)
    BY <1>6 DEF Archives!RenameCopy, Archives!Fails
  <2>2. aArchives[aWanted] # Archives!Unusable /\ Archives!Expected \in Archives!Game
    BY <2>1, ArchiveGames DEF Archives!ThereToUnpack
  <2>3. Archives!TypeOK' /\ aPc' \in Archives!Steps
    BY <2>1, <2>2 DEF Archives!TypeOK, Archives!Steps
  <2>4. Archives!Expected' = Archives!Expected
    BY <2>1 DEF Archives!Expected
  <2>5. /\ Archives!ThereToUnpack' /\ Archives!CopiedFirst' /\ Archives!DescribedAsCopied'
        /\ Archives!PlaysChosenArchive'
    BY <2>1, <2>2, <2>4
       DEF Archives!ThereToUnpack, Archives!CopiedFirst, Archives!DescribedAsCopied,
           Archives!PlaysChosenArchive
  <2>6. QED  BY <2>3, <2>5
<1>7. CASE Archives!DescribeFails
  BY <1>7
     DEF Archives!DescribeFails, Archives!TypeOK, Archives!Steps, Archives!ThereToUnpack,
         Archives!CopiedFirst, Archives!DescribedAsCopied, Archives!PlaysChosenArchive
<1>8. CASE Archives!RemoveInfo \/ Archives!RenameInfo
  <2>1. /\ aPc \in {"describe", "redescribe"} /\ UNCHANGED <<aArchives, aWanted, aRom>>
        /\ aSplit' = FALSE
        /\ \/ aPc' = "redescribe" /\ aMeta' = Archives!Missing
           \/ aPc' = "ready" /\ aMeta' = Archives!Expected
    BY <1>8 DEF Archives!RemoveInfo, Archives!RenameInfo
  <2>2. /\ aArchives[aWanted] # Archives!Unusable /\ Archives!Expected \in Archives!Game
        /\ aRom = Archives!Expected
    BY <2>1, ArchiveGames DEF Archives!ThereToUnpack, Archives!CopiedFirst
  <2>3. Archives!TypeOK' /\ aPc' \in Archives!Steps
    BY <2>1, <2>2 DEF Archives!TypeOK, Archives!Steps
  <2>4. Archives!Expected' = Archives!Expected
    BY <2>1 DEF Archives!Expected
  <2>5. /\ Archives!ThereToUnpack' /\ Archives!CopiedFirst' /\ Archives!DescribedAsCopied'
        /\ Archives!PlaysChosenArchive'
    BY <2>1, <2>2, <2>4
       DEF Archives!ThereToUnpack, Archives!CopiedFirst, Archives!DescribedAsCopied,
           Archives!PlaysChosenArchive
  <2>6. QED  BY <2>3, <2>5
<1>9. CASE Archives!Stop
  BY <1>9
     DEF Archives!Stop, Archives!TypeOK, Archives!Steps, Archives!ThereToUnpack,
         Archives!CopiedFirst, Archives!DescribedAsCopied, Archives!PlaysChosenArchive
<1>10. QED  BY <1>1, <1>2, <1>3, <1>4, <1>5, <1>6, <1>7, <1>8, <1>9 DEF Archives!Next

LEMMA ArchivesStutter == Archives!IInv /\ UNCHANGED Archives!vars => Archives!IInv'
  BY DEF Archives!vars, Archives!IInv, Archives!TypeOK, Archives!ThereToUnpack,
         Archives!CopiedFirst, Archives!DescribedAsCopied, Archives!PlaysChosenArchive,
         Archives!Expected

LEMMA ArchivesSafe == Archives!IInv => Archives!PlaysChosenArchive
  BY DEF Archives!IInv

HIDE DEF aArchives, aWanted, aRom, aMeta, aPc, aSplit

--------------------------------------------------------------------------------
(* Cheats: the page's copies and the saved numbers are the core's cheats.     *)

cDb == v1
cCustom == v2
cRunning == v3
cSaved == v4
cApplied == v5
cOpen == v6
cList == v7

USE DEF cDb, cCustom, cRunning, cSaved, cApplied, cOpen, cList

(* Every digit of a bitmap has each of its bits, ...                           *)
LEMMA CheatBits ==
  ASSUME NEW b0 \in {0, 1}, NEW b1 \in {0, 2}, NEW b2 \in {0, 4}, NEW b3 \in {0, 8}
  PROVE  LET v == b0 + b1 + b2 + b3
         IN  /\ (v \div Cheats!Pow2(0)) % 2 = 1 <=> b0 = 1
             /\ (v \div Cheats!Pow2(1)) % 2 = 1 <=> b1 = 2
             /\ (v \div Cheats!Pow2(2)) % 2 = 1 <=> b2 = 4
             /\ (v \div Cheats!Pow2(3)) % 2 = 1 <=> b3 = 8
  BY DEF Cheats!Pow2

(* ... and there is a highest number to end it with.                           *)
LEMMA CheatHighest ==
  ASSUME NEW n \in Nat, NEW S \in SUBSET (0 .. n - 1), S # {}
  PROVE  \E i \in S : \A j \in S : j <= i
<1> DEFINE T == {k \in Nat : n - k \in S}
           Less == OpToRel(<, Nat)
<1>1. IsWellFoundedOn(Less, Nat)
  BY NatLessThanWellFounded
<1>2. T \subseteq Nat /\ T # {}
  <2>1. PICK i \in S : TRUE
    OBVIOUS
  <2>2. n - i \in Nat /\ n - (n - i) = i
    BY <2>1
  <2>3. QED  BY <2>1, <2>2
<1>3. PICK x \in T : \A y \in T : ~(<<y, x>> \in Less)
  BY <1>1, <1>2, WFMin
<1>4. n - x \in S /\ x \in Nat
  OBVIOUS
<1>5. ASSUME NEW j \in S PROVE j <= n - x
  <2>1. n - j \in Nat /\ n - (n - j) = j /\ j \in Int
    OBVIOUS
  <2>2. n - j \in T
    BY <2>1
  <2>3. ~(n - j < x)
    BY <1>3, <1>4, <2>1, <2>2 DEF OpToRel
  <2>4. QED  BY <1>4, <2>1, <2>3
<1>6. QED  BY <1>4, <1>5

(* What was saved is found again, and nothing else.                            *)
LEMMA CheatFound ==
  ASSUME NEW n \in Nat, NEW S \in SUBSET (0 .. n - 1), NEW i \in Nat
  PROVE  Cheats!ListContains(Cheats!Encode(S), i) <=> i \in S
<1> DEFINE highest == IF S = {} THEN -1 ELSE CHOOSE h \in S : \A j \in S : j <= h
           digits == IF highest < 0 THEN 0 ELSE highest \div DigitBits + 1
           Bit(d, k) == IF k < DigitBits /\ d * DigitBits + k \in S THEN Cheats!Pow2(k) ELSE 0
           Digit(d) == Bit(d - 1, 0) + Bit(d - 1, 1) + Bit(d - 1, 2) + Bit(d - 1, 3)
<1>1. Cheats!Encode(S) = [d \in 1 .. digits |-> Digit(d)]
  BY DEF Cheats!Encode
<1>2. highest \in Int /\ highest >= -1 /\ \A j \in S : j <= highest
  <2>1. CASE S = {}
    BY <2>1
  <2>2. CASE S # {}
    <3>1. \E h \in S : \A j \in S : j <= h
      BY <2>2, CheatHighest
    <3>2. highest = CHOOSE h \in S : \A j \in S : j <= h
      BY <2>2
    <3>3. highest \in S /\ \A j \in S : j <= highest
      BY <3>1, <3>2, Zenon
    <3> HIDE DEF highest
    <3>4. QED  BY <3>3
  <2>3. QED  BY <2>1, <2>2
<1> HIDE DEF highest
<1>3. PICK d, k \in Nat :
        /\ d = i \div DigitBits /\ k = i % DigitBits
        /\ i = d * DigitBits + k /\ k < DigitBits
  BY CheatsAssumption
<1>4. PICK m \in Nat : m = digits /\ \A j \in S : j \div DigitBits < m
  <2>1. CASE highest < 0
    BY <1>2, <2>1
  <2>2. CASE highest >= 0
    <3>1. highest \div DigitBits \in Nat
      BY <1>2, <2>2, CheatsAssumption
    <3>2. ASSUME NEW j \in S PROVE j \div DigitBits <= highest \div DigitBits
      <4>1. j \in Nat /\ j <= highest
        BY <1>2
      <4>2. QED  BY <1>2, <4>1, CheatsAssumption
    <3>3. \A j \in S : j \div DigitBits \in Int
      BY CheatsAssumption
    <3>4. QED  BY <1>2, <2>2, <3>1, <3>2, <3>3
  <2>3. QED  BY <1>2, <2>1, <2>2
<1> HIDE DEF digits
<1>5. Len(Cheats!Encode(S)) = m
  BY <1>1, <1>4
<1>6. CASE d < m
  <2>1. d + 1 \in 1 .. digits /\ d + 1 - 1 = d
    BY <1>4, <1>6
  <2>2. Cheats!Encode(S)[d + 1] = Bit(d, 0) + Bit(d, 1) + Bit(d, 2) + Bit(d, 3)
    BY <1>1, <2>1
  <2>3. PICK b0 \in {0, 1}, b1 \in {0, 2}, b2 \in {0, 4}, b3 \in {0, 8} :
          /\ b0 = Bit(d, 0) /\ b1 = Bit(d, 1) /\ b2 = Bit(d, 2) /\ b3 = Bit(d, 3)
          /\ b0 = 1 <=> 0 < DigitBits /\ d * DigitBits + 0 \in S
          /\ b1 = 2 <=> 1 < DigitBits /\ d * DigitBits + 1 \in S
          /\ b2 = 4 <=> 2 < DigitBits /\ d * DigitBits + 2 \in S
          /\ b3 = 8 <=> 3 < DigitBits /\ d * DigitBits + 3 \in S
    BY DEF Cheats!Pow2
  <2> HIDE DEF Bit
  <2>4. Cheats!ListContains(Cheats!Encode(S),
          i) <=> ((b0 + b1 + b2 + b3) \div Cheats!Pow2(k)) % 2 = 1
    BY <1>3, <1>5, <1>6, <2>2, <2>3 DEF Cheats!ListContains
  <2>5. k \in {0, 1, 2, 3}
    BY <1>3, CheatsAssumption
  <2>6. ((b0 + b1 + b2 + b3) \div Cheats!Pow2(k)) % 2 = 1 <=> d * DigitBits + k \in S
    BY <1>3, <2>3, <2>5, CheatBits
  <2>7. QED  BY <1>3, <2>4, <2>6
<1>7. CASE ~(d < m)
  BY <1>3, <1>4, <1>5, <1>7 DEF Cheats!ListContains
<1>8. QED  BY <1>6, <1>7

--------------------------------------------------------------------------------
(* The core's cheats as the page lists them: c of the database, the rest the    *)
(* user's.                                                                      *)
CheatEntry(flags, own, c, k) ==
  IF k <= c THEN [custom |-> FALSE, index |-> k - 1, name |-> "none", on |-> flags[k]]
  ELSE [custom |-> TRUE, index |-> k - c - 1, name |-> own[k - c].name, on |-> own[k - c].on]

CheatList(flags, own, c, t) == [k \in 1 .. t |-> CheatEntry(flags, own, c, k)]

LEMMA CheatListed ==
  ASSUME NEW flags \in Seq(BOOLEAN), NEW own \in Seq(Cheats!Cheat)
  PROVE  \E c, t \in Nat :
           /\ c = Cheats!Low(Len(flags), CheatsListed) /\ c <= Len(flags)
           /\ c <= CheatsListed /\ c <= t
           /\ t = Cheats!Low(c + Cheats!Low(Len(own), CheatsListed), CheatsListed)
           /\ t - c <= Len(own)
           /\ Cheats!Listed(flags, own) = CheatList(flags, own, c, t)
<1>1. PICK f \in Nat : f = Len(flags)
  OBVIOUS
<1>2. PICK o \in Nat : o = Len(own)
  OBVIOUS
<1>3. PICK c \in Nat : c = Cheats!Low(f, CheatsListed) /\ c <= f /\ c <= CheatsListed
  BY CheatsAssumption DEF Cheats!Low
<1>4. PICK r \in Nat : r = Cheats!Low(o, CheatsListed) /\ r <= o
  BY CheatsAssumption DEF Cheats!Low
<1>5. PICK t \in Nat : t = Cheats!Low(c + r, CheatsListed) /\ t <= c + r /\ c <= t
  BY <1>3, CheatsAssumption DEF Cheats!Low
<1>6. t - c <= o
  BY <1>3, <1>4, <1>5
<1>7. Cheats!Listed(flags, own) = CheatList(flags, own, c, t)
  BY <1>1, <1>2, <1>3, <1>4, <1>5 DEF Cheats!Listed, CheatList, CheatEntry
<1>8. QED  BY <1>1, <1>2, <1>3, <1>4, <1>5, <1>6, <1>7

IsCheatEntry(flags, own, c, k, e) ==
  /\ e = [custom |-> e.custom, index |-> e.index, name |-> e.name, on |-> e.on]
  /\ e.custom \in BOOLEAN /\ e.on \in BOOLEAN
  /\ ~e.custom =>
       /\ k \in 1 .. c /\ e.index = k - 1 /\ e.index + 1 = k
       /\ e.name = "none" /\ e.on = flags[k]
  /\ e.custom =>
       /\ k - c \in 1 .. Len(own) /\ k > c
       /\ e.index = k - c - 1 /\ e.index + 1 = k - c
       /\ own[k - c] = [name |-> e.name, on |-> e.on] /\ own[k - c] \in Cheats!Cheat

LEMMA CheatEntries ==
  ASSUME NEW flags \in Seq(BOOLEAN), NEW own \in Seq(Cheats!Cheat), NEW c \in Nat,
         NEW t \in Nat,
         c <= Len(flags), t - c <= Len(own), NEW copies,
         copies = CheatList(flags, own, c, t)
  PROVE  /\ DOMAIN copies = 1 .. t
         /\ \A k \in DOMAIN copies : IsCheatEntry(flags, own, c, k, copies[k])
<1>1. DOMAIN copies = 1 .. t
  BY DEF CheatList
<1>2. ASSUME NEW k \in 1 .. t, k <= c
      PROVE  /\ k \in 1 .. c /\ k \in 1 .. Len(flags) /\ flags[k] \in BOOLEAN
             /\ copies[k] = [custom |-> FALSE, index |-> k - 1, name |-> "none", on |-> flags[k]]
  <2>1. PICK f \in Nat : f = Len(flags)
    OBVIOUS
  <2>2. k \in 1 .. c /\ k \in 1 .. f
    BY <1>2, <2>1
  <2>3. QED  BY <1>2, <2>1, <2>2 DEF CheatList, CheatEntry
<1>3. ASSUME NEW k \in 1 .. t, ~(k <= c)
      PROVE  /\ k - c \in 1 .. Len(own) /\ k > c /\ own[k - c] \in Cheats!Cheat
             /\ copies[k] = [custom |-> TRUE, index |-> k - c - 1, name |-> own[k - c].name,
                            on |-> own[k - c].on]
  <2>1. PICK o \in Nat : o = Len(own)
    OBVIOUS
  <2>2. k > c /\ k - c \in 1 .. o
    BY <1>3, <2>1
  <2>3. own[k - c] \in Cheats!Cheat
    BY <2>1, <2>2
  <2>4. QED  BY <1>3, <2>1, <2>2, <2>3 DEF CheatList, CheatEntry
<1>4. ASSUME NEW k \in 1 .. t, k <= c
      PROVE  LET e == copies[k]
             IN  /\ e = [custom |-> e.custom, index |-> e.index, name |-> e.name, on |-> e.on]
                 /\ e.custom = FALSE /\ e.on \in BOOLEAN
                 /\ k \in 1 .. c /\ e.index = k - 1 /\ e.index + 1 = k
                 /\ e.name = "none" /\ e.on = flags[k]
  <2>1. PICK e : e = copies[k]
    OBVIOUS
  <2>2. e = [custom |-> FALSE, index |-> k - 1, name |-> "none", on |-> flags[k]]
    BY <1>2, <1>4, <2>1
  <2>3. k - 1 + 1 = k
    OBVIOUS
  <2>4. QED  BY <1>2, <1>4, <2>1, <2>2, <2>3
<1>5. ASSUME NEW k \in 1 .. t, ~(k <= c)
      PROVE  LET e == copies[k]
             IN  /\ e = [custom |-> e.custom, index |-> e.index, name |-> e.name, on |-> e.on]
                 /\ e.custom = TRUE /\ e.on \in BOOLEAN
                 /\ k - c \in 1 .. Len(own) /\ k > c
                 /\ e.index = k - c - 1 /\ e.index + 1 = k - c
                 /\ own[k - c] = [name |-> e.name, on |-> e.on]
                 /\ own[k - c] \in Cheats!Cheat
  <2>1. PICK x : x = own[k - c]
    OBVIOUS
  <2>2. x \in Cheats!Cheat /\ x.on \in BOOLEAN /\ x = [name |-> x.name, on |-> x.on]
    BY <1>3, <1>5, <2>1 DEF Cheats!Cheat
  <2>3. PICK e : e = copies[k]
    OBVIOUS
  <2>4. e = [custom |-> TRUE, index |-> k - c - 1, name |-> x.name, on |-> x.on]
    BY <1>3, <1>5, <2>1, <2>3
  <2>5. k - c - 1 + 1 = k - c
    OBVIOUS
  <2>6. QED  BY <1>3, <1>5, <2>1, <2>2, <2>3, <2>4, <2>5
<1>6. QED  BY <1>1, <1>4, <1>5 DEF IsCheatEntry

--------------------------------------------------------------------------------
(* A step that leaves the core told and the list fresh keeps all of it.         *)
LEMMA CheatsKept ==
  ASSUME cDb' \in Seq(BOOLEAN), cCustom' \in Seq(Cheats!Cheat), cApplied' \in BOOLEAN,
         cOpen' \in BOOLEAN,
         cRunning' = <<cDb', cCustom'>>,
         cList' \in {Cheats!Listed(cDb', cCustom'), <<>>}, ~cApplied' => cList' = <<>>,
         cApplied' /\ cSaved' # Cheats!Absent =>
           \A i \in 0 .. Cheats!Low(Len(cDb'), CheatsListed) - 1 :
                 cDb'[i + 1] <=> Cheats!ListContains(cSaved', i)
  PROVE  Cheats!IInv'
<1>1. Cheats!TypeOK'
  BY DEF Cheats!TypeOK
<1>2. (cRunning = Cheats!Running)' /\ Cheats!ListIsFresh'
  BY DEF Cheats!Running, Cheats!ListIsFresh
<1>3. ASSUME NEW k \in DOMAIN cList'
      PROVE  LET e == cList'[k]
             IN  IF e.custom
                 THEN /\ e.index + 1 \in DOMAIN cCustom'
                      /\ cCustom'[e.index + 1] = [name |-> e.name, on |-> e.on]
                 ELSE cDb'[e.index + 1] = e.on
  <2>1. cList' = Cheats!Listed(cDb', cCustom')
    BY <1>3
  <2>2. PICK flags, own : flags = cDb' /\ own = cCustom'
    OBVIOUS
  <2>3. flags \in Seq(BOOLEAN) /\ own \in Seq(Cheats!Cheat)
    BY <2>2
  <2>4. PICK c \in Nat, t \in Nat :
          /\ c <= Len(flags) /\ t - c <= Len(own)
          /\ Cheats!Listed(flags, own) = CheatList(flags, own, c, t)
    BY <2>3, CheatListed
  <2>5. PICK copies : copies = cList'
    OBVIOUS
  <2>6. \A j \in DOMAIN copies : IsCheatEntry(flags, own, c, j, copies[j])
    <3>1. copies = Cheats!Listed(flags, own)
      BY <2>1, <2>2, <2>5
    <3>2. copies = CheatList(flags, own, c, t)
      BY <2>4, <3>1
    <3>3. QED  BY <2>3, <2>4, <3>2, CheatEntries
  <2>7. PICK e : e = cList'[k]
    OBVIOUS
  <2>8. /\ e.custom \in BOOLEAN
        /\ ~e.custom => e.index + 1 = k /\ e.on = flags[k]
        /\ e.custom =>
             /\ k - c \in 1 .. Len(own) /\ e.index + 1 = k - c
             /\ own[k - c] = [name |-> e.name, on |-> e.on]
    BY <1>3, <2>5, <2>6, <2>7 DEF IsCheatEntry
  <2>9. DOMAIN own = 1 .. Len(own)
    BY <2>3
  <2>10. QED  BY <2>2, <2>7, <2>8, <2>9
<1>4. Cheats!SavedCheatsMatch'
  BY <1>2, <1>3 DEF Cheats!SavedCheatsMatch, Cheats!On, Cheats!Count, Cheats!Running
<1>5. QED  BY <1>1, <1>2, <1>4 DEF Cheats!IInv

(* What the saved numbers make of the database's cheats.                        *)
LEMMA CheatsApplied ==
  ASSUME Cheats!IInv
  PROVE  /\ Cheats!AppliedTo(cDb) \in Seq(BOOLEAN)
         /\ cSaved # Cheats!Absent =>
              \A i \in 0 .. Cheats!Low(Len(Cheats!AppliedTo(cDb)), CheatsListed) - 1 :
                Cheats!AppliedTo(cDb)[i + 1] <=> Cheats!ListContains(cSaved, i)
         /\ cApplied \/ cSaved = Cheats!Absent => Cheats!AppliedTo(cDb) = cDb
<1>1. cDb \in Seq(BOOLEAN)
  BY DEF Cheats!IInv, Cheats!TypeOK
<1>2. CASE cApplied \/ cSaved = Cheats!Absent
  <2>1. Cheats!AppliedTo(cDb) = cDb
    BY <1>2 DEF Cheats!AppliedTo
  <2>2. cApplied /\ cSaved # Cheats!Absent =>
          \A i \in 0 .. Cheats!Low(Len(cDb), CheatsListed) - 1 :
                cDb[i + 1] <=> Cheats!ListContains(cSaved, i)
    BY DEF Cheats!IInv, Cheats!SavedCheatsMatch, Cheats!On, Cheats!Count
  <2>3. QED  BY <1>1, <1>2, <2>1, <2>2
<1>3. CASE ~(cApplied \/ cSaved = Cheats!Absent)
  <2>1. PICK n \in Nat : n = Len(cDb) /\ DOMAIN cDb = 1 .. n
    BY <1>1
  <2>2. Cheats!AppliedTo(cDb) =
          [i \in 1 .. n |-> IF i <= CheatsListed THEN Cheats!ListContains(cSaved,
          i - 1) ELSE cDb[i]]
    BY <1>3, <2>1 DEF Cheats!AppliedTo
  <2>3. ASSUME NEW i \in 1 .. n PROVE Cheats!AppliedTo(cDb)[i] \in BOOLEAN
    <3>1. PICK b \in BOOLEAN : b = Cheats!ListContains(cSaved, i - 1)
      BY DEF Cheats!ListContains
    <3>2. cDb[i] \in BOOLEAN
      BY <1>1, <2>1
    <3>3. QED  BY <2>2, <3>1, <3>2
  <2>4. Cheats!AppliedTo(cDb) \in Seq(BOOLEAN) /\ Len(Cheats!AppliedTo(cDb)) = n
    <3>1. Cheats!AppliedTo(cDb) \in [1 .. n -> BOOLEAN]
      BY <2>2, <2>3
    <3>2. QED  BY <3>1
  <2>5. ASSUME NEW i \in 0 .. Cheats!Low(n, CheatsListed) - 1
        PROVE  Cheats!AppliedTo(cDb)[i + 1] <=> Cheats!ListContains(cSaved, i)
    <3>1. i + 1 \in 1 .. n /\ i + 1 <= CheatsListed /\ i + 1 - 1 = i
      BY CheatsAssumption DEF Cheats!Low
    <3>2. QED  BY <2>2, <3>1
  <2>6. QED  BY <1>3, <2>4, <2>5
<1>4. QED  BY <1>2, <1>3

LEMMA CheatsRefreshed ==
  ASSUME Cheats!IInv, NEW own, Cheats!Refresh(own), cSaved' = cSaved
  PROVE  /\ cDb' \in Seq(BOOLEAN) /\ cApplied' = TRUE
         /\ cList' \in {Cheats!Listed(cDb', own), <<>>}
         /\ cSaved' # Cheats!Absent =>
              \A i \in 0 .. Cheats!Low(Len(cDb'), CheatsListed) - 1 :
                    cDb'[i + 1] <=> Cheats!ListContains(cSaved', i)
         /\ cApplied \/ cSaved = Cheats!Absent => cDb' = cDb
  BY CheatsApplied DEF Cheats!Refresh

--------------------------------------------------------------------------------
(* What toggling entry k makes of the list.                                     *)
LEMMA CheatTurned ==
  ASSUME NEW e, NEW p, NEW x, NEW y, NEW a, NEW b,
         e = [custom |-> p, index |-> x, name |-> y, on |-> a]
  PROVE  [e EXCEPT !.on = b] = [custom |-> p, index |-> x, name |-> y, on |-> b]
  OBVIOUS

(* A toggled cheat of the user's: its entry is as the core now has it.          *)
LEMMA CheatsToggleOwn ==
  ASSUME Cheats!IInv, NEW k \in DOMAIN cList, Cheats!Toggle(k), cList[k].custom
  PROVE  Cheats!IInv'
<1>1. /\ cDb \in Seq(BOOLEAN) /\ cCustom \in Seq(Cheats!Cheat)
      /\ cList = Cheats!Listed(cDb, cCustom)
  BY DEF Cheats!IInv, Cheats!TypeOK, Cheats!ListIsFresh
<1>2. PICK c \in Nat, t \in Nat :
        /\ c = Cheats!Low(Len(cDb), CheatsListed) /\ c <= Len(cDb) /\ t - c <= Len(cCustom)
        /\ t = Cheats!Low(c + Cheats!Low(Len(cCustom), CheatsListed), CheatsListed)
        /\ cList = CheatList(cDb, cCustom, c, t)
  BY <1>1, CheatListed
<1>3. /\ DOMAIN cList = 1 .. t
      /\ \A j \in DOMAIN cList : IsCheatEntry(cDb, cCustom, c, j, cList[j])
  BY <1>1, <1>2, CheatEntries
<1>4. PICK i \in Nat, n \in Nat :
        /\ i = k - c /\ n = Len(cCustom) /\ i \in 1 .. n /\ k > c
        /\ cList[k].index + 1 = i /\ cList[k].on \in BOOLEAN
        /\ cCustom[i] = [name |-> cList[k].name, on |-> cList[k].on]
        /\ cCustom[i] \in Cheats!Cheat
        /\ cList[k] = [custom |-> TRUE, index |-> k - c - 1, name |-> cList[k].name,
                      on |-> cList[k].on]
  <2>1. PICK n \in Nat : n = Len(cCustom)
    BY <1>1
  <2>2. PICK e : e = cList[k]
    OBVIOUS
  <2>3. IsCheatEntry(cDb, cCustom, c, k, e) /\ e.custom = TRUE
    BY <1>3, <2>2 DEF IsCheatEntry
  <2>4. /\ k - c \in 1 .. n /\ k > c /\ e.index + 1 = k - c /\ e.on \in BOOLEAN
        /\ cCustom[k - c] = [name |-> e.name, on |-> e.on]
        /\ cCustom[k - c] \in Cheats!Cheat
        /\ e = [custom |-> TRUE, index |-> k - c - 1, name |-> e.name, on |-> e.on]
    BY <2>1, <2>3 DEF IsCheatEntry
  <2>5. QED  BY <2>1, <2>2, <2>4
<1>5. PICK new \in BOOLEAN :
        /\ new = ~cList[k].on
        /\ cCustom' = [cCustom EXCEPT ![i].on = new] /\ cList' = Cheats!Toggled(k, {})
        /\ UNCHANGED <<cDb, cSaved, cApplied, cOpen>> /\ cRunning' = <<cDb', cCustom'>>
  <2>1. ~Cheats!Exclusive(k)
    BY DEF Cheats!Exclusive
  <2>2. PICK new \in BOOLEAN : new = ~cList[k].on
    OBVIOUS
  <2>3. PICK entry : entry = [cList[k] EXCEPT !.on = ~@]
    OBVIOUS
  <2>4. entry.custom /\ entry.index = cList[k].index /\ entry.on = new
    BY <1>4, <2>2, <2>3
  <2>5. QED  BY <1>4, <2>1, <2>2, <2>3, <2>4 DEF Cheats!Toggle
<1>6. DOMAIN cCustom = 1 .. n
  BY <1>1, <1>4
<1>7. /\ DOMAIN cCustom' = 1 .. n
      /\ cCustom'[i] = [name |-> cList[k].name, on |-> new]
      /\ \A j \in 1 .. n : j # i => cCustom'[j] = cCustom[j]
      /\ cCustom'[i] \in Cheats!Cheat
  <2>1. PICK x : x = cCustom[i]
    OBVIOUS
  <2>2. x = [name |-> cList[k].name, on |-> cList[k].on] /\ x \in Cheats!Cheat
    BY <1>4, <2>1
  <2>3. cCustom' = [cCustom EXCEPT ![i] = [x EXCEPT !.on = new]]
    BY <1>5, <2>1
  <2>4. [x EXCEPT !.on = new] = [name |-> cList[k].name, on |-> new]
    BY <2>2
  <2>5. x.name \in CheatNames /\ x.name = cList[k].name
    BY <2>2 DEF Cheats!Cheat
  <2>6. [name |-> cList[k].name, on |-> new] \in Cheats!Cheat
    BY <2>5 DEF Cheats!Cheat
  <2>7. QED  BY <1>4, <1>6, <2>3, <2>4, <2>6
<1>8. cCustom' \in Seq(Cheats!Cheat) /\ Len(cCustom') = n
  <2>1. \A j \in 1 .. n : cCustom'[j] \in Cheats!Cheat
    BY <1>1, <1>4, <1>7
  <2>2. cCustom' = [j \in 1 .. n |-> cCustom'[j]]
    BY <1>5, <1>6
  <2>3. cCustom' \in [1 .. n -> Cheats!Cheat]
    BY <2>1, <2>2
  <2>4. QED  BY <2>3
<1>9. Cheats!Listed(cDb, cCustom') = CheatList(cDb, cCustom', c, t)
  BY <1>1, <1>2, <1>4, <1>8, CheatListed
<1>10. cList' = CheatList(cDb, cCustom', c, t)
  <2>1. \A j \in 1 .. t : Cheats!Toggled(k, {})[j] = CheatEntry(cDb, cCustom', c, j)
    <3>1. TAKE j \in 1 .. t
    <3>2. cList[j] = CheatEntry(cDb, cCustom, c, j)
      BY <1>2 DEF CheatList
    <3>3. CASE j = k
      <4>1. Cheats!Toggled(k, {})[j] = [cList[k] EXCEPT !.on = new]
        BY <1>3, <1>5, <3>3 DEF Cheats!Toggled
      <4>2. CheatEntry(cDb, cCustom', c, j) =
              [custom |-> TRUE, index |-> k - c - 1, name |-> cList[k].name, on |-> new]
        <5>1. ~(k <= c) /\ k - c = i
          BY <1>3, <1>4
        <5>2. PICK x : x = cCustom'[i]
          OBVIOUS
        <5>3. x.name = cList[k].name /\ x.on = new
          BY <1>7, <5>2
        <5>4. QED  BY <3>3, <5>1, <5>2, <5>3 DEF CheatEntry
      <4>3. PICK e : e = cList[k]
        OBVIOUS
      <4>4. [e EXCEPT !.on = new] = [custom |-> TRUE, index |-> k - c - 1, name |-> e.name,
              on |-> new]
        <5>1. PICK x, y, z : x = k - c - 1 /\ y = e.name /\ z = e.on
          OBVIOUS
        <5>2. e = [custom |-> TRUE, index |-> x, name |-> y, on |-> z]
          BY <1>4, <4>3, <5>1
        <5>3. PICK p, q : p = TRUE /\ q = new
          OBVIOUS
        <5>4. e = [custom |-> p, index |-> x, name |-> y, on |-> z]
          BY <5>2, <5>3
        <5>5. [e EXCEPT !.on = q] = [custom |-> p, index |-> x, name |-> y, on |-> q]
          BY <5>4, CheatTurned
        <5>6. QED  BY <5>1, <5>3, <5>5
      <4>5. QED  BY <4>1, <4>2, <4>3, <4>4
    <3>4. CASE j # k
      <4>1. Cheats!Toggled(k, {})[j] = cList[j]
        <5>1. PICK e : e = cList[j]
          OBVIOUS
        <5>2. IsCheatEntry(cDb, cCustom, c, j, e)
          BY <1>3, <5>1
        <5>3. [e EXCEPT !.on = @ /\ j \notin {}] = e
          BY <5>2 DEF IsCheatEntry
        <5>4. QED  BY <1>3, <3>4, <5>1, <5>3 DEF Cheats!Toggled
      <4>2. CASE j <= c
        <5>1. cList[j] = [custom |-> FALSE, index |-> j - 1, name |-> "none", on |-> cDb[j]]
          BY <3>2, <4>2 DEF CheatEntry
        <5>2. CheatEntry(cDb, cCustom', c, j) =
                [custom |-> FALSE, index |-> j - 1, name |-> "none", on |-> cDb[j]]
          BY <4>2 DEF CheatEntry
        <5>3. QED  BY <4>1, <5>1, <5>2, Zenon
      <4>3. CASE ~(j <= c)
        <5>1. j - c \in 1 .. n /\ j - c # i
          <6>1. t - c <= n /\ i = k - c /\ k \in Nat
            BY <1>2, <1>3, <1>4
          <6>2. QED  BY <3>4, <4>3, <6>1
        <5>2. cCustom'[j - c] = cCustom[j - c]
          BY <1>7, <5>1
        <5>3. cList[j] = [custom |-> TRUE, index |-> j - c - 1, name |-> cCustom[j - c].name,
                         on |-> cCustom[j - c].on]
          BY <3>2, <4>3 DEF CheatEntry
        <5>4. CheatEntry(cDb, cCustom', c, j) =
                [custom |-> TRUE, index |-> j - c - 1, name |-> cCustom'[j - c].name,
                 on |-> cCustom'[j - c].on]
          BY <4>3 DEF CheatEntry
        <5>5. QED  BY <4>1, <5>2, <5>3, <5>4
      <4>4. QED  BY <4>2, <4>3
    <3>5. QED  BY <3>3, <3>4
  <2>2. QED  BY <1>3, <1>5, <2>1 DEF Cheats!Toggled, CheatList
<1>11. cApplied' /\ cSaved' # Cheats!Absent =>
         \A j \in 0 .. Cheats!Low(Len(cDb'), CheatsListed) - 1 :
               cDb'[j + 1] <=> Cheats!ListContains(cSaved', j)
  BY <1>5 DEF Cheats!IInv, Cheats!SavedCheatsMatch, Cheats!On, Cheats!Count
<1>12. ~cApplied' => cList' = <<>>
  <2>1. cApplied
    BY <1>3 DEF Cheats!IInv, Cheats!ListIsFresh
  <2>2. QED  BY <1>5, <2>1
<1>13. cApplied' \in BOOLEAN /\ cOpen' \in BOOLEAN /\ cDb' \in Seq(BOOLEAN) /\ cDb' = cDb
  BY <1>5 DEF Cheats!IInv, Cheats!TypeOK
<1>14. QED
  BY <1>5, <1>8, <1>9, <1>10, <1>11, <1>12, <1>13, CheatsKept

(* A toggled cheat of the database: the others of its folder that went off are  *)
(* off in the core, in the list and in the saved numbers alike.                 *)
LEMMA CheatsToggleDb ==
  ASSUME Cheats!IInv, NEW k \in DOMAIN cList, Cheats!Toggle(k), ~cList[k].custom
  PROVE  Cheats!IInv'
<1>1. /\ cDb \in Seq(BOOLEAN) /\ cCustom \in Seq(Cheats!Cheat)
      /\ cList = Cheats!Listed(cDb, cCustom)
  BY DEF Cheats!IInv, Cheats!TypeOK, Cheats!ListIsFresh
<1>2. PICK c \in Nat, t \in Nat :
        /\ c = Cheats!Low(Len(cDb), CheatsListed) /\ c <= Len(cDb) /\ c <= CheatsListed
        /\ c <= t /\ t - c <= Len(cCustom)
        /\ t = Cheats!Low(c + Cheats!Low(Len(cCustom), CheatsListed), CheatsListed)
        /\ cList = CheatList(cDb, cCustom, c, t)
  BY <1>1, CheatListed
<1>3. /\ DOMAIN cList = 1 .. t
      /\ \A j \in DOMAIN cList : IsCheatEntry(cDb, cCustom, c, j, cList[j])
  BY <1>1, <1>2, CheatEntries
<1>4. PICK n \in Nat : n = Len(cDb) /\ DOMAIN cDb = 1 .. n /\ c <= n
  BY <1>1, <1>2
<1>5. k \in 1 .. c /\ cList[k].index + 1 = k /\ cList[k].on \in BOOLEAN
  BY <1>3 DEF IsCheatEntry
<1>6. PICK new \in BOOLEAN, off \in SUBSET (1 .. c) :
        /\ new = ~cList[k].on /\ k \notin off
        /\ \A j \in off : cList[j].index + 1 = j
        /\ cDb' = [i \in 1 .. n |-> IF i = k THEN new ELSE cDb[i] /\ i \notin off]
        /\ cList' = Cheats!Toggled(k, off) /\ cSaved' = Cheats!Persisted(cList')
        /\ UNCHANGED <<cCustom, cApplied, cOpen>> /\ cRunning' = <<cDb', cCustom'>>
  <2>1. PICK off : off = IF Cheats!Exclusive(k) THEN Cheats!Others(k) ELSE {}
    OBVIOUS
  <2>2. ASSUME NEW j \in off PROVE j \in 1 .. c /\ j # k /\ cList[j].index + 1 = j
    <3>1. j \in DOMAIN cList /\ j # k /\ ~cList[j].custom
      BY <2>1 DEF Cheats!Others
    <3>2. QED  BY <1>3, <3>1 DEF IsCheatEntry
  <2>3. PICK new \in BOOLEAN : new = ~cList[k].on
    OBVIOUS
  <2>4. PICK entry : entry = [cList[k] EXCEPT !.on = ~@]
    OBVIOUS
  <2>5. ~entry.custom /\ entry.index + 1 = k /\ entry.on = new
    <3>1. PICK e : e = cList[k]
      OBVIOUS
    <3>2. IsCheatEntry(cDb, cCustom, c, k, e) /\ ~e.custom
      BY <1>3, <3>1
    <3>3. entry.custom = e.custom /\ entry.index = e.index /\ entry.on = new
      BY <2>3, <2>4, <3>1, <3>2 DEF IsCheatEntry
    <3>4. QED  BY <1>5, <3>1, <3>2, <3>3
  <2>6. /\ cList' = Cheats!Toggled(k, off)
        /\ cDb' = [i \in DOMAIN cDb |->
                    IF i = entry.index + 1 THEN entry.on
                    ELSE cDb[i] /\ \A j \in off : cList[j].index + 1 # i]
        /\ cSaved' = Cheats!Persisted(cList')
        /\ UNCHANGED <<cCustom, cApplied, cOpen>> /\ cRunning' = <<cDb', cCustom'>>
    BY <2>1, <2>4, <2>5 DEF Cheats!Toggle
  <2>7. \A i \in 1 .. n : (\A j \in off : cList[j].index + 1 # i) <=> i \notin off
    BY <2>2
  <2>8. cDb' = [i \in 1 .. n |-> IF i = k THEN new ELSE cDb[i] /\ i \notin off]
    BY <1>4, <2>5, <2>6, <2>7
  <2>9. off \in SUBSET (1 .. c) /\ k \notin off
    BY <2>2
  <2>10. QED  BY <2>2, <2>3, <2>6, <2>8, <2>9
<1>7. /\ cDb' \in Seq(BOOLEAN) /\ Len(cDb') = n
      /\ \A i \in 1 .. n : i # k => cDb'[i] = (cDb[i] /\ i \notin off)
      /\ cDb'[k] = new
  <2>1. k \in 1 .. n
    BY <1>4, <1>5
  <2>2. ASSUME NEW i \in 1 .. n PROVE (IF i = k THEN new ELSE cDb[i] /\ i \notin off) \in BOOLEAN
    OBVIOUS
  <2>3. cDb' \in [1 .. n -> BOOLEAN]
    BY <1>6, <2>2
  <2>4. cDb' \in Seq(BOOLEAN) /\ Len(cDb') = n
    BY <2>3
  <2>5. cDb'[k] = new
    BY <1>6, <2>1
  <2>6. ASSUME NEW i \in 1 .. n, i # k PROVE cDb'[i] = (cDb[i] /\ i \notin off)
    BY <1>6, <2>6, Zenon
  <2>7. QED  BY <2>4, <2>5, <2>6
<1>8. cCustom' = cCustom /\ Cheats!Listed(cDb', cCustom') = CheatList(cDb', cCustom, c, t)
  <2>1. PICK flags : flags = cDb' /\ flags \in Seq(BOOLEAN) /\ Len(flags) = Len(cDb)
    BY <1>4, <1>7
  <2>2. Cheats!Listed(flags, cCustom) = CheatList(flags, cCustom, c, t)
    BY <1>1, <1>2, <2>1, CheatListed
  <2>3. QED  BY <1>6, <2>1, <2>2
<1>9. cList' = CheatList(cDb', cCustom, c, t)
  <2>1. \A j \in 1 .. t : Cheats!Toggled(k, off)[j] = CheatEntry(cDb', cCustom, c, j)
    <3>1. TAKE j \in 1 .. t
    <3>2. cList[j] = CheatEntry(cDb, cCustom, c, j)
      BY <1>2 DEF CheatList
    <3>3. PICK e : e = cList[j]
      OBVIOUS
    <3>4. IsCheatEntry(cDb, cCustom, c, j, e)
      BY <1>3, <3>3
    <3>5. CASE j = k
      <4>1. Cheats!Toggled(k, off)[j] = [e EXCEPT !.on = new]
        BY <1>3, <1>6, <3>3, <3>5 DEF Cheats!Toggled
      <4>2. e = [custom |-> FALSE, index |-> k - 1, name |-> "none", on |-> e.on]
        <5>1. ~e.custom /\ e.custom \in BOOLEAN
          BY <3>3, <3>4, <3>5 DEF IsCheatEntry
        <5>2. e.custom = FALSE /\ e.index = k - 1 /\ e.name = "none"
          BY <3>4, <3>5, <5>1 DEF IsCheatEntry
        <5>3. QED  BY <3>4, <5>2 DEF IsCheatEntry
      <4>3. CheatEntry(cDb', cCustom, c, j) =
              [custom |-> FALSE, index |-> k - 1, name |-> "none", on |-> new]
        <5>1. k <= c
          BY <1>5
        <5>2. CheatEntry(cDb', cCustom, c, j) =
                [custom |-> FALSE, index |-> k - 1, name |-> "none", on |-> cDb'[k]]
          BY <3>5, <5>1 DEF CheatEntry
        <5>3. QED  BY <1>7, <5>2, Zenon
      <4>4. [e EXCEPT !.on = new] = [custom |-> FALSE, index |-> k - 1, name |-> "none", on |-> new]
        <5>1. PICK x, z : x = k - 1 /\ z = e.on
          OBVIOUS
        <5>2. e = [custom |-> FALSE, index |-> x, name |-> "none", on |-> z]
          BY <4>2, <5>1
        <5>3. PICK p, q : p = FALSE /\ q = new
          OBVIOUS
        <5>4. e = [custom |-> p, index |-> x, name |-> "none", on |-> z]
          BY <5>2, <5>3
        <5>5. [e EXCEPT !.on = q] = [custom |-> p, index |-> x, name |-> "none", on |-> q]
          BY <5>4, CheatTurned
        <5>6. QED  BY <5>1, <5>3, <5>5
      <4>5. QED  BY <4>1, <4>3, <4>4
    <3>6. CASE j # k
      <4>1. Cheats!Toggled(k, off)[j] = [e EXCEPT !.on = @ /\ j \notin off]
        BY <1>3, <3>3, <3>6 DEF Cheats!Toggled
      <4>2. CASE j <= c
        <5>1. e = [custom |-> FALSE, index |-> j - 1, name |-> "none", on |-> cDb[j]]
          BY <3>2, <3>3, <4>2 DEF CheatEntry
        <5>2. j \in 1 .. n
          BY <1>4, <4>2
        <5>3. PICK b \in BOOLEAN : b = (cDb[j] /\ j \notin off)
          OBVIOUS
        <5>4. cDb'[j] = b
          BY <1>7, <3>6, <5>2, <5>3
        <5>5. Cheats!Toggled(k, off)[j] = [custom |-> FALSE, index |-> j - 1,
                name |-> "none", on |-> b]
          BY <4>1, <5>1, <5>3
        <5>6. CheatEntry(cDb', cCustom, c, j) =
                [custom |-> FALSE, index |-> j - 1, name |-> "none", on |-> cDb'[j]]
          BY <4>2 DEF CheatEntry
        <5>7. QED  BY <5>4, <5>5, <5>6
      <4>3. CASE ~(j <= c)
        <5>1. e = [custom |-> TRUE, index |-> j - c - 1, name |-> cCustom[j - c].name,
                   on |-> cCustom[j - c].on]
          BY <3>2, <3>3, <4>3 DEF CheatEntry
        <5>2. j \notin off
          BY <1>6, <4>3
        <5>3. [e EXCEPT !.on = @ /\ j \notin off] = e
          BY <3>4, <5>2 DEF IsCheatEntry
        <5>4. CheatEntry(cDb', cCustom, c, j) =
                [custom |-> TRUE, index |-> j - c - 1, name |-> cCustom[j - c].name,
                 on |-> cCustom[j - c].on]
          BY <4>3 DEF CheatEntry
        <5>5. QED  BY <4>1, <5>1, <5>3, <5>4
      <4>4. QED  BY <4>2, <4>3
    <3>7. QED  BY <3>5, <3>6
  <2>2. QED  BY <1>3, <1>6, <2>1 DEF Cheats!Toggled, CheatList
<1>10. PICK S \in SUBSET (0 .. CheatsListed - 1) :
         /\ cSaved' = Cheats!Encode(S)
         /\ \A i \in 0 .. c - 1 : i \in S <=> cDb'[i + 1]
  <2>1. PICK copies : copies = cList'
    OBVIOUS
  <2>2. PICK flags : flags = cDb'
    OBVIOUS
  <2>3. /\ copies = CheatList(flags, cCustom, c, t) /\ flags \in Seq(BOOLEAN)
        /\ c <= Len(flags)
    BY <1>4, <1>7, <1>9, <2>1, <2>2
  <2>4. /\ DOMAIN copies = 1 .. t
        /\ \A j \in DOMAIN copies : IsCheatEntry(flags, cCustom, c, j, copies[j])
    BY <1>1, <1>2, <2>3, CheatEntries
  <2>5. PICK S : S = {copies[j].index : j \in {j \in DOMAIN copies : ~copies[j].custom /\
          copies[j].on}}
    OBVIOUS
  <2>6. cSaved' = Cheats!Encode(S)
    BY <1>6, <2>1, <2>5 DEF Cheats!Persisted
  <2>7. ASSUME NEW x \in S PROVE x \in 0 .. CheatsListed - 1 /\ flags[x + 1]
    <3>1. PICK j \in DOMAIN copies : ~copies[j].custom /\ copies[j].on /\ x = copies[j].index
      BY <2>5
    <3>2. j \in 1 .. c /\ x = j - 1 /\ x + 1 = j /\ flags[j]
      BY <2>4, <3>1 DEF IsCheatEntry
    <3>3. QED  BY <1>2, <3>2, CheatsAssumption
  <2>8. ASSUME NEW i \in 0 .. c - 1, flags[i + 1] PROVE i \in S
    <3>1. PICK j \in Nat : j = i + 1 /\ j <= c /\ j \in 1 .. t /\ j - 1 = i
      BY <1>2
    <3>2. copies[j] = CheatEntry(flags, cCustom, c, j)
      BY <2>3, <3>1 DEF CheatList
    <3>3. CheatEntry(flags, cCustom, c, j) =
            [custom |-> FALSE, index |-> i, name |-> "none", on |-> flags[j]]
      BY <3>1 DEF CheatEntry
    <3>4. ~copies[j].custom /\ copies[j].on /\ copies[j].index = i
      BY <2>8, <3>1, <3>2, <3>3
    <3>5. QED  BY <2>4, <2>5, <3>1, <3>4
  <2>9. QED  BY <2>2, <2>6, <2>7, <2>8
<1>11. cApplied' /\ cSaved' # Cheats!Absent =>
         \A i \in 0 .. Cheats!Low(Len(cDb'), CheatsListed) - 1 :
               cDb'[i + 1] <=> Cheats!ListContains(cSaved', i)
  <2>1. Cheats!Low(Len(cDb'), CheatsListed) = c
    <3>1. Cheats!Low(n, CheatsListed) = c
      BY <1>2, <1>4
    <3>2. QED  BY <1>7, <3>1
  <2>2. ASSUME NEW i \in 0 .. c - 1 PROVE cDb'[i + 1] <=> Cheats!ListContains(cSaved', i)
    <3>1. i \in Nat /\ CheatsListed \in Nat
      BY CheatsAssumption
    <3>2. Cheats!ListContains(Cheats!Encode(S), i) <=> i \in S
      BY <3>1, CheatFound
    <3>3. QED  BY <1>10, <3>2
  <2>3. QED  BY <2>1, <2>2
<1>12. ~cApplied' => cList' = <<>>
  <2>1. cApplied
    BY <1>3 DEF Cheats!IInv, Cheats!ListIsFresh
  <2>2. QED  BY <1>6, <2>1
<1>13. cApplied' \in BOOLEAN /\ cOpen' \in BOOLEAN
  BY <1>6 DEF Cheats!IInv, Cheats!TypeOK
<1>14. QED
  BY <1>1, <1>6, <1>7, <1>8, <1>9, <1>11, <1>12, <1>13, CheatsKept

(* A toggled entry is one of the two.                                           *)
LEMMA CheatsToggled ==
  ASSUME Cheats!IInv, NEW k \in DOMAIN cList, Cheats!Toggle(k) PROVE Cheats!IInv'
  BY CheatsToggleOwn, CheatsToggleDb

--------------------------------------------------------------------------------
(* A cheat the user deletes leaves a sequence of cheats.                        *)
LEMMA CheatsRemoved ==
  ASSUME Cheats!IInv, NEW k \in DOMAIN cList,
         Cheats!RemoveCustom(k) PROVE cCustom' \in Seq(Cheats!Cheat)
<1>1. /\ cDb \in Seq(BOOLEAN) /\ cCustom \in Seq(Cheats!Cheat)
      /\ cList = Cheats!Listed(cDb, cCustom)
  BY DEF Cheats!IInv, Cheats!TypeOK, Cheats!ListIsFresh
<1>2. PICK c \in Nat, t \in Nat :
        /\ c <= Len(cDb) /\ t - c <= Len(cCustom)
        /\ cList = CheatList(cDb, cCustom, c, t)
  BY <1>1, CheatListed
<1>3. IsCheatEntry(cDb, cCustom, c, k, cList[k])
  BY <1>1, <1>2, CheatEntries
<1>4. PICK i \in Nat, n \in Nat :
        i = cList[k].index + 1 /\ n = Len(cCustom) /\ i \in 1 .. n
  <2>1. PICK e : e = cList[k]
    OBVIOUS
  <2>2. IsCheatEntry(cDb, cCustom, c, k, e) /\ e.custom
    BY <1>3, <2>1 DEF Cheats!RemoveCustom
  <2>3. PICK n \in Nat : n = Len(cCustom)
    BY <1>1
  <2>4. k - c \in 1 .. n /\ e.index + 1 = k - c
    BY <2>2, <2>3 DEF IsCheatEntry
  <2>5. QED  BY <2>1, <2>3, <2>4
<1>5. cCustom' = SubSeq(cCustom, 1, i - 1) \o SubSeq(cCustom, i + 1, n)
  BY <1>4 DEF Cheats!RemoveCustom, Cheats!RemoveAt
<1>6. SubSeq(cCustom, 1, i - 1) \in Seq(Cheats!Cheat)
  BY <1>1, <1>4
<1>7. SubSeq(cCustom, i + 1, n) \in Seq(Cheats!Cheat)
  BY <1>1, <1>4
<1>8. QED  BY <1>5, <1>6, <1>7

LEMMA CheatsInit == Cheats!Init => Cheats!IInv
<1> SUFFICES ASSUME Cheats!Init PROVE Cheats!IInv
  OBVIOUS
<1>1. PICK n \in Nat : cDb \in [1 .. n -> BOOLEAN]
  BY CheatsAssumption DEF Cheats!Init
<1>2. cDb \in Seq(BOOLEAN)
  BY <1>1
<1>3. cCustom \in Seq(Cheats!Cheat)
  <2>1. <<>> \in Seq(Cheats!Cheat)
    OBVIOUS
  <2>2. QED  BY <2>1 DEF Cheats!Init
<1>4. QED
  BY <1>2, <1>3
     DEF Cheats!Init, Cheats!IInv, Cheats!TypeOK, Cheats!ListIsFresh,
         Cheats!SavedCheatsMatch, Cheats!Running

LEMMA CheatsStep == Cheats!IInv /\ Cheats!Next => Cheats!IInv'
<1> SUFFICES ASSUME Cheats!IInv, Cheats!Next PROVE Cheats!IInv'
  OBVIOUS
<1>1. /\ cDb \in Seq(BOOLEAN) /\ cCustom \in Seq(Cheats!Cheat) /\ cApplied \in BOOLEAN
      /\ cOpen \in BOOLEAN
      /\ cRunning = <<cDb, cCustom>> /\ cList \in {Cheats!Listed(cDb, cCustom), <<>>}
      /\ ~cApplied => cList = <<>>
      /\ cApplied /\ cSaved # Cheats!Absent =>
           \A i \in 0 .. Cheats!Low(Len(cDb), CheatsListed) - 1 :
                 cDb[i + 1] <=> Cheats!ListContains(cSaved, i)
  BY DEF Cheats!IInv, Cheats!TypeOK, Cheats!ListIsFresh, Cheats!Running,
         Cheats!SavedCheatsMatch, Cheats!On, Cheats!Count
<1>2. CASE Cheats!NextSession
  <2>1. PICK n \in Nat : cDb' \in [1 .. n -> BOOLEAN]
    BY <1>2, CheatsAssumption DEF Cheats!NextSession
  <2>2. cDb' \in Seq(BOOLEAN)
    BY <2>1
  <2>3. QED  BY <1>1, <1>2, <2>2, CheatsKept DEF Cheats!NextSession
<1>3. CASE Cheats!FirstFrame
  <2>1. cList = <<>> /\ cList' = <<>>
    BY <1>1, <1>3 DEF Cheats!FirstFrame
  <2>2. /\ cDb' = Cheats!AppliedTo(cDb) /\ cApplied' = TRUE
        /\ UNCHANGED <<cCustom, cSaved, cOpen, cList>>
    BY <1>3 DEF Cheats!FirstFrame
  <2>3. cRunning' = <<cDb', cCustom'>>
    BY <1>1, <1>3, <2>2, CheatsApplied DEF Cheats!FirstFrame
  <2>4. /\ cDb' \in Seq(BOOLEAN)
        /\ cSaved' # Cheats!Absent =>
             \A i \in 0 .. Cheats!Low(Len(cDb'), CheatsListed) - 1 :
                   cDb'[i + 1] <=> Cheats!ListContains(cSaved', i)
    BY <2>2, CheatsApplied
  <2>5. QED  BY <1>1, <2>1, <2>2, <2>3, <2>4, CheatsKept
<1>4. CASE Cheats!OpenPage
  <2>1. cSaved' = cSaved /\ cCustom' = cCustom /\ Cheats!Refresh(cCustom) /\ cOpen' = TRUE
    BY <1>4 DEF Cheats!OpenPage
  <2>2. /\ cDb' \in Seq(BOOLEAN) /\ cApplied' = TRUE
        /\ cList' \in {Cheats!Listed(cDb', cCustom), <<>>}
        /\ cSaved' # Cheats!Absent =>
             \A i \in 0 .. Cheats!Low(Len(cDb'), CheatsListed) - 1 :
                   cDb'[i + 1] <=> Cheats!ListContains(cSaved', i)
        /\ cApplied \/ cSaved = Cheats!Absent => cDb' = cDb
    BY <2>1, CheatsRefreshed
  <2>3. cRunning' = <<cDb', cCustom'>>
    BY <1>1, <1>4, <2>1, <2>2 DEF Cheats!OpenPage
  <2>4. QED  BY <1>1, <2>1, <2>2, <2>3, CheatsKept
<1>5. CASE Cheats!LeavePage
  <2>1. cOpen' = FALSE /\ UNCHANGED <<cDb, cCustom, cRunning, cSaved, cApplied, cList>>
    BY <1>5 DEF Cheats!LeavePage
  <2>2. QED  BY <1>1, <2>1, CheatsKept
<1>6. CASE Cheats!AddCustom
  <2>1. /\ cSaved' = cSaved /\ cOpen' = cOpen /\ Cheats!Refresh(cCustom')
        /\ cRunning' = <<cDb', cCustom'>>
    BY <1>6 DEF Cheats!AddCustom
  <2>2. cCustom' \in Seq(Cheats!Cheat)
    <3>1. PICK name \in CheatNames :
            cCustom' = cCustom \/ cCustom' = Append(cCustom, [name |-> name, on |-> TRUE])
      BY <1>6 DEF Cheats!AddCustom
    <3>2. [name |-> name, on |-> TRUE] \in Cheats!Cheat
      BY DEF Cheats!Cheat
    <3>3. PICK one : one = [name |-> name, on |-> TRUE]
      OBVIOUS
    <3>4. Append(cCustom, one) \in Seq(Cheats!Cheat)
      BY <1>1, <3>2, <3>3
    <3>5. QED  BY <1>1, <3>1, <3>3, <3>4
  <2>3. /\ cDb' \in Seq(BOOLEAN) /\ cApplied' = TRUE
        /\ cList' \in {Cheats!Listed(cDb', cCustom'), <<>>}
        /\ cSaved' # Cheats!Absent =>
             \A i \in 0 .. Cheats!Low(Len(cDb'), CheatsListed) - 1 :
                   cDb'[i + 1] <=> Cheats!ListContains(cSaved', i)
    BY <2>1, CheatsRefreshed
  <2>4. QED  BY <1>1, <2>1, <2>2, <2>3, CheatsKept
<1>7. ASSUME NEW k \in DOMAIN cList, Cheats!Toggle(k) PROVE Cheats!IInv'
  BY <1>7, CheatsToggled
<1>8. ASSUME NEW k \in DOMAIN cList, Cheats!RemoveCustom(k) PROVE Cheats!IInv'
  <2>1. /\ cSaved' = cSaved /\ cOpen' = cOpen /\ Cheats!Refresh(cCustom')
        /\ cRunning' = <<cDb', cCustom'>>
    BY <1>8 DEF Cheats!RemoveCustom
  <2>2. cCustom' \in Seq(Cheats!Cheat)
    BY <1>8, CheatsRemoved
  <2>3. /\ cDb' \in Seq(BOOLEAN) /\ cApplied' = TRUE
        /\ cList' \in {Cheats!Listed(cDb', cCustom'), <<>>}
        /\ cSaved' # Cheats!Absent =>
             \A i \in 0 .. Cheats!Low(Len(cDb'), CheatsListed) - 1 :
                   cDb'[i + 1] <=> Cheats!ListContains(cSaved', i)
    BY <2>1, CheatsRefreshed
  <2>4. QED  BY <1>1, <2>1, <2>2, <2>3, CheatsKept
<1>9. QED  BY <1>2, <1>3, <1>4, <1>5, <1>6, <1>7, <1>8 DEF Cheats!Next

LEMMA CheatsStutter == Cheats!IInv /\ UNCHANGED Cheats!vars => Cheats!IInv'
  BY DEF Cheats!IInv, Cheats!vars, Cheats!TypeOK, Cheats!Running, Cheats!ListIsFresh,
         Cheats!SavedCheatsMatch, Cheats!On, Cheats!Count

LEMMA CheatsSafe == Cheats!IInv => Cheats!SavedCheatsMatch
  BY DEF Cheats!IInv

HIDE DEF cDb, cCustom, cRunning, cSaved, cApplied, cOpen, cList

--------------------------------------------------------------------------------
(* Pointers: pointing means what is seen, however the screens lie.            *)

lConfig == v1
lScreens == v2
lMenu == v3
lRuntime == v5
lShown == v6
lStylus == v7

USE DEF lConfig, lScreens, lMenu, lRuntime, lShown, lStylus

(* Quotients: the whole part, and comparing multiples.                         *)
LEMMA PtrDivision ==
  ASSUME NEW a \in Int, NEW b \in Nat \ {0}
  PROVE  \E q, r \in Int : q = a \div b /\ r = a % b /\ a = b * q + r /\ 0 <= r /\ r < b
  OBVIOUS

LEMMA PtrCancel ==
  ASSUME NEW a \in Int, NEW b \in Int, NEW m \in Int, 0 < m, a * m < b * m
  PROVE  a < b
<1>1. CASE a < b
  BY <1>1
<1>2. CASE ~(a < b)
  <2>1. PICK d \in Nat : a = b + d
    BY <1>2
  <2>2. a * m = b * m + d * m
    BY <2>1
  <2>3. d * m >= 0
    OBVIOUS
  <2>4. PICK x, y, z \in Int : x = a * m /\ y = b * m /\ z = d * m
    OBVIOUS
  <2>5. QED  BY <2>2, <2>3, <2>4
<1>3. QED  BY <1>1, <1>2

LEMMA PtrScale ==
  ASSUME NEW a \in Int, NEW b \in Int, NEW m \in Nat, a <= b
  PROVE  a * m <= b * m
<1>1. PICK d \in Nat : b = a + d
  OBVIOUS
<1>2. b * m = a * m + d * m /\ d * m >= 0
  BY <1>1
<1>3. PICK x, y, z \in Int : x = a * m /\ y = b * m /\ z = d * m
  OBVIOUS
<1>4. QED  BY <1>2, <1>3

(* The places within a screen are exact: a pixel's corners are multiples of     *)
(* one unit, and the cursor's of another, one larger.                           *)
LEMMA PtrPixels ==
  ASSUME NEW axis \in 1 .. 2
  PROVE  \E n, e \in Nat :
           /\ n = Native[axis] /\ n >= 2 /\ e > 0
           /\ Fine \div n = e * (n - 1) /\ Fine \div (n - 1) = e * n
           /\ Fine = e * n * (n - 1)
<1>1. PICK n \in Nat : n = Native[axis] /\ n >= 2
  BY PointersAssumption
<1>2. PICK f \in Nat : f = Fine /\ f > 0
  BY PointersAssumption
<1>3. f % n = 0 /\ f % (n - 1) = 0
  BY <1>1, <1>2, PointersAssumption
<1>4. PICK k \in Int : k = f \div n /\ f = n * k
  <2>1. f \in Int /\ n \in Nat \ {0}
    BY <1>1
  <2>2. PICK k, r \in Int : k = f \div n /\ r = f % n /\ f = n * k + r
    BY <2>1, PtrDivision
  <2>3. QED  BY <1>3, <2>2
<1>5. PICK m \in Nat : m = n - 1 /\ m > 0
  BY <1>1
<1>6. PICK l \in Int : l = f \div m /\ f = m * l
  <2>1. f \in Int /\ m \in Nat \ {0} /\ f % m = 0
    BY <1>3, <1>5
  <2>2. PICK l, r \in Int : l = f \div m /\ r = f % m /\ f = m * l + r
    BY <2>1, PtrDivision
  <2>3. QED  BY <2>1, <2>2
<1>7. PICK e \in Int : e = l - k
  OBVIOUS
<1>8. k = e * m
  <2>1. (m + 1) * k = m * (k + e)
    BY <1>4, <1>5, <1>6, <1>7
  <2>2. QED  BY <2>1
<1>9. l = e * n
  BY <1>5, <1>7, <1>8
<1>10. f = e * n * m
  BY <1>4, <1>8
<1>11. e > 0
  <2>1. 0 * m < k * m \/ k <= 0
    <3>1. CASE k > 0
      <4>1. k * m >= m
        <5>1. 1 * m <= k * m
          BY <3>1, PtrScale
        <5>2. QED  BY <5>1
      <4>2. PICK x \in Int : x = k * m
        OBVIOUS
      <4>3. QED  BY <1>5, <4>1, <4>2
    <3>2. QED  BY <3>1
  <2>2. k > 0
    <3>1. 0 * n < k * n
      BY <1>2, <1>4
    <3>2. QED  BY <1>1, <3>1, PtrCancel
  <2>3. 0 * m < e * m
    BY <1>8, <2>2
  <2>4. QED  BY <1>5, <2>3, PtrCancel
<1>12. QED
  BY <1>1, <1>2, <1>4, <1>5, <1>6, <1>8, <1>9, <1>10, <1>11

(* The pixel of a place is the one whose extent has it.                         *)
LEMMA PtrFloor ==
  ASSUME NEW num \in Nat, NEW w \in Nat, num <= w, w > 0, NEW n \in Nat, n >= 2,
         NEW q, q = Pointers!Within((num * n) \div w, n - 1)
  PROVE  q \in 0 .. n - 1 /\ q * w <= num * n /\ num * n <= (q + 1) * w
<1>1. PICK a \in Nat : a = num * n /\ a <= w * n
  BY PtrScale
<1>2. PICK z \in Int, r \in Int : z = a \div w /\ a = w * z + r /\ 0 <= r /\ r < w
  BY <1>1, PtrDivision
<1>3. 0 <= z
  <2>1. 0 * w < (z + 1) * w
    <3>1. (z + 1) * w = w * z + w
      OBVIOUS
    <3>2. PICK x \in Int : x = w * z
      OBVIOUS
    <3>3. QED  BY <1>1, <1>2, <3>1, <3>2
  <2>2. 0 < z + 1
    BY <2>1, PtrCancel
  <2>3. QED  BY <2>2
<1>4. z <= n
  <2>1. z * w < (n + 1) * w
    <3>1. (n + 1) * w = w * n + w /\ z * w = w * z
      OBVIOUS
    <3>2. PICK x, y \in Int : x = w * z /\ y = w * n
      OBVIOUS
    <3>3. QED  BY <1>1, <1>2, <3>1, <3>2
  <2>2. z < n + 1
    BY <2>1, PtrCancel
  <2>3. QED  BY <2>2
<1>5. CASE z <= n - 1
  <2>1. q = z
    BY <1>1, <1>2, <1>3, <1>5 DEF Pointers!Within
  <2>2. (z + 1) * w = w * z + w /\ z * w = w * z
    OBVIOUS
  <2>3. PICK x \in Int : x = w * z
    OBVIOUS
  <2>4. QED  BY <1>1, <1>2, <1>3, <1>5, <2>1, <2>2, <2>3
<1>6. CASE z = n
  <2>1. q = n - 1
    BY <1>1, <1>2, <1>6 DEF Pointers!Within
  <2>2. (q + 1) * w = w * n /\ q * w = w * n - w
    BY <2>1
  <2>3. PICK x \in Int : x = w * n
    OBVIOUS
  <2>4. QED  BY <1>1, <1>2, <1>6, <2>1, <2>2, <2>3
<1>7. QED  BY <1>3, <1>4, <1>5, <1>6

(* So a rectangle shows that pixel there, from either end.                      *)
LEMMA PtrShown ==
  ASSUME NEW num \in Nat, NEW w \in Nat, num <= w, w > 0, NEW axis \in 1 .. 2,
         NEW q, q = Pointers!Within((num * Native[axis]) \div w, Native[axis] - 1)
  PROVE  /\ q \in 0 .. Native[axis] - 1
         /\ Pointers!Between(num * Fine, (q + 0) * (Fine \div Native[axis]) * w,
                    (q + 1) * (Fine \div Native[axis]) * w)
         /\ Pointers!Between((w - num) * Fine, (Fine - (q + 0) * (Fine \div Native[axis])) * w,
                    (Fine - (q + 1) * (Fine \div Native[axis])) * w)
<1>1. PICK n \in Nat, e \in Nat :
        n = Native[axis] /\ n >= 2 /\ Fine \div n = e * (n - 1) /\ Fine = e * n * (n - 1)
  BY PtrPixels
<1>2. q \in 0 .. n - 1 /\ q * w <= num * n /\ num * n <= (q + 1) * w
  BY <1>1, PtrFloor
<1>3. PICK k \in Nat : k = Fine \div n /\ Fine = n * k
  <2>1. e * (n - 1) \in Nat /\ e * n * (n - 1) = n * (e * (n - 1))
    BY <1>1
  <2>2. QED  BY <1>1, <2>1
<1>4. q \in Nat /\ q * w \in Int /\ num * n \in Int /\ (q + 1) * w \in Int
  BY <1>2
<1>5. (q * w) * k <= (num * n) * k /\ (num * n) * k <= ((q + 1) * w) * k
  BY <1>2, <1>4, PtrScale
<1>6. PICK low, mid, high, all \in Int :
        /\ low = q * k * w /\ high = (q + 1) * k * w /\ mid = num * Fine /\ all = w * Fine
        /\ low <= mid /\ mid <= high
  <2>1. (q * w) * k = q * k * w /\ ((q + 1) * w) * k = (q + 1) * k * w
        /\ (num * n) * k = num * (n * k)
    BY <1>4
  <2>2. /\ q * k * w \in Int /\ (q + 1) * k * w \in Int /\ num * Fine \in Int
        /\ w * Fine \in Int
    BY <1>3, <1>4
  <2>3. QED  BY <1>3, <1>5, <2>1, <2>2
<1>7. Pointers!Between(mid, low, high)
  BY <1>6 DEF Pointers!Between
<1>8. PICK f \in Nat : f = Fine
  BY PointersAssumption
<1>9. /\ (w - num) * f = w * f - num * f
      /\ (f - q * k) * w = w * f - q * k * w
      /\ (f - (q + 1) * k) * w = w * f - (q + 1) * k * w
  BY <1>4
<1>10. Pointers!Between((w - num) * f, (f - q * k) * w, (f - (q + 1) * k) * w)
  BY <1>6, <1>8, <1>9 DEF Pointers!Between
<1>11. q + 0 = q
  BY <1>4
<1>12. QED  BY <1>1, <1>2, <1>3, <1>6, <1>7, <1>8, <1>10, <1>11

(* The cursor's place lies within the pixel's extent, from either end.          *)
LEMMA PtrPlaced ==
  ASSUME NEW axis \in 1 .. 2, NEW p \in 0 .. Native[axis] - 1
  PROVE  LET at == p * (Fine \div (Native[axis] - 1))
             k == Fine \div Native[axis]
         IN  /\ at \in 0 .. Fine
             /\ Pointers!Between(at, (p + 0) * k, (p + 1) * k)
             /\ Pointers!Between(Fine - at, Fine - (p + 0) * k, Fine - (p + 1) * k)
             /\ p = 0 => at = 0
             /\ p = Native[axis] - 1 => at = Fine
<1>1. PICK n \in Nat, e \in Nat :
        /\ n = Native[axis] /\ n >= 2 /\ e > 0 /\ Fine \div n = e * (n - 1)
        /\ Fine \div (n - 1) = e * n /\ Fine = e * n * (n - 1)
  BY PtrPixels
<1>2. p \in Nat /\ p <= n - 1
  BY <1>1
<1>3. PICK rest \in Nat : n - 1 = p + rest
  <2>1. n - 1 - p \in Nat /\ n - 1 = p + (n - 1 - p)
    BY <1>1, <1>2
  <2>2. QED  BY <2>1
<1>4. PICK low, at, high, all, pe, re \in Int :
        /\ low = p * (e * (n - 1)) /\ at = p * (e * n) /\ high = (p + 1) * (e * (n - 1))
        /\ all = e * n * (n - 1) /\ pe = p * e /\ re = rest * e
        /\ pe >= 0 /\ re >= 0
  <2>1. /\ p * (e * (n - 1)) \in Int /\ p * (e * n) \in Int
        /\ (p + 1) * (e * (n - 1)) \in Int
        /\ e * n * (n - 1) \in Int /\ p * e \in Nat /\ rest * e \in Nat
    BY <1>1, <1>2
  <2>2. QED  BY <2>1
<1>5. at = low + pe
  BY <1>2, <1>4
<1>6. high = at + re
  <2>1. (p + 1) * (e * (p + rest)) = p * (e * (p + rest + 1)) + rest * e
    BY <1>2
  <2>2. n = p + rest + 1
    BY <1>1, <1>3
  <2>3. QED  BY <1>3, <1>4, <2>1, <2>2
<1>7. 0 <= at /\ at <= all
  <2>1. at >= 0
    <3>1. p * (e * n) \in Nat
      BY <1>1, <1>2
    <3>2. QED  BY <1>4, <3>1
  <2>2. p * (e * n) <= (n - 1) * (e * n)
    <3>1. e * n \in Nat /\ n - 1 \in Int
      BY <1>1
    <3>2. QED  BY <1>2, <3>1, PtrScale
  <2>3. (n - 1) * (e * n) = e * n * (n - 1)
    BY <1>1
  <2>4. QED  BY <1>4, <2>1, <2>2, <2>3
<1>8. p = 0 => at = 0
  BY <1>1, <1>4
<1>9. p = n - 1 => at = all
  BY <1>1, <1>4
<1>10. Pointers!Between(at, low, high) /\ Pointers!Between(all - at, all - low, all - high)
  BY <1>4, <1>5, <1>6 DEF Pointers!Between
<1>11. p + 0 = p
  BY <1>2
<1>12. QED  BY <1>1, <1>4, <1>7, <1>8, <1>9, <1>10, <1>11

(* The nearest pixel to a place in quarters of the screen.                      *)
LEMMA PtrNearest ==
  ASSUME NEW axis \in 1 .. 2, NEW s \in 0 .. 4,
         NEW q, q = (2 * s * (Native[axis] - 1) + 4) \div (2 * 4)
  PROVE  LET at == q * (Fine \div (Native[axis] - 1))
             n == Native[axis]
         IN  /\ q \in 0 .. n - 1 /\ at \in 0 .. Fine
             /\ Pointers!Between((4 * at - s * Fine) * 2 * (n - 1), -4 * Fine, 4 * Fine)
             /\ Pointers!Between((4 * (Fine - at) - (4 - s) * Fine) * 2 * (n - 1),
                  -4 * Fine, 4 * Fine)
<1>1. PICK n \in Nat, e \in Nat :
        /\ n = Native[axis] /\ n >= 2 /\ e > 0
        /\ Fine \div (n - 1) = e * n /\ Fine = e * n * (n - 1)
  BY PtrPixels
<1>2. PICK m \in Nat : m = n - 1 /\ m > 0
  BY <1>1
<1>3. PICK sm \in Nat : sm = s * m /\ sm <= 4 * m
  BY PtrScale
<1>4. q = (2 * sm + 4) \div 8
  <2>1. 2 * s * (n - 1) = 2 * sm
    BY <1>2, <1>3
  <2>2. QED  BY <1>1, <2>1
<1>5. q \in Nat /\ 8 * q <= 2 * sm + 4 /\ 2 * sm + 4 < 8 * q + 8
  BY <1>3, <1>4
<1>6. q \in 0 .. n - 1
  BY <1>2, <1>3, <1>5
<1>7. q * (Fine \div (n - 1)) \in 0 .. Fine
  BY <1>1, <1>6, PtrPlaced
<1>8. PICK k \in Nat : k = e * n
  BY <1>1
<1>9. PICK at, f, sf, off \in Int : at = q * k /\ f = k * m /\ sf = s * f /\ off = 4 * at - sf
  <2>1. PICK at, f \in Int : at = q * k /\ f = k * m
    BY <1>5
  <2>2. PICK sf \in Int : sf = s * f
    OBVIOUS
  <2>3. 4 * at - sf \in Int
    BY <2>1, <2>2
  <2>4. QED  BY <2>1, <2>2, <2>3
<1>10. PICK d \in Int : d = 8 * q - 2 * sm /\ d <= 4 /\ -4 <= d
  BY <1>3, <1>5
<1>11. off * 2 * m = d * f
  <2>1. off = (4 * q - s * m) * k
    BY <1>5, <1>9
  <2>2. (4 * q - s * m) * 2 = d
    BY <1>3, <1>5, <1>10
  <2>3. off * 2 = ((4 * q - s * m) * 2) * k
    BY <1>5, <2>1
  <2>4. off * 2 = d * k
    BY <2>2, <2>3
  <2>5. QED  BY <1>9, <2>4
<1>12. f \in Nat
  <2>1. k * m \in Nat
    OBVIOUS
  <2>2. QED  BY <1>9, <2>1
<1>13. d * f <= 4 * f /\ (-4) * f <= d * f
  BY <1>10, <1>12, PtrScale
<1>14. PICK o \in Int : o = off * 2 * m /\ -4 * f <= o /\ o <= 4 * f
  <2>1. (-4) * f = -4 * f
    OBVIOUS
  <2>2. QED  BY <1>11, <1>13, <2>1
<1>15. /\ Pointers!Between(off * 2 * m, -4 * f, 4 * f)
       /\ Pointers!Between((-off) * 2 * m, -4 * f, 4 * f)
  <2>1. (-off) * 2 * m = -o
    BY <1>14
  <2>2. QED  BY <1>12, <1>14, <2>1 DEF Pointers!Between
<1>16. 4 * (f - at) - (4 - s) * f = -off
  BY <1>9
<1>17. f = Fine /\ at = q * (Fine \div (n - 1))
  BY <1>1, <1>2, <1>8, <1>9
<1>18. QED
  BY <1>1, <1>2, <1>6, <1>7, <1>9, <1>15, <1>16, <1>17

--------------------------------------------------------------------------------
(* Some rectangle of several is the largest.                                    *)
LEMMA PtrLargest ==
  ASSUME NEW rects, Pointers!IsLayout(rects), NEW among \in SUBSET DOMAIN rects, among # {}
  PROVE  Pointers!Largest(rects, among) \in among
<1>1. PICK n \in 1 .. 3 : rects \in [1 .. n -> Pointers!Rectangle]
  BY DEF Pointers!IsLayout
<1>2. DOMAIN rects = 1 .. n
  BY <1>1
<1> DEFINE area(i) == rects[i].w * rects[i].h
           Best(i) == \A j \in among : area(i) > area(j) \/ (area(i) = area(j) /\ i <= j)
<1>3. \A i \in among : i \in {1, 2, 3} /\ area(i) \in Int
  <2>1. TAKE i \in among
  <2>2. i \in 1 .. n
    BY <1>2
  <2>3. PICK w, h \in Int : w = rects[i].w /\ h = rects[i].h
    BY <1>1, <2>2 DEF Pointers!Rectangle
  <2>4. QED  BY <2>2, <2>3
<1>4. \E i \in among : Best(i)
  <2> HIDE DEF area
  <2>1. QED  BY <1>3
<1>5. Pointers!Largest(rects, among) = CHOOSE i \in among : Best(i)
  BY DEF Pointers!Largest
<1>6. QED  BY <1>4, <1>5, Zenon

(* The layout is of integers, and its target is the lower screen.               *)
LEMMA PtrFit ==
  ASSUME NEW c \in Pointers!Configs, NEW w \in Int, NEW h \in Int
  PROVE  \E a, b \in Int : Pointers!Fit(c, w, h) = <<a, b>>
<1>1. PICK n1, n2 \in Nat \ {0} :
        (IF Pointers!Odd(c.rotation) THEN <<Native[2], Native[1]>> ELSE Native) = <<n1, n2>>
  <2>1. PICK p, q \in Nat \ {0} : Native = <<p, q>>
    BY PointersAssumption
  <2>2. QED  BY <2>1
<1>2. PICK x, y \in Int : x = h * n1 /\ y = w * n2
  OBVIOUS
<1>3. x \div n2 \in Int /\ y \div n1 \in Int
  BY <1>2, PtrDivision
<1>4. PICK u \in Nat \ {0} : u = n1 * Unit
  <2>1. Unit \in Nat \ {0}
    BY PointersAssumption
  <2>2. n1 * Unit \in Nat /\ n1 * Unit # 0
    BY <2>1
  <2>3. QED  BY <2>2
<1>5. PICK a, b \in Int : a = Pointers!Fewer(w, x \div n2) /\ b = Pointers!Fewer(h, y \div n1)
  BY <1>3 DEF Pointers!Fewer
<1>6. PICK s \in Int : s = a \div u
  BY PtrDivision
<1>7. PICK d, e \in Int : d = n1 * Unit * s /\ e = n2 * Unit * s
  <2>1. Unit \in Int
    BY PointersAssumption
  <2>2. QED  BY <2>1
<1>8. Pointers!Fit(c, w, h) = IF c.integer /\ s >= 1 THEN <<d, e>> ELSE <<a, b>>
  BY <1>1, <1>2, <1>4, <1>5, <1>6, <1>7 DEF Pointers!Fit
<1>9. QED  BY <1>8

LEMMA PtrRect ==
  ASSUME NEW c, NEW screen \in 0 .. 1, NEW x \in Int, NEW y \in Int, NEW w \in Int,
         NEW h \in Int
  PROVE  LET r == Pointers!Rect(c, screen, x, y, <<w, h>>)
         IN  r \in Pointers!Rectangle /\ (r.touch <=> r.screen = 1)
<1>1. PICK drawn \in 0 .. 1 : drawn = IF c.swap THEN 1 - screen ELSE screen
  OBVIOUS
<1>2. PICK touch \in BOOLEAN : touch <=> drawn = 1
  OBVIOUS
<1>3. Pointers!Rect(c, screen, x, y, <<w, h>>) =
        [x |-> x, y |-> y, w |-> w, h |-> h, screen |-> drawn, touch |-> touch]
  BY <1>1, <1>2 DEF Pointers!Rect
<1>4. QED  BY <1>2, <1>3 DEF Pointers!Rectangle

IsTarget(r) == r \in Pointers!Rectangle /\ (r.touch <=> r.screen = 1)

LEMMA PtrLists ==
  /\ \A r1 : IsTarget(r1) => Pointers!IsLayout(<<r1>>)
  /\ \A r1, r2 : IsTarget(r1) /\ IsTarget(r2) => Pointers!IsLayout(<<r1, r2>>)
  /\ \A r1, r2, r3 :
           IsTarget(r1) /\ IsTarget(r2) /\ IsTarget(r3) => Pointers!IsLayout(<<r1, r2, r3>>)
<1>1. ASSUME NEW n \in 1 .. 3, NEW s \in [1 .. n -> Pointers!Rectangle], \A i \in 1 .. n :
            IsTarget(s[i])
      PROVE  Pointers!IsLayout(s)
  BY <1>1 DEF Pointers!IsLayout, IsTarget
<1>2. ASSUME NEW r1, IsTarget(r1) PROVE Pointers!IsLayout(<<r1>>)
  <2>1. <<r1>> \in [1 .. 1 -> Pointers!Rectangle] /\ \A i \in 1 .. 1 : IsTarget(<<r1>>[i])
    BY <1>2 DEF IsTarget
  <2>2. QED  BY <1>1, <2>1
<1>3. ASSUME NEW r1, NEW r2, IsTarget(r1), IsTarget(r2) PROVE Pointers!IsLayout(<<r1, r2>>)
  <2>1. <<r1, r2>> \in [1 .. 2 -> Pointers!Rectangle]
    BY <1>3 DEF IsTarget
  <2>2. ASSUME NEW i \in 1 .. 2 PROVE IsTarget(<<r1, r2>>[i])
    BY <1>3
  <2>3. QED  BY <1>1, <2>1, <2>2
<1>4. ASSUME NEW r1, NEW r2, NEW r3, IsTarget(r1), IsTarget(r2), IsTarget(r3)
      PROVE  Pointers!IsLayout(<<r1, r2, r3>>)
  <2>1. <<r1, r2, r3>> \in [1 .. 3 -> Pointers!Rectangle]
    BY <1>4 DEF IsTarget
  <2>2. ASSUME NEW i \in 1 .. 3 PROVE IsTarget(<<r1, r2, r3>>[i])
    BY <1>4
  <2>3. QED  BY <1>1, <2>1, <2>2
<1>5. QED  BY <1>2, <1>3, <1>4

LEMMA PtrHalf == \A n \in Int : Pointers!Half(n) \in Int
  BY DEF Pointers!Half

LEMMA PtrCalculated ==
  ASSUME NEW c \in Pointers!Configs PROVE Pointers!IsLayout(Pointers!Calculated(c))
<1>1. PICK p1, p2 \in Int : p1 = Panel[1] /\ p2 = Panel[2]
  BY PointersAssumption
<1>2. PICK gap \in Int : gap = c.gap
  BY PointersAssumption DEF Pointers!Configs
<1>3. Side \in Int
  BY PointersAssumption
<1>4. PICK h1, h2 \in Int : h1 = Pointers!Half(p1 - gap) /\ h2 = Pointers!Half(p2 - gap)
  BY PtrHalf
<1>5. PICK sw, sh \in Int : Pointers!Fit(c, p1, h2) = <<sw, sh>>
  BY PtrFit
<1>6. PICK bw, bh \in Int : Pointers!Fit(c, h1, p2) = <<bw, bh>>
  BY PtrFit
<1>7. PICK aw, ah \in Int : Pointers!Fit(c, p1, p2) = <<aw, ah>>
  BY PtrFit
<1>8. PICK mw, mh \in Int : Pointers!Fit(c, Side, h2) = <<mw, mh>>
  BY <1>3, PtrFit
<1>9. PICK lw, lh \in Int : Pointers!Fit(c, p1 - mw - gap, p2) = <<lw, lh>>
  <2>1. p1 - mw - gap \in Int
    OBVIOUS
  <2>2. QED  BY <2>1, PtrFit
<1>10. ASSUME NEW screen \in 0 .. 1, NEW x \in Int, NEW y \in Int, NEW w \in Int, NEW h \in Int
       PROVE  IsTarget(Pointers!Rect(c, screen, x, y, <<w, h>>))
  BY PtrRect DEF IsTarget
<1>11. 0 \in 0 .. 1 /\ 1 \in 0 .. 1
  OBVIOUS
<1>12. CASE c.layout = "custom"
  <2>1. PICK r : r = c.custom
    OBVIOUS
  <2>2. ASSUME NEW i \in 1 .. 2
        PROVE  r[i].x \in Int /\ r[i].y \in Int /\ r[i].w \in Int /\ r[i].h \in Int
    BY <2>1, PointersAssumption DEF Pointers!Configs
  <2>3. Pointers!Calculated(c) =
        [i \in 1 .. 2 |-> Pointers!Rect(c, i - 1, r[i].x, r[i].y, <<r[i].w, r[i].h>>)]
    BY <1>12, <2>1 DEF Pointers!Calculated
  <2>4. ASSUME NEW i \in 1 .. 2 PROVE IsTarget(Pointers!Calculated(c)[i])
    <3>1. i - 1 \in 0 .. 1
      OBVIOUS
    <3>2. QED  BY <1>10, <2>2, <2>3, <3>1
  <2>5. Pointers!Calculated(c) \in [1 .. 2 -> Pointers!Rectangle]
    BY <2>3, <2>4 DEF IsTarget
  <2>6. QED  BY <2>4, <2>5 DEF Pointers!IsLayout, IsTarget
<1>13. CASE c.layout = "vertical"
  <2>1. PICK x, y \in Int : x = Pointers!Half(p1 - sw) /\ y = Pointers!Half(p2 - (2 * sh + gap))
    BY PtrHalf
  <2>2. Pointers!Calculated(c) =
          <<Pointers!Rect(c, 0, x, y, <<sw, sh>>),
            Pointers!Rect(c, 1, x, y + sh + gap, <<sw, sh>>)>>
    BY <1>1, <1>2, <1>4, <1>5, <1>13, <2>1 DEF Pointers!Calculated
  <2>3. y + sh + gap \in Int
    OBVIOUS
  <2>4. /\ IsTarget(Pointers!Rect(c, 0, x, y, <<sw, sh>>))
        /\ IsTarget(Pointers!Rect(c, 1, x, y + sh + gap, <<sw, sh>>))
    BY <1>10, <1>11, <2>3
  <2>5. QED  BY <2>2, <2>4, PtrLists
<1>14. CASE c.layout = "horizontal"
  <2>1. PICK x, y \in Int : x = Pointers!Half(p1 - (2 * bw + gap)) /\ y = Pointers!Half(p2 - bh)
    BY PtrHalf
  <2>2. Pointers!Calculated(c) =
          <<Pointers!Rect(c, 0, x, y, <<bw, bh>>),
            Pointers!Rect(c, 1, x + bw + gap, y, <<bw, bh>>)>>
    BY <1>1, <1>2, <1>4, <1>6, <1>14, <2>1 DEF Pointers!Calculated
  <2>3. x + bw + gap \in Int
    OBVIOUS
  <2>4. /\ IsTarget(Pointers!Rect(c, 0, x, y, <<bw, bh>>))
        /\ IsTarget(Pointers!Rect(c, 1, x + bw + gap, y, <<bw, bh>>))
    BY <1>10, <1>11, <2>3
  <2>5. QED  BY <2>2, <2>4, PtrLists
<1>15. PICK ax, ay \in Int : ax = Pointers!Half(p1 - aw) /\ ay = Pointers!Half(p2 - ah)
  BY PtrHalf
<1>16. CASE c.layout = "top"
  <2>1. Pointers!Calculated(c) = <<Pointers!Rect(c, 0, ax, ay, <<aw, ah>>)>>
    BY <1>1, <1>7, <1>15, <1>16 DEF Pointers!Calculated
  <2>2. QED  BY <1>10, <1>11, <2>1, PtrLists
<1>17. CASE c.layout = "bottom"
  <2>1. Pointers!Calculated(c) = <<Pointers!Rect(c, 1, ax, ay, <<aw, ah>>)>>
    BY <1>1, <1>7, <1>15, <1>17 DEF Pointers!Calculated
  <2>2. QED  BY <1>10, <1>11, <2>1, PtrLists
<1>18. PICK x, y, ly, sx, sy \in Int :
         /\ x = Pointers!Half(p1 - (lw + gap + mw))
         /\ y = Pointers!Half(p2 - (2 * mh + gap))
         /\ ly = Pointers!Half(p2 - lh) /\ sx = x + lw + gap /\ sy = y + mh + gap
  <2>1. PICK x, y, ly \in Int :
          /\ x = Pointers!Half(p1 - (lw + gap + mw))
          /\ y = Pointers!Half(p2 - (2 * mh + gap)) /\ ly = Pointers!Half(p2 - lh)
    BY PtrHalf
  <2>2. x + lw + gap \in Int /\ y + mh + gap \in Int
    OBVIOUS
  <2>3. QED  BY <2>1, <2>2
<1>19. ASSUME NEW primary \in 0 .. 1,
              Pointers!Calculated(c) =
                <<Pointers!Rect(c, primary, x, ly, <<lw, lh>>),
                  Pointers!Rect(c, 0, sx, y, <<mw, mh>>),
                  Pointers!Rect(c, 1, sx, sy, <<mw, mh>>)>>
       PROVE  Pointers!IsLayout(Pointers!Calculated(c))
  <2>1. /\ IsTarget(Pointers!Rect(c, primary, x, ly, <<lw, lh>>))
        /\ IsTarget(Pointers!Rect(c, 0, sx, y, <<mw, mh>>))
        /\ IsTarget(Pointers!Rect(c, 1, sx, sy, <<mw, mh>>))
    BY <1>10, <1>11
  <2>2. QED  BY <1>19, <2>1, PtrLists
<1>20. CASE c.layout = "hybrid top"
  <2>1. PICK small, large :
          /\ small = Pointers!Fit(c, Side, Pointers!Half(Panel[2] - c.gap))
          /\ large = Pointers!Fit(c, Panel[1] - small[1] - c.gap, Panel[2])
    OBVIOUS
  <2>2. small = <<mw, mh>> /\ small[1] = mw /\ small[2] = mh
    BY <1>1, <1>2, <1>4, <1>8, <2>1
  <2>3. large = <<lw, lh>> /\ large[1] = lw /\ large[2] = lh
    BY <1>1, <1>2, <1>9, <2>1, <2>2
  <2>4. Pointers!Calculated(c) =
          LET left == Pointers!Half(Panel[1] - (large[1] + c.gap + small[1]))
              top == Pointers!Half(Panel[2] - (2 * small[2] + c.gap))
          IN  <<Pointers!Rect(c, 0, left, Pointers!Half(Panel[2] - large[2]), large),
                Pointers!Rect(c, 0, left + large[1] + c.gap, top, small),
                Pointers!Rect(c, 1, left + large[1] + c.gap, top + small[2] + c.gap, small)>>
    BY <1>20, <2>1 DEF Pointers!Calculated
  <2>5. Pointers!Calculated(c) =
          <<Pointers!Rect(c, 0, x, ly, <<lw, lh>>), Pointers!Rect(c, 0, sx, y, <<mw, mh>>),
            Pointers!Rect(c, 1, sx, sy, <<mw, mh>>)>>
    BY <1>1, <1>2, <1>18, <2>2, <2>3, <2>4
  <2>6. QED  BY <1>11, <1>19, <2>5
<1>21. CASE c.layout = "hybrid bottom"
  <2>1. PICK small, large :
          /\ small = Pointers!Fit(c, Side, Pointers!Half(Panel[2] - c.gap))
          /\ large = Pointers!Fit(c, Panel[1] - small[1] - c.gap, Panel[2])
    OBVIOUS
  <2>2. small = <<mw, mh>> /\ small[1] = mw /\ small[2] = mh
    BY <1>1, <1>2, <1>4, <1>8, <2>1
  <2>3. large = <<lw, lh>> /\ large[1] = lw /\ large[2] = lh
    BY <1>1, <1>2, <1>9, <2>1, <2>2
  <2>4. Pointers!Calculated(c) =
          LET left == Pointers!Half(Panel[1] - (large[1] + c.gap + small[1]))
              top == Pointers!Half(Panel[2] - (2 * small[2] + c.gap))
          IN  <<Pointers!Rect(c, 1, left, Pointers!Half(Panel[2] - large[2]), large),
                Pointers!Rect(c, 0, left + large[1] + c.gap, top, small),
                Pointers!Rect(c, 1, left + large[1] + c.gap, top + small[2] + c.gap, small)>>
    BY <1>21, <2>1 DEF Pointers!Calculated
  <2>5. Pointers!Calculated(c) =
          <<Pointers!Rect(c, 1, x, ly, <<lw, lh>>), Pointers!Rect(c, 0, sx, y, <<mw, mh>>),
            Pointers!Rect(c, 1, sx, sy, <<mw, mh>>)>>
    BY <1>1, <1>2, <1>18, <2>2, <2>3, <2>4
  <2>6. QED  BY <1>11, <1>19, <2>5
<1>22. QED
  BY <1>12, <1>13, <1>14, <1>16, <1>17, <1>20, <1>21 DEF Pointers!Configs, Pointers!Layouts

--------------------------------------------------------------------------------
(* One side of a rectangle, along an axis of the screen or against it.          *)
Reached(num, den, axis) == Pointers!Within((num * Native[axis]) \div den, Native[axis] - 1)

Edge(q, axis, more) == (q + more) * (Fine \div Native[axis])

Along(d, len, axis, q) == Pointers!Between(d * Fine, Edge(q, axis, 0) * len, Edge(q, axis, 1) * len)

Against(d, len, axis, q) ==
  Pointers!Between(d * Fine, (Fine - Edge(q, axis, 0)) * len, (Fine - Edge(q, axis, 1)) * len)

LEMMA PtrSide ==
  ASSUME NEW axis \in 1 .. 2, NEW d \in Nat, NEW len \in Nat, d < len
  PROVE  /\ LET q == Reached(d, len, axis)
            IN  q \in 0 .. Native[axis] - 1 /\ Along(d, len, axis, q)
         /\ LET q == Reached(len - d, len, axis)
            IN  q \in 0 .. Native[axis] - 1 /\ Against(d, len, axis, q)
<1>1. d <= len /\ len > 0
  OBVIOUS
<1>2. PICK q : q = Pointers!Within((d * Native[axis]) \div len, Native[axis] - 1)
  OBVIOUS
<1>3. q \in 0 .. Native[axis] - 1 /\ Along(d, len, axis, q)
  BY <1>1, <1>2, PtrShown, Zenon DEF Along, Edge
<1>4. PICK e \in Nat : e = len - d /\ e <= len /\ len - e = d
  OBVIOUS
<1>5. PICK t : t = Pointers!Within((e * Native[axis]) \div len, Native[axis] - 1)
  OBVIOUS
<1>6. /\ t \in 0 .. Native[axis] - 1
      /\ Pointers!Between((len - e) * Fine, (Fine - Edge(t, axis, 0)) * len,
                 (Fine - Edge(t, axis, 1)) * len)
  BY <1>1, <1>4, <1>5, PtrShown, Zenon DEF Edge
<1>7. Against(d, len, axis, t)
  BY <1>4, <1>6, Zenon DEF Against
<1>8. q = Reached(d, len, axis) /\ t = Reached(len - d, len, axis)
  BY <1>2, <1>4, <1>5, Zenon DEF Reached
<1>9. QED  BY <1>3, <1>6, <1>7, <1>8, Zenon

(* The corners of a pixel, as seen: along, a quarter, a half, three quarters.   *)
LEMMA PtrCorner ==
  ASSUME NEW pixel, NEW more
  PROVE  LET a(axis) == Edge(pixel[axis], axis, more)
         IN  /\ Pointers!Corner(0, pixel, more) = <<<<a(1), Fine>>, <<a(2), Fine>>>>
             /\ Pointers!Corner(1, pixel, more) = <<<<Fine - a(2), Fine>>, <<a(1), Fine>>>>
             /\ Pointers!Corner(2, pixel, more) = <<<<Fine - a(1), Fine>>, <<Fine - a(2), Fine>>>>
             /\ Pointers!Corner(3, pixel, more) = <<<<a(2), Fine>>, <<Fine - a(1), Fine>>>>
  BY DEF Pointers!Corner, Pointers!SourceToDisplay, Pointers!Flip, Edge

(* A touch means a pixel of the screen, where there is one, that is seen there. *)
LEMMA PtrTouched ==
  ASSUME NEW rects, Pointers!IsLayout(rects), NEW rotation \in 0 .. 3, NEW p \in Point
  PROVE  LET pixel == Pointers!MapTouch(rects, rotation, p)
             targets == {i \in DOMAIN rects : rects[i].touch /\ Pointers!Holds(rects[i], p)}
         IN  /\ targets = {} => pixel = Pointers!NoPixel
             /\ targets # {} =>
                  /\ pixel # Pointers!NoPixel
                  /\ \A axis \in 1 .. 2 : pixel[axis] \in 0 .. Native[axis] - 1
                  /\ \E i \in targets : Pointers!Shows(rects[i], rotation, pixel, p)
<1> DEFINE targets == {i \in DOMAIN rects : rects[i].touch /\ Pointers!Holds(rects[i], p)}
<1>1. CASE targets = {}
  BY <1>1 DEF Pointers!MapTouch
<1>2. CASE targets # {}
  <2>1. PICK i : i = Pointers!Largest(rects, targets)
    OBVIOUS
  <2>2. i \in targets
    BY <1>2, <2>1, PtrLargest
  <2>3. PICK r : r = rects[i]
    OBVIOUS
  <2>4. PICK x, y, w, h \in Int : x = r.x /\ y = r.y /\ w = r.w /\ h = r.h
    BY <2>2, <2>3 DEF Pointers!IsLayout, Pointers!Rectangle
  <2>5. PICK p1, p2 \in Int : p1 = p[1] /\ p2 = p[2]
    BY PointersAssumption
  <2>6. p1 >= x /\ p2 >= y /\ p1 < x + w /\ p2 < y + h
    BY <2>2, <2>3, <2>4, <2>5 DEF Pointers!Holds
  <2>7. PICK dx, dy \in Nat : dx = p1 - x /\ dy = p2 - y /\ dx < w /\ dy < h
    BY <2>6
  <2>8. w \in Nat /\ h \in Nat
    BY <2>7
  <2>9. PICK pixel : pixel = Pointers!MapTouch(rects, rotation, p)
    OBVIOUS
  <2> DEFINE s == Pointers!DisplayToSource(rotation, <<dx, w>>, <<dy, h>>)
  <2>10. pixel = [axis \in 1 .. 2 |-> Reached(s[axis][1], s[axis][2], axis)]
    BY <1>2, <2>1, <2>3, <2>4, <2>5, <2>7, <2>9 DEF Pointers!MapTouch, Reached
  <2>11. \A n1, d1, n2, d2 :
           s = <<<<n1, d1>>, <<n2, d2>>>> =>
             pixel[1] = Reached(n1, d1, 1) /\ pixel[2] = Reached(n2, d2, 2)
    BY <2>10
  <2> HIDE DEF s
  <2>12. ASSUME pixel[1] \in 0 .. Native[1] - 1, pixel[2] \in 0 .. Native[2] - 1,
                NEW a1, NEW a2, NEW b1, NEW b2,
                Pointers!Corner(rotation, pixel, 0) = <<<<a1, Fine>>, <<a2, Fine>>>>,
                Pointers!Corner(rotation, pixel, 1) = <<<<b1, Fine>>, <<b2, Fine>>>>,
                Pointers!Between(dx * Fine, a1 * w, b1 * w),
                Pointers!Between(dy * Fine, a2 * h, b2 * h)
         PROVE  /\ pixel # Pointers!NoPixel
                /\ \A axis \in 1 .. 2 : pixel[axis] \in 0 .. Native[axis] - 1
                /\ \E j \in targets : Pointers!Shows(rects[j], rotation, pixel, p)
    <3>1. \A axis \in 1 .. 2 : pixel[axis] \in 0 .. Native[axis] - 1
      BY <2>12
    <3>2. pixel # Pointers!NoPixel
      <4>1. Pointers!NoPixel[1] = -1
        BY DEF Pointers!NoPixel
      <4>2. pixel[1] >= 0
        BY <2>12, PointersAssumption
      <4>3. QED  BY <4>1, <4>2
    <3>3. Pointers!Shows(rects[i], rotation, pixel, p)
      BY <2>3, <2>4, <2>5, <2>7, <2>12 DEF Pointers!Shows
    <3>4. QED  BY <2>2, <3>1, <3>2, <3>3
  <2>13. 1 \in 1 .. 2 /\ 2 \in 1 .. 2
    OBVIOUS
  <2> SUFFICES /\ pixel # Pointers!NoPixel
               /\ \A axis \in 1 .. 2 : pixel[axis] \in 0 .. Native[axis] - 1
               /\ \E j \in targets : Pointers!Shows(rects[j], rotation, pixel, p)
    BY <1>2, <2>9
  <2> HIDE DEF targets
  <2> DEFINE a(axis, more) == Edge(pixel[axis], axis, more)
  <2>14. CASE rotation = 0
    <3>1. s = <<<<dx, w>>, <<dy, h>>>>
      BY <2>14 DEF Pointers!DisplayToSource, s
    <3>2. pixel[1] = Reached(dx, w, 1) /\ pixel[2] = Reached(dy, h, 2)
      BY <2>11, <3>1, Zenon
    <3>3. /\ pixel[1] \in 0 .. Native[1] - 1 /\ Along(dx, w, 1, pixel[1])
          /\ pixel[2] \in 0 .. Native[2] - 1 /\ Along(dy, h, 2, pixel[2])
      BY <2>7, <2>8, <2>13, <3>2, PtrSide, Zenon
    <3>4. \A more :
                Pointers!Corner(rotation, pixel, more) = <<<<a(1, more), Fine>>,
                  <<a(2, more), Fine>>>>
      BY <2>14, PtrCorner, Zenon
    <3>5. /\ Pointers!Between(dx * Fine, a(1, 0) * w, a(1, 1) * w)
          /\ Pointers!Between(dy * Fine, a(2, 0) * h, a(2, 1) * h)
      BY <3>3, Zenon DEF Along
    <3>6. PICK a1, b1, a2, b2 :
            /\ a1 = a(1, 0) /\ b1 = a(1, 1)
            /\ a2 = a(2, 0) /\ b2 = a(2, 1)
      OBVIOUS
    <3>7. /\ Pointers!Corner(rotation, pixel, 0) = <<<<a1, Fine>>, <<a2, Fine>>>>
          /\ Pointers!Corner(rotation, pixel, 1) = <<<<b1, Fine>>, <<b2, Fine>>>>
      BY <3>4, <3>6, Zenon
    <3>8. /\ Pointers!Between(dx * Fine, a1 * w, b1 * w)
          /\ Pointers!Between(dy * Fine, a2 * h, b2 * h)
      BY <3>5, <3>6, Zenon
    <3>9. QED  BY <2>12, <3>3, <3>7, <3>8
  <2>15. CASE rotation = 1
    <3>1. s = <<<<dy, h>>, <<w - dx, w>>>>
      BY <2>15 DEF Pointers!DisplayToSource, Pointers!Flip, s
    <3>2. pixel[1] = Reached(dy, h, 1) /\ pixel[2] = Reached(w - dx, w, 2)
      BY <2>11, <3>1, Zenon
    <3>3. /\ pixel[1] \in 0 .. Native[1] - 1 /\ Along(dy, h, 1, pixel[1])
          /\ pixel[2] \in 0 .. Native[2] - 1 /\ Against(dx, w, 2, pixel[2])
      BY <2>7, <2>8, <2>13, <3>2, PtrSide, Zenon
    <3>4. \A more : Pointers!Corner(rotation, pixel, more) =
                      <<<<Fine - a(2, more), Fine>>, <<a(1, more), Fine>>>>
      BY <2>15, PtrCorner, Zenon
    <3>5. /\ Pointers!Between(dx * Fine, (Fine - a(2, 0)) * w, (Fine - a(2, 1)) * w)
          /\ Pointers!Between(dy * Fine, a(1, 0) * h, a(1, 1) * h)
      BY <3>3, Zenon DEF Along, Against
    <3>6. PICK a1, b1, a2, b2 :
            /\ a1 = Fine - a(2, 0) /\ b1 = Fine - a(2, 1)
            /\ a2 = a(1, 0) /\ b2 = a(1, 1)
      OBVIOUS
    <3>7. /\ Pointers!Corner(rotation, pixel, 0) = <<<<a1, Fine>>, <<a2, Fine>>>>
          /\ Pointers!Corner(rotation, pixel, 1) = <<<<b1, Fine>>, <<b2, Fine>>>>
      BY <3>4, <3>6, Zenon
    <3>8. /\ Pointers!Between(dx * Fine, a1 * w, b1 * w)
          /\ Pointers!Between(dy * Fine, a2 * h, b2 * h)
      BY <3>5, <3>6, Zenon
    <3>9. QED  BY <2>12, <3>3, <3>7, <3>8
  <2>16. CASE rotation = 2
    <3>1. s = <<<<w - dx, w>>, <<h - dy, h>>>>
      BY <2>16 DEF Pointers!DisplayToSource, Pointers!Flip, s
    <3>2. pixel[1] = Reached(w - dx, w, 1) /\ pixel[2] = Reached(h - dy, h, 2)
      BY <2>11, <3>1, Zenon
    <3>3. /\ pixel[1] \in 0 .. Native[1] - 1 /\ Against(dx, w, 1, pixel[1])
          /\ pixel[2] \in 0 .. Native[2] - 1 /\ Against(dy, h, 2, pixel[2])
      BY <2>7, <2>8, <2>13, <3>2, PtrSide, Zenon
    <3>4. \A more : Pointers!Corner(rotation, pixel, more) =
                      <<<<Fine - a(1, more), Fine>>, <<Fine - a(2, more), Fine>>>>
      BY <2>16, PtrCorner, Zenon
    <3>5. /\ Pointers!Between(dx * Fine, (Fine - a(1, 0)) * w, (Fine - a(1, 1)) * w)
          /\ Pointers!Between(dy * Fine, (Fine - a(2, 0)) * h, (Fine - a(2, 1)) * h)
      BY <3>3, Zenon DEF Against
    <3>6. PICK a1, b1, a2, b2 :
            /\ a1 = Fine - a(1, 0) /\ b1 = Fine - a(1, 1)
            /\ a2 = Fine - a(2, 0) /\ b2 = Fine - a(2, 1)
      OBVIOUS
    <3>7. /\ Pointers!Corner(rotation, pixel, 0) = <<<<a1, Fine>>, <<a2, Fine>>>>
          /\ Pointers!Corner(rotation, pixel, 1) = <<<<b1, Fine>>, <<b2, Fine>>>>
      BY <3>4, <3>6, Zenon
    <3>8. /\ Pointers!Between(dx * Fine, a1 * w, b1 * w)
          /\ Pointers!Between(dy * Fine, a2 * h, b2 * h)
      BY <3>5, <3>6, Zenon
    <3>9. QED  BY <2>12, <3>3, <3>7, <3>8
  <2>17. CASE rotation = 3
    <3>1. s = <<<<h - dy, h>>, <<dx, w>>>>
      BY <2>17 DEF Pointers!DisplayToSource, Pointers!Flip, s
    <3>2. pixel[1] = Reached(h - dy, h, 1) /\ pixel[2] = Reached(dx, w, 2)
      BY <2>11, <3>1, Zenon
    <3>3. /\ pixel[1] \in 0 .. Native[1] - 1 /\ Against(dy, h, 1, pixel[1])
          /\ pixel[2] \in 0 .. Native[2] - 1 /\ Along(dx, w, 2, pixel[2])
      BY <2>7, <2>8, <2>13, <3>2, PtrSide, Zenon
    <3>4. \A more : Pointers!Corner(rotation, pixel, more) =
                      <<<<a(2, more), Fine>>, <<Fine - a(1, more), Fine>>>>
      BY <2>17, PtrCorner, Zenon
    <3>5. /\ Pointers!Between(dx * Fine, a(2, 0) * w, a(2, 1) * w)
          /\ Pointers!Between(dy * Fine, (Fine - a(1, 0)) * h, (Fine - a(1, 1)) * h)
      BY <3>3, Zenon DEF Along, Against
    <3>6. PICK a1, b1, a2, b2 :
            /\ a1 = a(2, 0) /\ b1 = a(2, 1)
            /\ a2 = Fine - a(1, 0) /\ b2 = Fine - a(1, 1)
      OBVIOUS
    <3>7. /\ Pointers!Corner(rotation, pixel, 0) = <<<<a1, Fine>>, <<a2, Fine>>>>
          /\ Pointers!Corner(rotation, pixel, 1) = <<<<b1, Fine>>, <<b2, Fine>>>>
      BY <3>4, <3>6, Zenon
    <3>8. /\ Pointers!Between(dx * Fine, a1 * w, b1 * w)
          /\ Pointers!Between(dy * Fine, a2 * h, b2 * h)
      BY <3>5, <3>6, Zenon
    <3>9. QED  BY <2>12, <3>3, <3>7, <3>8
  <2>18. QED  BY <2>14, <2>15, <2>16, <2>17
<1>3. QED  BY <1>1, <1>2

--------------------------------------------------------------------------------
(* The cursor: where it is drawn.                                               *)
Spot(axis, p) == p * (Fine \div (Native[axis] - 1))

LEMMA PtrTurned ==
  ASSUME NEW a, NEW b
  PROVE  LET s(rotation) == Pointers!SourceToDisplay(rotation, <<a, Fine>>, <<b, Fine>>)
         IN  /\ s(0) = <<<<a, Fine>>, <<b, Fine>>>>
             /\ s(1) = <<<<Fine - b, Fine>>, <<a, Fine>>>>
             /\ s(2) = <<<<Fine - a, Fine>>, <<Fine - b, Fine>>>>
             /\ s(3) = <<<<b, Fine>>, <<Fine - a, Fine>>>>
  BY DEF Pointers!SourceToDisplay, Pointers!Flip

LEMMA PtrMapped ==
  ASSUME NEW rects, Pointers!IsLayout(rects), NEW rotation, NEW pixel,
         NEW c \in Pointers!MapStylus(rects, rotation, pixel)
  PROVE  /\ c.rect \in DOMAIN rects /\ rects[c.rect].touch
         /\ c.at =
              Pointers!SourceToDisplay(rotation, <<Spot(1, pixel[1]), Fine>>,
                                       <<Spot(2, pixel[2]), Fine>>)
<1> DEFINE targets == {i \in DOMAIN rects : rects[i].touch}
           source == [axis \in 1 .. 2 |-> <<pixel[axis] * (Fine \div (Native[axis] - 1)), Fine>>]
<1>1. /\ targets # {}
      /\ c = [rect |-> Pointers!Largest(rects, targets),
              at |-> Pointers!SourceToDisplay(rotation, source[1], source[2])]
  BY DEF Pointers!MapStylus
<1>2. Pointers!Largest(rects, targets) \in targets
  BY <1>1, PtrLargest
<1>3. source[1] = <<Spot(1, pixel[1]), Fine>> /\ source[2] = <<Spot(2, pixel[2]), Fine>>
  BY DEF Spot
<1> HIDE DEF source
<1>4. /\ c.rect = Pointers!Largest(rects, targets)
      /\ c.at = Pointers!SourceToDisplay(rotation, source[1], source[2])
  BY <1>1
<1>5. QED  BY <1>2, <1>3, <1>4

LEMMA PtrCursor == ASSUME Pointers!TypeOK PROVE Pointers!CursorIsStylus
<1> SUFFICES ASSUME NEW c \in Pointers!MapStylus(lScreens, lConfig.rotation, lStylus)
             PROVE  /\ lScreens[c.rect].screen = 1
                    /\ \A axis \in 1 .. 2 :
                         Pointers!Between(c.at[axis][1],
                           Pointers!Corner(lConfig.rotation, lStylus, 0)[axis][1],
                                 Pointers!Corner(lConfig.rotation, lStylus, 1)[axis][1])
  BY DEF Pointers!CursorIsStylus
<1>1. Pointers!IsLayout(lScreens) /\ lConfig.rotation \in 0 .. 3
  BY DEF Pointers!TypeOK, Pointers!Configs
<1>2. PICK rotation \in 0 .. 3 : rotation = lConfig.rotation
  BY <1>1
<1>3. /\ c.rect \in DOMAIN lScreens /\ lScreens[c.rect].touch
      /\ c.at =
           Pointers!SourceToDisplay(rotation, <<Spot(1, lStylus[1]), Fine>>,
                                    <<Spot(2, lStylus[2]), Fine>>)
  BY <1>1, <1>2, PtrMapped
<1>4. lScreens[c.rect].screen = 1
  BY <1>1, <1>3 DEF Pointers!IsLayout
<1> DEFINE a(axis) == Edge(lStylus[axis], axis, 0)
           b(axis) == Edge(lStylus[axis], axis, 1)
           at(axis) == Spot(axis, lStylus[axis])
<1>5. ASSUME NEW axis \in 1 .. 2
      PROVE  /\ Pointers!Between(at(axis), a(axis), b(axis))
             /\ Pointers!Between(Fine - at(axis), Fine - a(axis), Fine - b(axis))
  <2>1. lStylus[axis] \in 0 .. Native[axis] - 1
    BY DEF Pointers!TypeOK
  <2>2. QED  BY <2>1, PtrPlaced, Zenon DEF Spot, Edge
<1> HIDE DEF a, b, at
<1>6. ASSUME NEW c1, NEW c2, NEW a1, NEW a2, NEW b1, NEW b2,
             c.at = <<<<c1, Fine>>, <<c2, Fine>>>>,
             Pointers!Corner(rotation, lStylus, 0) = <<<<a1, Fine>>, <<a2, Fine>>>>,
             Pointers!Corner(rotation, lStylus, 1) = <<<<b1, Fine>>, <<b2, Fine>>>>,
             Pointers!Between(c1, a1, b1), Pointers!Between(c2, a2, b2)
      PROVE  \A axis \in 1 .. 2 :
               Pointers!Between(c.at[axis][1],
                 Pointers!Corner(lConfig.rotation, lStylus, 0)[axis][1],
                       Pointers!Corner(lConfig.rotation, lStylus, 1)[axis][1])
  BY <1>2, <1>6
<1>7. c.at = Pointers!SourceToDisplay(rotation, <<at(1), Fine>>, <<at(2), Fine>>)
  BY <1>3 DEF at
<1>8. /\ Pointers!Between(at(1), a(1), b(1))
      /\ Pointers!Between(Fine - at(1), Fine - a(1), Fine - b(1))
      /\ Pointers!Between(at(2), a(2), b(2))
      /\ Pointers!Between(Fine - at(2), Fine - a(2), Fine - b(2))
  BY <1>5
<1>9. CASE rotation = 0
  <2>1. c.at = <<<<at(1), Fine>>, <<at(2), Fine>>>>
    BY <1>7, <1>9, PtrTurned
  <2>2. /\ Pointers!Corner(rotation, lStylus, 0) = <<<<a(1), Fine>>, <<a(2), Fine>>>>
        /\ Pointers!Corner(rotation, lStylus, 1) = <<<<b(1), Fine>>, <<b(2), Fine>>>>
    BY <1>9, PtrCorner DEF a, b
  <2>3. QED  BY <1>4, <1>6, <1>8, <2>1, <2>2
<1>10. CASE rotation = 1
  <2>1. c.at = <<<<Fine - at(2), Fine>>, <<at(1), Fine>>>>
    BY <1>7, <1>10, PtrTurned
  <2>2. /\ Pointers!Corner(rotation, lStylus, 0) = <<<<Fine - a(2), Fine>>, <<a(1), Fine>>>>
        /\ Pointers!Corner(rotation, lStylus, 1) = <<<<Fine - b(2), Fine>>, <<b(1), Fine>>>>
    BY <1>10, PtrCorner DEF a, b
  <2>3. QED  BY <1>4, <1>6, <1>8, <2>1, <2>2
<1>11. CASE rotation = 2
  <2>1. c.at = <<<<Fine - at(1), Fine>>, <<Fine - at(2), Fine>>>>
    BY <1>7, <1>11, PtrTurned
  <2>2. /\ Pointers!Corner(rotation, lStylus, 0) = <<<<Fine - a(1), Fine>>, <<Fine - a(2), Fine>>>>
        /\ Pointers!Corner(rotation, lStylus, 1) = <<<<Fine - b(1), Fine>>, <<Fine - b(2), Fine>>>>
    BY <1>11, PtrCorner DEF a, b
  <2>3. QED  BY <1>4, <1>6, <1>8, <2>1, <2>2
<1>12. CASE rotation = 3
  <2>1. c.at = <<<<at(2), Fine>>, <<Fine - at(1), Fine>>>>
    BY <1>7, <1>12, PtrTurned
  <2>2. /\ Pointers!Corner(rotation, lStylus, 0) = <<<<a(2), Fine>>, <<Fine - a(1), Fine>>>>
        /\ Pointers!Corner(rotation, lStylus, 1) = <<<<b(2), Fine>>, <<Fine - b(1), Fine>>>>
    BY <1>12, PtrCorner DEF a, b
  <2>3. QED  BY <1>4, <1>6, <1>8, <2>1, <2>2
<1>13. QED  BY <1>9, <1>10, <1>11, <1>12

--------------------------------------------------------------------------------
(* The cursor follows the stick, ...                                            *)
Goes(d, a, b) ==
  /\ IF d = 0 THEN b - a = 0 ELSE (b - a) * d >= 0
  /\ a = b /\ d # 0 => a \in {0, Fine}

LEMMA PtrMoved ==
  ASSUME NEW axis \in 1 .. 2, NEW p \in 0 .. Native[axis] - 1, NEW d \in {-1, 0, 1}
  PROVE  LET q(by) == Pointers!Within(p + by, Native[axis] - 1)
         IN  /\ q(d) \in 0 .. Native[axis] - 1 /\ q(-d) \in 0 .. Native[axis] - 1
             /\ Goes(d, Spot(axis, p), Spot(axis, q(d)))
             /\ Goes(d, Fine - Spot(axis, p), Fine - Spot(axis, q(-d)))
<1>1. PICK n \in Nat, e \in Nat :
        n = Native[axis] /\ n >= 2 /\ e > 0 /\ Fine \div (n - 1) = e * n
  BY PtrPixels
<1>2. PICK k \in Nat : k = e * n /\ k > 0
  <2>1. 1 * e <= n * e
    BY <1>1, PtrScale
  <2>2. PICK k \in Nat : k = e * n
    BY <1>1
  <2>3. QED  BY <1>1, <2>1, <2>2
<1>3. PICK f \in Nat : f = Fine
  BY PointersAssumption
<1>4. PICK at \in Int : at = p * k /\ (p = 0 => at = 0) /\ (p = n - 1 => at = f)
  <2>1. p \in Int
    BY <1>1
  <2>2. p * k \in Int /\ Fine \div (Native[axis] - 1) = k
    BY <1>1, <1>2, <2>1
  <2>3. QED  BY <1>1, <1>3, <2>2, PtrPlaced
<1>5. ASSUME NEW by \in {-1, 0, 1}
      PROVE  LET q == Pointers!Within(p + by, n - 1)
             IN  /\ q \in 0 .. n - 1
                 /\ \/ q = p /\ by = 0
                    \/ q * k = at + k /\ by = 1
                    \/ q * k = at - k /\ by = -1
                    \/ q = p /\ by = 1 /\ at = f
                    \/ q = p /\ by = -1 /\ at = 0
  <2>1. p \in Int /\ 0 <= p /\ p <= n - 1
    BY <1>1
  <2>2. PICK q \in Int : q = Pointers!Within(p + by, n - 1) /\ q \in 0 .. n - 1
    BY <1>1, <2>1 DEF Pointers!Within
  <2>3. CASE by = 0
    BY <2>1, <2>2, <2>3 DEF Pointers!Within
  <2>4. CASE by = 1
    <3>1. CASE p = n - 1
      BY <1>4, <2>1, <2>2, <2>4, <3>1 DEF Pointers!Within
    <3>2. CASE p # n - 1
      <4>1. q = p + 1
        BY <1>1, <2>1, <2>2, <2>4, <3>2 DEF Pointers!Within
      <4>2. (p + 1) * k = p * k + k
        BY <2>1
      <4>3. QED  BY <1>4, <2>2, <2>4, <4>1, <4>2
    <3>3. QED  BY <3>1, <3>2
  <2>5. CASE by = -1
    <3>1. CASE p = 0
      BY <1>1, <1>4, <2>1, <2>2, <2>5, <3>1 DEF Pointers!Within
    <3>2. CASE p # 0
      <4>1. q = p - 1
        BY <1>1, <2>1, <2>2, <2>5, <3>2 DEF Pointers!Within
      <4>2. (p - 1) * k = p * k - k
        BY <2>1
      <4>3. QED  BY <1>4, <2>2, <2>5, <4>1, <4>2
    <3>3. QED  BY <3>1, <3>2
  <2>6. QED  BY <2>3, <2>4, <2>5
<1>6. -d \in {-1, 0, 1}
  OBVIOUS
<1>7. PICK q : q = Pointers!Within(p + d, n - 1)
  OBVIOUS
<1>8. PICK t : t = Pointers!Within(p + (-d), n - 1)
  OBVIOUS
<1>9. q \in 0 .. n - 1 /\ t \in 0 .. n - 1
  BY <1>5, <1>6, <1>7, <1>8
<1>10. Goes(d, at, q * k)
  <2>1. PICK to \in Int : to = q * k
    BY <1>9
  <2>2. \/ to = at /\ d = 0
        \/ to = at + k /\ d = 1
        \/ to = at - k /\ d = -1
        \/ to = at /\ d = 1 /\ at = f
        \/ to = at /\ d = -1 /\ at = 0
    BY <1>4, <1>5, <1>7, <2>1
  <2>3. QED  BY <1>2, <1>3, <2>1, <2>2 DEF Goes
<1>11. Goes(d, f - at, f - t * k)
  <2>1. PICK to \in Int : to = t * k
    BY <1>9
  <2>2. \/ to = at /\ d = 0
        \/ to = at + k /\ d = -1
        \/ to = at - k /\ d = 1
        \/ to = at /\ d = -1 /\ at = f
        \/ to = at /\ d = 1 /\ at = 0
    BY <1>4, <1>5, <1>6, <1>8, <2>1
  <2>3. QED  BY <1>2, <1>3, <2>1, <2>2 DEF Goes
<1>12. \A x : Spot(axis, x) = x * k
  BY <1>1, <1>2 DEF Spot
<1>13. QED  BY <1>1, <1>3, <1>4, <1>7, <1>8, <1>9, <1>10, <1>11, <1>12

(* ... and the motion sensor.                                                   *)
Near(n, u, at) == Pointers!Between((4 * at - u * Fine) * 2 * (n - 1), -4 * Fine, 4 * Fine)

Nearest(axis, s) == (2 * s * (Native[axis] - 1) + 4) \div (2 * 4)

LEMMA PtrAimed ==
  ASSUME NEW axis \in 1 .. 2, NEW u \in 0 .. 4
  PROVE  /\ Nearest(axis, u) \in 0 .. Native[axis] - 1
         /\ Near(Native[axis], u, Spot(axis, Nearest(axis, u)))
         /\ Nearest(axis, 4 - u) \in 0 .. Native[axis] - 1
         /\ Near(Native[axis], u, Fine - Spot(axis, Nearest(axis, 4 - u)))
<1>1. /\ Nearest(axis, u) \in 0 .. Native[axis] - 1
      /\ Near(Native[axis], u, Spot(axis, Nearest(axis, u)))
  BY PtrNearest DEF Nearest, Near, Spot
<1>2. PICK s \in 0 .. 4 : s = 4 - u /\ 4 - s = u
  OBVIOUS
<1>3. /\ Nearest(axis, s) \in 0 .. Native[axis] - 1
      /\ Near(Native[axis], 4 - s, Fine - Spot(axis, Nearest(axis, s)))
  BY PtrNearest DEF Nearest, Near, Spot
<1>4. QED  BY <1>1, <1>2, <1>3

LEMMA PtrPlaces ==
  ASSUME NEW u, NEW v, Pointers!Within(u, 4) \in 0 .. 4, Pointers!Within(v, 4) \in 0 .. 4
  PROVE  LET x == Pointers!Within(u, 4)
             y == Pointers!Within(v, 4)
         IN  /\ lRuntime.rotation = 0 =>
                  Pointers!Aimed(u, v)[1] = Nearest(1, x) /\ Pointers!Aimed(u, v)[2] = Nearest(2, y)
             /\ lRuntime.rotation = 1 =>
                  /\ Pointers!Aimed(u, v)[1] = Nearest(1, y)
                  /\ Pointers!Aimed(u, v)[2] = Nearest(2, 4 - x)
             /\ lRuntime.rotation = 2 =>
                  /\ Pointers!Aimed(u, v)[1] = Nearest(1, 4 - x)
                  /\ Pointers!Aimed(u, v)[2] = Nearest(2, 4 - y)
             /\ lRuntime.rotation = 3 =>
                  /\ Pointers!Aimed(u, v)[1] = Nearest(1, 4 - y)
                  /\ Pointers!Aimed(u, v)[2] = Nearest(2, x)
  BY DEF Pointers!Aimed, Nearest, Pointers!DisplayToSource, Pointers!Flip

LEMMA PtrStick ==
  ASSUME Pointers!TypeOK, lRuntime.rotation = lConfig.rotation,
         NEW d \in Pointers!Directions,
         NEW a \in Pointers!MapStylus(lScreens, lConfig.rotation, lStylus),
         NEW b \in Pointers!MapStylus(lScreens, lConfig.rotation, Pointers!Pushed(TRUE, d))
  PROVE  /\ \A axis \in 1 .. 2 :
              LET by == b.at[axis][1] - a.at[axis][1]
              IN  IF d[axis] = 0 THEN by = 0 ELSE by * d[axis] >= 0
         /\ a.at = b.at => \E axis \in 1 .. 2 : d[axis] # 0 /\ a.at[axis][1] \in {0, Fine}
<1>1. Pointers!IsLayout(lScreens) /\ lConfig.rotation \in 0 .. 3
  BY DEF Pointers!TypeOK, Pointers!Configs
<1>2. PICK rotation \in 0 .. 3 : rotation = lConfig.rotation /\ rotation = lRuntime.rotation
  BY <1>1
<1>3. PICK d1, d2 \in {-1, 0, 1} : d = <<d1, d2>> /\ (d1 # 0 \/ d2 # 0)
  BY DEF Pointers!Directions
<1>4. PICK p1, p2 :
        /\ p1 = lStylus[1] /\ p1 \in 0 .. Native[1] - 1
        /\ p2 = lStylus[2] /\ p2 \in 0 .. Native[2] - 1
  BY DEF Pointers!TypeOK
<1> DEFINE on1(by) == Pointers!Within(p1 + by, Native[1] - 1)
           on2(by) == Pointers!Within(p2 + by, Native[2] - 1)
<1>5. a.at = Pointers!SourceToDisplay(rotation, <<Spot(1, p1), Fine>>, <<Spot(2, p2), Fine>>)
  <2>1. a.at = Pointers!SourceToDisplay(lConfig.rotation, <<Spot(1, lStylus[1]), Fine>>,
                               <<Spot(2, lStylus[2]), Fine>>)
    BY <1>1, PtrMapped
  <2>2. QED  BY <1>2, <1>4, <2>1
<1>6. PICK pixel : pixel = Pointers!Pushed(TRUE, d)
  OBVIOUS
<1>7. b.at =
        Pointers!SourceToDisplay(rotation, <<Spot(1, pixel[1]), Fine>>,
                                 <<Spot(2, pixel[2]), Fine>>)
  <2>1. b \in Pointers!MapStylus(lScreens, rotation, pixel)
    BY <1>2, <1>6
  <2>2. QED  BY <1>1, <2>1, PtrMapped
<1>8. ASSUME NEW a1, NEW a2, NEW b1, NEW b2,
             a.at = <<<<a1, Fine>>, <<a2, Fine>>>>, b.at = <<<<b1, Fine>>, <<b2, Fine>>>>,
             Goes(d1, a1, b1), Goes(d2, a2, b2)
      PROVE  /\ \A axis \in 1 .. 2 :
                  LET by == b.at[axis][1] - a.at[axis][1]
                  IN  IF d[axis] = 0 THEN by = 0 ELSE by * d[axis] >= 0
             /\ a.at = b.at => \E axis \in 1 .. 2 :
                      d[axis] # 0 /\ a.at[axis][1] \in {0, Fine}
  <2>1. /\ a.at[1][1] = a1 /\ a.at[2][1] = a2 /\ b.at[1][1] = b1 /\ b.at[2][1] = b2
        /\ d[1] = d1 /\ d[2] = d2
    BY <1>3, <1>8
  <2>2. IF d1 = 0 THEN b1 - a1 = 0 ELSE (b1 - a1) * d1 >= 0
    BY <1>8 DEF Goes
  <2>3. IF d2 = 0 THEN b2 - a2 = 0 ELSE (b2 - a2) * d2 >= 0
    BY <1>8 DEF Goes
  <2>4. ASSUME NEW axis \in 1 .. 2
        PROVE  LET by == b.at[axis][1] - a.at[axis][1]
               IN  IF d[axis] = 0 THEN by = 0 ELSE by * d[axis] >= 0
    <3>1. axis = 1 \/ axis = 2
      OBVIOUS
    <3>2. QED  BY <2>1, <2>2, <2>3, <3>1, Zenon
  <2>5. ASSUME a.at = b.at
        PROVE  \E axis \in 1 .. 2 : d[axis] # 0 /\ a.at[axis][1] \in {0, Fine}
    <3>1. a1 = b1 /\ a2 = b2
      BY <2>1, <2>5
    <3>2. (d1 # 0 => a1 \in {0, Fine}) /\ (d2 # 0 => a2 \in {0, Fine})
      BY <1>8, <3>1 DEF Goes
    <3>3. 1 \in 1 .. 2 /\ 2 \in 1 .. 2
      OBVIOUS
    <3>4. QED  BY <1>3, <2>1, <3>2, <3>3, Zenon
  <2>6. QED  BY <2>4, <2>5
<1>9. \A by1, by2 : Pointers!DeltaToSource(rotation, d1, d2) = <<by1, by2>> =>
        pixel[1] = on1(by1) /\ pixel[2] = on2(by2)
  BY <1>2, <1>3, <1>4, <1>6 DEF Pointers!Pushed, Pointers!SourceDirection
<1>10. 1 \in 1 .. 2 /\ 2 \in 1 .. 2
  OBVIOUS
<1> DEFINE from1 == Spot(1, p1)
           from2 == Spot(2, p2)
           to1(by) == Spot(1, on1(by))
           to2(by) == Spot(2, on2(by))
<1>11. ASSUME NEW by \in {-1, 0, 1}
      PROVE  /\ Goes(by, from1, to1(by)) /\ Goes(by, Fine - from1, Fine - to1(-by))
             /\ Goes(by, from2, to2(by)) /\ Goes(by, Fine - from2, Fine - to2(-by))
  BY <1>4, <1>10, PtrMoved, Zenon
<1>12. ASSUME NEW by1, NEW by2, Pointers!DeltaToSource(rotation, d1, d2) = <<by1, by2>>
      PROVE  b.at = Pointers!SourceToDisplay(rotation, <<to1(by1), Fine>>, <<to2(by2), Fine>>)
  <2>1. pixel[1] = on1(by1) /\ pixel[2] = on2(by2)
    BY <1>9, <1>12, Zenon
  <2>2. QED  BY <1>7, <2>1, Zenon
<1> HIDE DEF on1, on2, from1, from2, to1, to2
<1>13. CASE rotation = 0
  <2>1. Pointers!DeltaToSource(rotation, d1, d2) = <<d1, d2>>
    BY <1>13 DEF Pointers!DeltaToSource
  <2>2. a.at = <<<<from1, Fine>>, <<from2, Fine>>>>
    BY <1>5, <1>13, PtrTurned DEF from1, from2
  <2>3. b.at = Pointers!SourceToDisplay(rotation, <<to1(d1), Fine>>, <<to2(d2), Fine>>)
    BY <1>12, <2>1
  <2>4. b.at = <<<<to1(d1), Fine>>, <<to2(d2), Fine>>>>
    BY <1>13, <2>3, PtrTurned
  <2>5. Goes(d1, from1, to1(d1)) /\ Goes(d2, from2, to2(d2))
    BY <1>11
  <2>6. QED  BY <1>8, <2>2, <2>4, <2>5
<1>14. CASE rotation = 1
  <2>1. Pointers!DeltaToSource(rotation, d1, d2) = <<d2, -d1>>
    BY <1>14 DEF Pointers!DeltaToSource
  <2>2. a.at = <<<<Fine - from2, Fine>>, <<from1, Fine>>>>
    BY <1>5, <1>14, PtrTurned DEF from1, from2
  <2>3. b.at = Pointers!SourceToDisplay(rotation, <<to1(d2), Fine>>, <<to2(-d1), Fine>>)
    BY <1>12, <2>1
  <2>4. b.at = <<<<Fine - to2(-d1), Fine>>, <<to1(d2), Fine>>>>
    BY <1>14, <2>3, PtrTurned
  <2>5. Goes(d1, Fine - from2, Fine - to2(-d1)) /\ Goes(d2, from1, to1(d2))
    BY <1>11
  <2>6. QED  BY <1>8, <2>2, <2>4, <2>5
<1>15. CASE rotation = 2
  <2>1. Pointers!DeltaToSource(rotation, d1, d2) = <<-d1, -d2>>
    BY <1>15 DEF Pointers!DeltaToSource
  <2>2. a.at = <<<<Fine - from1, Fine>>, <<Fine - from2, Fine>>>>
    BY <1>5, <1>15, PtrTurned DEF from1, from2
  <2>3. b.at = Pointers!SourceToDisplay(rotation, <<to1(-d1), Fine>>, <<to2(-d2), Fine>>)
    BY <1>12, <2>1
  <2>4. b.at = <<<<Fine - to1(-d1), Fine>>, <<Fine - to2(-d2), Fine>>>>
    BY <1>15, <2>3, PtrTurned
  <2>5. Goes(d1, Fine - from1, Fine - to1(-d1)) /\ Goes(d2, Fine - from2, Fine - to2(-d2))
    BY <1>11
  <2>6. QED  BY <1>8, <2>2, <2>4, <2>5
<1>16. CASE rotation = 3
  <2>1. Pointers!DeltaToSource(rotation, d1, d2) = <<-d2, d1>>
    BY <1>16 DEF Pointers!DeltaToSource
  <2>2. a.at = <<<<from2, Fine>>, <<Fine - from1, Fine>>>>
    BY <1>5, <1>16, PtrTurned DEF from1, from2
  <2>3. b.at = Pointers!SourceToDisplay(rotation, <<to1(-d2), Fine>>, <<to2(d1), Fine>>)
    BY <1>12, <2>1
  <2>4. b.at = <<<<to2(d1), Fine>>, <<Fine - to1(-d2), Fine>>>>
    BY <1>16, <2>3, PtrTurned
  <2>5. Goes(d1, from2, to2(d1)) /\ Goes(d2, Fine - from1, Fine - to1(-d2))
    BY <1>11
  <2>6. QED  BY <1>8, <2>2, <2>4, <2>5
<1>17. QED  BY <1>13, <1>14, <1>15, <1>16

LEMMA PtrMotion ==
  ASSUME Pointers!TypeOK, lRuntime.rotation = lConfig.rotation, NEW u \in 0 .. 4,
         NEW v \in 0 .. 4,
         NEW b \in Pointers!MapStylus(lScreens, lConfig.rotation, Pointers!Aimed(u, v))
  PROVE  LET n(axis) == Native[IF Pointers!Odd(lConfig.rotation) THEN 3 - axis ELSE axis]
         IN  Near(n(1), u, b.at[1][1]) /\ Near(n(2), v, b.at[2][1])
<1>1. Pointers!IsLayout(lScreens) /\ lConfig.rotation \in 0 .. 3
  BY DEF Pointers!TypeOK, Pointers!Configs
<1>2. PICK rotation \in 0 .. 3 : rotation = lConfig.rotation /\ rotation = lRuntime.rotation
  BY <1>1
<1>3. Pointers!Within(u, 4) = u /\ Pointers!Within(v, 4) = v
  BY DEF Pointers!Within
<1> DEFINE q1 == Pointers!Aimed(u, v)[1]
           q2 == Pointers!Aimed(u, v)[2]
<1>4. b.at = Pointers!SourceToDisplay(rotation, <<Spot(1, q1), Fine>>, <<Spot(2, q2), Fine>>)
  BY <1>1, <1>2, PtrMapped
<1>5. /\ rotation = 0 => q1 = Nearest(1, u) /\ q2 = Nearest(2, v)
      /\ rotation = 1 => q1 = Nearest(1, v) /\ q2 = Nearest(2, 4 - u)
      /\ rotation = 2 => q1 = Nearest(1, 4 - u) /\ q2 = Nearest(2, 4 - v)
      /\ rotation = 3 => q1 = Nearest(1, 4 - v) /\ q2 = Nearest(2, u)
  BY <1>2, <1>3, PtrPlaces
<1>6. ASSUME NEW axis \in 1 .. 2, NEW w \in 0 .. 4
      PROVE  /\ Near(Native[axis], w, Spot(axis, Nearest(axis, w)))
             /\ Near(Native[axis], w, Fine - Spot(axis, Nearest(axis, 4 - w)))
  BY PtrAimed
<1>7. 1 \in 1 .. 2 /\ 2 \in 1 .. 2
  OBVIOUS
<1> HIDE DEF q1, q2
<1>8. CASE rotation = 0
  <2>1. b.at = <<<<Spot(1, q1), Fine>>, <<Spot(2, q2), Fine>>>>
    BY <1>4, <1>8, PtrTurned
  <2>2. b.at[1][1] = Spot(1, Nearest(1, u)) /\ b.at[2][1] = Spot(2, Nearest(2, v))
    BY <1>5, <1>8, <2>1
  <2>3. ~Pointers!Odd(lConfig.rotation)
    BY <1>2, <1>8 DEF Pointers!Odd
  <2>4. QED  BY <1>6, <1>7, <2>2, <2>3
<1>9. CASE rotation = 1
  <2>1. b.at = <<<<Fine - Spot(2, q2), Fine>>, <<Spot(1, q1), Fine>>>>
    BY <1>4, <1>9, PtrTurned
  <2>2. /\ b.at[1][1] = Fine - Spot(2, Nearest(2, 4 - u))
        /\ b.at[2][1] = Spot(1, Nearest(1, v))
    BY <1>5, <1>9, <2>1
  <2>3. Pointers!Odd(lConfig.rotation) /\ 3 - 1 = 2 /\ 3 - 2 = 1
    BY <1>2, <1>9 DEF Pointers!Odd
  <2>4. QED  BY <1>6, <1>7, <2>2, <2>3
<1>10. CASE rotation = 2
  <2>1. b.at = <<<<Fine - Spot(1, q1), Fine>>, <<Fine - Spot(2, q2), Fine>>>>
    BY <1>4, <1>10, PtrTurned
  <2>2. /\ b.at[1][1] = Fine - Spot(1, Nearest(1, 4 - u))
        /\ b.at[2][1] = Fine - Spot(2, Nearest(2, 4 - v))
    BY <1>5, <1>10, <2>1
  <2>3. ~Pointers!Odd(lConfig.rotation)
    BY <1>2, <1>10 DEF Pointers!Odd
  <2>4. QED  BY <1>6, <1>7, <2>2, <2>3
<1>11. CASE rotation = 3
  <2>1. b.at = <<<<Spot(2, q2), Fine>>, <<Fine - Spot(1, q1), Fine>>>>
    BY <1>4, <1>11, PtrTurned
  <2>2. /\ b.at[1][1] = Spot(2, Nearest(2, u))
        /\ b.at[2][1] = Fine - Spot(1, Nearest(1, 4 - v))
    BY <1>5, <1>11, <2>1
  <2>3. Pointers!Odd(lConfig.rotation) /\ 3 - 1 = 2 /\ 3 - 2 = 1
    BY <1>2, <1>11 DEF Pointers!Odd
  <2>4. QED  BY <1>6, <1>7, <2>2, <2>3
<1>12. QED  BY <1>8, <1>9, <1>10, <1>11

--------------------------------------------------------------------------------
LEMMA PointersSafe == Pointers!TypeOK => Pointers!PointedAsSeen
<1> SUFFICES ASSUME Pointers!TypeOK PROVE Pointers!PointedAsSeen
  OBVIOUS
<1>1. Pointers!IsLayout(lScreens) /\ lConfig.rotation \in 0 .. 3
  BY DEF Pointers!TypeOK, Pointers!Configs
<1>2. Pointers!TouchIsSeen
  <2> SUFFICES ASSUME lRuntime.rotation = lConfig.rotation, lRuntime.screens = lScreens,
                      NEW p \in Point
               PROVE  LET pixel == Pointers!MapTouch(lRuntime.screens, lRuntime.rotation, p)
                          seen == {i \in DOMAIN lScreens :
                                    lScreens[i].screen = 1 /\ Pointers!Holds(lScreens[i], p)}
                      IN  IF pixel = Pointers!NoPixel THEN seen = {}
                          ELSE \E i \in seen :
                                Pointers!Shows(lScreens[i], lConfig.rotation, pixel, p)
    BY DEF Pointers!TouchIsSeen, Pointers!InStep
  <2>1. PICK pixel : pixel = Pointers!MapTouch(lScreens, lConfig.rotation, p)
    OBVIOUS
  <2>2. PICK targets :
          targets = {i \in DOMAIN lScreens : lScreens[i].touch /\ Pointers!Holds(lScreens[i], p)}
    OBVIOUS
  <2>3. targets = {i \in DOMAIN lScreens : lScreens[i].screen = 1 /\ Pointers!Holds(lScreens[i], p)}
    BY <1>1, <2>2 DEF Pointers!IsLayout
  <2>4. /\ targets = {} => pixel = Pointers!NoPixel
        /\ targets # {} =>
             /\ pixel # Pointers!NoPixel
             /\ \E i \in targets : Pointers!Shows(lScreens[i], lConfig.rotation, pixel, p)
    BY <1>1, <2>1, <2>2, PtrTouched
  <2>5. QED  BY <2>1, <2>3, <2>4
<1>3. Pointers!CursorIsStylus
  BY PtrCursor
<1>4. Pointers!CursorFollows
  <2> SUFFICES ASSUME lRuntime.rotation = lConfig.rotation
               PROVE  /\ \A d \in Pointers!Directions :
                           \A a \in Pointers!MapStylus(lScreens, lConfig.rotation, lStylus),
                              b \in Pointers!MapStylus(lScreens, lConfig.rotation,
                                                      Pointers!Pushed(TRUE, d)) :
                             /\ \A axis \in 1 .. 2 :
                                  LET by == b.at[axis][1] - a.at[axis][1]
                                  IN  IF d[axis] = 0 THEN by = 0 ELSE by * d[axis] >= 0
                             /\ a.at = b.at =>
                                  \E axis \in 1 .. 2 :
                                        d[axis] # 0 /\ a.at[axis][1] \in {0, Fine}
                      /\ \A u \in 0 .. 4, v \in 0 .. 4 :
                           \A b \in Pointers!MapStylus(lScreens, lConfig.rotation,
                                                    Pointers!Aimed(u, v)), axis \in 1 .. 2 :
                             Near(Native[IF Pointers!Odd(lConfig.rotation) THEN 3 - axis ELSE axis],
                                  <<u, v>>[axis], b.at[axis][1])
    BY Zenon DEF Pointers!CursorFollows, Pointers!InStep, Near
  <2>1. ASSUME NEW u \in 0 .. 4, NEW v \in 0 .. 4,
               NEW b \in Pointers!MapStylus(lScreens, lConfig.rotation, Pointers!Aimed(u, v)),
               NEW axis \in 1 .. 2
        PROVE  Near(Native[IF Pointers!Odd(lConfig.rotation) THEN 3 - axis ELSE axis],
                    <<u, v>>[axis], b.at[axis][1])
    <3>1. axis = 1 \/ axis = 2
      OBVIOUS
    <3>2. <<u, v>>[1] = u /\ <<u, v>>[2] = v
      OBVIOUS
    <3>3. QED  BY <3>1, <3>2, PtrMotion, Zenon
  <2>2. QED  BY <2>1, PtrStick
<1>5. QED  BY <1>2, <1>3, <1>4 DEF Pointers!PointedAsSeen

--------------------------------------------------------------------------------
LEMMA PointersInit == Pointers!Init => Pointers!TypeOK
<1> SUFFICES ASSUME Pointers!Init PROVE Pointers!TypeOK
  OBVIOUS
<1>1. lConfig \in Pointers!Configs /\ lScreens = Pointers!Calculated(lConfig)
  BY DEF Pointers!Init
<1>2. Pointers!IsLayout(lScreens)
  BY <1>1, PtrCalculated
<1>3. lMenu \in BOOLEAN /\ lShown \in BOOLEAN
  BY DEF Pointers!Init
<1>4. PICK rotation \in 0 .. 3 : rotation = lConfig.rotation
  BY <1>1 DEF Pointers!Configs
<1>5. /\ lRuntime.on \in BOOLEAN /\ lRuntime.rotation \in 0 .. 3
      /\ lRuntime.screens = lScreens
  <2>1. lRuntime = [on |-> TRUE, rotation |-> rotation, screens |-> lScreens]
    BY <1>4 DEF Pointers!Init
  <2>2. QED  BY <2>1
<1>6. ASSUME NEW axis \in 1 .. 2 PROVE lStylus[axis] \in 0 .. Native[axis] - 1
  <2>1. PICK n \in Nat : n = Native[axis] /\ n >= 2
    BY PtrPixels
  <2>2. lStylus[axis] = n \div 2
    BY <2>1 DEF Pointers!Init, Pointers!Half
  <2>3. QED  BY <2>1, <2>2
<1>7. QED  BY <1>1, <1>2, <1>3, <1>5, <1>6 DEF Pointers!TypeOK

(* A place on the touch screen is a pixel of it.                                *)
IsPixel(p) == \A axis \in 1 .. 2 : p[axis] \in 0 .. Native[axis] - 1

LEMMA PtrTaken == ASSUME Pointers!TypeOK, Pointers!Mouse PROVE IsPixel(lStylus')
<1>1. Pointers!IsLayout(lRuntime.screens) /\ lRuntime.rotation \in 0 .. 3
  BY DEF Pointers!TypeOK
<1>2. PICK p \in Point :
        /\ Pointers!MapTouch(lRuntime.screens, lRuntime.rotation, p) # Pointers!NoPixel
        /\ lStylus' = Pointers!MapTouch(lRuntime.screens, lRuntime.rotation, p)
  BY DEF Pointers!Mouse
<1>3. QED  BY <1>1, <1>2, PtrTouched DEF IsPixel

LEMMA PtrPushed == ASSUME Pointers!TypeOK, Pointers!Stick PROVE IsPixel(lStylus')
<1>1. PICK d \in Pointers!Directions, upright \in BOOLEAN : lStylus' = Pointers!Pushed(upright, d)
  BY DEF Pointers!Stick
<1>2. PICK rotation \in 0 .. 3 : rotation = lRuntime.rotation
  BY DEF Pointers!TypeOK
<1>3. PICK d1, d2 \in {-1, 0, 1} : d = <<d1, d2>>
  BY DEF Pointers!Directions
<1>4. PICK by1, by2 \in {-1, 0, 1} : Pointers!SourceDirection(upright, d) = <<by1, by2>>
  <2>1. CASE upright
    <3>1. Pointers!SourceDirection(upright, d) = Pointers!DeltaToSource(rotation, d1, d2)
      BY <1>2, <1>3, <2>1 DEF Pointers!SourceDirection
    <3>2. \E by1, by2 \in {-1, 0, 1} :
                Pointers!DeltaToSource(rotation, d1, d2) = <<by1, by2>>
      BY DEF Pointers!DeltaToSource
    <3>3. QED  BY <3>1, <3>2
  <2>2. CASE ~upright
    BY <1>3, <2>2 DEF Pointers!SourceDirection
  <2>3. QED  BY <2>1, <2>2
<1>5. ASSUME NEW axis \in 1 .. 2 PROVE lStylus'[axis] \in 0 .. Native[axis] - 1
  <2>1. PICK by \in {-1, 0, 1} : by = Pointers!SourceDirection(upright, d)[axis]
    BY <1>4
  <2>2. lStylus'[axis] = Pointers!Within(lStylus[axis] + by, Native[axis] - 1)
    BY <1>1, <2>1 DEF Pointers!Pushed
  <2>3. PICK p : p = lStylus[axis] /\ p \in 0 .. Native[axis] - 1
    BY DEF Pointers!TypeOK
  <2>4. Pointers!Within(p + by, Native[axis] - 1) \in 0 .. Native[axis] - 1
    BY <2>3, PtrMoved
  <2>5. QED  BY <2>2, <2>3, <2>4
<1>6. QED  BY <1>5 DEF IsPixel

LEMMA PtrPointed == ASSUME Pointers!TypeOK, Pointers!Motion PROVE IsPixel(lStylus')
<1>1. PICK u \in -1 .. 5, v \in -1 .. 5 : lStylus' = Pointers!Aimed(u, v)
  BY DEF Pointers!Motion
<1>2. PICK rotation \in 0 .. 3 : rotation = lRuntime.rotation
  BY DEF Pointers!TypeOK
<1>3. PICK x, y \in 0 .. 4 : x = Pointers!Within(u, 4) /\ y = Pointers!Within(v, 4)
  <2>1. Pointers!Within(u, 4) \in 0 .. 4 /\ Pointers!Within(v, 4) \in 0 .. 4
    BY DEF Pointers!Within
  <2>2. QED  BY <2>1
<1>4. PICK s, t \in 0 .. 4 : lStylus'[1] = Nearest(1, s) /\ lStylus'[2] = Nearest(2, t)
  <2>1. 4 - x \in 0 .. 4 /\ 4 - y \in 0 .. 4
    OBVIOUS
  <2>2. /\ rotation = 0 => lStylus'[1] = Nearest(1, x) /\ lStylus'[2] = Nearest(2, y)
        /\ rotation = 1 => lStylus'[1] = Nearest(1, y) /\ lStylus'[2] = Nearest(2, 4 - x)
        /\ rotation = 2 => lStylus'[1] = Nearest(1, 4 - x) /\ lStylus'[2] = Nearest(2, 4 - y)
        /\ rotation = 3 => lStylus'[1] = Nearest(1, 4 - y) /\ lStylus'[2] = Nearest(2, x)
    BY <1>1, <1>2, <1>3, PtrPlaces
  <2>3. rotation = 0 \/ rotation = 1 \/ rotation = 2 \/ rotation = 3
    OBVIOUS
  <2>4. QED  BY <2>1, <2>2, <2>3, Zenon
<1>5. Nearest(1, s) \in 0 .. Native[1] - 1 /\ Nearest(2, t) \in 0 .. Native[2] - 1
  <2>1. 1 \in 1 .. 2 /\ 2 \in 1 .. 2
    OBVIOUS
  <2>2. QED  BY <2>1, PtrAimed, Zenon
<1>6. QED  BY <1>4, <1>5 DEF IsPixel

LEMMA PtrConfigs ==
  ASSUME NEW c \in Pointers!Configs
  PROVE  /\ [c EXCEPT !.swap = ~@] \in Pointers!Configs
         /\ [c EXCEPT !.integer = ~@] \in Pointers!Configs
         /\ \A layout \in Pointers!Layouts :
               [c EXCEPT !.layout = layout] \in Pointers!Configs
         /\ \A turn \in {1, 3} : [c EXCEPT !.rotation = (@ + turn) % 4] \in Pointers!Configs
         /\ \A gap \in Gaps : [c EXCEPT !.gap = gap] \in Pointers!Configs
         /\ \A both \in Customs : [c EXCEPT !.custom = both] \in Pointers!Configs
<1>1. ASSUME NEW turn \in {1, 3} PROVE [c EXCEPT !.rotation = (@ + turn) % 4] \in Pointers!Configs
  <2>1. PICK rotation \in 0 .. 3 : rotation = c.rotation
    BY DEF Pointers!Configs
  <2>2. PICK next \in 0 .. 3 : next = (rotation + turn) % 4
    OBVIOUS
  <2>3. [c EXCEPT !.rotation = (@ + turn) % 4] = [c EXCEPT !.rotation = next]
    BY <2>1, <2>2 DEF Pointers!Configs
  <2>4. QED  BY <2>3 DEF Pointers!Configs
<1>2. /\ [c EXCEPT !.swap = ~@] \in Pointers!Configs
      /\ [c EXCEPT !.integer = ~@] \in Pointers!Configs
  BY DEF Pointers!Configs
<1>3. QED  BY <1>1, <1>2 DEF Pointers!Configs

(* The sampler gets the layout that the main thread has.                        *)
LEMMA PtrHanded ==
  ASSUME lConfig' \in Pointers!Configs, Pointers!IsLayout(lScreens'), NEW on \in BOOLEAN,
         lRuntime' = Pointers!Handed(on)
  PROVE  /\ lRuntime'.on \in BOOLEAN /\ lRuntime'.rotation \in 0 .. 3
         /\ Pointers!IsLayout(lRuntime'.screens)
<1>1. PICK rotation \in 0 .. 3 : rotation = lConfig'.rotation
  BY DEF Pointers!Configs
<1>2. lRuntime' = [on |-> on, rotation |-> rotation, screens |-> lScreens']
  BY <1>1 DEF Pointers!Handed
<1>3. lRuntime'.on = on /\ lRuntime'.rotation = rotation /\ lRuntime'.screens = lScreens'
  BY <1>2
<1>4. QED  BY <1>3

LEMMA PointersStep == Pointers!TypeOK /\ Pointers!Next => Pointers!TypeOK'
<1> SUFFICES ASSUME Pointers!TypeOK, Pointers!Next PROVE Pointers!TypeOK'
  OBVIOUS
<1>1. ASSUME lConfig' \in Pointers!Configs, Pointers!IsLayout(lScreens'),
        lMenu' \in BOOLEAN, lShown' \in BOOLEAN,
             NEW on \in BOOLEAN, lRuntime' = Pointers!Handed(on), lStylus' = lStylus
      PROVE  Pointers!TypeOK'
  BY <1>1, PtrHanded DEF Pointers!TypeOK
<1>2. ASSUME IsPixel(lStylus'), UNCHANGED <<Pointers!host, lRuntime>>
      PROVE  Pointers!TypeOK'
  BY <1>2 DEF Pointers!TypeOK, Pointers!host, IsPixel
<1>3. /\ lConfig \in Pointers!Configs /\ Pointers!IsLayout(lScreens) /\ lMenu \in BOOLEAN
      /\ lShown \in BOOLEAN
  BY DEF Pointers!TypeOK
<1>4. CASE Pointers!ProcessInput
  <2>1. lConfig' \in Pointers!Configs
    BY <1>3, <1>4, PtrConfigs DEF Pointers!ProcessInput
  <2>2. Pointers!IsLayout(lScreens')
    BY <1>3, <1>4, <2>1, PtrCalculated DEF Pointers!ProcessInput
  <2>3. /\ lMenu' \in BOOLEAN /\ lShown' \in BOOLEAN
        /\ lRuntime' = Pointers!Handed(TRUE) /\ lStylus' = lStylus
    BY <1>3, <1>4 DEF Pointers!ProcessInput, Pointers!Drawn
  <2>4. QED  BY <1>1, <2>1, <2>2, <2>3
<1>5. CASE Pointers!OpenMenu
  <2>1. /\ lConfig' \in Pointers!Configs /\ Pointers!IsLayout(lScreens')
        /\ lMenu' \in BOOLEAN /\ lShown' \in BOOLEAN
        /\ lRuntime' = Pointers!Handed(FALSE) /\ lStylus' = lStylus
    BY <1>3, <1>5 DEF Pointers!OpenMenu
  <2>2. QED  BY <1>1, <2>1
<1>6. CASE Pointers!MenuFrame
  <2>1. lConfig' \in Pointers!Configs
    BY <1>3, <1>6, PtrConfigs, Zenon DEF Pointers!MenuFrame
  <2>2. Pointers!IsLayout(lScreens')
    BY <1>6, <2>1, PtrCalculated DEF Pointers!MenuFrame
  <2>3. /\ lMenu' \in BOOLEAN /\ lShown' \in BOOLEAN
        /\ lRuntime' = Pointers!Handed(~lMenu') /\ lStylus' = lStylus
    BY <1>3, <1>6 DEF Pointers!MenuFrame, Pointers!Drawn
  <2>4. PICK on \in BOOLEAN : on <=> ~lMenu'
    BY <2>3
  <2>5. lRuntime' = Pointers!Handed(on)
    BY <2>3, <2>4
  <2>6. QED  BY <1>1, <2>1, <2>2, <2>3, <2>5
<1>7. CASE Pointers!Present
  <2>1. lShown' \in BOOLEAN /\ UNCHANGED <<lConfig, lScreens, lMenu, lRuntime, lStylus>>
    BY <1>3, <1>7 DEF Pointers!Present
  <2>2. QED  BY <2>1 DEF Pointers!TypeOK
<1>8. CASE Pointers!Mouse
  BY <1>2, <1>8, PtrTaken DEF Pointers!Mouse
<1>9. CASE Pointers!Stick
  BY <1>2, <1>9, PtrPushed DEF Pointers!Stick
<1>10. CASE Pointers!Motion
  BY <1>2, <1>10, PtrPointed DEF Pointers!Motion
<1>11. QED  BY <1>4, <1>5, <1>6, <1>7, <1>8, <1>9, <1>10 DEF Pointers!Next

LEMMA PointersStutter == Pointers!TypeOK /\ UNCHANGED Pointers!vars => Pointers!TypeOK'
  BY DEF Pointers!TypeOK, Pointers!vars, Pointers!host

HIDE DEF lConfig, lScreens, lMenu, lRuntime, lShown, lStylus

--------------------------------------------------------------------------------
(* Editor: an edit changes what is seen the way it was asked to.              *)

dEditing == v1
dRotation == v2
dLayout == v3
dLock == v4
dRect == v5
dSaved == v6
dBackup == v7
dScreen == v8
dAsked == v9

USE DEF dEditing, dRotation, dLayout, dLock, dRect, dSaved, dBackup, dScreen, dAsked

(* A rectangle by its numbers. *)
EdRect(x, y, w, h) == [x |-> x, y |-> y, w |-> w, h |-> h]

EdFits(x, y, w, h) ==
  /\ ShortestSide <= w /\ ShortestSide <= h
  /\ 0 <= x /\ x + w <= SquareSide /\ 0 <= y /\ y + h <= SquareSide

(* A rectangle on the panel. *)
IsFit(r) == \E x, y, w, h \in Int : r = EdRect(x, y, w, h) /\ EdFits(x, y, w, h)

LEMMA EdSides ==
  \E n, m \in Nat : SquareSide = 24 * n /\ ShortestSide = 12 * m /\ 1 <= m /\ 4 * m <= 3 * n
<1>1. PICK n \in Nat : SquareSide = 24 * n
  <2>1. SquareSide \div 24 \in Nat /\ SquareSide = 24 * (SquareSide \div 24)
    BY EditorAssumption
  <2>2. QED  BY <2>1
<1>2. PICK m \in Nat : ShortestSide = 12 * m
  <2>1. ShortestSide \div 12 \in Nat /\ ShortestSide = 12 * (ShortestSide \div 12)
    BY EditorAssumption
  <2>2. QED  BY <2>1
<1>3. 1 <= m /\ 4 * m <= 3 * n
  BY <1>1, <1>2, EditorAssumption
<1>4. QED  BY <1>1, <1>2, <1>3

LEMMA EdFields ==
  ASSUME NEW x, NEW y, NEW w, NEW h
  PROVE  /\ EdRect(x, y, w, h).x = x /\ EdRect(x, y, w, h).y = y
         /\ EdRect(x, y, w, h).w = w /\ EdRect(x, y, w, h).h = h
  BY DEF EdRect

(* Where it is seen, in each orientation. *)
LEMMA EdToUi ==
  ASSUME NEW x, NEW y, NEW w, NEW h
  PROVE  LET r == EdRect(x, y, w, h)
         IN  /\ dRotation = 0 => Editor!ToUi(r) = r
             /\ dRotation = 1 => Editor!ToUi(r) = EdRect(y, SquareSide - x - w, h, w)
             /\ dRotation = 2 =>
                  Editor!ToUi(r) = EdRect(SquareSide - x - w, SquareSide - y - h, w, h)
             /\ dRotation = 3 => Editor!ToUi(r) = EdRect(SquareSide - y - h, x, h, w)
<1>1. PICK r : r = EdRect(x, y, w, h)
  OBVIOUS
<1>2. dRotation = 0 => Editor!ToUi(r) = r
  BY DEF Editor!ToUi
<1>3. dRotation = 1 => Editor!ToUi(r) = EdRect(y, SquareSide - x - w, h, w)
  BY <1>1 DEF Editor!ToUi, EdRect
<1>4. ASSUME dRotation = 2
      PROVE  Editor!ToUi(r) = EdRect(SquareSide - x - w, SquareSide - y - h, w, h)
  <2>1. Editor!ToUi(r) = [r EXCEPT !.x = SquareSide - @ - r.w, !.y = SquareSide - @ - r.h]
    BY <1>4 DEF Editor!ToUi
  <2>2. QED  BY <1>1, <2>1 DEF EdRect
<1>5. dRotation = 3 => Editor!ToUi(r) = EdRect(SquareSide - y - h, x, h, w)
  BY <1>1 DEF Editor!ToUi, EdRect
<1>6. QED  BY <1>1, <1>2, <1>3, <1>4, <1>5

LEMMA EdFromUi ==
  ASSUME NEW x, NEW y, NEW w, NEW h
  PROVE  LET u == EdRect(x, y, w, h)
         IN  /\ dRotation = 0 => Editor!FromUi(u) = u
             /\ dRotation = 1 => Editor!FromUi(u) = EdRect(SquareSide - y - h, x, h, w)
             /\ dRotation = 2 =>
                  Editor!FromUi(u) = EdRect(SquareSide - x - w, SquareSide - y - h, w, h)
             /\ dRotation = 3 => Editor!FromUi(u) = EdRect(y, SquareSide - x - w, h, w)
<1>1. PICK u : u = EdRect(x, y, w, h)
  OBVIOUS
<1>2. dRotation = 0 => Editor!FromUi(u) = u
  BY DEF Editor!FromUi
<1>3. dRotation = 1 => Editor!FromUi(u) = EdRect(SquareSide - y - h, x, h, w)
  BY <1>1 DEF Editor!FromUi, EdRect
<1>4. ASSUME dRotation = 2
      PROVE  Editor!FromUi(u) = EdRect(SquareSide - x - w, SquareSide - y - h, w, h)
  <2>1. Editor!FromUi(u) = [u EXCEPT !.x = SquareSide - @ - u.w, !.y = SquareSide - @ - u.h]
    BY <1>4 DEF Editor!FromUi
  <2>2. QED  BY <1>1, <2>1 DEF EdRect
<1>5. dRotation = 3 => Editor!FromUi(u) = EdRect(y, SquareSide - x - w, h, w)
  BY <1>1 DEF Editor!FromUi, EdRect
<1>6. QED  BY <1>1, <1>2, <1>3, <1>4, <1>5

(* Turning back and forth is the identity and stays on the panel. *)
LEMMA EdTurns ==
  ASSUME dRotation \in 0 .. 3, NEW r, IsFit(r)
  PROVE  /\ IsFit(Editor!ToUi(r)) /\ Editor!FromUi(Editor!ToUi(r)) = r
         /\ IsFit(Editor!FromUi(r)) /\ Editor!ToUi(Editor!FromUi(r)) = r
<1>1. PICK side \in Int : side = SquareSide
  BY EdSides
<1>2. PICK x, y, w, h \in Int : r = EdRect(x, y, w, h) /\ EdFits(x, y, w, h)
  BY DEF IsFit
<1>3. \A a, b, c, d \in Int : EdFits(a, b, c, d) => IsFit(EdRect(a, b, c, d))
  BY DEF IsFit
<1>4. /\ EdFits(y, side - x - w, h, w) /\ EdFits(side - x - w, side - y - h, w, h)
      /\ EdFits(side - y - h, x, h, w)
  BY <1>1, <1>2, EdSides DEF EdFits
<1>5. /\ IsFit(EdRect(y, side - x - w, h, w))
      /\ IsFit(EdRect(side - x - w, side - y - h, w, h))
      /\ IsFit(EdRect(side - y - h, x, h, w))
  <2>1. side - x - w \in Int /\ side - y - h \in Int
    OBVIOUS
  <2>2. QED  BY <1>3, <1>4, <2>1
<1>6. side - (side - x - w) - w = x /\ side - (side - y - h) - h = y
  OBVIOUS
<1>7. CASE dRotation = 0
  BY <1>2, <1>7, EdToUi, EdFromUi
<1>8. CASE dRotation = 1
  <2>1. /\ Editor!ToUi(r) = EdRect(y, side - x - w, h, w)
        /\ Editor!FromUi(r) = EdRect(side - y - h, x, h, w)
    BY <1>1, <1>2, <1>8, EdToUi, EdFromUi
  <2>2. Editor!FromUi(Editor!ToUi(r)) = r /\ Editor!ToUi(Editor!FromUi(r)) = r
    BY <1>1, <1>2, <1>6, <1>8, <2>1, EdToUi, EdFromUi
  <2>3. QED  BY <1>5, <2>1, <2>2
<1>9. CASE dRotation = 2
  <2>1. /\ Editor!ToUi(r) = EdRect(side - x - w, side - y - h, w, h)
        /\ Editor!FromUi(r) = EdRect(side - x - w, side - y - h, w, h)
    BY <1>1, <1>2, <1>9, EdToUi, EdFromUi
  <2>2. Editor!FromUi(Editor!ToUi(r)) = r /\ Editor!ToUi(Editor!FromUi(r)) = r
    BY <1>1, <1>2, <1>6, <1>9, <2>1, EdToUi, EdFromUi
  <2>3. QED  BY <1>5, <2>1, <2>2
<1>10. CASE dRotation = 3
  <2>1. /\ Editor!ToUi(r) = EdRect(side - y - h, x, h, w)
        /\ Editor!FromUi(r) = EdRect(y, side - x - w, h, w)
    BY <1>1, <1>2, <1>10, EdToUi, EdFromUi
  <2>2. Editor!FromUi(Editor!ToUi(r)) = r /\ Editor!ToUi(Editor!FromUi(r)) = r
    BY <1>1, <1>2, <1>6, <1>10, <2>1, EdToUi, EdFromUi
  <2>3. QED  BY <1>5, <2>1, <2>2
<1>11. QED  BY <1>7, <1>8, <1>9, <1>10

(* A rectangle is kept on the panel by moving it, and one that is there stays.  *)
EdMoves(x, y, w, h, a, b) ==
  /\ a = Editor!Clamp(x, 0, SquareSide - w) /\ b = Editor!Clamp(y, 0, SquareSide - h)
  /\ Editor!Placed(EdRect(x, y, w, h)) = EdRect(a, b, w, h)
  /\ ShortestSide <= w /\ w <= SquareSide /\ ShortestSide <= h /\ h <= SquareSide =>
       EdFits(a, b, w, h)
  /\ EdFits(x, y, w, h) => a = x /\ b = y

LEMMA EdPlaced ==
  ASSUME NEW x \in Int, NEW y \in Int, NEW w \in Int, NEW h \in Int
  PROVE  \E a, b \in Int : EdMoves(x, y, w, h, a, b)
<1>1. PICK side \in Int : side = SquareSide
  BY EdSides
<1>2. PICK r : r = EdRect(x, y, w, h)
  OBVIOUS
<1>3. PICK a, b \in Int : a = Editor!Clamp(x, 0, side - w) /\ b = Editor!Clamp(y, 0, side - h)
  <2>1. Editor!Clamp(x, 0, side - w) \in Int /\ Editor!Clamp(y, 0, side - h) \in Int
    BY DEF Editor!Clamp
  <2>2. QED  BY <2>1
<1>4. Editor!Placed(r) = EdRect(a, b, w, h)
  <2>1. PICK p : p = [r EXCEPT !.x = Editor!Clamp(@, 0, SquareSide - r.w),
          !.y = Editor!Clamp(@, 0, SquareSide - r.h)]
    OBVIOUS
  <2>2. p = EdRect(a, b, w, h)
    BY <1>1, <1>2, <1>3, <2>1 DEF EdRect
  <2>3. QED  BY <2>1, <2>2 DEF Editor!Placed
<1>5. ShortestSide <= w /\ w <= side /\ ShortestSide <= h /\ h <= side => EdFits(a, b, w, h)
  BY <1>1, <1>3, EdSides DEF EdFits, Editor!Clamp
<1>6. EdFits(x, y, w, h) => a = x /\ b = y
  BY <1>1, <1>3, EdSides DEF EdFits, Editor!Clamp
<1>7. EdMoves(x, y, w, h, a, b)
  BY <1>1, <1>2, <1>3, <1>4, <1>5, <1>6 DEF EdMoves
<1>8. QED  BY <1>7

(* Bounding the size as well. *)
EdBounds(x, y, w, h, a, b, c, d) ==
  /\ Editor!Constrained(EdRect(x, y, w, h)) = EdRect(a, b, c, d)
  /\ EdFits(a, b, c, d)
  /\ a = Editor!Clamp(x, 0, SquareSide - c) /\ b = Editor!Clamp(y, 0, SquareSide - d)
  /\ c = Editor!Clamp(w, ShortestSide, SquareSide)
  /\ d = Editor!Clamp(h, ShortestSide, SquareSide)
  /\ EdFits(x, y, w, h) => a = x /\ b = y /\ c = w /\ d = h

LEMMA EdConstrained ==
  ASSUME NEW x \in Int, NEW y \in Int, NEW w \in Int, NEW h \in Int
  PROVE  \E a, b, c, d \in Int : EdBounds(x, y, w, h, a, b, c, d)
<1>1. PICK side, least \in Int : side = SquareSide /\ least =
        ShortestSide /\ 0 < least /\ least <= side
  BY EdSides
<1>2. PICK c, d \in Int :
        /\ c = Editor!Clamp(w, ShortestSide, SquareSide) /\ least <= c /\ c <= side
        /\ d = Editor!Clamp(h, ShortestSide, SquareSide) /\ least <= d /\ d <= side
  BY <1>1 DEF Editor!Clamp
<1>3. Editor!Constrained(EdRect(x, y, w, h)) = Editor!Placed(EdRect(x, y, c, d))
  <2>1. PICK r : r = EdRect(x, y, w, h)
    OBVIOUS
  <2>2. PICK p : p = [r EXCEPT !.w = Editor!Clamp(@, ShortestSide, SquareSide),
          !.h = Editor!Clamp(@, ShortestSide, SquareSide)]
    OBVIOUS
  <2>3. p = EdRect(x, y, c, d)
    BY <1>2, <2>1, <2>2 DEF EdRect
  <2>4. QED  BY <2>1, <2>2, <2>3 DEF Editor!Constrained
<1>4. EdFits(x, y, w, h) => c = w /\ d = h
  BY <1>1, <1>2 DEF EdFits, Editor!Clamp
<1>5. PICK a, b \in Int : EdMoves(x, y, c, d, a, b)
  BY EdPlaced
<1>6. EdFits(a, b, c, d)
  BY <1>1, <1>2, <1>5 DEF EdMoves
<1>7. EdFits(x, y, w, h) => a = x /\ b = y
  <2>1. SUFFICES ASSUME EdFits(x, y, w, h) PROVE a = x /\ b = y
    OBVIOUS
  <2>2. EdFits(x, y, c, d)
    <3>1. c = w /\ d = h
      BY <1>4, <2>1
    <3>2. QED  BY <2>1, <3>1
  <2>3. QED  BY <1>5, <2>2 DEF EdMoves
<1>8. EdBounds(x, y, w, h, a, b, c, d)
  BY <1>2, <1>3, <1>4, <1>5, <1>6, <1>7 DEF EdMoves, EdBounds
<1>9. QED  BY <1>8

LEMMA EdStays ==
  ASSUME NEW r, IsFit(r) PROVE Editor!Constrained(r) = r
<1>1. PICK x, y, w, h \in Int : r = EdRect(x, y, w, h) /\ EdFits(x, y, w, h)
  BY DEF IsFit
<1>2. PICK a, b, c, d \in Int : EdBounds(x, y, w, h, a, b, c, d)
  BY EdConstrained
<1>3. QED  BY <1>1, <1>2 DEF EdBounds

(* The aspect of what is seen: the side that drives is a whole multiple of the  *)
(* aspect's, and so is the one that follows; one that has the aspect stays.     *)
EdShapes(r, x, y, w, h, a, b, c, d, native) ==
  /\ r = EdRect(a, b, c, d) /\ EdFits(a, b, c, d)
  /\ EdFits(x, y, w, h) /\ native => a = x /\ b = y /\ c = w /\ d = h

LEMMA EdWide ==
  ASSUME NEW x \in Int, NEW y \in Int, NEW w \in Int, NEW h \in Int,
         NEW drives \in BOOLEAN, NEW centred \in BOOLEAN,
         drives => w % 4 = 0, ~drives => h % 3 = 0
  PROVE  \E a, b, k \in Int :
           EdShapes(Editor!WithAspect(EdRect(x, y, w, h), <<4, 3>>, drives, centred),
                    x, y, w, h, a, b, 4 * k, 3 * k, 3 * w = 4 * h)
<1>1. PICK n, m \in Nat : SquareSide = 24 * n /\ ShortestSide = 12 * m /\ 1 <= m /\ 4 * m <= 3 * n
  BY EdSides
<1>2. PICK k \in Int :
        /\ 3 * k = Editor!Clamp(IF drives THEN (w * 3) \div 4 ELSE h, 12 * m, 18 * n)
        /\ 4 * m <= k /\ k <= 6 * n
        /\ 12 * m <= h /\ 4 * h <= 72 * n /\ 3 * w = 4 * h => 3 * k = h
  <2>1. PICK v \in Int : 3 * v = (IF drives THEN (w * 3) \div 4 ELSE h)
    <3>1. CASE drives
      <4>1. PICK v \in Int : w = 4 * v
        <5>1. w \div 4 \in Int /\ w = 4 * (w \div 4)
          BY <3>1
        <5>2. QED  BY <5>1
      <4>2. (w * 3) \div 4 = 3 * v
        BY <4>1
      <4>3. QED  BY <3>1, <4>2
    <3>2. CASE ~drives
      <4>1. h \div 3 \in Int /\ h = 3 * (h \div 3)
        BY <3>2
      <4>2. QED  BY <3>2, <4>1
    <3>3. QED  BY <3>1, <3>2
  <2>2. PICK k \in Int : k = Editor!Clamp(v, 4 * m, 6 * n)
    <3>1. Editor!Clamp(v, 4 * m, 6 * n) \in Int
      BY DEF Editor!Clamp
    <3>2. QED  BY <3>1
  <2>3. 3 * k = Editor!Clamp(3 * v, 12 * m, 18 * n) /\ 4 * m <= k /\ k <= 6 * n
    BY <1>1, <2>2 DEF Editor!Clamp
  <2>4. 12 * m <= h /\ 4 * h <= 72 * n /\ 3 * w = 4 * h => 3 * k = h
    <3>1. 3 * w = 4 * h => 3 * v = h
      BY <2>1
    <3>2. QED  BY <2>3, <3>1 DEF Editor!Clamp
  <2>5. QED  BY <2>1, <2>3, <2>4
<1>3. PICK a, b \in Int :
        /\ a = (IF centred THEN x + (w - 4 * k) \div 2 ELSE x)
        /\ b = (IF centred THEN y + (h - 3 * k) \div 2 ELSE y)
  <2>1. /\ (IF centred THEN x + (w - 4 * k) \div 2 ELSE x) \in Int
        /\ (IF centred THEN y + (h - 3 * k) \div 2 ELSE y) \in Int
    OBVIOUS
  <2>2. QED  BY <2>1
<1>4. Editor!WithAspect(EdRect(x, y, w, h), <<4, 3>>, drives,
        centred) = Editor!Placed(EdRect(a, b, 4 * k, 3 * k))
  <2>1. PICK r : r = EdRect(x, y, w, h)
    OBVIOUS
  <2>2. /\ Editor!Greater(ShortestSide, (ShortestSide * 3) \div 4) = 12 * m
        /\ Editor!Smaller(SquareSide, (SquareSide * 3) \div 4) = 18 * n
    BY <1>1 DEF Editor!Greater, Editor!Smaller
  <2>3. r.x = x /\ r.y = y /\ r.w = w /\ r.h = h
    BY <2>1 DEF EdRect
  <2>4. Editor!Clamp(IF drives THEN (r.w * 3) \div 4 ELSE r.h,
              Editor!Greater(ShortestSide, (ShortestSide * 3) \div 4),
              Editor!Smaller(SquareSide, (SquareSide * 3) \div 4)) = 3 * k
    BY <1>2, <2>2, <2>3
  <2>5. (3 * k * 4) \div 3 = 4 * k
    OBVIOUS
  <2>6. PICK sized : sized = [r EXCEPT !.w = 4 * k, !.h = 3 * k]
    OBVIOUS
  <2>7. sized = EdRect(x, y, 4 * k, 3 * k)
    BY <2>1, <2>6 DEF EdRect
  <2>8. PICK p : p = [sized EXCEPT !.x = @ + (r.w - 4 * k) \div 2, !.y = @ + (r.h - 3 * k) \div 2]
    OBVIOUS
  <2>9. centred => p = EdRect(a, b, 4 * k, 3 * k)
    BY <1>3, <2>3, <2>7, <2>8 DEF EdRect
  <2>10. ~centred => sized = EdRect(a, b, 4 * k, 3 * k)
    BY <1>3, <2>7
  <2>11. <<4, 3>>[1] = 4 /\ <<4, 3>>[2] = 3
    OBVIOUS
  <2>12. Editor!WithAspect(r, <<4, 3>>, drives, centred)
           = Editor!Placed(IF centred THEN p ELSE sized)
    BY ONLY <2>4, <2>5, <2>6, <2>8, <2>11, Zenon DEF Editor!WithAspect
  <2>13. QED  BY <2>1, <2>9, <2>10, <2>12
<1>5. PICK c, d \in Int : EdMoves(a, b, 4 * k, 3 * k, c, d)
  <2>1. 4 * k \in Int /\ 3 * k \in Int
    OBVIOUS
  <2>2. QED  BY <2>1, EdPlaced
<1>6. EdFits(c, d, 4 * k, 3 * k)
  BY <1>1, <1>2, <1>5 DEF EdMoves
<1>7. EdFits(x, y, w, h) /\ 3 * w = 4 * h => c = x /\ d = y /\ 4 * k = w /\ 3 * k = h
  <2>1. SUFFICES ASSUME EdFits(x, y, w, h), 3 * w = 4 * h
                 PROVE  c = x /\ d = y /\ 4 * k = w /\ 3 * k = h
    OBVIOUS
  <2>2. 3 * k = h /\ 4 * k = w
    BY <1>1, <1>2, <2>1 DEF EdFits
  <2>3. a = x /\ b = y
    BY <1>3, <2>2
  <2>4. EdFits(a, b, 4 * k, 3 * k)
    BY <2>1, <2>2, <2>3
  <2>5. QED  BY <1>5, <2>2, <2>3, <2>4 DEF EdMoves
<1>8. EdShapes(Editor!WithAspect(EdRect(x, y, w, h), <<4, 3>>, drives, centred),
               x, y, w, h, c, d, 4 * k, 3 * k, 3 * w = 4 * h)
  BY <1>4, <1>5, <1>6, <1>7 DEF EdMoves, EdShapes
<1>9. QED  BY <1>8

LEMMA EdTall ==
  ASSUME NEW x \in Int, NEW y \in Int, NEW w \in Int, NEW h \in Int,
         NEW drives \in BOOLEAN, drives => 4 * w = 3 * h, h % 4 = 0
  PROVE  \E a, b, k \in Int :
           EdShapes(Editor!WithAspect(EdRect(x, y, w, h), <<3, 4>>, drives, TRUE),
                    x, y, w, h, a, b, 3 * k, 4 * k, 4 * w = 3 * h)
<1>1. PICK n, m \in Nat : SquareSide = 24 * n /\ ShortestSide = 12 * m /\ 1 <= m /\ 4 * m <= 3 * n
  BY EdSides
<1>2. PICK v \in Int : h = 4 * v
  <2>1. h \div 4 \in Int /\ h = 4 * (h \div 4)
    OBVIOUS
  <2>2. QED  BY <2>1
<1>3. PICK k \in Int : k = Editor!Clamp(v, 4 * m, 6 * n)
  <2>1. Editor!Clamp(v, 4 * m, 6 * n) \in Int
    BY DEF Editor!Clamp
  <2>2. QED  BY <2>1
<1>4. 4 * m <= k /\ k <= 6 * n
  BY <1>1, <1>3 DEF Editor!Clamp
<1>5. PICK a, b \in Int : a = x + (w - 3 * k) \div 2 /\ b = y + (h - 4 * k) \div 2
  <2>1. x + (w - 3 * k) \div 2 \in Int /\ y + (h - 4 * k) \div 2 \in Int
    OBVIOUS
  <2>2. QED  BY <2>1
<1>6. Editor!WithAspect(EdRect(x, y, w, h), <<3, 4>>, drives,
        TRUE) = Editor!Placed(EdRect(a, b, 3 * k, 4 * k))
  <2>1. PICK r : r = EdRect(x, y, w, h)
    OBVIOUS
  <2>2. /\ Editor!Greater(ShortestSide, (ShortestSide * 4) \div 3) = 16 * m
        /\ Editor!Smaller(SquareSide, (SquareSide * 4) \div 3) = 24 * n
    BY <1>1 DEF Editor!Greater, Editor!Smaller
  <2>3. r.x = x /\ r.y = y /\ r.w = w /\ r.h = h
    BY <2>1 DEF EdRect
  <2>4. (IF drives THEN (r.w * 4) \div 3 ELSE r.h) = 4 * v
    BY <1>2, <2>3
  <2>5. Editor!Clamp(4 * v, 16 * m, 24 * n) = 4 * k
    BY <1>3 DEF Editor!Clamp
  <2>6. (4 * k * 3) \div 4 = 3 * k
    OBVIOUS
  <2>7. PICK sized : sized = [r EXCEPT !.w = 3 * k, !.h = 4 * k]
    OBVIOUS
  <2>8. sized = EdRect(x, y, 3 * k, 4 * k)
    BY <2>1, <2>7 DEF EdRect
  <2>9. PICK p : p = [sized EXCEPT !.x = @ + (r.w - 3 * k) \div 2, !.y = @ + (r.h - 4 * k) \div 2]
    OBVIOUS
  <2>10. p = EdRect(a, b, 3 * k, 4 * k)
    BY <1>5, <2>3, <2>8, <2>9 DEF EdRect
  <2>11. <<3, 4>>[1] = 3 /\ <<3, 4>>[2] = 4
    OBVIOUS
  <2>12. Editor!WithAspect(r, <<3, 4>>, drives, TRUE) = Editor!Placed(p)
    BY ONLY <2>2, <2>4, <2>5, <2>6, <2>7, <2>9, <2>11, Zenon DEF Editor!WithAspect
  <2>13. QED  BY <2>1, <2>10, <2>12
<1>7. PICK c, d \in Int : EdMoves(a, b, 3 * k, 4 * k, c, d)
  <2>1. 4 * k \in Int /\ 3 * k \in Int
    OBVIOUS
  <2>2. QED  BY <2>1, EdPlaced
<1>8. EdFits(c, d, 3 * k, 4 * k)
  BY <1>1, <1>4, <1>7 DEF EdMoves
<1>9. EdFits(x, y, w, h) /\ 4 * w = 3 * h => c = x /\ d = y /\ 3 * k = w /\ 4 * k = h
  <2>1. SUFFICES ASSUME EdFits(x, y, w, h), 4 * w = 3 * h
                 PROVE  c = x /\ d = y /\ 3 * k = w /\ 4 * k = h
    OBVIOUS
  <2>2. w = 3 * v /\ 12 * m <= w /\ h <= 24 * n
    BY <1>1, <1>2, <2>1 DEF EdFits
  <2>3. k = v
    BY <1>1, <1>2, <1>3, <2>2 DEF Editor!Clamp
  <2>4. a = x /\ b = y
    BY <1>2, <1>5, <2>2, <2>3
  <2>5. EdFits(a, b, 3 * k, 4 * k)
    BY <1>2, <2>1, <2>2, <2>3, <2>4
  <2>6. QED  BY <1>2, <1>7, <2>2, <2>3, <2>4, <2>5 DEF EdMoves
<1>10. EdShapes(Editor!WithAspect(EdRect(x, y, w, h), <<3, 4>>, drives, TRUE),
                x, y, w, h, c, d, 3 * k, 4 * k, 4 * w = 3 * h)
  BY <1>6, <1>7, <1>8, <1>9 DEF EdMoves, EdShapes
<1>11. QED  BY <1>10

(* What the invariant says of a rectangle, in the panel's orientation. *)
EdKeeps(w, h) ==
  /\ dRotation \in {0, 2} => w % 4 = 0
  /\ dRotation \in {1, 3} => h % 4 = 0

EdNative(w, h) ==
  /\ dRotation \in {0, 2} => 3 * w = 4 * h
  /\ dRotation \in {1, 3} => 4 * w = 3 * h

LEMMA EdIsPlaced ==
  ASSUME dRotation \in 0 .. 3, NEW r, Editor!IsPlaced(r)
  PROVE  \E x, y, w, h \in Int :
           r = EdRect(x, y, w, h) /\ EdFits(x, y, w, h) /\ EdKeeps(w, h)
<1>1. PICK x, y, w, h \in Int : x = r.x /\ y = r.y /\ w = r.w /\ h = r.h
  BY DEF Editor!IsPlaced
<1>2. r = EdRect(x, y, w, h)
  BY <1>1 DEF Editor!IsPlaced, EdRect
<1>3. EdFits(x, y, w, h)
  BY <1>1 DEF Editor!IsPlaced, EdFits
<1>4. Editor!ToUi(r).w % 4 = 0
  BY DEF Editor!IsPlaced
<1>5. Editor!ToUi(r).w = (IF dRotation \in {0, 2} THEN w ELSE h)
  BY <1>2, EdToUi, EdFields
<1>6. EdKeeps(w, h)
  BY <1>4, <1>5 DEF EdKeeps
<1>7. QED  BY <1>2, <1>3, <1>6

LEMMA EdMakePlaced ==
  ASSUME dRotation \in 0 .. 3,
         NEW x \in Int, NEW y \in Int, NEW w \in Int, NEW h \in Int,
         EdFits(x, y, w, h), EdKeeps(w, h)
  PROVE  Editor!IsPlaced(EdRect(x, y, w, h))
<1>1. PICK r : r = EdRect(x, y, w, h)
  OBVIOUS
<1>2. r.x = x /\ r.y = y /\ r.w = w /\ r.h = h
  BY <1>1 DEF EdRect
<1>3. r = [x |-> r.x, y |-> r.y, w |-> r.w, h |-> r.h]
  BY <1>1, <1>2 DEF EdRect
<1>4. Editor!ToUi(r).w = (IF dRotation \in {0, 2} THEN w ELSE h)
  BY <1>1, EdToUi, EdFields
<1>5. Editor!ToUi(r).w % 4 = 0
  BY <1>4 DEF EdKeeps
<1>6. {r.x, r.y, r.w, r.h} \subseteq Int
  BY <1>2
<1>7. /\ ShortestSide <= r.w /\ ShortestSide <= r.h
      /\ 0 <= r.x /\ r.x + r.w <= SquareSide /\ 0 <= r.y /\ r.y + r.h <= SquareSide
  BY <1>2 DEF EdFits
<1>8. QED  BY <1>1, <1>3, <1>5, <1>6, <1>7 DEF Editor!IsPlaced

LEMMA EdIsNative ==
  ASSUME dRotation \in 0 .. 3,
         NEW x \in Int, NEW y \in Int, NEW w \in Int, NEW h \in Int
  PROVE  Editor!IsNative(EdRect(x, y, w, h)) <=> EdNative(w, h)
<1>1. PICK u : u = Editor!ToUi(EdRect(x, y, w, h))
  OBVIOUS
<1>2. /\ u.w = (IF dRotation \in {0, 2} THEN w ELSE h)
      /\ u.h = (IF dRotation \in {0, 2} THEN h ELSE w)
  BY <1>1, EdToUi, EdFields
<1>3. Editor!IsNative(EdRect(x, y, w, h)) <=> 3 * u.w = 4 * u.h
  BY <1>1 DEF Editor!IsNative
<1>4. QED  BY <1>2, <1>3 DEF EdNative

(* Making the aspect native keeps a rectangle on the panel, and leaves one that *)
(* has it as it is.                                                             *)
LEMMA EdNormal ==
  ASSUME dRotation \in 0 .. 3, NEW r, Editor!IsPlaced(r)
  PROVE  /\ Editor!IsPlaced(Editor!Normalized(r)) /\ Editor!IsNative(Editor!Normalized(r))
         /\ Editor!IsNative(r) => Editor!Normalized(r) = r
<1>1. PICK x, y, w, h \in Int : r = EdRect(x, y, w, h) /\ EdFits(x, y, w, h) /\ EdKeeps(w, h)
  BY EdIsPlaced
<1>2. r.w = w /\ r.h = h
  BY <1>1 DEF EdRect
<1>3. CASE dRotation \in {0, 2}
  <2>1. Editor!NativeAspect = <<4, 3>>
    BY <1>3 DEF Editor!NativeAspect
  <2>2. Editor!Normalized(r) = Editor!WithAspect(r, <<4, 3>>, TRUE, TRUE)
    <3>1. <<4, 3>>[1] = 4 /\ <<4, 3>>[2] = 3
      OBVIOUS
    <3>2. (4 > 3 \/ r.w * 3 = r.h * 4) = TRUE
      OBVIOUS
    <3>3. QED  BY ONLY <2>1, <3>1, <3>2, Zenon DEF Editor!Normalized
  <2>3. w % 4 = 0
    BY <1>1, <1>3 DEF EdKeeps
  <2>4. PICK a, b, k \in Int :
          EdShapes(Editor!WithAspect(EdRect(x, y, w, h), <<4, 3>>, TRUE, TRUE),
                   x, y, w, h, a, b, 4 * k, 3 * k, 3 * w = 4 * h)
    BY <2>3, EdWide
  <2>5. Editor!Normalized(r) = EdRect(a, b, 4 * k, 3 * k) /\ EdFits(a, b, 4 * k, 3 * k)
    BY <1>1, <2>2, <2>4 DEF EdShapes
  <2>6. PICK c, d \in Int : c = 4 * k /\ d = 3 * k
    OBVIOUS
  <2>7. EdKeeps(c, d) /\ EdNative(c, d)
    BY <1>3, <2>6 DEF EdKeeps, EdNative
  <2>8. Editor!IsPlaced(EdRect(a, b, c, d)) /\ Editor!IsNative(EdRect(a, b, c, d))
    BY <2>5, <2>6, <2>7, EdMakePlaced, EdIsNative
  <2>9. ASSUME Editor!IsNative(r)
        PROVE  Editor!Normalized(r) = r
    <3>1. 3 * w = 4 * h
      BY <1>1, <1>3, <2>9, EdIsNative DEF EdNative
    <3>2. a = x /\ b = y /\ 4 * k = w /\ 3 * k = h
      BY <1>1, <2>4, <3>1 DEF EdShapes
    <3>3. QED  BY <1>1, <2>5, <3>2
  <2>10. QED  BY <2>5, <2>6, <2>8, <2>9
<1>4. CASE dRotation \in {1, 3}
  <2>1. Editor!NativeAspect = <<3, 4>>
    BY <1>4 DEF Editor!NativeAspect
  <2>2. PICK drives \in BOOLEAN : drives <=> w * 4 = h * 3
    OBVIOUS
  <2>3. Editor!Normalized(r) = Editor!WithAspect(r, <<3, 4>>, drives, TRUE)
    <3>1. <<3, 4>>[1] = 3 /\ <<3, 4>>[2] = 4
      OBVIOUS
    <3>2. (3 > 4 \/ r.w * 4 = r.h * 3) = drives
      BY <1>2, <2>2
    <3>3. QED  BY ONLY <2>1, <3>1, <3>2, Zenon DEF Editor!Normalized
  <2>4. h % 4 = 0 /\ (drives => 4 * w = 3 * h)
    BY <1>1, <1>4, <2>2 DEF EdKeeps
  <2>5. PICK a, b, k \in Int :
          EdShapes(Editor!WithAspect(EdRect(x, y, w, h), <<3, 4>>, drives, TRUE),
                   x, y, w, h, a, b, 3 * k, 4 * k, 4 * w = 3 * h)
    BY <2>4, EdTall
  <2>6. Editor!Normalized(r) = EdRect(a, b, 3 * k, 4 * k) /\ EdFits(a, b, 3 * k, 4 * k)
    BY <1>1, <2>3, <2>5 DEF EdShapes
  <2>7. PICK c, d \in Int : c = 3 * k /\ d = 4 * k
    OBVIOUS
  <2>8. EdKeeps(c, d) /\ EdNative(c, d)
    BY <1>4, <2>7 DEF EdKeeps, EdNative
  <2>9. Editor!IsPlaced(EdRect(a, b, c, d)) /\ Editor!IsNative(EdRect(a, b, c, d))
    BY <2>6, <2>7, <2>8, EdMakePlaced, EdIsNative
  <2>10. ASSUME Editor!IsNative(r)
         PROVE  Editor!Normalized(r) = r
    <3>1. 4 * w = 3 * h
      BY <1>1, <1>4, <2>10, EdIsNative DEF EdNative
    <3>2. a = x /\ b = y /\ 3 * k = w /\ 4 * k = h
      BY <1>1, <2>5, <3>1 DEF EdShapes
    <3>3. QED  BY <1>1, <2>6, <3>2
  <2>11. QED  BY <2>6, <2>7, <2>9, <2>10
<1>5. QED  BY <1>3, <1>4

LEMMA EdCalculated ==
  ASSUME dRotation \in 0 .. 3, NEW rs, Editor!ArePlaced(rs), NEW chosen, NEW locked
  PROVE  /\ Editor!ArePlaced(Editor!Calculated(rs, chosen, locked))
         /\ chosen /\ locked => \A s \in Editor!Screens :
                  Editor!IsNative(Editor!Calculated(rs, chosen, locked)[s])
         /\ ~locked => Editor!Calculated(rs, chosen, locked) = rs
         /\ (\A s \in Editor!Screens :
                  Editor!IsNative(rs[s])) => Editor!Calculated(rs, chosen, locked) = rs
<1>1. /\ rs = [s \in Editor!Screens |-> rs[s]]
      /\ \A s \in Editor!Screens : Editor!IsPlaced(rs[s])
  BY DEF Editor!ArePlaced
<1>2. CASE ~(chosen /\ locked)
  BY <1>2 DEF Editor!Calculated
<1>3. ASSUME chosen, locked
      PROVE  /\ Editor!ArePlaced(Editor!Calculated(rs, chosen, locked))
             /\ \A s \in Editor!Screens :
                   Editor!IsNative(Editor!Calculated(rs, chosen, locked)[s])
             /\ (\A s \in Editor!Screens :
                      Editor!IsNative(rs[s])) => Editor!Calculated(rs, chosen, locked) = rs
  <2>1. PICK after : after = [s \in Editor!Screens |-> Editor!Normalized(rs[s])]
    OBVIOUS
  <2>2. Editor!Calculated(rs, chosen, locked) = after
    BY <1>3, <2>1 DEF Editor!Calculated
  <2>3. after = [s \in Editor!Screens |-> after[s]]
    BY <2>1
  <2>4. \A s \in Editor!Screens : Editor!IsPlaced(after[s]) /\ Editor!IsNative(after[s])
    BY <1>1, <2>1, EdNormal
  <2>5. ASSUME \A s \in Editor!Screens : Editor!IsNative(rs[s])
        PROVE  after = rs
    <3>1. \A s \in Editor!Screens : Editor!Normalized(rs[s]) = rs[s]
      BY <1>1, <2>5, EdNormal
    <3>2. QED  BY <1>1, <2>1, <3>1
  <2>6. QED  BY <2>2, <2>3, <2>4, <2>5 DEF Editor!ArePlaced
<1>4. QED  BY <1>2, <1>3

(* The way back to the standard layout. *)
LEMMA EdStandard ==
  ASSUME dRotation \in 0 .. 3
  PROVE  Editor!ArePlaced(Editor!Standard)
<1>1. PICK n, m \in Nat : SquareSide = 24 * n /\ ShortestSide = 12 * m /\ 1 <= m /\ 4 * m <= 3 * n
  BY EdSides
<1>2. PICK y, height \in Int :
        /\ height = (IF dRotation \in {0, 2} THEN 9 * n ELSE 16 * n)
        /\ y = (SquareSide - height) \div 2
        /\ height = Editor!Smaller((SquareSide * 3) \div 4,
             (SquareSide * Editor!NativeAspect[2]) \div (2 * Editor!NativeAspect[1]))
        /\ (height * Editor!NativeAspect[1]) \div Editor!NativeAspect[2] = 12 * n
  <2>1. CASE dRotation \in {0, 2}
    <3>1. Editor!NativeAspect[1] = 4 /\ Editor!NativeAspect[2] = 3
      BY <2>1 DEF Editor!NativeAspect
    <3>2. (SquareSide * 3) \div 4 = 18 * n /\ (SquareSide * 3) \div (2 * 4) = 9 * n
      BY <1>1
    <3>3. Editor!Smaller((SquareSide * 3) \div 4, (SquareSide * 3) \div (2 * 4)) = 9 * n
      BY <3>2 DEF Editor!Smaller
    <3>4. (9 * n * 4) \div 3 = 12 * n
      OBVIOUS
    <3>5. 9 * n \in Int /\ (SquareSide - 9 * n) \div 2 \in Int
      BY <1>1
    <3>6. QED  BY <2>1, <3>1, <3>3, <3>4, <3>5
  <2>2. CASE dRotation \in {1, 3}
    <3>1. Editor!NativeAspect[1] = 3 /\ Editor!NativeAspect[2] = 4
      BY <2>2 DEF Editor!NativeAspect
    <3>2. (SquareSide * 3) \div 4 = 18 * n /\ (SquareSide * 4) \div (2 * 3) = 16 * n
      BY <1>1
    <3>3. Editor!Smaller((SquareSide * 3) \div 4, (SquareSide * 4) \div (2 * 3)) = 16 * n
      BY <3>2 DEF Editor!Smaller
    <3>4. (16 * n * 3) \div 4 = 12 * n
      OBVIOUS
    <3>5. 16 * n \in Int /\ (SquareSide - 16 * n) \div 2 \in Int
      BY <1>1
    <3>6. QED  BY <2>2, <3>1, <3>3, <3>4, <3>5
  <2>3. QED  BY <2>1, <2>2
<1>3. \A s \in Editor!Screens :
            (SquareSide + 2 * s * SquareSide) \div 4 - (12 * n) \div 2 = 12 * n * s
  <2>1. (SquareSide + 2 * 0 * SquareSide) \div 4 - (12 * n) \div 2 = 0
    BY <1>1
  <2>2. (SquareSide + 2 * 1 * SquareSide) \div 4 - (12 * n) \div 2 = 12 * n
    BY <1>1
  <2>3. QED  BY <2>1, <2>2 DEF Editor!Screens
<1>4. Editor!Standard = [s \in Editor!Screens |-> EdRect(12 * n * s, y, 12 * n, height)]
  BY <1>2, <1>3, Zenon DEF Editor!Standard, EdRect
<1>5. \A s \in Editor!Screens : Editor!IsPlaced(EdRect(12 * n * s, y, 12 * n, height))
  <2>1. EdKeeps(12 * n, height)
    BY <1>1, <1>2 DEF EdKeeps
  <2>2. EdFits(0, y, 12 * n, height) /\ EdFits(12 * n, y, 12 * n, height)
    BY <1>1, <1>2 DEF EdFits
  <2>3. PICK w \in Int : w = 12 * n
    OBVIOUS
  <2>4. Editor!IsPlaced(EdRect(0, y, w, height)) /\ Editor!IsPlaced(EdRect(w, y, w, height))
    BY <2>1, <2>2, <2>3, EdMakePlaced
  <2>5. 12 * n * 0 = 0 /\ 12 * n * 1 = w
    BY <2>3
  <2>6. QED  BY <2>3, <2>4, <2>5 DEF Editor!Screens
<1>6. QED  BY <1>4, <1>5 DEF Editor!ArePlaced

(* Where the user sees it, in the picture's own turned coordinates. *)
LEMMA EdSpan ==
  ASSUME dRotation \in 0 .. 3, NEW r, IsFit(r),
         NEW a \in Int, NEW b \in Int, NEW c \in Int, NEW d \in Int,
         Editor!ToUi(r) = EdRect(a, b, c, d)
  PROVE  /\ Editor!Span(r, 1).from = a /\ Editor!Span(r, 1).length = c
         /\ Editor!Span(r, 2).from = b /\ Editor!Span(r, 2).length = d
<1>1. PICK x, y, w, h \in Int : r = EdRect(x, y, w, h) /\ EdFits(x, y, w, h)
  BY DEF IsFit
<1>2. PICK side, least \in Int : side = SquareSide /\ least = ShortestSide /\ 0 < least
  BY EdSides
<1>3. r.x = x /\ r.y = y /\ r.w = w /\ r.h = h
  BY <1>1 DEF EdRect
<1>4. \A e, f, g, k \in Int :
        EdRect(e, f, g, k) = EdRect(a, b, c, d) => e = a /\ f = b /\ g = c /\ k = d
  BY EdFields
<1>5. w > 0 /\ h > 0
  BY <1>1, <1>2 DEF EdFits
<1>6. \A one, two \in Int : \A axis :
        /\ Editor!Seen(<<x, y>>)[axis] = one
        /\ Editor!Seen(<<x + w, y + h>>)[axis] = two
        => /\ Editor!Span(r, axis).from = Editor!Smaller(one, two)
           /\ Editor!Span(r, axis).length = Editor!Abs(one - two)
  BY <1>3 DEF Editor!Span
<1>7. CASE dRotation = 0
  <2>1. a = x /\ b = y /\ c = w /\ d = h
    <3>1. Editor!ToUi(r) = EdRect(x, y, w, h)
      BY <1>1, <1>7, EdToUi
    <3>2. x \in Int /\ y \in Int
      OBVIOUS
    <3>3. QED  BY <1>4, <3>1, <3>2
  <2>2. PICK one, two \in Int : one = x /\ two = x + w
    OBVIOUS
  <2>3. Editor!Seen(<<x, y>>)[1] = one /\ Editor!Seen(<<x + w, y + h>>)[1] = two
    BY <1>7, <2>2 DEF Editor!Seen
  <2>4. Editor!Smaller(one, two) = x /\ Editor!Abs(one - two) = w
    BY <1>5, <2>2 DEF Editor!Smaller, Editor!Abs
  <2>5. Editor!Span(r, 1).from = x /\ Editor!Span(r, 1).length = w
    BY <1>6, <2>3, <2>4
  <2>6. PICK three, four \in Int : three = y /\ four = y + h
    OBVIOUS
  <2>7. Editor!Seen(<<x, y>>)[2] = three /\ Editor!Seen(<<x + w, y + h>>)[2] = four
    BY <1>7, <2>6 DEF Editor!Seen
  <2>8. Editor!Smaller(three, four) = y /\ Editor!Abs(three - four) = h
    BY <1>5, <2>6 DEF Editor!Smaller, Editor!Abs
  <2>9. Editor!Span(r, 2).from = y /\ Editor!Span(r, 2).length = h
    BY <1>6, <2>7, <2>8
  <2>10. QED  BY <2>1, <2>5, <2>9, Zenon
<1>8. CASE dRotation = 1
  <2>1. a = y /\ b = side - x - w /\ c = h /\ d = w
    <3>1. Editor!ToUi(r) = EdRect(y, side - x - w, h, w)
      BY <1>1, <1>2, <1>8, EdToUi
    <3>2. y \in Int /\ side - x - w \in Int
      OBVIOUS
    <3>3. QED  BY <1>4, <3>1, <3>2
  <2>2. PICK one, two \in Int : one = y /\ two = y + h
    OBVIOUS
  <2>3. Editor!Seen(<<x, y>>)[1] = one /\ Editor!Seen(<<x + w, y + h>>)[1] = two
    BY <1>2, <1>8, <2>2 DEF Editor!Seen
  <2>4. Editor!Smaller(one, two) = y /\ Editor!Abs(one - two) = h
    BY <1>5, <2>2 DEF Editor!Smaller, Editor!Abs
  <2>5. Editor!Span(r, 1).from = y /\ Editor!Span(r, 1).length = h
    BY <1>6, <2>3, <2>4
  <2>6. PICK three, four \in Int : three = side - x /\ four = side - (x + w)
    OBVIOUS
  <2>7. Editor!Seen(<<x, y>>)[2] = three /\ Editor!Seen(<<x + w, y + h>>)[2] = four
    BY <1>2, <1>8, <2>6 DEF Editor!Seen
  <2>8. Editor!Smaller(three, four) = side - x - w /\ Editor!Abs(three - four) = w
    BY <1>5, <2>6 DEF Editor!Smaller, Editor!Abs
  <2>9. Editor!Span(r, 2).from = side - x - w /\ Editor!Span(r, 2).length = w
    BY <1>6, <2>7, <2>8
  <2>10. QED  BY <2>1, <2>5, <2>9, Zenon
<1>9. CASE dRotation = 2
  <2>1. a = side - x - w /\ b = side - y - h /\ c = w /\ d = h
    <3>1. Editor!ToUi(r) = EdRect(side - x - w, side - y - h, w, h)
      BY <1>1, <1>2, <1>9, EdToUi
    <3>2. side - x - w \in Int /\ side - y - h \in Int
      OBVIOUS
    <3>3. QED  BY <1>4, <3>1, <3>2
  <2>2. PICK one, two \in Int : one = side - x /\ two = side - (x + w)
    OBVIOUS
  <2>3. Editor!Seen(<<x, y>>)[1] = one /\ Editor!Seen(<<x + w, y + h>>)[1] = two
    BY <1>2, <1>9, <2>2 DEF Editor!Seen
  <2>4. Editor!Smaller(one, two) = side - x - w /\ Editor!Abs(one - two) = w
    BY <1>5, <2>2 DEF Editor!Smaller, Editor!Abs
  <2>5. Editor!Span(r, 1).from = side - x - w /\ Editor!Span(r, 1).length = w
    BY <1>6, <2>3, <2>4
  <2>6. PICK three, four \in Int : three = side - y /\ four = side - (y + h)
    OBVIOUS
  <2>7. Editor!Seen(<<x, y>>)[2] = three /\ Editor!Seen(<<x + w, y + h>>)[2] = four
    BY <1>2, <1>9, <2>6 DEF Editor!Seen
  <2>8. Editor!Smaller(three, four) = side - y - h /\ Editor!Abs(three - four) = h
    BY <1>5, <2>6 DEF Editor!Smaller, Editor!Abs
  <2>9. Editor!Span(r, 2).from = side - y - h /\ Editor!Span(r, 2).length = h
    BY <1>6, <2>7, <2>8
  <2>10. QED  BY <2>1, <2>5, <2>9, Zenon
<1>10. CASE dRotation = 3
  <2>1. a = side - y - h /\ b = x /\ c = h /\ d = w
    <3>1. Editor!ToUi(r) = EdRect(side - y - h, x, h, w)
      BY <1>1, <1>2, <1>10, EdToUi
    <3>2. side - y - h \in Int /\ x \in Int
      OBVIOUS
    <3>3. QED  BY <1>4, <3>1, <3>2
  <2>2. PICK one, two \in Int : one = side - y /\ two = side - (y + h)
    OBVIOUS
  <2>3. Editor!Seen(<<x, y>>)[1] = one /\ Editor!Seen(<<x + w, y + h>>)[1] = two
    BY <1>2, <1>10, <2>2 DEF Editor!Seen
  <2>4. Editor!Smaller(one, two) = side - y - h /\ Editor!Abs(one - two) = h
    BY <1>5, <2>2 DEF Editor!Smaller, Editor!Abs
  <2>5. Editor!Span(r, 1).from = side - y - h /\ Editor!Span(r, 1).length = h
    BY <1>6, <2>3, <2>4
  <2>6. PICK three, four \in Int : three = x /\ four = x + w
    OBVIOUS
  <2>7. Editor!Seen(<<x, y>>)[2] = three /\ Editor!Seen(<<x + w, y + h>>)[2] = four
    BY <1>2, <1>10, <2>6 DEF Editor!Seen
  <2>8. Editor!Smaller(three, four) = x /\ Editor!Abs(three - four) = w
    BY <1>5, <2>6 DEF Editor!Smaller, Editor!Abs
  <2>9. Editor!Span(r, 2).from = x /\ Editor!Span(r, 2).length = w
    BY <1>6, <2>7, <2>8
  <2>10. QED  BY <2>1, <2>5, <2>9, Zenon
<1>11. QED  BY <1>7, <1>8, <1>9, <1>10

LEMMA EdOnPanel ==
  ASSUME dRotation \in 0 .. 3, NEW r
  PROVE  /\ Editor!IsPlaced(r) => IsFit(r) /\ Editor!ToUi(r).w % 4 = 0
         /\ IsFit(r) /\ Editor!ToUi(r).w % 4 = 0 => Editor!IsPlaced(r)
<1>1. Editor!IsPlaced(r) => IsFit(r) /\ Editor!ToUi(r).w % 4 = 0
  BY EdIsPlaced DEF IsFit, Editor!IsPlaced
<1>2. ASSUME IsFit(r), Editor!ToUi(r).w % 4 = 0
      PROVE  Editor!IsPlaced(r)
  <2>1. PICK x, y, w, h \in Int : r = EdRect(x, y, w, h) /\ EdFits(x, y, w, h)
    BY <1>2 DEF IsFit
  <2>2. Editor!ToUi(r).w = (IF dRotation \in {0, 2} THEN w ELSE h)
    BY <2>1, EdToUi, EdFields
  <2>3. EdKeeps(w, h)
    BY <1>2, <2>2 DEF EdKeeps
  <2>4. QED  BY <2>1, <2>3, EdMakePlaced
<1>3. QED  BY <1>1, <1>2

(* What one edit does to what is seen. *)
EdAsked(v, a, b, c, d, e, f, g, k, m, s) ==
  /\ v = EdRect(e, f, g, k) /\ EdFits(e, f, g, k) /\ g % 4 = 0
  /\ s = Editor!Still => g = c /\ k = d /\ Editor!Follows(a, e, m[1]) /\ Editor!Follows(b, f, m[2])
  /\ ~dLock => Editor!Follows(c, g, s[1]) /\ Editor!Follows(d, k, s[2])
  /\ dLock => 3 * g = 4 * k

LEMMA EdUnlocked ==
  ASSUME NEW a \in Int, NEW b \in Int, NEW c \in Int, NEW d \in Int, EdFits(a, b, c, d),
         NEW m \in Int \X Int, NEW s \in Int \X Int, s[1] % 4 = 0, c % 4 = 0,
         dLock => s = Editor!Still /\ 3 * c = 4 * d
  PROVE  \E e, f, g, k \in Int :
           EdAsked(Editor!Constrained(EdRect(a + m[1], b + m[2], c + s[1], d + s[2])),
                   a, b, c, d, e, f, g, k, m, s)
<1>1. PICK n, l \in Nat : SquareSide = 24 * n /\ ShortestSide = 12 * l /\ 1 <= l /\ 4 * l <= 3 * n
  BY EdSides
<1>2. PICK m1, m2, s1, s2 \in Int : m1 = m[1] /\ m2 = m[2] /\ s1 = s[1] /\ s2 = s[2]
  OBVIOUS
<1>3. PICK x, y, w, h \in Int : x = a + m1 /\ y = b + m2 /\ w = c + s1 /\ h = d + s2
  OBVIOUS
<1>4. PICK e, f, g, k \in Int : EdBounds(x, y, w, h, e, f, g, k)
  BY EdConstrained
<1>5. Editor!Constrained(EdRect(x, y, w, h)) = EdRect(e, f, g, k) /\ EdFits(e, f, g, k)
  BY <1>4 DEF EdBounds
<1>6. g = Editor!Clamp(w, 12 * l, 24 * n) /\ k = Editor!Clamp(h, 12 * l, 24 * n)
  BY <1>1, <1>4 DEF EdBounds
<1>7. e = Editor!Clamp(x, 0, 24 * n - g) /\ f = Editor!Clamp(y, 0, 24 * n - k)
  BY <1>1, <1>4 DEF EdBounds
<1>8. /\ 12 * l <= c /\ 12 * l <= d /\ 0 <= a /\ 0 <= b
      /\ a + c <= 24 * n /\ b + d <= 24 * n
  BY <1>1 DEF EdFits
<1>9. Editor!Follows(c, g, s1) /\ Editor!Follows(d, k, s2)
  BY <1>1, <1>3, <1>6, <1>8 DEF Editor!Follows, Editor!Clamp
<1>10. ASSUME s = Editor!Still
       PROVE  g = c /\ k = d /\ Editor!Follows(a, e, m1) /\ Editor!Follows(b, f, m2)
  <2>1. s1 = 0 /\ s2 = 0
    BY <1>2, <1>10 DEF Editor!Still
  <2>2. g = c /\ k = d
    BY <1>3, <1>6, <1>8, <2>1 DEF Editor!Clamp
  <2>3. Editor!Follows(a, e, m1) /\ Editor!Follows(b, f, m2)
    BY <1>3, <1>7, <1>8, <2>2 DEF Editor!Follows, Editor!Clamp
  <2>4. QED  BY <2>2, <2>3
<1>11. g % 4 = 0
  <2>1. w % 4 = 0
    BY <1>2, <1>3
  <2>2. (12 * l) % 4 = 0 /\ (24 * n) % 4 = 0
    OBVIOUS
  <2>3. g = w \/ g = 12 * l \/ g = 24 * n
    BY <1>6 DEF Editor!Clamp
  <2>4. QED  BY <2>1, <2>2, <2>3
<1>12. dLock => 3 * g = 4 * k
  BY <1>10
<1>13. EdAsked(Editor!Constrained(EdRect(x, y, w, h)), a, b, c, d, e, f, g, k, m, s)
  BY <1>2, <1>5, <1>9, <1>10, <1>11, <1>12 DEF EdAsked
<1>14. QED  BY <1>2, <1>3, <1>13

LEMMA EdLocked ==
  ASSUME NEW a \in Int, NEW b \in Int, NEW c \in Int, NEW d \in Int,
         NEW m \in Int \X Int, NEW s \in Int \X Int, s[1] % 4 = 0, s[2] % 3 = 0,
         c % 4 = 0, 3 * c = 4 * d, dLock, s # Editor!Still,
         NEW drives \in BOOLEAN
  PROVE  \E e, f, g, k \in Int :
           EdAsked(Editor!WithAspect(EdRect(a + m[1], b + m[2], c + s[1], d + s[2]), <<4,
           3>>, drives, FALSE),
                   a, b, c, d, e, f, g, k, m, s)
<1>1. PICK x, y, w, h \in Int : x = a + m[1] /\ y = b + m[2] /\ w = c + s[1] /\ h = d + s[2]
  OBVIOUS
<1>2. w % 4 = 0 /\ h % 3 = 0
  BY <1>1
<1>3. PICK e, f, v \in Int :
        EdShapes(Editor!WithAspect(EdRect(x, y, w, h), <<4, 3>>, drives, FALSE),
                 x, y, w, h, e, f, 4 * v, 3 * v, 3 * w = 4 * h)
  BY <1>2, EdWide
<1>4. PICK g, k \in Int : g = 4 * v /\ k = 3 * v
  OBVIOUS
<1>5. /\ Editor!WithAspect(EdRect(x, y, w, h), <<4, 3>>, drives, FALSE) = EdRect(e, f, g, k)
      /\ EdFits(e, f, g, k)
  BY <1>3, <1>4 DEF EdShapes
<1>6. g % 4 = 0 /\ 3 * g = 4 * k
  BY <1>4
<1>7. EdAsked(Editor!WithAspect(EdRect(x, y, w, h), <<4, 3>>, drives, FALSE), a, b, c, d, e,
        f, g, k, m, s)
  BY <1>5, <1>6 DEF EdAsked
<1>8. QED  BY <1>1, <1>7

LEMMA EdEdited ==
  ASSUME dRotation \in 0 .. 3, NEW r, Editor!IsPlaced(r), dLock \in BOOLEAN,
         dLock => Editor!IsNative(r),
         NEW m \in EditMoves \cup {Editor!Still}, NEW s \in EditSizes \cup {Editor!Still}
  PROVE  \E a, b, c, d, e, f, g, k \in Int :
           /\ Editor!ToUi(r) = EdRect(a, b, c, d)
           /\ IsFit(Editor!Edited(r, m, s))
           /\ EdAsked(Editor!ToUi(Editor!Edited(r, m, s)), a, b, c, d, e, f, g, k, m, s)
<1>1. m \in Int \X Int /\ s \in Int \X Int /\ s[1] % 4 = 0 /\ s[2] % 3 = 0
  <2>1. Editor!Still \in Int \X Int /\ Editor!Still[1] % 4 = 0 /\ Editor!Still[2] % 3 = 0
    BY DEF Editor!Still
  <2>2. QED  BY <2>1, EditorAssumption
<1>2. IsFit(r) /\ Editor!ToUi(r).w % 4 = 0
  BY EdOnPanel
<1>3. IsFit(Editor!ToUi(r))
  BY <1>2, EdTurns
<1>4. PICK a, b, c, d \in Int : Editor!ToUi(r) = EdRect(a, b, c, d) /\ EdFits(a, b, c, d)
  BY <1>3 DEF IsFit
<1>5. c % 4 = 0
  BY <1>2, <1>4, EdFields
<1>6. dLock => 3 * c = 4 * d
  BY <1>4, EdFields DEF Editor!IsNative
<1>7. PICK x, y, w, h \in Int : x = a + m[1] /\ y = b + m[2] /\ w = c + s[1] /\ h = d + s[2]
  BY <1>1
<1>8. Editor!Changed(Editor!ToUi(r), m, s) = EdRect(x, y, w, h)
  BY <1>4, <1>7, EdFields DEF Editor!Changed, EdRect
<1>9. PICK v : v = (IF dLock /\ s # Editor!Still
                  THEN Editor!WithAspect(EdRect(x, y, w, h), <<4, 3>>,
                  Editor!Abs(s[1]) >= Editor!Abs(s[2]), FALSE)
                  ELSE Editor!Constrained(EdRect(x, y, w, h)))
  OBVIOUS
<1>10. Editor!Edited(r, m, s) = Editor!Constrained(Editor!FromUi(v))
  BY <1>8, <1>9, Zenon DEF Editor!Edited
<1>11. PICK e, f, g, k \in Int : EdAsked(v, a, b, c, d, e, f, g, k, m, s)
  <2>1. CASE dLock /\ s # Editor!Still
    <3>1. PICK s1, s2 \in Int : s1 = s[1] /\ s2 = s[2]
      BY <1>1
    <3>2. Editor!Abs(s1) \in Int /\ Editor!Abs(s2) \in Int
      BY DEF Editor!Abs
    <3>3. (Editor!Abs(s1) >= Editor!Abs(s2)) \in BOOLEAN
      BY <3>2
    <3>4. PICK drives \in BOOLEAN : drives = (Editor!Abs(s[1]) >= Editor!Abs(s[2]))
      BY <3>1, <3>3
    <3>5. v = Editor!WithAspect(EdRect(x, y, w, h), <<4, 3>>, drives, FALSE)
      BY <1>9, <2>1, <3>4, Zenon
    <3>6. QED  BY <1>1, <1>5, <1>6, <1>7, <2>1, <3>5, EdLocked
  <2>2. CASE ~(dLock /\ s # Editor!Still)
    <3>1. v = Editor!Constrained(EdRect(x, y, w, h))
      BY <1>9, <2>2, Zenon
    <3>2. dLock => s = Editor!Still /\ 3 * c = 4 * d
      BY <1>6, <2>2
    <3>3. QED  BY <1>1, <1>4, <1>5, <1>7, <3>1, <3>2, EdUnlocked
  <2>3. QED  BY <2>1, <2>2
<1>12. IsFit(Editor!Edited(r, m, s)) /\ Editor!ToUi(Editor!Edited(r, m, s)) = v
  <2>1. IsFit(v)
    BY <1>11 DEF EdAsked, IsFit
  <2>2. IsFit(Editor!FromUi(v)) /\ Editor!ToUi(Editor!FromUi(v)) = v
    BY <2>1, EdTurns
  <2>3. Editor!Edited(r, m, s) = Editor!FromUi(v)
    BY <1>10, <2>2, EdStays
  <2>4. QED  BY <2>2, <2>3
<1>13. QED  BY <1>4, <1>11, <1>12

(* What an edit does: the other screen stays, and the aspect needs no mending. *)
LEMMA EdEdit ==
  ASSUME Editor!IInv, Editor!Edit
  PROVE  \E m \in EditMoves \cup {Editor!Still}, s \in EditSizes \cup {Editor!Still} :
           /\ dAsked' = [move |-> m, size |-> s]
           /\ dRect' = [dRect EXCEPT ![dScreen] = Editor!Edited(dRect[dScreen], m, s)]
           /\ Editor!ArePlaced(dRect')
           /\ dLayout /\ dLock => \A t \in Editor!Screens : Editor!IsNative(dRect'[t])
<1>1. /\ dRotation \in 0 .. 3 /\ dScreen \in Editor!Screens
      /\ dLayout \in BOOLEAN /\ dLock \in BOOLEAN
      /\ Editor!ArePlaced(dRect) /\ dLayout
      /\ dLock => \A t \in Editor!Screens : Editor!IsNative(dRect[t])
  BY DEF Editor!IInv, Editor!Edit, Editor!Editing
<1>2. PICK m \in EditMoves \cup {Editor!Still}, s \in EditSizes \cup {Editor!Still} :
        /\ dAsked' = [move |-> m, size |-> s]
        /\ dRect' = Editor!Calculated(
             [dRect EXCEPT ![dScreen] = Editor!Edited(dRect[dScreen], m, s)], TRUE, dLock)
  BY Zenon DEF Editor!Edit
<1>3. PICK new : new = Editor!Edited(dRect[dScreen], m, s)
  OBVIOUS
<1>4. Editor!IsPlaced(dRect[dScreen]) /\ dRect = [t \in Editor!Screens |-> dRect[t]]
  BY <1>1 DEF Editor!ArePlaced
<1>5. Editor!IsPlaced(new) /\ (dLock => Editor!IsNative(new))
  <2>1. dLock => Editor!IsNative(dRect[dScreen])
    BY <1>1
  <2>2. PICK a, b, c, d, e, f, g, k \in Int :
          /\ IsFit(Editor!Edited(dRect[dScreen], m, s))
          /\ EdAsked(Editor!ToUi(Editor!Edited(dRect[dScreen], m, s)), a, b, c, d, e, f, g, k, m, s)
    BY <1>1, <1>4, <2>1, EdEdited
  <2>3. /\ IsFit(new) /\ Editor!ToUi(new) = EdRect(e, f, g, k) /\ g % 4 = 0
        /\ (dLock => 3 * g = 4 * k)
    BY <1>3, <2>2 DEF EdAsked
  <2>4. Editor!ToUi(new).w = g /\ Editor!ToUi(new).h = k
    BY <2>3, EdFields
  <2>5. Editor!IsPlaced(new)
    BY <1>1, <2>3, <2>4, EdOnPanel
  <2>6. QED  BY <2>3, <2>4, <2>5 DEF Editor!IsNative
<1>6. PICK after : after = [dRect EXCEPT ![dScreen] = new]
  OBVIOUS
<1>7. /\ after = [t \in Editor!Screens |-> after[t]]
      /\ \A t \in Editor!Screens : after[t] = (IF t = dScreen THEN new ELSE dRect[t])
  BY <1>1, <1>4, <1>6
<1>8. Editor!ArePlaced(after)
  BY <1>1, <1>5, <1>7 DEF Editor!ArePlaced
<1>9. dLock => \A t \in Editor!Screens : Editor!IsNative(after[t])
  BY <1>1, <1>5, <1>7
<1>10. Editor!Calculated(after, TRUE, dLock) = after
  BY <1>1, <1>8, <1>9, EdCalculated
<1>11. dRect' = after
  BY <1>2, <1>3, <1>6, <1>10
<1>12. QED  BY <1>2, <1>3, <1>6, <1>8, <1>9, <1>11

LEMMA EditorInit == Editor!Init => Editor!IInv
<1>1. SUFFICES ASSUME Editor!Init PROVE Editor!IInv
  OBVIOUS
<1>2. dRotation \in 0 .. 3 /\ dScreen \in Editor!Screens /\ dEditing = FALSE
  BY <1>1 DEF Editor!Init, Editor!Screens
<1>3. dSaved \in [layout : BOOLEAN, lock : BOOLEAN, rect : [Editor!Screens -> SavedRects]]
  BY <1>1 DEF Editor!Init
<1>4. dLayout \in BOOLEAN /\ dLock \in BOOLEAN
  BY <1>1, <1>3 DEF Editor!Init
<1>5. Editor!ArePlaced(dSaved.rect)
  <2>1. \A r \in SavedRects : Editor!IsPlaced(r)
    <3>1. SUFFICES ASSUME NEW r \in SavedRects PROVE Editor!IsPlaced(r)
      OBVIOUS
    <3>2. /\ r \in [x : Nat, y : Nat, w : Nat, h : Nat]
          /\ ShortestSide <= r.w /\ r.x + r.w <= SquareSide /\ r.w % 4 = 0
          /\ ShortestSide <= r.h /\ r.y + r.h <= SquareSide /\ r.h % 4 = 0
      BY EditorAssumption
    <3>3. PICK x, y, w, h \in Int : x = r.x /\ y = r.y /\ w = r.w /\ h = r.h
      BY <3>2
    <3>4. r = EdRect(x, y, w, h)
      BY <3>2, <3>3 DEF EdRect
    <3>5. EdFits(x, y, w, h) /\ EdKeeps(w, h)
      BY <3>2, <3>3 DEF EdFits, EdKeeps
    <3>6. QED  BY <1>2, <3>4, <3>5, EdMakePlaced
  <2>2. dSaved.rect \in [Editor!Screens -> SavedRects]
    BY <1>3
  <2>3. PICK rs : rs = dSaved.rect
    OBVIOUS
  <2>4. /\ rs = [s \in Editor!Screens |-> rs[s]]
        /\ \A s \in Editor!Screens : rs[s] \in SavedRects
    BY <2>2, <2>3
  <2>5. QED  BY <2>1, <2>3, <2>4 DEF Editor!ArePlaced
<1>6. dRect = Editor!Calculated(dSaved.rect, dLayout, dLock)
  BY <1>1 DEF Editor!Init
<1>7. /\ Editor!ArePlaced(dRect)
      /\ (dLayout /\ dLock => \A s \in Editor!Screens : Editor!IsNative(dRect[s]))
  BY <1>2, <1>5, <1>6, EdCalculated
<1>8. dBackup.layout = dLayout /\ dBackup.lock = dLock /\ dBackup.rect = dRect
  BY <1>1 DEF Editor!Init
<1>9. QED  BY <1>2, <1>4, <1>7, <1>8 DEF Editor!IInv

LEMMA EditorStep == Editor!IInv /\ Editor!Next => Editor!IInv'
<1>1. SUFFICES ASSUME Editor!IInv, Editor!Next PROVE Editor!IInv'
  OBVIOUS
<1>2. /\ dRotation \in 0 .. 3 /\ dScreen \in Editor!Screens
      /\ dLayout \in BOOLEAN /\ dLock \in BOOLEAN /\ (dEditing => dLayout)
      /\ Editor!ArePlaced(dRect) /\ Editor!ArePlaced(dBackup.rect)
      /\ dBackup.layout \in BOOLEAN /\ dBackup.lock \in BOOLEAN
      /\ dLayout /\ dLock => \A s \in Editor!Screens : Editor!IsNative(dRect[s])
  BY <1>1 DEF Editor!IInv
<1>3. dRotation' = dRotation
  BY <1>1
     DEF Editor!Next, Editor!Begin, Editor!Cancel, Editor!Apply, Editor!OtherScreen,
         Editor!Reset, Editor!ToggleLock, Editor!Edit, Editor!kept
<1>4. \A r : /\ Editor!IsNative(r)' <=> Editor!IsNative(r)
             /\ Editor!IsPlaced(r)' <=> Editor!IsPlaced(r)
  BY <1>3 DEF Editor!IsNative, Editor!IsPlaced, Editor!ToUi
<1>5. SUFFICES /\ dScreen' \in Editor!Screens
               /\ dLayout' \in BOOLEAN /\ dLock' \in BOOLEAN /\ (dEditing' => dLayout')
               /\ Editor!ArePlaced(dRect') /\ Editor!ArePlaced(dBackup'.rect)
               /\ dBackup'.layout \in BOOLEAN /\ dBackup'.lock \in BOOLEAN
               /\ dLayout' /\ dLock' => \A s \in Editor!Screens : Editor!IsNative(dRect'[s])
  BY <1>2, <1>3, <1>4, Zenon DEF Editor!IInv, Editor!ArePlaced
<1>6. CASE Editor!Begin
  <2>1. /\ dScreen' = 0 /\ dEditing' = TRUE /\ dLayout' = TRUE /\ dLock' = dLock
        /\ dBackup'.layout = dLayout /\ dBackup'.lock = dLock /\ dBackup'.rect = dRect
        /\ dRect' = Editor!Calculated(dRect, TRUE, dLock)
    BY <1>6 DEF Editor!Begin
  <2>2. /\ Editor!ArePlaced(dRect')
        /\ (dLock => \A s \in Editor!Screens : Editor!IsNative(dRect'[s]))
    BY <1>2, <2>1, EdCalculated
  <2>3. QED  BY <1>2, <2>1, <2>2 DEF Editor!Screens
<1>7. CASE Editor!Cancel
  <2>1. /\ dScreen' = dScreen /\ dEditing' = FALSE /\ dBackup' = dBackup
        /\ dLayout' = dBackup.layout /\ dLock' = dBackup.lock
        /\ dRect' = Editor!Calculated(dBackup.rect, dLayout', dLock')
    BY <1>7 DEF Editor!Cancel
  <2>2. /\ Editor!ArePlaced(dRect')
        /\ (dLayout' /\ dLock' => \A s \in Editor!Screens : Editor!IsNative(dRect'[s]))
    BY <1>2, <2>1, EdCalculated
  <2>3. QED  BY <1>2, <2>1, <2>2
<1>8. CASE Editor!Apply
  <2>1. /\ dScreen' = dScreen /\ dEditing' = FALSE /\ dBackup' = dBackup
        /\ dLayout' = TRUE /\ dLock' = dLock
        /\ dRect' = Editor!Calculated(dRect, TRUE, dLock)
    BY <1>8 DEF Editor!Apply
  <2>2. /\ Editor!ArePlaced(dRect')
        /\ (dLock => \A s \in Editor!Screens : Editor!IsNative(dRect'[s]))
    BY <1>2, <2>1, EdCalculated
  <2>3. QED  BY <1>2, <2>1, <2>2
<1>9. CASE Editor!OtherScreen
  <2>1. /\ dScreen' = 1 - dScreen /\ dRect' = dRect /\ dLock' = dLock
        /\ dEditing' = dEditing /\ dLayout' = dLayout /\ dBackup' = dBackup
    BY <1>9 DEF Editor!OtherScreen, Editor!kept
  <2>2. QED  BY <1>2, <2>1 DEF Editor!Screens
<1>10. CASE Editor!Reset
  <2>1. /\ dScreen' = dScreen /\ dLock' = dLock /\ dEditing' = dEditing /\ dEditing
        /\ dLayout' = dLayout /\ dBackup' = dBackup
        /\ dRect' = Editor!Calculated(Editor!Standard, TRUE, dLock)
    BY <1>10 DEF Editor!Reset, Editor!Editing, Editor!kept
  <2>2. /\ Editor!ArePlaced(dRect')
        /\ (dLock => \A s \in Editor!Screens : Editor!IsNative(dRect'[s]))
    BY <1>2, <2>1, EdStandard, EdCalculated
  <2>3. QED  BY <1>2, <2>1, <2>2
<1>11. CASE Editor!ToggleLock
  <2>1. /\ dScreen' = dScreen /\ dLock' = ~dLock /\ dEditing' = dEditing /\ dEditing
        /\ dLayout' = dLayout /\ dBackup' = dBackup
        /\ dRect' = Editor!Calculated(dRect, TRUE, dLock')
    BY <1>11 DEF Editor!ToggleLock, Editor!Editing, Editor!kept
  <2>2. /\ Editor!ArePlaced(dRect')
        /\ (dLock' => \A s \in Editor!Screens : Editor!IsNative(dRect'[s]))
    BY <1>2, <2>1, EdCalculated
  <2>3. QED  BY <1>2, <2>1, <2>2
<1>12. CASE Editor!Edit
  <2>1. /\ dScreen' = dScreen /\ dLock' = dLock /\ dEditing' = dEditing
        /\ dLayout' = dLayout /\ dBackup' = dBackup
    BY <1>12 DEF Editor!Edit, Editor!kept
  <2>2. /\ Editor!ArePlaced(dRect')
        /\ (dLayout /\ dLock => \A s \in Editor!Screens : Editor!IsNative(dRect'[s]))
    BY <1>1, <1>12, EdEdit
  <2>3. QED  BY <1>2, <2>1, <2>2
<1>13. QED  BY <1>1, <1>6, <1>7, <1>8, <1>9, <1>10, <1>11, <1>12 DEF Editor!Next

LEMMA EditorStutter == Editor!IInv /\ UNCHANGED Editor!vars => Editor!IInv'
  BY DEF Editor!IInv, Editor!ArePlaced, Editor!IsPlaced, Editor!IsNative, Editor!ToUi,
         Editor!vars

LEMMA EditorSafe == Editor!IInv /\ Editor!Next => Editor!EditsAsShown
<1>1. SUFFICES ASSUME Editor!IInv, Editor!Next, dAsked' # Editor!Nothing PROVE Editor!EditsAsShown
  BY DEF Editor!EditsAsShown
<1>2. Editor!Edit
  BY <1>1
     DEF Editor!Next, Editor!Begin, Editor!Cancel, Editor!Apply, Editor!OtherScreen,
         Editor!Reset, Editor!ToggleLock
<1>3. /\ dRotation \in 0 .. 3 /\ dScreen \in Editor!Screens /\ dLock \in BOOLEAN /\ dLayout
      /\ Editor!ArePlaced(dRect)
      /\ dLock => \A s \in Editor!Screens : Editor!IsNative(dRect[s])
  BY <1>1, <1>2 DEF Editor!IInv, Editor!Edit, Editor!Editing
<1>4. PICK m \in EditMoves \cup {Editor!Still}, s \in EditSizes \cup {Editor!Still} :
        /\ dAsked' = [move |-> m, size |-> s]
        /\ dRect' = [dRect EXCEPT ![dScreen] = Editor!Edited(dRect[dScreen], m, s)]
  BY <1>1, <1>2, EdEdit
<1>5. PICK before, after : before = dRect[dScreen] /\ after = Editor!Edited(before, m, s)
  OBVIOUS
<1>6. /\ Editor!IsPlaced(before) /\ (dLock => Editor!IsNative(before))
      /\ dRect = [t \in Editor!Screens |-> dRect[t]]
  BY <1>3, <1>5 DEF Editor!ArePlaced
<1>7. dRect'[dScreen] = after /\ dRect'[1 - dScreen] = dRect[1 - dScreen]
  BY <1>3, <1>4, <1>5, <1>6 DEF Editor!Screens
<1>8. dAsked'.move = m /\ dAsked'.size = s
  BY <1>4
<1>9. PICK a, b, c, d, e, f, g, k \in Int :
        /\ Editor!ToUi(before) = EdRect(a, b, c, d)
        /\ IsFit(after) /\ EdAsked(Editor!ToUi(after), a, b, c, d, e, f, g, k, m, s)
  BY <1>3, <1>5, <1>6, EdEdited
<1>10. IsFit(before) /\ Editor!ToUi(after) = EdRect(e, f, g, k)
  BY <1>3, <1>6, <1>9, EdOnPanel DEF EdAsked
<1>11. /\ Editor!Span(before, 1).from = a /\ Editor!Span(before, 1).length = c
       /\ Editor!Span(before, 2).from = b /\ Editor!Span(before, 2).length = d
  BY <1>3, <1>9, <1>10, EdSpan
<1>12. /\ Editor!Span(after, 1).from = e /\ Editor!Span(after, 1).length = g
       /\ Editor!Span(after, 2).from = f /\ Editor!Span(after, 2).length = k
  BY <1>3, <1>9, <1>10, EdSpan
<1>13. s = Editor!Still => \A axis \in 1 .. 2 :
         /\ Editor!Follows(Editor!Span(before, axis).from, Editor!Span(after, axis).from, m[axis])
         /\ Editor!Span(after, axis).length = Editor!Span(before, axis).length
  <2>1. s = Editor!Still =>
          /\ g = c /\ k = d
          /\ Editor!Follows(a, e, m[1]) /\ Editor!Follows(b, f, m[2])
    BY <1>9 DEF EdAsked
  <2>2. QED  BY <1>11, <1>12, <2>1
<1>14. ~dLock => \A axis \in 1 .. 2 :
         Editor!Follows(Editor!Span(before, axis).length, Editor!Span(after, axis).length, s[axis])
  <2>1. ~dLock => Editor!Follows(c, g, s[1]) /\ Editor!Follows(d, k, s[2])
    BY <1>9 DEF EdAsked
  <2>2. QED  BY <1>11, <1>12, <2>1
<1>15. dLock => 3 * Editor!Span(after, 1).length = 4 * Editor!Span(after, 2).length
  BY <1>9, <1>12 DEF EdAsked
<1>16. after.x + after.w <= SquareSide /\ after.y + after.h <= SquareSide
  BY <1>9, EdFields DEF IsFit, EdFits
<1>17. QED  BY <1>7, <1>8, <1>5, <1>13, <1>14, <1>15, <1>16, Zenon DEF Editor!EditsAsShown

HIDE DEF dEditing, dRotation, dLayout, dLock, dRect, dSaved, dBackup, dScreen, dAsked

--------------------------------------------------------------------------------
(* The whole.  A behaviour exercises one part, and what the part does to its    *)
(* slots is what its module says, for its invariant to hold of the part; then   *)
(* the theorems follow.                                                         *)

(* The invariant of Session holds while it is the part exercised. *)
LEMMA SessionAlways == HostSpec => [](part = "session" => Session!IInv)
<1>1. HostInit => (part = "session" => Session!IInv)
  BY SessionInit DEF HostInit
<1>2. /\ part = "session" => Session!IInv
      /\ [HostNext]_hostVars
      => (part = "session" => Session!IInv)'
  <2> SUFFICES ASSUME part = "session" => Session!IInv, [HostNext]_hostVars, part' = "session"
               PROVE  Session!IInv'
    OBVIOUS
  <2>1. CASE HostNext
    BY <2>1, SessionStep DEF HostNext
  <2>2. CASE UNCHANGED hostVars
    <3>1. part = "session" /\ UNCHANGED Session!vars
      BY <2>2 DEF hostVars, slots, after6, after7, after9, after10, Session!vars,
                  Session!host, Session!session
    <3>2. QED  BY <3>1, SessionStutter
  <2>3. QED  BY <2>1, <2>2
<1>3. QED  BY <1>1, <1>2, PTL DEF HostSpec

(* The invariant of Pages holds while it is the part exercised. *)
LEMMA PagesAlways == HostSpec => [](part = "pages" => Pages!IInv)
<1>1. HostInit => (part = "pages" => Pages!IInv)
  BY PagesInit DEF HostInit
<1>2. /\ part = "pages" => Pages!IInv
      /\ [HostNext]_hostVars
      => (part = "pages" => Pages!IInv)'
  <2> SUFFICES ASSUME part = "pages" => Pages!IInv, [HostNext]_hostVars, part' = "pages"
               PROVE  Pages!IInv'
    OBVIOUS
  <2>1. CASE HostNext
    BY <2>1, PagesStep DEF HostNext
  <2>2. CASE UNCHANGED hostVars
    <3>1. part = "pages" /\ UNCHANGED Pages!vars
      BY <2>2 DEF hostVars, slots, after6, after7, after9, after10, Pages!vars
    <3>2. QED  BY <3>1, PagesStutter
  <2>3. QED  BY <2>1, <2>2
<1>3. QED  BY <1>1, <1>2, PTL DEF HostSpec

(* The invariant of States holds while it is the part exercised. *)
LEMMA StatesAlways == HostSpec => [](part = "states" => States!IInv)
<1>1. HostInit => (part = "states" => States!IInv)
  BY StatesInit DEF HostInit
<1>2. /\ part = "states" => States!IInv
      /\ [HostNext]_hostVars
      => (part = "states" => States!IInv)'
  <2> SUFFICES ASSUME part = "states" => States!IInv, [HostNext]_hostVars, part' = "states"
               PROVE  States!IInv'
    OBVIOUS
  <2>1. CASE HostNext
    BY <2>1, StatesStep DEF HostNext
  <2>2. CASE UNCHANGED hostVars
    <3>1. part = "states" /\ UNCHANGED States!vars
      BY <2>2 DEF hostVars, slots, after6, after7, after9, after10, States!vars
    <3>2. QED  BY <3>1, StatesStutter
  <2>3. QED  BY <2>1, <2>2
<1>3. QED  BY <1>1, <1>2, PTL DEF HostSpec

(* The invariant of Prefs holds while it is the part exercised. *)
LEMMA PrefsAlways == HostSpec => [](part = "prefs" => Prefs!IInv)
<1>1. HostInit => (part = "prefs" => Prefs!IInv)
  BY PrefsInit DEF HostInit
<1>2. /\ part = "prefs" => Prefs!IInv
      /\ [HostNext]_hostVars
      => (part = "prefs" => Prefs!IInv)'
  <2> SUFFICES ASSUME part = "prefs" => Prefs!IInv, [HostNext]_hostVars, part' = "prefs"
               PROVE  Prefs!IInv'
    OBVIOUS
  <2>1. CASE HostNext
    BY <2>1, PrefsStep DEF HostNext
  <2>2. CASE UNCHANGED hostVars
    <3>1. part = "prefs" /\ UNCHANGED Prefs!vars
      BY <2>2 DEF hostVars, slots, after6, after7, after9, after10, Prefs!vars
    <3>2. QED  BY <3>1, PrefsStutter
  <2>3. QED  BY <2>1, <2>2
<1>3. QED  BY <1>1, <1>2, PTL DEF HostSpec

(* The invariant of Archives holds while it is the part exercised. *)
LEMMA ArchivesAlways == HostSpec => [](part = "archive" => Archives!IInv)
<1>1. HostInit => (part = "archive" => Archives!IInv)
  BY ArchivesInit DEF HostInit
<1>2. /\ part = "archive" => Archives!IInv
      /\ [HostNext]_hostVars
      => (part = "archive" => Archives!IInv)'
  <2> SUFFICES ASSUME part = "archive" => Archives!IInv, [HostNext]_hostVars, part' = "archive"
               PROVE  Archives!IInv'
    OBVIOUS
  <2>1. CASE HostNext
    BY <2>1, ArchivesStep DEF HostNext
  <2>2. CASE UNCHANGED hostVars
    <3>1. part = "archive" /\ UNCHANGED Archives!vars
      BY <2>2 DEF hostVars, slots, after6, after7, after9, after10, Archives!vars
    <3>2. QED  BY <3>1, ArchivesStutter
  <2>3. QED  BY <2>1, <2>2
<1>3. QED  BY <1>1, <1>2, PTL DEF HostSpec

(* The invariant of Cheats holds while it is the part exercised. *)
LEMMA CheatsAlways == HostSpec => [](part = "cheats" => Cheats!IInv)
<1>1. HostInit => (part = "cheats" => Cheats!IInv)
  BY CheatsInit DEF HostInit
<1>2. /\ part = "cheats" => Cheats!IInv
      /\ [HostNext]_hostVars
      => (part = "cheats" => Cheats!IInv)'
  <2> SUFFICES ASSUME part = "cheats" => Cheats!IInv, [HostNext]_hostVars, part' = "cheats"
               PROVE  Cheats!IInv'
    OBVIOUS
  <2>1. CASE HostNext
    BY <2>1, CheatsStep DEF HostNext
  <2>2. CASE UNCHANGED hostVars
    <3>1. part = "cheats" /\ UNCHANGED Cheats!vars
      BY <2>2 DEF hostVars, slots, after6, after7, after9, after10, Cheats!vars
    <3>2. QED  BY <3>1, CheatsStutter
  <2>3. QED  BY <2>1, <2>2
<1>3. QED  BY <1>1, <1>2, PTL DEF HostSpec

(* The invariant of Pointers holds while it is the part exercised. *)
LEMMA PointersAlways == HostSpec => [](part = "pointers" => Pointers!TypeOK)
<1>1. HostInit => (part = "pointers" => Pointers!TypeOK)
  BY PointersInit DEF HostInit
<1>2. /\ part = "pointers" => Pointers!TypeOK
      /\ [HostNext]_hostVars
      => (part = "pointers" => Pointers!TypeOK)'
  <2> SUFFICES ASSUME part = "pointers" => Pointers!TypeOK, [HostNext]_hostVars, part' = "pointers"
               PROVE  Pointers!TypeOK'
    OBVIOUS
  <2>1. CASE HostNext
    BY <2>1, PointersStep DEF HostNext
  <2>2. CASE UNCHANGED hostVars
    <3>1. part = "pointers" /\ UNCHANGED Pointers!vars
      BY <2>2 DEF hostVars, slots, after6, after7, after9, after10, Pointers!vars,
                  Pointers!host
    <3>2. QED  BY <3>1, PointersStutter
  <2>3. QED  BY <2>1, <2>2
<1>3. QED  BY <1>1, <1>2, PTL DEF HostSpec

(* The invariant of Editor holds while it is the part exercised. *)
LEMMA EditorAlways == HostSpec => [](part = "layout" => Editor!IInv)
<1>1. HostInit => (part = "layout" => Editor!IInv)
  BY EditorInit DEF HostInit
<1>2. /\ part = "layout" => Editor!IInv
      /\ [HostNext]_hostVars
      => (part = "layout" => Editor!IInv)'
  <2> SUFFICES ASSUME part = "layout" => Editor!IInv, [HostNext]_hostVars, part' = "layout"
               PROVE  Editor!IInv'
    OBVIOUS
  <2>1. CASE HostNext
    BY <2>1, EditorStep DEF HostNext
  <2>2. CASE UNCHANGED hostVars
    <3>1. part = "layout" /\ UNCHANGED Editor!vars
      BY <2>2 DEF hostVars, slots, after6, after7, after9, after10, Editor!vars
    <3>2. QED  BY <3>1, EditorStutter
  <2>3. QED  BY <2>1, <2>2
<1>3. QED  BY <1>1, <1>2, PTL DEF HostSpec

(* Whatever comes when - the menu, the focus, a fast-forward, the end - the     *)
(* core stands still while the menu or another program has the screen, and runs *)
(* as it is set otherwise.                                                      *)
THEOREM CoreFollowsHost == HostSpec => []SessionInStep
<1>1. (part = "session" => Session!IInv) => SessionInStep
  BY SessionSafe DEF SessionInStep
<1>2. QED  BY <1>1, SessionAlways, PTL

(* Trying, cancelling and failing in the menu leave no trace: outside the picker *)
(* and the editor the game runs as the preferences say, the core has the saved   *)
(* rows, and the custom shader that is chosen is the one that is installed.      *)
THEOREM MenuForgets == HostSpec => []MenuLeavesNoTrace
<1>1. (part = "pages" => Pages!IInv) => MenuLeavesNoTrace
  BY PagesSafe DEF MenuLeavesNoTrace
<1>2. QED  BY <1>1, PagesAlways, PTL

(* Deleting a state deletes the one whose picture is shown, of the own game or  *)
(* of the files that match it, unless a save came in between.                   *)
THEOREM ShownIsDeleted == HostSpec => DeletesWhatIsShown
<1>1. /\ part = "states" => States!IInv
      /\ [HostNext]_hostVars
      => [part = "states" => States!DeletesWhatIsShown]_hostVars
  <2> SUFFICES ASSUME part = "states" => States!IInv, HostNext, part = "states"
               PROVE  States!DeletesWhatIsShown
    OBVIOUS
  <2>1. QED  BY StatesSafe DEF HostNext
<1>2. QED  BY <1>1, StatesAlways, PTL DEF HostSpec, DeletesWhatIsShown

(* What the user has chosen outlives the session: a profile keeps every other   *)
(* setting when one is mirrored into it, and loading changes no choice.         *)
THEOREM ChoicesOutlive == HostSpec => []ChoicesSurvive
<1>1. (part = "prefs" => Prefs!IInv) => ChoicesSurvive
  BY PrefsSafe DEF ChoicesSurvive
<1>2. QED  BY <1>1, PrefsAlways, PTL

(* The game that is started is the archive's the user chose, as it is now.      *)
THEOREM ChosenIsPlayed == HostSpec => []PlaysChosenArchive
<1>1. (part = "archive" => Archives!IInv) => PlaysChosenArchive
  BY ArchivesSafe DEF PlaysChosenArchive
<1>2. QED  BY <1>1, ArchivesAlways, PTL

(* The page's entries say what the core's cheats are, the core runs with what it *)
(* has been told, and the saved numbers are those of the cheats that are on.     *)
THEOREM CheatsOutlive == HostSpec => []SavedCheatsMatch
<1>1. (part = "cheats" => Cheats!IInv) => SavedCheatsMatch
  BY CheatsSafe DEF SavedCheatsMatch
<1>2. QED  BY <1>1, CheatsAlways, PTL

(* Pointing means what is seen: a touch is a pixel under the finger, the cursor *)
(* is drawn on the pixel it touches, and it follows the stick and the sensor,   *)
(* in every layout, turned and swapped.                                         *)
THEOREM PointersMeanWhatIsSeen == HostSpec => []PointedAsSeen
<1>1. (part = "pointers" => Pointers!TypeOK) => PointedAsSeen
  BY PointersSafe DEF PointedAsSeen
<1>2. QED  BY <1>1, PointersAlways, PTL

(* An edit moves or sizes what the user sees the way it was asked to, however   *)
(* the picture is turned, stays on the panel, and with the lock keeps the aspect. *)
THEOREM EditsMeanWhatIsShown == HostSpec => EditsAsShown
<1>1. /\ part = "layout" => Editor!IInv
      /\ [HostNext]_hostVars
      => [part = "layout" => Editor!EditsAsShown]_hostVars
  <2> SUFFICES ASSUME part = "layout" => Editor!IInv, HostNext, part = "layout"
               PROVE  Editor!EditsAsShown
    OBVIOUS
  <2>1. QED  BY EditorSafe DEF HostNext
<1>2. QED  BY <1>1, EditorAlways, PTL DEF HostSpec, EditsAsShown
================================================================================
