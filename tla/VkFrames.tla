-------------------------------- MODULE VkFrames --------------------------------
(***************************************************************************)
(* How frames pass through the Vulkan renderer: the ring of frame slots,   *)
(* the queue, the images of the swapchain and the handshake with the core  *)
(* in source/drastic_vk_renderer.c, with the frame generation of           *)
(* source/lsfg/lsfg_bridge.cpp, which presents two images for a frame.     *)
(* The host is one thread; the GPU works off the queue and the compositor  *)
(* shows presented images beside it.  What a frame shows is VkTextures'.   *)
(*                                                                         *)
(* A queue item is what one submission leaves to the GPU, the presentation *)
(* that waits for it included: a renderer's frame, its direct presentation *)
(* ("show"), and of frame generation the first capture ("warm"), a capture *)
(* with the generated image, and the restored real image.                  *)
(***************************************************************************)
EXTENDS Integers, Sequences, FiniteSets

CONSTANTS
  FrameSlots,   \* RENDER_FRAME_SLOTS
  MinImages,    \* minImageCount of the surface
  MaxImages,    \* its maxImageCount
  Faults        \* what may fail: "draw", "present", "create"

VARIABLES
  mode,       \* "plain", "lowlatency" or "lsfg": chosen for the life of the renderer
  pc,         \* where drastic_renderer_present is; "idle" in the main loop
  owed,       \* the core waits for its finished picture to be taken
  cursor,     \* g_frame_slot_cursor
  pending,    \* slots whose flag pending is set
  unsignaled, \* slots whose fence is not signaled
  gpu,        \* the queue's items, oldest first
  fifo,       \* images the compositor has yet to show
  shown,      \* one image is on the display
  leaked,     \* images acquired and never given back
  requested,  \* g_lsfg_enabled_requested
  runtime,    \* g_lsfg_runtime exists
  attempted,  \* g_lsfg_init_attempted
  real,       \* realFrameIndex: 0, then 1 and 2 in turn
  fidx,       \* the frame index of the backend, modulo 2
  turn,       \* slotCursor of the bridge
  skipped     \* history: a generated frame was not followed by its real one

frameVars == <<mode, cursor, pending, unsignaled>>
lsfgVars == <<runtime, attempted, real, fidx, turn, skipped>>
vars == <<mode, pc, owed, cursor, pending, unsignaled, gpu, fifo, shown, leaked,
          requested, runtime, attempted, real, fidx, turn, skipped>>

Lsfg == mode = "lsfg"
Slots == IF Lsfg THEN FrameSlots ELSE 1
Slot == 0 .. FrameSlots - 1

\* create_swapchain: the images asked of the surface.
Images ==
  LET asked == MinImages + (CASE mode = "plain" -> 1 [] mode = "lowlatency" -> 0 [] Lsfg -> 3)
  IN  IF asked > MaxImages THEN MaxImages ELSE asked

\* The bridge's slots: as many as there are images, three at least.
Turns == IF Images > 3 THEN Images ELSE 3

\* The slot of the frame that was submitted last.
Submitted == (cursor + Slots - 1) % Slots

Queued == 1 .. Len(gpu)
FrameOf(s) == {i \in Queued : gpu[i].kind = "frame" /\ gpu[i].slot = s}
UsesSlot(s) == {i \in Queued : gpu[i].slot = s}
UsesTurn(t) == {i \in Queued : gpu[i].turn = t}

Held == IF pc \in {"draw", "present"} THEN 1 ELSE 0
Free == Images - leaked - Held - Cardinality({i \in Queued : gpu[i].shows}) - fifo
               - (IF shown THEN 1 ELSE 0)

None == -1
Item(kind, slot, t, shows) == [kind |-> kind, slot |-> slot, turn |-> t, shows |-> shows]
Items ==
  [kind : {"frame", "show", "warm", "generate", "restore"}, slot : 0 .. Slots - 1,
   turn : (0 .. Turns - 1) \cup {None}, shows : BOOLEAN]

--------------------------------------------------------------------------------
(* drastic_renderer_present *)

\* A frame with a picture of the core takes it at once, unless the renderer
\* defers that for low latency.
Begin(consume) ==
  /\ pc = "idle"
  /\ owed' = (consume /\ mode = "lowlatency")
  /\ pc' = IF runtime /\ ~requested THEN "retire" ELSE "slot"
  /\ UNCHANGED <<frameVars, gpu, fifo, shown, leaked, requested, lsfgVars>>

\* Frame generation was switched off: its runtime waits for the device.
Retire ==
  /\ pc = "retire" /\ gpu = <<>>
  /\ runtime' = FALSE /\ attempted' = FALSE
  /\ real' = 0 /\ fidx' = 0 /\ turn' = 0 /\ skipped' = FALSE
  /\ pc' = "slot"
  /\ UNCHANGED <<owed, frameVars, gpu, fifo, shown, leaked, requested>>

\* Mutant: a slot waits for its own fence, whatever follows its frame.
OwnFenceOnly(s) == s \notin pending \/ s \notin unsignaled

\* wait_frame_slot: with several slots the fence of the following frame covers
\* what frame generation does with this one.
SlotFinished(s) ==
  LET guard == (s + 1) % Slots
  IN  \/ s \notin pending
      \/ IF Slots = 1 THEN s \notin unsignaled
         ELSE IF guard \in pending THEN guard \notin unsignaled ELSE gpu = <<>>

SlotReady ==
  /\ pc = "slot" /\ SlotFinished(cursor)
  /\ pending' = pending \ {cursor}
  /\ pc' = "acquire"
  /\ UNCHANGED <<mode, owed, cursor, unsignaled, gpu, fifo, shown, leaked, requested, lsfgVars>>

SlotTimeout ==
  /\ pc = "slot" /\ ~SlotFinished(cursor)
  /\ owed' = FALSE
  /\ pc' = "idle"
  /\ UNCHANGED <<frameVars, gpu, fifo, shown, leaked, requested, lsfgVars>>

Acquire ==
  /\ pc = "acquire" /\ Free > 0
  /\ pc' = "draw"
  /\ UNCHANGED <<owed, frameVars, gpu, fifo, shown, leaked, requested, lsfgVars>>

\* No image within 50 ms, or an error.
AcquireFails ==
  /\ pc = "acquire"
  /\ owed' = FALSE
  /\ pc' = "idle"
  /\ UNCHANGED <<frameVars, gpu, fifo, shown, leaked, requested, lsfgVars>>

Draw ==
  /\ pc = "draw"
  /\ owed' = FALSE
  /\ unsignaled' = unsignaled \cup {cursor}
  /\ gpu' = Append(gpu, Item("frame", cursor, None, FALSE))
  /\ pending' = pending \cup {cursor}
  /\ cursor' = (cursor + 1) % Slots
  /\ pc' = "present"
  /\ UNCHANGED <<mode, fifo, shown, leaked, requested, lsfgVars>>

\* Mutant: the slot is marked before the submission that fails.
DrawFailsPending ==
  /\ pc = "draw" /\ "draw" \in Faults
  /\ owed' = FALSE
  /\ unsignaled' = unsignaled \cup {cursor}
  /\ pending' = pending \cup {cursor}
  /\ leaked' = leaked + 1
  /\ pc' = "idle"
  /\ UNCHANGED <<mode, cursor, gpu, fifo, shown, requested, lsfgVars>>

\* Recording fails, or the submission after the fence was reset; the image
\* is not given back.
DrawFails ==
  /\ pc = "draw" /\ "draw" \in Faults
  /\ owed' = FALSE
  /\ unsignaled' \in {unsignaled, unsignaled \cup {cursor}}
  /\ leaked' = leaked + 1
  /\ pc' = "idle"
  /\ UNCHANGED <<mode, cursor, pending, gpu, fifo, shown, requested, lsfgVars>>

\* Whether vkQueuePresentKHR succeeds; when not, the image stays acquired.
Outcome == {TRUE} \cup (IF "present" \in Faults THEN {FALSE} ELSE {})
Lost(shows) == IF shows THEN 0 ELSE 1

PresentDirect ==
  /\ pc = "present" /\ ~requested
  /\ \E shows \in Outcome :
       /\ gpu' = Append(gpu, Item("show", Submitted, None, shows))
       /\ leaked' = leaked + Lost(shows)
  /\ pc' = "idle"
  /\ UNCHANGED <<owed, frameVars, fifo, shown, requested, lsfgVars>>

--------------------------------------------------------------------------------
(* lsfg_try_create and the bridge's present *)

\* The frame is dropped when there is no runtime; creation is tried once.
LsfgMissing ==
  /\ pc = "present" /\ requested /\ ~runtime
  /\ attempted \/ "create" \in Faults
  /\ attempted' = TRUE
  /\ leaked' = leaked + 1
  /\ pc' = "idle"
  /\ UNCHANGED <<owed, frameVars, gpu, fifo, shown, requested, runtime, real, fidx, turn, skipped>>

LsfgCreate ==
  /\ pc = "present" /\ requested /\ ~runtime /\ ~attempted
  /\ runtime' = TRUE /\ attempted' = TRUE
  /\ UNCHANGED <<pc, owed, frameVars, gpu, fifo, shown, leaked, requested, real, fidx, turn, skipped>>

\* prepareSlot waits for its slot's last capture or restoration, if any.
TurnFinished ==
  \A i \in UsesTurn(turn) : gpu[i].kind \notin {"warm", "restore"}

\* The first frame only fills a source image, and is presented as it is.
WarmUp ==
  /\ pc = "present" /\ requested /\ runtime /\ real = 0 /\ TurnFinished
  /\ \E shows \in Outcome :
       /\ gpu' = Append(gpu, Item("warm", Submitted, turn, shows))
       /\ leaked' = leaked + Lost(shows)
  /\ turn' = (turn + 1) % Turns
  /\ real' = 1
  /\ pc' = "idle"
  /\ UNCHANGED <<owed, frameVars, fifo, shown, requested, runtime, attempted, fidx, skipped>>

\* The source image the frame is copied to, and the one the backend takes for it.
Source == (real + 1) % 2
Expected == fidx

\* Mutant: the real frame is counted before it is restored as well.
GenerateCounting ==
  /\ pc = "present" /\ requested /\ runtime /\ real > 0 /\ TurnFinished
  /\ \E shows \in Outcome :
       /\ gpu' = Append(gpu, Item("generate", Submitted, turn, shows))
       /\ leaked' = leaked + Lost(shows)
       /\ pc' = IF shows THEN "restore" ELSE "idle"
       /\ skipped' = (skipped \/ ~shows)
  /\ turn' = (turn + 1) % Turns
  /\ real' = 3 - real
  /\ fidx' = 1 - fidx
  /\ UNCHANGED <<owed, frameVars, fifo, shown, requested, runtime, attempted>>

\* The frame goes to its source image and the generated one into its place;
\* when that cannot be presented the real frame is dropped.
Generate ==
  /\ pc = "present" /\ requested /\ runtime /\ real > 0 /\ TurnFinished
  /\ \E shows \in Outcome :
       /\ gpu' = Append(gpu, Item("generate", Submitted, turn, shows))
       /\ leaked' = leaked + Lost(shows)
       /\ pc' = IF shows THEN "restore" ELSE "idle"
       /\ skipped' = (skipped \/ ~shows)
  /\ turn' = (turn + 1) % Turns
  /\ fidx' = 1 - fidx
  /\ UNCHANGED <<owed, frameVars, fifo, shown, requested, runtime, attempted, real>>

\* Without a limit of time, the bridge acquires an image for the real frame.
Restore ==
  /\ pc = "restore" /\ Free > 0
  /\ \E shows \in Outcome :
       /\ gpu' = Append(gpu, Item("restore", Submitted, (turn + Turns - 1) % Turns, shows))
       /\ leaked' = leaked + Lost(shows)
  /\ real' = 3 - real
  /\ pc' = "idle"
  /\ UNCHANGED <<owed, frameVars, fifo, shown, requested, runtime, attempted, fidx, turn, skipped>>

RestoreFails ==
  /\ pc = "restore" /\ "present" \in Faults
  /\ skipped' = TRUE
  /\ pc' = "idle"
  /\ UNCHANGED <<owed, frameVars, gpu, fifo, shown, leaked, requested, runtime, attempted, real, fidx, turn>>

--------------------------------------------------------------------------------
(* The menu, the applet's focus, the GPU and the compositor *)

\* drastic_renderer_lsfg_request_enabled, for a renderer prepared for it.
Toggle ==
  /\ pc = "idle" /\ Lsfg
  /\ requested' = ~requested
  /\ UNCHANGED <<pc, owed, frameVars, gpu, fifo, shown, leaked, lsfgVars>>

Suspend ==
  /\ pc = "idle" /\ gpu = <<>>
  /\ pending' = {}
  /\ pc' = "suspended"
  /\ UNCHANGED <<mode, owed, cursor, unsignaled, gpu, fifo, shown, leaked, requested, lsfgVars>>

Resume ==
  /\ pc = "suspended"
  /\ pc' = "idle"
  /\ UNCHANGED <<owed, frameVars, gpu, fifo, shown, leaked, requested, lsfgVars>>

Execute ==
  /\ gpu # <<>>
  /\ LET item == Head(gpu)
     IN  /\ unsignaled' = IF item.kind = "frame" THEN unsignaled \ {item.slot} ELSE unsignaled
         /\ fifo' = IF item.shows THEN fifo + 1 ELSE fifo
  /\ gpu' = Tail(gpu)
  /\ UNCHANGED <<mode, pc, owed, cursor, pending, shown, leaked, requested, lsfgVars>>

\* The image on the display gives way to the next one and is free again.
Display ==
  /\ fifo > 0
  /\ fifo' = fifo - 1
  /\ shown' = TRUE
  /\ UNCHANGED <<pc, owed, frameVars, gpu, leaked, requested, lsfgVars>>

--------------------------------------------------------------------------------
Init ==
  /\ mode \in {"plain", "lowlatency", "lsfg"}
  /\ pc = "idle" /\ owed = FALSE
  /\ cursor = 0 /\ pending = {} /\ unsignaled = {}
  /\ gpu = <<>> /\ fifo = 0 /\ shown = FALSE /\ leaked = 0
  /\ requested = FALSE /\ runtime = FALSE /\ attempted = FALSE
  /\ real = 0 /\ fidx = 0 /\ turn = 0 /\ skipped = FALSE

Frame == \E consume \in BOOLEAN : Begin(consume)
Finish == Retire \/ SlotReady \/ SlotTimeout \/ AcquireFails \/ Draw \/ DrawFails \/ PresentDirect
Generation == LsfgMissing \/ LsfgCreate \/ WarmUp \/ Generate \/ Restore \/ RestoreFails

Next ==
  \/ Frame \/ Finish \/ Acquire \/ Generation
  \/ Toggle \/ Suspend \/ Resume
  \/ Execute \/ Display

Spec == Init /\ [][Next]_vars

\* The main loop presents once a round, whatever else it does; a call goes on
\* to its end, and not every acquisition fails while images become free; the
\* GPU and the compositor go on.
FairSpec ==
  /\ Spec
  /\ SF_vars(Frame) /\ WF_vars(Finish) /\ SF_vars(Acquire) /\ WF_vars(Generation)
  /\ WF_vars(Execute) /\ WF_vars(Display)

--------------------------------------------------------------------------------
(* What every state is made of.                                             *)
TypeOK ==
  /\ mode \in {"plain", "lowlatency", "lsfg"}
  /\ owed \in BOOLEAN /\ shown \in BOOLEAN
  /\ cursor \in 0 .. Slots - 1 /\ pending \subseteq 0 .. Slots - 1
  /\ unsignaled \subseteq 0 .. Slots - 1
  /\ gpu \in Seq(Items)
  /\ fifo \in Nat /\ leaked \in Nat
  /\ requested \in BOOLEAN /\ runtime \in BOOLEAN /\ attempted \in BOOLEAN
  /\ real \in 0 .. 2 /\ fidx \in 0 .. 1 /\ turn \in 0 .. Turns - 1 /\ skipped \in BOOLEAN

(* Nothing that the queue still works with is taken up again.  When the     *)
(* host writes a slot's staging memory and records its commands the GPU is  *)
(* through with the frame that used them last, with several slots also with *)
(* all that frame generation does with that frame; the bridge records a     *)
(* slot's commands anew only when the GPU is through with them, also those  *)
(* of a generated frame that set no fence; and the runtime is gone only     *)
(* when nothing of it is left in the queue.                                 *)
NothingReusedInUse ==
  /\ pc \in {"acquire", "draw"} =>
       /\ FrameOf(cursor) = {}
       /\ Lsfg => UsesSlot(cursor) = {}
  /\ pc = "present" /\ requested /\ runtime => UsesTurn(turn) = {}
  /\ ~runtime => \A i \in Queued : gpu[i].turn = None

(* A fence the host may wait for is signaled or will be: a slot is pending  *)
(* only with a frame in the queue or done.  Otherwise every later frame     *)
(* would time out.                                                          *)
PendingFenceWillSignal == \A s \in pending \cap unsignaled : FrameOf(s) # {}

(* The core's finished picture is taken by every frame that was to take it, *)
(* whether or not the frame was drawn; the core waits for that.             *)
CoreFrameTaken == pc \in {"idle", "suspended"} => ~owed

(* The source image a frame is copied to is the one the backend takes for   *)
(* the current frame, through every switching off and on; only a generated  *)
(* frame that loses its real one puts them out of step.                     *)
SourcesInStep == pc = "present" /\ runtime /\ real > 0 /\ ~skipped => Source = Expected

(* Frames follow one another in order through slots, fences, the core's      *)
(* picture and the bridge's images: all of the above.                        *)
FramesInOrder ==
  NothingReusedInUse /\ PendingFenceWillSignal /\ CoreFrameTaken /\ SourcesInStep

(* "VI allows only one acquired image here" (lsfg_bridge.cpp).              *)
OneImageHeld == leaked + Held <= 1

(* New images keep appearing while the application is in the foreground, as *)
(* long as two images are left: slots, queue and swapchain never wait for   *)
(* one another for ever, frame generation's second image included, and no   *)
(* failed submission stops the frames after it.                             *)
FramesKeepComing ==
  []<>(pc # "suspended") => (<>(Images - leaked < 2) \/ []<><<Display>>_vars)

--------------------------------------------------------------------------------
(* What FramesInOrder rests on.                                             *)

(* Only frame generation makes use of the bridge, from its first frame on;  *)
(* its real frames are counted when they are restored.                      *)
BridgeInStep ==
  /\ requested \/ runtime => Lsfg
  /\ ~runtime => real = 0 /\ fidx = 0 /\ ~skipped
  /\ pc = "restore" => runtime /\ real > 0
  /\ ~skipped => fidx = (IF real = 0 THEN 0
                         ELSE IF pc = "restore" THEN real % 2 ELSE (real + 1) % 2)

(* A frame that was submitted has left the core its picture.                *)
PictureTaken == pc \in {"idle", "suspended", "present", "restore"} => ~owed

(* A queued frame's fence is not signaled, and its slot waits for it; with  *)
(* several slots also for the rest that is queued for the frame.  A slot    *)
(* that is taken waits for nothing.                                         *)
SlotsWait ==
  /\ \A i \in Queued : gpu[i].kind = "frame" => gpu[i].slot \in unsignaled
  /\ \A i \in Queued : gpu[i].kind = "frame" \/ Lsfg => gpu[i].slot \in pending
  /\ \A i, j \in Queued :
        gpu[i].kind = "frame" /\ gpu[j].kind = "frame" /\ gpu[i].slot = gpu[j].slot => i = j
  /\ pc \in {"acquire", "draw"} => cursor \notin pending
  /\ pc \in {"present", "restore"} => Submitted \in pending

(* How many frames were submitted after the one of the slot.                *)
Back(s) == IF s < cursor THEN cursor - 1 - s ELSE cursor - 1 - s + Slots

(* With several slots the queue is in the order of the frames, each before  *)
(* what follows it; when a frame is done, so is all that is older.          *)
QueueInOrder ==
  Lsfg =>
    /\ \A i, j \in Queued : i < j =>
          /\ Back(gpu[j].slot) <= Back(gpu[i].slot)
          /\ gpu[j].kind = "frame" => Back(gpu[j].slot) < Back(gpu[i].slot)
    /\ \A s \in pending : FrameOf(s) = {} => \A i \in Queued : Back(gpu[i].slot) <= Back(s)

(* How many of the bridge's slots were used after this one, Turns at most.  *)
Since(t) == IF t < turn THEN turn - t ELSE turn - t + Turns

(* A frame uses one of the bridge's slots at most.                          *)
TurnsInOrder ==
  \A i \in Queued : gpu[i].turn # None =>
    /\ runtime
    /\ Since(gpu[i].turn) <= Back(gpu[i].slot) + (IF pc = "present" THEN 0 ELSE 1)

IInv ==
  /\ TypeOK /\ BridgeInStep /\ PictureTaken
  /\ SlotsWait /\ PendingFenceWillSignal /\ QueueInOrder /\ TurnsInOrder
================================================================================
