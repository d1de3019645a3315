-------------------------------- MODULE MCOutput ---------------------------------
(* The host's two outputs, the audio player and the frames of the Vulkan        *)
(* renderer.  They share no state: a behaviour exercises one of them, the part. *)
(* The player has two wave buffers and a queue as long as its ring: the ring    *)
(* wraps around, both wave buffers are in use, and packets still wait.  The     *)
(* renderer has its three slots on a surface of two to three images, so that    *)
(* frame generation has the least number of images it accepts.                  *)
EXTENDS PlayerQueue, TLC

CONSTANTS FrameSlots, MinImages, MaxImages, FrameFaults  \* VkFrames

ASSUME FramesAssumption ==
  FrameSlots \in 2 .. 3 /\ MinImages \in Nat /\ MaxImages \in Nat

VARIABLES
  part, mode, at, owed, cursor, unsignaled, gpu, fifo, shown, leaked, busy,
  requested, runtime, attempted, real, fidx, turn, skipped

MCPacket == {"p", "q"}

F == INSTANCE VkFrames WITH
       pc <- at, pending <- busy, Faults <- FrameFaults

frameVars ==
  <<mode, at, owed, cursor, busy, unsignaled, gpu, fifo, shown, leaked,
    requested, runtime, attempted, real, fidx, turn, skipped>>
outputVars == <<vars, frameVars, part>>

Audio == part = "audio" /\ UNCHANGED <<frameVars, part>>
Video == part = "video" /\ UNCHANGED <<vars, part>>

\* The part that is left alone has one initial state.
OutputInit ==
  /\ part \in {"audio", "video"} /\ Init /\ F!Init
  /\ part = "audio" => mode = "plain"

OutputNext ==
  \/ Audio /\ ClientStep
  \/ Audio /\ PlayerStep
  \/ Audio /\ Played
  \/ Video /\ F!Frame
  \/ Video /\ F!Finish
  \/ Video /\ F!Acquire
  \/ Video /\ F!Generation
  \/ Video /\ F!Toggle
  \/ Video /\ F!Suspend
  \/ Video /\ F!Resume
  \/ Video /\ F!Execute
  \/ Video /\ F!Display

OutputSpec == OutputInit /\ [][OutputNext]_outputVars

\* The fairness of both components.  The part never changes, so that fairness
\* for a step of either is fairness for both.
FairOutputSpec ==
  /\ OutputSpec
  /\ WF_outputVars((Audio /\ PlayerStep) \/ (Video /\ F!Finish))
  /\ SF_outputVars((Audio /\ ServeOne) \/ (Video /\ F!Frame))
  /\ WF_outputVars((Audio /\ Played) \/ (Video /\ F!Generation))
  /\ SF_outputVars(Video /\ F!Acquire)
  /\ WF_outputVars(Video /\ F!Execute) /\ WF_outputVars(Video /\ F!Display)

FramesInOrder == F!FramesInOrder
FramesKeepComing == part = "video" => F!FramesKeepComing
OneImageHeld == F!OneImageHeld
================================================================================
