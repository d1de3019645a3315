------------------------------- MODULE AudioQueue -------------------------------
(***************************************************************************)
(* What the OpenSL ES buffer queue of opensles.c promises the core, without *)
(* its ring buffer, wave buffers and audio driver.                         *)
(*                                                                         *)
(* Buffers are played in the order they were enqueued, each one once.  At  *)
(* most Capacity buffers are outstanding, the ones already handed to the   *)
(* device included.  Each played buffer is reported by one callback.       *)
(***************************************************************************)
EXTENDS Naturals, Sequences

CONSTANTS
  Packet,      \* buffers the core may enqueue
  Capacity     \* numBuffers of the queue

VARIABLES
  waiting,     \* enqueued, not yet handed to the device
  playing,     \* handed to the device, in playing order
  played,      \* how many have been played and not yet been reported
  owed         \* a report was made whose callback has not run yet

vars == <<waiting, playing, played, owed>>

Init ==
  /\ waiting = <<>>
  /\ playing = <<>>
  /\ played = 0
  /\ owed = FALSE

Enqueue(p) ==
  /\ Len(waiting) + Len(playing) + played < Capacity
  /\ waiting' = Append(waiting, p)
  /\ UNCHANGED <<playing, played, owed>>

HandOver ==
  /\ waiting # <<>>
  /\ waiting' = Tail(waiting)
  /\ playing' = Append(playing, Head(waiting))

Report ==
  /\ played > 0 /\ ~owed
  /\ played' = played - 1
  /\ owed' = TRUE

\* One turn of the player: it may report one buffer and hand over one.
Serve ==
  /\ HandOver \/ UNCHANGED <<waiting, playing>>
  /\ Report \/ UNCHANGED <<played, owed>>

Finish ==
  /\ playing # <<>>
  /\ playing' = Tail(playing)
  /\ played' = played + 1
  /\ UNCHANGED <<waiting, owed>>

Callback ==
  /\ owed /\ owed' = FALSE
  /\ UNCHANGED <<waiting, playing, played>>

Clear ==
  /\ waiting' = <<>> /\ playing' = <<>> /\ played' = 0
  /\ UNCHANGED owed

Next ==
  \/ \E p \in Packet : Enqueue(p)
  \/ Serve \/ Finish \/ Callback \/ Clear

Spec == Init /\ [][Next]_vars
================================================================================
