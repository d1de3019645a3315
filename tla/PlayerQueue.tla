------------------------------- MODULE PlayerQueue -------------------------------
(***************************************************************************)
(* The OpenSL ES audio player of source/opensles.c: a ring of enqueued     *)
(* packets, a few wave buffers with one memory block each, and a thread    *)
(* that copies packets into free blocks, hands them to the audio driver    *)
(* and reports the played ones to the core by a callback.                  *)
(*                                                                         *)
(* Every operation runs under the player's lock and is one step; the       *)
(* thread releases the lock before it calls the core back.  The audio      *)
(* driver (external) plays the handed buffers in order unless paused.      *)
(***************************************************************************)
EXTENDS Integers, Sequences, FiniteSets

CONSTANTS
  Packet,      \* contents of the buffers the core enqueues
  NoPacket,    \* what an unused ring entry or block holds
  RingSize,    \* OSL_QUEUE_CAPACITY
  Capacity,    \* queue_capacity: numBuffers, at most OSL_QUEUE_CAPACITY
  Waves,       \* OSL_WAVEBUFS
  CountModulus \* completed_count is an unsigned int: 2^32

ASSUME SizeAssumption ==
  /\ RingSize \in Nat \ {0} /\ Waves \in Nat \ {0} /\ CountModulus \in Nat \ {0}
  /\ Capacity \in 1 .. RingSize

Wave == 0 .. Waves - 1
Place == 0 .. RingSize - 1

VARIABLES
  packets, head, tail, count,  \* the ring of enqueued packets
  pending,                     \* wave_pending: handed over, not reported
  wave,                        \* the driver's state of each wave buffer
  block,                       \* what each wave buffer's memory holds
  nextWave,                    \* next_wave: where the search for a free one starts
  device,                      \* the driver's voice: wave buffers in playing order
  completed,                   \* completed_count
  playing,                     \* io_state = SL_PLAYSTATE_PLAYING
  suspended,                   \* the host is suspended or in its menu
  running,                     \* cleared when the player is shut down
  pc                           \* the player thread: "loop", "callback", "exited"

ring == <<packets, head, tail, count>>
waves == <<pending, wave, block, nextWave, device>>
control == <<playing, suspended, running>>
vars == <<ring, waves, completed, control, pc>>

--------------------------------------------------------------------------------
(* The core and the host *)

PendingCount == Cardinality({w \in Wave : pending[w]})

Outstanding == count + PendingCount

\* queue_enqueue_common; a full queue answers BUFFER_INSUFFICIENT.
Enqueue(p) ==
  /\ running /\ Outstanding < Capacity
  /\ packets' = [packets EXCEPT ![tail] = p]
  /\ tail' = (tail + 1) % RingSize
  /\ count' = count + 1
  /\ UNCHANGED <<head, waves, completed, control, pc>>

\* Mutant: the wave buffers are not reset with the voice.
ClearKeepsWaves ==
  /\ running
  /\ head' = 0 /\ tail' = 0 /\ count' = 0
  /\ device' = <<>>
  /\ UNCHANGED <<packets, pending, wave, block, nextWave, completed, control, pc>>

\* queue_clear: the voice is dropped and set up again.
Clear ==
  /\ running
  /\ head' = 0 /\ tail' = 0 /\ count' = 0
  /\ wave' = [w \in Wave |-> "free"]
  /\ pending' = [w \in Wave |-> FALSE]
  /\ device' = <<>>
  /\ UNCHANGED <<packets, block, nextWave, completed, control, pc>>

\* play_set_state
SetPlaying(b) ==
  /\ running
  /\ playing' = b
  /\ UNCHANGED <<ring, waves, completed, suspended, running, pc>>

\* opensles_set_suspended
SetSuspended(b) ==
  /\ running
  /\ suspended' = b
  /\ UNCHANGED <<ring, waves, completed, playing, running, pc>>

\* audio_backend_shutdown: the thread is told to stop and joined.
Shutdown ==
  /\ running
  /\ running' = FALSE
  /\ UNCHANGED <<ring, waves, completed, playing, suspended, pc>>

--------------------------------------------------------------------------------
(* The player thread *)

Reportable == {w \in Wave : pending[w] /\ wave[w] = "done"}

\* At most one played buffer is reported in a turn, the first.
Reported == {w \in Reportable : \A v \in Reportable : w <= v}

\* Mutant: a reported buffer stays pending.
NeverCleared == pending

StillPending == [w \in Wave |-> pending[w] /\ w \notin Reported]

\* Mutant: a played buffer is reused before it was reported.
IsFreeUnreported(w) == wave[w] \in {"free", "done"}

IsFree(w) == ~StillPending[w] /\ wave[w] \in {"free", "done"}

\* The wave buffers passed before w in the search that starts at next_wave.
Before(w) == {(nextWave + j) % Waves : j \in 0 .. ((w - nextWave + Waves) % Waves) - 1}

FirstFree(w) == IsFree(w) /\ \A v \in Before(w) : ~IsFree(v)

Copy(w) == block' = [block EXCEPT ![w] = packets[head]]

HandOver(w) ==
  /\ head' = (head + 1) % RingSize
  /\ count' = count - 1
  /\ Copy(w)
  /\ wave' = [wave EXCEPT ![w] = "queued"]
  /\ pending' = [StillPending EXCEPT ![w] = TRUE]
  /\ nextWave' = (w + 1) % Waves
  /\ device' = Append(device, w)
  /\ UNCHANGED <<packets, tail>>

\* audrvVoiceAddWaveBuf fails: the packet goes back to the head of the ring.
HandOverFails(w) ==
  /\ Copy(w)
  /\ wave' = [wave EXCEPT ![w] = "free"]
  /\ pending' = StillPending
  /\ UNCHANGED <<ring, nextWave, device>>

NothingToHandOver ==
  /\ playing /\ ~suspended /\ count > 0 => \A w \in Wave : ~IsFree(w)
  /\ pending' = StillPending
  /\ UNCHANGED <<ring, wave, block, nextWave, device>>

Account ==
  /\ completed' = IF Reported = {} THEN completed ELSE (completed + 1) % CountModulus
  /\ pc' = IF Reported = {} THEN "loop" ELSE "callback"
  /\ UNCHANGED control

Active == playing /\ ~suspended /\ count > 0

ServeOne == \* a turn that hands a packet to the driver
  /\ pc = "loop" /\ running /\ Active
  /\ \E w \in Wave : FirstFree(w) /\ HandOver(w)
  /\ Account

ServeRefused ==
  /\ pc = "loop" /\ running /\ Active
  /\ \E w \in Wave : FirstFree(w) /\ HandOverFails(w)
  /\ Account

ServeNone ==
  /\ pc = "loop" /\ running
  /\ NothingToHandOver
  /\ Account

\* queue_invoke_callback, after the lock is released.
Callback ==
  /\ pc = "callback" /\ pc' = "loop"
  /\ UNCHANGED <<ring, waves, completed, control>>

Exit ==
  /\ pc = "loop" /\ ~running /\ pc' = "exited"
  /\ UNCHANGED <<ring, waves, completed, control>>

PlayerStep == ServeOne \/ ServeRefused \/ ServeNone \/ Callback \/ Exit

\* The driver has played the first buffer of the voice (paused it plays none).
Played ==
  /\ device # <<>> /\ playing /\ ~suspended
  /\ wave' = [wave EXCEPT ![Head(device)] = "done"]
  /\ device' = Tail(device)
  /\ UNCHANGED <<ring, pending, block, nextWave, completed, control, pc>>

--------------------------------------------------------------------------------
\* engine_create_player
Init ==
  /\ packets = [i \in Place |-> NoPacket]
  /\ head = 0 /\ tail = 0 /\ count = 0
  /\ pending = [w \in Wave |-> FALSE]
  /\ wave = [w \in Wave |-> "free"]
  /\ block = [w \in Wave |-> NoPacket]
  /\ nextWave = 0
  /\ device = <<>>
  /\ completed = 0
  /\ playing = FALSE /\ suspended = FALSE /\ running = TRUE
  /\ pc = "loop"

ClientStep ==
  \/ \E p \in Packet : Enqueue(p)
  \/ Clear
  \/ \E b \in BOOLEAN : SetPlaying(b) \/ SetSuspended(b)
  \/ Shutdown

Next == ClientStep \/ PlayerStep \/ Played

Spec == Init /\ [][Next]_vars

(* The thread runs on, a callback returns, the driver plays what it has and *)
(* does not refuse a buffer for ever.                                       *)
FairSpec ==
  /\ Spec
  /\ WF_vars(PlayerStep) /\ SF_vars(ServeOne) /\ WF_vars(Played)

--------------------------------------------------------------------------------
(* Properties *)

(* Types, and the lengths of the ring and the voice. *)
TypeOK ==
  /\ packets \in [Place -> Packet \cup {NoPacket}]
  /\ head \in Place /\ tail \in Place /\ count \in 0 .. RingSize
  /\ pending \in [Wave -> BOOLEAN]
  /\ wave \in [Wave -> {"free", "queued", "done"}]
  /\ block \in [Wave -> Packet \cup {NoPacket}]
  /\ nextWave \in Wave
  /\ device \in Seq(Wave)
  /\ completed \in 0 .. CountModulus - 1
  /\ playing \in BOOLEAN /\ suspended \in BOOLEAN /\ running \in BOOLEAN
  /\ pc \in {"loop", "callback", "exited"}

(* Buffers in the ring and buffers handed to the device and not reported    *)
(* together never exceed numBuffers, whatever hand-over the driver refused  *)
(* (Enqueue relies on it, and DraStic relies on Enqueue's refusal).         *)
CapacityRespected == count + Cardinality({w \in Wave : pending[w]}) <= Capacity

(* The driver holds exactly the wave buffers marked as queued, each once,   *)
(* and each of them is counted as pending: none is reused while it plays,   *)
(* and none is forgotten.                                                   *)
VoiceMatchesWaves ==
  /\ \A w \in Wave : wave[w] = "queued" <=> \E k \in 1 .. Len(device) : device[k] = w
  /\ \A k, j \in 1 .. Len(device) : device[k] = device[j] => k = j
  /\ \A w \in Wave : wave[w] = "queued" => pending[w]

(* The player implements the queue: playing order is enqueue order across   *)
(* ring, blocks and voice, and each played buffer gets its own callback.    *)
Queue == INSTANCE AudioQueue WITH
  waiting <- [k \in 1 .. count |-> packets[(head + (k - 1)) % RingSize]],
  playing <- [k \in 1 .. Len(device) |-> block[device[k]]],
  played <- Cardinality(Reportable),
  owed <- pc = "callback"

ImplementsQueue == Queue!Spec

(* While the player plays, a full queue gets room again: the core is not    *)
(* refused for ever.                                                        *)
Full == Outstanding >= Capacity

FullGetsRoom == Full ~> ~Full \/ ~playing \/ suspended \/ ~running
================================================================================
