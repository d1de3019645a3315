------------------------------- MODULE MicRecorder -------------------------------
(***************************************************************************)
(* The OpenSL ES audio recorder of source/opensles.c.  The core enqueues   *)
(* empty buffers; the recorder's thread takes them one at a time, fills    *)
(* them from the external microphone or with silence, and reports each by  *)
(* a callback.  The host's menu selects the source and shows a status;     *)
(* settings and status are separate atomics, written without a lock.       *)
(*                                                                         *)
(* Samples are counted in captured blocks, a buffer takes Need of them.    *)
(* The microphone of source/switch_mic.c is external: it opens or fails,   *)
(* delivers or times out, and an external device comes and goes.           *)
(*                                                                         *)
(* The proofs at the end are of its types and of the status it shows.      *)
(***************************************************************************)
EXTENDS Integers, Sequences, TLAPS

CONSTANTS
  Packet,        \* buffers the core enqueues
  NoPacket,
  Capacity,      \* queue_capacity
  FifoLimit,     \* OSL_MIC_FIFO_FRAMES, in blocks
  LiveLimit,     \* OSL_MIC_LIVE_FIFO_FRAMES, in blocks
  Need,          \* the blocks one buffer takes
  StaleTimeouts  \* OSL_MIC_STALE_TIMEOUTS

(* What the idle thread keeps fits in the fifo (4096 frames, one more than a    *)
(* capture's are kept), and some number of time-outs in a row is one too many.  *)
ASSUME SizesAssumption ==
  /\ Capacity \in Nat /\ FifoLimit \in Nat /\ LiveLimit \in 0 .. FifoLimit
  /\ Need \in Nat /\ StaleTimeouts \in Nat \ {0}

Status == {"simulated", "connecting", "active", "unavailable", "disabled"}

VARIABLES
  queue,       \* the ring of enqueued packets, head first
  packet,      \* the packet the thread took, or NoPacket
  recording,   \* io_state = SL_RECORDSTATE_RECORDING
  suspended, running,
  enabled,     \* g_microphone_enabled
  external,    \* g_microphone_source = OPENSLES_MIC_SOURCE_EXTERNAL
  status,      \* g_microphone_status
  changed,     \* g_microphone_generation # mic_config_generation
  host,        \* the setter: "idle", "bump", "status"
  active,      \* mic_backend_active
  fifo,        \* mic_fifo_count, in blocks
  timeouts,    \* mic_timeout_count
  retryLater,  \* mic_retry_tick lies ahead
  scanLater,   \* mic_device_scan_tick lies ahead
  canRecord, sawEnabled, sawExternal,  \* what this turn of the thread read
  pc           \* the thread

queueVars == <<queue, packet>>
control == <<recording, suspended, running>>
settings == <<enabled, external, changed, host>>
backend == <<active, fifo, timeouts, retryLater, scanLater>>
turn == <<canRecord, sawEnabled, sawExternal>>
vars == <<queueVars, control, settings, status, backend, turn, pc>>

--------------------------------------------------------------------------------
(* The core *)

\* queue_enqueue_common; the packet the thread is filling is not counted.
Enqueue(p) ==
  /\ running /\ Len(queue) < Capacity
  /\ queue' = Append(queue, p)
  /\ UNCHANGED <<packet, control, settings, status, backend, turn, pc>>

\* queue_clear; a recorder has no wave buffers.
Clear ==
  /\ running
  /\ queue' = <<>>
  /\ UNCHANGED <<packet, control, settings, status, backend, turn, pc>>

\* record_set_state
SetRecording(b) ==
  /\ running
  /\ recording' = b
  /\ UNCHANGED <<queueVars, suspended, running, settings, status, backend, turn, pc>>

CoreStep == Clear \/ (\E p \in Packet : Enqueue(p)) \/ (\E b \in BOOLEAN : SetRecording(b))

--------------------------------------------------------------------------------
(* The host: its one thread sets one thing at a time *)

\* audio_set_suspended
SetSuspended(b) ==
  /\ running /\ host = "idle"
  /\ suspended' = b
  /\ UNCHANGED <<queueVars, recording, running, settings, status, backend, turn, pc>>

\* audio_backend_shutdown, up to the join.
Shutdown ==
  /\ running /\ host = "idle"
  /\ running' = FALSE
  /\ UNCHANGED <<queueVars, recording, suspended, settings, status, backend, turn, pc>>

\* opensles_set_microphone_enabled and _source store the setting, ...
Store(e, x) ==
  /\ running /\ host = "idle" /\ host' = "bump"
  /\ enabled' = e /\ external' = x
  /\ UNCHANGED <<queueVars, control, status, changed, backend, turn, pc>>

SetEnabled(e) == Store(e, external)

SetExternal(x) == Store(enabled, x)

\* ... then a new generation, ...
Bump ==
  /\ host = "bump" /\ host' = "status"
  /\ changed' = TRUE
  /\ UNCHANGED <<queueVars, control, enabled, external, status, backend, turn, pc>>

\* What the settings alone make of the status.
StatusOf(e, x) ==
  IF ~e THEN "disabled" ELSE IF x THEN "connecting" ELSE "simulated"

\* ... then the status.
ShowStatus ==
  /\ host = "status" /\ host' = "idle"
  /\ status' = StatusOf(enabled, external)
  /\ UNCHANGED <<queueVars, control, enabled, external, changed, backend, turn, pc>>

SetterStep == Bump \/ ShowStatus

HostStep ==
  \/ SetterStep \/ Shutdown
  \/ \E b \in BOOLEAN : SetSuspended(b) \/ SetEnabled(b) \/ SetExternal(b)

--------------------------------------------------------------------------------
(* The microphone, as the thread uses it *)

\* recorder_backend_close, with what becomes of the retry tick.
Close(later) ==
  /\ active' = FALSE /\ fifo' = 0 /\ timeouts' = 0 /\ scanLater' = FALSE
  /\ retryLater' = later

\* Mutant: the microphone is closed without a word.
GiveUpSilently == Close(TRUE) /\ status' = status

\* recorder_schedule_retry
GiveUp == Close(TRUE) /\ status' = "unavailable"

Captured == \* a block; the oldest one is dropped when the fifo is full
  /\ fifo' = IF fifo = FifoLimit THEN FifoLimit ELSE fifo + 1
  /\ timeouts' = 0
  /\ UNCHANGED <<active, retryLater, scanLater, status>>

Nothing == \* the wait ended without a block
  /\ timeouts' = 0
  /\ UNCHANGED <<active, fifo, retryLater, scanLater, status>>

TimedOut ==
  IF timeouts + 1 >= StaleTimeouts THEN GiveUp
  ELSE /\ timeouts' = timeouts + 1
       /\ UNCHANGED <<active, fifo, retryLater, scanLater, status>>

--------------------------------------------------------------------------------
(* One turn of recorder_thread *)

Take ==
  /\ pc = "take" /\ running
  /\ canRecord' = (recording /\ ~suspended)
  /\ packet' = IF canRecord' /\ queue # <<>> THEN Head(queue) ELSE NoPacket
  /\ queue' = IF canRecord' /\ queue # <<>> THEN Tail(queue) ELSE queue
  /\ pc' = "enabled"
  /\ UNCHANGED <<control, settings, status, backend, sawEnabled, sawExternal>>

Stop ==
  /\ pc = "take" /\ ~running
  /\ Close(retryLater)
  /\ pc' = "exited"
  /\ UNCHANGED <<queueVars, control, settings, status, turn>>

\* The settings are read one by one, the generation last.
ReadEnabled ==
  /\ pc = "enabled" /\ pc' = "source"
  /\ sawEnabled' = enabled
  /\ UNCHANGED <<queueVars, control, settings, status, backend, canRecord, sawExternal>>

ReadSource ==
  /\ pc = "source" /\ pc' = "generation"
  /\ sawExternal' = external
  /\ UNCHANGED <<queueVars, control, settings, status, backend, canRecord, sawEnabled>>

ReadGeneration ==
  /\ pc = "generation" /\ pc' = "decide"
  /\ changed' = FALSE
  /\ IF changed THEN Close(FALSE) ELSE UNCHANGED backend
  /\ UNCHANGED <<queueVars, control, enabled, external, host, status, turn>>

WantsExternal == sawEnabled /\ canRecord /\ sawExternal

AfterDecision == IF packet # NoPacket THEN "fill" ELSE "idle"

\* Mutant: the microphone stays open when it is no longer wanted.
KeepOpen ==
  /\ pc = "decide" /\ ~WantsExternal
  /\ UNCHANGED backend
  /\ status' = StatusOf(sawEnabled, sawExternal)
  /\ pc' = AfterDecision
  /\ UNCHANGED <<queueVars, control, settings, turn>>

\* The microphone is not wanted: it is closed and the status follows.
LetGo ==
  /\ pc = "decide" /\ ~WantsExternal
  /\ IF active THEN Close(retryLater) ELSE UNCHANGED backend
  /\ status' = StatusOf(sawEnabled, sawExternal)
  /\ pc' = AfterDecision
  /\ UNCHANGED <<queueVars, control, settings, turn>>

Keep ==
  /\ pc = "decide" /\ WantsExternal /\ (active \/ retryLater)
  /\ pc' = AfterDecision
  /\ UNCHANGED <<queueVars, control, settings, status, backend, turn>>

Connect ==
  /\ pc = "decide" /\ WantsExternal /\ ~active /\ ~retryLater
  /\ status' = "connecting"
  /\ pc' = "open"
  /\ UNCHANGED <<queueVars, control, settings, backend, turn>>

\* recorder_backend_init, which opens, starts and primes the microphone.
Opened ==
  /\ pc = "open"
  /\ active' = TRUE /\ fifo' = 0 /\ timeouts' = 0
  /\ retryLater' = FALSE /\ scanLater' = TRUE
  /\ status' = "active"
  /\ pc' = AfterDecision
  /\ UNCHANGED <<queueVars, control, settings, turn>>

OpenFails ==
  /\ pc = "open"
  /\ GiveUp
  /\ pc' = AfterDecision
  /\ UNCHANGED <<queueVars, control, settings, turn>>

\* Mutant: a buffer waits through every time-out until there is enough.
FillWaits ==
  /\ pc = "fill" /\ WantsExternal /\ active /\ fifo < Need
  /\ \/ Captured
     \/ /\ timeouts' = (timeouts + 1) % StaleTimeouts
        /\ UNCHANGED <<active, fifo, retryLater, scanLater, status>>
  /\ UNCHANGED <<queueVars, control, settings, turn, pc>>

\* recorder_fill_from_microphone waits for blocks until it has enough, ...
FillCaptures ==
  /\ pc = "fill" /\ WantsExternal /\ active /\ fifo < Need
  /\ \/ Captured /\ pc' = pc
     \/ (Nothing \/ TimedOut \/ GiveUp) /\ pc' = "callback"
  /\ UNCHANGED <<queueVars, control, settings, turn>>

\* ... and the rest of the buffer stays silent when the microphone falls silent.
Filled ==
  /\ pc = "fill" /\ WantsExternal /\ active /\ fifo >= Need
  /\ fifo' = fifo - Need
  /\ pc' = "callback"
  /\ UNCHANGED <<queueVars, control, settings, status, active, timeouts, retryLater, scanLater, turn>>

\* recorder_fill_silence
FillSilence ==
  /\ pc = "fill" /\ ~(WantsExternal /\ active)
  /\ pc' = "callback"
  /\ UNCHANGED <<queueVars, control, settings, status, backend, turn>>

\* The packet is counted as completed, and the core called back.
Callback ==
  /\ pc = "callback" /\ pc' = "take"
  /\ packet' = NoPacket
  /\ UNCHANGED <<queue, control, settings, status, backend, turn>>

Trim(n) == IF n > LiveLimit THEN LiveLimit ELSE n

\* Without a packet the thread keeps the samples it has fresh, ...
IdleCaptures ==
  /\ pc = "idle" /\ WantsExternal /\ active
  /\ \/ /\ fifo' = Trim(IF fifo = FifoLimit THEN FifoLimit ELSE fifo + 1)
        /\ timeouts' = 0
        /\ UNCHANGED <<active, retryLater, scanLater, status>>
     \/ /\ timeouts' \in {0} \cup (IF timeouts + 1 < StaleTimeouts THEN {timeouts + 1} ELSE {})
        /\ fifo' = Trim(fifo)
        /\ UNCHANGED <<active, retryLater, scanLater, status>>
     \/ GiveUp
  /\ pc' = IF active' /\ ~scanLater THEN "scan" ELSE "take"
  /\ UNCHANGED <<queueVars, control, settings, turn>>

\* ... and looks from time to time whether the right device is open.
ScanSame ==
  /\ pc = "scan" /\ pc' = "take"
  /\ scanLater' = TRUE
  /\ UNCHANGED <<queueVars, control, settings, status, active, fifo, timeouts, retryLater, turn>>

ScanOther ==
  /\ pc = "scan" /\ pc' = "take"
  /\ Close(FALSE)
  /\ status' = "connecting"
  /\ UNCHANGED <<queueVars, control, settings, turn>>

IdleWaits ==
  /\ pc = "idle" /\ ~(WantsExternal /\ active)
  /\ pc' = "take"
  /\ UNCHANGED <<queueVars, control, settings, status, backend, turn>>

ReadSettings == ReadEnabled \/ ReadSource \/ ReadGeneration
Decide == LetGo \/ Keep \/ Connect \/ Opened \/ OpenFails
Fill == FillCaptures \/ Filled \/ FillSilence \/ Callback
Idle == IdleCaptures \/ ScanSame \/ ScanOther \/ IdleWaits

RecorderStep == Take \/ Stop \/ ReadSettings \/ Decide \/ Fill \/ Idle

\* Time passes.
RetryDue ==
  /\ retryLater /\ retryLater' = FALSE
  /\ UNCHANGED <<queueVars, control, settings, status, active, fifo, timeouts, scanLater, turn, pc>>

ScanDue ==
  /\ scanLater /\ scanLater' = FALSE
  /\ UNCHANGED <<queueVars, control, settings, status, active, fifo, timeouts, retryLater, turn, pc>>

--------------------------------------------------------------------------------
\* engine_create_recorder, with the defaults of the microphone settings.
Init ==
  /\ queue = <<>> /\ packet = NoPacket
  /\ recording = FALSE /\ suspended = FALSE /\ running = TRUE
  /\ enabled = TRUE /\ external = FALSE /\ status = "simulated"
  /\ changed = TRUE /\ host = "idle"
  /\ active = FALSE /\ fifo = 0 /\ timeouts = 0
  /\ retryLater = FALSE /\ scanLater = FALSE
  /\ canRecord = FALSE /\ sawEnabled = FALSE /\ sawExternal = FALSE
  /\ pc = "take"

Next == CoreStep \/ HostStep \/ RecorderStep \/ RetryDue \/ ScanDue

Spec == Init /\ [][Next]_vars

(* The thread runs, a call of a setter returns, time passes, and an         *)
(* external microphone does not fail to open for ever.                      *)
FairSpec ==
  /\ Spec
  /\ WF_vars(RecorderStep) /\ WF_vars(SetterStep) /\ WF_vars(RetryDue)
  /\ SF_vars(Opened)

--------------------------------------------------------------------------------
(* Properties *)

(* Types, and the bounds of the queue and of the sample buffer. *)
TypeOK ==
  /\ queue \in Seq(Packet) /\ Len(queue) <= Capacity
  /\ packet \in Packet \cup {NoPacket}
  /\ recording \in BOOLEAN /\ suspended \in BOOLEAN /\ running \in BOOLEAN
  /\ enabled \in BOOLEAN /\ external \in BOOLEAN /\ changed \in BOOLEAN
  /\ status \in Status
  /\ host \in {"idle", "bump", "status"}
  /\ active \in BOOLEAN /\ fifo \in 0 .. FifoLimit /\ timeouts \in 0 .. StaleTimeouts - 1
  /\ retryLater \in BOOLEAN /\ scanLater \in BOOLEAN
  /\ canRecord \in BOOLEAN /\ sawEnabled \in BOOLEAN /\ sawExternal \in BOOLEAN
  /\ pc \in {"take", "enabled", "source", "generation", "decide", "open",
             "fill", "callback", "idle", "scan", "exited"}

(* The menu never shows a microphone as active that is not open, whatever   *)
(* setting was changed under the recorder's turn (but for the moment in     *)
(* which the thread decides, and after its end).                            *)
ActiveIsShownTruly == status = "active" => active \/ pc \in {"decide", "exited"}

Wanted == enabled /\ external /\ recording /\ ~suspended /\ running

(* An open microphone is closed when it is switched off, deselected, not    *)
(* recorded from, suspended or shut down, however the setters' stores fall  *)
(* between the reads of the recorder's turn.                                *)
MicrophoneIsReleased == active /\ ~Wanted ~> ~active \/ Wanted

(* While the core records, a full queue of buffers gets room again: no      *)
(* silent, stale or failing microphone keeps the core's buffers for ever.   *)
BuffersComeBack ==
  Len(queue) = Capacity ~>
    Len(queue) < Capacity \/ ~recording \/ suspended \/ ~running

(* A wanted microphone that was lost is opened again.                       *)
Reconnects == []<>(~Wanted \/ active)

(* The microphone is shown as it is, is had when it is wanted, and what is  *)
(* held, the microphone and the core's buffers, is let go in the end: all   *)
(* of the above.                                                            *)
ShownAndLetGo ==
  []ActiveIsShownTruly /\ BuffersComeBack /\ MicrophoneIsReleased /\ Reconnects

(* numBuffers limits the complete queue, the buffer being filled included,  *)
(* as the comment in audio_format_from_source says.                         *)
CapacityIncludesDevice == Len(queue) + (IF packet = NoPacket THEN 0 ELSE 1) <= Capacity

--------------------------------------------------------------------------------
(* Proofs, for any sizes.  The status lags behind the microphone only where the *)
(* thread has closed it for a new generation and will decide anew, and then no  *)
(* retry is pending that would let it keep what it no longer has.               *)
IInv ==
  /\ status = "active" => active \/ (pc = "decide" /\ ~retryLater) \/ pc = "exited"
  /\ pc = "exited" => ~active /\ fifo = 0

(* The parts of TypeOK. *)
QueueOK ==
  /\ queue \in Seq(Packet) /\ Len(queue) <= Capacity
  /\ packet \in Packet \cup {NoPacket}

FlagsOK ==
  /\ recording \in BOOLEAN /\ suspended \in BOOLEAN /\ running \in BOOLEAN
  /\ enabled \in BOOLEAN /\ external \in BOOLEAN /\ changed \in BOOLEAN
  /\ active \in BOOLEAN /\ retryLater \in BOOLEAN /\ scanLater \in BOOLEAN
  /\ canRecord \in BOOLEAN /\ sawEnabled \in BOOLEAN /\ sawExternal \in BOOLEAN

StagesOK ==
  /\ status \in Status
  /\ host \in {"idle", "bump", "status"}
  /\ pc \in {"take", "enabled", "source", "generation", "decide", "open",
             "fill", "callback", "idle", "scan", "exited"}

CountsOK == fifo \in 0 .. FifoLimit /\ timeouts \in 0 .. StaleTimeouts - 1

LEMMA TypesAre == TypeOK <=> QueueOK /\ FlagsOK /\ StagesOK /\ CountsOK
  BY Zenon DEF TypeOK, QueueOK, FlagsOK, StagesOK, CountsOK

LEMMA TypesInit == Init => TypeOK
<1>1. SUFFICES ASSUME Init PROVE TypeOK
  OBVIOUS
<1>2. QueueOK
  BY <1>1, SizesAssumption DEF Init, QueueOK
<1>3. FlagsOK
  BY <1>1 DEF Init, FlagsOK
<1>4. StagesOK
  BY <1>1 DEF Init, StagesOK, Status
<1>5. CountsOK
  BY <1>1, SizesAssumption DEF Init, CountsOK
<1>6. QED  BY <1>2, <1>3, <1>4, <1>5, TypesAre

LEMMA QueueStep == QueueOK /\ [Next]_vars => QueueOK'
<1>1. SUFFICES ASSUME QueueOK, [Next]_vars PROVE QueueOK'
  OBVIOUS
<1>2. CASE CoreStep
  <2>1. packet' = packet
    BY <1>2 DEF CoreStep, Enqueue, Clear, SetRecording, queueVars
  <2>2. queue' = queue \/ queue' = <<>> \/ \E p \in Packet : Enqueue(p)
    BY <1>2 DEF CoreStep, Clear, SetRecording, queueVars
  <2>3. queue' \in Seq(Packet) /\ Len(queue') <= Capacity
    <3>1. CASE queue' = queue
      BY <1>1, <3>1 DEF QueueOK
    <3>2. CASE queue' = <<>>
      BY <3>2, SizesAssumption
    <3>3. CASE \E p \in Packet : Enqueue(p)
      <4>1. PICK p \in Packet : Len(queue) < Capacity /\ queue' = Append(queue, p)
        BY <3>3 DEF Enqueue
      <4>2. queue' \in Seq(Packet) /\ Len(queue') = Len(queue) + 1
        BY <1>1, <4>1 DEF QueueOK
      <4>3. QED  BY <1>1, <4>1, <4>2, SizesAssumption DEF QueueOK
    <3>4. QED  BY <2>2, <3>1, <3>2, <3>3
  <2>4. QED  BY <1>1, <2>1, <2>3 DEF QueueOK
<1>3. CASE HostStep
  BY <1>1, <1>3, SizesAssumption DEF HostStep, SetterStep, Bump, ShowStatus, StatusOf,
     Shutdown, SetSuspended, SetEnabled, SetExternal, Store, QueueOK, queueVars, control,
     settings, backend, turn
<1>4. CASE Take
  BY <1>1, <1>4, SizesAssumption DEF Take, QueueOK, queueVars, control, settings, backend,
     turn
<1>5. CASE Stop
  BY <1>1, <1>5, SizesAssumption DEF Stop, Close, QueueOK, queueVars, control, settings,
     backend, turn
<1>6. CASE ReadSettings
  BY <1>1, <1>6, SizesAssumption DEF ReadSettings, ReadEnabled, ReadSource, ReadGeneration,
     Close, QueueOK, queueVars, control, settings, backend, turn
<1>7. CASE Decide
  BY <1>1, <1>7, SizesAssumption DEF Decide, LetGo, Keep, Connect, Opened, OpenFails, GiveUp,
     Close, StatusOf, AfterDecision, QueueOK, queueVars, control, settings, backend, turn
<1>8. CASE Fill
  BY <1>1, <1>8, SizesAssumption DEF Fill, FillCaptures, Filled, FillSilence, Callback,
     Captured, Nothing, TimedOut, GiveUp, Close, QueueOK, queueVars, control, settings,
     backend, turn
<1>9. CASE Idle
  BY <1>1, <1>9, SizesAssumption DEF Idle, IdleCaptures, ScanSame, ScanOther, IdleWaits, Trim,
     GiveUp, Close, QueueOK, queueVars, control, settings, backend, turn
<1>10. CASE RetryDue \/ ScanDue
  BY <1>1, <1>10, SizesAssumption DEF RetryDue, ScanDue, QueueOK, queueVars, control,
     settings, backend, turn
<1>11. CASE UNCHANGED vars
  BY <1>1, <1>11 DEF vars, QueueOK, queueVars, control, settings, backend, turn
<1>12. QED
  BY <1>1, <1>2, <1>3, <1>4, <1>5, <1>6, <1>7, <1>8, <1>9, <1>10, <1>11 DEF Next, RecorderStep

LEMMA FlagsStep == FlagsOK /\ [Next]_vars => FlagsOK'
<1>1. SUFFICES ASSUME FlagsOK, [Next]_vars PROVE FlagsOK'
  OBVIOUS
<1>2. CASE CoreStep
  <2>1. UNCHANGED <<suspended, running, enabled, external, changed, active, retryLater,
                    scanLater, canRecord, sawEnabled, sawExternal>>
    BY <1>2 DEF CoreStep, Enqueue, Clear, SetRecording, queueVars, control, settings, backend,
       turn
  <2>2. recording' \in BOOLEAN
    BY <1>1, <1>2 DEF CoreStep, Enqueue, Clear, SetRecording, FlagsOK, control, settings,
       backend, turn
  <2>3. QED  BY <1>1, <2>1, <2>2, Zenon DEF FlagsOK
<1>3. CASE HostStep
  <2>1. UNCHANGED <<recording, active, retryLater, scanLater, canRecord, sawEnabled,
                    sawExternal>>
    BY <1>3 DEF HostStep, SetterStep, Bump, ShowStatus, StatusOf, Shutdown, SetSuspended,
       SetEnabled, SetExternal, Store, queueVars, control, settings, backend, turn
  <2>2. /\ suspended' \in BOOLEAN /\ running' \in BOOLEAN /\ enabled' \in BOOLEAN
        /\ external' \in BOOLEAN /\ changed' \in BOOLEAN
    BY <1>1, <1>3 DEF HostStep, SetterStep, Bump, ShowStatus, StatusOf, Shutdown, SetSuspended,
       SetEnabled, SetExternal, Store, FlagsOK, control, settings, backend, turn
  <2>3. QED  BY <1>1, <2>1, <2>2, Zenon DEF FlagsOK
<1>4. CASE Take
  <2>1. UNCHANGED <<recording, suspended, running, enabled, external, changed, active,
                    retryLater, scanLater, sawEnabled, sawExternal>>
    BY <1>4 DEF Take, queueVars, control, settings, backend, turn
  <2>2. canRecord' \in BOOLEAN
    BY <1>1, <1>4 DEF Take, FlagsOK, control, settings, backend, turn
  <2>3. QED  BY <1>1, <2>1, <2>2, Zenon DEF FlagsOK
<1>5. CASE Stop
  <2>1. UNCHANGED <<recording, suspended, running, enabled, external, changed, retryLater,
                    canRecord, sawEnabled, sawExternal>>
    BY <1>5 DEF Stop, Close, queueVars, control, settings, backend, turn
  <2>2. active' \in BOOLEAN /\ scanLater' \in BOOLEAN
    BY <1>1, <1>5 DEF Stop, Close, FlagsOK, control, settings, backend, turn
  <2>3. QED  BY <1>1, <2>1, <2>2, Zenon DEF FlagsOK
<1>6. CASE ReadSettings
  <2>1. UNCHANGED <<recording, suspended, running, enabled, external, canRecord>>
    BY <1>6 DEF ReadSettings, ReadEnabled, ReadSource, ReadGeneration, Close, queueVars,
       control, settings, backend, turn
  <2>2. /\ sawEnabled' \in BOOLEAN /\ sawExternal' \in BOOLEAN /\ changed' \in BOOLEAN
        /\ active' \in BOOLEAN /\ scanLater' \in BOOLEAN /\ retryLater' \in BOOLEAN
    BY <1>1, <1>6 DEF ReadSettings, ReadEnabled, ReadSource, ReadGeneration, Close, FlagsOK,
       control, settings, backend, turn
  <2>3. QED  BY <1>1, <2>1, <2>2, Zenon DEF FlagsOK
<1>7. CASE Decide
  <2>1. UNCHANGED <<recording, suspended, running, enabled, external, changed, canRecord,
                    sawEnabled, sawExternal>>
    BY <1>7 DEF Decide, LetGo, Keep, Connect, Opened, OpenFails, GiveUp, Close, StatusOf,
       AfterDecision, queueVars, control, settings, backend, turn
  <2>2. active' \in BOOLEAN /\ retryLater' \in BOOLEAN /\ scanLater' \in BOOLEAN
    BY <1>1, <1>7 DEF Decide, LetGo, Keep, Connect, Opened, OpenFails, GiveUp, Close, StatusOf,
       AfterDecision, FlagsOK, control, settings, backend, turn
  <2>3. QED  BY <1>1, <2>1, <2>2, Zenon DEF FlagsOK
<1>8. CASE Fill
  <2>1. UNCHANGED <<recording, suspended, running, enabled, external, changed, canRecord,
                    sawEnabled, sawExternal>>
    BY <1>8 DEF Fill, FillCaptures, Filled, FillSilence, Callback, Captured, Nothing, TimedOut,
       GiveUp, Close, queueVars, control, settings, backend, turn
  <2>2. active' \in BOOLEAN /\ retryLater' \in BOOLEAN /\ scanLater' \in BOOLEAN
    BY <1>1, <1>8 DEF Fill, FillCaptures, Filled, FillSilence, Callback, Captured, Nothing,
       TimedOut, GiveUp, Close, FlagsOK, control, settings, backend, turn
  <2>3. QED  BY <1>1, <2>1, <2>2, Zenon DEF FlagsOK
<1>9. CASE Idle
  <2>1. UNCHANGED <<recording, suspended, running, enabled, external, changed, canRecord,
                    sawEnabled, sawExternal>>
    BY <1>9 DEF Idle, IdleCaptures, ScanSame, ScanOther, IdleWaits, GiveUp, Close, queueVars,
       control, settings, backend, turn
  <2>2. active' \in BOOLEAN /\ retryLater' \in BOOLEAN /\ scanLater' \in BOOLEAN
    BY <1>1, <1>9 DEF Idle, IdleCaptures, ScanSame, ScanOther, IdleWaits, GiveUp, Close,
       FlagsOK, control, settings, backend, turn
  <2>3. QED  BY <1>1, <2>1, <2>2, Zenon DEF FlagsOK
<1>10. CASE RetryDue \/ ScanDue
  <2>1. UNCHANGED <<recording, suspended, running, enabled, external, changed, active,
                    canRecord, sawEnabled, sawExternal>>
    BY <1>10 DEF RetryDue, ScanDue, queueVars, control, settings, backend, turn
  <2>2. retryLater' \in BOOLEAN /\ scanLater' \in BOOLEAN
    BY <1>1, <1>10 DEF RetryDue, ScanDue, FlagsOK, control, settings, backend, turn
  <2>3. QED  BY <1>1, <2>1, <2>2, Zenon DEF FlagsOK
<1>11. CASE UNCHANGED vars
  BY <1>1, <1>11 DEF vars, FlagsOK, queueVars, control, settings, backend, turn
<1>12. QED
  BY <1>1, <1>2, <1>3, <1>4, <1>5, <1>6, <1>7, <1>8, <1>9, <1>10, <1>11 DEF Next, RecorderStep

LEMMA StagesStep == StagesOK /\ [Next]_vars => StagesOK'
<1>1. SUFFICES ASSUME StagesOK, [Next]_vars PROVE StagesOK'
  OBVIOUS
<1>2. CASE CoreStep
  BY <1>1, <1>2 DEF CoreStep, Enqueue, Clear, SetRecording, StagesOK, Status, queueVars,
     control, settings, backend, turn
<1>3. CASE HostStep
  BY <1>1, <1>3 DEF HostStep, SetterStep, Bump, ShowStatus, StatusOf, Shutdown, SetSuspended,
     SetEnabled, SetExternal, Store, StagesOK, Status, queueVars, control, settings, backend,
     turn
<1>4. CASE Take
  BY <1>1, <1>4 DEF Take, StagesOK, Status, queueVars, control, settings, backend, turn
<1>5. CASE Stop
  BY <1>1, <1>5 DEF Stop, Close, StagesOK, Status, queueVars, control, settings, backend, turn
<1>6. CASE ReadSettings
  BY <1>1, <1>6 DEF ReadSettings, ReadEnabled, ReadSource, ReadGeneration, Close, StagesOK,
     Status, queueVars, control, settings, backend, turn
<1>7. CASE Decide
  BY <1>1, <1>7 DEF Decide, LetGo, Keep, Connect, Opened, OpenFails, GiveUp, Close, StatusOf,
     AfterDecision, StagesOK, Status, queueVars, control, settings, backend, turn
<1>8. CASE Fill
  BY <1>1, <1>8 DEF Fill, FillCaptures, Filled, FillSilence, Callback, Captured, Nothing,
     TimedOut, GiveUp, Close, StagesOK, Status, queueVars, control, settings, backend, turn
<1>9. CASE Idle
  BY <1>1, <1>9 DEF Idle, IdleCaptures, ScanSame, ScanOther, IdleWaits, Trim, GiveUp, Close,
     StagesOK, Status, queueVars, control, settings, backend, turn
<1>10. CASE RetryDue \/ ScanDue
  BY <1>1, <1>10 DEF RetryDue, ScanDue, StagesOK, Status, queueVars, control, settings,
     backend, turn
<1>11. CASE UNCHANGED vars
  BY <1>1, <1>11 DEF vars, StagesOK, Status, queueVars, control, settings, backend, turn
<1>12. QED
  BY <1>1, <1>2, <1>3, <1>4, <1>5, <1>6, <1>7, <1>8, <1>9, <1>10, <1>11 DEF Next, RecorderStep

LEMMA CountsStep == CountsOK /\ [Next]_vars => CountsOK'
<1>1. SUFFICES ASSUME CountsOK, [Next]_vars PROVE CountsOK'
  OBVIOUS
<1>2. CASE CoreStep
  BY <1>1, <1>2, SizesAssumption DEF CoreStep, Enqueue, Clear, SetRecording, CountsOK,
     queueVars, control, settings, backend, turn
<1>3. CASE HostStep
  BY <1>1, <1>3, SizesAssumption DEF HostStep, SetterStep, Bump, ShowStatus, StatusOf,
     Shutdown, SetSuspended, SetEnabled, SetExternal, Store, CountsOK, queueVars, control,
     settings, backend, turn
<1>4. CASE Take
  BY <1>1, <1>4, SizesAssumption DEF Take, CountsOK, queueVars, control, settings, backend,
     turn
<1>5. CASE Stop
  BY <1>1, <1>5, SizesAssumption DEF Stop, Close, CountsOK, queueVars, control, settings,
     backend, turn
<1>6. CASE ReadSettings
  BY <1>1, <1>6, SizesAssumption DEF ReadSettings, ReadEnabled, ReadSource, ReadGeneration,
     Close, CountsOK, queueVars, control, settings, backend, turn
<1>7. CASE Decide
  BY <1>1, <1>7, SizesAssumption DEF Decide, LetGo, Keep, Connect, Opened, OpenFails, GiveUp,
     Close, StatusOf, AfterDecision, CountsOK, queueVars, control, settings, backend, turn
<1>8. CASE Fill
  BY <1>1, <1>8, SizesAssumption DEF Fill, FillCaptures, Filled, FillSilence, Callback,
     Captured, Nothing, TimedOut, GiveUp, Close, CountsOK, queueVars, control, settings,
     backend, turn
<1>9. CASE Idle
  BY <1>1, <1>9, SizesAssumption DEF Idle, IdleCaptures, ScanSame, ScanOther, IdleWaits, Trim,
     GiveUp, Close, CountsOK, queueVars, control, settings, backend, turn
<1>10. CASE RetryDue \/ ScanDue
  BY <1>1, <1>10, SizesAssumption DEF RetryDue, ScanDue, CountsOK, queueVars, control,
     settings, backend, turn
<1>11. CASE UNCHANGED vars
  BY <1>1, <1>11 DEF vars, CountsOK, queueVars, control, settings, backend, turn
<1>12. QED
  BY <1>1, <1>2, <1>3, <1>4, <1>5, <1>6, <1>7, <1>8, <1>9, <1>10, <1>11 DEF Next, RecorderStep

LEMMA TypesStep == TypeOK /\ [Next]_vars => TypeOK'
<1>1. QueueOK' /\ FlagsOK' /\ StagesOK' /\ CountsOK' => TypeOK'
  BY Zenon DEF TypeOK, QueueOK, FlagsOK, StagesOK, CountsOK
<1>2. QED  BY <1>1, TypesAre, QueueStep, FlagsStep, StagesStep, CountsStep

(* The types: the queue never holds more packets than its capacity, nor the     *)
(* fifo more blocks than it has room for, and time-outs stay under the limit.   *)
THEOREM RecorderTypes == Spec => []TypeOK
  BY TypesInit, TypesStep, PTL DEF Spec

LEMMA ShownStep == IInv /\ [Next]_vars => IInv'
<1>1. SUFFICES ASSUME IInv, [Next]_vars PROVE IInv'
  OBVIOUS
<1>2. CASE CoreStep
  BY <1>1, <1>2 DEF CoreStep, Enqueue, Clear, SetRecording, IInv, backend
<1>3. CASE HostStep
  BY <1>1, <1>3 DEF HostStep, SetterStep, Bump, ShowStatus, StatusOf, Shutdown, SetSuspended,
     SetEnabled, SetExternal, Store, IInv, backend
<1>4. CASE Take
  BY <1>1, <1>4 DEF Take, IInv, backend
<1>5. CASE Stop
  BY <1>1, <1>5 DEF Stop, Close, IInv
<1>6. CASE ReadSettings
  BY <1>1, <1>6 DEF ReadSettings, ReadEnabled, ReadSource, ReadGeneration, Close, IInv, backend
<1>7. CASE Decide
  BY <1>1, <1>7 DEF Decide, LetGo, Keep, Connect, Opened, OpenFails, GiveUp, Close, StatusOf,
     AfterDecision, IInv, backend
<1>8. CASE Fill
  BY <1>1, <1>8 DEF Fill, FillCaptures, Filled, FillSilence, Callback, Captured, Nothing,
     TimedOut, GiveUp, Close, IInv, backend
<1>9. CASE Idle
  BY <1>1, <1>9 DEF Idle, IdleCaptures, ScanSame, ScanOther, IdleWaits, GiveUp, Close, IInv,
     backend
<1>10. CASE RetryDue \/ ScanDue
  BY <1>1, <1>10 DEF RetryDue, ScanDue, IInv
<1>11. CASE UNCHANGED vars
  BY <1>1, <1>11 DEF IInv, vars, backend
<1>12. QED
  BY <1>1, <1>2, <1>3, <1>4, <1>5, <1>6, <1>7, <1>8, <1>9, <1>10, <1>11 DEF Next, RecorderStep

(* The status is true: the menu never shows a microphone as active that is not  *)
(* open (the first of what ShownAndLetGo says), and when the thread has ended   *)
(* none is open.                                                                *)
THEOREM StatusIsTrue == Spec => [](ActiveIsShownTruly /\ (pc = "exited" => ~active))
<1>1. Init => IInv
  BY DEF Init, IInv
<1>2. IInv => ActiveIsShownTruly /\ (pc = "exited" => ~active)
  BY DEF IInv, ActiveIsShownTruly
<1>3. QED  BY <1>1, <1>2, ShownStep, PTL DEF Spec
================================================================================
