------------------------------- MODULE CoreThreads -------------------------------
(***************************************************************************)
(* The life of the emulator core's threads in source/pthr.c: creation,     *)
(* join, detach through a reaper thread, the cooperative exit at a         *)
(* condition wait, and pthr_shutdown, which must see every thread gone and *)
(* joined before the core's code is unmapped.                              *)
(*                                                                         *)
(* Each section under thread_lock is one step, and so is each call into    *)
(* libnx.  Mutexes and the condition's own queue are abstracted: a waiting *)
(* thread may be woken at any time, by a signal or spuriously.             *)
(***************************************************************************)
EXTENDS Integers, Sequences, FiniteSets

CONSTANTS
  Thread,      \* threads the core may create
  Main,        \* the host's main thread, which also runs core code
  NoThread,
  SelfDetach   \* whether a core thread may detach itself

ASSUME ActorAssumption ==
  /\ IsFiniteSet(Thread)
  /\ Main \notin Thread /\ NoThread \notin Thread \cup {Main}
  /\ SelfDetach \in BOOLEAN

Actor == Thread \cup {Main}

VARIABLES
  pc,          \* where each thread is
  target,      \* the thread it is creating or joining
  maker,       \* who created a thread
  claimed,     \* threads the core has joined or detached
  active,      \* active_core_threads
  records,     \* the list at core_thread_head
  queue,       \* detach_head: threads to reap, in order
  reaper,      \* the reaper: "off", "idle", "join", "unrecord", "gone"
  reaping,     \* the thread it took from the queue
  stop,        \* detach_reaper_stop
  shutdown,    \* core_shutdown_requested
  reaped       \* threads that were pthread_joined: their handles are free

detach == <<queue, reaper, reaping, stop>>
vars == <<pc, target, maker, claimed, active, records, detach, shutdown, reaped>>

Goto(a, l) == pc' = [pc EXCEPT ![a] = l]

--------------------------------------------------------------------------------
(* pthread_create_soloader *)

Create(a, t) ==
  /\ pc[a] = "run" /\ pc[t] = "unborn"
  /\ \A b \in Actor : pc[b] = "create" => target[b] # t
  /\ Goto(a, "create")
  /\ target' = [target EXCEPT ![a] = t]
  /\ active' = active + 1
  /\ UNCHANGED <<maker, claimed, records, detach, shutdown, reaped>>

\* The new thread may run, and even end, before its record is pushed.
CreateSucceeds(a) ==
  /\ pc[a] = "create"
  /\ pc' = [pc EXCEPT ![a] = "record", ![target[a]] = "run"]
  /\ maker' = [maker EXCEPT ![target[a]] = a]
  /\ UNCHANGED <<target, claimed, active, records, detach, shutdown, reaped>>

CreateFails(a) ==
  /\ pc[a] = "create"
  /\ Goto(a, "run")
  /\ active' = active - 1
  /\ UNCHANGED <<target, maker, claimed, records, detach, shutdown, reaped>>

PushRecord(a) ==
  /\ pc[a] = "record"
  /\ Goto(a, "run")
  /\ records' = records \cup {target[a]}
  /\ UNCHANGED <<target, maker, claimed, active, detach, shutdown, reaped>>

--------------------------------------------------------------------------------
(* pthread_join_soloader and pthread_detach_soloader.  A creator joins or   *)
(* detaches its thread once.                                                *)

MayClaim(a, t) ==
  /\ pc[a] = "run" /\ t \notin claimed
  /\ maker[t] = a \/ (SelfDetach /\ a = t)

Join(a, t) ==
  /\ MayClaim(a, t) /\ a # t
  /\ Goto(a, "join")
  /\ target' = [target EXCEPT ![a] = t]
  /\ claimed' = claimed \cup {t}
  /\ UNCHANGED <<maker, active, records, detach, shutdown, reaped>>

JoinReturns(a) ==
  /\ pc[a] = "join" /\ pc[target[a]] = "gone"
  /\ Goto(a, "unrecord")
  /\ reaped' = reaped \cup {target[a]}
  /\ UNCHANGED <<target, maker, claimed, active, records, detach, shutdown>>

Unrecord(a) ==
  /\ pc[a] = "unrecord"
  /\ Goto(a, "run")
  /\ records' = records \ {target[a]}
  /\ UNCHANGED <<target, maker, claimed, active, detach, shutdown, reaped>>

\* The first detach starts the reaper; if that fails nothing is queued.
Detach(a, t) ==
  /\ MayClaim(a, t)
  /\ claimed' = claimed \cup {t}
  /\ queue' = Append(queue, t)
  /\ reaper' = IF reaper = "off" THEN "idle" ELSE reaper
  /\ UNCHANGED <<pc, target, maker, active, records, reaping, stop, shutdown, reaped>>

--------------------------------------------------------------------------------
(* detach_reaper_main *)

ReaperTakes ==
  /\ reaper = "idle" /\ queue # <<>>
  /\ reaper' = "join" /\ reaping' = Head(queue) /\ queue' = Tail(queue)
  /\ UNCHANGED <<pc, target, maker, claimed, active, records, stop, shutdown, reaped>>

ReaperStops ==
  /\ reaper = "idle" /\ queue = <<>> /\ stop
  /\ reaper' = "gone"
  /\ UNCHANGED <<pc, target, maker, claimed, active, records, queue, reaping, stop,
                 shutdown, reaped>>

ReaperJoins ==
  /\ reaper = "join" /\ pc[reaping] = "gone"
  /\ reaper' = "unrecord"
  /\ reaped' = reaped \cup {reaping}
  /\ UNCHANGED <<pc, target, maker, claimed, active, records, queue, reaping, stop, shutdown>>

\* Mutant: the record of a reaped thread is kept.
ReaperKeepsRecord ==
  /\ reaper = "unrecord" /\ reaper' = "idle"
  /\ UNCHANGED <<pc, target, maker, claimed, active, records, queue, reaping, stop,
                 shutdown, reaped>>

ReaperUnrecords ==
  /\ reaper = "unrecord"
  /\ reaper' = "idle"
  /\ records' = records \ {reaping}
  /\ UNCHANGED <<pc, target, maker, claimed, active, queue, reaping, stop, shutdown, reaped>>

Reaper == ReaperTakes \/ ReaperStops \/ ReaperJoins \/ ReaperUnrecords

--------------------------------------------------------------------------------
(* pthread_cond_wait_soloader, and the end of a thread *)

Move(t, from, to) ==
  /\ pc[t] = from /\ Goto(t, to)
  /\ UNCHANGED <<target, maker, claimed, active, records, detach, shutdown, reaped>>

\* core_thread_exit_from_wait
AfterExitCheck(next) == IF shutdown THEN "leaving" ELSE next

EnterWait(t) == Move(t, "run", AfterExitCheck("parking"))
Park(t) == Move(t, "parking", "waiting")
Wake(t) == Move(t, "waiting", "woken")
LeaveWait(t) == Move(t, "woken", AfterExitCheck("run"))
Return(t) == Move(t, "run", "leaving")

\* core_thread_cleanup; the thread itself ends a little later.
Cleanup(t) ==
  /\ pc[t] = "leaving" /\ Goto(t, "ending")
  /\ active' = active - 1
  /\ UNCHANGED <<target, maker, claimed, records, detach, shutdown, reaped>>

End(t) == Move(t, "ending", "gone")

--------------------------------------------------------------------------------
(* pthr_shutdown, on the main thread *)

RequestShutdown ==
  /\ pc[Main] = "run" /\ Goto(Main, "wake")
  /\ shutdown' = TRUE
  /\ UNCHANGED <<target, maker, claimed, active, records, detach, reaped>>

\* wake_all_bionic_conditions
WakeAll ==
  /\ pc[Main] = "wake"
  /\ pc' = [a \in Actor |-> IF a = Main THEN "count"
                            ELSE IF pc[a] = "waiting" THEN "woken" ELSE pc[a]]
  /\ UNCHANGED <<target, maker, claimed, active, records, detach, shutdown, reaped>>

\* Mutant: the broadcast is not repeated.
AwaitActive ==
  /\ pc[Main] = "count" /\ active = 0 /\ Goto(Main, "stop")
  /\ UNCHANGED <<target, maker, claimed, active, records, detach, shutdown, reaped>>

ReadActive ==
  /\ pc[Main] = "count" /\ Goto(Main, IF active = 0 THEN "stop" ELSE "wake")
  /\ UNCHANGED <<target, maker, claimed, active, records, detach, shutdown, reaped>>

StopReaper ==
  /\ pc[Main] = "stop" /\ Goto(Main, "await")
  /\ stop' = (reaper # "off")
  /\ UNCHANGED <<target, maker, claimed, active, records, queue, reaper, reaping,
                 shutdown, reaped>>

JoinReaper ==
  /\ pc[Main] = "await" /\ reaper \in {"off", "gone"} /\ Goto(Main, "take")
  /\ UNCHANGED <<target, maker, claimed, active, records, detach, shutdown, reaped>>

TakeRecord ==
  /\ pc[Main] = "take"
  /\ \/ /\ records = {} /\ Goto(Main, "done")
        /\ UNCHANGED <<target, records>>
     \/ \E t \in records :
          /\ Goto(Main, "collect")
          /\ target' = [target EXCEPT ![Main] = t]
          /\ records' = records \ {t}
  /\ UNCHANGED <<maker, claimed, active, detach, shutdown, reaped>>

\* Mutant: one record is joined, not all.
JoinOneRecord ==
  /\ pc[Main] = "collect" /\ pc[target[Main]] = "gone" /\ Goto(Main, "done")
  /\ reaped' = reaped \cup {target[Main]}
  /\ UNCHANGED <<target, maker, claimed, active, records, detach, shutdown>>

JoinRecord ==
  /\ pc[Main] = "collect" /\ pc[target[Main]] = "gone" /\ Goto(Main, "take")
  /\ reaped' = reaped \cup {target[Main]}
  /\ UNCHANGED <<target, maker, claimed, active, records, detach, shutdown>>

ShutdownStep ==
  WakeAll \/ ReadActive \/ StopReaper \/ JoinReaper \/ TakeRecord \/ JoinRecord

--------------------------------------------------------------------------------
Init ==
  /\ pc = [a \in Actor |-> IF a = Main THEN "run" ELSE "unborn"]
  /\ target = [a \in Actor |-> NoThread]
  /\ maker = [t \in Thread |-> NoThread]
  /\ claimed = {} /\ records = {} /\ reaped = {}
  /\ active = 0
  /\ queue = <<>> /\ reaper = "off" /\ reaping = NoThread /\ stop = FALSE
  /\ shutdown = FALSE

\* What a thread must go through once it has begun.
Proceed(a) ==
  CreateSucceeds(a) \/ CreateFails(a) \/ PushRecord(a) \/ JoinReturns(a) \/ Unrecord(a)

Leave(t) == Park(t) \/ LeaveWait(t) \/ Cleanup(t) \/ End(t)

CoreStep(a) == \E t \in Thread : Create(a, t) \/ Join(a, t) \/ Detach(a, t)

WaitOrReturn(t) == EnterWait(t) \/ Return(t)

Next ==
  \/ \E a \in Actor : CoreStep(a) \/ Proceed(a)
  \/ \E t \in Thread : Leave(t) \/ WaitOrReturn(t) \/ Wake(t)
  \/ Reaper
  \/ RequestShutdown \/ ShutdownStep

Spec == Init /\ [][Next]_vars

(* All threads are scheduled.  A core thread that runs comes to a condition *)
(* wait or returns; nothing else wakes a waiting thread for certain.        *)
FairSpec ==
  /\ Spec
  /\ WF_vars(Reaper) /\ WF_vars(ShutdownStep)
  /\ \A a \in Actor : WF_vars(Proceed(a))
  /\ \A t \in Thread : WF_vars(Leave(t)) /\ SF_vars(WaitOrReturn(t))

--------------------------------------------------------------------------------
(* Properties *)

Label == {"unborn", "run", "create", "record", "join", "unrecord", "parking", "waiting",
          "woken", "leaving", "ending", "gone"}
ShutdownLabel == {"wake", "count", "stop", "await", "take", "collect", "done"}

(* Types; the shutdown labels belong to the main thread. *)
TypeOK ==
  /\ pc \in [Actor -> Label \cup ShutdownLabel]
  /\ \A t \in Thread : pc[t] \in Label
  /\ target \in [Actor -> Thread \cup {NoThread}]
  /\ maker \in [Thread -> Actor \cup {NoThread}]
  /\ claimed \subseteq Thread /\ records \subseteq Thread /\ reaped \subseteq Thread
  /\ active \in Nat
  /\ queue \in Seq(Thread)
  /\ reaper \in {"off", "idle", "join", "unrecord", "gone"}
  /\ reaping \in Thread \cup {NoThread}
  /\ stop \in BOOLEAN /\ shutdown \in BOOLEAN

(* active_core_threads counts the threads that are being created or live,   *)
(* whichever creation failed: pthr_shutdown waits for all of them and for   *)
(* no other.                                                                *)
Live == {t \in Thread : pc[t] \notin {"unborn", "ending", "gone"}}
Expected == {t \in Thread : \E a \in Actor : pc[a] = "create" /\ target[a] = t}

ActiveCountExact == active = Cardinality(Live \cup Expected)

(* When pthr_shutdown is over, no core thread is left alive and each has    *)
(* been joined, by the core, by the reaper or by pthr_shutdown, so the      *)
(* core's code can be unmapped and every stack and handle is reclaimed.     *)
ShutdownLeavesNoThread ==
  pc[Main] = "done" =>
    \A t \in Thread : pc[t] = "unborn" \/ (pc[t] = "gone" /\ t \in reaped)

(* "Core-owned joins removed their records already": the records that       *)
(* pthr_shutdown finds are those of threads nobody has joined.              *)
RecordsAreUnjoined ==
  /\ pc[Main] = "take" => records \cap reaped = {}
  /\ pc[Main] = "collect" => target[Main] \notin reaped /\ records \cap reaped = {}

(* pthr_shutdown collects every thread, and none a second time: both of the *)
(* above.                                                                   *)
ShutdownIsClean == ShutdownLeavesNoThread /\ RecordsAreUnjoined

(* pthr_shutdown comes to an end whatever the threads were doing when it    *)
(* was called, a wait begun just after its first broadcast included.        *)
ShutdownCompletes == shutdown ~> pc[Main] = "done"
================================================================================
