------------------------------- MODULE BionicCond -------------------------------
(***************************************************************************)
(* The condition variables source/pthr.c gives the emulator core.  A       *)
(* condition gets its host object on first use, by whichever thread comes  *)
(* first; one of them, the condition at which the main thread waits for a  *)
(* new screen, is recognised (captured), latches notifications and never   *)
(* keeps the main thread asleep for longer than a display interval.        *)
(*                                                                         *)
(* Each atomic access and each section under init_lock is one step.  The   *)
(* core (external) publishes data under the condition's mutex and then     *)
(* notifies; workers wait in a loop for the data, the screen wait has no   *)
(* loop.  A mutex is its holder.  The exit of a thread at shutdown is in   *)
(* CoreThreads.                                                            *)
(***************************************************************************)
EXTENDS Naturals, FiniteSets

CONSTANTS
  Screen,      \* the host's main thread, in waitScreen
  Worker,      \* core threads that wait for work
  Notifier,    \* core threads that publish and notify
  Frame, Work, \* the two conditions
  NoCond, Nobody,
  MaxObjects   \* bound: host condition objects created

ASSUME DistinctAssumption ==
  /\ Screen \notin Worker \cup Notifier /\ Worker \cap Notifier = {}
  /\ Frame # Work /\ NoCond \notin {Frame, Work}
  /\ Nobody \notin Worker \cup Notifier \cup {Screen}
  /\ MaxObjects \in Nat \ {0, 1}

Cond == {Frame, Work}
Waiter == Worker \cup {Screen}
Thread == Waiter \cup Notifier

VARIABLES
  pc,         \* where each thread is
  on,         \* the condition of its call
  op,         \* the call of a notifier: "init", "notify"
  sleeping,   \* the host object a sleeping thread waits for, 0 otherwise
  magic,      \* the condition is marked as initialised
  real,       \* real_ptr: its host object, 0 for NULL
  objects,    \* host objects created so far
  records,    \* the list at bionic_cond_head: owner and object
  frameSync,  \* frame_sync_cond
  latched,    \* frame_sync_pending
  holder,     \* who holds the mutex of each condition
  fresh,      \* data was published under it and not taken yet
  noticed,    \* history: the fresh screen has been notified to the captured condition
  due         \* history: noticed, when the screen wait began

calls == <<pc, on, op, sleeping>>
objs == <<magic, real, objects, records>>
latch == <<frameSync, latched>>
data == <<holder, fresh, noticed, due>>
vars == <<calls, objs, latch, data>>

Goto(a, l) == pc' = [pc EXCEPT ![a] = l]

--------------------------------------------------------------------------------
(* cond_static_init, first step of every call *)

\* The test without the lock.
Check(a) ==
  /\ pc[a] = "check"
  /\ Goto(a, IF magic[on[a]] THEN "ready" ELSE "create")
  /\ UNCHANGED <<on, op, sleeping, objs, latch, data>>

NewObject(c) ==
  /\ objects' = objects + 1
  /\ real' = [real EXCEPT ![c] = objects + 1]
  /\ magic' = [magic EXCEPT ![c] = TRUE]
  /\ records' = records \cup {<<c, objects + 1>>}

\* Under init_lock; another thread may have won the first-use race.
Create(a) ==
  /\ pc[a] = "create" /\ Goto(a, "ready")
  /\ IF magic[on[a]] THEN UNCHANGED objs ELSE NewObject(on[a])
  /\ UNCHANGED <<on, op, sleeping, latch, data>>

--------------------------------------------------------------------------------
(* pthread_cond_init and pthread_cond_destroy *)

\* Mutant: the explicit initialisation erases a live object.
CallInitErases(a, c) ==
  /\ pc[a] = "idle" /\ Goto(a, "check")
  /\ on' = [on EXCEPT ![a] = c] /\ op' = [op EXCEPT ![a] = "init"]
  /\ magic' = [magic EXCEPT ![c] = FALSE]
  /\ UNCHANGED <<sleeping, real, objects, records, latch, data>>

CallInit(a, c) ==
  /\ pc[a] = "idle" /\ Goto(a, "check")
  /\ on' = [on EXCEPT ![a] = c] /\ op' = [op EXCEPT ![a] = "init"]
  /\ UNCHANGED <<sleeping, objs, latch, data>>

InitReturns(a) ==
  /\ pc[a] = "ready" /\ op[a] = "init" /\ Goto(a, "idle")
  /\ UNCHANGED <<on, op, sleeping, objs, latch, data>>

\* As POSIX asks, the core destroys a condition that no call uses.  Bound: the
\* objects of all conditions that have none can still be created.
Unused(c) ==
  /\ \A a \in Thread : pc[a] # "idle" => on[a] # c
  /\ objects + Cardinality({d \in Cond : ~magic[d]}) < MaxObjects

Destroy(a, c) ==
  /\ pc[a] = "idle" /\ Unused(c) /\ magic[c]
  /\ magic' = [magic EXCEPT ![c] = FALSE]
  /\ real' = [real EXCEPT ![c] = 0]
  /\ records' = {r \in records : r[1] # c}
  /\ frameSync' = IF frameSync = c THEN NoCond ELSE frameSync
  /\ latched' = (latched /\ frameSync # c)
  /\ noticed' = (noticed /\ frameSync # c)
  /\ UNCHANGED <<calls, objects, holder, fresh, due>>

--------------------------------------------------------------------------------
(* pthread_cond_signal and pthread_cond_broadcast, after new data *)

Publish(a, c) ==
  /\ pc[a] = "idle" /\ holder[c] = Nobody
  /\ Goto(a, "check")
  /\ on' = [on EXCEPT ![a] = c] /\ op' = [op EXCEPT ![a] = "notify"]
  /\ fresh' = [fresh EXCEPT ![c] = TRUE]
  /\ UNCHANGED <<sleeping, objs, latch, holder, noticed, due>>

\* frame_sync_pending is set for the captured condition only.
Latch(a) ==
  /\ pc[a] = "ready" /\ op[a] = "notify" /\ Goto(a, "wake")
  /\ latched' = (latched \/ frameSync = on[a])
  /\ noticed' = (noticed \/ (frameSync = on[a] /\ fresh[Frame]))
  /\ UNCHANGED <<on, op, sleeping, objs, frameSync, holder, fresh, due>>

Sleepers(o) == {w \in Waiter : pc[w] = "asleep" /\ sleeping[w] = o}

\* The host object wakes one sleeper (signal) or all (broadcast).
Wake(a) ==
  /\ pc[a] = "wake"
  /\ \E S \in SUBSET Sleepers(real[on[a]]) :
       /\ S = {} => Sleepers(real[on[a]]) = {}
       /\ Cardinality(S) > 1 => S = Sleepers(real[on[a]])
       /\ pc' = [t \in Thread |-> IF t = a THEN "idle" ELSE
                                  IF t \in S THEN "woken" ELSE pc[t]]
       /\ sleeping' = [t \in Thread |-> IF t \in S THEN 0 ELSE sleeping[t]]
  /\ UNCHANGED <<on, op, objs, latch, data>>

--------------------------------------------------------------------------------
(* pthread_cond_wait, from the caller's lock of the mutex to its unlock *)

Home(w) == IF w = Screen THEN Frame ELSE Work

Lock(w) ==
  /\ pc[w] = "idle" /\ holder[Home(w)] = Nobody
  /\ holder' = [holder EXCEPT ![Home(w)] = w]
  /\ on' = [on EXCEPT ![w] = Home(w)]
  /\ due' = IF w = Screen THEN noticed ELSE due
  /\ Goto(w, IF w = Screen THEN "check" ELSE "test")
  /\ UNCHANGED <<op, sleeping, objs, latch, fresh, noticed>>

Take(w) ==
  /\ fresh' = [fresh EXCEPT ![on[w]] = FALSE]
  /\ holder' = [holder EXCEPT ![on[w]] = Nobody]
  /\ noticed' = (noticed /\ w # Screen)
  /\ due' = (due /\ w # Screen)
  /\ Goto(w, "idle")
  /\ UNCHANGED <<on, op, sleeping, objs, latch>>

\* A worker's loop: take the work or wait for it.
TakeWork(w) == pc[w] = "test" /\ fresh[Work] /\ Take(w)

CallWait(w) ==
  /\ pc[w] = "test" /\ ~fresh[Work] /\ Goto(w, "check")
  /\ UNCHANGED <<on, op, sleeping, objs, latch, data>>

\* frame_sync_capture, asked for by the main loop before each screen wait.
Captured(w) == IF w = Screen /\ frameSync = NoCond THEN on[w] ELSE frameSync

\* Mutant: the wait does not look at the latched notification.
EnterNoLatch(w) ==
  /\ pc[w] = "ready" /\ Goto(w, "park")
  /\ frameSync' = Captured(w)
  /\ UNCHANGED <<on, op, sleeping, objs, latched, data>>

\* The captured condition consumes a latched notification and returns.
Enter(w) ==
  /\ pc[w] = "ready"
  /\ frameSync' = Captured(w)
  /\ IF frameSync' = on[w] /\ latched
     THEN latched' = FALSE /\ Goto(w, "returned")
     ELSE latched' = latched /\ Goto(w, "park")
  /\ UNCHANGED <<on, op, sleeping, objs, data>>

\* The mutex is released as the thread falls asleep.
Sleep(w) ==
  /\ pc[w] = "park" /\ Goto(w, "asleep")
  /\ sleeping' = [sleeping EXCEPT ![w] = real[on[w]]]
  /\ holder' = [holder EXCEPT ![on[w]] = Nobody]
  /\ UNCHANGED <<on, op, objs, latch, fresh, noticed, due>>

\* Mutant: the screen wait has no time limit.
NeverTimeOut(w) == FALSE /\ UNCHANGED vars

\* FRAME_SYNC_WAIT_SLICE_NS has passed.
TimeOut(w) ==
  /\ pc[w] = "asleep" /\ frameSync = on[w] /\ Goto(w, "timedout")
  /\ sleeping' = [sleeping EXCEPT ![w] = 0]
  /\ UNCHANGED <<on, op, objs, latch, data>>

Relock(w) ==
  /\ pc[w] \in {"woken", "timedout"} /\ holder[on[w]] = Nobody
  /\ holder' = [holder EXCEPT ![on[w]] = w]
  /\ latched' = (latched /\ (pc[w] = "timedout" \/ frameSync # on[w]))
  /\ Goto(w, IF w = Screen THEN "returned" ELSE "test")
  /\ UNCHANGED <<on, op, sleeping, objs, frameSync, fresh, noticed, due>>

\* The main thread draws the published screen; it does not look for one first.
ShowScreen(w) == pc[w] = "returned" /\ Take(w)

--------------------------------------------------------------------------------
Init ==
  /\ pc = [a \in Thread |-> "idle"]
  /\ on = [a \in Thread |-> NoCond]
  /\ op = [a \in Notifier |-> "init"]
  /\ sleeping = [a \in Thread |-> 0]
  /\ magic = [c \in Cond |-> FALSE] /\ real = [c \in Cond |-> 0]
  /\ objects = 0 /\ records = {}
  /\ frameSync = NoCond /\ latched = FALSE
  /\ holder = [c \in Cond |-> Nobody]
  /\ fresh = [c \in Cond |-> FALSE]
  /\ noticed = FALSE /\ due = FALSE

Proceed(a) == Check(a) \/ Create(a)

WaitStep(w) ==
  \/ Lock(w) \/ TakeWork(w) \/ CallWait(w) \/ Proceed(w)
  \/ Enter(w) \/ Sleep(w) \/ TimeOut(w) \/ Relock(w) \/ ShowScreen(w)

NotifyStep(a) == Proceed(a) \/ InitReturns(a) \/ Latch(a) \/ Wake(a)

CoreCall(a) == \E c \in Cond : CallInit(a, c) \/ Publish(a, c) \/ Destroy(a, c)

Next ==
  \/ \E w \in Waiter : WaitStep(w)
  \/ \E a \in Notifier : NotifyStep(a) \/ CoreCall(a)

Spec == Init /\ [][Next]_vars

(* Every thread is scheduled; a notifier that has published notifies.       *)
FairSpec ==
  /\ Spec
  /\ \A w \in Waiter : WF_vars(WaitStep(w))
  /\ \A a \in Notifier : WF_vars(NotifyStep(a))

--------------------------------------------------------------------------------
(* Properties *)

(* Types, and the state a thread's place implies. *)
TypeOK ==
  /\ pc \in [Thread -> {"idle", "test", "check", "create", "ready", "wake", "park",
                        "asleep", "woken", "timedout", "returned"}]
  /\ on \in [Thread -> Cond \cup {NoCond}]
  /\ op \in [Notifier -> {"init", "notify"}]
  /\ sleeping \in [Thread -> 0 .. MaxObjects]
  /\ magic \in [Cond -> BOOLEAN]
  /\ real \in [Cond -> 0 .. MaxObjects]
  /\ objects \in 0 .. MaxObjects
  /\ records \subseteq Cond \X (1 .. MaxObjects)
  /\ frameSync \in Cond \cup {NoCond} /\ latched \in BOOLEAN
  /\ holder \in [Cond -> Waiter \cup {Nobody}]
  /\ fresh \in [Cond -> BOOLEAN] /\ noticed \in BOOLEAN /\ due \in BOOLEAN

(* A sleeping thread waits for the host object that its condition has now,  *)
(* however the threads that initialise, notify and wait came first: a       *)
(* notification cannot go to a second object at the same address.           *)
SleepersOnCurrentObject ==
  \A w \in Waiter : pc[w] = "asleep" => sleeping[w] = real[on[w]] /\ sleeping[w] # 0

(* The list that the shutdown broadcast walks holds each initialised        *)
(* condition with its current object and nothing else, so it wakes every    *)
(* sleeper and never touches a destroyed object.                            *)
BroadcastReachesAll ==
  records = {<<c, real[c]>> : c \in {d \in Cond : magic[d]}}

(* A screen notified before the screen wait begins ends that wait without   *)
(* sleeping ("the first wait ... cannot miss the signal", main.c).          *)
NoticedScreenNotSleptOver == ~(due /\ pc[Screen] = "asleep")

(* No wake-up is missed, of those a worker or the main thread waits for: all *)
(* of the above.                                                            *)
NoWakeIsMissed ==
  SleepersOnCurrentObject /\ BroadcastReachesAll /\ NoticedScreenNotSleptOver

(* A published screen is drawn, and published work is taken by a worker,    *)
(* whether the notification came before, during or after the step that puts *)
(* the waiting thread to sleep, and before or after the condition was       *)
(* initialised or captured.                                                 *)
PublishedIsTaken == \A c \in Cond : fresh[c] ~> ~fresh[c]
================================================================================
