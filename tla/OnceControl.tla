------------------------------- MODULE OnceControl -------------------------------
(***************************************************************************)
(* pthread_once of source/pthr.c.  All once controls share one lock and    *)
(* one condition; the initialiser runs outside the lock and may itself     *)
(* call pthread_once on a later control, as the constructors of one        *)
(* singleton use another.  A core thread that waits for a condition in its *)
(* initialiser leaves there when the core is shut down.                    *)
(*                                                                         *)
(* A call keeps a stack of the controls it is in.  Each section under      *)
(* once_lock is one step; the lock is released at a wait.                  *)
(***************************************************************************)
EXTENDS Naturals, Sequences

CONSTANTS
  Thread,
  Controls   \* once controls 1 .. Controls; an initialiser uses later ones only

Control == 1 .. Controls

VARIABLES
  state,     \* once_control: "init", "running", "done"
  stack,     \* the controls of a thread's nested calls, the innermost first
  pc,        \* "run" its own code or an initialiser, "enter", "waiting", "exited"
  ran,       \* history: how often each initialiser has been started
  finished,  \* history: the initialisers that have returned
  shutdown   \* core_shutdown_requested

vars == <<state, stack, pc, ran, finished, shutdown>>

\* The initialiser a thread runs, if it runs one.
Initialising(t) == pc[t] = "run" /\ stack[t] # <<>>

--------------------------------------------------------------------------------
Later(t) == {k \in Control : \A i \in 1 .. Len(stack[t]) : stack[t][i] < k}

\* The test without the lock; the value that counts is read under it.
Call(t, k) ==
  /\ pc[t] = "run" /\ k \in Later(t)
  /\ state[k] # "done"
  /\ pc' = [pc EXCEPT ![t] = "enter"]
  /\ stack' = [stack EXCEPT ![t] = <<k>> \o @]
  /\ UNCHANGED <<state, ran, finished, shutdown>>

EnterDone(t) ==
  /\ pc[t] = "enter" /\ state[Head(stack[t])] = "done"
  /\ pc' = [pc EXCEPT ![t] = "run"]
  /\ stack' = [stack EXCEPT ![t] = Tail(@)]
  /\ UNCHANGED <<state, ran, finished, shutdown>>

\* Mutant: the control is not marked as running.
EnterUnmarked(t) ==
  /\ pc[t] = "enter" /\ state[Head(stack[t])] = "init"
  /\ ran' = [ran EXCEPT ![Head(stack[t])] = @ + 1]
  /\ pc' = [pc EXCEPT ![t] = "run"]
  /\ UNCHANGED <<state, stack, finished, shutdown>>

\* The first caller starts the initialiser and releases the lock.
EnterFirst(t) ==
  /\ pc[t] = "enter" /\ state[Head(stack[t])] = "init"
  /\ state' = [state EXCEPT ![Head(stack[t])] = "running"]
  /\ ran' = [ran EXCEPT ![Head(stack[t])] = @ + 1]
  /\ pc' = [pc EXCEPT ![t] = "run"]
  /\ UNCHANGED <<stack, finished, shutdown>>

\* The others wait; the lock is given back for egl_gl_ownership_park first, and
\* the state read again before the wait.
EnterWaits(t) ==
  /\ pc[t] = "enter" /\ state[Head(stack[t])] = "running"
  /\ pc' = [pc EXCEPT ![t] = "waiting"]
  /\ UNCHANGED <<state, stack, ran, finished, shutdown>>

\* Mutant: one waiter is woken, whichever control it waits for.
ReturnWakesOne(t) ==
  /\ Initialising(t)
  /\ state' = [state EXCEPT ![Head(stack[t])] = "done"]
  /\ finished' = finished \cup {Head(stack[t])}
  /\ LET W == {u \in Thread : pc[u] = "waiting"}
     IN  IF W = {} THEN pc' = pc
         ELSE \E u \in W : pc' = [pc EXCEPT ![u] = "enter"]
  /\ stack' = [stack EXCEPT ![t] = Tail(@)]
  /\ UNCHANGED <<ran, shutdown>>

\* The initialiser returns: DONE, and a broadcast that wakes the waiters of
\* every control.
InitialiserReturns(t) ==
  /\ Initialising(t)
  /\ state' = [state EXCEPT ![Head(stack[t])] = "done"]
  /\ finished' = finished \cup {Head(stack[t])}
  /\ pc' = [u \in Thread |-> IF pc[u] = "waiting" THEN "enter" ELSE pc[u]]
  /\ stack' = [stack EXCEPT ![t] = Tail(@)]
  /\ UNCHANGED <<ran, shutdown>>

\* core_thread_exit_from_wait in an initialiser: its control stays running.
Exit(t) ==
  /\ shutdown /\ pc[t] = "run"
  /\ pc' = [pc EXCEPT ![t] = "exited"]
  /\ UNCHANGED <<state, stack, ran, finished, shutdown>>

Shutdown ==
  /\ ~shutdown /\ shutdown' = TRUE
  /\ UNCHANGED <<state, stack, pc, ran, finished>>

--------------------------------------------------------------------------------
Init ==
  /\ state = [k \in Control |-> "init"]
  /\ stack = [t \in Thread |-> <<>>]
  /\ pc = [t \in Thread |-> "run"]
  /\ ran = [k \in Control |-> 0]
  /\ finished = {}
  /\ shutdown = FALSE

Enter(t) == EnterDone(t) \/ EnterFirst(t) \/ EnterWaits(t)

Next ==
  \/ \E t \in Thread, k \in Control : Call(t, k)
  \/ \E t \in Thread : Enter(t) \/ InitialiserReturns(t) \/ Exit(t)
  \/ Shutdown

Spec == Init /\ [][Next]_vars

(* Threads are scheduled, and initialisers return unless their thread left. *)
FairSpec ==
  /\ Spec
  /\ \A t \in Thread : WF_vars(Enter(t)) /\ WF_vars(InitialiserReturns(t))

--------------------------------------------------------------------------------
(* Properties *)

(* Types; a thread's calls are nested in the order of their controls.       *)
TypeOK ==
  /\ state \in [Control -> {"init", "running", "done"}]
  /\ \A t \in Thread :
       /\ stack[t] \in Seq(Control)
       /\ \A i, j \in 1 .. Len(stack[t]) : i < j => stack[t][j] < stack[t][i]
  /\ pc \in [Thread -> {"run", "enter", "waiting", "exited"}]
  /\ ran \in [Control -> Nat]
  /\ finished \subseteq Control
  /\ shutdown \in BOOLEAN

(* Each initialiser is started at most once, whichever callers race for it. *)
InitialisedOnce == \A k \in Control : ran[k] <= 1

(* No call returns before the initialiser has: the core never sees a        *)
(* singleton that is still being built.                                     *)
Returns(t, k) ==
  /\ stack[t] # <<>> /\ Head(stack[t]) = k /\ stack[t]' = Tail(stack[t])

ReturnsAfterInitialiser ==
  [][\A t \in Thread, k \in Control : Returns(t, k) => k \in finished']_vars

(* Every caller gets its answer, also when the broadcast of another         *)
(* control's initialiser woke it first, unless the core is being shut down: *)
(* a thread that leaves in its initialiser leaves its peers waiting.        *)
CallerReturns ==
  \A t \in Thread : pc[t] \in {"enter", "waiting"} ~> pc[t] = "run" \/ shutdown

(* An initialiser runs once and everybody who called returns: the first and  *)
(* the last of the above.                                                    *)
OnceForAll == []InitialisedOnce /\ CallerReturns
================================================================================
