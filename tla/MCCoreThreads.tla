----------------------------- MODULE MCCoreThreads -----------------------------
(* The threads and the once controls of pthr.c.  The two models share no state; *)
(* a behaviour exercises one of them, the part.  Threads: two core threads      *)
(* beside the main thread, one of which can create, join or detach the other,   *)
(* or be reaped, while pthr_shutdown runs.  Once: three threads and two         *)
(* controls: nested calls, and waiters of different controls on one condition.  *)
(* These are the sizes of the runs; the constants may be any.                   *)
EXTENDS CoreThreads, TLC

CONSTANTS OnceThread, Controls

VARIABLES part, state, stack, at, ran, finished, leaving

O == INSTANCE OnceControl WITH
    Thread <- OnceThread, pc <- at, shutdown <- leaving

onceVars == <<state, stack, at, ran, finished, leaving>>
allVars == <<vars, onceVars, part>>

Threads == part = "threads" /\ UNCHANGED <<onceVars, part>>
Once == part = "once" /\ UNCHANGED <<vars, part>>

PthrInit == part \in {"threads", "once"} /\ Init /\ O!Init

PthrNext ==
  \/ Threads /\ \E a \in Actor : CoreStep(a)
  \/ Threads /\ \E a \in Actor : Proceed(a)
  \/ Threads /\ \E t \in Thread : Leave(t)
  \/ Threads /\ \E t \in Thread : WaitOrReturn(t)
  \/ Threads /\ \E t \in Thread : Wake(t)
  \/ Threads /\ Reaper
  \/ Threads /\ RequestShutdown
  \/ Threads /\ ShutdownStep
  \/ Once /\ \E t \in OnceThread, k \in O!Control : O!Call(t, k)
  \/ Once /\ \E t \in OnceThread : O!EnterDone(t)
  \/ Once /\ \E t \in OnceThread : O!EnterFirst(t)
  \/ Once /\ \E t \in OnceThread : O!EnterWaits(t)
  \/ Once /\ \E t \in OnceThread : O!InitialiserReturns(t)
  \/ Once /\ \E t \in OnceThread : O!Exit(t)
  \/ Once /\ O!Shutdown

PthrSpec == PthrInit /\ [][PthrNext]_allVars

\* The fairness of both components, each where it is the part.
FairPthrSpec ==
  /\ PthrSpec
  /\ WF_allVars(Threads /\ Reaper) /\ WF_allVars(Threads /\ ShutdownStep)
  /\ \A a \in Actor : WF_allVars(Threads /\ Proceed(a))
  /\ \A t \in Thread : WF_allVars(Threads /\ Leave(t)) /\ SF_allVars(Threads /\ WaitOrReturn(t))
  /\ \A t \in OnceThread : WF_allVars(Once /\ O!Enter(t)) /\ WF_allVars(Once /\ O!InitialiserReturns(t))

OnceForAll == O!OnceForAll
================================================================================
