---------------------------- MODULE CoreThreads_proofs ----------------------------
(***************************************************************************)
(* Proofs about CoreThreads, for any number of threads: its types, the     *)
(* exact count of active threads, that pthr_shutdown leaves no thread, and *)
(* that it joins none twice unless a thread may detach itself; and about   *)
(* OnceControl, the part beside it: an initialiser runs once, and nobody   *)
(* goes on before it has returned.                                         *)
(***************************************************************************)
EXTENDS MCCoreThreads, FiniteSetTheorems, TLAPS

(* A thread that is being created has one creator and does not exist yet.   *)
CreateInv ==
  /\ \A a \in Actor : pc[a] = "create" => target[a] \in Thread /\ pc[target[a]] = "unborn"
  /\ \A a, b \in Actor :
       pc[a] = "create" /\ pc[b] = "create" /\ target[a] = target[b] => a = b

(* Only threads that have ended were joined; each thread that was born was  *)
(* joined, has a record, or is about to get one or to be joined by          *)
(* pthr_shutdown.                                                           *)
JoinInv ==
  /\ \A t \in reaped : pc[t] = "gone"
  /\ \A a \in Actor : pc[a] \in {"record", "join", "unrecord", "collect"} => target[a] \in Thread
  /\ \A a \in Actor : pc[a] = "unrecord" => target[a] \in reaped
  /\ reaper \in {"join", "unrecord"} => reaping \in Thread
  /\ reaper = "unrecord" => reaping \in reaped
  /\ \A t \in Thread :
       \/ pc[t] = "unborn" \/ t \in reaped \/ t \in records
       \/ \E a \in Actor : pc[a] \in {"record", "collect"} /\ target[a] = t

(* Once pthr_shutdown has read a count of zero no thread does anything but  *)
(* end; when it is over no record is left.                                  *)
QuietInv ==
  /\ pc[Main] \in {"stop", "await", "take", "collect", "done"} =>
       \A t \in Thread : pc[t] \in {"unborn", "ending", "gone"}
  /\ pc[Main] = "done" => records = {}

IInv == TypeOK /\ CreateInv /\ ActiveCountExact /\ JoinInv /\ QuietInv

(* A thread is claimed by its creator, after its record was pushed, unless  *)
(* it may detach itself; what the core or the reaper joined was claimed,    *)
(* and its record is about to go.                                           *)
ClaimInv ==
  /\ \A t \in Thread : pc[t] = "unborn" => maker[t] = NoThread
  /\ \A a \in Actor : pc[a] = "record" => maker[target[a]] = a /\ target[a] \notin claimed
  /\ \A a \in Actor : pc[a] = "join" => target[a] \in claimed
  /\ \A i \in 1 .. Len(queue) : queue[i] \in claimed
  /\ reaper \in {"join", "unrecord"} => reaping \in claimed
  /\ \A t \in claimed : pc[t] # "unborn"
  /\ pc[Main] \in {"take", "collect", "done"} => reaper \in {"off", "gone"}
  /\ \A t \in reaped : t \in claimed \/ pc[Main] \in {"take", "collect", "done"}
  /\ \A t \in records \cap reaped :
       \/ \E a \in Actor : pc[a] = "unrecord" /\ target[a] = t
       \/ reaper = "unrecord" /\ reaping = t
  /\ pc[Main] = "collect" => target[Main] \notin records \cup reaped

(* Steps that only move one thread on, of a thread that lives or has left.  *)
Moves(t) ==
  EnterWait(t) \/ Park(t) \/ Wake(t) \/ LeaveWait(t) \/ Return(t) \/ End(t)

--------------------------------------------------------------------------------
(* The steps by their effect *)

(* What moves a thread on.                                                  *)
LEMMA MoveShape ==
  ASSUME NEW t \in Thread, Moves(t)
  PROVE  \E to \in Label :
           /\ pc' = [pc EXCEPT ![t] = to]
           /\ \/ /\ pc[t] \in {"run", "parking", "waiting", "woken"}
                 /\ to \in {"run", "parking", "waiting", "woken", "leaving"}
              \/ pc[t] = "ending" /\ to = "gone"
           /\ UNCHANGED <<target, maker, claimed, active, records, detach, shutdown, reaped>>
<1>1. CASE EnterWait(t)
  BY <1>1 DEF EnterWait, Move, Goto, AfterExitCheck, Label
<1>2. CASE Park(t)
  BY <1>2 DEF Park, Move, Goto, Label
<1>3. CASE Wake(t)
  BY <1>3 DEF Wake, Move, Goto, Label
<1>4. CASE LeaveWait(t)
  BY <1>4 DEF LeaveWait, Move, Goto, AfterExitCheck, Label
<1>5. CASE Return(t)
  BY <1>5 DEF Return, Move, Goto, Label
<1>6. CASE End(t)
  BY <1>6 DEF End, Move, Goto, Label
<1>7. QED  BY <1>1, <1>2, <1>3, <1>4, <1>5, <1>6 DEF Moves

(* The threads can be counted.                                              *)
LEMMA Counted == \A S \in SUBSET Thread : IsFiniteSet(S) /\ Cardinality(S) \in Nat
  BY ActorAssumption, FS_Subset, FS_CardinalityType

--------------------------------------------------------------------------------
(* Initially *)

LEMMA InitIInv == Init => IInv
<1> SUFFICES ASSUME Init PROVE IInv
  OBVIOUS
<1>1. \A a \in Actor : pc[a] = IF a = Main THEN "run" ELSE "unborn"
  BY DEF Init
<1>2. Main \in Actor /\ Thread \subseteq Actor /\ Main \notin Thread
  BY ActorAssumption DEF Actor
<1>3. TypeOK
  <2>1. queue \in Seq(Thread) /\ active \in Nat
    BY DEF Init
  <2>2. pc \in [Actor -> Label \cup ShutdownLabel] /\ \A t \in Thread : pc[t] \in Label
    BY <1>2 DEF Init, Label, ShutdownLabel
  <2>3. target \in [Actor -> Thread \cup {NoThread}] /\ maker \in [Thread -> Actor \cup {NoThread}]
    BY DEF Init
  <2>4. QED  BY <2>1, <2>2, <2>3 DEF Init, TypeOK
<1>4. Live \cup Expected = {}
  BY <1>1, <1>2 DEF Live, Expected
<1>5. ActiveCountExact
  BY <1>4, FS_EmptySet DEF Init, ActiveCountExact
<1>6. CreateInv
  BY <1>1 DEF CreateInv
<1>7. JoinInv
  BY <1>1, <1>2 DEF Init, JoinInv
<1>8. QuietInv
  BY <1>1, <1>2 DEF QuietInv
<1>9. QED  BY <1>3, <1>5, <1>6, <1>7, <1>8 DEF IInv

--------------------------------------------------------------------------------
(* Types *)

(* Every step keeps the types; the count is left to CountStep, which needs  *)
(* that no step takes off what was not counted.                             *)
Typed ==
  /\ pc \in [Actor -> Label \cup ShutdownLabel]
  /\ \A t \in Thread : pc[t] \in Label
  /\ target \in [Actor -> Thread \cup {NoThread}]
  /\ maker \in [Thread -> Actor \cup {NoThread}]
  /\ claimed \subseteq Thread /\ records \subseteq Thread /\ reaped \subseteq Thread
  /\ queue \in Seq(Thread)
  /\ reaper \in {"off", "idle", "join", "unrecord", "gone"}
  /\ reaping \in Thread \cup {NoThread}
  /\ stop \in BOOLEAN /\ shutdown \in BOOLEAN

LEMMA TypeStep == IInv /\ [Next]_vars => Typed'
<1> SUFFICES ASSUME IInv, [Next]_vars PROVE Typed'
  OBVIOUS
<1>1. Typed /\ Main \in Actor /\ Thread \subseteq Actor /\ Main \notin Thread
  BY ActorAssumption DEF IInv, TypeOK, Typed, Actor
<1>2. \A a \in Actor : pc[a] \in {"create", "record", "join", "unrecord", "collect"} =>
        target[a] \in Thread
  BY DEF IInv, CreateInv, JoinInv
<1>3. ASSUME NEW a \in Actor, CoreStep(a) \/ Proceed(a) PROVE Typed'
  <2>1. ASSUME NEW u \in Thread, Create(a, u) PROVE Typed'
    BY <1>1, <2>1 DEF Create, Goto, Typed, Label, detach
  <2>2. ASSUME NEW u \in Thread, Join(a, u) PROVE Typed'
    BY <1>1, <2>2 DEF Join, MayClaim, Goto, Typed, Label, detach
  <2>3. ASSUME NEW u \in Thread, Detach(a, u) PROVE Typed'
    BY <1>1, <2>3 DEF Detach, Typed, detach
  <2>4. CASE CreateSucceeds(a)
    BY <1>1, <1>2, <2>4 DEF CreateSucceeds, Typed, Label, detach
  <2>5. CASE CreateFails(a) \/ Unrecord(a)
    BY <1>1, <2>5 DEF CreateFails, Unrecord, Goto, Typed, Label, detach
  <2>6. CASE PushRecord(a)
    BY <1>1, <1>2, <2>6 DEF PushRecord, Goto, Typed, Label, detach
  <2>7. CASE JoinReturns(a)
    BY <1>1, <1>2, <2>7 DEF JoinReturns, Goto, Typed, Label, detach
  <2>8. QED  BY <1>3, <2>1, <2>2, <2>3, <2>4, <2>5, <2>6, <2>7 DEF CoreStep, Proceed
<1>4. ASSUME NEW t \in Thread, Moves(t) \/ Cleanup(t) PROVE Typed'
  <2>1. CASE Moves(t)
    BY <1>1, <2>1, MoveShape DEF Typed, Label, detach
  <2>2. CASE Cleanup(t)
    BY <1>1, <2>2 DEF Cleanup, Goto, Typed, Label, detach
  <2>3. QED  BY <1>4, <2>1, <2>2
<1>5. CASE Reaper
  <2>1. CASE ReaperTakes
    BY <1>1, <2>1 DEF ReaperTakes, Typed
  <2>2. CASE ReaperStops \/ ReaperUnrecords
    BY <1>1, <2>2 DEF ReaperStops, ReaperUnrecords, Typed
  <2>3. CASE ReaperJoins
    BY <1>1, <2>3 DEF ReaperJoins, Typed, IInv, JoinInv
  <2>4. QED  BY <1>5, <2>1, <2>2, <2>3 DEF Reaper
<1>6. CASE RequestShutdown \/ ReadActive \/ StopReaper \/ JoinReaper
  BY <1>1, <1>6 DEF RequestShutdown, ReadActive, StopReaper, JoinReaper, Goto, Typed,
     ShutdownLabel, detach
<1>7. CASE WakeAll
  BY <1>1, <1>7 DEF WakeAll, Typed, Label, ShutdownLabel, detach
<1>8. CASE TakeRecord
  BY <1>1, <1>8 DEF TakeRecord, Goto, Typed, ShutdownLabel, detach
<1>9. CASE JoinRecord
  BY <1>1, <1>2, <1>9 DEF JoinRecord, Goto, Typed, ShutdownLabel, detach
<1>10. CASE UNCHANGED vars
  BY <1>1, <1>10 DEF Typed, vars, detach
<1>11. QED
  BY <1>3, <1>4, <1>5, <1>6, <1>7, <1>8, <1>9, <1>10
  DEF Next, Leave, WaitOrReturn, Moves, ShutdownStep, CoreStep

--------------------------------------------------------------------------------
(* The count *)

Counting == Live \cup Expected

LEMMA CountingSet == Counting \in SUBSET Thread /\ Counting' \in SUBSET Thread
  BY DEF Counting, Live, Expected

(* One more, and one less.                                                  *)
LEMMA CountUp ==
  ASSUME IInv, NEW t \in Thread, t \notin Counting, Counting' = Counting \cup {t},
         active' = active + 1
  PROVE  ActiveCountExact' /\ active' \in Nat
<1>1. IsFiniteSet(Counting) /\ Cardinality(Counting') = Cardinality(Counting) + 1
  BY CountingSet, Counted, FS_AddElement
<1>2. active = Cardinality(Counting) /\ active' = Cardinality(Counting')
  BY <1>1 DEF IInv, ActiveCountExact, Counting
<1>3. Cardinality(Counting') \in Nat
  BY CountingSet, Counted
<1>4. QED  BY <1>2, <1>3 DEF ActiveCountExact, Counting

LEMMA CountDown ==
  ASSUME IInv, NEW t \in Thread, t \in Counting, Counting' = Counting \ {t},
         active' = active - 1
  PROVE  ActiveCountExact' /\ active' \in Nat
<1>1. IsFiniteSet(Counting) /\ Cardinality(Counting') = Cardinality(Counting) - 1
  BY CountingSet, Counted, FS_RemoveElement
<1>2. active = Cardinality(Counting) /\ active' = Cardinality(Counting')
  BY <1>1 DEF IInv, ActiveCountExact, Counting
<1>3. Cardinality(Counting') \in Nat
  BY CountingSet, Counted
<1>4. QED  BY <1>2, <1>3 DEF ActiveCountExact, Counting

LEMMA CountSame ==
  ASSUME IInv, Counting' = Counting, active' = active
  PROVE  ActiveCountExact' /\ active' \in Nat
  BY DEF IInv, TypeOK, ActiveCountExact, Counting

(* A step that creates nothing and ends nothing leaves the counted threads. *)
LEMMA SameCounted ==
  ASSUME \A a \in Actor : pc'[a] = "create" <=> pc[a] = "create",
         \A a \in Actor : pc[a] = "create" => target'[a] = target[a],
         \A t \in Thread :
           pc'[t] \in {"unborn", "ending", "gone"} <=> pc[t] \in {"unborn", "ending", "gone"}
  PROVE  Counting' = Counting
  BY DEF Counting, Live, Expected

(* No step miscounts, and none lets a thread have two creators.             *)
LEMMA CountStep == IInv /\ [Next]_vars => ActiveCountExact' /\ active' \in Nat /\ CreateInv'
<1> SUFFICES ASSUME IInv, [Next]_vars PROVE ActiveCountExact' /\ active' \in Nat /\ CreateInv'
  OBVIOUS
<1>1. Typed /\ CreateInv /\ Main \in Actor /\ Thread \subseteq Actor /\ Main \notin Thread
  BY ActorAssumption DEF IInv, TypeOK, Typed, Actor
<1>2. ASSUME NEW a \in Actor, NEW t \in Thread, Create(a, t)
      PROVE  ActiveCountExact' /\ active' \in Nat /\ CreateInv'
  <2>1. /\ pc[a] = "run" /\ pc[t] = "unborn" /\ a # t
        /\ pc' = [pc EXCEPT ![a] = "create"] /\ target' = [target EXCEPT ![a] = t]
        /\ \A b \in Actor : pc[b] = "create" => target[b] # t
    BY <1>2 DEF Create, Goto
  <2>2. CreateInv'
    BY <1>1, <2>1 DEF Typed, CreateInv
  <2>3. t \notin Counting
    BY <2>1 DEF Counting, Live, Expected
  <2>4. Live' = Live
    BY <1>1, <2>1 DEF Typed, Live
  <2>5. Expected' = Expected \cup {t}
    BY <1>1, <2>1 DEF Typed, Expected
  <2>6. QED  BY <1>2, <2>2, <2>3, <2>4, <2>5, CountUp DEF Create, Counting
<1>3. ASSUME NEW a \in Actor, CreateSucceeds(a)
      PROVE  ActiveCountExact' /\ active' \in Nat /\ CreateInv'
  <2> DEFINE t == target[a]
  <2>1. /\ pc[a] = "create" /\ t \in Thread /\ pc[t] = "unborn" /\ a # t
        /\ pc' = [pc EXCEPT ![a] = "record", ![t] = "run"] /\ target' = target
    BY <1>1, <1>3 DEF CreateSucceeds, CreateInv
  <2>2. CreateInv'
    BY <1>1, <2>1 DEF Typed, CreateInv
  <2>3. Live' = Live \cup {t}
    BY <1>1, <2>1 DEF Typed, Live
  <2>4. Expected' = Expected \ {t} /\ t \in Expected
    BY <1>1, <2>1 DEF Typed, Expected, CreateInv
  <2>5. QED  BY <1>3, <2>2, <2>3, <2>4, CountSame DEF CreateSucceeds, Counting
<1>4. ASSUME NEW a \in Actor, CreateFails(a)
      PROVE  ActiveCountExact' /\ active' \in Nat /\ CreateInv'
  <2> DEFINE t == target[a]
  <2>1. /\ pc[a] = "create" /\ t \in Thread /\ pc[t] = "unborn"
        /\ pc' = [pc EXCEPT ![a] = "run"] /\ target' = target
    BY <1>1, <1>4 DEF CreateFails, CreateInv, Goto
  <2>2. CreateInv'
    BY <1>1, <2>1 DEF Typed, CreateInv
  <2>3. Live' = Live /\ t \notin Live
    BY <1>1, <2>1 DEF Typed, Live
  <2>4. Expected' = Expected \ {t} /\ t \in Expected
    BY <1>1, <2>1 DEF Typed, Expected, CreateInv
  <2>5. QED  BY <1>4, <2>1, <2>2, <2>3, <2>4, CountDown DEF CreateFails, Counting
<1>5. ASSUME NEW t \in Thread, Cleanup(t)
      PROVE  ActiveCountExact' /\ active' \in Nat /\ CreateInv'
  <2>1. /\ pc[t] = "leaving" /\ pc' = [pc EXCEPT ![t] = "ending"] /\ target' = target
    BY <1>5 DEF Cleanup, Goto
  <2>2. CreateInv'
    BY <1>1, <2>1 DEF Typed, CreateInv
  <2>3. Live' = Live \ {t} /\ t \in Live
    BY <1>1, <2>1 DEF Typed, Live
  <2>4. Expected' = Expected /\ t \notin Expected
    BY <1>1, <2>1 DEF Typed, Expected, CreateInv
  <2>5. QED  BY <1>5, <2>1, <2>2, <2>3, <2>4, CountDown DEF Cleanup, Counting
<1>6. ASSUME active' = active,
             \A a \in Actor : pc'[a] = "create" <=> pc[a] = "create",
             \A a \in Actor : pc[a] = "create" => target'[a] = target[a],
             \A t \in Thread : pc'[t] = "unborn" <=> pc[t] = "unborn",
             \A t \in Thread : pc'[t] \in {"ending", "gone"} <=> pc[t] \in {"ending", "gone"}
      PROVE  ActiveCountExact' /\ active' \in Nat /\ CreateInv'
  <2>1. CreateInv'
    BY <1>1, <1>6 DEF CreateInv
  <2>2. QED  BY <1>6, <2>1, SameCounted, CountSame
<1>7. ASSUME NEW a \in Actor, NEW t \in Thread, Join(a, t) \/ Detach(a, t)
      PROVE  ActiveCountExact' /\ active' \in Nat /\ CreateInv'
  BY <1>1, <1>6, <1>7 DEF Join, Detach, MayClaim, Goto, Typed
<1>8. ASSUME NEW a \in Actor, PushRecord(a) \/ JoinReturns(a) \/ Unrecord(a)
      PROVE  ActiveCountExact' /\ active' \in Nat /\ CreateInv'
  BY <1>1, <1>6, <1>8 DEF PushRecord, JoinReturns, Unrecord, Goto, Typed
<1>9. ASSUME NEW t \in Thread, Moves(t)
      PROVE  ActiveCountExact' /\ active' \in Nat /\ CreateInv'
  <2>1. active' = active /\ target' = target
    BY <1>9, MoveShape
  <2>2. /\ \A a \in Actor : pc'[a] = "create" <=> pc[a] = "create"
        /\ \A u \in Thread : pc'[u] = "unborn" <=> pc[u] = "unborn"
        /\ \A u \in Thread : pc'[u] \in {"ending", "gone"} <=> pc[u] \in {"ending", "gone"}
    BY <1>1, <1>9, MoveShape DEF Typed
  <2>3. QED  BY <1>6, <2>1, <2>2
<1>10. CASE Reaper \/ UNCHANGED vars
  BY <1>1, <1>6, <1>10 DEF Reaper, ReaperTakes, ReaperStops, ReaperJoins, ReaperUnrecords, vars
<1>11. CASE RequestShutdown \/ ShutdownStep
  <2>1. CASE RequestShutdown \/ ReadActive \/ StopReaper \/ JoinReaper \/ JoinRecord
    BY <1>1, <1>6, <2>1 DEF RequestShutdown, ReadActive, StopReaper, JoinReaper, JoinRecord,
       Goto, Typed
  <2>2. CASE WakeAll
    BY <1>1, <1>6, <2>2 DEF WakeAll, Typed
  <2>3. CASE TakeRecord
    BY <1>1, <1>6, <2>3 DEF TakeRecord, Goto, Typed
  <2>4. QED  BY <1>11, <2>1, <2>2, <2>3 DEF ShutdownStep
<1>12. QED
  BY <1>2, <1>3, <1>4, <1>5, <1>7, <1>8, <1>9, <1>10, <1>11
  DEF Next, CoreStep, Proceed, Leave, WaitOrReturn, Moves

--------------------------------------------------------------------------------
(* Joins and the end *)

(* No step loses a thread: a record is dropped only when its thread was     *)
(* joined, or by pthr_shutdown, which joins it next.                        *)
LEMMA JoinStep == IInv /\ [Next]_vars => JoinInv'
<1> SUFFICES ASSUME IInv, [Next]_vars PROVE JoinInv'
  OBVIOUS
<1>1. /\ Typed /\ CreateInv /\ JoinInv
      /\ Main \in Actor /\ Thread \subseteq Actor /\ Main \notin Thread
  BY ActorAssumption DEF IInv, TypeOK, Typed, Actor
<1>2. ASSUME NEW a \in Actor, NEW t \in Thread, Create(a, t) PROVE JoinInv'
  BY <1>1, <1>2 DEF Create, Goto, detach, Typed, JoinInv
<1>3. ASSUME NEW a \in Actor, NEW t \in Thread, Join(a, t) PROVE JoinInv'
  BY <1>1, <1>3 DEF Join, MayClaim, Goto, detach, Typed, JoinInv
<1>4. ASSUME NEW a \in Actor, NEW t \in Thread, Detach(a, t) PROVE JoinInv'
  BY <1>1, <1>4 DEF Detach, Typed, JoinInv
<1>5. ASSUME NEW a \in Actor, CreateSucceeds(a) PROVE JoinInv'
  <2>1. target[a] \in Thread /\ pc[target[a]] = "unborn" /\ a # target[a]
    BY <1>1, <1>5 DEF CreateSucceeds, CreateInv
  <2>2. QED
    BY <1>1, <1>5, <2>1 DEF CreateSucceeds, detach, Typed, JoinInv
<1>6. ASSUME NEW a \in Actor, CreateFails(a) PROVE JoinInv'
  BY <1>1, <1>6 DEF CreateFails, Goto, detach, Typed, JoinInv
<1>7. ASSUME NEW a \in Actor, PushRecord(a) PROVE JoinInv'
  BY <1>1, <1>7 DEF PushRecord, Goto, detach, Typed, JoinInv
<1>8. ASSUME NEW a \in Actor, JoinReturns(a) PROVE JoinInv'
  BY <1>1, <1>8 DEF JoinReturns, Goto, detach, Typed, JoinInv
<1>9. ASSUME NEW a \in Actor, Unrecord(a) PROVE JoinInv'
  BY <1>1, <1>9 DEF Unrecord, Goto, detach, Typed, JoinInv
<1>10. ASSUME NEW t \in Thread, Moves(t) PROVE JoinInv'
  BY <1>1, <1>10, MoveShape DEF detach, Typed, JoinInv
<1>11. ASSUME NEW t \in Thread, Cleanup(t) PROVE JoinInv'
  BY <1>1, <1>11 DEF Cleanup, Goto, detach, Typed, JoinInv
<1>12. CASE ReaperTakes
  <2>1. Head(queue) \in Thread
    BY <1>1, <1>12 DEF ReaperTakes, Typed
  <2>2. QED  BY <1>1, <1>12, <2>1 DEF ReaperTakes, JoinInv
<1>13. CASE ReaperStops \/ ReaperJoins \/ ReaperUnrecords
  BY <1>1, <1>13 DEF ReaperStops, ReaperJoins, ReaperUnrecords, JoinInv
<1>14. CASE RequestShutdown \/ ReadActive \/ StopReaper \/ JoinReaper
  BY <1>1, <1>14 DEF RequestShutdown, ReadActive, StopReaper, JoinReaper, Goto, detach, Typed,
     JoinInv
<1>15. CASE WakeAll
  BY <1>1, <1>15 DEF WakeAll, detach, Typed, JoinInv
<1>16. CASE TakeRecord
  BY <1>1, <1>16 DEF TakeRecord, Goto, detach, Typed, JoinInv
<1>17. CASE JoinRecord
  BY <1>1, <1>17 DEF JoinRecord, Goto, detach, Typed, JoinInv
<1>18. CASE UNCHANGED vars
  BY <1>1, <1>18 DEF vars, detach, JoinInv
<1>19. QED
  BY <1>2, <1>3, <1>4, <1>5, <1>6, <1>7, <1>8, <1>9, <1>10, <1>11, <1>12, <1>13, <1>14, <1>15,
     <1>16, <1>17, <1>18
  DEF Next, CoreStep, Proceed, Leave, WaitOrReturn, Moves, Reaper, ShutdownStep

(* A count of zero is the last word: nobody is left to create or to wait.   *)
LEMMA QuietStep == IInv /\ [Next]_vars => QuietInv'
<1> SUFFICES ASSUME IInv, [Next]_vars PROVE QuietInv'
  OBVIOUS
<1>1. /\ Typed /\ CreateInv /\ QuietInv
      /\ Main \in Actor /\ Actor = Thread \cup {Main} /\ Main \notin Thread
  BY ActorAssumption DEF IInv, TypeOK, Typed, Actor
<1>2. ASSUME NEW a \in Actor, CoreStep(a) \/ Proceed(a) PROVE QuietInv'
  <2>1. pc[a] \in {"run", "create", "record", "join", "unrecord"}
    BY <1>2 DEF CoreStep, Proceed, Create, Join, Detach, MayClaim, CreateSucceeds, CreateFails,
       PushRecord, JoinReturns, Unrecord
  <2>2. pc[Main] \notin {"stop", "await", "take", "collect", "done"}
    BY <1>1, <2>1 DEF QuietInv
  <2>3. a # Main => pc'[Main] = pc[Main]
    <3>1. ASSUME NEW t \in Thread, Create(a, t) \/ Join(a, t) \/ Detach(a, t), a # Main
          PROVE  pc'[Main] = pc[Main]
      BY <1>1, <3>1 DEF Create, Join, Detach, Goto, Typed
    <3>2. ASSUME Proceed(a), a # Main PROVE pc'[Main] = pc[Main]
      BY <1>1, <3>2 DEF Proceed, CreateSucceeds, CreateFails, PushRecord, JoinReturns, Unrecord,
         Goto, CreateInv, Typed
    <3>3. QED  BY <1>2, <3>1, <3>2 DEF CoreStep
  <2>4. a = Main => pc'[Main] \in {"run", "create", "record", "join", "unrecord"}
    <3>1. ASSUME NEW t \in Thread, Create(a, t) \/ Join(a, t) \/ Detach(a, t), a = Main
          PROVE  pc'[Main] \in {"run", "create", "join"}
      BY <1>1, <3>1 DEF Create, Join, Detach, MayClaim, Goto, Typed
    <3>2. ASSUME Proceed(a), a = Main PROVE pc'[Main] \in {"run", "record", "unrecord"}
      BY <1>1, <3>2 DEF Proceed, CreateSucceeds, CreateFails, PushRecord, JoinReturns, Unrecord,
         Goto, CreateInv, Typed
    <3>3. QED  BY <1>2, <3>1, <3>2 DEF CoreStep
  <2>5. QED  BY <2>2, <2>3, <2>4 DEF QuietInv
<1>3. ASSUME NEW t \in Thread, Moves(t) PROVE QuietInv'
  BY <1>1, <1>3, MoveShape DEF Typed, QuietInv
<1>4. ASSUME NEW t \in Thread, Cleanup(t) PROVE QuietInv'
  BY <1>1, <1>4 DEF Cleanup, Goto, Typed, QuietInv
<1>5. CASE Reaper
  <2>1. pc' = pc /\ records' \subseteq records
    BY <1>5 DEF Reaper, ReaperTakes, ReaperStops, ReaperJoins, ReaperUnrecords
  <2>2. QED  BY <1>1, <2>1 DEF QuietInv
<1>6. CASE RequestShutdown
  BY <1>1, <1>6 DEF RequestShutdown, Goto, Typed, QuietInv
<1>7. CASE WakeAll
  BY <1>1, <1>7 DEF WakeAll, Typed, QuietInv
<1>8. CASE ReadActive
  <2>1. ASSUME active = 0 PROVE \A t \in Thread : pc[t] \in {"unborn", "ending", "gone"}
    <3>1. IsFiniteSet(Counting) /\ Cardinality(Counting) = 0
      BY <2>1, CountingSet, Counted DEF IInv, ActiveCountExact, Counting
    <3>2. Counting = {}
      BY <3>1, FS_EmptySet
    <3>3. QED  BY <3>2 DEF Counting, Live
  <2>2. \A t \in Thread : pc'[t] = pc[t]
    BY <1>1, <1>8 DEF ReadActive, Goto, Typed
  <2>3. pc'[Main] = "stop" => active = 0
    BY <1>1, <1>8 DEF ReadActive, Goto, Typed
  <2>4. pc'[Main] \in {"stop", "wake"}
    BY <1>1, <1>8 DEF ReadActive, Goto, Typed
  <2>5. QED  BY <2>1, <2>2, <2>3, <2>4 DEF QuietInv
<1>9. CASE StopReaper \/ JoinReaper
  BY <1>1, <1>9 DEF StopReaper, JoinReaper, Goto, Typed, QuietInv
<1>10. CASE TakeRecord
  BY <1>1, <1>10 DEF TakeRecord, Goto, Typed, QuietInv
<1>11. CASE JoinRecord
  BY <1>1, <1>11 DEF JoinRecord, Goto, Typed, QuietInv
<1>12. CASE UNCHANGED vars
  BY <1>1, <1>12 DEF vars, QuietInv
<1>13. QED
  BY <1>2, <1>3, <1>4, <1>5, <1>6, <1>7, <1>8, <1>9, <1>10, <1>11, <1>12
  DEF Next, Leave, WaitOrReturn, Moves, ShutdownStep

(* The strengthened invariant holds.                                        *)
LEMMA IInvHolds == Spec => []IInv
<1>1. IInv /\ [Next]_vars => IInv'
  BY TypeStep, CountStep, JoinStep, QuietStep DEF IInv, TypeOK, Typed
<1>2. QED  BY InitIInv, <1>1, PTL DEF Spec

--------------------------------------------------------------------------------
(* The theorems *)

(* The state of the threads, the reaper and pthr_shutdown is well typed.    *)
THEOREM ThreadsTypeCorrect == Spec => []TypeOK
<1>1. IInv => TypeOK
  BY DEF IInv
<1>2. QED  BY IInvHolds, <1>1, PTL

(* active_core_threads is the number of threads being created or alive.     *)
THEOREM CountIsExact == Spec => []ActiveCountExact
<1>1. IInv => ActiveCountExact
  BY DEF IInv
<1>2. QED  BY IInvHolds, <1>1, PTL

(* When pthr_shutdown returns, each thread ever created has ended and has   *)
(* been joined, also when threads detach themselves.                        *)
THEOREM ShutdownCollectsAll == Spec => []ShutdownLeavesNoThread
<1>1. IInv => ShutdownLeavesNoThread
  <2> SUFFICES ASSUME IInv, pc[Main] = "done", NEW t \in Thread, pc[t] # "unborn"
               PROVE  pc[t] = "gone" /\ t \in reaped
    BY DEF ShutdownLeavesNoThread
  <2>1. records = {} /\ \A u \in Thread : pc[u] \in {"unborn", "ending", "gone"}
    BY DEF IInv, QuietInv
  <2>2. \A a \in Actor : pc[a] \notin {"record", "collect"}
    BY <2>1 DEF Actor
  <2>3. t \in reaped
    BY <2>1, <2>2 DEF IInv, JoinInv
  <2>4. QED  BY <2>3 DEF IInv, JoinInv
<1>2. QED  BY IInvHolds, <1>1, PTL

--------------------------------------------------------------------------------
(* Records of joined threads *)

(* Without self-detachment claims come after the record, and joins after    *)
(* the claim.                                                               *)
LEMMA ClaimStep == ~SelfDetach /\ IInv /\ ClaimInv /\ [Next]_vars => ClaimInv'
<1> SUFFICES ASSUME ~SelfDetach, IInv, ClaimInv, [Next]_vars PROVE ClaimInv'
  OBVIOUS
<1>1. /\ Typed /\ CreateInv /\ JoinInv /\ QuietInv
      /\ Main \in Actor /\ Actor = Thread \cup {Main} /\ Main \notin Thread
      /\ NoThread \notin Actor
  BY ActorAssumption DEF IInv, TypeOK, Typed, Actor
<1>2. ASSUME NEW a \in Actor, NEW t \in Thread, Create(a, t) PROVE ClaimInv'
  BY <1>1, <1>2 DEF Create, Goto, detach, Typed, ClaimInv
<1>3. ASSUME NEW a \in Actor, NEW t \in Thread, Join(a, t) PROVE ClaimInv'
  <2>1. pc[t] # "unborn" /\ \A b \in Actor : pc[b] = "record" => target[b] # t
    BY <1>1, <1>3 DEF Join, MayClaim, ClaimInv
  <2>2. QED  BY <1>1, <1>3, <2>1 DEF Join, MayClaim, Goto, detach, Typed, ClaimInv
<1>4. ASSUME NEW a \in Actor, NEW t \in Thread, Detach(a, t) PROVE ClaimInv'
  <2>1. pc[t] # "unborn" /\ \A b \in Actor : pc[b] = "record" => target[b] # t
    BY <1>1, <1>4 DEF Detach, MayClaim, ClaimInv
  <2>2. pc[Main] \notin {"take", "collect", "done"}
    BY <1>1, <1>4 DEF Detach, MayClaim, QuietInv
  <2>3. \A i \in 1 .. Len(queue') : queue'[i] \in claimed'
    <3>1. /\ queue \in Seq(Thread) /\ queue' = Append(queue, t)
          /\ claimed' = claimed \cup {t}
      BY <1>1, <1>4 DEF Detach, Typed
    <3>2. \A i \in 1 .. Len(queue) : queue[i] \in claimed
      BY DEF ClaimInv
    <3>3. QED  BY <3>1, <3>2
  <2>4. reaper' \in {"join", "unrecord"} <=> reaper \in {"join", "unrecord"}
    BY <1>4 DEF Detach
  <2>5. reaper' = "unrecord" <=> reaper = "unrecord"
    BY <1>4 DEF Detach
  <2>6. QED  BY <1>1, <1>4, <2>1, <2>2, <2>3, <2>4, <2>5 DEF Detach, Typed, ClaimInv
<1>5. ASSUME NEW a \in Actor, CreateSucceeds(a) PROVE ClaimInv'
  <2>1. /\ target[a] \in Thread /\ pc[target[a]] = "unborn" /\ a # target[a]
        /\ target[a] \notin claimed
        /\ \A b \in Actor : pc[b] = "record" => target[b] # target[a]
    BY <1>1, <1>5 DEF CreateSucceeds, CreateInv, ClaimInv
  <2>2. /\ pc[a] = "create" /\ pc' = [pc EXCEPT ![a] = "record", ![target[a]] = "run"]
        /\ maker' = [maker EXCEPT ![target[a]] = a]
        /\ UNCHANGED <<target, claimed, records, queue, reaper, reaping, reaped>>
    BY <1>5 DEF CreateSucceeds, detach
  <2>3. pc'[Main] \in {"take", "collect", "done"} <=> pc[Main] \in {"take", "collect", "done"}
    BY <1>1, <2>1, <2>2 DEF Typed
  <2>4. pc'[Main] = "collect" <=> pc[Main] = "collect"
    BY <1>1, <2>1, <2>2 DEF Typed
  <2>5. \A b \in Actor : pc'[b] = "record" => maker'[target[b]] = b /\ target[b] \notin claimed
    BY <1>1, <2>1, <2>2 DEF Typed, ClaimInv
  <2>6. /\ \A b \in Actor : pc'[b] = "join" <=> pc[b] = "join"
        /\ \A b \in Actor : pc'[b] = "unrecord" <=> pc[b] = "unrecord"
        /\ \A t \in Thread : pc[t] # "unborn" => pc'[t] # "unborn"
        /\ \A t \in Thread : pc'[t] = "unborn" => maker'[t] = NoThread
    BY <1>1, <2>1, <2>2 DEF Typed, ClaimInv
  <2>7. QED  BY <1>1, <2>2, <2>3, <2>4, <2>5, <2>6 DEF Typed, ClaimInv
<1>6. ASSUME NEW a \in Actor, CreateFails(a) PROVE ClaimInv'
  BY <1>1, <1>6 DEF CreateFails, Goto, detach, Typed, ClaimInv
<1>7. ASSUME NEW a \in Actor, PushRecord(a) PROVE ClaimInv'
  <2>1. pc[Main] \notin {"take", "collect", "done"} /\ target[a] \notin reaped
    BY <1>1, <1>7 DEF PushRecord, QuietInv, ClaimInv
  <2>2. QED  BY <1>1, <1>7, <2>1 DEF PushRecord, Goto, detach, Typed, ClaimInv
<1>8. ASSUME NEW a \in Actor, JoinReturns(a) PROVE ClaimInv'
  <2>1. pc[Main] \notin {"take", "collect", "done"} /\ target[a] \in claimed
    BY <1>1, <1>8 DEF JoinReturns, QuietInv, ClaimInv
  <2>2. QED  BY <1>1, <1>8, <2>1 DEF JoinReturns, Goto, detach, Typed, ClaimInv
<1>9. ASSUME NEW a \in Actor, Unrecord(a) PROVE ClaimInv'
  <2>1. pc[Main] \notin {"take", "collect", "done"}
    BY <1>1, <1>9 DEF Unrecord, QuietInv
  <2>2. QED  BY <1>1, <1>9, <2>1 DEF Unrecord, Goto, detach, Typed, ClaimInv
<1>10. ASSUME NEW t \in Thread, Moves(t) PROVE ClaimInv'
  BY <1>1, <1>10, MoveShape DEF detach, Typed, ClaimInv
<1>11. ASSUME NEW t \in Thread, Cleanup(t) PROVE ClaimInv'
  BY <1>1, <1>11 DEF Cleanup, Goto, detach, Typed, ClaimInv
<1>12. CASE ReaperTakes
  <2>1. /\ queue # <<>> /\ queue \in Seq(Thread)
        /\ reaping' = queue[1] /\ 1 \in 1 .. Len(queue)
        /\ \A i \in 1 .. Len(queue') : queue'[i] = queue[i + 1] /\ i + 1 \in 1 .. Len(queue)
    BY <1>1, <1>12 DEF ReaperTakes, Typed
  <2>2. QED  BY <1>1, <1>12, <2>1 DEF ReaperTakes, ClaimInv
<1>13. CASE ReaperStops \/ ReaperJoins
  BY <1>1, <1>13 DEF ReaperStops, ReaperJoins, ClaimInv
<1>14. CASE ReaperUnrecords
  BY <1>1, <1>14 DEF ReaperUnrecords, ClaimInv
<1>15. CASE RequestShutdown \/ ReadActive \/ StopReaper
  BY <1>1, <1>15 DEF RequestShutdown, ReadActive, StopReaper, Goto, detach, Typed, ClaimInv
<1>16. CASE JoinReaper
  BY <1>1, <1>16 DEF JoinReaper, Goto, detach, Typed, ClaimInv
<1>17. CASE WakeAll
  BY <1>1, <1>17 DEF WakeAll, detach, Typed, ClaimInv
<1>18. CASE TakeRecord
  <2>1. records \cap reaped = {}
    BY <1>1, <1>18 DEF TakeRecord, QuietInv, ClaimInv
  <2>2. QED  BY <1>1, <1>18, <2>1 DEF TakeRecord, Goto, detach, Typed, ClaimInv
<1>19. CASE JoinRecord
  BY <1>1, <1>19 DEF JoinRecord, Goto, detach, Typed, ClaimInv
<1>20. CASE UNCHANGED vars
  BY <1>1, <1>20 DEF vars, detach, ClaimInv
<1>21. QED
  BY <1>2, <1>3, <1>4, <1>5, <1>6, <1>7, <1>8, <1>9, <1>10, <1>11, <1>12, <1>13, <1>14, <1>15,
     <1>16, <1>17, <1>18, <1>19, <1>20
  DEF Next, CoreStep, Proceed, Leave, WaitOrReturn, Moves, Reaper, ShutdownStep

(* pthr_shutdown joins no thread that the core or the reaper has joined,    *)
(* if no thread detaches itself.                                            *)
THEOREM NoneJoinedTwice ==
  ASSUME ~SelfDetach
  PROVE  Spec => []RecordsAreUnjoined
<1>1. Init => ClaimInv
  <2> SUFFICES ASSUME Init PROVE ClaimInv
    OBVIOUS
  <2>1. \A a \in Actor : pc[a] \in {"run", "unborn"}
    BY DEF Init
  <2>2. Main \in Actor /\ pc[Main] = "run"
    BY DEF Init, Actor
  <2>3. queue = <<>> /\ reaper = "off" /\ claimed = {} /\ reaped = {}
    BY DEF Init
  <2>4. \A t \in Thread : maker[t] = NoThread
    BY DEF Init
  <2>5. QED  BY <2>1, <2>2, <2>3, <2>4 DEF ClaimInv
<1>2. IInv /\ ClaimInv => RecordsAreUnjoined
  <2> SUFFICES ASSUME IInv, ClaimInv, pc[Main] \in {"take", "collect"}
               PROVE  /\ records \cap reaped = {}
                      /\ pc[Main] = "collect" => target[Main] \notin reaped
    BY DEF RecordsAreUnjoined
  <2>1. \A a \in Actor : pc[a] # "unrecord"
    BY DEF IInv, QuietInv, Actor
  <2>2. QED  BY <2>1 DEF ClaimInv
<1>3. IInv /\ ClaimInv /\ [Next]_vars => ClaimInv'
  BY ClaimStep
<1>4. QED  BY IInvHolds, <1>1, <1>2, <1>3, PTL DEF Spec

(* pthr_shutdown collects every thread and none a second time, if no thread  *)
(* detaches itself.                                                          *)
THEOREM ShutdownClean ==
  ASSUME ~SelfDetach
  PROVE  Spec => []ShutdownIsClean
<1>1. ShutdownLeavesNoThread /\ RecordsAreUnjoined => ShutdownIsClean
  BY DEF ShutdownIsClean
<1>2. Spec => []RecordsAreUnjoined
  BY NoneJoinedTwice
<1>3. QED  BY ShutdownCollectsAll, <1>1, <1>2, PTL

--------------------------------------------------------------------------------
(* The once controls, for any threads and controls.                         *)

(* The controls whose initialiser a thread is in.                           *)
Inside(t) == {i \in 1 .. Len(stack[t]) : i > 1 \/ at[t] \in {"run", "exited"}}

(* What the properties rest on: a control's state says how often its        *)
(* initialiser was started and whether it has returned, and a thread is in  *)
(* an initialiser only if it was started.                                   *)
OnceInv ==
  /\ state \in [O!Control -> {"init", "running", "done"}]
  /\ stack \in [OnceThread -> Seq(O!Control)]
  /\ at \in [OnceThread -> {"run", "enter", "waiting", "exited"}]
  /\ ran = [k \in O!Control |-> IF state[k] = "init" THEN 0 ELSE 1]
  /\ \A k \in O!Control : state[k] = "done" => k \in finished
  /\ \A t \in OnceThread : at[t] \in {"enter", "waiting"} => stack[t] # <<>>
  /\ \A t \in OnceThread : \A i \in Inside(t) : state[stack[t][i]] # "init"

(* Nothing has been called.                                                 *)
LEMMA OnceInit == O!Init => OnceInv
  BY DEF O!Init, OnceInv, Inside

(* The innermost control of a call is a control.                            *)
LEMMA HeadTyped ==
  ASSUME NEW s \in Seq(O!Control), s # <<>>
  PROVE  Head(s) \in O!Control /\ Tail(s) \in Seq(O!Control)
  OBVIOUS

(* A call nests one deeper: the controls below keep their order.            *)
LEMMA PushedIndices ==
  ASSUME NEW s \in Seq(O!Control), NEW k \in O!Control
  PROVE  /\ <<k>> \o s \in Seq(O!Control) /\ <<k>> \o s # <<>>
         /\ Len(<<k>> \o s) = Len(s) + 1
         /\ \A i \in 2 .. Len(s) + 1 : (<<k>> \o s)[i] = s[i - 1]
  OBVIOUS

LEMMA PoppedIndices ==
  ASSUME NEW s \in Seq(O!Control), s # <<>>
  PROVE  /\ Len(Tail(s)) = Len(s) - 1
         /\ \A i \in 1 .. Len(s) - 1 : Tail(s)[i] = s[i + 1]
  OBVIOUS

(* Every step keeps the strengthened invariant.                             *)
LEMMA OnceStep == OnceInv /\ [O!Next]_(O!vars) => OnceInv'
<1> SUFFICES ASSUME OnceInv, [O!Next]_(O!vars) PROVE OnceInv'
  OBVIOUS
<1> USE DEF OnceInv
<1>1. ASSUME NEW t \in OnceThread, NEW k \in O!Control, O!Call(t, k) PROVE OnceInv'
  <2>1. /\ stack'[t] = <<k>> \o stack[t] /\ at[t] = "run" /\ at'[t] = "enter"
        /\ \A u \in OnceThread \ {t} : stack'[u] = stack[u] /\ at'[u] = at[u]
        /\ state' = state /\ ran' = ran /\ finished' = finished
        /\ stack' \in [OnceThread -> Seq(O!Control)]
        /\ at' \in [OnceThread -> {"run", "enter", "waiting", "exited"}]
    BY <1>1, PushedIndices DEF O!Call
  <2>2. ASSUME NEW u \in OnceThread, NEW i \in Inside(u)' PROVE state'[stack'[u][i]] # "init"
    <3>1. CASE u = t
      <4>1. i \in 2 .. Len(stack[t]) + 1
        BY <2>1, <2>2, <3>1, PushedIndices DEF Inside
      <4>2. i - 1 \in Inside(t) /\ stack'[t][i] = stack[t][i - 1]
        BY <2>1, <4>1, PushedIndices DEF Inside
      <4>3. QED  BY <2>1, <3>1, <4>2
    <3>2. CASE u # t
      BY <2>1, <2>2, <3>2 DEF Inside
    <3>3. QED  BY <3>1, <3>2
  <2>3. \A u \in OnceThread : at'[u] \in {"enter", "waiting"} => stack'[u] # <<>>
    BY <2>1, PushedIndices
  <2>4. QED  BY <2>1, <2>2, <2>3
<1>2. ASSUME NEW t \in OnceThread, O!EnterDone(t) PROVE OnceInv'
  <2>1. /\ stack'[t] = Tail(stack[t]) /\ at'[t] = "run" /\ stack[t] # <<>>
        /\ stack[t] \in Seq(O!Control)
        /\ \A u \in OnceThread \ {t} : stack'[u] = stack[u] /\ at'[u] = at[u]
        /\ state' = state /\ ran' = ran /\ finished' = finished
        /\ stack' \in [OnceThread -> Seq(O!Control)]
        /\ at' \in [OnceThread -> {"run", "enter", "waiting", "exited"}]
    BY <1>2, HeadTyped DEF O!EnterDone
  <2>2. ASSUME NEW u \in OnceThread, NEW i \in Inside(u)' PROVE state'[stack'[u][i]] # "init"
    <3>1. CASE u = t
      <4>1. i \in 1 .. Len(stack[t]) - 1
        BY <2>1, <2>2, <3>1, PoppedIndices DEF Inside
      <4>2. i + 1 \in Inside(t) /\ stack'[t][i] = stack[t][i + 1]
        BY <2>1, <4>1, PoppedIndices DEF Inside
      <4>3. state[stack[t][i + 1]] # "init"
        BY <4>2
      <4>4. QED  BY <2>1, <3>1, <4>2, <4>3
    <3>2. CASE u # t
      BY <2>1, <2>2, <3>2 DEF Inside
    <3>3. QED  BY <3>1, <3>2
  <2>3. QED  BY <2>1, <2>2
<1>3. ASSUME NEW t \in OnceThread, O!EnterFirst(t) PROVE OnceInv'
  <2>1. PICK k \in O!Control : k = Head(stack[t]) /\ k = stack[t][1]
    BY <1>3, HeadTyped DEF O!EnterFirst
  <2>2. /\ state[k] = "init" /\ state' = [state EXCEPT ![k] = "running"]
        /\ ran' = [ran EXCEPT ![k] = ran[k] + 1]
        /\ stack' = stack /\ finished' = finished /\ at' = [at EXCEPT ![t] = "run"]
    BY <1>3, <2>1 DEF O!EnterFirst
  <2>3. \A u \in OnceThread : \A i \in Inside(u)' : state'[stack'[u][i]] # "init"
    <3> SUFFICES ASSUME NEW u \in OnceThread, NEW i \in Inside(u)'
                 PROVE  state'[stack'[u][i]] # "init"
      OBVIOUS
    <3>1. stack[u] \in Seq(O!Control) /\ i \in 1 .. Len(stack[u]) /\ stack[u][i] \in O!Control
      BY <2>2 DEF Inside
    <3>2. i \in Inside(u) \/ (u = t /\ i = 1)
      BY <2>2, <3>1 DEF Inside
    <3>3. QED  BY <2>1, <2>2, <3>1, <3>2
  <2>4. ran' = [j \in O!Control |-> IF state'[j] = "init" THEN 0 ELSE 1]
    BY <2>2
  <2>5. QED  BY <2>2, <2>3, <2>4
<1>4. ASSUME NEW t \in OnceThread, O!EnterWaits(t) PROVE OnceInv'
  BY <1>4, HeadTyped DEF O!EnterWaits, Inside
<1>5. ASSUME NEW t \in OnceThread, O!InitialiserReturns(t) PROVE OnceInv'
  <2>1. PICK k \in O!Control : k = Head(stack[t]) /\ k = stack[t][1]
    BY <1>5, HeadTyped DEF O!InitialiserReturns, O!Initialising
  <2>2. /\ at[t] = "run" /\ stack[t] # <<>> /\ stack[t] \in Seq(O!Control)
        /\ state' = [state EXCEPT ![k] = "done"]
        /\ finished' = finished \cup {k}
        /\ ran' = ran
        /\ stack'[t] = Tail(stack[t])
        /\ \A u \in OnceThread \ {t} : stack'[u] = stack[u]
        /\ \A u \in OnceThread : at'[u] = IF at[u] = "waiting" THEN "enter" ELSE at[u]
        /\ stack' \in [OnceThread -> Seq(O!Control)]
        /\ at' \in [OnceThread -> {"run", "enter", "waiting", "exited"}]
    BY <1>5, <2>1, HeadTyped DEF O!InitialiserReturns, O!Initialising
  <2>3. state[k] # "init"
    <3>1. 1 \in Inside(t)
      BY <2>2 DEF Inside
    <3>2. QED  BY <2>1, <3>1
  <2>4. ASSUME NEW u \in OnceThread, NEW i \in Inside(u)' PROVE state'[stack'[u][i]] # "init"
    <3>1. PICK j \in Inside(u) : stack'[u][i] = stack[u][j]
      <4>1. CASE u = t
        <5>1. i \in 1 .. Len(stack[t]) - 1
          BY <2>2, <2>4, <4>1, PoppedIndices DEF Inside
        <5>2. i + 1 \in Inside(t) /\ stack'[t][i] = stack[t][i + 1]
          BY <2>2, <5>1, PoppedIndices DEF Inside
        <5>3. QED  BY <4>1, <5>2
      <4>2. CASE u # t
        BY <2>2, <2>4, <4>2 DEF Inside
      <4>3. QED  BY <4>1, <4>2
    <3>2. stack[u] \in Seq(O!Control) /\ stack[u][j] \in O!Control
      BY DEF Inside
    <3>3. QED  BY <2>2, <3>1, <3>2
  <2>5. ran' = [j \in O!Control |-> IF state'[j] = "init" THEN 0 ELSE 1]
    BY <2>2, <2>3
  <2>6. \A u \in OnceThread : at'[u] \in {"enter", "waiting"} => stack'[u] # <<>>
    BY <2>2
  <2>7. \A j \in O!Control : state'[j] = "done" => j \in finished'
    BY <2>2
  <2>8. QED  BY <2>2, <2>4, <2>5, <2>6, <2>7
<1>6. ASSUME NEW t \in OnceThread, O!Exit(t) PROVE OnceInv'
  BY <1>6 DEF O!Exit, Inside
<1>7. CASE O!Shutdown
  BY <1>7 DEF O!Shutdown, Inside
<1>8. CASE UNCHANGED O!vars
  BY <1>8 DEF O!vars, Inside
<1>9. QED
  BY <1>1, <1>2, <1>3, <1>4, <1>5, <1>6, <1>7, <1>8 DEF O!Next, O!Enter

(* An initialiser is started at most once (pthread_once_soloader marks it   *)
(* as running before it gives the lock back).                               *)
THEOREM RunsOnce == O!Spec => []O!InitialisedOnce
<1>1. OnceInv => O!InitialisedOnce
  BY DEF OnceInv, O!InitialisedOnce
<1>2. QED  BY OnceInit, OnceStep, <1>1, PTL DEF O!Spec

(* No call returns before the initialiser has: the caller found DONE under  *)
(* the lock, or ran the initialiser itself.                                 *)
THEOREM NobodyEarly == O!Spec => O!ReturnsAfterInitialiser
<1>1. OnceInv /\ [O!Next]_(O!vars) =>
        [\A t \in OnceThread, k \in O!Control : O!Returns(t, k) => k \in finished']_(O!vars)
  <2> SUFFICES ASSUME OnceInv, O!Next, NEW t \in OnceThread, NEW k \in O!Control, O!Returns(t, k)
               PROVE  k \in finished'
    OBVIOUS
  <2> USE DEF OnceInv
  <2>1. stack[t] \in Seq(O!Control) /\ stack[t] # <<>> /\ Head(stack[t]) = k
        /\ stack'[t] = Tail(stack[t]) /\ stack'[t] # stack[t]
    BY DEF O!Returns
  <2>2. ASSUME NEW u \in OnceThread, NEW j \in O!Control, O!Call(u, j) PROVE FALSE
    <3>1. CASE u = t
      <4>1. stack'[t] = <<j>> \o stack[t]
        BY <2>2, <3>1 DEF O!Call
      <4>2. Len(stack'[t]) = Len(stack[t]) + 1
        BY <2>1, <4>1
      <4>3. Len(stack'[t]) = Len(stack[t]) - 1
        BY <2>1
      <4>4. QED  BY <2>1, <4>2, <4>3
    <3>2. CASE u # t
      BY <2>1, <2>2, <3>2 DEF O!Call
    <3>3. QED  BY <3>1, <3>2
  <2>3. ASSUME NEW u \in OnceThread, O!EnterDone(u) PROVE k \in finished'
    BY <2>1, <2>3 DEF O!EnterDone
  <2>4. ASSUME NEW u \in OnceThread, O!InitialiserReturns(u) PROVE k \in finished'
    BY <2>1, <2>4 DEF O!InitialiserReturns
  <2>5. ASSUME NEW u \in OnceThread, O!EnterFirst(u) \/ O!EnterWaits(u) \/ O!Exit(u) PROVE FALSE
    BY <2>1, <2>5 DEF O!EnterFirst, O!EnterWaits, O!Exit
  <2>6. CASE O!Shutdown
    BY <2>1, <2>6 DEF O!Shutdown
  <2>7. QED  BY <2>2, <2>3, <2>4, <2>5, <2>6 DEF O!Next, O!Enter
<1>2. QED  BY OnceInit, OnceStep, <1>1, PTL DEF O!Spec, O!ReturnsAfterInitialiser
================================================================================
