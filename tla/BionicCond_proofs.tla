---------------------------- MODULE BionicCond_proofs ----------------------------
(***************************************************************************)
(* Proofs about BionicCond, for any number of workers and notifiers: its   *)
(* types, that sleepers and the shutdown broadcast use the current host    *)
(* objects, and that a notified screen is not slept over.                  *)
(***************************************************************************)
EXTENDS BionicCond, FiniteSetTheorems, TLAPS

Bare == {c \in Cond : ~magic[c]}

(* A call past its first step uses an initialised condition, which has an   *)
(* object; a waiter's call is for its own condition.                        *)
ObjectInv ==
  /\ \A c \in Cond : magic[c] <=> real[c] # 0
  /\ \A a \in Thread : pc[a] \in {"ready", "wake", "park", "asleep"} => magic[on[a]]
  /\ \A a \in Thread : pc[a] # "idle" => on[a] \in Cond
  /\ \A w \in Waiter : pc[w] # "idle" => on[w] = Home(w)
  /\ objects + Cardinality(Bare) <= MaxObjects

(* A noticed screen is latched until the wait that consumes the latch       *)
(* returns; only the screen's condition is ever captured, and the main      *)
(* thread looks for no data before it waits.                                *)
NoticeInv ==
  /\ frameSync \in {NoCond, Frame}
  /\ noticed => frameSync = Frame /\ (latched \/ pc[Screen] = "returned")
  /\ due /\ pc[Screen] \in {"check", "create", "ready"} => noticed
  /\ pc[Screen] \in {"park", "asleep"} => ~due
  /\ pc[Screen] # "test"

IInv ==
  /\ TypeOK /\ ObjectInv /\ NoticeInv
  /\ SleepersOnCurrentObject /\ BroadcastReachesAll

--------------------------------------------------------------------------------
(* The conditions without an object *)

(* There are two conditions, and the bare ones can be counted.              *)
LEMMA CondCount == IsFiniteSet(Cond) /\ Cardinality(Cond) = 2
<1>1. IsFiniteSet({Frame}) /\ Cardinality({Frame}) = 1
  BY FS_Singleton
<1>2. Cond = {Frame} \cup {Work} /\ Work \notin {Frame}
  BY DistinctAssumption DEF Cond
<1>3. IsFiniteSet({Frame} \cup {Work})
      /\ Cardinality({Frame} \cup {Work}) = Cardinality({Frame}) + 1
  BY <1>1, <1>2, FS_AddElement
<1>4. QED  BY <1>1, <1>2, <1>3

LEMMA BareFinite ==
  \A S \in SUBSET Cond : IsFiniteSet(S) /\ Cardinality(S) \in Nat
  BY CondCount, FS_Subset, FS_CardinalityType

LEMMA OneLess ==
  ASSUME NEW S \in SUBSET Cond, NEW c \in S
  PROVE  Cardinality(S \ {c}) = Cardinality(S) - 1 /\ Cardinality(S) >= 1
<1>1. IsFiniteSet(S) /\ IsFiniteSet(S \ {c}) /\ Cardinality(S \ {c}) \in Nat
      /\ Cardinality(S) \in Nat
  BY BareFinite
<1>2. Cardinality(S \ {c}) = Cardinality(S) - 1
  BY <1>1, FS_RemoveElement
<1>3. QED  BY <1>1, <1>2

LEMMA OneMore ==
  ASSUME NEW S \in SUBSET Cond, NEW c \in Cond \ S
  PROVE  Cardinality(S \cup {c}) = Cardinality(S) + 1
  BY BareFinite, FS_AddElement

--------------------------------------------------------------------------------
(* The inductive invariant *)

LEMMA Actors ==
  /\ Screen \in Waiter /\ Screen \in Thread
  /\ \A w \in Waiter : w \in Thread /\ w # Nobody /\ w \notin Notifier
  /\ \A a \in Notifier : a \in Thread /\ a \notin Waiter
  /\ Frame \in Cond /\ Work \in Cond /\ Frame # Work
  /\ NoCond \notin Cond
  /\ \A w \in Waiter : Home(w) \in Cond /\ (Home(w) = Frame <=> w = Screen)
  /\ Home(Screen) = Frame
  BY DistinctAssumption DEF Waiter, Thread, Cond, Home

(* Nothing exists at first. *)
LEMMA InitIInv == Init => IInv
<1> SUFFICES ASSUME Init PROVE IInv
  OBVIOUS
<1>1. TypeOK
  <2>1. 0 \in 0 .. MaxObjects
    BY DistinctAssumption
  <2>2. pc \in [Thread -> {"idle", "test", "check", "create", "ready", "wake", "park",
                          "asleep", "woken", "timedout", "returned"}]
    BY DEF Init
  <2>3. op \in [Notifier -> {"init", "notify"}] /\ on \in [Thread -> Cond \cup {NoCond}]
        /\ sleeping \in [Thread -> 0 .. MaxObjects]
    BY <2>1 DEF Init
  <2>4. magic \in [Cond -> BOOLEAN] /\ real \in [Cond -> 0 .. MaxObjects]
        /\ objects \in 0 .. MaxObjects /\ records \subseteq Cond \X (1 .. MaxObjects)
    BY <2>1 DEF Init
  <2>5. frameSync \in Cond \cup {NoCond} /\ latched \in BOOLEAN
        /\ holder \in [Cond -> Waiter \cup {Nobody}]
        /\ fresh \in [Cond -> BOOLEAN] /\ noticed \in BOOLEAN /\ due \in BOOLEAN
    BY DEF Init
  <2>6. QED  BY <2>2, <2>3, <2>4, <2>5 DEF TypeOK
<1>2. Bare = Cond
  BY DEF Init, Bare
<1>3. objects + Cardinality(Bare) <= MaxObjects
  BY <1>2, CondCount, DistinctAssumption DEF Init
<1>4. ObjectInv
  BY <1>3, Actors DEF Init, ObjectInv
<1>5. NoticeInv
  BY Actors DEF Init, NoticeInv
<1>6. SleepersOnCurrentObject /\ BroadcastReachesAll
  BY Actors DEF Init, SleepersOnCurrentObject, BroadcastReachesAll
<1>7. QED  BY <1>1, <1>4, <1>5, <1>6 DEF IInv

(* Making the object of a condition that has none. *)
LEMMA NewObjectKeeps ==
  ASSUME IInv, NEW c \in Cond, ~magic[c], NewObject(c)
  PROVE  /\ objects' \in 0 .. MaxObjects /\ objects' = objects + 1
         /\ real' \in [Cond -> 0 .. MaxObjects]
         /\ magic' \in [Cond -> BOOLEAN]
         /\ records' \subseteq Cond \X (1 .. MaxObjects)
         /\ \A d \in Cond : magic'[d] <=> real'[d] # 0
         /\ objects' + Cardinality(Bare') <= MaxObjects
         /\ BroadcastReachesAll'
<1> USE DEF IInv, TypeOK
<1>1. Bare' = Bare \ {c} /\ c \in Bare /\ Bare \in SUBSET Cond
  BY DEF NewObject, Bare
<1>2. Cardinality(Bare') = Cardinality(Bare) - 1 /\ Cardinality(Bare) >= 1
  BY <1>1, OneLess
<1>3. Cardinality(Bare) \in Nat
  BY <1>1, BareFinite
<1>4. objects' = objects + 1 /\ objects' \in 1 .. MaxObjects
      /\ objects' + Cardinality(Bare') <= MaxObjects
  BY <1>2, <1>3, DistinctAssumption DEF NewObject, ObjectInv
<1>5. real' = [real EXCEPT ![c] = objects'] /\ magic' = [magic EXCEPT ![c] = TRUE]
      /\ records' = records \cup {<<c, objects'>>}
  BY <1>4 DEF NewObject
<1>6. \A d \in Cond : magic'[d] <=> real'[d] # 0
  BY <1>4, <1>5 DEF ObjectInv
<1>7. records' = {<<d, real'[d]>> : d \in {e \in Cond : magic'[e]}}
  BY <1>4, <1>5 DEF BroadcastReachesAll
<1>8. QED  BY <1>4, <1>5, <1>6, <1>7 DEF BroadcastReachesAll

(* First use: the condition of the call is initialised afterwards. *)
LEMMA CreateStep ==
  ASSUME IInv, NEW a \in Thread, Create(a) PROVE IInv'
<1> USE DEF IInv
<1>1. /\ pc[a] = "create" /\ pc' = [pc EXCEPT ![a] = "ready"] /\ on[a] \in Cond
      /\ UNCHANGED <<on, op, sleeping, frameSync, latched, holder, fresh, noticed, due>>
  BY DEF Create, Goto, latch, data, ObjectInv
<1>2. /\ magic' \in [Cond -> BOOLEAN] /\ objects' \in 0 .. MaxObjects
      /\ real' \in [Cond -> 0 .. MaxObjects]
      /\ records' \subseteq Cond \X (1 .. MaxObjects)
      /\ \A d \in Cond : magic'[d] <=> real'[d] # 0
      /\ objects' + Cardinality(Bare') <= MaxObjects
      /\ BroadcastReachesAll'
      /\ magic'[on[a]]
      /\ \A d \in Cond : magic[d] => magic'[d] /\ real'[d] = real[d]
  <2>1. CASE magic[on[a]]
    <3>1. UNCHANGED <<magic, real, objects, records>>
      BY <2>1 DEF Create, objs
    <3>2. Bare' = Bare
      BY <3>1 DEF Bare
    <3>3. QED  BY <2>1, <3>1, <3>2 DEF TypeOK, ObjectInv, BroadcastReachesAll
  <2>2. CASE ~magic[on[a]]
    <3>1. NewObject(on[a])
      BY <2>2 DEF Create
    <3>2. QED  BY <1>1, <2>2, <3>1, NewObjectKeeps DEF NewObject, TypeOK
  <2>3. QED  BY <2>1, <2>2
<1>3. TypeOK'
  BY <1>1, <1>2 DEF TypeOK
<1>4. ObjectInv'
  BY <1>1, <1>2 DEF TypeOK, ObjectInv
<1>5. NoticeInv'
  BY <1>1, Actors DEF TypeOK, NoticeInv
<1>6. SleepersOnCurrentObject'
  <2> SUFFICES ASSUME NEW w \in Waiter, pc'[w] = "asleep"
               PROVE  sleeping'[w] = real'[on'[w]] /\ sleeping'[w] # 0
    BY DEF SleepersOnCurrentObject
  <2>1. w \in Thread /\ w # a /\ pc[w] = "asleep"
    BY <1>1, Actors DEF TypeOK
  <2>2. on[w] \in Cond /\ magic[on[w]]
    BY <2>1 DEF ObjectInv
  <2>3. QED  BY <1>1, <1>2, <2>1, <2>2 DEF SleepersOnCurrentObject
<1>7. QED  BY <1>2, <1>3, <1>4, <1>5, <1>6

(* Destruction of a condition that no call uses. *)
LEMMA DestroyStep ==
  ASSUME IInv, NEW a \in Notifier, NEW c \in Cond, Destroy(a, c) PROVE IInv'
<1> USE DEF IInv
<1>1. /\ magic[c] /\ magic' = [magic EXCEPT ![c] = FALSE]
      /\ real' = [real EXCEPT ![c] = 0]
      /\ records' = {r \in records : r[1] # c}
      /\ frameSync' = IF frameSync = c THEN NoCond ELSE frameSync
      /\ latched' = (latched /\ frameSync # c)
      /\ noticed' = (noticed /\ frameSync # c)
      /\ UNCHANGED <<pc, on, op, sleeping, objects, holder, fresh, due>>
      /\ \A t \in Thread : pc[t] # "idle" => on[t] # c
      /\ objects + Cardinality(Bare) < MaxObjects
  BY DEF Destroy, Unused, calls, Bare
<1>2. objects' + Cardinality(Bare') <= MaxObjects
  <2>1. Bare' = Bare \cup {c} /\ c \in Cond \ Bare /\ Bare \in SUBSET Cond
    BY <1>1 DEF Bare, TypeOK
  <2>2. Cardinality(Bare') = Cardinality(Bare) + 1 /\ Cardinality(Bare) \in Nat
    BY <2>1, OneMore, BareFinite
  <2>3. QED  BY <1>1, <2>2, DistinctAssumption DEF TypeOK
<1>3. TypeOK'
  <2>1. real' \in [Cond -> 0 .. MaxObjects] /\ magic' \in [Cond -> BOOLEAN]
    BY <1>1, DistinctAssumption DEF TypeOK
  <2>2. latched' \in BOOLEAN /\ noticed' \in BOOLEAN /\ frameSync' \in Cond \cup {NoCond}
    BY <1>1 DEF TypeOK
  <2>3. records' \subseteq Cond \X (1 .. MaxObjects)
    BY <1>1 DEF TypeOK
  <2>4. QED  BY <1>1, <2>1, <2>2, <2>3 DEF TypeOK
<1>4. ObjectInv'
  BY <1>1, <1>2 DEF TypeOK, ObjectInv
<1>5. NoticeInv'
  <2>1. c = Frame => pc[Screen] = "idle"
    BY <1>1, Actors DEF ObjectInv
  <2>2. QED  BY <1>1, <2>1, Actors DEF TypeOK, NoticeInv
<1>6. SleepersOnCurrentObject'
  BY <1>1, Actors DEF SleepersOnCurrentObject, TypeOK, ObjectInv
<1>7. BroadcastReachesAll'
  BY <1>1 DEF BroadcastReachesAll, TypeOK
<1>8. QED  BY <1>3, <1>4, <1>5, <1>6, <1>7

Label == {"idle", "test", "check", "create", "ready", "wake", "park", "asleep", "woken",
          "timedout", "returned"}

(* A step of one thread that leaves the objects alone: what remains to be   *)
(* shown is that its new place fits its condition.                          *)
LEMMA LocalStep ==
  ASSUME IInv, NEW a \in Thread, NEW l \in Label, UNCHANGED objs,
         pc' = [pc EXCEPT ![a] = l],
         \A t \in Thread \ {a} : on'[t] = on[t] /\ sleeping'[t] = sleeping[t],
         l # "idle" => on'[a] \in Cond /\ (a \in Waiter => on'[a] = Home(a)),
         l \in {"ready", "wake", "park", "asleep"} => magic[on'[a]],
         l = "asleep" => sleeping'[a] = real[on'[a]]
  PROVE  ObjectInv' /\ SleepersOnCurrentObject' /\ BroadcastReachesAll'
<1> USE DEF IInv
<1>1. UNCHANGED <<magic, real, objects, records>>
  BY DEF objs
<1>2. Bare' = Bare
  BY <1>1 DEF Bare
<1>3. \A t \in Thread : pc'[t] = IF t = a THEN l ELSE pc[t]
  BY DEF TypeOK
<1>4. ObjectInv'
  BY <1>1, <1>2, <1>3, Actors DEF ObjectInv
<1>5. SleepersOnCurrentObject'
  BY <1>1, <1>3, Actors DEF SleepersOnCurrentObject, ObjectInv
<1>6. BroadcastReachesAll'
  BY <1>1 DEF BroadcastReachesAll
<1>7. QED  BY <1>4, <1>5, <1>6

LEMMA CheckStep ==
  ASSUME IInv, NEW a \in Thread, Check(a) PROVE IInv'
<1> USE DEF IInv
<1>1. PICK l \in {"ready", "create"} :
        pc' = [pc EXCEPT ![a] = l] /\ (l = "ready" => magic[on[a]])
  BY DEF Check, Goto
<1>2. UNCHANGED <<on, op, sleeping, magic, real, objects, records, frameSync, latched,
                  holder, fresh, noticed, due>> /\ UNCHANGED objs /\ pc[a] = "check"
  BY DEF Check, objs, latch, data
<1>3. ObjectInv' /\ SleepersOnCurrentObject' /\ BroadcastReachesAll'
  BY <1>1, <1>2, LocalStep DEF Label, ObjectInv
<1>4. TypeOK'
  BY <1>1, <1>2 DEF TypeOK
<1>5. NoticeInv'
  BY <1>1, <1>2, Actors DEF NoticeInv, TypeOK
<1>6. QED  BY <1>3, <1>4, <1>5

(* The other calls of a notifier up to its wake-up. *)
LEMMA NotifierStep ==
  ASSUME IInv, NEW a \in Notifier, NEW c \in Cond,
         InitReturns(a) \/ CallInit(a, c) \/ Publish(a, c)
  PROVE  IInv'
<1> USE DEF IInv
<1>1. PICK l \in {"idle", "check"} :
        pc' = [pc EXCEPT ![a] = l] /\ (l = "check" => on' = [on EXCEPT ![a] = c])
        /\ (l = "idle" => on' = on)
  BY DEF InitReturns, CallInit, Publish, Goto
<1>2. UNCHANGED <<sleeping, magic, real, objects, records, frameSync, latched,
                  holder, noticed, due>> /\ UNCHANGED objs
  BY DEF InitReturns, CallInit, Publish, objs, latch, data
<1>3. a \in Thread /\ a \notin Waiter /\ a # Screen
  BY Actors
<1>4. on' \in [Thread -> Cond \cup {NoCond}] /\ (l = "check" => on'[a] = c)
      /\ \A t \in Thread \ {a} : on'[t] = on[t]
  BY <1>1, <1>3 DEF TypeOK
<1>5. ObjectInv' /\ SleepersOnCurrentObject' /\ BroadcastReachesAll'
  BY <1>1, <1>2, <1>3, <1>4, LocalStep DEF Label
<1>6. op' \in [Notifier -> {"init", "notify"}] /\ fresh' \in [Cond -> BOOLEAN]
  BY DEF InitReturns, CallInit, Publish, TypeOK, data
<1>7. TypeOK'
  BY <1>1, <1>2, <1>3, <1>4, <1>6 DEF TypeOK
<1>8. NoticeInv'
  BY <1>1, <1>2, <1>3, Actors DEF NoticeInv, TypeOK
<1>9. QED  BY <1>5, <1>7, <1>8

(* A notification of the captured condition is latched. *)
LEMMA LatchStep ==
  ASSUME IInv, NEW a \in Notifier, Latch(a) PROVE IInv'
<1> USE DEF IInv
<1>1. /\ pc[a] = "ready" /\ pc' = [pc EXCEPT ![a] = "wake"]
      /\ latched' = (latched \/ frameSync = on[a])
      /\ noticed' = (noticed \/ (frameSync = on[a] /\ fresh[Frame]))
      /\ UNCHANGED <<on, op, sleeping, magic, real, objects, records, frameSync,
                     holder, fresh, due>> /\ UNCHANGED objs
  BY DEF Latch, Goto, objs
<1>2. a \in Thread /\ a \notin Waiter /\ a # Screen
  BY Actors
<1>3. on[a] \in Cond /\ magic[on[a]]
  BY <1>1, <1>2 DEF ObjectInv
<1>4. ObjectInv' /\ SleepersOnCurrentObject' /\ BroadcastReachesAll'
  BY <1>1, <1>2, <1>3, LocalStep DEF Label
<1>5. latched' \in BOOLEAN /\ noticed' \in BOOLEAN
  BY <1>1 DEF TypeOK
<1>6. TypeOK'
  BY <1>1, <1>2, <1>5 DEF TypeOK
<1>7. frameSync = on[a] => frameSync = Frame
  BY <1>3, Actors DEF NoticeInv
<1>8. pc'[Screen] = pc[Screen]
  BY <1>1, <1>2, Actors DEF TypeOK
<1>9. NoticeInv'
  BY <1>1, <1>7, <1>8 DEF NoticeInv
<1>10. QED  BY <1>4, <1>6, <1>9

(* The sleepers that are woken no longer sleep. *)
LEMMA WakeStep ==
  ASSUME IInv, NEW a \in Notifier, Wake(a) PROVE IInv'
<1> USE DEF IInv
<1>1. PICK S \in SUBSET Sleepers(real[on[a]]) :
        /\ pc' = [t \in Thread |-> IF t = a THEN "idle" ELSE
                                   IF t \in S THEN "woken" ELSE pc[t]]
        /\ sleeping' = [t \in Thread |-> IF t \in S THEN 0 ELSE sleeping[t]]
  BY DEF Wake
<1>2. /\ pc[a] = "wake"
      /\ UNCHANGED <<on, op, magic, real, objects, records, frameSync, latched,
                     holder, fresh, noticed, due>>
  BY DEF Wake, objs, latch, data
<1>3. a \in Thread /\ a \notin Waiter /\ a # Screen
      /\ \A w \in S : w \in Waiter /\ w \in Thread /\ pc[w] = "asleep"
  BY Actors DEF Sleepers
<1>4. Bare' = Bare
  BY <1>2 DEF Bare
<1>5. TypeOK'
  BY <1>1, <1>2, DistinctAssumption DEF TypeOK
<1>6. ObjectInv'
  BY <1>1, <1>2, <1>3, <1>4, Actors DEF ObjectInv
<1>7. NoticeInv'
  BY <1>1, <1>2, <1>3, Actors DEF NoticeInv
<1>8. SleepersOnCurrentObject' /\ BroadcastReachesAll'
  BY <1>1, <1>2, <1>3, Actors DEF SleepersOnCurrentObject, BroadcastReachesAll
<1>9. QED  BY <1>5, <1>6, <1>7, <1>8

(* A waiter takes its mutex; the main thread's wait starts there. *)
LEMMA LockStep ==
  ASSUME IInv, NEW w \in Waiter, Lock(w) PROVE IInv'
<1> USE DEF IInv
<1>1. PICK l \in {"check", "test"} :
        pc' = [pc EXCEPT ![w] = l] /\ (l = "check" <=> w = Screen)
  BY DEF Lock, Goto
<1>2. /\ on' = [on EXCEPT ![w] = Home(w)]
      /\ holder' = [holder EXCEPT ![Home(w)] = w]
      /\ due' = IF w = Screen THEN noticed ELSE due
      /\ UNCHANGED <<op, sleeping, magic, real, objects, records, frameSync, latched,
                     fresh, noticed>> /\ UNCHANGED objs
      /\ pc[w] = "idle"
  BY DEF Lock, objs, latch
<1>3. w \in Thread /\ Home(w) \in Cond
  BY Actors
<1>4. on' \in [Thread -> Cond \cup {NoCond}] /\ on'[w] = Home(w)
      /\ \A t \in Thread \ {w} : on'[t] = on[t]
  BY <1>2, <1>3 DEF TypeOK
<1>5. ObjectInv' /\ SleepersOnCurrentObject' /\ BroadcastReachesAll'
  BY <1>1, <1>2, <1>3, <1>4, LocalStep DEF Label
<1>6. TypeOK'
  BY <1>1, <1>2, <1>3, <1>4 DEF TypeOK
<1>7. NoticeInv'
  BY <1>1, <1>2, <1>3, Actors DEF NoticeInv, TypeOK
<1>8. QED  BY <1>5, <1>6, <1>7

(* A waiter takes what it waited for and gives its mutex back. *)
LEMMA TakeStep ==
  ASSUME IInv, NEW w \in Waiter, TakeWork(w) \/ ShowScreen(w) PROVE IInv'
<1> USE DEF IInv
<1>1. /\ pc' = [pc EXCEPT ![w] = "idle"]
      /\ fresh' = [fresh EXCEPT ![on[w]] = FALSE]
      /\ holder' = [holder EXCEPT ![on[w]] = Nobody]
      /\ noticed' = (noticed /\ w # Screen)
      /\ due' = (due /\ w # Screen)
      /\ UNCHANGED <<on, op, sleeping, magic, real, objects, records, frameSync, latched>>
      /\ UNCHANGED objs
  BY DEF TakeWork, ShowScreen, Take, Goto, objs, latch
<1>2. w \in Thread
  BY Actors
<1>3. ObjectInv' /\ SleepersOnCurrentObject' /\ BroadcastReachesAll'
  BY <1>1, <1>2, LocalStep DEF Label
<1>4. fresh' \in [Cond -> BOOLEAN] /\ holder' \in [Cond -> Waiter \cup {Nobody}]
      /\ noticed' \in BOOLEAN /\ due' \in BOOLEAN
  BY <1>1 DEF TypeOK
<1>5. TypeOK'
  BY <1>1, <1>2, <1>4 DEF TypeOK
<1>6. NoticeInv'
  BY <1>1, <1>2, Actors DEF NoticeInv, TypeOK
<1>7. QED  BY <1>3, <1>5, <1>6

(* A worker without work goes on to its wait; a screen wait times out. *)
LEMMA WaitMoveStep ==
  ASSUME IInv, NEW w \in Waiter, CallWait(w) \/ TimeOut(w) PROVE IInv'
<1> USE DEF IInv
<1>1. PICK l \in {"check", "timedout"} :
        pc' = [pc EXCEPT ![w] = l] /\ (l = "check" => pc[w] = "test" /\ sleeping' = sleeping)
        /\ (l = "timedout" => pc[w] = "asleep" /\ sleeping' = [sleeping EXCEPT ![w] = 0])
  BY DEF CallWait, TimeOut, Goto
<1>2. UNCHANGED <<on, op, magic, real, objects, records, frameSync, latched,
                  holder, fresh, noticed, due>> /\ UNCHANGED objs
  BY DEF CallWait, TimeOut, objs, latch, data
<1>3. w \in Thread /\ on[w] = Home(w) /\ on[w] \in Cond
  BY <1>1, Actors DEF ObjectInv
<1>4. sleeping' \in [Thread -> 0 .. MaxObjects]
      /\ \A t \in Thread \ {w} : sleeping'[t] = sleeping[t]
  BY <1>1, DistinctAssumption DEF TypeOK
<1>5. ObjectInv' /\ SleepersOnCurrentObject' /\ BroadcastReachesAll'
  BY <1>1, <1>2, <1>3, <1>4, LocalStep DEF Label
<1>6. TypeOK'
  BY <1>1, <1>2, <1>3, <1>4 DEF TypeOK
<1>7. NoticeInv'
  BY <1>1, <1>2, <1>3, Actors DEF NoticeInv, TypeOK
<1>8. QED  BY <1>5, <1>6, <1>7

(* The wait captures the screen's condition, and consumes its latch or goes *)
(* on to sleep.                                                             *)
LEMMA EnterStep ==
  ASSUME IInv, NEW w \in Waiter, Enter(w) PROVE IInv'
<1> USE DEF IInv
<1>1. PICK l \in {"returned", "park"} :
        /\ pc' = [pc EXCEPT ![w] = l]
        /\ l = "returned" => frameSync' = on[w] /\ latched' = FALSE
        /\ l = "park" => latched' = latched /\ (frameSync' # on[w] \/ ~latched)
  BY DEF Enter, Goto
<1>2. /\ pc[w] = "ready" /\ frameSync' = Captured(w)
      /\ UNCHANGED <<on, op, sleeping, magic, real, objects, records, holder, fresh,
                     noticed, due>> /\ UNCHANGED objs
  BY DEF Enter, objs, data
<1>3. w \in Thread /\ on[w] = Home(w) /\ on[w] \in Cond /\ magic[on[w]]
  BY <1>2, Actors DEF ObjectInv
<1>4. frameSync' \in {NoCond, Frame} /\ (w = Screen => frameSync' = Frame)
      /\ (w # Screen => frameSync' = frameSync)
  BY <1>2, <1>3, Actors DEF Captured, NoticeInv
<1>5. l = "returned" => w = Screen
  BY <1>1, <1>3, <1>4, Actors
<1>6. ObjectInv' /\ SleepersOnCurrentObject' /\ BroadcastReachesAll'
  BY <1>1, <1>2, <1>3, LocalStep DEF Label
<1>7. TypeOK'
  <2>1. frameSync' \in Cond \cup {NoCond} /\ latched' \in BOOLEAN
    BY <1>1, <1>4, Actors DEF TypeOK
  <2>2. QED  BY <1>1, <1>2, <1>3, <2>1 DEF TypeOK
<1>8. NoticeInv'
  <2>1. CASE w = Screen
    <3>1. pc'[Screen] = l /\ on[w] = Frame
      BY <1>1, <1>3, <2>1, Actors DEF TypeOK
    <3>2. noticed => latched
      BY <1>2, <2>1 DEF NoticeInv
    <3>3. due => noticed
      BY <1>2, <2>1 DEF NoticeInv
    <3>4. QED  BY <1>1, <1>2, <1>4, <2>1, <3>1, <3>2, <3>3 DEF NoticeInv
  <2>2. CASE w # Screen
    <3>1. pc'[Screen] = pc[Screen] /\ latched' = latched
      BY <1>1, <1>3, <1>5, <2>2, Actors DEF TypeOK
    <3>2. QED  BY <1>2, <1>4, <2>2, <3>1 DEF NoticeInv
  <2>3. QED  BY <2>1, <2>2
<1>9. QED  BY <1>6, <1>7, <1>8

(* A waiter falls asleep on the object its condition has now. *)
LEMMA SleepStep ==
  ASSUME IInv, NEW w \in Waiter, Sleep(w) PROVE IInv'
<1> USE DEF IInv
<1>1. /\ pc[w] = "park" /\ pc' = [pc EXCEPT ![w] = "asleep"]
      /\ sleeping' = [sleeping EXCEPT ![w] = real[on[w]]]
      /\ holder' = [holder EXCEPT ![on[w]] = Nobody]
      /\ UNCHANGED <<on, op, magic, real, objects, records, frameSync, latched, fresh,
                     noticed, due>> /\ UNCHANGED objs
  BY DEF Sleep, Goto, objs, latch
<1>2. w \in Thread /\ on[w] = Home(w) /\ on[w] \in Cond /\ magic[on[w]]
  BY <1>1, Actors DEF ObjectInv
<1>3. sleeping' \in [Thread -> 0 .. MaxObjects] /\ sleeping'[w] = real[on[w]]
      /\ \A t \in Thread \ {w} : sleeping'[t] = sleeping[t]
  BY <1>1, <1>2 DEF TypeOK
<1>4. ObjectInv' /\ SleepersOnCurrentObject' /\ BroadcastReachesAll'
  BY <1>1, <1>2, <1>3, LocalStep DEF Label
<1>5. TypeOK'
  BY <1>1, <1>2, <1>3 DEF TypeOK
<1>6. NoticeInv'
  BY <1>1, <1>2, Actors DEF NoticeInv, TypeOK
<1>7. QED  BY <1>4, <1>5, <1>6

(* A waiter that has been woken, or whose time is over, has its mutex again. *)
LEMMA RelockStep ==
  ASSUME IInv, NEW w \in Waiter, Relock(w) PROVE IInv'
<1> USE DEF IInv
<1>1. PICK l \in {"returned", "test"} :
        pc' = [pc EXCEPT ![w] = l] /\ (l = "returned" <=> w = Screen)
  BY DEF Relock, Goto
<1>2. /\ pc[w] \in {"woken", "timedout"}
      /\ holder' = [holder EXCEPT ![on[w]] = w]
      /\ latched' = (latched /\ (pc[w] = "timedout" \/ frameSync # on[w]))
      /\ UNCHANGED <<on, op, sleeping, magic, real, objects, records, frameSync, fresh,
                     noticed, due>> /\ UNCHANGED objs
  BY DEF Relock, objs
<1>3. w \in Thread /\ on[w] = Home(w) /\ on[w] \in Cond
  BY <1>2, Actors DEF ObjectInv
<1>4. ObjectInv' /\ SleepersOnCurrentObject' /\ BroadcastReachesAll'
  BY <1>1, <1>2, <1>3, LocalStep DEF Label
<1>5. TypeOK'
  <2>1. latched' \in BOOLEAN
    BY <1>2 DEF TypeOK
  <2>2. QED  BY <1>1, <1>2, <1>3, <2>1 DEF TypeOK
<1>6. NoticeInv'
  <2>1. CASE w = Screen
    <3>1. pc'[Screen] = "returned"
      BY <1>1, <1>3, <2>1 DEF TypeOK
    <3>2. QED  BY <1>2, <3>1 DEF NoticeInv
  <2>2. CASE w # Screen
    <3>1. pc'[Screen] = pc[Screen]
      BY <1>1, <2>2, Actors DEF TypeOK
    <3>2. frameSync # on[w]
      BY <1>3, <2>2, Actors DEF NoticeInv
    <3>3. latched' = latched
      BY <1>2, <3>2 DEF TypeOK
    <3>4. QED  BY <1>2, <3>1, <3>3 DEF NoticeInv
  <2>3. QED  BY <2>1, <2>2
<1>7. QED  BY <1>4, <1>5, <1>6

(* The invariant is inductive. *)
LEMMA StepIInv == IInv /\ [Next]_vars => IInv'
<1> SUFFICES ASSUME IInv, [Next]_vars PROVE IInv'
  OBVIOUS
<1>1. ASSUME NEW w \in Waiter, WaitStep(w) PROVE IInv'
  <2>1. w \in Thread
    BY Actors
  <2>2. QED
    BY <1>1, <2>1, LockStep, TakeStep, WaitMoveStep, CheckStep, CreateStep, EnterStep,
       SleepStep, RelockStep DEF WaitStep, Proceed
<1>2. ASSUME NEW a \in Notifier, NotifyStep(a) PROVE IInv'
  <2>1. a \in Thread /\ Frame \in Cond
    BY Actors
  <2>2. QED
    BY <1>2, <2>1, CheckStep, CreateStep, NotifierStep, LatchStep, WakeStep
       DEF NotifyStep, Proceed
<1>3. ASSUME NEW a \in Notifier, CoreCall(a) PROVE IInv'
  BY <1>3, NotifierStep, DestroyStep DEF CoreCall
<1>4. CASE UNCHANGED vars
  <2>1. UNCHANGED <<pc, on, op, sleeping, magic, real, objects, records, frameSync, latched,
                    holder, fresh, noticed, due>>
    BY <1>4 DEF vars, calls, objs, latch, data
  <2>2. Bare' = Bare
    BY <2>1 DEF Bare
  <2>3. QED
    BY <2>1, <2>2 DEF IInv, TypeOK, ObjectInv, NoticeInv, SleepersOnCurrentObject,
                      BroadcastReachesAll
<1>5. QED  BY <1>1, <1>2, <1>3, <1>4 DEF Next

--------------------------------------------------------------------------------
(* The theorems *)

(* The state of the conditions is well typed; the bound on objects is kept. *)
THEOREM CondTypeCorrect == Spec => []TypeOK
<1>1. IInv => TypeOK
  BY DEF IInv
<1>2. QED  BY InitIInv, StepIInv, <1>1, PTL DEF Spec

(* Nobody sleeps on an object that its condition no longer has, whichever   *)
(* of cond_static_init and pthread_cond_init_soloader came first.           *)
THEOREM SleepersReachable == Spec => []SleepersOnCurrentObject
<1>1. IInv => SleepersOnCurrentObject
  BY DEF IInv
<1>2. QED  BY InitIInv, StepIInv, <1>1, PTL DEF Spec

(* The list of wake_all_bionic_conditions is the set of live objects.       *)
THEOREM BroadcastComplete == Spec => []BroadcastReachesAll
<1>1. IInv => BroadcastReachesAll
  BY DEF IInv
<1>2. QED  BY InitIInv, StepIInv, <1>1, PTL DEF Spec

(* A screen notified before its wait began is not slept over                *)
(* (frame_sync_pending against frame_sync_capture and the wait).            *)
THEOREM NoticedScreenSeen == Spec => []NoticedScreenNotSleptOver
<1>1. IInv => NoticedScreenNotSleptOver
  BY DEF IInv, NoticeInv, NoticedScreenNotSleptOver
<1>2. QED  BY InitIInv, StepIInv, <1>1, PTL DEF Spec

(* No wake-up is missed, whoever notifies, destroys and sets up conditions   *)
(* (bionic_cond_init, cond_static_init, pthread_cond_*_soloader).            *)
THEOREM WakesReachSleepers == Spec => []NoWakeIsMissed
<1>1. SleepersOnCurrentObject /\ BroadcastReachesAll /\ NoticedScreenNotSleptOver
        => NoWakeIsMissed
  BY DEF NoWakeIsMissed
<1>2. QED  BY SleepersReachable, BroadcastComplete, NoticedScreenSeen, <1>1, PTL
================================================================================
