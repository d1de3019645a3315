------------------------------ MODULE Output_proofs ------------------------------
(***************************************************************************)
(* Proofs about the host's two outputs.  Of PlayerQueue, for every ring,   *)
(* capacity and number of wave buffers: its types, its limit, the          *)
(* agreement of the wave buffers with the driver's voice, and that it      *)
(* implements AudioQueue.  Of VkFrames, for every surface and two or three *)
(* frame slots: that frames follow one another in order.                   *)
(***************************************************************************)
EXTENDS MCOutput, FiniteSetTheorems, SequenceTheorems, TLAPS

PendingSet == {w \in Wave : pending[w]}
Queued == {w \in Wave : wave[w] = "queued"}

(* The tail is count places after the head; a pending wave buffer is with   *)
(* the voice or played; the voice is as long as its buffers are many.       *)
RingInv == tail = (head + count) % RingSize
WaveInv ==
  /\ \A w \in Wave : pending[w] => wave[w] \in {"queued", "done"}
  /\ Len(device) = Cardinality(Queued)

IInv ==
  /\ TypeOK /\ CapacityRespected /\ VoiceMatchesWaves
  /\ RingInv /\ WaveInv

--------------------------------------------------------------------------------
(* Sets of wave buffers, and places of the ring *)

(* Sets of wave buffers can be counted.                                     *)
LEMMA WavesFinite == \A S \in SUBSET Wave : IsFiniteSet(S) /\ Cardinality(S) \in Nat
<1>1. IsFiniteSet(Wave)
  BY FS_Interval, SizeAssumption DEF Wave
<1>2. QED  BY <1>1, FS_Subset, FS_CardinalityType

LEMMA OneMore ==
  ASSUME NEW S \in SUBSET Wave, NEW w \in Wave, w \notin S
  PROVE  Cardinality(S \cup {w}) = Cardinality(S) + 1
  BY WavesFinite, FS_AddElement

LEMMA OneLess ==
  ASSUME NEW S \in SUBSET Wave, NEW w \in S
  PROVE  Cardinality(S \ {w}) = Cardinality(S) - 1 /\ Cardinality(S) >= 1
<1>1. IsFiniteSet(S) /\ Cardinality(S) \in Nat /\ Cardinality(S \ {w}) \in Nat
  BY WavesFinite
<1>2. Cardinality(S \ {w}) = Cardinality(S) - 1
  BY <1>1, FS_RemoveElement
<1>3. QED  BY <1>1, <1>2

LEMMA SmallerSet ==
  ASSUME NEW S \in SUBSET Wave, NEW T \in SUBSET S
  PROVE  Cardinality(T) <= Cardinality(S)
  BY WavesFinite, FS_Subset

(* Going round the ring at most once. *)
LEMMA RingPlace ==
  ASSUME NEW x \in 0 .. RingSize + RingSize - 1
  PROVE  /\ x % RingSize = IF x < RingSize THEN x ELSE x - RingSize
         /\ x % RingSize \in Place
<1>1. x % RingSize = IF x < RingSize THEN x ELSE x - RingSize
  BY SizeAssumption, SMT
<1>2. QED  BY <1>1, SizeAssumption DEF Place

LEMMA Remainder ==
  ASSUME NEW x \in Nat, NEW n \in Nat \ {0}
  PROVE  x % n \in 0 .. n - 1
  BY SMT

(* The limit, in terms of the pending set.                                  *)
LEMMA CapacityMeaning ==
  /\ CapacityRespected <=> count + Cardinality(PendingSet) <= Capacity
  /\ CapacityRespected' <=> count' + Cardinality(PendingSet') <= Capacity
  BY DEF CapacityRespected, PendingSet

(* At most one buffer is reported in a turn.                                *)
LEMMA ReportedOne ==
  /\ Reported \subseteq Reportable
  /\ \A v, w \in Reported : v = w
  BY DEF Reported, Reportable, Wave

--------------------------------------------------------------------------------
(* The inductive invariant *)

(* A new player has an empty ring and free wave buffers. *)
LEMMA InitIInv == Init => IInv
<1> SUFFICES ASSUME Init PROVE IInv
  OBVIOUS
<1>1. PendingSet = {} /\ Queued = {} /\ Cardinality({}) = 0
  BY FS_EmptySet DEF Init, PendingSet, Queued
<1>2. TypeOK
  BY SizeAssumption DEF Init, TypeOK, Place, Wave
<1>3. CapacityRespected
  BY <1>1, CapacityMeaning, SizeAssumption DEF Init
<1>4. VoiceMatchesWaves
  BY DEF Init, VoiceMatchesWaves
<1>5. RingInv
  BY RingPlace, SizeAssumption DEF Init, RingInv
<1>6. WaveInv
  BY <1>1 DEF Init, WaveInv
<1>7. QED  BY <1>2, <1>3, <1>4, <1>5, <1>6 DEF IInv

(* Count and pending are within the capacity, which is within the ring. *)
LEMMA Room ==
  ASSUME IInv
  PROVE  /\ Cardinality(PendingSet) \in Nat /\ count \in 0 .. Capacity
         /\ PendingSet \in SUBSET Wave /\ PendingCount = Cardinality(PendingSet)
         /\ count + Cardinality(PendingSet) <= Capacity
         /\ head \in 0 .. RingSize - 1 /\ Capacity <= RingSize
         /\ RingSize \in Nat \ {0} /\ Capacity \in Nat
<1>1. PendingSet \in SUBSET Wave /\ Cardinality(PendingSet) \in Nat
  BY WavesFinite DEF PendingSet
<1>2. QED
  BY <1>1, CapacityMeaning, SizeAssumption DEF IInv, TypeOK, PendingCount, PendingSet, Place

LEMMA EnqueueStep ==
  ASSUME IInv, NEW p \in Packet, Enqueue(p) PROVE IInv'
<1> USE DEF IInv
<1>1. /\ packets' = [packets EXCEPT ![tail] = p]
      /\ tail' = (tail + 1) % RingSize /\ count' = count + 1
      /\ UNCHANGED <<head, pending, wave, block, nextWave, device, completed, playing,
                     suspended, running, pc>>
      /\ count + Cardinality(PendingSet) < Capacity
  BY Room DEF Enqueue, waves, control, Outstanding
<1>2. PendingSet' = PendingSet /\ Queued' = Queued
  BY <1>1 DEF PendingSet, Queued
<1>3. tail' = (head + (count + 1)) % RingSize /\ tail' \in Place
  <2>1. tail = (head + count) % RingSize /\ tail \in 0 .. RingSize - 1
    BY DEF RingInv, TypeOK, Place
  <2>2. head + count \in 0 .. RingSize + RingSize - 1 /\ tail + 1 \in 0 .. RingSize + RingSize - 1
        /\ head + (count + 1) \in 0 .. RingSize + RingSize - 1
    BY <1>1, <2>1, Room
  <2>3. QED  BY <1>1, <2>1, <2>2, Room, RingPlace
<1>4. count' \in 0 .. RingSize
  BY <1>1, Room
<1>5. TypeOK'
  BY <1>1, <1>3, <1>4 DEF TypeOK
<1>6. CapacityRespected'
  BY <1>1, <1>2, Room, CapacityMeaning
<1>7. VoiceMatchesWaves' /\ WaveInv'
  BY <1>1, <1>2 DEF VoiceMatchesWaves, WaveInv
<1>8. RingInv'
  BY <1>1, <1>3 DEF RingInv
<1>9. QED  BY <1>5, <1>6, <1>7, <1>8

LEMMA ClearStep ==
  ASSUME IInv, Clear PROVE IInv'
<1> USE DEF IInv
<1>1. /\ head' = 0 /\ tail' = 0 /\ count' = 0
      /\ wave' = [w \in Wave |-> "free"]
      /\ pending' = [w \in Wave |-> FALSE]
      /\ device' = <<>>
      /\ UNCHANGED <<packets, block, nextWave, completed, playing, suspended, running, pc>>
  BY DEF Clear, control
<1>2. PendingSet' = {} /\ Queued' = {} /\ Cardinality({}) = 0
  BY <1>1, FS_EmptySet DEF PendingSet, Queued
<1>3. 0 \in Place /\ 0 % RingSize = 0
  BY RingPlace, SizeAssumption DEF Place
<1>4. TypeOK'
  BY <1>1, <1>3, SizeAssumption DEF TypeOK
<1>5. CapacityRespected'
  BY <1>1, <1>2, SizeAssumption, CapacityMeaning
<1>6. VoiceMatchesWaves' /\ WaveInv' /\ RingInv'
  BY <1>1, <1>2, <1>3 DEF VoiceMatchesWaves, WaveInv, RingInv
<1>7. QED  BY <1>4, <1>5, <1>6

(* The wave buffers that stay pending in a turn. *)
LEMMA StillPendingSet ==
  ASSUME IInv
  PROVE  /\ StillPending \in [Wave -> BOOLEAN]
         /\ {w \in Wave : StillPending[w]} = PendingSet \ Reported
         /\ \A w \in Wave : wave[w] = "queued" => StillPending[w]
  BY DEF IInv, TypeOK, VoiceMatchesWaves, StillPending, Reported, Reportable, PendingSet

(* The count of callbacks wraps around like the code's. *)
LEMMA AccountTyped ==
  ASSUME IInv, Account
  PROVE  completed' \in 0 .. CountModulus - 1 /\ pc' \in {"loop", "callback"}
         /\ UNCHANGED <<playing, suspended, running>>
<1>1. (completed + 1) % CountModulus \in 0 .. CountModulus - 1
  BY Remainder, SizeAssumption DEF IInv, TypeOK
<1>2. QED  BY <1>1 DEF Account, control, IInv, TypeOK

(* A packet goes from the ring to a free wave buffer and to the voice. *)
LEMMA HandOverStep ==
  ASSUME IInv, NEW w \in Wave, count > 0, IsFree(w), HandOver(w), Account
  PROVE  IInv'
<1> USE DEF IInv
<1>1. /\ head' = (head + 1) % RingSize /\ count' = count - 1
      /\ block' = [block EXCEPT ![w] = packets[head]]
      /\ wave' = [wave EXCEPT ![w] = "queued"]
      /\ pending' = [StillPending EXCEPT ![w] = TRUE]
      /\ nextWave' = (w + 1) % Waves
      /\ device' = Append(device, w)
      /\ UNCHANGED <<packets, tail>>
      /\ ~StillPending[w] /\ wave[w] # "queued"
  BY DEF HandOver, Copy, IsFree
<1>2. /\ Queued' = Queued \cup {w} /\ w \notin Queued /\ Queued \in SUBSET Wave
      /\ PendingSet' = (PendingSet \ Reported) \cup {w} /\ w \notin PendingSet \ Reported
      /\ PendingSet \ Reported \in SUBSET Wave
  <2>1. Queued' = Queued \cup {w} /\ w \notin Queued /\ Queued \in SUBSET Wave
    BY <1>1 DEF Queued, TypeOK
  <2>2. PendingSet' = {v \in Wave : StillPending[v]} \cup {w}
    BY <1>1, StillPendingSet DEF PendingSet
  <2>3. w \notin {v \in Wave : StillPending[v]}
    BY <1>1
  <2>4. QED  BY <2>1, <2>2, <2>3, StillPendingSet
<1>3. Cardinality(PendingSet') <= Cardinality(PendingSet) + 1
      /\ Cardinality(PendingSet') \in Nat
  <2>1. Cardinality(PendingSet \ Reported) <= Cardinality(PendingSet)
    BY Room, SmallerSet
  <2>2. Cardinality(PendingSet') = Cardinality(PendingSet \ Reported) + 1
    BY <1>2, OneMore
  <2>3. Cardinality(PendingSet \ Reported) \in Nat
    BY <1>2, WavesFinite
  <2>4. QED  BY <2>1, <2>2, <2>3, Room
<1>4. Cardinality(Queued') = Cardinality(Queued) + 1
  BY <1>2, OneMore
<1>5. count' \in 0 .. RingSize /\ head' \in Place /\ tail' = (head' + count') % RingSize
  <2>1. count' \in 0 .. RingSize
    BY <1>1, Room
  <2>2. tail = (head + count) % RingSize /\ head + count \in 0 .. RingSize + RingSize - 1
        /\ head + 1 \in 0 .. RingSize + RingSize - 1
    BY Room DEF RingInv
  <2>3. head' \in Place /\ head' = IF head + 1 < RingSize THEN head + 1 ELSE head + 1 - RingSize
    <3>1. /\ (head + 1) % RingSize \in Place
          /\ (head + 1) % RingSize = IF head + 1 < RingSize THEN head + 1 ELSE head + 1 - RingSize
      BY <2>2, RingPlace, Room
    <3>2. QED  BY <1>1, <3>1
  <2>4. head' + count' \in 0 .. RingSize + RingSize - 1
    BY <1>1, <2>3, Room
  <2>5. (head' + count') % RingSize = tail
    <3>1. CASE head + 1 < RingSize
      <4>1. head' + count' = head + count
        BY <1>1, <2>3, <3>1, Room
      <4>2. QED  BY <2>2, <4>1
    <3>2. CASE ~(head + 1 < RingSize)
      <4>0. head + 1 = RingSize /\ count \in Nat /\ head \in Nat /\ RingSize \in Nat
        BY <3>2, Room
      <4>1. head' = 0 /\ head' + count' = count - 1 /\ head + count = count - 1 + RingSize
        BY <1>1, <2>3, <4>0
      <4>2. count - 1 \in 0 .. RingSize - 1
        BY Room
      <4>3. (head' + count') % RingSize = count - 1
        BY <2>4, <4>1, <4>2, RingPlace, Room
      <4>4. (head + count) % RingSize = count - 1
        <5>1. (head + count) % RingSize =
                IF head + count < RingSize THEN head + count ELSE head + count - RingSize
          BY <2>2, RingPlace, Room
        <5>2. QED  BY <4>1, <4>2, <5>1, Room
      <4>5. QED  BY <2>2, <4>3, <4>4
    <3>3. QED  BY <3>1, <3>2
  <2>6. QED  BY <1>1, <2>1, <2>3, <2>5
<1>6. /\ device' \in Seq(Wave) /\ Len(device') = Len(device) + 1
      /\ \A k \in 1 .. Len(device) : device'[k] = device[k]
      /\ device'[Len(device) + 1] = w
      /\ Len(device) \in Nat
  BY <1>1, AppendProperties, LenProperties DEF TypeOK
<1>7. nextWave' \in Wave
  BY <1>1, Remainder, SizeAssumption DEF Wave
<1>8. TypeOK'
  <2>1. block' \in [Wave -> Packet \cup {NoPacket}]
    BY <1>1 DEF TypeOK, Place
  <2>2. pending' \in [Wave -> BOOLEAN] /\ wave' \in [Wave -> {"free", "queued", "done"}]
    BY <1>1, StillPendingSet DEF TypeOK
  <2>3. QED  BY <1>1, <1>5, <1>6, <1>7, <2>1, <2>2, AccountTyped DEF TypeOK
<1>9. CapacityRespected'
  BY <1>1, <1>3, Room, CapacityMeaning
<1>10. VoiceMatchesWaves'
  <2>1. \A v \in Wave : wave'[v] = "queued" <=> \E k \in 1 .. Len(device') : device'[k] = v
    BY <1>1, <1>6 DEF VoiceMatchesWaves, TypeOK
  <2>2. \A k \in 1 .. Len(device) : device[k] # w
    BY <1>1 DEF VoiceMatchesWaves
  <2>3. \A k, j \in 1 .. Len(device') : device'[k] = device'[j] => k = j
    BY <1>6, <2>2 DEF VoiceMatchesWaves
  <2>4. \A v \in Wave : wave'[v] = "queued" => pending'[v]
    BY <1>1, StillPendingSet DEF VoiceMatchesWaves, TypeOK
  <2>5. QED  BY <2>1, <2>3, <2>4 DEF VoiceMatchesWaves
<1>11. WaveInv'
  <2>1. \A v \in Wave : pending'[v] => wave'[v] \in {"queued", "done"}
    BY <1>1, StillPendingSet DEF WaveInv, TypeOK, StillPending
  <2>2. QED  BY <1>4, <1>6, <2>1 DEF WaveInv
<1>12. QED  BY <1>5, <1>8, <1>9, <1>10, <1>11 DEF RingInv

(* A turn that hands nothing over, or whose hand-over was refused. *)
LEMMA KeepStep ==
  ASSUME IInv, Account, pending' = StillPending, UNCHANGED <<ring, nextWave, device>>,
         \/ UNCHANGED <<wave, block>>
         \/ \E w \in Wave : IsFree(w) /\ HandOverFails(w)
  PROVE  IInv'
<1> USE DEF IInv
<1>1. UNCHANGED <<packets, head, tail, count, nextWave, device>>
  BY DEF ring
<1>2. /\ wave' \in [Wave -> {"free", "queued", "done"}]
      /\ block' \in [Wave -> Packet \cup {NoPacket}]
      /\ \A v \in Wave : wave'[v] = "queued" <=> wave[v] = "queued"
      /\ \A v \in Wave : StillPending[v] => wave'[v] = wave[v]
  <2>1. CASE UNCHANGED <<wave, block>>
    BY <2>1 DEF TypeOK
  <2>2. ASSUME NEW w \in Wave, IsFree(w), HandOverFails(w)
        PROVE  /\ wave' = [wave EXCEPT ![w] = "free"] /\ wave[w] # "queued" /\ ~StillPending[w]
               /\ block' = [block EXCEPT ![w] = packets[head]]
    BY <2>2 DEF HandOverFails, Copy, IsFree
  <2>3. packets[head] \in Packet \cup {NoPacket}
    BY DEF TypeOK
  <2>4. QED  BY <2>1, <2>2, <2>3 DEF TypeOK
<1>3. Queued' = Queued
  BY <1>2 DEF Queued
<1>4. PendingSet' = PendingSet \ Reported
  BY StillPendingSet DEF PendingSet
<1>5. Cardinality(PendingSet') <= Cardinality(PendingSet) /\ Cardinality(PendingSet') \in Nat
  BY <1>4, Room, SmallerSet, WavesFinite
<1>6. TypeOK'
  BY <1>1, <1>2, AccountTyped, StillPendingSet DEF TypeOK
<1>7. CapacityRespected'
  BY <1>1, <1>5, Room, CapacityMeaning
<1>8. VoiceMatchesWaves'
  BY <1>1, <1>2, StillPendingSet DEF VoiceMatchesWaves
<1>9. WaveInv'
  BY <1>1, <1>2, <1>3 DEF WaveInv, StillPending
<1>10. QED  BY <1>1, <1>6, <1>7, <1>8, <1>9 DEF RingInv

(* The voice has played its first buffer. *)
LEMMA PlayedStep ==
  ASSUME IInv, Played PROVE IInv'
<1> USE DEF IInv
<1> DEFINE w == Head(device)
<1>1. /\ device # <<>> /\ wave' = [wave EXCEPT ![w] = "done"]
      /\ device' = Tail(device)
      /\ UNCHANGED <<packets, head, tail, count, pending, block, nextWave, completed,
                     playing, suspended, running, pc>>
  BY DEF Played, ring, control
<1>2. /\ w \in Wave /\ w = device[1] /\ device' \in Seq(Wave)
      /\ Len(device) \in Nat \ {0} /\ Len(device') = Len(device) - 1
      /\ \A k \in 1 .. Len(device) - 1 : device'[k] = device[k + 1]
  BY <1>1, HeadTailProperties, LenProperties, EmptySeq DEF TypeOK
<1> HIDE DEF w
<1>3. wave[w] = "queued" /\ pending[w]
  BY <1>2 DEF VoiceMatchesWaves
<1>4. Queued' = Queued \ {w} /\ w \in Queued /\ Queued \in SUBSET Wave
  BY <1>1, <1>2, <1>3 DEF Queued, TypeOK
<1>5. Len(device') = Cardinality(Queued')
  BY <1>2, <1>4, OneLess DEF WaveInv
<1>6. PendingSet' = PendingSet
  BY <1>1 DEF PendingSet
<1>7. TypeOK'
  BY <1>1, <1>2 DEF TypeOK
<1>8. VoiceMatchesWaves'
  <2>1. \A v \in Wave : wave'[v] = "queued" <=> wave[v] = "queued" /\ v # w
    BY <1>1, <1>2 DEF TypeOK
  <2>2. ASSUME NEW v \in Wave
        PROVE  wave'[v] = "queued" <=> \E k \in 1 .. Len(device') : device'[k] = v
    <3>1. ASSUME wave'[v] = "queued" PROVE \E k \in 1 .. Len(device') : device'[k] = v
      <4>1. PICK k \in 1 .. Len(device) : device[k] = v
        BY <2>1, <3>1 DEF VoiceMatchesWaves
      <4>2. k # 1
        BY <1>2, <2>1, <3>1, <4>1
      <4>3. k - 1 \in 1 .. Len(device') /\ device'[k - 1] = v
        BY <1>2, <4>1, <4>2
      <4>4. QED  BY <4>3
    <3>2. ASSUME NEW k \in 1 .. Len(device'), device'[k] = v PROVE wave'[v] = "queued"
      <4>1. k + 1 \in 1 .. Len(device) /\ device[k + 1] = v /\ 1 \in 1 .. Len(device)
            /\ k + 1 # 1
        BY <1>2, <3>2
      <4>2. v # w /\ wave[v] = "queued"
        BY <1>2, <4>1 DEF VoiceMatchesWaves
      <4>3. QED  BY <2>1, <4>2
    <3>3. QED  BY <3>1, <3>2
  <2>3. \A k, j \in 1 .. Len(device') : device'[k] = device'[j] => k = j
    BY <1>2 DEF VoiceMatchesWaves
  <2>4. \A v \in Wave : wave'[v] = "queued" => pending'[v]
    BY <1>1, <2>1 DEF VoiceMatchesWaves
  <2>5. QED  BY <2>2, <2>3, <2>4 DEF VoiceMatchesWaves
<1>9. WaveInv'
  BY <1>1, <1>2, <1>5 DEF WaveInv, TypeOK
<1>10. CapacityRespected' /\ RingInv'
  BY <1>1, <1>6, CapacityMeaning DEF RingInv
<1>11. QED  BY <1>7, <1>8, <1>9, <1>10

(* The steps that touch neither the ring nor the waves. *)
LEMMA ControlStep ==
  ASSUME IInv, UNCHANGED <<ring, waves, completed>>,
         \/ \E b \in BOOLEAN : SetPlaying(b) \/ SetSuspended(b)
         \/ Shutdown \/ Callback \/ Exit \/ UNCHANGED vars
  PROVE  IInv'
<1> USE DEF IInv
<1>1. UNCHANGED <<packets, head, tail, count, pending, wave, block, nextWave, device, completed>>
  BY DEF ring, waves
<1>2. playing' \in BOOLEAN /\ suspended' \in BOOLEAN /\ running' \in BOOLEAN
      /\ pc' \in {"loop", "callback", "exited"}
  BY DEF SetPlaying, SetSuspended, Shutdown, Callback, Exit, vars, control, TypeOK
<1>3. PendingSet' = PendingSet /\ Queued' = Queued
  BY <1>1 DEF PendingSet, Queued
<1>4. TypeOK'
  BY <1>1, <1>2 DEF TypeOK
<1>5. QED
  BY <1>1, <1>3, <1>4, CapacityMeaning DEF VoiceMatchesWaves, RingInv, WaveInv

(* The invariant is inductive. *)
LEMMA StepIInv == IInv /\ [Next]_vars => IInv'
<1> SUFFICES ASSUME IInv, [Next]_vars PROVE IInv'
  OBVIOUS
<1>1. CASE ServeOne
  BY <1>1, HandOverStep DEF ServeOne, Active, FirstFree, IInv, TypeOK
<1>2. CASE ServeRefused
  BY <1>2, KeepStep DEF ServeRefused, FirstFree, HandOverFails
<1>3. CASE ServeNone
  <2>1. Account /\ NothingToHandOver
    BY <1>3 DEF ServeNone
  <2>2. UNCHANGED <<ring, nextWave, device>> /\ pending' = StillPending
        /\ UNCHANGED <<wave, block>>
    BY <2>1 DEF NothingToHandOver
  <2>3. QED  BY <2>1, <2>2, KeepStep
<1>4. CASE Callback \/ Exit
  BY <1>4, ControlStep DEF Callback, Exit
<1>5. CASE \E p \in Packet : Enqueue(p)
  BY <1>5, EnqueueStep
<1>6. CASE Clear
  BY <1>6, ClearStep
<1>7. CASE \E b \in BOOLEAN : SetPlaying(b) \/ SetSuspended(b)
  BY <1>7, ControlStep DEF SetPlaying, SetSuspended
<1>8. CASE Shutdown
  BY <1>8, ControlStep DEF Shutdown
<1>9. CASE Played
  BY <1>9, PlayedStep
<1>10. CASE UNCHANGED vars
  BY <1>10, ControlStep DEF vars
<1>11. QED
  BY <1>1, <1>2, <1>3, <1>4, <1>5, <1>6, <1>7, <1>8, <1>9, <1>10
     DEF Next, ClientStep, PlayerStep

--------------------------------------------------------------------------------
(* The theorems *)

(* The player's state is well typed. *)
THEOREM PlayerTypeCorrect == Spec => []TypeOK
<1>1. IInv => TypeOK
  BY DEF IInv
<1>2. QED  BY InitIInv, StepIInv, <1>1, PTL DEF Spec

(* The limit of queue_enqueue_common holds whatever the driver refuses. *)
THEOREM LimitHolds == Spec => []CapacityRespected
<1>1. IInv => CapacityRespected
  BY DEF IInv
<1>2. QED  BY InitIInv, StepIInv, <1>1, PTL DEF Spec

(* The voice plays exactly the wave buffers that the player takes for       *)
(* queued, and none twice.                                                  *)
THEOREM VoiceAgrees == Spec => []VoiceMatchesWaves
<1>1. IInv => VoiceMatchesWaves
  BY DEF IInv
<1>2. QED  BY InitIInv, StepIInv, <1>1, PTL DEF Spec

--------------------------------------------------------------------------------
(* The refinement of AudioQueue *)

QWaiting == [k \in 1 .. count |-> packets[(head + (k - 1)) % RingSize]]
QPlaying == [k \in 1 .. Len(device) |-> block[device[k]]]
QPlayed == Cardinality(Reportable)
QOwed == pc = "callback"
Content == Packet \cup {NoPacket}

(* The packets found going round the ring from place h.                     *)
Around(h, c, ps) == [k \in 1 .. c |-> ps[(h + (k - 1)) % RingSize]]

LEMMA RingSeq ==
  ASSUME NEW h \in Place, NEW c \in 0 .. RingSize, NEW ps \in [Place -> Content]
  PROVE  /\ Around(h, c, ps) \in Seq(Content) /\ Len(Around(h, c, ps)) = c
         /\ \A k \in 1 .. c : Around(h, c, ps)[k] = ps[(h + (k - 1)) % RingSize]
<1>1. ASSUME NEW k \in 1 .. c PROVE ps[(h + (k - 1)) % RingSize] \in Content
  <2>1. h + (k - 1) \in 0 .. RingSize + RingSize - 1
    BY SizeAssumption DEF Place
  <2>2. QED  BY <2>1, RingPlace
<1>2. Around(h, c, ps) \in [1 .. c -> Content] /\ c \in Nat
  BY <1>1, SizeAssumption DEF Around
<1>3. QED  BY <1>2 DEF Around

LEMMA WaitingSeq ==
  ASSUME IInv
  PROVE  /\ QWaiting \in Seq(Content) /\ Len(QWaiting) = count
         /\ \A k \in 1 .. count : QWaiting[k] = packets[(head + (k - 1)) % RingSize]
<1>1. head \in Place /\ count \in 0 .. RingSize /\ packets \in [Place -> Content]
  BY DEF IInv, TypeOK, Content
<1>2. QWaiting = Around(head, count, packets)
  BY DEF QWaiting, Around
<1>3. QED  BY <1>1, <1>2, RingSeq

LEMMA WaitingSeqNext ==
  ASSUME IInv'
  PROVE  /\ QWaiting' \in Seq(Content) /\ Len(QWaiting') = count'
         /\ \A k \in 1 .. count' : QWaiting'[k] = packets'[(head' + (k - 1)) % RingSize]
<1>1. head' \in Place /\ count' \in 0 .. RingSize /\ packets' \in [Place -> Content]
  BY DEF IInv, TypeOK, Content
<1>2. QWaiting' = Around(head', count', packets')
  BY DEF QWaiting, Around
<1>3. QED  BY <1>1, <1>2, RingSeq

(* What the voice plays: the blocks of its wave buffers.                    *)
LEMMA VoiceSeq ==
  ASSUME NEW d \in Seq(Wave), NEW b \in [Wave -> Content],
         NEW s, s = [k \in 1 .. Len(d) |-> b[d[k]]]
  PROVE  /\ s \in Seq(Content) /\ Len(s) = Len(d) /\ Len(d) \in Nat
         /\ \A k \in 1 .. Len(d) : s[k] = b[d[k]] /\ d[k] \in Wave
<1>1. Len(d) \in Nat
  BY LenProperties
<1>2. \A k \in 1 .. Len(d) : d[k] \in Wave /\ b[d[k]] \in Content
  BY <1>1, ElementOfSeq
<1>3. s \in [1 .. Len(d) -> Content]
  BY <1>2
<1>4. QED  BY <1>1, <1>2, <1>3

LEMMA PlayingSeq ==
  ASSUME IInv
  PROVE  /\ QPlaying \in Seq(Content) /\ Len(QPlaying) = Len(device)
         /\ \A k \in 1 .. Len(device) : QPlaying[k] = block[device[k]] /\ device[k] \in Wave
         /\ Len(device) \in Nat
<1>1. device \in Seq(Wave) /\ block \in [Wave -> Content]
  BY DEF IInv, TypeOK, Content
<1>2. QED  BY <1>1, VoiceSeq DEF QPlaying

LEMMA PlayingSeqNext ==
  ASSUME IInv'
  PROVE  /\ QPlaying' \in Seq(Content) /\ Len(QPlaying') = Len(device')
         /\ \A k \in 1 .. Len(device') :
              QPlaying'[k] = block'[device'[k]] /\ device'[k] \in Wave
         /\ Len(device') \in Nat
<1>1. device' \in Seq(Wave) /\ block' \in [Wave -> Content]
  BY DEF IInv, TypeOK, Content
<1>2. QED  BY <1>1, VoiceSeq DEF QPlaying

(* The outstanding buffers of the code are those of the abstract queue.     *)
LEMMA OutstandingSum ==
  ASSUME IInv
  PROVE  /\ Cardinality(PendingSet) = Len(device) + QPlayed
         /\ QPlayed \in Nat
<1>1. PendingSet = Queued \cup Reportable /\ Queued \cap Reportable = {}
      /\ Queued \in SUBSET Wave /\ Reportable \in SUBSET Wave
  BY DEF IInv, WaveInv, VoiceMatchesWaves, PendingSet, Queued, Reportable
<1>2. IsFiniteSet(Queued) /\ IsFiniteSet(Reportable) /\ Cardinality(Queued) \in Nat
      /\ Cardinality(Reportable) \in Nat
  BY <1>1, WavesFinite
<1>3. Cardinality(Queued \cup Reportable) =
        Cardinality(Queued) + Cardinality(Reportable) - Cardinality(Queued \cap Reportable)
  BY <1>2, FS_Union
<1>4. Cardinality(Queued \cap Reportable) = 0
  BY <1>1, FS_EmptySet
<1>5. QED  BY <1>1, <1>2, <1>3, <1>4 DEF IInv, WaveInv, QPlayed

(* A new player is an empty queue.                                          *)
LEMMA QueueInit == Init => Queue!Init
<1> SUFFICES ASSUME Init PROVE Queue!Init
  OBVIOUS
<1>1. count = 0 /\ device = <<>> /\ Len(device) = 0 /\ pc = "loop"
  BY DEF Init
<1>2. Reportable = {} /\ Cardinality({}) = 0
  BY FS_EmptySet DEF Init, Reportable
<1>3. [k \in 1 .. count |-> packets[(head + (k - 1)) % RingSize]] = <<>>
  BY <1>1
<1>4. [k \in 1 .. Len(device) |-> block[device[k]]] = <<>>
  BY <1>1
<1>5. QED  BY <1>1, <1>2, <1>3, <1>4 DEF Queue!Init

(* Enqueue appends to what waits.                                           *)
LEMMA QueueEnqueue ==
  ASSUME IInv, IInv', NEW p \in Packet, Enqueue(p) PROVE Queue!Enqueue(p)
<1>1. /\ packets' = [packets EXCEPT ![tail] = p] /\ count' = count + 1
      /\ UNCHANGED <<head, pending, wave, block, device, pc>>
      /\ count + Cardinality(PendingSet) < Capacity
  BY Room DEF Enqueue, waves, Outstanding
<1>2. QPlaying' = QPlaying /\ QPlayed' = QPlayed /\ (QOwed' <=> QOwed)
  BY <1>1 DEF QPlaying, QPlayed, QOwed, Reportable
<1>3. Len(QWaiting) + Len(QPlaying) + QPlayed < Capacity
  BY <1>1, WaitingSeq, PlayingSeq, OutstandingSum, Room
<1>4. QWaiting' = Append(QWaiting, p)
  <2>1. QWaiting' \in Seq(Content) /\ Len(QWaiting') = count + 1
        /\ \A k \in 1 .. count + 1 : QWaiting'[k] = packets'[(head + (k - 1)) % RingSize]
    BY <1>1, WaitingSeqNext
  <2>2. /\ Append(QWaiting, p) \in Seq(Content) /\ Len(Append(QWaiting, p)) = count + 1
        /\ \A k \in 1 .. count : Append(QWaiting, p)[k] = QWaiting[k]
        /\ Append(QWaiting, p)[count + 1] = p
    BY WaitingSeq, AppendProperties DEF Content
  <2>3. ASSUME NEW k \in 1 .. count + 1 PROVE QWaiting'[k] = Append(QWaiting, p)[k]
    <3>0. tail = (head + count) % RingSize /\ tail \in Place
          /\ head + count \in 0 .. RingSize + RingSize - 1
          /\ tail = IF head + count < RingSize THEN head + count ELSE head + count - RingSize
      <4>1. head + count \in 0 .. RingSize + RingSize - 1
        BY <1>1, Room
      <4>2. tail = (head + count) % RingSize /\ tail \in Place
        BY DEF IInv, RingInv, TypeOK
      <4>3. QED  BY <4>1, <4>2, RingPlace, Room
    <3>1. CASE k = count + 1
      <4>1. k - 1 = count
        BY <3>1, Room
      <4>2. packets'[tail] = p
        BY <1>1, <3>0 DEF IInv, TypeOK
      <4>3. QED  BY <2>1, <2>2, <3>0, <3>1, <4>1, <4>2
    <3>2. CASE k \in 1 .. count
      <4> DEFINE x == head + (k - 1)
      <4>1. x \in 0 .. RingSize + RingSize - 1 /\ x % RingSize \in Place
        <5>1. x \in 0 .. RingSize + RingSize - 1
          BY <3>2, Room
        <5>2. QED  BY <5>1, RingPlace
      <4>2. x % RingSize = IF x < RingSize THEN x ELSE x - RingSize
        BY <4>1, RingPlace, Room
      <4>3. x % RingSize # tail
        BY <1>1, <3>0, <3>2, <4>2, Room
      <4>4. packets'[x % RingSize] = packets[x % RingSize]
        BY <1>1, <4>1, <4>3 DEF IInv, TypeOK
      <4>5. QED  BY <2>1, <2>2, <3>2, <4>4, WaitingSeq
    <3>3. k = count + 1 \/ k \in 1 .. count
      BY Room
    <3>4. QED  BY <3>1, <3>2, <3>3
  <2>4. QED  BY <2>1, <2>2, <2>3, SeqEqual
<1>5. QED
  BY <1>2, <1>3, <1>4 DEF Queue!Enqueue, QWaiting, QPlaying, QPlayed, QOwed

(* A turn of the thread reports the first played buffer, or none.           *)
LEMMA QueueReport ==
  ASSUME IInv, pc = "loop", Account, Reportable' = Reportable \ Reported
  PROVE  Queue!Report \/ (QPlayed' = QPlayed /\ (QOwed' <=> QOwed))
<1>1. Reportable \in SUBSET Wave
  BY DEF Reportable
<1>2. CASE Reported = {}
  <2>1. pc' = "loop" /\ Reportable' = Reportable
    BY <1>2 DEF Account
  <2>2. QED  BY <2>1 DEF QPlayed, QOwed
<1>3. CASE Reported # {}
  <2>1. PICK r : Reported = {r} /\ r \in Reportable
    BY <1>3, ReportedOne
  <2>2. /\ Cardinality(Reportable \ {r}) = Cardinality(Reportable) - 1
        /\ Cardinality(Reportable) \in Nat /\ Cardinality(Reportable) >= 1
    BY <1>1, <2>1, OneLess, WavesFinite
  <2>3. Cardinality(Reportable') = Cardinality(Reportable) - 1
    BY <2>1, <2>2
  <2>4. pc' = "callback"
    BY <1>3 DEF Account
  <2>5. Cardinality(Reportable) > 0
    BY <2>2
  <2>6. QED  BY <2>3, <2>4, <2>5 DEF Queue!Report
<1>4. QED  BY <1>2, <1>3

(* A hand-over moves the first waiting packet to the end of the voice.      *)
LEMMA QueueHandOver ==
  ASSUME IInv, IInv', NEW w \in Wave, count > 0, IsFree(w), HandOver(w)
  PROVE  /\ Queue!HandOver
         /\ Reportable' = Reportable \ Reported
<1>1. /\ head' = (head + 1) % RingSize /\ count' = count - 1
      /\ block' = [block EXCEPT ![w] = packets[head]]
      /\ wave' = [wave EXCEPT ![w] = "queued"]
      /\ pending' = [StillPending EXCEPT ![w] = TRUE]
      /\ device' = Append(device, w) /\ packets' = packets
      /\ ~StillPending[w] /\ wave[w] # "queued"
  BY DEF HandOver, Copy, IsFree
<1>2. Reportable' = Reportable \ Reported
  BY <1>1 DEF Reportable, StillPending, IInv, TypeOK
<1>3. count \in 1 .. RingSize /\ head \in 0 .. RingSize - 1 /\ RingSize \in Nat \ {0}
  BY Room
<1>4. QWaiting # <<>> /\ QWaiting[1] = packets[head]
  <2>1. head \in 0 .. RingSize + RingSize - 1 /\ head + (1 - 1) = head /\ 1 \in 1 .. count
    BY <1>3
  <2>2. head % RingSize = head
    BY <1>3, <2>1, RingPlace
  <2>3. QWaiting[1] = packets[(head + (1 - 1)) % RingSize] /\ Len(QWaiting) = count
    BY <2>1, WaitingSeq
  <2>4. Len(QWaiting) # 0 /\ Len(<<>>) = 0
    BY <1>3, <2>3
  <2>5. QED  BY <2>1, <2>2, <2>3, <2>4
<1>5. QWaiting' = Tail(QWaiting)
  <2>1. /\ Tail(QWaiting) \in Seq(Content) /\ Len(Tail(QWaiting)) = count - 1
        /\ \A k \in 1 .. count - 1 : Tail(QWaiting)[k] = QWaiting[k + 1]
    BY <1>4, WaitingSeq, HeadTailProperties
  <2>2. /\ QWaiting' \in Seq(Content) /\ Len(QWaiting') = count - 1
        /\ \A k \in 1 .. count - 1 : QWaiting'[k] = packets[(head' + (k - 1)) % RingSize]
    BY <1>1, WaitingSeqNext
  <2>3. ASSUME NEW k \in 1 .. count - 1 PROVE QWaiting'[k] = Tail(QWaiting)[k]
    <3>1. k + 1 \in 1 .. count /\ (k + 1) - 1 = k
      BY <1>3
    <3>2. (head' + (k - 1)) % RingSize = (head + k) % RingSize
      <4>1. /\ head + k \in 0 .. RingSize + RingSize - 1
            /\ head + 1 \in 0 .. RingSize + RingSize - 1
        BY <1>3
      <4>2. head' = IF head + 1 < RingSize THEN head + 1 ELSE head + 1 - RingSize
        <5>1. (head + 1) % RingSize = IF head + 1 < RingSize THEN head + 1 ELSE head + 1 - RingSize
          <6> DEFINE x == head + 1
          <6>1. x \in 0 .. RingSize + RingSize - 1
            BY <4>1
          <6> HIDE DEF x
          <6>2. x % RingSize = IF x < RingSize THEN x ELSE x - RingSize
            BY <6>1, RingPlace
          <6>3. QED  BY <1>3, <6>2 DEF x
        <5>2. QED  BY <1>1, <5>1
      <4>3. CASE head + 1 < RingSize
        BY <1>3, <4>2, <4>3
      <4>4. CASE ~(head + 1 < RingSize)
        <5>1. head' = 0 /\ head = RingSize - 1 /\ head' + (k - 1) = k - 1
              /\ k - 1 \in 0 .. RingSize + RingSize - 1 /\ k - 1 < RingSize
          BY <1>3, <4>2, <4>4
        <5>2. (k - 1) % RingSize = k - 1
          BY <5>1, RingPlace
        <5>3. /\ head + k = k - 1 + RingSize /\ ~(head + k < RingSize)
              /\ head + k - RingSize = k - 1
          BY <1>3, <5>1
        <5>4. (head + k) % RingSize = head + k - RingSize
          BY <1>3, <4>1, <5>3, RingPlace
        <5>5. QED  BY <5>1, <5>2, <5>3, <5>4
      <4>5. QED  BY <4>3, <4>4
    <3>3. QWaiting[k + 1] = packets[(head + k) % RingSize]
      BY <3>1, WaitingSeq
    <3>4. QED  BY <2>1, <2>2, <3>2, <3>3
  <2>4. QED  BY <2>1, <2>2, <2>3, SeqEqual
<1>6. QPlaying' = Append(QPlaying, packets[head])
  <2>0. packets[head] \in Content
    BY <1>3 DEF IInv, TypeOK, Place, Content
  <2>1. /\ Append(QPlaying, packets[head]) \in Seq(Content)
        /\ Len(Append(QPlaying, packets[head])) = Len(device) + 1
        /\ \A k \in 1 .. Len(device) : Append(QPlaying, packets[head])[k] = QPlaying[k]
        /\ Append(QPlaying, packets[head])[Len(device) + 1] = packets[head]
    BY <2>0, PlayingSeq, AppendProperties
  <2>2. /\ Len(device') = Len(device) + 1 /\ Len(device) \in Nat
        /\ \A k \in 1 .. Len(device) : device'[k] = device[k]
        /\ device'[Len(device) + 1] = w
    BY <1>1, AppendProperties, LenProperties DEF IInv, TypeOK
  <2>3. QPlaying' \in Seq(Content) /\ Len(QPlaying') = Len(device) + 1
        /\ \A k \in 1 .. Len(device) + 1 : QPlaying'[k] = block'[device'[k]]
    BY <2>2, PlayingSeqNext
  <2>4. ASSUME NEW k \in 1 .. Len(device) + 1
        PROVE  QPlaying'[k] = Append(QPlaying, packets[head])[k]
    <3>1. CASE k = Len(device) + 1
      <4>1. block'[w] = packets[head]
        BY <1>1 DEF IInv, TypeOK
      <4>2. QED  BY <2>1, <2>2, <2>3, <3>1, <4>1
    <3>2. CASE k \in 1 .. Len(device)
      <4>1. device[k] # w /\ device[k] \in Wave
        BY <1>1, <3>2, PlayingSeq DEF IInv, VoiceMatchesWaves
      <4>2. block'[device[k]] = block[device[k]]
        BY <1>1, <4>1 DEF IInv, TypeOK
      <4>3. QED  BY <2>1, <2>2, <2>3, <3>2, <4>2, PlayingSeq
    <3>3. k = Len(device) + 1 \/ k \in 1 .. Len(device)
      BY <2>2
    <3>4. QED  BY <3>1, <3>2, <3>3
  <2>5. QED  BY <2>1, <2>3, <2>4, SeqEqual
<1>7. Head(QWaiting) = packets[head]
  BY <1>4, WaitingSeq, HeadTailProperties
<1>8. Queue!HandOver
  BY <1>4, <1>5, <1>6, <1>7 DEF Queue!HandOver, QWaiting, QPlaying
<1>9. QED  BY <1>2, <1>8

(* A turn without a hand-over leaves what waits and what plays.             *)
LEMMA QueueKeep ==
  ASSUME IInv, IInv', pending' = StillPending, UNCHANGED <<ring, nextWave, device>>,
         \/ UNCHANGED <<wave, block>>
         \/ \E w \in Wave : IsFree(w) /\ HandOverFails(w)
  PROVE  /\ QWaiting' = QWaiting /\ QPlaying' = QPlaying
         /\ Reportable' = Reportable \ Reported
<1>1. QWaiting' = QWaiting
  BY DEF QWaiting, ring
<1>2. CASE UNCHANGED <<wave, block>>
  <2>1. QPlaying' = QPlaying
    BY <1>2 DEF QPlaying
  <2>2. Reportable' = Reportable \ Reported
    BY <1>2 DEF Reportable, StillPending
  <2>3. QED  BY <1>1, <2>1, <2>2
<1>3. ASSUME NEW w \in Wave, IsFree(w), HandOverFails(w)
      PROVE  QPlaying' = QPlaying /\ Reportable' = Reportable \ Reported
  <2>1. /\ wave' = [wave EXCEPT ![w] = "free"] /\ wave[w] # "queued" /\ ~StillPending[w]
        /\ block' = [block EXCEPT ![w] = packets[head]]
    BY <1>3 DEF HandOverFails, Copy, IsFree
  <2>2. Reportable' = Reportable \ Reported
    BY <2>1 DEF Reportable, StillPending, IInv, TypeOK
  <2>3. ASSUME NEW k \in 1 .. Len(device) PROVE block'[device[k]] = block[device[k]]
    <3>1. device[k] # w /\ device[k] \in Wave
      BY <2>1, PlayingSeq DEF IInv, VoiceMatchesWaves
    <3>2. QED  BY <2>1, <3>1 DEF IInv, TypeOK
  <2>4. QPlaying' = QPlaying
    BY <2>3 DEF QPlaying
  <2>5. QED  BY <2>2, <2>4
<1>4. QED  BY <1>1, <1>2, <1>3

(* The driver's voice finishes the first buffer that plays.                 *)
LEMMA QueueFinish ==
  ASSUME IInv, IInv', Played PROVE Queue!Finish
<1> DEFINE w == Head(device)
<1>1. /\ device # <<>> /\ wave' = [wave EXCEPT ![w] = "done"] /\ device' = Tail(device)
      /\ UNCHANGED <<packets, head, count, pending, block, pc>>
  BY DEF Played, ring
<1>2. /\ w \in Wave /\ w = device[1] /\ Len(device) \in Nat \ {0}
      /\ Len(device') = Len(device) - 1
      /\ \A k \in 1 .. Len(device) - 1 : device'[k] = device[k + 1]
  BY <1>1, HeadTailProperties, LenProperties, EmptySeq DEF IInv, TypeOK
<1> HIDE DEF w
<1>3. wave[w] = "queued" /\ pending[w]
  BY <1>2 DEF IInv, VoiceMatchesWaves
<1>4. QWaiting' = QWaiting /\ (QOwed' <=> QOwed)
  BY <1>1 DEF QWaiting, QOwed
<1>5. QPlayed' = QPlayed + 1
  <2>1. Reportable' = Reportable \cup {w} /\ w \notin Reportable /\ Reportable \in SUBSET Wave
    BY <1>1, <1>2, <1>3 DEF Reportable, IInv, TypeOK
  <2>2. QED  BY <1>2, <2>1, OneMore DEF QPlayed
<1>6. QPlaying # <<>>
  BY <1>2, PlayingSeq, EmptySeq
<1>7. QPlaying' = Tail(QPlaying)
  <2>1. /\ Tail(QPlaying) \in Seq(Content) /\ Len(Tail(QPlaying)) = Len(device) - 1
        /\ \A k \in 1 .. Len(device) - 1 : Tail(QPlaying)[k] = QPlaying[k + 1]
    BY <1>6, PlayingSeq, HeadTailProperties
  <2>2. /\ QPlaying' \in Seq(Content) /\ Len(QPlaying') = Len(device) - 1
        /\ \A k \in 1 .. Len(device) - 1 : QPlaying'[k] = block[device[k + 1]]
    BY <1>1, <1>2, PlayingSeqNext
  <2>3. \A k \in 1 .. Len(device) - 1 : QPlaying'[k] = Tail(QPlaying)[k]
    BY <1>2, <2>1, <2>2, PlayingSeq
  <2>4. QED  BY <2>1, <2>2, <2>3, SeqEqual
<1>8. QED
  BY <1>4, <1>5, <1>6, <1>7 DEF Queue!Finish, QWaiting, QPlaying, QPlayed, QOwed

(* Clear empties the queue.                                                 *)
LEMMA QueueClear ==
  ASSUME Clear PROVE Queue!Clear
<1>1. /\ count' = 0 /\ device' = <<>> /\ pending' = [w \in Wave |-> FALSE] /\ pc' = pc
  BY DEF Clear
<1>2. Reportable' = {} /\ Cardinality({}) = 0
  BY <1>1, FS_EmptySet DEF Reportable
<1>3. [k \in 1 .. count' |-> packets'[(head' + (k - 1)) % RingSize]] = <<>>
  BY <1>1
<1>4. [k \in 1 .. Len(device') |-> block'[device'[k]]] = <<>>
  BY <1>1
<1>5. QED  BY <1>1, <1>2, <1>3, <1>4 DEF Queue!Clear

(* Every step of the player is a step of the queue, or none.                *)
LEMMA QueueStep ==
  ASSUME IInv, IInv', [Next]_vars PROVE [Queue!Next]_(Queue!vars)
<1>0. ASSUME pc = "loop", Account, Reportable' = Reportable \ Reported,
             Queue!HandOver \/ (QWaiting' = QWaiting /\ QPlaying' = QPlaying)
      PROVE  Queue!Serve
  <2>1. Queue!Report \/ (QPlayed' = QPlayed /\ (QOwed' <=> QOwed))
    BY <1>0, QueueReport
  <2>2. QED  BY <1>0, <2>1 DEF Queue!Serve, QWaiting, QPlaying, QPlayed, QOwed
<1>1. CASE ServeOne
  <2>1. PICK w \in Wave : FirstFree(w) /\ HandOver(w)
    BY <1>1 DEF ServeOne
  <2>2. pc = "loop" /\ Account /\ count > 0 /\ IsFree(w)
    BY <1>1, <2>1 DEF ServeOne, Active, FirstFree
  <2>3. QED  BY <1>0, <2>1, <2>2, QueueHandOver DEF Queue!Next
<1>2. CASE ServeRefused
  <2>1. PICK w \in Wave : FirstFree(w) /\ HandOverFails(w)
    BY <1>2 DEF ServeRefused
  <2>2. pc = "loop" /\ Account /\ IsFree(w)
    BY <1>2, <2>1 DEF ServeRefused, FirstFree
  <2>3. pending' = StillPending /\ UNCHANGED <<ring, nextWave, device>>
    BY <2>1 DEF HandOverFails
  <2>4. QED  BY <1>0, <2>1, <2>2, <2>3, QueueKeep DEF Queue!Next
<1>3. CASE ServeNone
  <2>1. pc = "loop" /\ Account /\ NothingToHandOver
    BY <1>3 DEF ServeNone
  <2>2. UNCHANGED <<ring, nextWave, device>> /\ pending' = StillPending
        /\ UNCHANGED <<wave, block>>
    BY <2>1 DEF NothingToHandOver
  <2>3. QED  BY <1>0, <2>1, <2>2, QueueKeep DEF Queue!Next
<1>4. CASE Callback
  <2>1. pc = "callback" /\ pc' = "loop"
        /\ UNCHANGED <<packets, head, count, pending, wave, block, device>>
    BY <1>4 DEF Callback, ring, waves
  <2>2. QWaiting' = QWaiting /\ QPlaying' = QPlaying /\ QPlayed' = QPlayed
    BY <2>1 DEF QWaiting, QPlaying, QPlayed, Reportable
  <2>3. Queue!Callback
    BY <2>1, <2>2 DEF Queue!Callback, QWaiting, QPlaying, QPlayed
  <2>4. QED  BY <2>3 DEF Queue!Next
<1>5. CASE Exit \/ Shutdown \/ (\E b \in BOOLEAN : SetPlaying(b) \/ SetSuspended(b))
           \/ UNCHANGED vars
  <2>1. UNCHANGED <<packets, head, count, pending, wave, block, device>>
        /\ (pc' = "callback" <=> pc = "callback")
    BY <1>5 DEF Exit, Shutdown, SetPlaying, SetSuspended, vars, ring, waves
  <2>2. QWaiting' = QWaiting /\ QPlaying' = QPlaying /\ QPlayed' = QPlayed
    BY <2>1 DEF QWaiting, QPlaying, QPlayed, Reportable
  <2>3. QED  BY <2>1, <2>2 DEF Queue!vars, QWaiting, QPlaying, QPlayed
<1>6. CASE \E p \in Packet : Enqueue(p)
  BY <1>6, QueueEnqueue DEF Queue!Next
<1>7. CASE Clear
  BY <1>7, QueueClear DEF Queue!Next
<1>8. CASE Played
  BY <1>8, QueueFinish DEF Queue!Next
<1>9. QED
  BY <1>1, <1>2, <1>3, <1>4, <1>5, <1>6, <1>7, <1>8 DEF Next, ClientStep, PlayerStep

(* The ring, the wave buffers and the voice together behave as one queue:   *)
(* every buffer is played once, in enqueue order, and reported once.        *)
THEOREM PlayerIsAQueue == Spec => ImplementsQueue
<1>1. IInv /\ IInv' /\ [Next]_vars => [Queue!Next]_(Queue!vars)
  BY QueueStep
<1>2. QED  BY InitIInv, StepIInv, QueueInit, <1>1, PTL DEF Spec, ImplementsQueue, Queue!Spec

--------------------------------------------------------------------------------
(* Frames: nothing the queue still works with is taken up again.  The invariant *)
(* is F!IInv: the queue is in the order of the frames, so that a frame that is  *)
(* done vouches for all that is older, and a frame uses one of the bridge's     *)
(* slots at most.                                                               *)

(* How many slots there are, of either kind.                                *)
LEMMA FramesSizes ==
  ASSUME F!TypeOK
  PROVE  /\ F!Turns \in Nat /\ F!Turns >= 3
         /\ F!Slots \in 1 .. 3 /\ (F!Lsfg => F!Slots \in 2 .. 3) /\ (~F!Lsfg => F!Slots = 1)
<1>1. F!Slots \in 1 .. 3 /\ (F!Lsfg => F!Slots \in 2 .. 3) /\ (~F!Lsfg => F!Slots = 1)
  BY FramesAssumption DEF F!Slots
<1>2. F!Images \in Nat
  BY FramesAssumption DEF F!Images, F!TypeOK, F!Lsfg
<1>3. QED  BY <1>1, <1>2 DEF F!Turns

LEMMA FramesConstant ==
  ASSUME UNCHANGED mode
  PROVE  /\ F!Lsfg' = F!Lsfg /\ F!Slots' = F!Slots /\ F!Turns' = F!Turns /\ F!Items' = F!Items
  BY DEF F!Lsfg, F!Slots, F!Images, F!Turns, F!Items

(* The slots' ages: one more frame makes the others older by one.           *)
LEMMA FramesBack ==
  ASSUME F!TypeOK
  PROVE  /\ \A s \in 0 .. F!Slots - 1 : F!Back(s) \in 0 .. F!Slots - 1
         /\ \A s \in 0 .. F!Slots - 1 : F!Back(s) = F!Slots - 1 <=> s = cursor
         /\ F!Submitted \in 0 .. F!Slots - 1 /\ F!Back(F!Submitted) = 0
<1>1. F!Slots \in 1 .. 3 /\ cursor \in 0 .. F!Slots - 1
  BY FramesSizes DEF F!TypeOK
<1>2. CASE F!Slots = 1
  BY <1>1, <1>2 DEF F!Back, F!Submitted
<1>3. CASE F!Slots = 2
  BY <1>1, <1>3 DEF F!Back, F!Submitted
<1>4. CASE F!Slots = 3
  BY <1>1, <1>4 DEF F!Back, F!Submitted
<1>5. QED  BY <1>1, <1>2, <1>3, <1>4

LEMMA FramesAdvance ==
  ASSUME F!TypeOK, UNCHANGED mode, cursor' = (cursor + 1) % F!Slots
  PROVE  /\ cursor' \in 0 .. F!Slots - 1
         /\ \A s \in 0 .. F!Slots - 1 : s # cursor => F!Back(s)' = F!Back(s) + 1
         /\ \A s \in 0 .. F!Slots - 1 : s = cursor => F!Back(s)' = 0
         /\ F!Submitted' = cursor
<1>1. F!Slots \in 1 .. 3 /\ cursor \in 0 .. F!Slots - 1 /\ F!Slots' = F!Slots
  BY FramesSizes, FramesConstant DEF F!TypeOK
<1>2. CASE F!Slots = 1
  BY <1>1, <1>2 DEF F!Back, F!Submitted
<1>3. CASE F!Slots = 2
  BY <1>1, <1>3 DEF F!Back, F!Submitted
<1>4. CASE F!Slots = 3
  BY <1>1, <1>4 DEF F!Back, F!Submitted
<1>5. QED  BY <1>1, <1>2, <1>3, <1>4

(* The bridge's slots likewise.                                             *)
LEMMA FramesSince ==
  ASSUME F!TypeOK
  PROVE  /\ \A t \in 0 .. F!Turns - 1 : F!Since(t) \in 1 .. F!Turns
         /\ F!Since(turn) = F!Turns
         /\ (turn + F!Turns - 1) % F!Turns \in 0 .. F!Turns - 1
         /\ F!Since((turn + F!Turns - 1) % F!Turns) = 1
<1>1. F!Turns \in Nat /\ F!Turns >= 3 /\ turn \in 0 .. F!Turns - 1
  BY FramesSizes DEF F!TypeOK
<1>2. (turn + F!Turns - 1) % F!Turns = IF turn = 0 THEN F!Turns - 1 ELSE turn - 1
  BY <1>1
<1>3. QED  BY <1>1, <1>2 DEF F!Since

LEMMA FramesTurn ==
  ASSUME F!TypeOK, UNCHANGED mode, turn' = (turn + 1) % F!Turns
  PROVE  /\ turn' \in 0 .. F!Turns - 1
         /\ \A t \in 0 .. F!Turns - 1 : F!Since(t)' = IF t = turn THEN 1 ELSE F!Since(t) + 1
<1>1. F!Turns \in Nat /\ F!Turns >= 3 /\ turn \in 0 .. F!Turns - 1 /\ F!Turns' = F!Turns
  BY FramesSizes, FramesConstant DEF F!TypeOK
<1>2. turn' = IF turn = F!Turns - 1 THEN 0 ELSE turn + 1
  BY <1>1
<1>3. QED  BY <1>1, <1>2 DEF F!Since

(* The queue's items, and what the queue is after one more and one less.    *)
LEMMA FramesItems ==
  ASSUME NEW k \in {"frame", "show", "warm", "generate", "restore"},
         NEW s \in 0 .. F!Slots - 1,
         NEW t, t = F!None \/ t \in 0 .. F!Turns - 1, NEW b \in BOOLEAN
  PROVE  /\ F!Item(k, s, t, b) \in F!Items
         /\ F!Item(k, s, t, b).kind = k /\ F!Item(k, s, t, b).slot = s
         /\ F!Item(k, s, t, b).turn = t
  BY DEF F!Items, F!Item

LEMMA FramesQueued ==
  ASSUME F!TypeOK
  PROVE  /\ F!Queued = 1 .. Len(gpu) /\ Len(gpu) \in Nat
         /\ \A i \in F!Queued : gpu[i].slot \in 0 .. F!Slots - 1
         /\ \A i \in F!Queued :
               F!Back(gpu[i].slot) \in 0 .. F!Slots - 1 /\ F!Back(gpu[i].slot) >= 0
         /\ \A i \in F!Queued : gpu[i].turn # F!None =>
               gpu[i].turn \in 0 .. F!Turns - 1 /\ F!Since(gpu[i].turn) \in 1 .. F!Turns
<1>1. F!Queued = 1 .. Len(gpu) /\ Len(gpu) \in Nat /\ \A i \in F!Queued : gpu[i] \in F!Items
  BY DEF F!Queued, F!TypeOK
<1>2. \A x \in F!Items :
            x.slot \in 0 .. F!Slots - 1 /\ x.turn \in (0 .. F!Turns - 1) \cup {F!None}
  BY DEF F!Items
<1>3. \A i \in F!Queued :
         gpu[i].slot \in 0 .. F!Slots - 1 /\ gpu[i].turn \in (0 .. F!Turns - 1) \cup {F!None}
  BY <1>1, <1>2
<1>4. \A s \in 0 .. F!Slots - 1 : F!Back(s) \in 0 .. F!Slots - 1 /\ F!Back(s) >= 0
  BY FramesBack, FramesSizes
<1>5. QED  BY <1>1, <1>3, <1>4, FramesSince

LEMMA FramesAppended ==
  ASSUME gpu \in Seq(F!Items), NEW x \in F!Items, gpu' = Append(gpu, x)
  PROVE  /\ gpu' \in Seq(F!Items) /\ F!Queued' = F!Queued \cup {Len(gpu) + 1}
         /\ Len(gpu) \in Nat /\ F!Queued = 1 .. Len(gpu)
         /\ gpu'[Len(gpu) + 1] = x
         /\ \A i \in F!Queued : gpu'[i] = gpu[i] /\ i < Len(gpu) + 1
  BY DEF F!Queued

LEMMA FramesTaken ==
  ASSUME gpu \in Seq(F!Items), gpu # <<>>, gpu' = Tail(gpu)
  PROVE  /\ gpu' \in Seq(F!Items) /\ Head(gpu) = gpu[1] /\ 1 \in F!Queued
         /\ \A i \in F!Queued' : i + 1 \in F!Queued /\ i >= 1 /\ gpu'[i] = gpu[i + 1]
         /\ \A i \in F!Queued : i = 1 \/ i - 1 \in F!Queued'
  BY DEF F!Queued

(* What leaves the queue, the slots and their fences alone keeps their      *)
(* order.                                                                   *)
LEMMA FramesSame ==
  ASSUME F!IInv, UNCHANGED <<F!frameVars, gpu>>
  PROVE  /\ F!QueueInOrder' /\ F!PendingFenceWillSignal'
         /\ /\ at' \in {"acquire", "draw"} => at \in {"acquire", "draw"}
            /\ at' \in {"present", "restore"} => at \in {"present", "restore"}
            => F!SlotsWait'
         /\ UNCHANGED <<runtime, turn>> /\ (at' = "present" => at = "present")
            => F!TurnsInOrder'
<1> USE DEF F!IInv, F!frameVars
<1>1. /\ F!Queued' = F!Queued /\ (F!Lsfg' <=> F!Lsfg) /\ F!Slots' = F!Slots
      /\ F!Turns' = F!Turns
  BY FramesConstant DEF F!Queued
<1>2. \A s : F!Back(s)' = F!Back(s) /\ F!FrameOf(s)' = F!FrameOf(s)
  BY <1>1 DEF F!Back, F!FrameOf
<1>3. F!QueueInOrder' /\ F!PendingFenceWillSignal'
  BY <1>1, <1>2 DEF F!QueueInOrder, F!PendingFenceWillSignal
<1>4. /\ at' \in {"acquire", "draw"} => at \in {"acquire", "draw"}
      /\ at' \in {"present", "restore"} => at \in {"present", "restore"}
      => F!SlotsWait'
  BY <1>1 DEF F!SlotsWait, F!Submitted
<1>5. UNCHANGED <<runtime, turn>> /\ (at' = "present" => at = "present") => F!TurnsInOrder'
  <2> SUFFICES ASSUME UNCHANGED <<runtime, turn>>, at' = "present" => at = "present"
               PROVE  F!TurnsInOrder'
    OBVIOUS
  <2>1. \A t : F!Since(t)' = F!Since(t)
    BY <1>1 DEF F!Since
  <2>2. F!Turns \in Nat /\ F!Slots \in Nat
    BY FramesSizes
  <2>3. QED  BY <1>1, <1>2, <2>1, <2>2, FramesQueued DEF F!TurnsInOrder
<1>6. QED  BY <1>3, <1>4, <1>5

(* A frame's item is appended for the slot that was taken, and for the slot *)
(* of the last frame the others.                                            *)
LEMMA FramesFollow ==
  ASSUME F!IInv, UNCHANGED F!frameVars,
         NEW x \in F!Items, x.slot = F!Submitted, x.kind # "frame", gpu' = Append(gpu, x),
         at = "present" \/ at = "restore", at' = "idle" \/ at' = "restore"
  PROVE  gpu' \in Seq(F!Items)' /\ F!SlotsWait' /\ F!PendingFenceWillSignal' /\ F!QueueInOrder'
<1> USE DEF F!IInv, F!frameVars
<1> DEFINE n == Len(gpu) + 1
<1>1. /\ gpu' \in Seq(F!Items) /\ F!Queued' = F!Queued \cup {n} /\ Len(gpu) \in Nat
      /\ F!Queued = 1 .. Len(gpu) /\ gpu'[n] = x
      /\ \A i \in F!Queued : gpu'[i] = gpu[i] /\ i < n
  BY FramesAppended DEF F!TypeOK
<1>2. (F!Lsfg' <=> F!Lsfg) /\ F!Slots' = F!Slots /\ F!Items' = F!Items
  BY FramesConstant
<1> HIDE DEF n
<1>9. F!Submitted \in busy
  BY DEF F!SlotsWait
<1>3. /\ n \notin F!Queued /\ \A i \in F!Queued' : i \in F!Queued \/ i = n
      /\ \A i, j \in F!Queued' : i < j => i \in F!Queued
  BY <1>1 DEF n
<1>4. \A s : F!Back(s)' = F!Back(s) /\ F!FrameOf(s)' = F!FrameOf(s)
  BY <1>1, <1>2, <1>3 DEF F!Back, F!FrameOf
<1>5. F!SlotsWait'
  <2>1. \A i \in F!Queued' : gpu'[i].kind = "frame" => i \in F!Queued /\ gpu'[i] = gpu[i]
    BY <1>1, <1>3
  <2>2. \A i \in F!Queued' : F!Lsfg => gpu'[i].slot \in busy
    BY <1>1, <1>3, <1>9 DEF F!SlotsWait
  <2>3. QED  BY <1>2, <1>9, <2>1, <2>2 DEF F!SlotsWait, F!Submitted
<1>6. F!PendingFenceWillSignal'
  BY <1>4 DEF F!PendingFenceWillSignal
<1>7. F!QueueInOrder'
  <2>1. F!Back(x.slot) = 0
    BY FramesBack
  <2>3. \A s \in busy : F!Back(s) >= 0
    BY FramesBack, FramesSizes DEF F!TypeOK
  <2>4. ASSUME F!Lsfg, NEW i \in F!Queued', NEW j \in F!Queued', i < j
        PROVE  /\ F!Back(gpu'[j].slot) <= F!Back(gpu'[i].slot)
               /\ gpu'[j].kind = "frame" => F!Back(gpu'[j].slot) < F!Back(gpu'[i].slot)
    <3>1. i \in F!Queued /\ gpu'[i] = gpu[i]
      BY <1>1, <1>3, <2>4
    <3>2. CASE j \in F!Queued
      BY <1>1, <2>4, <3>1, <3>2 DEF F!QueueInOrder
    <3>3. CASE j = n
      BY <1>1, <2>1, <3>1, <3>3, FramesQueued
    <3>4. QED  BY <1>3, <3>2, <3>3
  <2>5. ASSUME F!Lsfg, NEW s \in busy, F!FrameOf(s) = {}, NEW i \in F!Queued'
        PROVE  F!Back(gpu'[i].slot) <= F!Back(s)
    BY <1>1, <1>3, <2>1, <2>3, <2>5 DEF F!QueueInOrder
  <2>6. QED  BY <1>2, <1>4, <2>4, <2>5 DEF F!QueueInOrder
<1>8. QED  BY <1>1, <1>2, <1>5, <1>6, <1>7

(* Nothing is queued, and nothing waits.                                    *)
LEMMA FramesInit == F!Init => F!IInv
<1> SUFFICES ASSUME F!Init PROVE F!IInv
  OBVIOUS
<1>1. F!Queued = {} /\ gpu \in Seq(F!Items)
  BY DEF F!Init, F!Queued
<1>2. mode \in {"plain", "lowlatency", "lsfg"} =>
         F!Slots \in 1 .. 3 /\ F!Turns \in Nat /\ F!Turns >= 3
  <2>1. mode \in {"plain", "lowlatency", "lsfg"} => F!Images \in Nat
    BY FramesAssumption DEF F!Images, F!Lsfg
  <2>2. QED  BY <2>1, FramesAssumption DEF F!Turns, F!Slots
<1>3. F!TypeOK
  <2>1. /\ mode \in {"plain", "lowlatency", "lsfg"} /\ 0 \in 0 .. F!Slots - 1
        /\ 0 \in 0 .. F!Turns - 1
    BY <1>2 DEF F!Init
  <2>2. /\ cursor = 0 /\ busy = {} /\ unsignaled = {} /\ turn = 0
        /\ fifo = 0 /\ leaked = 0 /\ real = 0 /\ fidx = 0
        /\ owed = FALSE /\ shown = FALSE /\ requested = FALSE
        /\ runtime = FALSE /\ attempted = FALSE /\ skipped = FALSE
    BY DEF F!Init
  <2>3. /\ owed \in BOOLEAN /\ shown \in BOOLEAN /\ requested \in BOOLEAN
        /\ runtime \in BOOLEAN /\ attempted \in BOOLEAN /\ skipped \in BOOLEAN
    BY <2>2, Zenon
  <2>4. cursor \in 0 .. F!Slots - 1 /\ turn \in 0 .. F!Turns - 1
    BY <2>1, <2>2
  <2>5. fifo \in Nat /\ leaked \in Nat /\ real \in 0 .. 2 /\ fidx \in 0 .. 1
    BY <2>2
  <2>6. busy \subseteq 0 .. F!Slots - 1 /\ unsignaled \subseteq 0 .. F!Slots - 1
    BY <2>2
  <2>7. QED  BY <1>1, <2>1, <2>3, <2>4, <2>5, <2>6 DEF F!TypeOK
<1>4. F!BridgeInStep /\ F!PictureTaken
  BY DEF F!Init, F!BridgeInStep, F!PictureTaken
<1>5. F!SlotsWait /\ F!PendingFenceWillSignal /\ F!QueueInOrder /\ F!TurnsInOrder
  BY <1>1 DEF F!Init, F!SlotsWait, F!PendingFenceWillSignal, F!QueueInOrder, F!TurnsInOrder
<1>6. QED  BY <1>3, <1>4, <1>5 DEF F!IInv

(* A slot that is ready has nothing left in the queue: the following frame  *)
(* is done, so all that is older is.                                        *)
LEMMA FramesReady ==
  ASSUME F!IInv, F!SlotReady
  PROVE  /\ F!SlotsWait' /\ F!PendingFenceWillSignal' /\ F!QueueInOrder' /\ F!TurnsInOrder'
<1> USE DEF F!IInv
<1>1. /\ at = "slot" /\ at' = "acquire" /\ busy' = busy \ {cursor}
      /\ UNCHANGED <<mode, cursor, unsignaled, gpu, runtime, turn>>
      /\ F!SlotFinished(cursor)
  BY DEF F!SlotReady, F!lsfgVars
<1>2. /\ F!Queued' = F!Queued /\ (F!Lsfg' <=> F!Lsfg) /\ F!Slots' = F!Slots
      /\ F!Turns' = F!Turns
  BY <1>1, FramesConstant DEF F!Queued
<1>3. \A s :
            F!Back(s)' = F!Back(s) /\ F!FrameOf(s)' = F!FrameOf(s) /\ F!Since(s)' = F!Since(s)
  BY <1>1, <1>2 DEF F!Back, F!FrameOf, F!Since
<1>4. \A i \in F!Queued : gpu[i].kind = "frame" \/ F!Lsfg => gpu[i].slot # cursor
  <2>1. CASE cursor \notin busy
    BY <2>1 DEF F!SlotsWait
  <2>2. CASE F!Slots = 1 /\ cursor \notin unsignaled
    BY <2>2, FramesSizes DEF F!SlotsWait
  <2>3. CASE F!Slots # 1 /\ (cursor + 1) % F!Slots \in busy
                       /\ (cursor + 1) % F!Slots \notin unsignaled
    <3> DEFINE guard == (cursor + 1) % F!Slots
    <3>1. F!Lsfg /\ F!Slots \in 2 .. 3
      BY <2>3, FramesSizes
    <3>2. F!FrameOf(guard) = {}
      BY <2>3 DEF F!FrameOf, F!SlotsWait
    <3>3. guard \in 0 .. F!Slots - 1 /\ guard # cursor
      BY <3>1 DEF F!TypeOK
    <3>4. F!Back(guard) < F!Slots - 1
      BY <3>1, <3>3, FramesBack DEF F!TypeOK
    <3>5. F!Back(cursor) = F!Slots - 1
      BY FramesBack DEF F!TypeOK
    <3>6. \A i \in F!Queued : F!Back(gpu[i].slot) <= F!Back(guard)
      BY <2>3, <3>1, <3>2 DEF F!QueueInOrder
    <3>7. QED
      <4> HIDE DEF guard
      <4>1. F!Back(guard) \in 0 .. F!Slots - 1 /\ F!Slots \in Nat
        BY <3>1, <3>3, FramesBack
      <4>2. QED  BY <3>4, <3>5, <3>6, <4>1, FramesQueued
  <2>4. CASE gpu = <<>>
    BY <2>4 DEF F!Queued
  <2>5. QED  BY <1>1, <2>1, <2>2, <2>3, <2>4 DEF F!SlotFinished
<1>5. F!SlotsWait'
  BY <1>1, <1>2, <1>4 DEF F!SlotsWait
<1>6. F!PendingFenceWillSignal' /\ F!QueueInOrder'
  BY <1>1, <1>2, <1>3 DEF F!PendingFenceWillSignal, F!QueueInOrder
<1>7. F!TurnsInOrder'
  BY <1>1, <1>2, <1>3 DEF F!TurnsInOrder
<1>8. QED  BY <1>5, <1>6, <1>7

(* A frame that is drawn is the newest.                                     *)
LEMMA FramesDraw ==
  ASSUME F!IInv, F!Draw
  PROVE  /\ F!TypeOK' /\ F!SlotsWait' /\ F!PendingFenceWillSignal'
         /\ F!QueueInOrder' /\ F!TurnsInOrder'
<1> USE DEF F!IInv
<1>0. PICK n, c, x :
         n = Len(gpu) + 1 /\ c = cursor /\ x = F!Item("frame", cursor, F!None, FALSE)
  OBVIOUS
<1>1. /\ at = "draw" /\ at' = "present" /\ busy' = busy \cup {c}
      /\ unsignaled' = unsignaled \cup {c} /\ cursor' = (cursor + 1) % F!Slots
      /\ gpu' = Append(gpu, x) /\ owed' = FALSE
      /\ UNCHANGED <<mode, fifo, shown, leaked, requested>>
      /\ UNCHANGED <<runtime, attempted, real, fidx, turn, skipped>>
  BY <1>0 DEF F!Draw, F!lsfgVars
<1>2. x \in F!Items /\ x.kind = "frame" /\ x.slot = c /\ x.turn = F!None
  <2>1. PICK s \in 0 .. F!Slots - 1 : s = cursor
    BY DEF F!TypeOK
  <2>2. PICK b \in BOOLEAN : b = FALSE
    OBVIOUS
  <2>3. x = F!Item("frame", s, F!None, b) /\ s = c
    BY <1>0, <2>1, <2>2
  <2>4. QED  BY <2>3, FramesItems
<1>3. /\ gpu' \in Seq(F!Items) /\ F!Queued' = F!Queued \cup {n}
      /\ gpu'[n] = x /\ \A i \in F!Queued : gpu'[i] = gpu[i] /\ i < n
      /\ Len(gpu) \in Nat /\ F!Queued = 1 .. Len(gpu)
  BY <1>0, <1>1, <1>2, FramesAppended DEF F!TypeOK
<1>4. /\ n \notin F!Queued /\ \A i \in F!Queued' : i \in F!Queued \/ i = n
      /\ \A i, j \in F!Queued' : i < j => i \in F!Queued
  BY <1>3
<1>5. (F!Lsfg' <=> F!Lsfg) /\ F!Slots' = F!Slots /\ F!Turns' = F!Turns /\ F!Items' = F!Items
  BY <1>1, FramesConstant
<1>6. c \notin busy /\ c \in 0 .. F!Slots - 1
  BY <1>0, <1>1 DEF F!SlotsWait, F!TypeOK
<1>7. /\ cursor' \in 0 .. F!Slots - 1 /\ F!Submitted' = c /\ F!Back(x.slot)' = 0
      /\ \A s \in 0 .. F!Slots - 1 : s # c => F!Back(s)' = F!Back(s) + 1
  BY <1>0, <1>1, <1>2, <1>6, FramesAdvance
<1>8. F!TypeOK'
  BY <1>1, <1>3, <1>5, <1>7, <1>6 DEF F!TypeOK
<1>9. \A s : s # c => (F!FrameOf(s)' = {} => F!FrameOf(s) = {})
  BY <1>3 DEF F!FrameOf
<1>10. F!SlotsWait'
  <2>1. \A i \in F!Queued : gpu[i].kind = "frame" \/ F!Lsfg => gpu[i].slot # c
    BY <1>6 DEF F!SlotsWait
  <2>2. \A i \in F!Queued' : gpu'[i].kind = "frame" => gpu'[i].slot \in unsignaled'
    BY <1>1, <1>2, <1>3, <1>4 DEF F!SlotsWait
  <2>3. \A i \in F!Queued' : gpu'[i].kind = "frame" \/ F!Lsfg => gpu'[i].slot \in busy'
    BY <1>1, <1>2, <1>3, <1>4 DEF F!SlotsWait
  <2>4. \A i, j \in F!Queued' :
          gpu'[i].kind = "frame" /\ gpu'[j].kind = "frame" /\ gpu'[i].slot = gpu'[j].slot => i = j
    BY <1>2, <1>3, <1>4, <2>1 DEF F!SlotsWait
  <2>5. QED  BY <1>1, <1>5, <1>7, <2>2, <2>3, <2>4 DEF F!SlotsWait
<1>11. F!PendingFenceWillSignal'
  <2>1. n \in F!FrameOf(c)'
    BY <1>2, <1>3 DEF F!FrameOf
  <2>2. QED  BY <1>1, <1>9, <2>1 DEF F!PendingFenceWillSignal
<1>12. F!QueueInOrder'
  <2> SUFFICES ASSUME F!Lsfg PROVE F!QueueInOrder'
    BY <1>5 DEF F!QueueInOrder
  <2>1. \A i \in F!Queued :
           /\ F!Back(gpu[i].slot)' = F!Back(gpu[i].slot) + 1
           /\ F!Back(gpu[i].slot) \in Nat
    BY <1>3, <1>7, <1>6, FramesQueued DEF F!SlotsWait
  <2>2. \A s \in busy : F!Back(s)' = F!Back(s) + 1 /\ F!Back(s) \in Nat
    BY <1>7, <1>6, FramesBack, FramesSizes DEF F!TypeOK
  <2>3. F!Back(gpu[n].slot)' = 0
    BY <1>3, <1>7
  <2>4. ASSUME NEW i \in F!Queued', NEW j \in F!Queued', i < j
        PROVE  /\ F!Back(gpu[j].slot)' <= F!Back(gpu[i].slot)'
               /\ gpu'[j].kind = "frame" => F!Back(gpu[j].slot)' < F!Back(gpu[i].slot)'
    <3>1. i \in F!Queued
      BY <1>4, <2>4
    <3>2. CASE j \in F!Queued
      <4>1. /\ F!Back(gpu[j].slot) <= F!Back(gpu[i].slot)
            /\ gpu[j].kind = "frame" => F!Back(gpu[j].slot) < F!Back(gpu[i].slot)
        BY <2>4, <3>1, <3>2 DEF F!QueueInOrder
      <4>2. gpu'[j].kind = gpu[j].kind
        BY <1>3, <3>2
      <4>3. QED  BY <2>1, <3>1, <3>2, <4>1, <4>2
    <3>3. CASE j = n
      BY <2>1, <2>3, <3>1, <3>3
    <3>4. QED  BY <1>4, <3>2, <3>3
  <2>5. ASSUME NEW s \in busy', F!FrameOf(s)' = {}, NEW i \in F!Queued'
        PROVE  F!Back(gpu[i].slot)' <= F!Back(s)'
    <3>1. s # c
      BY <1>2, <1>3, <2>5 DEF F!FrameOf
    <3>2. s \in busy /\ F!FrameOf(s) = {}
      BY <1>1, <1>9, <2>5, <3>1
    <3>3. CASE i \in F!Queued
      BY <2>1, <2>2, <3>2, <3>3 DEF F!QueueInOrder
    <3>4. CASE i = n
      BY <2>2, <2>3, <3>2, <3>4
    <3>5. QED  BY <1>4, <3>3, <3>4
  <2>6. QED  BY <2>4, <2>5 DEF F!QueueInOrder
<1>13. F!TurnsInOrder'
  <2> SUFFICES ASSUME NEW i \in F!Queued', gpu'[i].turn # F!None
               PROVE  runtime' /\ F!Since(gpu[i].turn)' <= F!Back(gpu[i].slot)' + 0
    BY <1>1 DEF F!TurnsInOrder
  <2>1. i \in F!Queued /\ gpu'[i] = gpu[i]
    BY <1>2, <1>3, <1>4
  <2>2. runtime /\ F!Since(gpu[i].turn) <= F!Back(gpu[i].slot) + 1
    BY <1>1, <2>1 DEF F!TurnsInOrder
  <2>3. gpu[i].slot # c
    BY <1>6, <2>1, <2>2 DEF F!BridgeInStep, F!SlotsWait
  <2>4. F!Since(gpu[i].turn)' = F!Since(gpu[i].turn)
    BY <1>1, <1>5, <2>1 DEF F!Since
  <2>5. F!Back(gpu[i].slot)' = F!Back(gpu[i].slot) + 1
    BY <1>7, <2>1, <2>3, FramesQueued
  <2>6. F!Back(gpu[i].slot) \in Nat
    BY <2>1, FramesQueued
  <2>7. QED  BY <1>1, <2>2, <2>4, <2>5, <2>6
<1>14. QED  BY <1>8, <1>10, <1>11, <1>12, <1>13


(* What is done leaves the queue from its head; a frame's fence is signaled *)
(* when everything older is done as well.                                   *)
LEMMA FramesExecute ==
  ASSUME F!IInv, F!Execute
  PROVE  F!IInv'
<1> USE DEF F!IInv
<1>1. /\ gpu # <<>> /\ gpu' = Tail(gpu)
      /\ unsignaled' = IF Head(gpu).kind = "frame" THEN unsignaled \ {Head(gpu).slot}
                                                   ELSE unsignaled
      /\ fifo' = IF Head(gpu).shows THEN fifo + 1 ELSE fifo
      /\ UNCHANGED <<mode, at, owed, cursor, busy, shown, leaked, requested>>
      /\ UNCHANGED <<runtime, attempted, real, fidx, turn, skipped>>
  BY DEF F!Execute, F!lsfgVars
<1>2. /\ gpu' \in Seq(F!Items) /\ Head(gpu) = gpu[1] /\ 1 \in F!Queued
      /\ \A i \in F!Queued' : i + 1 \in F!Queued /\ i >= 1 /\ gpu'[i] = gpu[i + 1]
      /\ \A i \in F!Queued : i = 1 \/ i - 1 \in F!Queued'
  BY <1>1, FramesTaken DEF F!TypeOK
<1>3. (F!Lsfg' <=> F!Lsfg) /\ F!Slots' = F!Slots /\ F!Turns' = F!Turns /\ F!Items' = F!Items
  BY <1>1, FramesConstant
<1>4. \A s : F!Back(s)' = F!Back(s) /\ F!Since(s)' = F!Since(s)
  BY <1>1, <1>3 DEF F!Back, F!Since
<1>5. F!Queued = 1 .. Len(gpu) /\ Len(gpu) \in Nat
  BY FramesQueued
<1>6. unsignaled' \subseteq unsignaled
  BY <1>1
<1>7. F!TypeOK'
  <2>1. fifo' \in Nat
    BY <1>1 DEF F!TypeOK
  <2>2. QED  BY <1>1, <1>2, <1>3, <1>6, <2>1 DEF F!TypeOK
<1>8. F!BridgeInStep' /\ F!PictureTaken'
  BY <1>1, <1>3 DEF F!BridgeInStep, F!PictureTaken
<1>9. \A s : F!FrameOf(s)' = {} => \/ F!FrameOf(s) = {}
                                 \/ (gpu[1].kind = "frame" /\ gpu[1].slot = s)
  <2> SUFFICES ASSUME NEW s, F!FrameOf(s)' = {}, NEW i \in F!Queued,
                      gpu[i].kind = "frame", gpu[i].slot = s
               PROVE  gpu[1].kind = "frame" /\ gpu[1].slot = s
    BY DEF F!FrameOf
  <2>1. CASE i = 1
    BY <2>1
  <2>2. CASE i # 1
    <3>1. i - 1 \in F!Queued' /\ (i - 1) + 1 = i
      BY <1>2, <1>5, <2>2
    <3>2. gpu'[i - 1] = gpu[i]
      BY <1>2, <3>1
    <3>3. i - 1 \in F!FrameOf(s)'
      BY <3>1, <3>2 DEF F!FrameOf
    <3>4. QED  BY <3>3
  <2>3. QED  BY <2>1, <2>2
<1>10. F!SlotsWait'
  <2>1. ASSUME NEW i \in F!Queued', gpu'[i].kind = "frame"
        PROVE  gpu'[i].slot \in unsignaled'
    <3>0. i + 1 # 1
      BY DEF F!Queued
    <3>1. gpu[i + 1].slot \in unsignaled /\ i + 1 # 1
      BY <1>2, <2>1, <3>0 DEF F!SlotsWait
    <3>2. Head(gpu).kind = "frame" => Head(gpu).slot # gpu[i + 1].slot
      BY <1>2, <2>1, <3>1 DEF F!SlotsWait
    <3>3. QED  BY <1>1, <1>2, <3>1, <3>2
  <2>2. \A i \in F!Queued' : gpu'[i].kind = "frame" \/ F!Lsfg => gpu'[i].slot \in busy
    BY <1>2 DEF F!SlotsWait
  <2>3. \A i, j \in F!Queued' :
          gpu'[i].kind = "frame" /\ gpu'[j].kind = "frame" /\ gpu'[i].slot = gpu'[j].slot => i = j
    <3> SUFFICES ASSUME NEW i \in F!Queued', NEW j \in F!Queued', gpu'[i].kind = "frame",
                        gpu'[j].kind = "frame", gpu'[i].slot = gpu'[j].slot
                 PROVE  i = j
      OBVIOUS
    <3>1. i + 1 = j + 1
      BY <1>2 DEF F!SlotsWait
    <3>2. i \in Int /\ j \in Int
      BY DEF F!Queued
    <3>3. QED  BY <3>1, <3>2
  <2>4. F!Submitted' = F!Submitted
    BY <1>1, <1>3 DEF F!Submitted
  <2>5. QED  BY <1>1, <1>3, <2>1, <2>2, <2>3, <2>4 DEF F!SlotsWait
<1>11. F!PendingFenceWillSignal'
  <2> SUFFICES ASSUME NEW s \in busy, s \in unsignaled', F!FrameOf(s)' = {}
               PROVE  FALSE
    BY <1>1 DEF F!PendingFenceWillSignal
  <2>1. gpu[1].kind = "frame" /\ gpu[1].slot = s
    BY <1>6, <1>9 DEF F!PendingFenceWillSignal
  <2>2. QED  BY <1>1, <1>2, <2>1
<1>12. F!QueueInOrder'
  <2> SUFFICES ASSUME F!Lsfg PROVE F!QueueInOrder'
    BY <1>3 DEF F!QueueInOrder
  <2>1. ASSUME NEW i \in F!Queued', NEW j \in F!Queued', i < j
        PROVE  /\ F!Back(gpu[j].slot)' <= F!Back(gpu[i].slot)'
               /\ gpu'[j].kind = "frame" => F!Back(gpu[j].slot)' < F!Back(gpu[i].slot)'
    <3>1. i + 1 < j + 1
      BY <2>1 DEF F!Queued
    <3>2. /\ F!Back(gpu[j + 1].slot) <= F!Back(gpu[i + 1].slot)
          /\ gpu[j + 1].kind = "frame" => F!Back(gpu[j + 1].slot) < F!Back(gpu[i + 1].slot)
      BY <1>2, <3>1 DEF F!QueueInOrder
    <3>3. /\ F!Back(gpu[j].slot)' = F!Back(gpu[j + 1].slot)
          /\ F!Back(gpu[i].slot)' = F!Back(gpu[i + 1].slot)
          /\ gpu'[j].kind = gpu[j + 1].kind
      BY <1>1, <1>2, <1>3 DEF F!Back
    <3>4. QED  BY <3>2, <3>3
  <2>2. ASSUME NEW s \in busy', F!FrameOf(s)' = {}, NEW i \in F!Queued'
        PROVE  F!Back(gpu[i].slot)' <= F!Back(s)'
    <3>1. F!Back(gpu[i].slot)' = F!Back(gpu[i + 1].slot) /\ F!Back(s)' = F!Back(s)
      BY <1>1, <1>2, <1>3 DEF F!Back
    <3>2. i + 1 \in F!Queued /\ 1 < i + 1
      BY <1>2 DEF F!Queued
    <3>3. CASE F!FrameOf(s) = {}
      BY <1>1, <2>2, <3>1, <3>2, <3>3 DEF F!QueueInOrder
    <3>4. CASE gpu[1].slot = s
      BY <1>2, <3>1, <3>2, <3>4 DEF F!QueueInOrder
    <3>5. QED  BY <1>9, <2>2, <3>3, <3>4
  <2>3. QED  BY <2>1, <2>2 DEF F!QueueInOrder
<1>13. F!TurnsInOrder'
  <2> SUFFICES ASSUME NEW i \in F!Queued', gpu'[i].turn # F!None
               PROVE  runtime /\ F!Since(gpu[i].turn)'
                        <= F!Back(gpu[i].slot)' + (IF at = "present" THEN 0 ELSE 1)
    BY <1>1 DEF F!TurnsInOrder
  <2>1. /\ F!Since(gpu[i].turn)' = F!Since(gpu[i + 1].turn)
        /\ F!Back(gpu[i].slot)' = F!Back(gpu[i + 1].slot)
    BY <1>1, <1>2, <1>3 DEF F!Back, F!Since
  <2>2. QED  BY <1>2, <2>1 DEF F!TurnsInOrder
<1>14. QED  BY <1>7, <1>8, <1>10, <1>11, <1>12, <1>13

(* What is presented directly, and the bridge's first capture.              *)
LEMMA FramesDirect ==
  ASSUME F!IInv, F!PresentDirect
  PROVE  F!IInv'
<1> USE DEF F!IInv
<1>0. PICK b \in BOOLEAN : /\ gpu' = Append(gpu, F!Item("show", F!Submitted, F!None, b))
                           /\ leaked' = leaked + F!Lost(b)
  BY DEF F!PresentDirect, F!Outcome
<1>9. PICK x, n : x = F!Item("show", F!Submitted, F!None, b) /\ n = Len(gpu) + 1
  OBVIOUS
<1>1. /\ at = "present" /\ at' = "idle" /\ gpu' = Append(gpu, x) /\ UNCHANGED F!frameVars
      /\ UNCHANGED <<owed, fifo, shown, requested, runtime, attempted, real, fidx, turn, skipped>>
  BY <1>0, <1>9 DEF F!PresentDirect, F!lsfgVars
<1>2. x \in F!Items /\ x.slot = F!Submitted /\ x.kind # "frame" /\ x.turn = F!None
  <2>1. PICK s \in 0 .. F!Slots - 1 : s = F!Submitted
    BY FramesBack
  <2>2. PICK t : t = F!None
    OBVIOUS
  <2>3. x = F!Item("show", s, t, b)
    BY <1>9, <2>1, <2>2
  <2>4. x \in F!Items /\ x.slot = s /\ x.kind = "show" /\ x.turn = t
    BY <2>2, <2>3, FramesItems
  <2>5. QED  BY <2>1, <2>2, <2>4
<1>3. gpu' \in Seq(F!Items)' /\ F!SlotsWait' /\ F!PendingFenceWillSignal' /\ F!QueueInOrder'
  BY <1>1, <1>2, FramesFollow
<1>4. (F!Lsfg' <=> F!Lsfg) /\ F!Slots' = F!Slots /\ F!Turns' = F!Turns
  BY <1>1, FramesConstant DEF F!frameVars
<1>5. F!TypeOK'
  <2>1. leaked' \in Nat
    BY <1>0 DEF F!TypeOK, F!Lost
  <2>2. QED  BY <1>1, <1>3, <1>4, <2>1 DEF F!TypeOK, F!frameVars
<1>6. F!BridgeInStep' /\ F!PictureTaken'
  BY <1>1, <1>4 DEF F!BridgeInStep, F!PictureTaken
<1>7. F!TurnsInOrder'
  <2>1. /\ F!Queued' = F!Queued \cup {n} /\ gpu'[n] = x
        /\ \A i \in F!Queued : gpu'[i] = gpu[i] /\ i < n
    BY <1>1, <1>2, <1>9, FramesAppended DEF F!TypeOK
  <2> SUFFICES ASSUME NEW i \in F!Queued', gpu'[i].turn # F!None
               PROVE  runtime /\ F!Since(gpu[i].turn)' <= F!Back(gpu[i].slot)' + 1
    BY <1>1 DEF F!TurnsInOrder
  <2>2. i \in F!Queued /\ gpu'[i] = gpu[i]
    BY <1>2, <2>1
  <2>3. /\ F!Since(gpu[i].turn)' = F!Since(gpu[i].turn)
        /\ F!Back(gpu[i].slot)' = F!Back(gpu[i].slot)
    BY <1>1, <1>4, <2>2 DEF F!Since, F!Back, F!frameVars
  <2>4. runtime /\ F!Since(gpu[i].turn) <= F!Back(gpu[i].slot) + 0
    BY <1>1, <2>2 DEF F!TurnsInOrder
  <2>5. F!Since(gpu[i].turn) \in Int /\ F!Back(gpu[i].slot) \in Int
    BY <2>2, FramesQueued, FramesSizes
  <2>6. QED  BY <2>3, <2>4, <2>5
<1>8. QED  BY <1>3, <1>5, <1>6, <1>7

(* The bridge's capture, of the first frame or with the generated image: it *)
(* uses the bridge's slot for the frame that was submitted last.            *)
LEMMA FramesCapture ==
  ASSUME F!IInv, UNCHANGED <<F!frameVars, runtime>>, runtime, F!Lsfg,
         NEW x \in F!Items, x.slot = F!Submitted, x.turn = turn, x.kind # "frame",
         gpu' = Append(gpu, x), turn' = (turn + 1) % F!Turns,
         at = "present", at' = "idle" \/ at' = "restore"
  PROVE  F!TurnsInOrder'
<1> USE DEF F!IInv
<1>0. PICK n : n = Len(gpu) + 1
  OBVIOUS
<1>1. /\ F!Queued' = F!Queued \cup {n} /\ gpu'[n] = x
      /\ \A i \in F!Queued : gpu'[i] = gpu[i] /\ i < n
  BY <1>0, FramesAppended DEF F!TypeOK
<1>2. F!Slots' = F!Slots /\ F!Turns' = F!Turns
  BY FramesConstant DEF F!frameVars
<1>3. \A s : F!Back(s)' = F!Back(s)
  BY <1>2 DEF F!Back, F!frameVars
<1>4. \A t \in 0 .. F!Turns - 1 : F!Since(t)' = IF t = turn THEN 1 ELSE F!Since(t) + 1
  BY FramesTurn DEF F!frameVars
<1> SUFFICES ASSUME NEW i \in F!Queued', gpu'[i].turn # F!None
             PROVE  F!Since(gpu[i].turn)' <= F!Back(gpu[i].slot)' + 1
  BY DEF F!TurnsInOrder
<1>5. CASE i \in F!Queued
  <2>1. gpu'[i] = gpu[i]
    BY <1>1, <1>5
  <2>2. /\ F!Since(gpu[i].turn) \in 1 .. F!Turns /\ gpu[i].turn \in 0 .. F!Turns - 1
        /\ F!Back(gpu[i].slot) \in 0 .. F!Slots - 1 /\ F!Turns \in Nat /\ F!Slots \in Nat
    BY <1>5, <2>1, FramesQueued, FramesSizes
  <2>3. F!Since(gpu[i].turn) <= F!Back(gpu[i].slot) + 0
    BY <1>5, <2>1 DEF F!TurnsInOrder
  <2>4. F!Since(gpu[i].turn)' = IF gpu[i].turn = turn THEN 1 ELSE F!Since(gpu[i].turn) + 1
    <3>1. PICK t \in 0 .. F!Turns - 1 : t = gpu[i].turn
      BY <2>2
    <3>2. F!Since(gpu[i].turn)' = F!Since(t)'
      BY <2>1, <3>1 DEF F!Since
    <3>3. QED  BY <1>4, <3>1, <3>2
  <2>5. F!Back(gpu[i].slot)' = F!Back(gpu[i].slot)
    BY <1>2, <2>1 DEF F!Back, F!frameVars
  <2>6. QED  BY <2>2, <2>3, <2>4, <2>5
<1>6. CASE i = n
  <2>1. gpu'[i] = x
    BY <1>1, <1>6
  <2>2. PICK t \in 0 .. F!Turns - 1 : t = turn
    BY DEF F!TypeOK
  <2>3. F!Since(gpu[i].turn)' = F!Since(t)'
    BY <2>1, <2>2 DEF F!Since
  <2>4. F!Since(t)' = 1
    BY <1>4, <2>2
  <2>5. PICK s \in 0 .. F!Slots - 1 : s = F!Submitted
    BY FramesBack
  <2>6. F!Back(gpu[i].slot)' = F!Back(s)
    BY <1>2, <2>1, <2>5 DEF F!Back, F!frameVars
  <2>7. F!Back(s) \in Nat
    BY <2>5, FramesBack, FramesSizes
  <2>8. QED  BY <2>3, <2>4, <2>6, <2>7
<1>7. QED  BY <1>1, <1>5, <1>6

LEMMA FramesWarmUp ==
  ASSUME F!IInv, F!WarmUp
  PROVE  F!IInv'
<1> USE DEF F!IInv
<1>0. PICK b \in BOOLEAN : /\ gpu' = Append(gpu, F!Item("warm", F!Submitted, turn, b))
                           /\ leaked' = leaked + F!Lost(b)
  BY DEF F!WarmUp, F!Outcome
<1>9. PICK x : x = F!Item("warm", F!Submitted, turn, b)
  OBVIOUS
<1>1. /\ at = "present" /\ at' = "idle" /\ gpu' = Append(gpu, x) /\ UNCHANGED F!frameVars
      /\ requested /\ runtime /\ real = 0 /\ real' = 1 /\ turn' = (turn + 1) % F!Turns
      /\ UNCHANGED <<owed, fifo, shown, requested, runtime, attempted, fidx, skipped>>
  BY <1>0, <1>9 DEF F!WarmUp
<1>2. x \in F!Items /\ x.slot = F!Submitted /\ x.kind # "frame" /\ x.turn = turn
  <2>1. turn \in 0 .. F!Turns - 1
    BY DEF F!TypeOK
  <2>2. QED  BY <1>9, <2>1, FramesItems, FramesBack
<1>3. gpu' \in Seq(F!Items)' /\ F!SlotsWait' /\ F!PendingFenceWillSignal' /\ F!QueueInOrder'
  BY <1>1, <1>2, FramesFollow
<1>4. (F!Lsfg' <=> F!Lsfg) /\ F!Slots' = F!Slots /\ F!Turns' = F!Turns
  BY <1>1, FramesConstant DEF F!frameVars
<1>5. F!TypeOK'
  <2>1. leaked' \in Nat
    BY <1>0 DEF F!TypeOK, F!Lost
  <2>2. turn' \in 0 .. F!Turns - 1
    BY <1>1, FramesTurn DEF F!frameVars
  <2>3. QED  BY <1>1, <1>3, <1>4, <2>1, <2>2 DEF F!TypeOK, F!frameVars
<1>6. F!BridgeInStep' /\ F!PictureTaken'
  BY <1>1, <1>4 DEF F!BridgeInStep, F!PictureTaken
<1>7. F!TurnsInOrder'
  BY <1>1, <1>2, FramesCapture DEF F!BridgeInStep
<1>8. QED  BY <1>3, <1>5, <1>6, <1>7

LEMMA FramesGenerate ==
  ASSUME F!IInv, F!Generate
  PROVE  F!IInv'
<1> USE DEF F!IInv
<1>0. PICK b \in BOOLEAN : /\ gpu' = Append(gpu, F!Item("generate", F!Submitted, turn, b))
                           /\ leaked' = leaked + F!Lost(b)
                           /\ at' = IF b THEN "restore" ELSE "idle"
                           /\ skipped' = (skipped \/ ~b)
  BY DEF F!Generate, F!Outcome
<1>9. PICK x : x = F!Item("generate", F!Submitted, turn, b)
  OBVIOUS
<1>1. /\ at = "present" /\ gpu' = Append(gpu, x) /\ UNCHANGED F!frameVars
      /\ requested /\ runtime /\ real > 0 /\ fidx' = 1 - fidx
      /\ turn' = (turn + 1) % F!Turns
      /\ UNCHANGED <<owed, fifo, shown, requested, runtime, attempted, real>>
      /\ (at' = "restore" \/ at' = "idle") /\ skipped' \in BOOLEAN
      /\ ~skipped' => ~skipped /\ at' = "restore"
  BY <1>0, <1>9 DEF F!Generate, F!TypeOK
<1>2. x \in F!Items /\ x.slot = F!Submitted /\ x.kind # "frame" /\ x.turn = turn
  <2>1. turn \in 0 .. F!Turns - 1
    BY DEF F!TypeOK
  <2>2. QED  BY <1>9, <2>1, FramesItems, FramesBack
<1>3. gpu' \in Seq(F!Items)' /\ F!SlotsWait' /\ F!PendingFenceWillSignal' /\ F!QueueInOrder'
  BY <1>1, <1>2, FramesFollow
<1>4. (F!Lsfg' <=> F!Lsfg) /\ F!Slots' = F!Slots /\ F!Turns' = F!Turns
  BY <1>1, FramesConstant DEF F!frameVars
<1>5. F!TypeOK'
  <2>1. leaked' \in Nat
    BY <1>0 DEF F!TypeOK, F!Lost
  <2>2. turn' \in 0 .. F!Turns - 1
    BY <1>1, FramesTurn DEF F!frameVars
  <2>3. fidx' \in 0 .. 1
    BY <1>1 DEF F!TypeOK
  <2>4. QED  BY <1>1, <1>3, <1>4, <2>1, <2>2, <2>3 DEF F!TypeOK, F!frameVars
<1>6. F!BridgeInStep' /\ F!PictureTaken'
  BY <1>1, <1>4 DEF F!BridgeInStep, F!PictureTaken, F!TypeOK
<1>7. F!TurnsInOrder'
  BY <1>1, <1>2, FramesCapture DEF F!BridgeInStep
<1>8. QED  BY <1>3, <1>5, <1>6, <1>7

LEMMA FramesRestore ==
  ASSUME F!IInv, F!Restore
  PROVE  F!IInv'
<1> USE DEF F!IInv
<1>0. PICK b \in BOOLEAN, t \in 0 .. F!Turns - 1 :
         /\ t = (turn + F!Turns - 1) % F!Turns
         /\ gpu' = Append(gpu, F!Item("restore", F!Submitted, t, b))
         /\ leaked' = leaked + F!Lost(b)
  BY FramesSince DEF F!Restore, F!Outcome
<1>9. PICK x, n : x = F!Item("restore", F!Submitted, t, b) /\ n = Len(gpu) + 1
  OBVIOUS
<1>1. /\ at = "restore" /\ at' = "idle" /\ gpu' = Append(gpu, x) /\ UNCHANGED F!frameVars
      /\ real' = 3 - real
      /\ UNCHANGED <<owed, fifo, shown, requested, runtime, attempted, fidx, turn, skipped>>
  BY <1>0, <1>9 DEF F!Restore
<1>2. x \in F!Items /\ x.slot = F!Submitted /\ x.kind # "frame" /\ x.turn = t
  BY <1>0, <1>9, FramesItems, FramesBack, FramesSince
<1>3. gpu' \in Seq(F!Items)' /\ F!SlotsWait' /\ F!PendingFenceWillSignal' /\ F!QueueInOrder'
  BY <1>1, <1>2, FramesFollow
<1>4. (F!Lsfg' <=> F!Lsfg) /\ F!Slots' = F!Slots /\ F!Turns' = F!Turns
  BY <1>1, FramesConstant DEF F!frameVars
<1>10. runtime /\ real > 0
  BY <1>1 DEF F!BridgeInStep
<1>5. F!TypeOK'
  <2>1. leaked' \in Nat
    BY <1>0 DEF F!TypeOK, F!Lost
  <2>2. real' \in 0 .. 2
    BY <1>1, <1>10 DEF F!TypeOK
  <2>3. QED  BY <1>1, <1>3, <1>4, <2>1, <2>2 DEF F!TypeOK, F!frameVars
<1>6. F!BridgeInStep' /\ F!PictureTaken'
  BY <1>1, <1>4, <1>10 DEF F!BridgeInStep, F!PictureTaken, F!TypeOK
<1>7. F!TurnsInOrder'
  <2>1. /\ F!Queued' = F!Queued \cup {n} /\ gpu'[n] = x
        /\ \A i \in F!Queued : gpu'[i] = gpu[i] /\ i < n
    BY <1>1, <1>2, <1>9, FramesAppended DEF F!TypeOK
  <2> SUFFICES ASSUME NEW i \in F!Queued', gpu'[i].turn # F!None
               PROVE  F!Since(gpu[i].turn)' <= F!Back(gpu[i].slot)' + 1
    BY <1>1, <1>10 DEF F!TurnsInOrder
  <2>2. CASE i \in F!Queued
    <3>1. gpu'[i] = gpu[i]
      BY <2>1, <2>2
    <3>2. /\ F!Since(gpu[i].turn)' = F!Since(gpu[i].turn)
          /\ F!Back(gpu[i].slot)' = F!Back(gpu[i].slot)
      BY <1>1, <1>4, <3>1 DEF F!Since, F!Back, F!frameVars
    <3>3. F!Since(gpu[i].turn) <= F!Back(gpu[i].slot) + 1
      BY <1>1, <2>2, <3>1 DEF F!TurnsInOrder
    <3>4. QED  BY <3>2, <3>3
  <2>3. CASE i = n
    <3>1. gpu'[i] = x
      BY <2>1, <2>3
    <3>2. F!Since(gpu[i].turn)' = F!Since(t) /\ F!Back(gpu[i].slot)' = F!Back(F!Submitted)
      BY <1>1, <1>2, <1>4, <3>1 DEF F!Since, F!Back, F!frameVars
    <3>3. F!Since(t) = 1 /\ F!Back(F!Submitted) = 0
      BY <1>0, FramesSince, FramesBack
    <3>4. QED  BY <3>2, <3>3
  <2>4. QED  BY <2>1, <2>2, <2>3
<1>8. QED  BY <1>3, <1>5, <1>6, <1>7

(* What leaves the queue, the slots and their fences alone.                 *)
LEMMA FramesSteps ==
  ASSUME F!IInv,
         (\E consume \in BOOLEAN :
               F!Begin(consume)) \/ F!SlotTimeout \/ F!Acquire \/ F!AcquireFails
           \/ F!LsfgMissing \/ F!LsfgCreate \/ F!RestoreFails \/ F!Toggle \/ F!Resume
           \/ F!Display
  PROVE  F!IInv'
<1> USE DEF F!IInv
<1>1. UNCHANGED <<F!frameVars, gpu>>
  BY DEF F!Begin, F!SlotTimeout, F!Acquire, F!AcquireFails, F!LsfgMissing, F!LsfgCreate,
         F!RestoreFails, F!Toggle, F!Resume, F!Display
<1>2. (F!Lsfg' <=> F!Lsfg) /\ F!Slots' = F!Slots /\ F!Turns' = F!Turns /\ F!Items' = F!Items
  BY <1>1, FramesConstant DEF F!frameVars
<1>3. ASSUME NEW consume \in BOOLEAN, F!Begin(consume)
      PROVE  F!IInv'
  <2>1. /\ at = "idle" /\ owed' = (consume /\ mode = "lowlatency")
        /\ at' = (IF runtime /\ ~requested THEN "retire" ELSE "slot")
        /\ UNCHANGED <<fifo, shown, leaked, requested>>
        /\ UNCHANGED <<runtime, attempted, real, fidx, turn, skipped>>
    BY <1>3 DEF F!Begin, F!lsfgVars
  <2>2. F!TypeOK'
    BY <1>1, <1>2, <2>1 DEF F!TypeOK, F!frameVars
  <2>3. F!BridgeInStep' /\ F!PictureTaken'
    BY <1>1, <1>2, <2>1 DEF F!BridgeInStep, F!PictureTaken
  <2>4. QED  BY <1>1, <2>1, <2>2, <2>3, FramesSame
<1>4. ASSUME F!SlotTimeout \/ F!AcquireFails
      PROVE  F!IInv'
  <2>1. /\ owed' = FALSE /\ at' = "idle" /\ at \in {"slot", "acquire"}
        /\ UNCHANGED <<fifo, shown, leaked, requested>>
        /\ UNCHANGED <<runtime, attempted, real, fidx, turn, skipped>>
    BY <1>4 DEF F!SlotTimeout, F!AcquireFails, F!lsfgVars
  <2>2. F!TypeOK'
    BY <1>1, <1>2, <2>1 DEF F!TypeOK, F!frameVars
  <2>3. F!BridgeInStep' /\ F!PictureTaken'
    BY <1>1, <1>2, <2>1 DEF F!BridgeInStep, F!PictureTaken
  <2>4. QED  BY <1>1, <2>1, <2>2, <2>3, FramesSame
<1>5. ASSUME F!Acquire \/ F!Resume
      PROVE  F!IInv'
  <2>1. /\ (at = "acquire" /\ at' = "draw") \/ (at = "suspended" /\ at' = "idle")
        /\ UNCHANGED <<owed, fifo, shown, leaked, requested>>
        /\ UNCHANGED <<runtime, attempted, real, fidx, turn, skipped>>
    BY <1>5 DEF F!Acquire, F!Resume, F!lsfgVars
  <2>2. F!TypeOK'
    BY <1>1, <1>2, <2>1 DEF F!TypeOK, F!frameVars
  <2>3. F!BridgeInStep' /\ F!PictureTaken'
    BY <1>1, <1>2, <2>1 DEF F!BridgeInStep, F!PictureTaken
  <2>4. QED  BY <1>1, <2>1, <2>2, <2>3, FramesSame
<1>6. ASSUME F!LsfgMissing
      PROVE  F!IInv'
  <2>1. /\ at = "present" /\ at' = "idle" /\ attempted' = TRUE /\ leaked' = leaked + 1
        /\ UNCHANGED <<owed, fifo, shown, requested, runtime, real, fidx, turn, skipped>>
    BY <1>6 DEF F!LsfgMissing
  <2>2. F!TypeOK'
    BY <1>1, <1>2, <2>1 DEF F!TypeOK, F!frameVars
  <2>3. F!BridgeInStep' /\ F!PictureTaken'
    BY <1>1, <1>2, <2>1 DEF F!BridgeInStep, F!PictureTaken
  <2>4. QED  BY <1>1, <2>1, <2>2, <2>3, FramesSame
<1>7. ASSUME F!LsfgCreate
      PROVE  F!IInv'
  <2>1. /\ at = "present" /\ requested /\ ~runtime /\ runtime' = TRUE /\ attempted' = TRUE
        /\ UNCHANGED <<at, owed, fifo, shown, leaked, requested, real, fidx, turn, skipped>>
    BY <1>7 DEF F!LsfgCreate
  <2>2. F!TypeOK'
    BY <1>1, <1>2, <2>1 DEF F!TypeOK, F!frameVars
  <2>3. F!BridgeInStep' /\ F!PictureTaken'
    BY <1>1, <1>2, <2>1 DEF F!BridgeInStep, F!PictureTaken
  <2>4. F!TurnsInOrder'
    BY <1>1, <2>1 DEF F!TurnsInOrder, F!Queued
  <2>5. QED  BY <1>1, <2>1, <2>2, <2>3, <2>4, FramesSame
<1>8. ASSUME F!RestoreFails
      PROVE  F!IInv'
  <2>1. /\ at = "restore" /\ at' = "idle" /\ skipped' = TRUE
        /\ UNCHANGED <<owed, fifo, shown, leaked, requested, runtime, attempted, real, fidx, turn>>
    BY <1>8 DEF F!RestoreFails
  <2>2. F!TypeOK'
    BY <1>1, <1>2, <2>1 DEF F!TypeOK, F!frameVars
  <2>3. F!BridgeInStep' /\ F!PictureTaken'
    BY <1>1, <1>2, <2>1 DEF F!BridgeInStep, F!PictureTaken
  <2>4. QED  BY <1>1, <2>1, <2>2, <2>3, FramesSame
<1>9. ASSUME F!Toggle \/ F!Display
      PROVE  F!IInv'
  <2>0. fifo \in Nat /\ shown \in BOOLEAN /\ requested \in BOOLEAN
    BY DEF F!TypeOK
  <2>1. /\ UNCHANGED <<at, owed, leaked, runtime, attempted, real, fidx, turn, skipped>>
        /\ requested' \in BOOLEAN /\ fifo' \in Nat /\ shown' \in BOOLEAN
        /\ requested' => requested \/ F!Lsfg
    <3>1. CASE F!Toggle
      <4>1. /\ UNCHANGED <<at, owed, leaked, fifo, shown>> /\ UNCHANGED F!lsfgVars
            /\ F!Lsfg /\ requested' = ~requested
        BY <3>1 DEF F!Toggle
      <4>2. requested' \in BOOLEAN
        BY <4>1
      <4>3. QED  BY <2>0, <4>1, <4>2 DEF F!lsfgVars
    <3>2. CASE F!Display
      <4>1. /\ UNCHANGED <<at, owed, leaked, requested>> /\ UNCHANGED F!lsfgVars
            /\ fifo > 0 /\ fifo' = fifo - 1 /\ shown' = TRUE
        BY <3>2 DEF F!Display
      <4>2. fifo' \in Nat
        BY <2>0, <4>1
      <4>3. QED  BY <2>0, <4>1, <4>2 DEF F!lsfgVars
    <3>3. QED  BY <1>9, <3>1, <3>2
  <2>2. F!TypeOK'
    BY <1>1, <1>2, <2>1 DEF F!TypeOK, F!frameVars
  <2>3. F!BridgeInStep' /\ F!PictureTaken'
    BY <1>1, <1>2, <2>1 DEF F!BridgeInStep, F!PictureTaken
  <2>4. QED  BY <1>1, <2>1, <2>2, <2>3, FramesSame
<1>10. QED  BY <1>3, <1>4, <1>5, <1>6, <1>7, <1>8, <1>9

(* A frame that fails may have reset its fence; its slot waits for nothing. *)
LEMMA FramesDrawFails ==
  ASSUME F!IInv, F!DrawFails
  PROVE  F!IInv'
<1> USE DEF F!IInv
<1>1. /\ at = "draw" /\ at' = "idle" /\ owed' = FALSE /\ leaked' = leaked + 1
      /\ unsignaled \subseteq unsignaled' /\ unsignaled' \subseteq unsignaled \cup {cursor}
      /\ UNCHANGED <<mode, cursor, busy, gpu, fifo, shown, requested>>
      /\ UNCHANGED <<runtime, attempted, real, fidx, turn, skipped>>
  BY DEF F!DrawFails, F!lsfgVars
<1>2. /\ F!Queued' = F!Queued /\ (F!Lsfg' <=> F!Lsfg) /\ F!Slots' = F!Slots
      /\ F!Turns' = F!Turns /\ F!Items' = F!Items
  BY <1>1, FramesConstant DEF F!Queued
<1>3. \A s :
            F!Back(s)' = F!Back(s) /\ F!FrameOf(s)' = F!FrameOf(s) /\ F!Since(s)' = F!Since(s)
  BY <1>1, <1>2 DEF F!Back, F!FrameOf, F!Since
<1>4. cursor \notin busy
  BY <1>1 DEF F!SlotsWait
<1>5. F!TypeOK'
  <2>0. leaked \in Nat
    BY DEF F!TypeOK
  <2>1. leaked' \in Nat
    BY <1>1, <2>0
  <2>4. owed' \in BOOLEAN
    BY <1>1, Zenon
  <2>2. unsignaled' \subseteq 0 .. F!Slots - 1
    <3>1. cursor \in 0 .. F!Slots - 1 /\ unsignaled \subseteq 0 .. F!Slots - 1
      BY DEF F!TypeOK
    <3>2. QED  BY <1>1, <3>1
  <2>3. QED  BY <1>1, <1>2, <2>1, <2>2, <2>4 DEF F!TypeOK
<1>6. F!BridgeInStep' /\ F!PictureTaken'
  BY <1>1, <1>2 DEF F!BridgeInStep, F!PictureTaken
<1>7. F!SlotsWait'
  BY <1>1, <1>2 DEF F!SlotsWait
<1>8. F!PendingFenceWillSignal' /\ F!QueueInOrder' /\ F!TurnsInOrder'
  BY <1>1, <1>2, <1>3, <1>4 DEF F!PendingFenceWillSignal, F!QueueInOrder, F!TurnsInOrder
<1>9. QED  BY <1>5, <1>6, <1>7, <1>8

(* When the device is idle the slots are free and the runtime may go.       *)
LEMMA FramesIdle ==
  ASSUME F!IInv, F!Retire \/ F!Suspend
  PROVE  F!IInv'
<1> USE DEF F!IInv
<1>1. /\ gpu = <<>> /\ at' \in {"slot", "suspended"} /\ at \in {"retire", "idle"}
      /\ at' = "suspended" => at = "idle"
      /\ busy' \subseteq busy
      /\ busy' # busy => busy' = {}
      /\ UNCHANGED <<mode, owed, cursor, unsignaled, gpu, fifo, shown, leaked, requested>>
  BY DEF F!Retire, F!Suspend, F!frameVars
<1>2. \/ /\ runtime' = FALSE /\ attempted' = FALSE /\ real' = 0 /\ fidx' = 0 /\ turn' = 0
         /\ skipped' = FALSE
      \/ UNCHANGED <<runtime, attempted, real, fidx, turn, skipped>>
  BY DEF F!Retire, F!Suspend, F!lsfgVars
<1>3. F!Queued' = {} /\ F!Queued = {}
  BY <1>1 DEF F!Queued
<1>4. (F!Lsfg' <=> F!Lsfg) /\ F!Slots' = F!Slots /\ F!Turns' = F!Turns /\ F!Items' = F!Items
  BY <1>1, FramesConstant
<1>5. F!TypeOK'
  <2>1. 0 \in 0 .. F!Turns - 1
    BY FramesSizes
  <2>2. real' \in 0 .. 2 /\ fidx' \in 0 .. 1 /\ turn' \in 0 .. F!Turns - 1
    BY <1>2, <2>1 DEF F!TypeOK
  <2>3. runtime' \in BOOLEAN /\ attempted' \in BOOLEAN /\ skipped' \in BOOLEAN
    BY <1>2 DEF F!TypeOK
  <2>4. QED  BY <1>1, <1>4, <2>2, <2>3 DEF F!TypeOK
<1>6. F!BridgeInStep' /\ F!PictureTaken'
  BY <1>1, <1>2, <1>4 DEF F!BridgeInStep, F!PictureTaken
<1>7. F!SlotsWait' /\ F!QueueInOrder' /\ F!TurnsInOrder'
  BY <1>1, <1>3 DEF F!SlotsWait, F!QueueInOrder, F!TurnsInOrder
<1>8. F!PendingFenceWillSignal'
  BY <1>1 DEF F!PendingFenceWillSignal, F!FrameOf, F!Queued
<1>9. QED  BY <1>5, <1>6, <1>7, <1>8

LEMMA FramesStep ==
  ASSUME F!IInv, F!Next
  PROVE  F!IInv'
<1>1. ASSUME F!SlotReady
      PROVE  F!IInv'
  <2>1. /\ at = "slot" /\ at' = "acquire" /\ busy' = busy \ {cursor}
        /\ UNCHANGED <<mode, owed, cursor, unsignaled, gpu, fifo, shown, leaked, requested>>
        /\ UNCHANGED <<runtime, attempted, real, fidx, turn, skipped>>
    BY <1>1 DEF F!SlotReady, F!lsfgVars
  <2>2. /\ (F!Lsfg' <=> F!Lsfg) /\ F!Slots' = F!Slots /\ F!Turns' = F!Turns
        /\ F!Items' = F!Items
    BY <2>1, FramesConstant
  <2>3. F!TypeOK' /\ F!BridgeInStep' /\ F!PictureTaken'
    BY <2>1, <2>2 DEF F!IInv, F!TypeOK, F!BridgeInStep, F!PictureTaken
  <2>4. QED  BY <1>1, <2>3, FramesReady DEF F!IInv
<1>2. ASSUME F!Draw
      PROVE  F!IInv'
  <2>1. F!BridgeInStep' /\ F!PictureTaken'
    BY <1>2, FramesConstant DEF F!IInv, F!Draw, F!lsfgVars, F!BridgeInStep, F!PictureTaken
  <2>2. QED  BY <1>2, <2>1, FramesDraw DEF F!IInv
<1>3. QED
  BY <1>1, <1>2, FramesSteps, FramesDrawFails, FramesIdle, FramesDirect, FramesWarmUp,
     FramesGenerate, FramesRestore, FramesExecute
     DEF F!Next, F!Frame, F!Finish, F!Generation

LEMMA FramesStutter ==
  ASSUME F!IInv, UNCHANGED F!vars
  PROVE  F!IInv'
<1>1. /\ UNCHANGED <<F!frameVars, gpu, at, owed, fifo, shown, leaked, requested>>
      /\ UNCHANGED F!lsfgVars
  BY DEF F!vars, F!frameVars, F!lsfgVars
<1>2. (F!Lsfg' <=> F!Lsfg) /\ F!Slots' = F!Slots /\ F!Turns' = F!Turns /\ F!Items' = F!Items
  BY <1>1, FramesConstant DEF F!frameVars
<1>3. F!TypeOK'
  BY <1>1, <1>2 DEF F!IInv, F!TypeOK, F!frameVars, F!lsfgVars
<1>4. F!BridgeInStep' /\ F!PictureTaken'
  BY <1>1, <1>2 DEF F!IInv, F!BridgeInStep, F!PictureTaken, F!lsfgVars
<1>5. QED  BY <1>1, <1>3, <1>4, FramesSame DEF F!IInv, F!lsfgVars

(* A slot that is taken up has nothing left in the queue, since whatever is *)
(* there waits for its slot; the bridge's next slot was used last for a     *)
(* frame that is too far back to be in the queue.                           *)
LEMMA FramesSafe == F!IInv => F!FramesInOrder
<1> SUFFICES ASSUME F!IInv PROVE F!FramesInOrder
  OBVIOUS
<1> USE DEF F!IInv
<1>1. ASSUME at \in {"acquire", "draw"}
      PROVE  F!FrameOf(cursor) = {} /\ (F!Lsfg => F!UsesSlot(cursor) = {})
  BY <1>1 DEF F!SlotsWait, F!FrameOf, F!UsesSlot
<1>2. ASSUME at = "present", requested, runtime
      PROVE  F!UsesTurn(turn) = {}
  <2> SUFFICES ASSUME NEW i \in F!Queued, gpu[i].turn = turn PROVE FALSE
    BY DEF F!UsesTurn
  <2>1. turn \in 0 .. F!Turns - 1 /\ turn # F!None
    BY DEF F!TypeOK, F!None
  <2>2. F!Since(turn) <= F!Back(gpu[i].slot) + 0
    BY <1>2, <2>1 DEF F!TurnsInOrder
  <2>3. F!Since(turn) = F!Turns /\ F!Turns \in Nat /\ F!Turns >= 3 /\ F!Slots \in 1 .. 3
    BY FramesSince, FramesSizes
  <2>4. F!Back(gpu[i].slot) \in 0 .. F!Slots - 1
    BY FramesQueued
  <2>5. QED  BY <2>2, <2>3, <2>4
<1>3. ~runtime => \A i \in F!Queued : gpu[i].turn = F!None
  BY DEF F!TurnsInOrder
<1>4. F!CoreFrameTaken
  BY DEF F!CoreFrameTaken, F!PictureTaken
<1>5. F!SourcesInStep
  BY DEF F!SourcesInStep, F!Source, F!Expected, F!BridgeInStep
<1>6. QED  BY <1>1, <1>2, <1>3, <1>4, <1>5 DEF F!FramesInOrder, F!NothingReusedInUse

(* The invariant holds of the frames, also while they are left alone.           *)
LEMMA FramesAlways == OutputSpec => []F!IInv
<1>1. OutputInit => F!IInv
  BY FramesInit DEF OutputInit
<1>2. F!IInv /\ [OutputNext]_outputVars => F!IInv'
  <2> SUFFICES ASSUME F!IInv, [OutputNext]_outputVars PROVE F!IInv'
    OBVIOUS
  <2>1. F!Next \/ UNCHANGED F!vars
    BY DEF OutputNext, Audio, Video, F!Next, outputVars, frameVars, F!vars
  <2>2. QED  BY <2>1, FramesStep, FramesStutter
<1>3. QED  BY <1>1, <1>2, PTL DEF OutputSpec

(* Nothing of a frame is taken up again while the queue works with it, a fence  *)
(* the host may wait for will signal, the core's picture is taken by every      *)
(* frame that was to take it, and the bridge's source images stay in step.      *)
THEOREM FramesKeepOrder == OutputSpec => []FramesInOrder
<1>1. F!IInv => FramesInOrder
  BY FramesSafe DEF FramesInOrder
<1>2. QED  BY <1>1, FramesAlways, PTL
================================================================================
