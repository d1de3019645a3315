----------------------------- MODULE Fastmem_proofs -----------------------------
(***************************************************************************)
(* Proofs about Fastmem, for every number of pages, limit, batch size,     *)
(* arena and thread.                                                       *)
(***************************************************************************)
EXTENDS Fastmem, FiniteSetTheorems, TLAPS

(* What an operation in progress relies on: the area it works in is there,  *)
(* its loop index is in its range, a new mapping fits in its arena and goes *)
(* onto empty pages; and a released area left no entry behind.              *)
OpInv ==
  /\ op.kind # "idle" => area /\ op.first <= op.next /\ op.next <= op.end
  /\ op.kind \in {"alias", "install"} =>
       op.src \in Source /\ op.src[2] + (op.end - op.first) <= RegionPages
  /\ op.kind = "install" => \A p \in op.next .. op.end - 1 : pages[p] = Empty
  /\ ~area => \A p \in Page : pages[p] = Empty

IInv ==
  /\ TypeOK
  /\ TableMatchesKernel
  /\ LiveCountExact
  /\ RequestHonoured
  /\ OpInv

--------------------------------------------------------------------------------
(* Sets of pages *)

LEMMA SpanFinite ==
  ASSUME NEW i \in Int, NEW n \in Nat
  PROVE  IsFiniteSet(Span(i, n)) /\ Cardinality(Span(i, n)) = n
  BY FS_Interval, i + n - 1 \in Int DEF Span

LEMMA PagesFinite == \A S \in SUBSET Page : IsFiniteSet(S) /\ Cardinality(S) \in Nat
<1>1. IsFiniteSet(Page)
  BY FS_Interval, SizeAssumption DEF Page
<1>2. QED
  BY <1>1, FS_Subset, FS_CardinalityType

(* Taking n pages out of a set of pages, or adding n new ones, changes its  *)
(* size by n.                                                               *)
LEMMA SpanRemoved ==
  ASSUME NEW S \in SUBSET Page, NEW i \in Int, NEW n \in Nat, Span(i, n) \subseteq S
  PROVE  Cardinality(S) >= n /\ Cardinality(S \ Span(i, n)) = Cardinality(S) - n
<1> DEFINE T == Span(i, n)
<1>1. IsFiniteSet(S) /\ Cardinality(S) \in Nat
  BY PagesFinite
<1>2. IsFiniteSet(T) /\ Cardinality(T) = n
  BY SpanFinite
<1> HIDE DEF T
<1>3. T \in SUBSET S /\ S \cap T = T
  BY DEF T
<1>4. Cardinality(T) <= Cardinality(S)
  BY <1>1, <1>3, FS_Subset
<1>5. Cardinality(S \ T) = Cardinality(S) - Cardinality(S \cap T)
  BY <1>1, FS_Difference
<1>6. Cardinality(S) >= n /\ Cardinality(S \ T) = Cardinality(S) - n
  BY <1>1, <1>2, <1>3, <1>4, <1>5
<1> QED
  BY <1>6 DEF T

LEMMA SpanAdded ==
  ASSUME NEW S \in SUBSET Page, NEW i \in Int, NEW n \in Nat, S \cap Span(i, n) = {}
  PROVE  Cardinality(S \cup Span(i, n)) = Cardinality(S) + n
<1> DEFINE T == Span(i, n)
<1>1. IsFiniteSet(S) /\ Cardinality(S) \in Nat
  BY PagesFinite
<1>2. IsFiniteSet(T) /\ Cardinality(T) = n
  BY SpanFinite
<1>3. Cardinality(S \cap T) = 0
  BY FS_EmptySet
<1> HIDE DEF T
<1>4. Cardinality(S \cup T) = Cardinality(S) + Cardinality(T) - Cardinality(S \cap T)
  BY <1>1, <1>2, FS_Union
<1>5. Cardinality(S \cup T) = Cardinality(S) + n
  BY <1>1, <1>2, <1>3, <1>4
<1> QED
  BY <1>5 DEF T

--------------------------------------------------------------------------------
(* The two kernel calls *)

(* Unmapping a run of mapped pages and rewriting only its entries, to       *)
(* entries that are not mapped, keeps table, kernel and count in agreement. *)
LEMMA KernelUnmapAgrees ==
  ASSUME TypeOK, TableMatchesKernel, LiveCountExact,
         NEW i \in Page, NEW n \in Nat, Span(i, n) \subseteq MappedPages,
         KernelUnmap(i, n),
         pages' \in [Page -> Entry],
         \A p \in Span(i, n) : ~IsMapped(pages'[p]),
         \A p \in Page \ Span(i, n) : pages'[p] = pages[p]
  PROVE  /\ live' \in Nat
         /\ kmap' \in [Page -> Source \cup {NoSource}]
         /\ TableMatchesKernel'
         /\ LiveCountExact'
<1>1. MappedPages' = MappedPages \ Span(i, n)
  BY DEF MappedPages
<1>2. MappedPages \in SUBSET Page /\ i \in Int
  BY DEF MappedPages, Page
<1>3. Cardinality(MappedPages) >= n /\ Cardinality(MappedPages') = Cardinality(MappedPages) - n
  BY <1>1, <1>2, SpanRemoved
<1>4. live' = live - n /\ live' \in Nat
  BY <1>3 DEF KernelUnmap, LiveCountExact, TypeOK
<1>5. LiveCountExact'
  BY <1>3, <1>4, SizeAssumption DEF LiveCountExact, TypeOK
<1>6. TableMatchesKernel'
  <2> SUFFICES ASSUME NEW p \in Page
               PROVE  kmap'[p] = IF IsMapped(pages'[p]) THEN pages'[p].src ELSE NoSource
    BY DEF TableMatchesKernel
  <2>1. CASE p \in Span(i, n)
    BY <2>1 DEF KernelUnmap
  <2>2. CASE p \notin Span(i, n)
    BY <2>2 DEF KernelUnmap, TableMatchesKernel
  <2> QED
    BY <2>1, <2>2
<1>7. kmap' \in [Page -> Source \cup {NoSource}]
  BY DEF KernelUnmap, TypeOK
<1> QED
  BY <1>4, <1>5, <1>6, <1>7

(* Mapping a run of unmapped entries that show consecutive arena pages.     *)
LEMMA KernelMapAgrees ==
  ASSUME TypeOK, TableMatchesKernel, LiveCountExact,
         NEW i \in Page, NEW n \in Nat,
         \A p \in Span(i, n) : /\ p \in Page
                               /\ ~IsEmpty(pages[p]) /\ ~IsMapped(pages[p])
                               /\ pages[p].src = Offset(pages[i].src, p - i),
         live + n <= MappedLimit,
         KernelMap(i, n)
  PROVE  /\ pages' \in [Page -> Entry]
         /\ live' \in Nat
         /\ kmap' \in [Page -> Source \cup {NoSource}]
         /\ TableMatchesKernel'
         /\ LiveCountExact'
<1>1. pages' \in [Page -> Entry]
  BY DEF KernelMap, TypeOK, Entry
<1>2. \A p \in Span(i, n) : pages'[p] = [src |-> pages[p].src, flags |-> {}]
  BY DEF KernelMap, TypeOK, Entry
<1>3. \A p \in Page \ Span(i, n) : pages'[p] = pages[p]
  BY DEF KernelMap, TypeOK
<1>4. \A p \in Span(i, n) : IsMapped(pages'[p])
  <2> TAKE p \in Span(i, n)
  <2>0. pages'[p] = [src |-> pages[p].src, flags |-> {}]
    BY <1>2
  <2>1. pages'[p].flags = {} /\ pages'[p].src = pages[p].src
    BY <2>0
  <2>2. pages[p].src # NoSource
    BY DEF IsEmpty
  <2> QED
    BY <2>1, <2>2 DEF IsMapped, IsEmpty
<1>5. MappedPages' = MappedPages \cup Span(i, n)
  BY <1>3, <1>4 DEF MappedPages
<1>6. MappedPages \cap Span(i, n) = {}
  BY DEF MappedPages
<1>7. MappedPages \in SUBSET Page /\ i \in Int
  BY DEF MappedPages, Page
<1>8. Cardinality(MappedPages') = Cardinality(MappedPages) + n
  BY <1>5, <1>6, <1>7, SpanAdded
<1>9. live' \in Nat /\ LiveCountExact'
  BY <1>8 DEF KernelMap, LiveCountExact, TypeOK
<1>10. \A p \in Page : kmap'[p] = IF IsMapped(pages'[p]) THEN pages'[p].src ELSE NoSource
  <2> TAKE p \in Page
  <2>1. CASE p \in Span(i, n)
    BY <2>1, <1>2, <1>4 DEF KernelMap
  <2>2. CASE p \notin Span(i, n)
    BY <2>2, <1>3 DEF KernelMap, TableMatchesKernel
  <2> QED
    BY <2>1, <2>2
<1>11. kmap' \in [Page -> Source \cup {NoSource}]
  <2>1. \A p \in Page : kmap'[p] \in Source \cup {NoSource}
    BY <1>1, <1>10 DEF Entry
  <2> QED
    BY <2>1 DEF KernelMap
<1> QED
  BY <1>1, <1>9, <1>10, <1>11 DEF TableMatchesKernel

(* Rewriting an entry that is not mapped to another one that is not mapped. *)
LEMMA EntryRewriteAgrees ==
  ASSUME TypeOK, TableMatchesKernel, LiveCountExact,
         NEW i \in Page, NEW e \in Entry,
         ~IsMapped(pages[i]), ~IsMapped(e),
         Store(i, e), UNCHANGED <<live, kmap>>
  PROVE  /\ pages' \in [Page -> Entry]
         /\ TableMatchesKernel'
         /\ LiveCountExact'
<1>1. pages' \in [Page -> Entry]
  BY DEF Store, TypeOK
<1>2. pages'[i] = e /\ \A p \in Page \ {i} : pages'[p] = pages[p]
  BY DEF Store, TypeOK
<1>3. MappedPages' = MappedPages
  BY <1>2 DEF MappedPages
<1>4. TableMatchesKernel'
  <2> SUFFICES ASSUME NEW p \in Page
               PROVE  kmap'[p] = IF IsMapped(pages'[p]) THEN pages'[p].src ELSE NoSource
    BY DEF TableMatchesKernel
  <2>1. CASE p = i
    BY <2>1, <1>2 DEF TableMatchesKernel
  <2>2. CASE p # i
    BY <2>2, <1>2 DEF TableMatchesKernel
  <2> QED
    BY <2>1, <2>2
<1> QED
  BY <1>1, <1>3, <1>4 DEF LiveCountExact

LEMMA EmptyEntry == Empty \in Entry /\ ~IsMapped(Empty)
  BY DEF Empty, Entry, IsMapped, IsEmpty

(* Operations that touch neither the table nor the kernel. *)
LEMMA TableUntouched ==
  ASSUME TableMatchesKernel, LiveCountExact, UNCHANGED <<pages, live, kmap>>
  PROVE  TableMatchesKernel' /\ LiveCountExact'
<1>1. MappedPages' = MappedPages
  BY DEF MappedPages
<1> QED
  BY <1>1 DEF TableMatchesKernel, LiveCountExact

--------------------------------------------------------------------------------
(* IInv is inductive *)

LEMMA InitEstablishes == Init => IInv
<1> SUFFICES ASSUME Init
             PROVE  IInv
  OBVIOUS
<1> USE DEF Init
<1>1. TypeOK
  <2>1. Idle \in Op
    BY SizeAssumption DEF Idle, Op, OpKind
  <2>2. Running \in FaultState
    BY SizeAssumption DEF Running, FaultState, Page
  <2> QED
    BY <2>1, <2>2, EmptyEntry DEF TypeOK
<1>2. TableMatchesKernel
  BY EmptyEntry DEF TableMatchesKernel
<1>3. LiveCountExact
  <2>1. MappedPages = {}
    BY EmptyEntry DEF MappedPages
  <2> QED
    BY <2>1, FS_EmptySet, SizeAssumption DEF LiveCountExact
<1>4. RequestHonoured /\ OpInv
  BY DEF RequestHonoured, OpInv, Idle
<1> QED
  BY <1>1, <1>2, <1>3, <1>4 DEF IInv

LEMMA BeginPreserves ==
  ASSUME IInv,
         NEW kind \in OpKind \ {"idle", "install"},
         NEW first \in Page, NEW n \in 1 .. PageCount - first,
         NEW src \in Source \cup {NoSource}, NEW write \in BOOLEAN,
         kind = "alias" => src \in Source /\ src[2] + n <= RegionPages,
         Begin(kind, first, n, src, write)
  PROVE  IInv'
<1> USE DEF IInv, Begin
<1>1. first + n \in 0 .. PageCount /\ first \in 0 .. PageCount
  BY SizeAssumption DEF Page
<1>2. op' \in Op
  BY <1>1 DEF Op, OpKind
<1>3. TypeOK'
  BY <1>2 DEF TypeOK
<1>4. TableMatchesKernel' /\ LiveCountExact'
  BY TableUntouched
<1>5. RequestHonoured'
  <2>1. Processed' = {}
    BY <1>1 DEF Processed
  <2> QED
    BY <2>1 DEF RequestHonoured
<1>6. OpInv'
  BY <1>1 DEF OpInv, Page
<1> QED
  BY <1>3, <1>4, <1>5, <1>6

(* A loop step: the index moves on inside the range. *)
LEMMA LoopIndex ==
  ASSUME IInv, op.kind # "idle", op.next < op.end
  PROVE  /\ op.next \in Page /\ op.next \in Nat /\ op.end \in Nat /\ op.first \in Nat
         /\ op.first <= op.next /\ op.next < op.end
         /\ op.end <= PageCount /\ PageCount \in Nat
<1>1. op \in Op /\ PageCount \in Nat
  BY SizeAssumption DEF IInv, TypeOK
<1>2. op.next \in 0 .. PageCount /\ op.end \in 0 .. PageCount /\ op.first \in 0 .. PageCount
  BY <1>1 DEF Op
<1>3. op.first <= op.next
  BY DEF IInv, OpInv
<1> QED
  BY <1>1, <1>2, <1>3 DEF Page

LEMMA AdvanceType ==
  ASSUME IInv, op.next < op.end, NEW n \in 1 .. op.end - op.next, Advance(n)
  PROVE  /\ op' \in Op
         /\ op'.next = op.next + n /\ op'.next <= op'.end
         /\ op'.kind = op.kind /\ op'.first = op.first /\ op'.end = op.end
         /\ op'.src = op.src /\ op'.write = op.write
<1>1. op \in Op /\ op.next \in Nat /\ op.end \in 0 .. PageCount
  BY DEF IInv, TypeOK, Op
<1>2. op.next + n \in 0 .. PageCount /\ op.next + n <= op.end
  BY <1>1, SizeAssumption
<1> QED
  BY <1>1, <1>2 DEF Advance, Op

LEMMA UnmapEntryPreserves == ASSUME IInv, UnmapEntry PROVE IInv'
<1> DEFINE i == op.next
<1>1. /\ i \in Page /\ i \in Nat /\ op.end \in Nat /\ op.first \in Nat /\ op.first <= i /\ i < op.end
      /\ op.end <= PageCount /\ PageCount \in Nat
  BY LoopIndex DEF UnmapEntry, InLoop
<1>2. pages' \in [Page -> Entry] /\ TableMatchesKernel' /\ LiveCountExact'
  BY <1>1, EntryRewriteAgrees, EmptyEntry DEF UnmapEntry, IInv
<1>3. /\ op' \in Op /\ op'.next = i + 1 /\ op'.next <= op'.end
      /\ op'.kind = op.kind /\ op'.first = op.first /\ op'.end = op.end
      /\ op'.src = op.src /\ op'.write = op.write
  BY <1>1, AdvanceType, 1 \in 1 .. op.end - i DEF UnmapEntry
<1>4. TypeOK'
  BY <1>2, <1>3 DEF IInv, TypeOK, UnmapEntry
<1>5. pages'[i] = Empty /\ \A p \in Page \ {i} : pages'[p] = pages[p]
  BY <1>1 DEF UnmapEntry, Store, IInv, TypeOK
<1>6. op.kind \in {"alias", "clear", "munmap"}
  BY DEF UnmapEntry, InLoop
<1>7. RequestHonoured'
  <2>1. \A p \in Processed' : p = i \/ p \in Processed
    BY <1>1, <1>3 DEF Processed
  <2>2. \A p \in Processed : pages[p] = Empty /\ p \in Page \ {i}
    <3>1. \A p \in Processed : pages[p] = Empty
      BY <1>6 DEF IInv, RequestHonoured
    <3>2. \A p \in Processed : p \in Page \ {i}
      BY <1>1 DEF Processed, Page
    <3> QED
      BY <3>1, <3>2
  <2>3. \A p \in Processed' : pages'[p] = Empty
    BY <2>1, <2>2, <1>5
  <2> QED
    BY <2>3, <1>3, <1>6 DEF RequestHonoured
<1>8. OpInv'
  BY <1>1, <1>3, <1>6 DEF OpInv, IInv, UnmapEntry
<1> QED
  BY <1>2, <1>4, <1>7, <1>8 DEF IInv

LEMMA UnmapRunPreserves == ASSUME IInv, UnmapRun PROVE IInv'
<1> DEFINE i == op.next
<1>1. /\ i \in Page /\ i \in Nat /\ op.end \in Nat /\ op.first \in Nat /\ op.first <= i /\ i < op.end
      /\ op.end <= PageCount /\ PageCount \in Nat
  BY LoopIndex DEF UnmapRun, InLoop
<1>2. PICK n \in 1 .. op.end - i :
        /\ LongestRun(MappedPages, i, n, op.end - i)
        /\ KernelUnmap(i, n)
        /\ pages' = [p \in Page |-> IF p \in Span(i, n) THEN Empty ELSE pages[p]]
        /\ Advance(n)
  BY DEF UnmapRun
<1>3. n \in Nat /\ n >= 1
  BY <1>1, <1>2
<1>4. Span(i, n) \subseteq MappedPages
  <2>1. \A p \in Span(i, n) : p - i \in 0 .. n - 1 /\ i + (p - i) = p
    BY <1>1, <1>3 DEF Span
  <2>2. \A j \in 0 .. n - 1 : i + j \in MappedPages
    BY <1>2 DEF LongestRun, IsRun
  <2> QED
    BY <2>1, <2>2
<1>5. pages' \in [Page -> Entry]
  BY <1>2, EmptyEntry DEF IInv, TypeOK
<1>6. /\ \A p \in Span(i, n) : p \in Page /\ pages'[p] = Empty
      /\ \A p \in Page \ Span(i, n) : pages'[p] = pages[p]
  BY <1>2, <1>4 DEF MappedPages
<1>7. \A p \in Span(i, n) : ~IsMapped(pages'[p])
  BY <1>6, EmptyEntry
<1>8. /\ live' \in Nat
      /\ kmap' \in [Page -> Source \cup {NoSource}]
      /\ TableMatchesKernel'
      /\ LiveCountExact'
  BY <1>1, <1>2, <1>3, <1>4, <1>5, <1>6, <1>7, KernelUnmapAgrees DEF IInv
<1>9. /\ op' \in Op /\ op'.next = i + n /\ op'.next <= op'.end
      /\ op'.kind = op.kind /\ op'.first = op.first /\ op'.end = op.end
      /\ op'.src = op.src /\ op'.write = op.write
  BY <1>1, <1>2, AdvanceType
<1>10. TypeOK'
  BY <1>5, <1>8, <1>9 DEF IInv, TypeOK, UnmapRun
<1>11. op.kind \in {"alias", "clear", "munmap"}
  BY DEF UnmapRun, InLoop
<1>12. RequestHonoured'
  <2>1. \A p \in Processed' : p \in Span(i, n) \/ p \in Processed
    BY <1>1, <1>3, <1>9 DEF Processed, Span
  <2>2. \A p \in Processed : pages[p] = Empty /\ p \in Page \ Span(i, n)
    <3>1. \A p \in Processed : pages[p] = Empty
      BY <1>11 DEF IInv, RequestHonoured
    <3>2. \A p \in Processed : p \in Page \ Span(i, n)
      BY <1>1, <1>3 DEF Processed, Page, Span
    <3> QED
      BY <3>1, <3>2
  <2>3. \A p \in Processed' : pages'[p] = Empty
    BY <2>1, <2>2, <1>6
  <2> QED
    BY <2>3, <1>9, <1>11 DEF RequestHonoured
<1>13. OpInv'
  BY <1>1, <1>3, <1>9, <1>11 DEF OpInv, IInv, UnmapRun
<1> QED
  BY <1>8, <1>10, <1>12, <1>13 DEF IInv

LEMMA UnmapFailsPreserves == ASSUME IInv, UnmapFails PROVE IInv'
<1>1. Idle \in Op
  BY SizeAssumption DEF Idle, Op, OpKind
<1>2. TableMatchesKernel' /\ LiveCountExact'
  BY TableUntouched DEF IInv, UnmapFails
<1> QED
  BY <1>1, <1>2 DEF UnmapFails, IInv, TypeOK, RequestHonoured, OpInv, Idle

LEMMA AliasClearedPreserves == ASSUME IInv, AliasCleared PROVE IInv'
<1>1. op' = [op EXCEPT !.kind = "install", !.next = op.first] /\ op \in Op
  BY DEF AliasCleared, IInv, TypeOK
<1>2. /\ op' \in Op /\ op'.kind = "install" /\ op'.next = op.first
      /\ op'.first = op.first /\ op'.end = op.end /\ op'.src = op.src
  BY <1>1 DEF Op, OpKind
<1>3. op.first \in Nat /\ op.end \in Nat /\ op.next = op.end /\ op.first <= op.end /\ op.kind = "alias"
  BY DEF IInv, TypeOK, Op, OpInv, AliasCleared
<1>4. TypeOK'
  BY <1>2 DEF IInv, TypeOK, AliasCleared
<1>5. TableMatchesKernel' /\ LiveCountExact'
  BY TableUntouched DEF IInv, AliasCleared
<1>6. RequestHonoured'
  <2>1. Processed' = {}
    BY <1>2, <1>3 DEF Processed
  <2> QED
    BY <2>1 DEF RequestHonoured
<1>7. \A p \in op.first .. op.end - 1 : pages[p] = Empty
  BY <1>3 DEF IInv, RequestHonoured, Processed
<1>8. OpInv'
  BY <1>2, <1>3, <1>7 DEF OpInv, IInv, AliasCleared
<1> QED
  BY <1>4, <1>5, <1>6, <1>8 DEF IInv

LEMMA InstallEntryPreserves == ASSUME IInv, InstallEntry PROVE IInv'
<1> DEFINE i == op.next
           e == [src |-> Offset(op.src, i - op.first),
                 flags |-> IF op.write THEN {"LAZY"} ELSE {"LAZY", "PROTECTED"}]
<1>1. /\ i \in Page /\ i \in Nat /\ op.end \in Nat /\ op.first \in Nat /\ op.first <= i /\ i < op.end
      /\ op.end <= PageCount /\ PageCount \in Nat
  BY LoopIndex DEF InstallEntry, InLoop
<1>2. op.kind = "install"
  BY DEF InstallEntry, InLoop
<1>3. /\ op' \in Op /\ op'.next = i + 1 /\ op'.next <= op'.end
      /\ op'.kind = op.kind /\ op'.first = op.first /\ op'.end = op.end
      /\ op'.src = op.src /\ op'.write = op.write
  BY <1>1, AdvanceType, 1 \in 1 .. op.end - i DEF InstallEntry
<1>4. e \in Entry /\ ~IsMapped(e)
  <2>1. op.src \in Source /\ op.src[2] + (op.end - op.first) <= RegionPages
    BY <1>2 DEF IInv, OpInv
  <2>2. op.src[1] \in Region /\ op.src[2] \in 0 .. RegionPages - 1
    BY <2>1 DEF Source
  <2>3. op.src[2] + (i - op.first) \in 0 .. RegionPages - 1
    BY <1>1, <2>1, <2>2, SizeAssumption
  <2>4. Offset(op.src, i - op.first) \in Source
    BY <2>2, <2>3 DEF Offset, Source
  <2>5. e.flags \in SUBSET Flag /\ "LAZY" \in e.flags
    BY DEF Flag
  <2> QED
    BY <2>4, <2>5 DEF Entry, IsMapped
<1>5. ~IsMapped(pages[i])
  BY <1>1, <1>2, EmptyEntry DEF IInv, OpInv
<1> HIDE DEF e
<1>6. Store(i, e) /\ UNCHANGED <<live, kmap>>
  BY DEF InstallEntry, e
<1>7. pages' \in [Page -> Entry] /\ TableMatchesKernel' /\ LiveCountExact'
  BY <1>1, <1>4, <1>5, <1>6, EntryRewriteAgrees DEF IInv
<1>8. pages'[i] = e /\ \A p \in Page \ {i} : pages'[p] = pages[p]
  BY <1>1, <1>6 DEF Store, IInv, TypeOK
<1>9. TypeOK'
  BY <1>3, <1>7 DEF IInv, TypeOK, InstallEntry
<1>10. RequestHonoured'
  <2>1. \A p \in Processed' : p = i \/ (p \in Processed /\ p \in Page \ {i})
    BY <1>1, <1>3 DEF Processed, Page
  <2>2. \A p \in Processed :
          /\ pages[p].src = Offset(op.src, p - op.first)
          /\ "PROTECTED" \in pages[p].flags <=> ~op.write
    BY <1>2 DEF IInv, RequestHonoured
  <2>3. e.src = Offset(op.src, i - op.first) /\ ("PROTECTED" \in e.flags <=> ~op.write)
    BY DEF e
  <2>4. \A p \in Processed' :
          /\ pages'[p].src = Offset(op'.src, p - op'.first)
          /\ "PROTECTED" \in pages'[p].flags <=> ~op'.write
    BY <2>1, <2>2, <2>3, <1>3, <1>8
  <2> QED
    BY <2>4, <1>2, <1>3 DEF RequestHonoured
<1>11. OpInv'
  <2>1. \A p \in i + 1 .. op.end - 1 : pages'[p] = Empty
    <3>1. \A p \in i + 1 .. op.end - 1 : pages[p] = Empty /\ p \in Page \ {i}
      BY <1>1, <1>2, SizeAssumption DEF IInv, OpInv, TypeOK, Op, Page
    <3> QED
      BY <3>1, <1>8
  <2> QED
    BY <2>1, <1>1, <1>2, <1>3 DEF OpInv, IInv, InstallEntry
<1> QED
  BY <1>7, <1>9, <1>10, <1>11 DEF IInv

(* The table part of an mprotect step: one entry is rewritten, and what the *)
(* loop has done before stays done.                                         *)
LEMMA MprotectStep ==
  ASSUME IInv, op.kind = "mprotect", op.next < op.end, Advance(1),
         pages' \in [Page -> Entry], live' \in Nat,
         kmap' \in [Page -> Source \cup {NoSource}],
         TableMatchesKernel', LiveCountExact',
         \A p \in Page \ {op.next} : pages'[p] = pages[p],
         IsEmpty(pages'[op.next]) \/ ("PROTECTED" \in pages'[op.next].flags <=> ~op.write),
         UNCHANGED <<area, action, fault>>
  PROVE  IInv'
<1> DEFINE i == op.next
<1>1. /\ i \in Page /\ i \in Nat /\ op.end \in Nat /\ op.first \in Nat /\ op.first <= i /\ i < op.end
      /\ op.end <= PageCount /\ PageCount \in Nat
  BY LoopIndex
<1>2. /\ op' \in Op /\ op'.next = i + 1 /\ op'.next <= op'.end
      /\ op'.kind = op.kind /\ op'.first = op.first /\ op'.end = op.end
      /\ op'.src = op.src /\ op'.write = op.write
  BY <1>1, AdvanceType, 1 \in 1 .. op.end - i
<1>3. TypeOK'
  BY <1>2 DEF IInv, TypeOK
<1>4. RequestHonoured'
  <2>1. \A p \in Processed' : p = i \/ (p \in Processed /\ p \in Page \ {i})
    BY <1>1, <1>2 DEF Processed, Page
  <2>2. \A p \in Processed : IsEmpty(pages[p]) \/ ("PROTECTED" \in pages[p].flags <=> ~op.write)
    BY DEF IInv, RequestHonoured
  <2>3. \A p \in Processed' :
          IsEmpty(pages'[p]) \/ ("PROTECTED" \in pages'[p].flags <=> ~op'.write)
    BY <2>1, <2>2, <1>2
  <2> QED
    BY <2>3, <1>2 DEF RequestHonoured, IsEmpty
<1>5. OpInv'
  BY <1>1, <1>2 DEF OpInv, IInv
<1> QED
  BY <1>3, <1>4, <1>5 DEF IInv

(* A one-page kernel call is a run of one page. *)
LEMMA SpanOfOne == ASSUME NEW i \in Int PROVE Span(i, 1) = {i}
  BY DEF Span

LEMMA OffsetZero == ASSUME NEW s \in Source PROVE Offset(s, 0) = s
  BY SizeAssumption DEF Offset, Source

LEMMA MakeWritablePreserves == ASSUME IInv, MakeWritable PROVE IInv'
<1> DEFINE i == op.next
           e == pages[i]
           lazy == [e EXCEPT !.flags = (@ \cup {"LAZY"}) \ {"PROTECTED", "REMAP"}]
<1>1. /\ i \in Page /\ i \in Nat /\ op.end \in Nat /\ op.first \in Nat /\ op.first <= i /\ i < op.end
      /\ op.end <= PageCount /\ PageCount \in Nat
  BY LoopIndex DEF MakeWritable, InLoop
<1>2. op.kind = "mprotect" /\ op.write = TRUE /\ op.next < op.end /\ Advance(1)
      /\ UNCHANGED <<area, action, fault>>
  BY DEF MakeWritable, InLoop, IInv, TypeOK, Op
<1>3. e \in Entry /\ pages \in [Page -> Entry]
  BY <1>1 DEF IInv, TypeOK
<1>4. CASE (IsEmpty(e) \/ "PROTECTED" \notin e.flags) /\ UNCHANGED <<pages, kmap, live>>
  <2>1. TableMatchesKernel' /\ LiveCountExact'
    BY <1>4, TableUntouched DEF IInv
  <2> QED
    BY <1>2, <1>4, <2>1, MprotectStep DEF IInv, TypeOK
<1>5. CASE ~IsEmpty(e) /\ "PROTECTED" \in e.flags /\ Store(i, lazy) /\ UNCHANGED <<kmap, live>>
  <2>1. lazy \in Entry /\ "LAZY" \in lazy.flags /\ "PROTECTED" \notin lazy.flags
    BY <1>3 DEF Entry, Flag
  <2>2. ~IsMapped(e) /\ ~IsMapped(lazy)
    BY <1>5, <2>1 DEF IsMapped
  <2> HIDE DEF lazy
  <2>3. pages' \in [Page -> Entry] /\ TableMatchesKernel' /\ LiveCountExact'
    BY <1>1, <1>5, <2>1, <2>2, EntryRewriteAgrees DEF IInv
  <2>4. pages'[i] = lazy /\ \A p \in Page \ {i} : pages'[p] = pages[p]
    BY <1>1, <1>3, <1>5 DEF Store
  <2> QED
    BY <1>2, <1>5, <2>1, <2>3, <2>4, MprotectStep DEF IInv, TypeOK
<1>6. CASE ~IsEmpty(e) /\ {"PROTECTED", "REMAP"} \subseteq e.flags
           /\ live < MappedLimit /\ KernelMap(i, 1)
  <2>1. Span(i, 1) = {i}
    BY <1>1, SpanOfOne
  <2>2. ~IsMapped(e)
    BY <1>6 DEF IsMapped
  <2>3. e.src = Offset(e.src, i - i)
    BY <1>1, <1>3, <1>6, OffsetZero, i - i = 0 DEF Entry, IsEmpty
  <2>4. live + 1 <= MappedLimit
    BY <1>6, SizeAssumption DEF IInv, TypeOK
  <2>5. /\ pages' \in [Page -> Entry]
        /\ live' \in Nat
        /\ kmap' \in [Page -> Source \cup {NoSource}]
        /\ TableMatchesKernel'
        /\ LiveCountExact'
    BY <1>1, <1>6, <2>1, <2>2, <2>3, <2>4, KernelMapAgrees DEF IInv
  <2>6. "PROTECTED" \notin pages'[i].flags /\ \A p \in Page \ {i} : pages'[p] = pages[p]
    <3>1. pages'[i] = [e EXCEPT !.flags = @ \ Flag]
      BY <1>1, <1>6, <2>1 DEF KernelMap
    <3>2. pages'[i].flags = e.flags \ Flag
      BY <1>3, <3>1 DEF Entry
    <3>3. \A p \in Page \ {i} : pages'[p] = pages[p]
      BY <1>6, <2>1 DEF KernelMap
    <3> QED
      BY <3>2, <3>3 DEF Flag
  <2> QED
    BY <1>2, <2>5, <2>6, MprotectStep
<1> QED
  BY <1>4, <1>5, <1>6 DEF MakeWritable

LEMMA MakeReadOnlyPreserves == ASSUME IInv, MakeReadOnly PROVE IInv'
<1> DEFINE i == op.next
           e == pages[i]
           closed == [e EXCEPT !.flags = @ \cup {"PROTECTED"}]
           trapped == [e EXCEPT !.flags = @ \cup Flag]
<1>1. /\ i \in Page /\ i \in Nat /\ op.end \in Nat /\ op.first \in Nat /\ op.first <= i /\ i < op.end
      /\ op.end <= PageCount /\ PageCount \in Nat
  BY LoopIndex DEF MakeReadOnly, InLoop
<1>2. op.kind = "mprotect" /\ op.write = FALSE /\ op.next < op.end /\ Advance(1)
      /\ UNCHANGED <<area, action, fault>>
  BY DEF MakeReadOnly, InLoop, IInv, TypeOK, Op
<1>3. e \in Entry /\ pages \in [Page -> Entry]
  BY <1>1 DEF IInv, TypeOK
<1>4. CASE (IsEmpty(e) \/ "PROTECTED" \in e.flags) /\ UNCHANGED <<pages, kmap, live>>
  <2>1. TableMatchesKernel' /\ LiveCountExact'
    BY <1>4, TableUntouched DEF IInv
  <2> QED
    BY <1>2, <1>4, <2>1, MprotectStep DEF IInv, TypeOK
<1>5. CASE IsLazy(e) /\ Store(i, closed) /\ UNCHANGED <<kmap, live>>
  <2>1. closed \in Entry /\ "PROTECTED" \in closed.flags
    BY <1>3 DEF Entry, Flag
  <2>2. ~IsMapped(e) /\ ~IsMapped(closed)
    BY <1>5, <2>1 DEF IsMapped, IsLazy
  <2> HIDE DEF closed
  <2>3. pages' \in [Page -> Entry] /\ TableMatchesKernel' /\ LiveCountExact'
    BY <1>1, <1>5, <2>1, <2>2, EntryRewriteAgrees DEF IInv
  <2>4. pages'[i] = closed /\ \A p \in Page \ {i} : pages'[p] = pages[p]
    BY <1>1, <1>3, <1>5 DEF Store
  <2> QED
    BY <1>2, <1>5, <2>1, <2>3, <2>4, MprotectStep DEF IInv, TypeOK
<1>6. CASE IsMapped(e) /\ KernelUnmap(i, 1) /\ Store(i, trapped)
  <2>1. Span(i, 1) = {i}
    BY <1>1, SpanOfOne
  <2>2. trapped \in Entry /\ "PROTECTED" \in trapped.flags /\ ~IsMapped(trapped)
    BY <1>3 DEF Entry, Flag, IsMapped
  <2> HIDE DEF trapped
  <2>3. pages' \in [Page -> Entry] /\ pages'[i] = trapped
        /\ \A p \in Page \ {i} : pages'[p] = pages[p]
    BY <1>1, <1>3, <1>6, <2>2 DEF Store
  <2>4. Span(i, 1) \subseteq MappedPages
    BY <1>1, <1>6, <2>1 DEF MappedPages
  <2>5. /\ live' \in Nat
        /\ kmap' \in [Page -> Source \cup {NoSource}]
        /\ TableMatchesKernel'
        /\ LiveCountExact'
    BY <1>1, <1>6, <2>1, <2>2, <2>3, <2>4, KernelUnmapAgrees DEF IInv
  <2> QED
    BY <1>2, <2>2, <2>3, <2>5, MprotectStep
<1> QED
  BY <1>4, <1>5, <1>6 DEF MakeReadOnly

LEMMA FinishPreserves == ASSUME IInv, Finish PROVE IInv'
<1>1. Idle \in Op /\ op' = Idle /\ op'.kind = "idle"
  BY SizeAssumption DEF Finish, Idle, Op, OpKind
<1>2. UNCHANGED <<pages, kmap, action, fault>>
  BY DEF Finish
<1>3. CASE op.kind = "munmap" /\ op.first = 0 /\ op.end = PageCount
  <2>1. \A p \in Page : p \in Processed
    <3>1. op.next = PageCount /\ PageCount \in Nat
      BY <1>3, SizeAssumption DEF Finish
    <3> QED
      BY <1>3, <3>1 DEF Processed, Page
  <2>2. \A p \in Page : pages[p] = Empty
    BY <1>3, <2>1 DEF IInv, RequestHonoured
  <2>3. MappedPages = {}
    BY <2>2, EmptyEntry DEF MappedPages
  <2>4. live = 0
    BY <2>3, FS_EmptySet DEF IInv, LiveCountExact
  <2>5. area' = FALSE /\ live' = live
    BY <1>3, <2>4 DEF Finish
  <2>6. TableMatchesKernel' /\ LiveCountExact'
    BY <1>2, <2>5, TableUntouched DEF IInv
  <2>7. TypeOK'
    BY <1>1, <1>2, <2>5 DEF IInv, TypeOK
  <2>8. RequestHonoured' /\ OpInv'
    BY <1>1, <1>2, <2>2 DEF RequestHonoured, OpInv
  <2> QED
    BY <2>6, <2>7, <2>8 DEF IInv
<1>4. CASE ~(op.kind = "munmap" /\ op.first = 0 /\ op.end = PageCount)
  <2>1. UNCHANGED <<area, live>>
    BY <1>4 DEF Finish
  <2>2. TableMatchesKernel' /\ LiveCountExact'
    BY <1>2, <2>1, TableUntouched DEF IInv
  <2>3. TypeOK'
    BY <1>1, <1>2, <2>1 DEF IInv, TypeOK
  <2>4. RequestHonoured' /\ OpInv'
    BY <1>1, <1>2, <2>1 DEF RequestHonoured, OpInv, IInv
  <2> QED
    BY <2>2, <2>3, <2>4 DEF IInv
<1> QED
  BY <1>3, <1>4

LEMMA ReservePreserves == ASSUME IInv, Reserve PROVE IInv'
<1>1. \A p \in Page : pages[p] = Empty
  BY DEF Reserve, IInv, OpInv
<1>2. pages' = pages
  BY <1>1 DEF Reserve, IInv, TypeOK
<1>3. TableMatchesKernel' /\ LiveCountExact'
  BY <1>2, TableUntouched DEF IInv, Reserve
<1>4. op.kind = "idle"
  BY DEF Reserve, IInv, OpInv
<1>5. TypeOK'
  BY <1>2 DEF IInv, TypeOK, Reserve
<1>6. RequestHonoured' /\ OpInv'
  BY <1>4 DEF Reserve, RequestHonoured, OpInv
<1> QED
  BY <1>3, <1>5, <1>6 DEF IInv

(* Steps that change neither the table, the kernel nor the operation. *)
LEMMA OutsidePreserves ==
  ASSUME IInv, UNCHANGED <<area, pages, live, kmap, op>>,
         action' \in BOOLEAN, fault' \in [Thread -> FaultState]
  PROVE  IInv'
<1>1. TableMatchesKernel' /\ LiveCountExact'
  BY TableUntouched DEF IInv
<1>2. TypeOK'
  BY DEF IInv, TypeOK
<1>3. RequestHonoured' /\ OpInv'
  BY DEF IInv, RequestHonoured, OpInv, Processed, IsEmpty, Offset
<1> QED
  BY <1>1, <1>2, <1>3 DEF IInv

LEMMA ToType ==
  ASSUME TypeOK, NEW t \in Thread,
         NEW pc \in {"run", "fault", "resolve", "handler", "crashed"}, To(t, pc)
  PROVE  fault' \in [Thread -> FaultState]
<1>1. Running \in FaultState
  BY SizeAssumption DEF Running, FaultState, Page
<1>2. fault[t] \in FaultState
  BY DEF TypeOK
<1>3. [fault[t] EXCEPT !.pc = pc] \in FaultState
  BY <1>2 DEF FaultState
<1> QED
  BY <1>1, <1>3 DEF To, TypeOK

LEMMA NotResolvedType ==
  ASSUME TypeOK, NEW t \in Thread, NotResolved(t)
  PROVE  fault' \in [Thread -> FaultState]
<1>1. CASE action
  BY <1>1, ToType DEF NotResolved
<1>2. CASE ~action
  BY <1>2, ToType DEF NotResolved
<1> QED
  BY <1>1, <1>2

(* A batch of lazy pages satisfies the hypotheses of KernelMapAgrees. *)
LEMMA LazyRunMappable ==
  ASSUME TypeOK, NEW i \in Page, NEW n \in Nat, NEW m \in {1, n}, n >= 1,
         IsRun(LazyPages, i, n)
  PROVE  \A p \in Span(i, m) : /\ p \in LazyPages
                               /\ p \in Page
                               /\ ~IsEmpty(pages[p]) /\ ~IsMapped(pages[p])
                               /\ pages[p].src = Offset(pages[i].src, p - i)
<1>1. SUFFICES ASSUME NEW p \in Span(i, m)
               PROVE  /\ p \in LazyPages
                      /\ p \in Page
                      /\ ~IsEmpty(pages[p]) /\ ~IsMapped(pages[p])
                      /\ pages[p].src = Offset(pages[i].src, p - i)
  OBVIOUS
<1>2. i \in Int
  BY DEF Page
<1>3. p - i \in 0 .. n - 1 /\ i + (p - i) = p
  BY <1>2 DEF Span
<1>4. i + (p - i) \in LazyPages /\ pages[i + (p - i)].src = Offset(pages[i].src, p - i)
  BY <1>3 DEF IsRun
<1>5. p \in LazyPages /\ pages[p].src = Offset(pages[i].src, p - i)
  BY <1>3, <1>4
<1> QED
  BY <1>5 DEF LazyPages, IsLazy, IsMapped

LEMMA ResolvePreserves == ASSUME IInv, NEW t \in Thread, Resolve(t) PROVE IInv'
<1> DEFINE i == fault[t].page
           batch == IF MappedLimit - live < FaultBatch THEN MappedLimit - live
                                                       ELSE FaultBatch
<1>1. i \in Page /\ TypeOK
  BY DEF IInv, TypeOK, FaultState
<1>2. UNCHANGED <<area, op, action>> /\ op = Idle
  BY DEF Resolve
<1>3. CASE NotResolved(t) /\ UNCHANGED <<pages, kmap, live>>
  BY <1>1, <1>2, <1>3, NotResolvedType, OutsidePreserves DEF TypeOK
<1>4. CASE /\ area /\ IsLazy(pages[i]) /\ live < MappedLimit
           /\ \E n \in 1 .. FaultBatch :
                /\ LongestRun(LazyPages, i, n, batch)
                /\ \E m \in {1, n} : KernelMap(i, m)
           /\ To(t, "run")
  <2>1. PICK n \in 1 .. FaultBatch : /\ LongestRun(LazyPages, i, n, batch)
                                     /\ \E m \in {1, n} : KernelMap(i, m)
    BY <1>4
  <2>2. PICK m \in {1, n} : KernelMap(i, m)
    BY <2>1
  <2>3. n \in Nat /\ n >= 1 /\ m \in Nat /\ m <= n
    BY SizeAssumption, <2>1, <2>2
  <2>4. live + m <= MappedLimit
    <3>1. n <= batch /\ live \in Nat /\ MappedLimit \in Nat /\ FaultBatch \in Nat
      BY <1>1, <2>1, SizeAssumption DEF LongestRun, TypeOK
    <3>2. n <= MappedLimit - live
      BY <2>3, <3>1
    <3> QED
      BY <2>3, <3>1, <3>2
  <2>5. IsRun(LazyPages, i, n)
    BY <2>1 DEF LongestRun
  <2>6. \A p \in Span(i, m) : /\ p \in Page
                              /\ ~IsEmpty(pages[p]) /\ ~IsMapped(pages[p])
                              /\ pages[p].src = Offset(pages[i].src, p - i)
    BY <1>1, <2>2, <2>3, <2>5, LazyRunMappable
  <2>7. /\ pages' \in [Page -> Entry]
        /\ live' \in Nat
        /\ kmap' \in [Page -> Source \cup {NoSource}]
        /\ TableMatchesKernel'
        /\ LiveCountExact'
    BY <1>1, <2>2, <2>3, <2>4, <2>6, KernelMapAgrees DEF IInv
  <2>8. fault' \in [Thread -> FaultState]
    BY <1>1, <1>4, ToType
  <2>9. TypeOK'
    BY <1>2, <2>7, <2>8 DEF IInv, TypeOK
  <2>10. op'.kind = "idle" /\ area'
    BY <1>2, <1>4 DEF Idle
  <2>11. RequestHonoured' /\ OpInv'
    BY <2>10 DEF RequestHonoured, OpInv
  <2> QED
    BY <2>7, <2>9, <2>11 DEF IInv
<1> QED
  BY <1>3, <1>4 DEF Resolve

LEMMA NextPreserves == IInv /\ [Next]_vars => IInv'
<1> SUFFICES ASSUME IInv, [Next]_vars
             PROVE  IInv'
  OBVIOUS
<1>1. ASSUME NEW first \in Page, NEW n \in 1 .. PageCount - first,
             Clear(first, n) \/ Munmap(first, n)
      PROVE  IInv'
  BY <1>1, BeginPreserves DEF Clear, Munmap, OpKind
<1>2. ASSUME NEW first \in Page, NEW n \in 1 .. PageCount - first,
             NEW write \in BOOLEAN, Mprotect(first, n, write)
      PROVE  IInv'
  BY <1>2, BeginPreserves DEF Mprotect, OpKind
<1>3. ASSUME NEW first \in Page, NEW n \in 1 .. PageCount - first,
             NEW write \in BOOLEAN, NEW src \in Source, MapAlias(first, n, src, write)
      PROVE  IInv'
  BY <1>3, BeginPreserves DEF MapAlias, OpKind
<1>4. ASSUME Reserve PROVE IInv'
  BY <1>4, ReservePreserves
<1>5. ASSUME NEW b \in BOOLEAN, SetAction(b) PROVE IInv'
  BY <1>5, OutsidePreserves DEF SetAction, IInv, TypeOK
<1>6. ASSUME OpStep PROVE IInv'
  BY <1>6, UnmapEntryPreserves, UnmapRunPreserves, UnmapFailsPreserves,
     AliasClearedPreserves, InstallEntryPreserves, MakeWritablePreserves,
     MakeReadOnlyPreserves, FinishPreserves DEF OpStep
<1>7. ASSUME NEW t \in Thread, NEW p \in Page, Access(t, p) PROVE IInv'
  <2>1. fault' \in [Thread -> FaultState]
    BY <1>7 DEF Access, IInv, TypeOK, FaultState
  <2> QED
    BY <1>7, <2>1, OutsidePreserves DEF Access, IInv, TypeOK
<1>8. ASSUME NEW t \in Thread, CanDispatch(t) PROVE IInv'
  <2>1. \E pc \in {"resolve", "crashed"} : To(t, pc)
    BY <1>8 DEF CanDispatch
  <2>2. fault' \in [Thread -> FaultState]
    BY <2>1, ToType DEF IInv
  <2> QED
    BY <1>8, <2>2, OutsidePreserves DEF CanDispatch, IInv, TypeOK
<1>9. ASSUME NEW t \in Thread, Resolve(t) PROVE IInv'
  BY <1>9, ResolvePreserves
<1>10. ASSUME NEW t \in Thread, HandlerReturns(t) PROVE IInv'
  <2>1. \E pc \in {"run", "crashed"} : To(t, pc)
    BY <1>10 DEF HandlerReturns
  <2>2. fault' \in [Thread -> FaultState]
    BY <2>1, ToType DEF IInv
  <2> QED
    BY <1>10, <2>2, OutsidePreserves DEF HandlerReturns, IInv, TypeOK
<1>11. CASE UNCHANGED vars
  BY <1>11, OutsidePreserves DEF vars, IInv, TypeOK
<1> QED
  BY <1>1, <1>2, <1>3, <1>4, <1>5, <1>6, <1>7, <1>8, <1>9, <1>10, <1>11
     DEF Next, Request, ThreadStep

(* The fastmem operations of libc_shim.c keep IInv. *)
LEMMA InductiveInvariant == Spec => []IInv
BY InitEstablishes, NextPreserves, PTL DEF Spec

--------------------------------------------------------------------------------
(* The invariants of Fastmem *)

(* The page table, its counter and the operation in progress stay well typed. *)
THEOREM TypeCorrect == Spec => []TypeOK
BY InductiveInvariant, PTL DEF IInv

(* fastmem_unmap_range_locked, fastmem_map_run_locked and mprotect_fake keep *)
(* the page table and the kernel's mapping equal, whichever kernel call      *)
(* fails.                                                                    *)
THEOREM TableAgreement == Spec => []TableMatchesKernel
BY InductiveInvariant, PTL DEF IInv

(* g_fastmem_live_pages is the number of mapped pages and never exceeds      *)
(* FASTMEM_MAPPED_PAGE_LIMIT.                                                *)
THEOREM LimitRespected == Spec => []LiveCountExact
BY InductiveInvariant, PTL DEF IInv

(* Every page an operation's loop has passed is as it was requested.         *)
THEOREM RequestsHonoured == Spec => []RequestHonoured
BY InductiveInvariant, PTL DEF IInv

--------------------------------------------------------------------------------
(* Fastmem implements FastmemView *)

(* An unchanged table and an unchanged kernel mapping are an unchanged view. *)
LEMMA ViewStutters ==
  ASSUME UNCHANGED <<pages, kmap>>
  PROVE  UNCHANGED View!vars
BY DEF View!vars

LEMMA InitImplements == Init => View!Init
<1> SUFFICES ASSUME Init PROVE View!Init
  OBVIOUS
<1>1. ViewOf(Empty) = [src |-> NoSource, write |-> FALSE]
  BY DEF ViewOf, Empty, IsEmpty
<1>2. \A p \in Page : pages[p] = Empty
  BY DEF Init
<1> QED
  BY <1>1, <1>2 DEF Init, View!Init, View!Nothing

(* The pages of a set become empty, in the table and in the kernel. *)
LEMMA DropStep ==
  ASSUME NEW P \in SUBSET Page,
         \A p \in P : pages'[p] = Empty,
         \A p \in Page \ P : pages'[p] = pages[p],
         kmap' = [p \in Page |-> IF p \in P THEN NoSource ELSE kmap[p]]
  PROVE  View!Next
<1>1. ViewOf(Empty) = [src |-> NoSource, write |-> FALSE]
  BY DEF ViewOf, Empty, IsEmpty
<1>2. \A p \in Page : ViewOf(pages[p])' = IF p \in P THEN View!Nothing ELSE ViewOf(pages[p])
  BY <1>1 DEF View!Nothing, ViewOf, IsEmpty
<1>3. View!Drop(P)
  BY <1>2 DEF View!Drop
<1> QED
  BY <1>3 DEF View!Next

LEMMA UnmapEntryImplements == ASSUME IInv, UnmapEntry PROVE View!Next
<1> DEFINE i == op.next
<1>1. i \in Page
  BY LoopIndex DEF UnmapEntry, InLoop
<1>2. pages'[i] = Empty /\ \A p \in Page \ {i} : pages'[p] = pages[p]
  BY <1>1 DEF UnmapEntry, Store, IInv, TypeOK
<1>3. kmap[i] = NoSource
  BY <1>1 DEF UnmapEntry, IInv, TableMatchesKernel
<1>4. kmap' = [p \in Page |-> IF p \in {i} THEN NoSource ELSE kmap[p]]
  BY <1>1, <1>3 DEF UnmapEntry, IInv, TypeOK
<1>5. {i} \in SUBSET Page
  BY <1>1
<1>6. \A p \in {i} : pages'[p] = Empty
  BY <1>2
<1> HIDE DEF i
<1> QED
  BY <1>2, <1>4, <1>5, <1>6, DropStep

LEMMA UnmapRunImplements == ASSUME IInv, UnmapRun PROVE View!Next
<1> DEFINE i == op.next
<1>1. PICK n \in 1 .. op.end - i :
        /\ LongestRun(MappedPages, i, n, op.end - i)
        /\ KernelUnmap(i, n)
        /\ pages' = [p \in Page |-> IF p \in Span(i, n) THEN Empty ELSE pages[p]]
  BY DEF UnmapRun
<1>2. i \in Nat /\ op.end \in Nat
  BY LoopIndex DEF UnmapRun, InLoop
<1>3. Span(i, n) \subseteq Page
  <2>1. \A p \in Span(i, n) : p - i \in 0 .. n - 1 /\ i + (p - i) = p
    BY <1>1, <1>2 DEF Span
  <2>2. \A j \in 0 .. n - 1 : i + j \in Page
    BY <1>1 DEF LongestRun, IsRun, MappedPages
  <2> QED
    BY <2>1, <2>2
<1>4. kmap' = [p \in Page |-> IF p \in Span(i, n) THEN NoSource ELSE kmap[p]]
  BY <1>1 DEF KernelUnmap
<1> QED
  BY <1>1, <1>3, <1>4, DropStep

(* Only the view of one page changes. *)
LEMMA ViewChange ==
  ASSUME NEW i \in Page, \A p \in Page \ {i} : pages'[p] = pages[p]
  PROVE  [p \in Page |-> ViewOf(pages'[p])]
           = [[p \in Page |-> ViewOf(pages[p])] EXCEPT ![i] = ViewOf(pages'[i])]
OBVIOUS

(* Entries with one source differ in their view only by the protection. *)
LEMMA WritableView ==
  ASSUME NEW e, NEW f, f.src = e.src, ~IsEmpty(e), "PROTECTED" \notin f.flags
  PROVE  ViewOf(f) = [src |-> ViewOf(e).src, write |-> TRUE]
<1>1. (~IsEmpty(f) /\ "PROTECTED" \notin f.flags) = TRUE
  BY DEF IsEmpty
<1> QED
  BY <1>1 DEF ViewOf

LEMMA ReadOnlyView ==
  ASSUME NEW e, NEW f, f.src = e.src, "PROTECTED" \in f.flags
  PROVE  ViewOf(f) = [src |-> ViewOf(e).src, write |-> FALSE]
<1>1. (~IsEmpty(f) /\ "PROTECTED" \notin f.flags) = FALSE
  OBVIOUS
<1> QED
  BY <1>1 DEF ViewOf

(* FastmemView counts with the same Cardinality. *)
LEMMA SameCardinality == \A S : View!Cardinality(S) = Cardinality(S)
BY DEF View!Cardinality, Cardinality

LEMMA InstallEntryImplements == ASSUME IInv, InstallEntry PROVE View!Next
<1> DEFINE i == op.next
           s == Offset(op.src, i - op.first)
           e == [src |-> s, flags |-> IF op.write THEN {"LAZY"} ELSE {"LAZY", "PROTECTED"}]
<1>1. /\ i \in Page /\ i \in Nat /\ op.end \in Nat /\ op.first \in Nat /\ op.first <= i /\ i < op.end
  BY LoopIndex DEF InstallEntry, InLoop
<1>2. op.src \in Source /\ op.src[2] + (op.end - op.first) <= RegionPages
  BY DEF InstallEntry, InLoop, IInv, OpInv
<1>3. s \in Source
  BY <1>1, <1>2, SizeAssumption DEF Source, Offset
<1>4. s # NoSource
  BY <1>3, NoSourceAssumption
<1>5. pages'[i] = e /\ \A p \in Page \ {i} : pages'[p] = pages[p]
  BY <1>1 DEF InstallEntry, Store, IInv, TypeOK
<1>6. pages[i] = Empty
  BY <1>1 DEF InstallEntry, InLoop, IInv, OpInv
<1>7. kmap[i] = NoSource /\ kmap' = kmap
  BY <1>1, <1>6, EmptyEntry DEF InstallEntry, IInv, TableMatchesKernel
<1>8. op.write \in BOOLEAN
  BY DEF IInv, TypeOK, Op
<1> HIDE DEF s
<1>9. ViewOf(pages'[i]) = [src |-> s, write |-> op.write]
  <2>1. pages'[i].src = s
    BY <1>5
  <2>2. "PROTECTED" \notin pages'[i].flags <=> op.write
    BY <1>5, <1>8
  <2>3. (~IsEmpty(pages'[i]) /\ "PROTECTED" \notin pages'[i].flags) = op.write
    BY <2>1, <2>2, <1>4, <1>8 DEF IsEmpty
  <2> QED
    BY <2>1, <2>3 DEF ViewOf
<1>10. View!Show(i, s, op.write)
  BY <1>1, <1>5, <1>7, <1>9, ViewChange DEF View!Show
<1> QED
  BY <1>1, <1>3, <1>8, <1>10 DEF View!Next

(* The resident pages are the mapped entries. *)
LEMMA MappedIsResident ==
  TypeOK /\ TableMatchesKernel => View!Resident(kmap) = MappedPages
<1> SUFFICES ASSUME TypeOK, TableMatchesKernel
             PROVE  View!Resident(kmap) = MappedPages
  OBVIOUS
<1>1. \A p \in Page : kmap[p] # NoSource <=> IsMapped(pages[p])
  BY DEF TableMatchesKernel, IsMapped, IsEmpty
<1> QED
  BY <1>1 DEF View!Resident, MappedPages

LEMMA MakeWritableImplements ==
  ASSUME IInv, MakeWritable
  PROVE  View!Next \/ UNCHANGED View!vars
<1> DEFINE i == op.next
           e == pages[i]
           lazy == [e EXCEPT !.flags = (@ \cup {"LAZY"}) \ {"PROTECTED", "REMAP"}]
<1>1. i \in Page /\ i \in Nat
  BY LoopIndex DEF MakeWritable, InLoop
<1>2. e \in Entry /\ pages \in [Page -> Entry] /\ kmap \in [Page -> Source \cup {NoSource}]
  BY <1>1 DEF IInv, TypeOK
<1>3. CASE UNCHANGED <<pages, kmap, live>>
  BY <1>3, ViewStutters
<1>4. CASE ~IsEmpty(e) /\ "PROTECTED" \in e.flags /\ Store(i, lazy) /\ UNCHANGED <<kmap, live>>
  <2>1. pages'[i] = lazy /\ \A p \in Page \ {i} : pages'[p] = pages[p]
    BY <1>1, <1>2, <1>4 DEF Store
  <2>2. pages'[i].src = e.src /\ "PROTECTED" \notin pages'[i].flags
    BY <2>1, <1>2 DEF Entry
  <2>3. ViewOf(pages'[i]) = [src |-> ViewOf(e).src, write |-> TRUE]
    BY <2>2, <1>4, WritableView
  <2>4. ViewOf(e).src # NoSource
    BY <1>4 DEF ViewOf, IsEmpty
  <2>5. View!Permit(i)
    BY <1>1, <1>4, <2>1, <2>3, <2>4, ViewChange DEF View!Permit
  <2> QED
    BY <1>1, <2>5 DEF View!Next
<1>5. CASE ~IsEmpty(e) /\ {"PROTECTED", "REMAP"} \subseteq e.flags
           /\ live < MappedLimit /\ KernelMap(i, 1)
  <2>1. Span(i, 1) = {i}
    BY <1>1, SpanOfOne
  <2>2. pages'[i] = [e EXCEPT !.flags = @ \ Flag] /\ \A p \in Page \ {i} : pages'[p] = pages[p]
    BY <1>1, <1>5, <2>1 DEF KernelMap
  <2>3. pages'[i].src = e.src /\ "PROTECTED" \notin pages'[i].flags
    BY <2>2, <1>2 DEF Entry, Flag
  <2>4. ViewOf(pages'[i]) = [src |-> ViewOf(e).src, write |-> TRUE]
    BY <2>3, <1>5, WritableView
  <2>5. ViewOf(e).src # NoSource /\ ViewOf(e).src = e.src
    BY <1>5 DEF ViewOf, IsEmpty
  <2>6. Offset(e.src, i - i) = e.src
    BY <1>1, <1>2, <1>5, OffsetZero, i - i = 0 DEF Entry, IsEmpty
  <2>7. kmap' = [kmap EXCEPT ![i] = e.src]
    BY <1>1, <1>2, <1>5, <2>1, <2>6 DEF KernelMap
  <2>8. View!Resident(kmap) = MappedPages
    BY MappedIsResident DEF IInv
  <2>9. View!Cardinality(View!Resident(kmap)) < MappedLimit
    BY <1>5, <2>8, SameCardinality DEF IInv, LiveCountExact
  <2>10. View!Permit(i)
    BY <1>1, <2>2, <2>4, <2>5, <2>7, <2>9, ViewChange DEF View!Permit
  <2> QED
    BY <1>1, <2>10 DEF View!Next
<1> QED
  BY <1>3, <1>4, <1>5 DEF MakeWritable

LEMMA MakeReadOnlyImplements ==
  ASSUME IInv, MakeReadOnly
  PROVE  View!Next \/ UNCHANGED View!vars
<1> DEFINE i == op.next
           e == pages[i]
           closed == [e EXCEPT !.flags = @ \cup {"PROTECTED"}]
           trapped == [e EXCEPT !.flags = @ \cup Flag]
<1>1. i \in Page /\ i \in Nat
  BY LoopIndex DEF MakeReadOnly, InLoop
<1>2. e \in Entry /\ pages \in [Page -> Entry] /\ kmap \in [Page -> Source \cup {NoSource}]
  BY <1>1 DEF IInv, TypeOK
<1>3. CASE UNCHANGED <<pages, kmap, live>>
  BY <1>3, ViewStutters
<1>4. ASSUME ~IsEmpty(e), pages'[i].src = e.src, "PROTECTED" \in pages'[i].flags,
             \A p \in Page \ {i} : pages'[p] = pages[p],
             kmap' = [kmap EXCEPT ![i] = NoSource]
      PROVE  View!Next
  <2>1. ViewOf(pages'[i]) = [src |-> ViewOf(e).src, write |-> FALSE]
    BY <1>4, ReadOnlyView
  <2>2. ViewOf(e).src # NoSource
    BY <1>4 DEF ViewOf, IsEmpty
  <2>3. View!Forbid(i)
    BY <1>1, <1>4, <2>1, <2>2, ViewChange DEF View!Forbid
  <2> QED
    BY <1>1, <2>3 DEF View!Next
<1>5. CASE IsLazy(e) /\ Store(i, closed) /\ UNCHANGED <<kmap, live>>
  <2>1. pages'[i] = closed /\ \A p \in Page \ {i} : pages'[p] = pages[p]
    BY <1>1, <1>2, <1>5 DEF Store
  <2>2. pages'[i].src = e.src /\ "PROTECTED" \in pages'[i].flags
    BY <2>1, <1>2 DEF Entry
  <2>3. ~IsMapped(e) /\ ~IsEmpty(e)
    BY <1>5 DEF IsMapped, IsLazy
  <2>4. kmap[i] = NoSource
    BY <1>1, <2>3 DEF IInv, TableMatchesKernel
  <2>5. kmap' = [kmap EXCEPT ![i] = NoSource]
    BY <1>1, <1>2, <1>5, <2>4
  <2> QED
    BY <1>4, <2>1, <2>2, <2>3, <2>5
<1>6. CASE IsMapped(e) /\ KernelUnmap(i, 1) /\ Store(i, trapped)
  <2>1. pages'[i] = trapped /\ \A p \in Page \ {i} : pages'[p] = pages[p]
    BY <1>1, <1>2, <1>6 DEF Store
  <2>2. pages'[i].src = e.src /\ "PROTECTED" \in pages'[i].flags
    BY <2>1, <1>2 DEF Entry, Flag
  <2>3. Span(i, 1) = {i}
    BY <1>1, SpanOfOne
  <2>4. kmap' = [kmap EXCEPT ![i] = NoSource]
    BY <1>1, <1>2, <1>6, <2>3 DEF KernelUnmap
  <2> QED
    BY <1>4, <1>6, <2>1, <2>2, <2>4 DEF IsMapped
<1> QED
  BY <1>3, <1>5, <1>6 DEF MakeReadOnly

LEMMA ResolveImplements ==
  ASSUME IInv, NEW t \in Thread, Resolve(t)
  PROVE  View!Next \/ UNCHANGED View!vars
<1> DEFINE i == fault[t].page
           batch == IF MappedLimit - live < FaultBatch THEN MappedLimit - live
                                                       ELSE FaultBatch
<1>1. i \in Page /\ TypeOK
  BY DEF IInv, TypeOK, FaultState
<1>2. CASE UNCHANGED <<pages, kmap, live>>
  BY <1>2, ViewStutters
<1>3. CASE \E n \in 1 .. FaultBatch :
             /\ LongestRun(LazyPages, i, n, batch)
             /\ \E m \in {1, n} : KernelMap(i, m)
  <2>1. PICK n \in 1 .. FaultBatch : /\ LongestRun(LazyPages, i, n, batch)
                                     /\ \E m \in {1, n} : KernelMap(i, m)
    BY <1>3
  <2>2. PICK m \in {1, n} : KernelMap(i, m)
    BY <2>1
  <2>3. n \in Nat /\ n >= 1 /\ IsRun(LazyPages, i, n)
    BY SizeAssumption, <2>1 DEF LongestRun
  <2>4. \A p \in Span(i, m) : /\ p \in LazyPages
                              /\ p \in Page
                              /\ pages[p].src = Offset(pages[i].src, p - i)
    BY <1>1, <2>2, <2>3, LazyRunMappable
  <2>5. \A p \in Page : ViewOf(pages[p])' = ViewOf(pages[p])
    <3> TAKE p \in Page
    <3>1. CASE p \in Span(i, m)
      <4>1. pages'[p].src = pages[p].src /\ "PROTECTED" \notin pages'[p].flags
        BY <2>2, <3>1, <1>1 DEF KernelMap, TypeOK, Entry, Flag
      <4>2. "PROTECTED" \notin pages[p].flags
        BY <2>4, <3>1 DEF LazyPages, IsLazy
      <4> QED
        BY <4>1, <4>2 DEF ViewOf, IsEmpty
    <3>2. CASE p \notin Span(i, m)
      BY <2>2, <3>2 DEF KernelMap, ViewOf, IsEmpty
    <3> QED
      BY <3>1, <3>2
  <2>6. \A p \in Span(i, m) : ViewOf(pages[p]).write /\ ViewOf(pages[p]).src = pages[p].src
    BY <2>4 DEF LazyPages, IsLazy, ViewOf
  <2>7. kmap' = [p \in Page |-> IF p \in Span(i, m) THEN pages[p].src ELSE kmap[p]]
    BY <2>2, <2>4 DEF KernelMap
  <2>8. IInv'
    BY ResolvePreserves
  <2>9. View!Resident(kmap') = MappedPages'
    <3>1. \A p \in Page : kmap'[p] # NoSource <=> IsMapped(pages'[p])
      BY <2>8 DEF IInv, TableMatchesKernel, IsMapped, IsEmpty
    <3> QED
      BY <3>1 DEF View!Resident, MappedPages
  <2>10. View!Cardinality(View!Resident(kmap')) <= MappedLimit
    BY <2>8, <2>9, SameCardinality DEF IInv, LiveCountExact
  <2>11. View!Populate(Span(i, m))
    BY <2>4, <2>5, <2>6, <2>7, <2>10 DEF View!Populate
  <2>12. Span(i, m) \in SUBSET Page
    BY <2>4
  <2> HIDE DEF i
  <2> QED
    BY <2>11, <2>12 DEF View!Next
<1> QED
  BY <1>2, <1>3 DEF Resolve

LEMMA StepImplements ==
  IInv /\ [Next]_vars => [View!Next]_(View!vars)
<1> SUFFICES ASSUME IInv, [Next]_vars
             PROVE  View!Next \/ UNCHANGED View!vars
  OBVIOUS
<1>1. ASSUME UnmapEntry \/ UnmapRun \/ InstallEntry PROVE View!Next
  BY <1>1, UnmapEntryImplements, UnmapRunImplements, InstallEntryImplements
<1>2. ASSUME UnmapFails \/ AliasCleared \/ Finish PROVE UNCHANGED View!vars
  BY <1>2, ViewStutters DEF UnmapFails, AliasCleared, Finish
<1>3. ASSUME OpStep PROVE View!Next \/ UNCHANGED View!vars
  BY <1>1, <1>2, <1>3, MakeWritableImplements, MakeReadOnlyImplements DEF OpStep
<1>4. ASSUME Reserve PROVE UNCHANGED View!vars
  <2>1. \A p \in Page : pages[p] = Empty
    BY <1>4 DEF Reserve, IInv, OpInv
  <2>2. pages' = pages
    BY <1>4, <2>1 DEF Reserve, IInv, TypeOK
  <2> QED
    BY <1>4, <2>2, ViewStutters DEF Reserve
<1>5. ASSUME Request PROVE UNCHANGED View!vars
  BY <1>4, <1>5, ViewStutters
     DEF Request, Clear, Munmap, Mprotect, MapAlias, Begin, SetAction
<1>6. ASSUME NEW t \in Thread, ThreadStep(t) PROVE View!Next \/ UNCHANGED View!vars
  BY <1>6, ResolveImplements, ViewStutters DEF ThreadStep, Access, CanDispatch, HandlerReturns
<1>7. CASE UNCHANGED vars
  BY <1>7, ViewStutters DEF vars
<1> QED
  BY <1>3, <1>5, <1>6, <1>7 DEF Next

(* The fastmem area shows the core what it asked for: every step of the lazy *)
(* mapping is a step of FastmemView or leaves view and residency unchanged.  *)
THEOREM ImplementsTheView == Spec => ImplementsView
BY InitImplements, StepImplements, InductiveInvariant, PTL DEF Spec, ImplementsView, View!Spec
================================================================================
