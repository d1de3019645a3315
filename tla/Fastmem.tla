-------------------------------- MODULE Fastmem --------------------------------
(***************************************************************************)
(* The lazily mapped guest address area of source/libc_shim.c ("fastmem"). *)
(*                                                                         *)
(* The core reserves one area (mmap PROT_NONE), lays pages of its ashmem   *)
(* arenas over it (mmap of an arena fd at an address of the area), changes *)
(* their protection and unmaps them.  The host only records each request   *)
(* in a page table, g_fastmem_pages; the kernel mapping is made when an    *)
(* access faults, in batches, and at most MappedLimit pages are mapped.    *)
(* Every operation holds g_fastmem_lock, but the fault path first reads    *)
(* the table without it, and accesses themselves take no lock.             *)
(*                                                                         *)
(* One step is one iteration of a loop over the table: the kernel call and *)
(* the table entries written for it.  A kernel call may fail at any        *)
(* iteration, which ends the operation there.                              *)
(***************************************************************************)
EXTENDS Integers, FiniteSets

CONSTANTS
  PageCount,     \* FASTMEM_PAGE_COUNT
  MappedLimit,   \* FASTMEM_MAPPED_PAGE_LIMIT
  FaultBatch,    \* FASTMEM_FAULT_BATCH_PAGES
  Region,        \* the alias-backed ashmem arenas
  RegionPages,   \* pages in an arena
  NoSource,      \* what an unmapped page shows
  Thread         \* core threads that access the area

ASSUME SizeAssumption ==
  /\ PageCount \in Nat \ {0}
  /\ MappedLimit \in Nat \ {0}
  /\ FaultBatch \in Nat \ {0}
  /\ RegionPages \in Nat \ {0}

Page == 0 .. PageCount - 1
Source == Region \X (0 .. RegionPages - 1)

ASSUME NoSourceAssumption == NoSource \notin Source

VARIABLES
  area,    \* g_fastmem_pages and g_fastmem_base are set
  pages,   \* g_fastmem_pages
  live,    \* g_fastmem_live_pages
  kmap,    \* the kernel's page tables for the area
  op,      \* the operation that holds g_fastmem_lock, with its loop index
  action,  \* the core has a SIGSEGV or SIGBUS handler registered
  fault    \* per thread: where its access is in the exception path

vars == <<area, pages, live, kmap, op, action, fault>>

--------------------------------------------------------------------------------
(* Table entries *)

Flag == {"LAZY", "PROTECTED", "REMAP"}
Entry == [src : Source \cup {NoSource}, flags : SUBSET Flag]
Empty == [src |-> NoSource, flags |-> {}]

IsEmpty(e) == e.src = NoSource
IsMapped(e) == ~IsEmpty(e) /\ e.flags \cap {"LAZY", "PROTECTED"} = {}
\* Mutant: a protected page is taken for a lazy one.
IsLazyThoughProtected(e) == ~IsEmpty(e) /\ "LAZY" \in e.flags
IsLazy(e) == ~IsEmpty(e) /\ "LAZY" \in e.flags /\ "PROTECTED" \notin e.flags

MappedPages == {p \in Page : IsMapped(pages[p])}
LazyPages == {p \in Page : IsLazy(pages[p])}

\* The arena page n pages after s.
Offset(s, n) == <<s[1], s[2] + n>>

\* Mutant: a run need not show consecutive pages.
IsRunAnywhere(S, i, n) == \A j \in 0 .. n - 1 : i + j \in S

\* n pages of S from page i on, showing consecutive pages of one arena.
IsRun(S, i, n) ==
  \A j \in 0 .. n - 1 : i + j \in S /\ pages[i + j].src = Offset(pages[i].src, j)

LongestRun(S, i, n, cap) ==
  /\ n \in 1 .. cap
  /\ IsRun(S, i, n)
  /\ n = cap \/ ~IsRun(S, i, n + 1)

Span(i, n) == i .. i + n - 1

--------------------------------------------------------------------------------
(* Operations under g_fastmem_lock *)

Idle == [kind |-> "idle", first |-> 0, next |-> 0, end |-> 0,
         src |-> NoSource, write |-> FALSE]

OpKind == {"idle", "alias", "install", "clear", "munmap", "mprotect"}
Op == [kind : OpKind, first : 0 .. PageCount, next : 0 .. PageCount,
       end : 0 .. PageCount, src : Source \cup {NoSource}, write : BOOLEAN]

Begin(kind, first, n, src, write) ==
  /\ area
  /\ op = Idle
  /\ op' = [kind |-> kind, first |-> first, next |-> first, end |-> first + n,
            src |-> src, write |-> write]
  /\ UNCHANGED <<area, pages, live, kmap, action, fault>>

\* mmap of an arena over n pages: bounds are checked against the arena first.
MapAlias(first, n, src, write) ==
  /\ src[2] + n <= RegionPages
  /\ Begin("alias", first, n, src, write)

\* mmap(PROT_NONE, MAP_FIXED) clears n pages of the area, and so does munmap.
Clear(first, n) == Begin("clear", first, n, NoSource, FALSE)
Munmap(first, n) == Begin("munmap", first, n, NoSource, FALSE)

Mprotect(first, n, write) == Begin("mprotect", first, n, NoSource, write)

Advance(n) == op' = [op EXCEPT !.next = @ + n]
Store(p, e) == pages' = [pages EXCEPT ![p] = e]

\* svcUnmapProcessMemory and svcMapProcessMemory of n pages from page i.
KernelUnmap(i, n) ==
  /\ kmap' = [p \in Page |-> IF p \in Span(i, n) THEN NoSource ELSE kmap[p]]
  /\ live' = IF live >= n THEN live - n ELSE 0

KernelMap(i, n) ==
  /\ kmap' = [p \in Page |-> IF p \in Span(i, n)
                             THEN Offset(pages[i].src, p - i) ELSE kmap[p]]
  /\ live' = live + n
  /\ pages' = [p \in Page |-> IF p \in Span(i, n)
                              THEN [pages[p] EXCEPT !.flags = @ \ Flag]
                              ELSE pages[p]]

InLoop(kinds) == op.kind \in kinds /\ op.next < op.end

\* fastmem_unmap_range_locked(clear = 1), an entry the kernel does not map.
UnmapEntry ==
  /\ InLoop({"alias", "clear", "munmap"})
  /\ ~IsMapped(pages[op.next])
  /\ Store(op.next, Empty)
  /\ Advance(1)
  /\ UNCHANGED <<area, live, kmap, action, fault>>

\* ... and a run of mapped entries, unmapped by one kernel call.
UnmapRun ==
  /\ InLoop({"alias", "clear", "munmap"})
  /\ IsMapped(pages[op.next])
  /\ \E n \in 1 .. op.end - op.next :
       /\ LongestRun(MappedPages, op.next, n, op.end - op.next)
       /\ KernelUnmap(op.next, n)
       /\ pages' = [p \in Page |-> IF p \in Span(op.next, n) THEN Empty ELSE pages[p]]
       /\ Advance(n)
  /\ UNCHANGED <<area, action, fault>>

\* The kernel refuses to unmap: the operation returns an error, half done.
UnmapFails ==
  /\ InLoop({"alias", "clear", "munmap", "mprotect"})
  /\ op.kind = "mprotect" => ~op.write
  /\ IsMapped(pages[op.next])
  /\ op' = Idle
  /\ UNCHANGED <<area, pages, live, kmap, action, fault>>

\* fastmem_map_alias goes on to fill the emptied range.
AliasCleared ==
  /\ op.kind = "alias" /\ op.next = op.end
  /\ op' = [op EXCEPT !.kind = "install", !.next = op.first]
  /\ UNCHANGED <<area, pages, live, kmap, action, fault>>

InstallEntry ==
  /\ InLoop({"install"})
  /\ Store(op.next, [src |-> Offset(op.src, op.next - op.first),
                     flags |-> IF op.write THEN {"LAZY"} ELSE {"LAZY", "PROTECTED"}])
  /\ Advance(1)
  /\ UNCHANGED <<area, live, kmap, action, fault>>

\* mprotect_fake with PROT_WRITE: a page that was mapped when it was protected
\* is mapped again at once, if the limit and the kernel allow.
MakeWritable ==
  /\ InLoop({"mprotect"}) /\ op.write
  /\ LET e == pages[op.next]
         lazy == [e EXCEPT !.flags = (@ \cup {"LAZY"}) \ {"PROTECTED", "REMAP"}]
     IN \/ /\ IsEmpty(e) \/ "PROTECTED" \notin e.flags
           /\ UNCHANGED <<pages, kmap, live>>
        \/ /\ ~IsEmpty(e) /\ "PROTECTED" \in e.flags
           /\ Store(op.next, lazy)
           /\ UNCHANGED <<kmap, live>>
        \/ /\ ~IsEmpty(e) /\ {"PROTECTED", "REMAP"} \subseteq e.flags
           /\ live < MappedLimit
           /\ KernelMap(op.next, 1)
  /\ Advance(1)
  /\ UNCHANGED <<area, action, fault>>

\* mprotect_fake without PROT_WRITE: a mapped page is taken from the kernel.
MakeReadOnly ==
  /\ InLoop({"mprotect"}) /\ ~op.write
  /\ LET e == pages[op.next]
     IN \/ /\ IsEmpty(e) \/ "PROTECTED" \in e.flags
           /\ UNCHANGED <<pages, kmap, live>>
        \/ /\ IsLazy(e)
           /\ Store(op.next, [e EXCEPT !.flags = @ \cup {"PROTECTED"}])
           /\ UNCHANGED <<kmap, live>>
        \/ /\ IsMapped(e)
           /\ KernelUnmap(op.next, 1)
           /\ Store(op.next, [e EXCEPT !.flags = @ \cup Flag])
  /\ Advance(1)
  /\ UNCHANGED <<area, action, fault>>

\* The lock is released.  Unmapping the whole area also drops the table.
Finish ==
  /\ op.kind \in {"install", "clear", "munmap", "mprotect"} /\ op.next = op.end
  /\ op' = Idle
  /\ IF op.kind = "munmap" /\ op.first = 0 /\ op.end = PageCount
     THEN area' = FALSE /\ live' = 0
     ELSE UNCHANGED <<area, live>>
  /\ UNCHANGED <<pages, kmap, action, fault>>

\* mmap(PROT_NONE) of an area's size: a fresh table.
Reserve ==
  /\ ~area
  /\ area' = TRUE
  /\ pages' = [p \in Page |-> Empty]
  /\ UNCHANGED <<live, kmap, op, action, fault>>

OpStep ==
  \/ UnmapEntry \/ UnmapRun \/ UnmapFails
  \/ AliasCleared \/ InstallEntry
  \/ MakeWritable \/ MakeReadOnly
  \/ Finish

--------------------------------------------------------------------------------
(* The exception path *)

Running == [pc |-> "run", page |-> 0]
FaultState == [pc : {"run", "fault", "resolve", "handler", "crashed"}, page : Page]

To(t, pc) ==
  fault' = [fault EXCEPT ![t] = IF pc = "run" THEN Running ELSE [@ EXCEPT !.pc = pc]]

\* An access to a page the kernel does not map (others leave no trace).
Access(t, p) ==
  /\ area /\ fault[t].pc = "run"
  /\ kmap[p] = NoSource
  /\ fault' = [fault EXCEPT ![t] = [pc |-> "fault", page |-> p]]
  /\ UNCHANGED <<area, pages, live, kmap, op, action>>

\* fastmem_fault_can_dispatch, which reads the table without the lock.
CanDispatch(t) ==
  /\ fault[t].pc = "fault"
  /\ To(t, IF area /\ (IsLazy(pages[fault[t].page]) \/ action)
           THEN "resolve" ELSE "crashed")
  /\ UNCHANGED <<area, pages, live, kmap, op, action>>

\* Mutant: a fault that was not resolved is tried again.
NotResolvedRetries(t) == UNCHANGED fault

\* fastmem_dispatch_fault: what happens to a fault that was not resolved.
NotResolved(t) == To(t, IF action THEN "handler" ELSE "crashed")

\* fastmem_try_resolve_fault: map the page and the lazy pages that follow it,
\* or the page alone if the kernel refuses the batch.
Resolve(t) ==
  LET p == fault[t].page
      batch == IF MappedLimit - live < FaultBatch THEN MappedLimit - live
                                                  ELSE FaultBatch
  IN
  /\ fault[t].pc = "resolve" /\ op = Idle
  /\ \/ /\ ~area \/ ~IsLazy(pages[p]) \/ live >= MappedLimit
        /\ NotResolved(t)
        /\ UNCHANGED <<pages, kmap, live>>
     \/ /\ area /\ IsLazy(pages[p]) /\ live < MappedLimit
        /\ \E n \in 1 .. FaultBatch :
             /\ LongestRun(LazyPages, p, n, batch)
             /\ \E m \in {1, n} : KernelMap(p, m)
        /\ To(t, "run")
     \/ /\ area /\ IsLazy(pages[p]) /\ live < MappedLimit
        /\ NotResolved(t)
        /\ UNCHANGED <<pages, kmap, live>>
  /\ UNCHANGED <<area, op, action>>

\* The core's handler returns: the access is retried, or was "unhandled".
HandlerReturns(t) ==
  /\ fault[t].pc = "handler"
  /\ \E pc \in {"run", "crashed"} : To(t, pc)
  /\ UNCHANGED <<area, pages, live, kmap, op, action>>

\* sigaction by the core; libc_memory_shutdown clears the registrations.
SetAction(b) ==
  /\ action' = b
  /\ UNCHANGED <<area, pages, live, kmap, op, fault>>

--------------------------------------------------------------------------------
Init ==
  /\ area = FALSE
  /\ pages = [p \in Page |-> Empty]
  /\ live = 0
  /\ kmap = [p \in Page |-> NoSource]
  /\ op = Idle
  /\ action = FALSE
  /\ fault = [t \in Thread |-> Running]

Request ==
  \/ \E first \in Page : \E n \in 1 .. PageCount - first :
       \/ Clear(first, n) \/ Munmap(first, n)
       \/ \E write \in BOOLEAN :
            \/ Mprotect(first, n, write)
            \/ \E src \in Source : MapAlias(first, n, src, write)
  \/ Reserve
  \/ \E b \in BOOLEAN : SetAction(b)

ThreadStep(t) ==
  \/ \E p \in Page : Access(t, p)
  \/ CanDispatch(t) \/ Resolve(t) \/ HandlerReturns(t)

Next == Request \/ OpStep \/ \E t \in Thread : ThreadStep(t)

Spec == Init /\ [][Next]_vars

(* The holder of the lock runs on.  libnx mutexes are passed on by the      *)
(* kernel to a waiter when they are released, so a waiting fault gets it.   *)
FairSpec ==
  /\ Spec
  /\ WF_vars(OpStep)
  /\ \A t \in Thread : WF_vars(CanDispatch(t)) /\ SF_vars(Resolve(t))

--------------------------------------------------------------------------------
(* Properties *)

(* Types, and the flag combinations the table can hold. *)
TypeOK ==
  /\ area \in BOOLEAN
  /\ pages \in [Page -> Entry]
  /\ live \in Nat
  /\ kmap \in [Page -> Source \cup {NoSource}]
  /\ op \in Op
  /\ action \in BOOLEAN
  /\ fault \in [Thread -> FaultState]

(* The table and the kernel agree on every page, whatever kernel call of    *)
(* whatever operation failed: a page is mapped exactly when its entry is    *)
(* neither empty nor lazy nor protected, and it is mapped to the arena page *)
(* the entry names.  A wrong entry would hand the emulator another page's   *)
(* memory, or make every later unmap of the range fail.                     *)
TableMatchesKernel ==
  \A p \in Page : kmap[p] = IF IsMapped(pages[p]) THEN pages[p].src ELSE NoSource

(* g_fastmem_live_pages counts the mapped pages exactly, so the kernel is   *)
(* never asked for more than the limit and the limit is never reached early. *)
LiveCountExact == live = Cardinality(MappedPages) /\ live <= MappedLimit

(* What an operation has processed is what was asked for, page by page, and *)
(* stays so until the lock is released: the emptied range is empty, the     *)
(* new mapping shows consecutive arena pages with the requested permission, *)
(* mprotect left no page of the range with the other protection.            *)
Processed == op.first .. op.next - 1

RequestHonoured ==
  /\ op.kind \in {"alias", "clear", "munmap"} => \A p \in Processed : pages[p] = Empty
  /\ op.kind = "install" => \A p \in Processed :
       /\ pages[p].src = Offset(op.src, p - op.first)
       /\ "PROTECTED" \in pages[p].flags <=> ~op.write
  /\ op.kind = "mprotect" => \A p \in Processed :
       IsEmpty(pages[p]) \/ ("PROTECTED" \in pages[p].flags <=> ~op.write)

(* Every faulting access is resolved, passed to the core's handler, or      *)
(* reported as a crash; none is left waiting for the lock.                  *)
FaultsAreAnswered ==
  \A t \in Thread :
    fault[t].pc \in {"fault", "resolve"} ~> fault[t].pc \in {"run", "handler", "crashed"}

(* The area behaves like FastmemView: what is resident is what the core     *)
(* asked for and allowed, and only a request for a page takes it away.      *)
ViewOf(e) == [src |-> e.src, write |-> ~IsEmpty(e) /\ "PROTECTED" \notin e.flags]

View == INSTANCE FastmemView
  WITH view <- [p \in Page |-> ViewOf(pages[p])], resident <- kmap

ImplementsView == View!Spec
================================================================================
