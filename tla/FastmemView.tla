------------------------------ MODULE FastmemView ------------------------------
(***************************************************************************)
(* What libc_shim.c's fastmem area promises the emulator core, without the *)
(* lazy-mapping machinery.  The core sees an address area of pages.  Each  *)
(* page shows nothing, or one page of an ashmem arena with or without      *)
(* write permission (view).  At any moment some of the pages are really    *)
(* mapped by the kernel (resident); an access to any other page traps.     *)
(*                                                                         *)
(* The promise: a page is resident only with the contents the core asked   *)
(* for and only while it is writable, no more than MappedLimit pages are   *)
(* resident, and a resident page is lost only by a request for that page.  *)
(***************************************************************************)
EXTENDS Naturals, FiniteSets

CONSTANTS
  Page,          \* the pages of the area
  Source,        \* the pages of the arenas that can be shown there
  NoSource,      \* "no page"
  MappedLimit    \* FASTMEM_MAPPED_PAGE_LIMIT

VARIABLES
  view,          \* page -> what the core asked for: a source and a permission
  resident       \* page -> the source the kernel maps there, or NoSource

vars == <<view, resident>>

Shown == [src : Source \cup {NoSource}, write : BOOLEAN]
Nothing == [src |-> NoSource, write |-> FALSE]

Resident(res) == {p \in Page : res[p] # NoSource}

Init ==
  /\ view = [p \in Page |-> Nothing]
  /\ resident = [p \in Page |-> NoSource]

\* The core takes pages away (munmap, a PROT_NONE remap, a new mapping on top).
Drop(P) ==
  /\ view' = [p \in Page |-> IF p \in P THEN Nothing ELSE view[p]]
  /\ resident' = [p \in Page |-> IF p \in P THEN NoSource ELSE resident[p]]

\* The core puts an arena page on a page that is empty by now.
Show(p, s, w) ==
  /\ resident[p] = NoSource
  /\ view' = [view EXCEPT ![p] = [src |-> s, write |-> w]]
  /\ UNCHANGED resident

\* mprotect without PROT_WRITE: the page traps from now on.
Forbid(p) ==
  /\ view[p].src # NoSource
  /\ view' = [view EXCEPT ![p] = [src |-> @.src, write |-> FALSE]]
  /\ resident' = [resident EXCEPT ![p] = NoSource]

\* mprotect with PROT_WRITE: the page may be made resident at once.
Permit(p) ==
  /\ view[p].src # NoSource
  /\ view' = [view EXCEPT ![p] = [src |-> @.src, write |-> TRUE]]
  /\ \/ UNCHANGED resident
     \/ /\ Cardinality(Resident(resident)) < MappedLimit
        /\ resident' = [resident EXCEPT ![p] = view[p].src]

\* A fault makes writable pages resident, with what they show.
Populate(P) ==
  /\ \A p \in P : view[p].write
  /\ resident' = [p \in Page |-> IF p \in P THEN view[p].src ELSE resident[p]]
  /\ Cardinality(Resident(resident')) <= MappedLimit
  /\ UNCHANGED view

Next ==
  \/ \E P \in SUBSET Page : Drop(P) \/ Populate(P)
  \/ \E p \in Page :
       \/ \E s \in Source, w \in BOOLEAN : Show(p, s, w)
       \/ Forbid(p)
       \/ Permit(p)

Spec == Init /\ [][Next]_vars
================================================================================
