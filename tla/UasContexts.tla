------------------------------ MODULE UasContexts ------------------------------
(***************************************************************************)
(* The transports of the USB disks that speak UAS                          *)
(* (src/launcher/dependencies/libusbhsfs/usbhsfs_uasp.c).  The drive       *)
(* manager's thread makes a transport when a disk is plugged, asks it for  *)
(* the logical units, gives it up for bulk transfers when the disk does    *)
(* not work with it, and frees it when the disk goes; the threads that     *)
(* read files send commands through it meanwhile.  One mutex guards the    *)
(* table of transports, another each transport.                            *)
(***************************************************************************)
EXTENDS Naturals, FiniteSets

CONSTANTS
  Reader,       \* the threads that send commands
  Drive,
  Slots,        \* UASP_MAX_CONTEXTS
  MaxContexts   \* bound: transports made

Manager == "manager"
Thread == Reader \cup {Manager}
Context == 1 .. MaxContexts
None == 0
Nobody == "nobody"

VARIABLES
  made,      \* the transports allocated so far
  driveOf,   \* drive_ctx of each
  freed,     \* those freed
  table,     \* g_uasp_contexts
  mutex,     \* who holds g_uasp_contexts_mutex
  io,        \* who holds each transport's io_mutex
  uasp,      \* the drives' uasp flag
  endpoints, \* each drive's endpoints: "uas", "closed", "bulk", or "unplugged"
  call       \* what each thread executes: its step, drive and transport

held == <<mutex, io>>
contexts == <<made, driveOf, freed, table>>
vars == <<contexts, held, uasp, endpoints, call>>

Idle == [step |-> "idle", drive |-> None, ctx |-> None]

Init ==
  /\ made = 0 /\ driveOf = [c \in Context |-> None] /\ freed = {} /\ table = {}
  /\ mutex = Nobody /\ io = [c \in Context |-> Nobody]
  /\ uasp = [d \in Drive |-> FALSE] /\ endpoints = [d \in Drive |-> "unplugged"]
  /\ call = [t \in Thread |-> Idle]

At(t, step) == call[t].step = step
Goes(t, step, d, c) == call' = [call EXCEPT ![t] = [step |-> step, drive |-> d, ctx |-> c]]
Step(t, step) == Goes(t, step, call[t].drive, call[t].ctx)
Begins(t, step, d) == Goes(t, step, d, None)
Returns(t) == Goes(t, "idle", None, None)

\* uaspFindContext
Found(d) == {c \in table : driveOf[c] = d}

Takes(t) == mutex = Nobody /\ mutex' = t

--------------------------------------------------------------------------------
(* Commands: uaspLockContext, and the transport's use under its mutex *)

\* usbHsFsUaspTransferCommand reads uasp with no lock.
TransferCommand(t) ==
  /\ At(t, "idle")
  /\ \E d \in Drive : endpoints[d] # "unplugged" /\ uasp[d] /\ Begins(t, "find", d)
  /\ UNCHANGED <<contexts, held, uasp, endpoints>>

Find(t) ==
  /\ At(t, "find") /\ Takes(t)
  /\ LET d == call[t].drive
     IN  \/ Found(d) = {} /\ Step(t, "unlock")
         \/ \E c \in Found(d) : Goes(t, "lock", d, c)
  /\ UNCHANGED <<contexts, io, uasp, endpoints>>

\* Mutant: the table's mutex is let go of before the transport's is taken.
LockContextAfter(t) ==
  /\ At(t, "lock") /\ (mutex = t \/ io[call[t].ctx] = Nobody)
  /\ mutex' = (IF mutex = t THEN Nobody ELSE mutex)
  /\ IF mutex = t THEN UNCHANGED <<io, call>>
     ELSE io' = [io EXCEPT ![call[t].ctx] = t] /\ Step(t, "use")
  /\ UNCHANGED <<contexts, uasp, endpoints>>

\* The transport is waited for with the table's mutex held.
LockContext(t) ==
  /\ At(t, "lock") /\ io[call[t].ctx] = Nobody
  /\ io' = [io EXCEPT ![call[t].ctx] = t]
  /\ Step(t, "unlock")
  /\ UNCHANGED <<contexts, mutex, uasp, endpoints>>

Unlock(t) ==
  /\ At(t, "unlock") /\ mutex' = Nobody
  /\ IF call[t].ctx = None THEN Returns(t) ELSE Step(t, "use")
  /\ UNCHANGED <<contexts, io, uasp, endpoints>>

\* uaspTransferCommandLocked; a reset it cannot recover from leaves the endpoints closed.
Use(t) ==
  /\ At(t, "use")
  /\ \/ UNCHANGED endpoints
     \/ endpoints' = [endpoints EXCEPT ![call[t].drive] = "closed"]
  /\ io' = [io EXCEPT ![call[t].ctx] = Nobody]
  /\ Returns(t)
  /\ UNCHANGED <<contexts, mutex, uasp>>

--------------------------------------------------------------------------------
(* The drive manager *)

\* usbHsFsUaspInitialize of a disk with a UAS interface, from memory that may
\* be short; it looks for the drive once before and once when it inserts.
Initialize ==
  /\ At(Manager, "idle")
  /\ \E d \in Drive :
       /\ endpoints[d] = "unplugged"
       /\ endpoints' = [endpoints EXCEPT ![d] = "uas"] /\ uasp' = [uasp EXCEPT ![d] = TRUE]
       /\ Begins(Manager, "look", d)
  /\ UNCHANGED <<contexts, held>>

Allocate ==
  /\ At(Manager, "look") /\ mutex = Nobody
  /\ LET d == call[Manager].drive
     IN  \/ Found(d) # {} /\ Begins(Manager, "find", d) /\ UNCHANGED <<made, driveOf>>
         \/ /\ Found(d) = {} /\ made < MaxContexts
            /\ made' = made + 1 /\ driveOf' = [driveOf EXCEPT ![made'] = d]
            /\ Goes(Manager, "insert", d, made')
         \/ Found(d) = {} /\ Step(Manager, "fallback") /\ UNCHANGED <<made, driveOf>>
  /\ UNCHANGED <<freed, table, held, uasp, endpoints>>

\* A transport that finds no slot, or its drive in the table, is freed again.
\* The manager then asks for the logical units: usbHsFsUaspGetMaxLogicalUnits.
Insert ==
  /\ At(Manager, "insert") /\ mutex = Nobody
  /\ LET c == call[Manager].ctx
         d == call[Manager].drive
     IN  IF Found(d) = {} /\ Cardinality(table) < Slots
         THEN table' = table \cup {c} /\ Begins(Manager, "find", d) /\ UNCHANGED freed
         ELSE /\ freed' = freed \cup {c} /\ UNCHANGED table
              /\ IF Found(d) # {} THEN Begins(Manager, "find", d) ELSE Begins(Manager, "fallback", d)
  /\ UNCHANGED <<made, driveOf, held, uasp, endpoints>>

\* The disk's units do not work, or it is unplugged.
GiveUp ==
  /\ At(Manager, "idle")
  /\ \E d \in Drive :
       \/ uasp[d] /\ Begins(Manager, "fallback", d)
       \/ endpoints[d] # "unplugged" /\ Begins(Manager, "destroy", d)
  /\ UNCHANGED <<contexts, held, uasp, endpoints>>

\* The disk's configuration cannot be read, or names no bulk interface: the drive
\* goes, its transport with it.
NoFallback ==
  /\ At(Manager, "fallback") /\ Begins(Manager, "destroy", call[Manager].drive)
  /\ UNCHANGED <<contexts, held, uasp, endpoints>>

\* usbHsFsUaspCleanup, of Fallback or of the drive, finds the transport, takes
\* it from the table when nobody uses it, and frees it.
Cleanup ==
  /\ call[Manager].step \in {"fallback", "destroy"} /\ Takes(Manager)
  /\ LET d == call[Manager].drive
     IN  Goes(Manager,
              IF At(Manager, "destroy") THEN "removeToDestroy" ELSE "removeToFallback",
              d, IF Found(d) = {} THEN None ELSE CHOOSE c \in Found(d) : TRUE)
  /\ UNCHANGED <<contexts, io, uasp, endpoints>>

Removing == call[Manager].step \in {"removeToDestroy", "removeToFallback"}

Remove ==
  /\ Removing /\ mutex' = Nobody
  /\ LET c == call[Manager].ctx
     IN  /\ c # None => io[c] = Nobody
         /\ table' = table \ {c} /\ freed' = freed \cup ({c} \ {None})
  /\ Step(Manager, IF At(Manager, "removeToDestroy") THEN "unplug" ELSE "close")
  /\ UNCHANGED <<made, driveOf, io, uasp, endpoints>>

Unplug ==
  /\ At(Manager, "unplug")
  /\ endpoints' = [endpoints EXCEPT ![call[Manager].drive] = "unplugged"]
  /\ uasp' = [uasp EXCEPT ![call[Manager].drive] = FALSE]
  /\ Returns(Manager)
  /\ UNCHANGED <<contexts, held>>

\* usbHsFsUaspFallbackToBulkOnlyTransport: the endpoints are closed, and those of
\* the bulk interface opened, or the drive is destroyed.
Close ==
  /\ At(Manager, "close")
  /\ endpoints' = [endpoints EXCEPT ![call[Manager].drive] = "closed"]
  /\ Step(Manager, "open")
  /\ UNCHANGED <<contexts, held, uasp>>

OpenBulk ==
  /\ At(Manager, "open")
  /\ LET d == call[Manager].drive
     IN  \/ /\ endpoints' = [endpoints EXCEPT ![d] = "bulk"] /\ uasp' = [uasp EXCEPT ![d] = FALSE]
            /\ Returns(Manager)
         \/ Begins(Manager, "destroy", d) /\ UNCHANGED <<endpoints, uasp>>
  /\ UNCHANGED <<contexts, held>>

Next ==
  \/ \E t \in Reader : TransferCommand(t)
  \/ \E t \in Thread : Find(t) \/ LockContext(t) \/ Unlock(t) \/ Use(t)
  \/ Initialize \/ Allocate \/ Insert \/ GiveUp \/ NoFallback \/ Cleanup \/ Remove
  \/ Unplug \/ Close \/ OpenBulk

Spec == Init /\ [][Next]_vars

--------------------------------------------------------------------------------
(* The transport a thread waits for or uses is in the table, is not freed and   *)
(* is used by this thread alone, and the drive's endpoints are not those of the *)
(* bulk interface: the disk can be unplugged or given up on at any moment of a  *)
(* command (usbhsfs_uasp.c:170-181, 804-828, 939-960).                          *)
TransportOutlivesUse ==
  \A t \in Thread :
    At(t, "lock") \/ At(t, "use") =>
      LET c == call[t].ctx
      IN  /\ c \in table \ freed
          /\ At(t, "use") => io[c] = t /\ endpoints[driveOf[c]] \in {"uas", "closed"}

--------------------------------------------------------------------------------
(* What TransportOutlivesUse rests on. *)

ReaderSteps == {"idle", "find", "lock", "unlock", "use"}
RemoveSteps == {"removeToDestroy", "removeToFallback"}
Steps ==
  ReaderSteps \cup RemoveSteps
    \cup {"look", "insert", "fallback", "destroy", "unplug", "close", "open"}
Calls == [step : Steps, drive : Drive \cup {None}, ctx : Context \cup {None}]

TypeOK ==
  /\ made \in 0 .. MaxContexts /\ driveOf \in [Context -> Drive \cup {None}]
  /\ freed \subseteq Context /\ table \subseteq Context
  /\ mutex \in Thread \cup {Nobody} /\ io \in [Context -> Thread \cup {Nobody}]
  /\ uasp \in [Drive -> BOOLEAN]
  /\ endpoints \in [Drive -> {"uas", "closed", "bulk", "unplugged"}]
  /\ call \in [Thread -> Calls]

\* The table's mutex is held where a thread counts on it.
MutexHeld ==
  \A t \in Thread :
    /\ call[t].step \in {"lock", "unlock"} \cup RemoveSteps => mutex = t
    /\ t # Manager => call[t].step \in ReaderSteps
    /\ call[t].step # "idle" => call[t].drive \in Drive

\* A transport that was found is in the table, until it is let go of.
FoundInTable ==
  \A t \in Thread :
    /\ call[t].step = "find" => call[t].ctx = None
    /\ call[t].step \in {"lock", "use"} => call[t].ctx \in table
    /\ call[t].step = "use" \/ (call[t].step = "unlock" /\ call[t].ctx # None) =>
          call[t].ctx \in table /\ io[call[t].ctx] = t
    /\ call[t].step \in {"lock", "unlock", "use"} /\ call[t].ctx # None =>
          driveOf[call[t].ctx] = call[t].drive

\* The transports allocated so far.
Allocated == 1 .. made

\* What is in the table was made and not freed, is its drive's only one, and
\* its drive has the endpoints of UAS or none.
TableSound ==
  /\ table \subseteq Allocated /\ freed \subseteq Allocated
  /\ \A c \in table : c \notin freed
  /\ \A c \in table : driveOf[c] \in Drive /\ endpoints[driveOf[c]] \in {"uas", "closed"}
  /\ \A b, c \in table : driveOf[b] = driveOf[c] => b = c

\* Where the manager is with a drive: whether the drive has a transport.
NoneFor(d) == \A c \in table : driveOf[c] # d

ManagerAt ==
  LET d == call[Manager].drive
      c == call[Manager].ctx
  IN  /\ call[Manager].step \in {"look", "insert"} => endpoints[d] \in {"uas", "closed"}
      /\ call[Manager].step = "insert" =>
            c \in Allocated /\ c \notin table /\ c \notin freed /\ driveOf[c] = d
      /\ call[Manager].step \in RemoveSteps =>
            (c \in table /\ driveOf[c] = d) \/ (c = None /\ NoneFor(d))
      /\ call[Manager].step \in {"unplug", "close", "open"} => NoneFor(d)

IInv == TypeOK /\ MutexHeld /\ FoundInTable /\ TableSound /\ ManagerAt
================================================================================
