------------------------------ MODULE SmbMounts ------------------------------
(***************************************************************************)
(* The SMB shares mounted as devices (src/source/switch/SwitchStorage.cpp).*)
(* The launcher's screens mount, reconnect and unmount a share while its   *)
(* workers mount it themselves and read from it.  The registry's mutex     *)
(* orders registrations; a mount's ioMutex is held for as long as its      *)
(* connection is used or made; a file or directory keeps its mount alive   *)
(* after the registry let it go.  The model has one share: a mount is one  *)
(* of its successive registrations.                                        *)
(***************************************************************************)
EXTENDS Naturals

CONSTANTS Thread, MaxMounts

Mount == 1..MaxMounts
NoMount == 0

VARIABLES
    created,    \* mounts made so far
    registered, \* s_smbMounts: the share's mount
    retired,    \* the mounts unmounted
    context,    \* the mounts with an smb2_context
    state,      \* SmbConnectionState
    io,         \* ioMutex: who holds it
    call        \* what a thread executes: its operation, mount and step

vars == <<created, registered, retired, context, state, io, call>>

NoCall == [op |-> "none", mount |-> NoMount, step |-> "none"]

Init ==
    /\ created = 0 /\ registered = NoMount /\ retired = {} /\ context = {}
    /\ state = [m \in Mount |-> "Disconnected"]
    /\ io = [m \in Mount |-> "free"]
    /\ call = [t \in Thread |-> NoCall]

At(t, op, step) == call[t].op = op /\ call[t].step = step
Step(t, step) == call' = [call EXCEPT ![t].step = step]
Returns(t) == call' = [call EXCEPT ![t] = NoCall]
Begins(t, op, m, step) ==
    call' = [call EXCEPT ![t] = [op |-> op, mount |-> m, step |-> step]]
Unlocks(m) == io' = [io EXCEPT ![m] = "free"]

-----------------------------------------------------------------------------
(* reconnectMountUnlocked: the old connection goes, a new one is made, for *)
(* up to six seconds, while the mount's lock is held or the mount is not   *)
(* registered yet.                                                         *)

disconnectMountUnlocked(m) == context' = context \ {m}

Connecting(t) == call[t].step = "connecting"

\* The context can be made, and the connection awaited, or it cannot.
StartsConnecting(t, m) ==
    \/ /\ context' = context \cup {m} /\ Step(t, "connecting")
       /\ state' = [state EXCEPT ![m] = IF m \in context THEN "Reconnecting" ELSE "Connecting"]
    \/ /\ context' = context \ {m} /\ Step(t, "failed")
       /\ state' = [state EXCEPT ![m] = "Failed"]

reconnectMountUnlocked(t) ==
    /\ Connecting(t)
    /\ LET m == call[t].mount
       IN \/ state' = [state EXCEPT ![m] = "Connected"] /\ Step(t, "connected")
             /\ UNCHANGED context
          \/ \* timed out: disconnected; refused: the context stays
             state' = [state EXCEPT ![m] = "Failed"] /\ Step(t, "failed")
             /\ context' \in {context, context \ {m}}
          \/ \* cancelled, or unmounted meanwhile
             state' = [state EXCEPT ![m] = "Disconnected"] /\ Step(t, "failed")
             /\ disconnectMountUnlocked(m)
    /\ UNCHANGED <<created, registered, retired, io>>

-----------------------------------------------------------------------------
(* MountSmb.                                                               *)

MountSmb(t) ==
    /\ call[t] = NoCall
    /\ IF registered # NoMount
       THEN Begins(t, "existing", registered, "lock") /\ UNCHANGED <<created, context, state>>
       ELSE /\ created < MaxMounts
            /\ LET m == created + 1
               IN /\ created' = m
                  /\ context' = context \cup {m}
                  /\ state' = [state EXCEPT ![m] = "Connecting"]
                  /\ Begins(t, "mount", m, "connecting")
    /\ UNCHANGED <<registered, retired, io>>

\* The one who lost the race drops its own mount, whatever its settings were.
Register(t) ==
    /\ At(t, "mount", "connected")
    /\ LET m == call[t].mount
       IN IF registered = NoMount
          THEN registered' = m /\ UNCHANGED context
          ELSE disconnectMountUnlocked(m) /\ UNCHANGED registered
    /\ Returns(t)
    /\ UNCHANGED <<created, retired, state, io>>

MountFails(t) ==
    /\ At(t, "mount", "failed")
    /\ disconnectMountUnlocked(call[t].mount) /\ Returns(t)
    /\ UNCHANGED <<created, registered, retired, state, io>>

ReconnectSmb(t) ==
    /\ call[t] = NoCall /\ registered # NoMount
    /\ Begins(t, "reconnect", registered, "lock")
    /\ UNCHANGED <<created, registered, retired, context, state, io>>

\* With the lock: a mount that was retired meanwhile is left alone.
Relock(t) ==
    /\ call[t].op \in {"existing", "reconnect"} /\ call[t].step = "lock"
    /\ LET m == call[t].mount
       IN /\ io[m] = "free"
          /\ IF m \in retired \/ (call[t].op = "existing" /\ state[m] = "Connected")
             THEN Returns(t) /\ UNCHANGED <<context, state, io>>
             ELSE StartsConnecting(t, m) /\ io' = [io EXCEPT ![m] = t]
    /\ UNCHANGED <<created, registered, retired>>

Reconnected(t) ==
    /\ call[t].op \in {"existing", "reconnect"} /\ call[t].step \in {"connected", "failed"}
    /\ Unlocks(call[t].mount) /\ Returns(t)
    /\ UNCHANGED <<created, registered, retired, context, state>>

-----------------------------------------------------------------------------
(* UnmountSmb: the device is taken back first; then whoever still uses the *)
(* connection is waited for.                                               *)

UnmountSmb(t) ==
    /\ call[t] = NoCall /\ registered # NoMount
    /\ registered' = NoMount /\ retired' = retired \cup {registered}
    /\ state' = [state EXCEPT ![registered] = "Disconnected"]
    /\ Begins(t, "unmount", registered, "fence")
    /\ UNCHANGED <<created, context, io>>

(* The bug of a connection destroyed without waiting.                      *)
NoFence(t) ==
    /\ At(t, "unmount", "fence")
    /\ disconnectMountUnlocked(call[t].mount) /\ Returns(t)
    /\ UNCHANGED <<created, registered, retired, state, io>>

Fence(t) ==
    /\ At(t, "unmount", "fence") /\ io[call[t].mount] = "free"
    /\ disconnectMountUnlocked(call[t].mount) /\ Returns(t)
    /\ UNCHANGED <<created, registered, retired, state, io>>

-----------------------------------------------------------------------------
(* An operation on a path, or on a file opened before: it has its mount,   *)
(* waits for the lock, and only then sees whether it is retired.  A file   *)
(* whose connection was lost makes a new one.  A path needs a context, but *)
(* opening a file or a directory does not look for one: libsmb2 is then    *)
(* called without (external, what it makes of that is left out).           *)

mountFrom(t) ==
    /\ call[t] = NoCall
    /\ \/ registered # NoMount
          /\ \E op \in {"path", "open"} : Begins(t, op, registered, "lock")
       \/ \E m \in (retired \cup {registered}) \ {NoMount} : Begins(t, "file", m, "lock")
    /\ UNCHANGED <<created, registered, retired, context, state, io>>

pathOperation(t) ==
    /\ At(t, "path", "lock")
    /\ LET m == call[t].mount
       IN /\ io[m] = "free"
          /\ IF m \in retired \/ m \notin context
             THEN Returns(t) /\ UNCHANGED io
             ELSE Step(t, "using") /\ io' = [io EXCEPT ![m] = t]
    /\ UNCHANGED <<created, registered, retired, context, state>>

smbOpen(t) ==
    /\ At(t, "open", "lock")
    /\ LET m == call[t].mount
       IN /\ io[m] = "free"
          /\ IF m \in retired THEN Returns(t) /\ UNCHANGED io
             ELSE /\ Step(t, IF m \in context THEN "using" ELSE "blind")
                  /\ io' = [io EXCEPT ![m] = t]
    /\ UNCHANGED <<created, registered, retired, context, state>>

ensureFileCurrent(t) ==
    /\ At(t, "file", "lock")
    /\ LET m == call[t].mount
       IN /\ io[m] = "free"
          /\ CASE m \in retired -> Returns(t) /\ UNCHANGED <<context, state, io>>
               [] m \notin retired /\ state[m] = "Connected" ->
                    Step(t, "using") /\ io' = [io EXCEPT ![m] = t] /\ UNCHANGED <<context, state>>
               [] OTHER -> StartsConnecting(t, m) /\ io' = [io EXCEPT ![m] = t]
    /\ UNCHANGED <<created, registered, retired>>

FileReopened(t) ==
    /\ call[t].op = "file" /\ call[t].step \in {"connected", "failed"}
    /\ IF call[t].step = "connected" THEN Step(t, "using") /\ UNCHANGED io
       ELSE Returns(t) /\ Unlocks(call[t].mount)
    /\ UNCHANGED <<created, registered, retired, context, state>>

\* It succeeds, or finds the connection lost: recordIoFailure.
OperationEnds(t) ==
    /\ call[t].step \in {"using", "blind"}
    /\ LET m == call[t].mount
       IN /\ state' \in IF call[t].op = "file" /\ m \notin retired
                        THEN {state, [state EXCEPT ![m] = "Failed"]} ELSE {state}
          /\ Unlocks(m)
    /\ Returns(t)
    /\ UNCHANGED <<created, registered, retired, context>>

Next ==
    \E t \in Thread :
        \/ MountSmb(t) \/ Register(t) \/ MountFails(t)
        \/ ReconnectSmb(t) \/ Relock(t) \/ Reconnected(t) \/ reconnectMountUnlocked(t)
        \/ UnmountSmb(t) \/ Fence(t)
        \/ mountFrom(t) \/ pathOperation(t) \/ smbOpen(t) \/ ensureFileCurrent(t)
        \/ FileReopened(t) \/ OperationEnds(t)

Spec == Init /\ [][Next]_vars

-----------------------------------------------------------------------------
Ops == {"none", "mount", "existing", "reconnect", "unmount", "path", "open", "file"}
Steps == {"none", "lock", "connecting", "connected", "failed", "fence", "using", "blind"}
Calls == [op : Ops, mount : Mount \cup {NoMount}, step : Steps]

TypeOK ==
    /\ created \in 0..MaxMounts /\ registered \in Mount \cup {NoMount}
    /\ retired \subseteq Mount /\ context \subseteq Mount
    /\ state \in [Mount -> {"Disconnected", "Connecting", "Connected", "Reconnecting", "Failed"}]
    /\ io \in [Mount -> Thread \cup {"free"}]
    /\ call \in [Thread -> Calls]

\* A connection is not destroyed under an operation that uses it or waits for
\* it, and when the last thread has left an unmounted share none is left.  Only
\* the opening of a file or directory goes on without a connection, and only when
\* the mount's last attempt to connect was cut short or failed, never because
\* another thread took it away (SwitchStorage.cpp:395-396, 426, 758).
ContextOutlivesUse ==
    /\ \A t \in Thread : call[t].step \in {"using", "connecting"} => call[t].mount \in context
    /\ \A t \in Thread : call[t].step = "blind" =>
          call[t].op = "open" /\ state[call[t].mount] # "Connected"
    /\ \A m \in retired : (\A t \in Thread : call[t].mount # m) => m \notin context

-----------------------------------------------------------------------------
(* What ContextOutlivesUse rests on.                                       *)

\* The mounts an operation can come to have: those that were registered.
Known == (retired \cup {registered}) \ {NoMount}

\* The mounts made so far.
Made == 1..created

Registrations ==
    /\ Known \subseteq Made
    /\ registered \notin retired

\* A thread past the lock of a known mount holds it.
Users == {"existing", "reconnect", "path", "open", "file"}
LockHeld ==
    \A t \in Thread :
        /\ call[t].op = "none" => call[t].step = "none"
        /\ call[t].op = "mount" => call[t].step \in {"connecting", "connected", "failed"}
        /\ call[t].op = "unmount" => call[t].step = "fence" /\ call[t].mount \in retired
        /\ call[t].op \in Users =>
              /\ call[t].mount \in Known
              /\ call[t].step \in {"lock", "connecting", "connected", "failed", "using", "blind"}
              /\ call[t].step # "lock" => io[call[t].mount] = t
        /\ call[t].step = "using" => call[t].op \in {"path", "open", "file"}
        /\ call[t].step = "blind" => call[t].op = "open"

\* A mount that is being made is its maker's alone.
MakersApart ==
    \A t \in Thread : call[t].op = "mount" =>
        /\ call[t].mount \in Made /\ call[t].mount \notin Known
        /\ \A u \in Thread : call[u].op = "mount" /\ call[u].mount = call[t].mount => u = t

\* A connection that counts as made is there.
ConnectedHasContext ==
    /\ \A t \in Thread :
          call[t].step \in {"using", "connecting", "connected"} => call[t].mount \in context
    /\ registered # NoMount /\ state[registered] = "Connected" => registered \in context
    /\ \A t \in Thread : call[t].step = "blind" => state[call[t].mount] # "Connected"

\* The connection of an unmounted share has the thread that will destroy it.
OrphansFenced ==
    \A m \in retired : m \in context =>
        \E t \in Thread : call[t].op = "unmount" /\ call[t].mount = m

IInv ==
    /\ TypeOK /\ Registrations /\ LockHeld /\ MakersApart /\ ConnectedHasContext
    /\ OrphansFenced
================================================================================
