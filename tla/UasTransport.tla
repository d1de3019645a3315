------------------------------ MODULE UasTransport ------------------------------
(***************************************************************************)
(* Commands to a USB disk over UAS                                         *)
(* (src/launcher/dependencies/libusbhsfs/usbhsfs_uasp.c:186-696).  One     *)
(* command is in progress at a time.  Its status transfer is posted before *)
(* the command is sent; the device answers with a unit that says it is     *)
(* ready for the data, and one with the status.  A command that goes wrong *)
(* is recovered from: the endpoints are opened anew, which takes back what *)
(* was posted, and the device is told to abort the task, then to reset the *)
(* logical unit, and is reset itself at last.                              *)
(*                                                                         *)
(* The device sends its units in order, each when it likes or never, also  *)
(* after it has confirmed that the task is aborted.  Every transfer may    *)
(* fail or time out and every endpoint may refuse to open.                 *)
(***************************************************************************)
EXTENDS Naturals, Sequences

CONSTANTS
  TagLimit,     \* UINT16_MAX, the first tag that is not used
  MaxCommands   \* bound: commands; TagLimit exceeds the tags they can use

VARIABLES
  pc,        \* the step of the command, or of its recovery
  command,   \* history: the number of the command
  hasData,   \* the command has a data stage
  tag,       \* the command's tag
  taskTag,   \* the tag of the recovery's task
  nextTag,   \* next_tag
  open,      \* the endpoints are open
  status,    \* the status buffer is posted
  data,      \* the drive's buffer is posted
  answers,   \* the device's units to come: [tag, kind, of]
  result,    \* what the command returned: None yet, Failed, or whose status it is
  clobbered  \* history: a buffer was written while it was posted

None == 0
Failed == MaxCommands + 1

tags == <<tag, taskTag, nextTag>>
vars == <<pc, command, hasData, tags, open, status, data, answers, result, clobbered>>

Kinds == {"sense", "response", "ready"}
Unit == [tag : 1 .. TagLimit - 1, kind : Kinds, of : 0 .. MaxCommands]

TypeOK ==
  /\ command \in 0 .. MaxCommands /\ hasData \in BOOLEAN
  /\ tag \in 0 .. TagLimit - 1 /\ taskTag \in 0 .. TagLimit - 1 /\ nextTag \in 1 .. TagLimit
  /\ open \in BOOLEAN /\ status \in BOOLEAN /\ data \in BOOLEAN /\ clobbered \in BOOLEAN
  /\ answers \in Seq(Unit)

\* The transport has been in use: the next tag may be one of the last.
Init ==
  /\ pc = "idle" /\ command = 0 /\ hasData = FALSE
  /\ tag = 0 /\ taskTag = 0 /\ nextTag \in {1, TagLimit - 1}
  /\ open = TRUE /\ status = FALSE /\ data = FALSE
  /\ answers = <<>> /\ result = None /\ clobbered = FALSE

--------------------------------------------------------------------------------
(* Tags, transfers and endpoints *)

\* uaspAllocateTag skips 0 and TagLimit.
Allocated == IF nextTag \in {0, TagLimit} THEN 1 ELSE nextTag
AllocateTag == nextTag' = Allocated + 1

\* uaspBeginStatusTransfer clears the buffer and posts it, if the endpoint
\* takes it; its steps go on at next, or at otherwise.
PostStatus(next, otherwise) ==
  /\ clobbered' = (clobbered \/ status)
  /\ \/ open /\ status' = TRUE /\ pc' = next
     \/ UNCHANGED status /\ pc' = otherwise

\* Mutant: the status endpoint only.
StatusReopened(ok) == status' = FALSE /\ UNCHANGED data /\ open' = ok

\* uaspReopenAllEndpoints: closing takes back what is posted; when one does not
\* open, all are closed.
AllReopened(ok) == status' = FALSE /\ data' = FALSE /\ open' = ok

\* uaspFinishAsyncTransfer: the device's next unit fills the posted buffer.
Delivered == open /\ status /\ answers # <<>> /\ status' = FALSE /\ answers' = Tail(answers)

\* Mutant: whatever the tag.
IsOfAny(unit, t) == TRUE
IsOf(unit, t) == unit.tag = t

--------------------------------------------------------------------------------
(* uaspTransferCommandLocked *)

Begin ==
  /\ pc = "idle" /\ command < MaxCommands
  /\ command' = command + 1 /\ hasData' \in BOOLEAN
  /\ tag' = Allocated /\ AllocateTag
  /\ result' = None
  /\ PostStatus("send", "abort")
  /\ UNCHANGED <<taskTag, open, data, answers>>

\* What the device makes of a command: it does not receive it or has nothing to
\* say; it rejects the command, or refuses it with a Response unit; or it
\* announces the data stage, and sends a status after it, or does not.
Replies ==
  LET u(kind) == [tag |-> tag, kind |-> kind, of |-> command]
  IN  {<<>>, <<u("sense")>>, <<u("response")>>}
        \cup (IF hasData THEN {<<u("ready")>>, <<u("ready"), u("sense")>>} ELSE {})

Send ==
  /\ pc = "send" /\ pc' \in {"first", "abort"}
  /\ \E r \in Replies : answers' = answers \o r
  /\ UNCHANGED <<command, hasData, tags, open, status, data, result, clobbered>>

\* uaspParseCommandStatus
Parse(unit) ==
  IF unit.kind = "sense" /\ IsOf(unit, tag) THEN pc' = "idle" /\ result' = unit.of
  ELSE pc' = "abort" /\ UNCHANGED result

\* The first unit; a status before the data stage is the command's outcome.
First ==
  /\ pc = "first" /\ Delivered
  /\ LET unit == Head(answers)
     IN  IF hasData /\ unit.kind = "ready" /\ IsOf(unit, tag) THEN pc' = "second" /\ UNCHANGED result
         ELSE Parse(unit)
  /\ UNCHANGED <<command, hasData, tags, open, data, clobbered>>

Second ==
  /\ pc = "second"
  /\ PostStatus("data", "abort")
  /\ UNCHANGED <<command, hasData, tags, open, data, answers, result>>

\* The drive's buffer is filled or cleared and posted; a transfer that fails
\* may leave it with usb:hs.
Data ==
  /\ pc = "data"
  /\ clobbered' = (clobbered \/ data)
  /\ \/ data' = FALSE /\ pc' = "last"
     \/ data' \in BOOLEAN /\ pc' = "abort"
  /\ UNCHANGED <<command, hasData, tags, open, status, answers, result>>

\* The status unit; a short transfer to the device is a failure all the same.
Last ==
  /\ pc = "last" /\ Delivered
  /\ \/ Parse(Head(answers))
     \/ pc' = "abort" /\ UNCHANGED result
  /\ UNCHANGED <<command, hasData, tags, open, data, clobbered>>

TimeOut ==
  /\ pc \in {"first", "last"} /\ pc' = "abort"
  /\ UNCHANGED <<command, hasData, tags, open, status, data, answers, result, clobbered>>

--------------------------------------------------------------------------------
(* uaspRecoverTransport *)

\* The step after a task that has failed, and the one after that.
AfterTask == [abort |-> "resetUnit", unit |-> "resetDevice"]

Reopen ==
  /\ pc \in {"abort", "resetUnit"}
  /\ LET task == IF pc = "abort" THEN "abort" ELSE "unit"
     IN  \/ AllReopened(TRUE) /\ pc' = IF task = "abort" THEN "taskAbort" ELSE "taskUnit"
         \/ AllReopened(FALSE) /\ pc' = AfterTask[task]
  /\ UNCHANGED <<command, hasData, tags, answers, result, clobbered>>

\* uaspSendTaskManagement
PostTask ==
  /\ pc \in {"taskAbort", "taskUnit"}
  /\ taskTag' = Allocated /\ AllocateTag
  /\ IF pc = "taskAbort" THEN PostStatus("sendAbort", "resetUnit")
     ELSE PostStatus("sendUnit", "resetDevice")
  /\ UNCHANGED <<command, hasData, tag, open, data, answers, result>>

\* uaspCancelStatusTransfer opens the status endpoint anew.
Cancel == status' = FALSE /\ open' \in {open, FALSE}

\* The device drops some of its last units, of the task or of any, and confirms;
\* or does not confirm.
SendTask ==
  /\ pc \in {"sendAbort", "sendUnit"}
  /\ LET confirmation == [tag |-> taskTag, kind |-> "response", of |-> 0]
         Dropped(unit) == pc = "sendUnit" \/ unit.tag = tag
     IN  \/ \E n \in 0 .. Len(answers) :
              /\ \A i \in n + 1 .. Len(answers) : Dropped(answers[i])
              /\ answers' = Append(SubSeq(answers, 1, n), confirmation)
         \/ UNCHANGED answers
  /\ \/ pc' = (IF pc = "sendAbort" THEN "awaitAbort" ELSE "awaitUnit") /\ UNCHANGED <<status, open>>
     \/ pc' = (IF pc = "sendAbort" THEN "resetUnit" ELSE "resetDevice") /\ Cancel
  /\ UNCHANGED <<command, hasData, tags, data, result, clobbered>>

AwaitTask ==
  /\ pc \in {"awaitAbort", "awaitUnit"}
  /\ LET otherwise == IF pc = "awaitAbort" THEN "resetUnit" ELSE "resetDevice"
         unit == Head(answers)
     IN  \/ /\ Delivered
            /\ IF unit.kind = "response" /\ IsOf(unit, taskTag)
               THEN pc' = "idle" /\ result' = Failed
               ELSE pc' = otherwise /\ UNCHANGED result
            /\ UNCHANGED open
         \/ Cancel /\ pc' = otherwise /\ UNCHANGED <<answers, result>>
  /\ UNCHANGED <<command, hasData, tags, data, clobbered>>

\* uaspResetAndReinitializeTransport: when the device does not reset, or its
\* interface or an endpoint does not come back, the endpoints stay closed.
ResetDevice ==
  /\ pc = "resetDevice" /\ pc' = "idle" /\ result' = Failed
  /\ \/ AllReopened(FALSE) /\ UNCHANGED <<answers, nextTag>>
     \/ AllReopened(FALSE) /\ answers' = <<>> /\ UNCHANGED nextTag
     \/ AllReopened(TRUE) /\ answers' = <<>> /\ nextTag' = 1
  /\ UNCHANGED <<command, hasData, tag, taskTag, clobbered>>

Next ==
  \/ Begin \/ Send \/ First \/ Second \/ Data \/ Last \/ TimeOut
  \/ Reopen \/ PostTask \/ SendTask \/ AwaitTask \/ ResetDevice

Spec == Init /\ [][Next]_vars

--------------------------------------------------------------------------------
(* A command that does not fail has been answered by the device for this        *)
(* command, not for one given up before, however late the units of that come;   *)
(* and no buffer is written while usb:hs may still fill or read it for an       *)
(* earlier transfer (usbhsfs_uasp.c:573-696).                                   *)
AnswerIsOwn ==
  /\ ~clobbered
  /\ result \in {None, Failed, command}

--------------------------------------------------------------------------------
(* What AnswerIsOwn rests on. *)

\* The steps of the recovery, which have used one tag, and two.
Aborting == {"sendAbort", "awaitAbort", "resetUnit", "taskUnit"}
Resetting == {"sendUnit", "awaitUnit", "resetDevice", "idle"}

\* A buffer is posted by the step before and is back before it is posted again;
\* only the recovery may find the drive's buffer posted.
Posted ==
  /\ pc \in {"idle", "second", "taskAbort", "resetUnit", "taskUnit", "resetDevice"} => ~status
  /\ data => pc = "abort"

\* The tags used since the first one, or since the device was reset, which are
\* never all; the transport had used all but one, or all, before it wrapped.
Spent ==
  IF pc \in Resetting THEN 3 * command
  ELSE IF pc \in Aborting THEN 3 * command - 1
  ELSE 3 * command - 2

IsSpent(t) == t = TagLimit - 1 \/ (nextTag < TagLimit - 1 /\ t < nextTag)

Coming == {answers[i] : i \in 1 .. Len(answers)}

TagsAreSpent ==
  /\ nextTag <= Spent + 1 \/ nextTag = TagLimit \/ (nextTag = TagLimit - 1 /\ command = 0)
  /\ pc # "idle" => command > 0 /\ tag > 0 /\ IsSpent(tag)
  /\ pc \in {"sendAbort", "sendUnit"} => taskTag > 0 /\ IsSpent(taskTag)
  /\ \A unit \in Coming : IsSpent(unit.tag)
  /\ command = 0 => answers = <<>>

\* A status with the command's tag is the command's.
OwnStatus ==
  \A unit \in Coming : unit.kind = "sense" /\ unit.tag = tag => unit.of = command

IInv == TypeOK /\ Posted /\ TagsAreSpent /\ OwnStatus /\ AnswerIsOwn
================================================================================
