------------------------------- MODULE SmbFile --------------------------------
(***************************************************************************)
(* A file on an SMB share (src/source/switch/SwitchStorage.cpp): its       *)
(* position, the position of the server's handle, and the buffer read      *)
(* ahead of it.  Every call holds the mount's ioMutex, so that calls are   *)
(* one after another; a read is a sequence of requests.  A byte of the     *)
(* file is a number: its place, or the place and a mark once overwritten.  *)
(***************************************************************************)
EXTENDS Naturals, Sequences

CONSTANTS
    FileSize,   \* bytes of the file at first
    MaxSize,    \* and at most
    AheadMin,   \* kSmbReadAheadMin
    AheadMax,   \* kSmbReadAheadMax
    ReadMax,    \* smb2_get_max_read_size
    MaxLength   \* bytes a caller asks for, at most

VARIABLES
    content,    \* the file on the server
    handle,     \* the server's position, or NoHandle
    current,    \* the handle belongs to the current connection
    file,       \* SmbFile: position, readAhead (its valid part), offset, sequential
    left,       \* bytes the read in progress still wants
    overtaken   \* history: a direct read went past a buffer that was kept

vars == <<content, handle, current, file, left, overtaken>>

NoHandle == MaxSize + 1
Mark == MaxSize

Least(a, b) == IF a < b THEN a ELSE b
Greatest(a, b) == IF a < b THEN b ELSE a
Bytes(from, n) == SubSeq(content, from + 1, Least(Len(content), from + n))

Init ==
    /\ content = [i \in 1..FileSize |-> i]
    /\ handle = 0 /\ current = TRUE
    /\ file = [position |-> 0, readAhead |-> <<>>, offset |-> 0, sequential |-> 0]
    /\ left = 0 /\ overtaken = FALSE

NoBuffer == [file EXCEPT !.readAhead = <<>>, !.offset = 0]

\* A call with a live handle of this connection, no other call under way.
MayCall == left = 0 /\ handle # NoHandle /\ current

-----------------------------------------------------------------------------
(* smbRead: what is buffered first, then requests to the server.           *)

\* The buffer is dropped once it is used up.
Advance(f, n) ==
    IF f.offset + n = Len(f.readAhead)
    THEN [f EXCEPT !.position = @ + n, !.readAhead = <<>>, !.offset = 0]
    ELSE [f EXCEPT !.position = @ + n, !.offset = @ + n]

smbRead ==
    /\ MayCall
    /\ \E length \in 1..MaxLength :
         LET cached == Least(length, Len(file.readAhead) - file.offset)
         IN /\ file' = IF file.offset < Len(file.readAhead) THEN Advance(file, cached) ELSE file
            /\ left' = length - cached
    /\ UNCHANGED <<content, handle, current, overtaken>>

AheadTarget == Least(AheadMax, AheadMin * <<1, 2, 4, 8>>[Least(file.sequential, 3) + 1])

\* A request for more than is missing: the rest stays in the buffer.
ReadAhead ==
    /\ left > 0 /\ left < AheadTarget
    /\ LET read == Bytes(handle, Least(AheadTarget, ReadMax))
       IN /\ handle' = handle + Len(read)
          /\ file' = IF read = <<>> THEN file
                     ELSE Advance([file EXCEPT !.readAhead = read, !.offset = 0,
                                               !.sequential = Least(@ + 1, 3)],
                                  Least(left, Len(read)))
    /\ left' = 0
    /\ UNCHANGED <<content, current, overtaken>>

\* A request into the caller's memory: a long one, or no buffer was to be had
\* (EnsureReadAheadBuffer).  A buffer whose end was sought to is kept.
ReadDirect ==
    /\ left > 0
    /\ LET amount == Least(left, ReadMax)
           read == Bytes(handle, amount)
       IN /\ handle' = handle + Len(read)
          /\ file' = IF read = <<>> THEN file
                     ELSE [file EXCEPT !.position = @ + Len(read), !.sequential = 0]
          /\ left' = IF Len(read) < amount THEN 0 ELSE left - amount
          /\ overtaken' = (overtaken \/ (file.readAhead # <<>> /\ read # <<>>))
    /\ UNCHANGED <<content, current>>

\* The connection breaks during a request: the call returns what it has.
ReadFails ==
    /\ left > 0
    /\ left' = 0 /\ current' = FALSE
    /\ UNCHANGED <<content, handle, file, overtaken>>

-----------------------------------------------------------------------------
(* The other calls on the file.                                            *)

Start == file.position - file.offset
InBuffer(target) ==
    file.readAhead # <<>> /\ target >= Start /\ target <= Start + Len(file.readAhead)

SeekTo(target) ==
    IF InBuffer(target)
    THEN /\ file' = [file EXCEPT !.position = target, !.offset = target - Start]
         /\ UNCHANGED handle
    ELSE /\ file' = [NoBuffer EXCEPT !.position = target, !.sequential = 0]
         /\ handle' = target

\* SEEK_SET and SEEK_CUR may stay in the buffer; SEEK_END asks the server.
smbSeek ==
    /\ MayCall
    /\ \/ \E target \in 0..MaxSize : SeekTo(target)
       \/ \E back \in 0..Len(content) :
            /\ file' = [NoBuffer EXCEPT !.position = Len(content) - back, !.sequential = 0]
            /\ handle' = Len(content) - back
    /\ overtaken' = (overtaken /\ file'.readAhead # <<>>)
    /\ UNCHANGED <<content, current, left>>

(* The bug of writing where the reads went ahead to.                       *)
StaysAhead == handle

\* SynchronizeFilePosition: the server's handle is put back.
Synchronized == IF file.readAhead = <<>> THEN handle ELSE file.position

\* The bytes written carry the mark; a gap before them is filled with zeros.
Overwritten(from, n) ==
    [i \in 1..Greatest(Len(content), from + n) |->
        CASE i > from /\ i <= from + n -> Mark + i
          [] i <= Len(content) /\ ~(i > from /\ i <= from + n) -> content[i]
          [] OTHER -> 0]

\* Some of the bytes are written before the connection breaks, or all.  A file
\* opened for appending is written at its end.
smbWrite ==
    /\ MayCall
    /\ \E append \in BOOLEAN, n \in 0..MaxLength, whole \in BOOLEAN :
         LET at == IF append THEN Len(content) ELSE Synchronized
             position == IF append THEN Len(content) ELSE file.position
         IN /\ at + n <= MaxSize
            /\ content' = IF n = 0 THEN content ELSE Overwritten(at, n)
            /\ handle' = at + n /\ current' = whole
            /\ file' = [NoBuffer EXCEPT !.position = position + n]
    /\ overtaken' = FALSE
    /\ UNCHANGED left

\* The file is cut, or extended by zero bytes.
smbTruncate ==
    /\ MayCall
    /\ \E length \in 0..MaxSize :
         content' = [i \in 1..length |-> IF i <= Len(content) THEN content[i] ELSE 0]
    /\ handle' = Synchronized /\ file' = NoBuffer /\ overtaken' = FALSE
    /\ UNCHANGED <<current, left>>

-----------------------------------------------------------------------------
(* ensureFileCurrent, reopenFileUnlocked: a call on a file whose connection *)
(* was lost connects and opens it again, at its position.                   *)

Reopen ==
    /\ left = 0 /\ handle # NoHandle /\ ~current
    /\ \/ /\ handle' = file.position /\ current' = TRUE
          /\ file' = NoBuffer /\ overtaken' = FALSE
       \/ \* the share is not there: every later call finds no handle
          handle' = NoHandle /\ UNCHANGED <<current, file, overtaken>>
    /\ UNCHANGED <<content, left>>

\* smbClose and smbOpen: O_TRUNC empties the file, O_APPEND starts at its end.
smbOpen ==
    /\ left = 0
    /\ \E truncated, append \in BOOLEAN :
         /\ content' = IF truncated THEN <<>> ELSE content
         /\ handle' = IF append THEN Len(content') ELSE 0
    /\ file' = [position |-> handle', readAhead |-> <<>>, offset |-> 0, sequential |-> 0]
    /\ current' = TRUE /\ overtaken' = FALSE
    /\ UNCHANGED left

\* The connection is lost between two calls, to be noticed by the next one, or
\* somebody else reconnected the share.
ConnectionLost ==
    /\ left = 0 /\ current /\ current' = FALSE
    /\ UNCHANGED <<content, handle, file, left, overtaken>>

Next ==
    \/ smbRead \/ ReadAhead \/ ReadDirect \/ ReadFails
    \/ smbSeek \/ smbWrite \/ smbTruncate
    \/ Reopen \/ smbOpen \/ ConnectionLost

Spec == Init /\ [][Next]_vars

-----------------------------------------------------------------------------
\* While the connection stands, the server's handle is where the next request
\* belongs, and what is buffered are the bytes around the file's position; but
\* for a buffer whose end was sought to and that a direct read went past.
FileReadsItsBytes ==
    (handle # NoHandle /\ current /\ ~overtaken) =>
        IF file.readAhead = <<>> THEN handle = file.position
        ELSE /\ handle = Start + Len(file.readAhead)
             /\ file.readAhead = Bytes(Start, Len(file.readAhead))

-----------------------------------------------------------------------------
(* What holds in every state: the handle is at the buffer's end, also when the *)
(* buffer was passed by; and a read that goes on has used the buffer up.       *)
OpenFile == [position : 0..MaxSize, readAhead : Seq(Nat), offset : Nat, sequential : 0..3]

TypeOK ==
    /\ content \in Seq(Nat) /\ Len(content) \in 0..MaxSize
    /\ handle \in 0..NoHandle /\ current \in BOOLEAN /\ overtaken \in BOOLEAN
    /\ file \in OpenFile /\ left \in 0..MaxLength

InTheBuffer == file.offset <= Len(file.readAhead) /\ file.offset <= file.position

HandleAtItsEnd ==
    handle # NoHandle /\ current => handle = Start + Len(file.readAhead)

UsedUp == left > 0 => current /\ handle # NoHandle /\ file.offset = Len(file.readAhead)

BufferIsOfTheFile ==
    ~overtaken /\ file.readAhead # <<>> => file.readAhead = Bytes(Start, Len(file.readAhead))

IInv == TypeOK /\ InTheBuffer /\ HandleAtItsEnd /\ UsedUp /\ BufferIsOfTheFile
===============================================================================
