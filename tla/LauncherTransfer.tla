---------------------------- MODULE LauncherTransfer ----------------------------
(***************************************************************************)
(* The file manager's paste in launcher/source/main.cpp: the clipboard's   *)
(* file or folder is copied or moved to another folder by a worker, which  *)
(* the user may cancel; any file operation may fail, as when the device is *)
(* unplugged, and the power may go between two of them.  A directory that  *)
(* cannot be read on counts as read to its end.  The files of the item are *)
(* numbered; a single file may replace one at the destination.             *)
(***************************************************************************)
EXTENDS Naturals, FiniteSets

CONSTANT File   \* the files of a folder, 1 .. n; a single file is file 1

VARIABLES
  pc,         \* the step of executePaste, copyTree and copyFileAtomic
  kind,       \* the clipboard item: "file" or "folder"
  move,       \* g_fileClipboard.move
  same,       \* source and destination are on one device
  src,        \* the files that are at the source
  dst,        \* what each file's destination is: "none", the "old" or the "new" file
  bak,        \* the old file is in .nx-old
  part,       \* .nx-part: "none", "torn" or "whole"
  copying,    \* the file being copied
  aside,      \* it existed at the destination, and is in .nx-old
  unlisted,   \* history: the files that a directory's failing reading left out
  cancelled,  \* TransferState::cancelled
  saved,      \* where a game folder of the library, the item or in it, points
  result      \* what the user is told: "ok", "cancelled", "failed", "incomplete"

task == <<kind, move, same>>
disk == <<src, dst, bak, part>>
step == <<copying, aside, unlisted>>
vars == <<pc, task, disk, step, cancelled, saved, result>>

Item == IF kind = "file" THEN {1} ELSE File
Todo == {f \in Item \ unlisted : dst[f] # "new"}

Goto(p) == pc' = p
Fail == Goto("failed")

--------------------------------------------------------------------------------
(* executePaste on one device *)

\* The paste is confirmed; a move on one device is a rename.
Paste ==
  /\ pc = "idle" /\ Goto(IF move /\ same THEN "preserve" ELSE "copy")
  /\ UNCHANGED <<task, disk, step, cancelled, saved, result>>

Preserve ==
  /\ pc = "preserve"
  /\ IF dst[1] = "old"
     THEN \/ ~bak /\ bak' = TRUE /\ dst' = [dst EXCEPT ![1] = "none"] /\ Goto("rename") /\ UNCHANGED result
          \/ Goto("idle") /\ result' = "failed" /\ UNCHANGED <<dst, bak>>
     ELSE Goto("rename") /\ UNCHANGED <<dst, bak, result>>
  /\ UNCHANGED <<task, src, part, step, cancelled, saved>>

\* Saved paths follow the rename; when it fails, the item is copied.
Rename ==
  /\ pc = "rename"
  /\ \/ /\ dst' = [f \in File |-> IF f \in src THEN "new" ELSE dst[f]] /\ src' = {}
        /\ saved' = "dst" /\ result' = "ok" /\ Goto("idle") /\ bak' \in {bak, FALSE}
     \/ /\ \/ bak /\ bak' = FALSE /\ dst' = [dst EXCEPT ![1] = "old"]
           \/ UNCHANGED <<bak, dst>>
        /\ Goto("copy") /\ UNCHANGED <<src, saved, result>>
  /\ UNCHANGED <<task, part, step, cancelled>>

--------------------------------------------------------------------------------
(* The worker *)

\* Mutant: a copy that was cancelled is taken for a complete one.
CopyTreeCancelledOk ==
  /\ pc = "copy"
  /\ \/ cancelled /\ Goto("copied") /\ UNCHANGED copying
     \/ ~cancelled /\ Todo = {} /\ Goto("copied") /\ UNCHANGED copying
     \/ ~cancelled /\ \E f \in Todo : copying' = f /\ Goto("open")
     \/ Fail /\ UNCHANGED copying
  /\ UNCHANGED <<task, disk, aside, unlisted, cancelled, saved, result>>

\* measureTree and enoughFreeSpace may refuse; copyTree goes through the files.
\* When readdir fails in a directory, nobody looks: the loop ends as at the
\* directory's end, and what it has not listed is not copied.
CopyTree ==
  /\ pc = "copy"
  /\ \/ ~cancelled /\ Todo = {} /\ Goto("copied") /\ UNCHANGED <<copying, unlisted>>
     \/ ~cancelled /\ \E f \in Todo : copying' = f /\ Goto("open") /\ UNCHANGED unlisted
     \/ /\ ~cancelled /\ kind = "folder"
        /\ \E rest \in SUBSET Todo : unlisted' = unlisted \cup rest
        /\ UNCHANGED <<pc, copying>>
     \/ Fail /\ UNCHANGED <<copying, unlisted>>
  /\ UNCHANGED <<task, disk, aside, cancelled, saved, result>>

\* copyFileAtomic: the partial file is written, flushed and synced.
Write ==
  /\ pc = "open"
  /\ \/ part' = "torn" /\ Goto("write")
     \/ part' = "none" /\ Fail
  /\ UNCHANGED <<task, src, dst, bak, step, cancelled, saved, result>>

Written ==
  /\ pc = "write"
  /\ \/ ~cancelled /\ part' = "whole" /\ Goto("aside")
     \/ part' = "none" /\ Fail
  /\ UNCHANGED <<task, src, dst, bak, step, cancelled, saved, result>>

\* Mutant: the existing file is removed, not moved to .nx-old.
AsideRemoved ==
  /\ pc = "aside" /\ aside' = (dst[copying] = "old")
  /\ dst' = [dst EXCEPT ![copying] = "none"] /\ Goto("place") /\ UNCHANGED <<bak, part>>
  /\ UNCHANGED <<task, src, copying, unlisted, cancelled, saved, result>>

Aside ==
  /\ pc = "aside" /\ aside' = (dst[copying] = "old")
  /\ IF dst[copying] = "old"
     THEN \/ ~bak /\ bak' = TRUE /\ dst' = [dst EXCEPT ![copying] = "none"] /\ Goto("place") /\ UNCHANGED part
          \/ part' = "none" /\ Fail /\ UNCHANGED <<dst, bak>>
     ELSE Goto("place") /\ UNCHANGED <<dst, bak, part>>
  /\ UNCHANGED <<task, src, copying, unlisted, cancelled, saved, result>>

Place ==
  /\ pc = "place"
  /\ \/ dst' = [dst EXCEPT ![copying] = "new"] /\ part' = "none" /\ Goto("tidy")
     \/ Goto("undo") /\ UNCHANGED <<dst, part>>
  /\ UNCHANGED <<task, src, bak, step, cancelled, saved, result>>

\* The old file is moved back, if that works.
Undo ==
  /\ pc = "undo" /\ part' = "none" /\ Fail
  /\ \/ aside /\ dst' = [dst EXCEPT ![copying] = "old"] /\ bak' = FALSE
     \/ UNCHANGED <<dst, bak>>
  /\ UNCHANGED <<task, src, step, cancelled, saved, result>>

Tidy ==
  /\ pc = "tidy"
  /\ bak' \in IF aside THEN {bak, FALSE} ELSE {bak}
  /\ Goto(IF kind = "file" THEN "copied" ELSE "copy")
  /\ UNCHANGED <<task, src, dst, part, step, cancelled, saved, result>>

--------------------------------------------------------------------------------
(* executePaste after the copy *)

\* What was copied of a folder is removed, as far as that works.
RemoveDestination ==
  /\ pc = "failed" /\ Goto("idle")
  /\ result' = IF cancelled THEN "cancelled" ELSE "failed"
  /\ IF kind = "folder"
     THEN \E kept \in SUBSET {f \in File : dst[f] = "new"} :
            dst' = [f \in File |-> IF f \in kept THEN "new" ELSE "none"]
     ELSE UNCHANGED dst
  /\ UNCHANGED <<task, src, bak, part, step, cancelled, saved>>

Copied ==
  /\ pc = "copied" /\ ~move /\ Goto("idle") /\ result' = "ok"
  /\ UNCHANGED <<task, disk, step, cancelled, saved>>

\* The files of the source are removed one by one; saved paths follow at the end.
RemoveSource ==
  /\ pc = "copied" /\ move
  /\ \E left \in SUBSET src :
       /\ src' = left
       /\ IF left = {} THEN saved' = "dst" /\ result' = "ok" /\ Goto("idle")
          ELSE UNCHANGED saved /\ \/ UNCHANGED result /\ Goto("copied") /\ left # src
                                  \/ result' = "incomplete" /\ Goto("idle")
  /\ UNCHANGED <<task, dst, bak, part, step, cancelled>>

\* The user cancels, or an exit request does, while the worker runs.
Cancel ==
  /\ pc \in {"copy", "open", "write", "aside", "place", "undo", "tidy"}
  /\ ~cancelled /\ cancelled' = TRUE
  /\ UNCHANGED <<pc, task, disk, step, saved, result>>

PowerCut ==
  /\ pc # "off" /\ Goto("off")
  /\ UNCHANGED <<task, disk, step, cancelled, saved, result>>

--------------------------------------------------------------------------------
Init ==
  /\ pc = "idle" /\ kind \in {"file", "folder"} /\ move \in BOOLEAN /\ same \in BOOLEAN
  /\ src = Item
  /\ dst \in [File -> {"none", "old"}]
  /\ \A f \in File : dst[f] = "old" => kind = "file" /\ f = 1
  /\ bak = FALSE /\ part = "none" /\ copying = 1 /\ aside = FALSE
  /\ unlisted = {}
  /\ cancelled = FALSE /\ saved = "src" /\ result = "none"

Worker == CopyTree \/ Write \/ Written \/ Aside \/ Place \/ Undo \/ Tidy

Next ==
  \/ (result = "none" /\ Paste) \/ Preserve \/ Rename \/ Worker
  \/ RemoveDestination \/ Copied \/ RemoveSource \/ Cancel \/ PowerCut

Spec == Init /\ [][Next]_vars

--------------------------------------------------------------------------------
(* Properties *)

Replaces == dst[1] = "old" \/ bak

(* Every file of the item is at the source or, whole, at the destination,     *)
(* whatever fails, is cancelled or cut off on the way; but for one that a     *)
(* directory's failing reading left out of the copy: a move removes it with   *)
(* the source (main.cpp:3549, 3622-3623).                                     *)
NothingLost == \A f \in Item \ unlisted : f \in src \/ dst[f] = "new"

(* A file that is to be replaced is there, or in .nx-old, until the new one   *)
(* is in its place.                                                           *)
ReplacedIsKept == Replaces => Replaces' \/ dst'[1] = "new"

--------------------------------------------------------------------------------
(* What they rest on. *)

TypeOK ==
  /\ kind \in {"file", "folder"} /\ move \in BOOLEAN /\ same \in BOOLEAN
  /\ src \subseteq File /\ dst \in [File -> {"none", "old", "new"}]
  /\ bak \in BOOLEAN /\ part \in {"none", "torn", "whole"}
  /\ copying \in File /\ aside \in BOOLEAN /\ cancelled \in BOOLEAN
  /\ unlisted \subseteq File

\* Until everything listed is copied the source is whole; afterwards the
\* destination is.
SourceWhole ==
  /\ pc \notin {"idle", "copied", "off"} \/ (pc = "idle" /\ result = "none") => Item \subseteq src
  /\ pc = "copied" => \A f \in Item \ unlisted : dst[f] = "new"

\* Only a single file replaces another.
OldIsFirst ==
  /\ \A f \in File : dst[f] = "old" => kind = "file" /\ f = 1
  /\ bak => kind = "file"

\* The file that is copied.
CopyUnderWay ==
  /\ pc \in {"open", "write", "aside", "place", "undo", "tidy"} => copying \in Item
  /\ pc = "place" \/ pc = "undo" \/ pc = "tidy" => (aside => kind = "file" /\ copying = 1)
  /\ pc = "tidy" => dst[copying] = "new"

IInv == TypeOK /\ NothingLost /\ SourceWhole /\ OldIsFirst /\ CopyUnderWay
================================================================================
