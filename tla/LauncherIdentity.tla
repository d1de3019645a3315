---------------------------- MODULE LauncherIdentity ----------------------------
(***************************************************************************)
(* The identities of the library's games in launcher/source/main.cpp: the  *)
(* key that a game's cover, settings, title and shortcut are stored under  *)
(* is that of a record, found again by the file's path or, for a file that *)
(* was moved, by its fingerprint.  All the paths are those of one device   *)
(* (identityScope); the user moves, copies and replaces files, also while  *)
(* a scan runs.                                                            *)
(***************************************************************************)
EXTENDS Naturals, Sequences, FiniteSets

CONSTANTS
  Path,        \* the paths of game files on the device
  MaxRecords,  \* bound: identity records
  MaxEdits     \* bound: changes of the files

\* A game (the code in its header) and the fingerprint of the whole file.
Content == [base : {"a", "b"}, print : {1, 2}]
NoFile == [base |-> "none", print |-> 0]

VARIABLES
  files,     \* the content of every path
  edits,     \* changes of the files so far
  records,   \* g_libraryIdentities; a record's id is its place
  reserved,  \* g_reservedLibraryIds: records whose file may still be listed
  claimed,   \* g_claimedLibraryIds: records listed by this scan
  todo,      \* what the scan worker has read and not published
  found,     \* the paths it has read
  scan,      \* "none", or the scan "replace"s or "update"s the list
  games,     \* g_games: path, content and key
  held       \* history: the key each unchanged file was listed under last

identities == <<records, reserved, claimed>>
worker == <<todo, found>>
vars == <<files, edits, identities, worker, scan, games, held>>

NoKey == 0
Ids == DOMAIN records

--------------------------------------------------------------------------------
(* The user's files *)

Write(p, content) ==
  /\ edits < MaxEdits /\ edits' = edits + 1
  /\ files' = [files EXCEPT ![p] = content]
  /\ held' = [held EXCEPT ![p] = NoKey]
  /\ UNCHANGED <<identities, worker, scan, games>>

\* A copy or, with the old path emptied, a move.
Copy(p, q) == files[p] # NoFile /\ Write(q, files[p])

Move(p, q) ==
  /\ files[p] # NoFile /\ p # q /\ edits < MaxEdits /\ edits' = edits + 1
  /\ files' = [files EXCEPT ![q] = files[p], ![p] = NoFile]
  /\ held' = [held EXCEPT ![p] = NoKey, ![q] = NoKey]
  /\ UNCHANGED <<identities, worker, scan, games>>

--------------------------------------------------------------------------------
(* startGameScan and the worker *)

\* Every record in use is reserved; the worker's reads come in any order.
StartScan(kind) ==
  /\ scan = "none" /\ scan' = kind
  /\ reserved' = {i \in Ids : ~records[i].retired}
  /\ claimed' = {}
  /\ found' = {p \in Path : files[p] # NoFile}
  /\ todo' = {[path |-> p, content |-> files[p]] : p \in found'}
  /\ games' = IF kind = "replace" THEN {} ELSE games
  /\ UNCHANGED <<files, edits, records, held>>

--------------------------------------------------------------------------------
(* assignStableIdentity *)

\* Mutant: what is at the path is not compared with the record.
CompatibleAlways(i, content) == TRUE

Compatible(i, content) == records[i].base = content.base

\* identityPathExists: any regular file will do.
PathExists(i) == ~records[i].retired /\ files[records[i].path] # NoFile

\* The record of the path; those of other games that were there are retired.
AtPath(p) == {i \in Ids \ claimed : ~records[i].retired /\ records[i].path = p}
First(S) == CHOOSE i \in S : \A j \in S : i <= j
ByPath(p, content) == {i \in AtPath(p) : Compatible(i, content)}
Replaced(p, content) ==
  {i \in AtPath(p) : ByPath(p, content) = {} \/ i < First(ByPath(p, content))}

\* The record of a file that was moved: one whose own path is empty.
Movable(p, content) ==
  {i \in Ids \ claimed : /\ records[i].print = content.print /\ Compatible(i, content)
                         /\ i \in reserved \ Replaced(p, content) => ~PathExists(i)}

\* Its key; reserved loses what was retired and the missing records passed over.
Match(p, content) ==
  IF ByPath(p, content) # {} THEN First(ByPath(p, content))
  ELSE IF Movable(p, content) # {} THEN First(Movable(p, content))
  ELSE Len(records) + 1

Record(p, content) == [base |-> content.base, print |-> content.print, path |-> p, retired |-> FALSE]

\* A game is published under the key of its record.
Assign(g) ==
  /\ g \in todo /\ todo' = todo \ {g}
  /\ LET p == g.path
         key == Match(p, g.content)
         retired == [i \in Ids |-> [records[i] EXCEPT !.retired = @ \/ i \in Replaced(p, g.content)]]
     IN /\ key <= MaxRecords
        /\ records' = IF key \in Ids THEN [retired EXCEPT ![key] = Record(p, g.content)]
                      ELSE Append(retired, Record(p, g.content))
        /\ reserved' = reserved \ (Replaced(p, g.content) \cup {key})
        /\ claimed' = claimed \cup {key}
        /\ games' = {h \in games : h.key # key} \cup {[path |-> p, content |-> g.content, key |-> key]}
        /\ held' = IF files[p] = g.content THEN [held EXCEPT ![p] = key] ELSE held
  /\ UNCHANGED <<files, edits, found, scan>>

\* pumpGameScan: games whose path was not found again are removed.
Finish ==
  /\ scan # "none" /\ todo = {} /\ scan' = "none"
  /\ games' = {h \in games : h.path \in found}
  /\ UNCHANGED <<files, edits, identities, worker, held>>

\* A new scan cancels this one.
Cancel ==
  /\ scan # "none" /\ scan' = "none" /\ todo' = {}
  /\ UNCHANGED <<files, edits, identities, found, games, held>>

--------------------------------------------------------------------------------
Init ==
  /\ files \in [Path -> Content \cup {NoFile}]
  /\ edits = 0 /\ records = <<>> /\ reserved = {} /\ claimed = {}
  /\ todo = {} /\ found = {} /\ scan = "none" /\ games = {} /\ held = [p \in Path |-> NoKey]

Next ==
  \/ \E p \in Path, content \in Content \cup {NoFile} : Write(p, content)
  \/ \E p, q \in Path : Copy(p, q) \/ Move(p, q)
  \/ \E kind \in {"replace", "update"} : StartScan(kind)
  \/ \E g \in todo : Assign(g)
  \/ Finish \/ Cancel

Spec == Init /\ [][Next]_vars

--------------------------------------------------------------------------------
(* Properties *)

(* A key never passes from one game to another, also when a different game is *)
(* put at a path the first one had: it would get that game's settings.        *)
KeyNamesOneGame == \A i \in Ids : records'[i].base = records[i].base

--------------------------------------------------------------------------------
(* What KeyNamesOneGame rests on: what is recorded and read is of games.      *)

Read == [path : Path, content : Content]
Recorded == [base : {"a", "b"}, print : {1, 2}, path : Path, retired : BOOLEAN]

IInv ==
  /\ files \in [Path -> Content \cup {NoFile}]
  /\ todo \subseteq Read /\ records \in Seq(Recorded)

================================================================================
