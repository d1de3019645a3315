------------------------------ MODULE ArchiveCache ------------------------------
(***************************************************************************)
(* The cache of games unpacked from ZIP archives                           *)
(* (src/source/archive_loader.c).  The core plays a file on the card, so a *)
(* game in an archive is unpacked once, next to a small file that says     *)
(* which archive, entry and checksum the copy was made from.  The copy's   *)
(* name is made from the archive's name alone, so archives of the same     *)
(* name in different directories, or whose names differ in unsafe          *)
(* characters, share it; this module is about one such name.               *)
(*                                                                         *)
(* The console may lose power at every step, every file operation may      *)
(* fail, and the user may replace an archive while no game is started.     *)
(* The games have the same size, as DS games often do.                     *)
(***************************************************************************)
EXTENDS Naturals

CONSTANTS
  Archive,   \* archives whose copies have the same name
  Versions   \* bound: an archive is replaced by one of the versions 1 .. Versions

\* What an archive holds: the game of its version, or nothing to be played.
Unusable == 0
Missing == [archive |-> "none", version |-> 0]
Game == [archive : Archive, version : 1 .. Versions]

VARIABLES
  archives,   \* [Archive -> the version there, or Unusable]
  wanted,     \* the archive whose game is started
  rom,        \* the copy
  meta,       \* its .nxzip file
  pc,         \* the step of drastic_zip_prepare
  split       \* history: the copy was replaced and its .nxzip was not

vars == <<archives, wanted, rom, meta, pc, split>>

TypeOK ==
  /\ archives \in [Archive -> Unusable .. Versions]
  /\ wanted \in Archive
  /\ rom \in Game \cup {Missing} /\ meta \in Game \cup {Missing}
  /\ split \in BOOLEAN

Expected == [archive |-> wanted, version |-> archives[wanted]]

Init ==
  /\ archives \in [Archive -> 1 .. Versions]
  /\ wanted \in Archive
  /\ rom = Missing /\ meta = Missing
  /\ pc = "off" /\ split = FALSE

--------------------------------------------------------------------------------
(* The user *)

Replace ==
  /\ pc = "off"
  /\ \E a \in Archive, v \in Unusable .. Versions : archives' = [archives EXCEPT ![a] = v]
  /\ UNCHANGED <<wanted, rom, meta, pc, split>>

Start ==
  /\ pc = "off" /\ pc' = "look"
  /\ wanted' \in Archive
  /\ UNCHANGED <<archives, rom, meta, split>>

--------------------------------------------------------------------------------
(* drastic_zip_prepare *)

Fails == pc' = "failed" /\ UNCHANGED <<rom, meta, split>>

\* Mutant: what the copy was made from is compared without the archive's path.
MatchesVersion == meta # Missing /\ meta.version = Expected.version /\ rom # Missing

\* cache_matches: of the copy itself only the size is looked at.
Matches == meta = Expected /\ rom # Missing

\* The archive's directory is read: exactly one game, of a sound size and not
\* encrypted.  The copy is used when it matches.
Look ==
  /\ pc = "look"
  /\ \/ Fails
     \/ /\ archives[wanted] # Unusable
        /\ pc' = IF Matches THEN "ready" ELSE "unpack"
        /\ UNCHANGED <<rom, meta, split>>
  /\ UNCHANGED <<archives, wanted>>

\* The game is written to the .tmp; its size and checksum must be right.
Unpack ==
  /\ pc = "unpack"
  /\ \/ Fails
     \/ pc' = "replace" /\ UNCHANGED <<rom, meta, split>>
  /\ UNCHANGED <<archives, wanted>>

\* replace_cache_file: a rename does not replace a file on this system, so the
\* older copy is removed first.
RemoveCopy ==
  /\ pc = "replace" /\ rom # Missing
  /\ \/ Fails
     \/ rom' = Missing /\ UNCHANGED <<meta, pc, split>>
  /\ UNCHANGED <<archives, wanted>>

RenameCopy ==
  /\ pc = "replace" /\ rom = Missing
  /\ \/ Fails
     \/ rom' = Expected /\ pc' = "describe" /\ split' = (meta # Missing) /\ UNCHANGED meta
  /\ UNCHANGED <<archives, wanted>>

\* write_cache_info; without it the copy is removed again, if that succeeds.
DescribeFails ==
  /\ pc \in {"describe", "redescribe"} /\ pc' = "failed"
  /\ rom' \in {rom, Missing}
  /\ split' = (rom' # Missing /\ meta # Missing)
  /\ UNCHANGED <<archives, wanted, meta>>

RemoveInfo ==
  /\ pc = "describe" /\ pc' = "redescribe"
  /\ meta' = Missing
  /\ split' = FALSE
  /\ UNCHANGED <<archives, wanted, rom>>

RenameInfo ==
  /\ pc \in {"describe", "redescribe"} /\ meta = Missing
  /\ meta' = Expected /\ pc' = "ready" /\ split' = FALSE
  /\ UNCHANGED <<archives, wanted, rom>>

\* The game has been played, could not be started, or the power is gone.
Stop ==
  /\ pc # "off" /\ pc' = "off"
  /\ UNCHANGED <<archives, wanted, rom, meta, split>>

Next ==
  \/ Replace \/ Start \/ Look \/ Unpack \/ RemoveCopy \/ RenameCopy \/ DescribeFails
  \/ RemoveInfo \/ RenameInfo \/ Stop

Spec == Init /\ [][Next]_vars

--------------------------------------------------------------------------------
(* The game that is started is the one in the archive the user has chosen, as   *)
(* the archive is now: not that of an archive of the same name, and not an      *)
(* older version; except where the code lets a copy stand next to a description *)
(* of another, when the power goes or a removal fails between the replacement   *)
(* of the two (archive_loader.c:312-335).                                       *)
PlaysChosenArchive == pc = "ready" /\ ~split => rom = Expected
--------------------------------------------------------------------------------
(* What holds in every state, and why the game that is started is the chosen    *)
(* one: only a game that is there is unpacked, it is the copy before it is      *)
(* described, and a copy next to a description is the described one unless the  *)
(* two were split.                                                              *)
Steps == {"off", "look", "unpack", "replace", "describe", "redescribe", "ready", "failed"}

ThereToUnpack ==
  pc \in {"unpack", "replace", "describe", "redescribe"} => archives[wanted] # Unusable

CopiedFirst == pc \in {"describe", "redescribe"} => rom = Expected

DescribedAsCopied == rom # Missing /\ meta # Missing /\ ~split => rom = meta

IInv ==
  /\ TypeOK /\ pc \in Steps
  /\ ThereToUnpack /\ CopiedFirst /\ DescribedAsCopied /\ PlaysChosenArchive
================================================================================
