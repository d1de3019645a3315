-------------------------- MODULE LauncherForwarder --------------------------
(***************************************************************************)
(* The HOME shortcut of a game (src/launcher/source/forwarder.cpp): a      *)
(* title with its own contents, metadata and record in the console's       *)
(* databases, and a configuration file from which the title reads what to  *)
(* start.  Installing it again replaces the old one; every step may fail   *)
(* and is then undone, and the power may be cut between any two.  Releases *)
(* before the present keys left shortcuts of the same game under another   *)
(* title, which a new installation removes.                                *)
(*                                                                         *)
(* The services of the console (ncm, ns) are external: their operations    *)
(* succeed or fail, and a metadata commit is atomic.                       *)
(***************************************************************************)
EXTENDS Naturals

CONSTANT Builds     \* installations: each has a control and a meta content of its own

Title == {"new", "legacy"}
Path == {"here", "moved"}       \* where the launcher's NRO is
None == "none"
\* A title's program content is the same in every build of it.
Contents(t, b) == {<<t, 0>>, <<t, b>>}
Content == Title \X (0..Builds)

VARIABLES
    cfg, old, tmp,  \* the configuration: the launcher path it names, and its
                    \* ".old" and ".tmp" files; "torn" when not completely written
    meta,           \* the build whose metadata is registered, 0 for none
    contents,       \* the contents registered
    record,         \* the titles that HOME shows
    path,           \* the launcher's NRO
    pc,             \* the step install_forwarder has reached
    build, created, hadPrevious, metaBackup,    \* its locals
    unrestored      \* history: a failed removal did not put the metadata back

databases == <<meta, contents, record, unrestored>>
locals == <<build, created, hadPrevious, metaBackup>>
vars == <<cfg, old, tmp, meta, contents, record, path, pc, build, created,
          hadPrevious, metaBackup, unrestored>>

Init ==
    /\ pc = "idle" /\ build = 0 /\ created = {} /\ hadPrevious = FALSE /\ metaBackup = 0
    /\ unrestored = FALSE
    /\ path = "here" /\ old = [t \in Title |-> None] /\ tmp = [t \in Title |-> None]
    /\ \E before \in SUBSET {"legacy"} :
          /\ record = before
          /\ cfg = [t \in Title |-> IF t \in before THEN "here" ELSE None]
          /\ meta = [t \in Title |-> IF t \in before THEN 1 ELSE 0]
          /\ contents = UNION {Contents(t, 1) : t \in before}

-----------------------------------------------------------------------------
(* ForwarderConfigTransaction.                                             *)

Orphans(cs) == {c \in cs : \A t \in Title : meta'[t] = 0 \/ c \notin Contents(t, meta'[t])}
Set(f, v) == [f EXCEPT !["new"] = v]
Fails == pc' = "idle" /\ created' = {}

\* rollback: the temporary file goes; an installed file makes way for the old one.
RollbackConfig(installed) ==
    /\ tmp' = Set(tmp, None)
    /\ IF ~installed THEN UNCHANGED <<cfg, old>>
       ELSE \/ hadPrevious /\ cfg' = Set(cfg, old["new"]) /\ old' = Set(old, None)
            \/ cfg' = Set(cfg, None) /\ UNCHANGED old

\* What an interrupted installation left is repaired, then the new file written.
StageBegin ==
    /\ pc = "stage"
    /\ LET c == cfg["new"]  o == old["new"]
           current == IF c = None THEN o ELSE c
       IN /\ cfg' = Set(cfg, current) /\ old' = Set(old, None)
          /\ hadPrevious' = (current # None)
    /\ tmp' = Set(tmp, "torn") /\ pc' = "write"
    /\ UNCHANGED <<databases, path, build, created, metaBackup>>

StageEnds ==
    /\ pc = "write"
    /\ \/ tmp' = Set(tmp, path) /\ pc' = "content" /\ UNCHANGED created
       \/ tmp' = Set(tmp, None) /\ Fails
    /\ UNCHANGED <<cfg, old, databases, path, build, hadPrevious, metaBackup>>

StageFails ==
    /\ pc = "stage" /\ Fails /\ tmp' = Set(tmp, None)
    /\ UNCHANGED <<cfg, old, databases, path, build, hadPrevious, metaBackup>>

PreserveConfig ==
    /\ pc = "preserve"
    /\ IF hadPrevious
       THEN cfg' = Set(cfg, None) /\ old' = Set(old, cfg["new"])
       ELSE UNCHANGED cfg /\ old' = Set(old, None)
    /\ pc' = "activate"
    /\ UNCHANGED <<tmp, databases, path, locals>>

ActivateConfig ==
    /\ pc = "activate"
    /\ cfg' = Set(cfg, tmp["new"]) /\ tmp' = Set(tmp, None) /\ pc' = "record"
    /\ UNCHANGED <<old, databases, path, locals>>

-----------------------------------------------------------------------------
(* The contents and the metadata.                                          *)

\* The bug of a content that is there already counted as created.
CreatedAlways(c) == created \cup {c}

Created(c) == IF c \in contents THEN created ELSE created \cup {c}

registerContent ==
    /\ pc = "content"
    /\ \E c \in Contents("new", build) :
          /\ contents' = contents \cup {c}
          /\ created' = Created(c)
          /\ pc' \in IF Contents("new", build) \subseteq contents' THEN {"content", "meta"}
                     ELSE {"content"}
    /\ UNCHANGED <<cfg, old, tmp, meta, record, unrestored, path, build, hadPrevious,
                   metaBackup>>

ContentFails ==
    /\ pc = "content" /\ Fails
    /\ contents' = contents \ created /\ RollbackConfig(FALSE)
    /\ UNCHANGED <<meta, record, unrestored, path, build, hadPrevious, metaBackup>>

\* Contents are removed after a failure only when the metadata surely is the old one.
installContentMeta ==
    /\ pc = "meta"
    /\ metaBackup' = meta["new"]
    /\ \/ meta' = Set(meta, build) /\ pc' = "preserve"
          /\ UNCHANGED <<cfg, old, tmp, contents, created>>
       \/ /\ UNCHANGED meta /\ contents' = contents \ created
          /\ Fails /\ RollbackConfig(FALSE)
       \/ /\ meta' \in {meta, Set(meta, build)} /\ UNCHANGED contents
          /\ Fails /\ RollbackConfig(FALSE)
    /\ UNCHANGED <<record, unrestored, path, build, hadPrevious>>

\* A rollback that fails may have changed the metadata all the same.
rollbackContentMeta(restored) ==
    IF restored THEN meta' = Set(meta, metaBackup) /\ contents' = contents \ created
    ELSE meta' \in {meta, Set(meta, metaBackup)} /\ UNCHANGED contents

\* A failing rename to the backup, or to the configuration's own name, which
\* the backup then takes back.
CommitFails ==
    /\ pc \in {"preserve", "activate"}
    /\ (\E restored \in BOOLEAN : rollbackContentMeta(restored)) /\ Fails
    /\ tmp' = Set(tmp, None)
    /\ IF pc = "activate" /\ hadPrevious
       THEN \/ cfg' = Set(cfg, old["new"]) /\ old' = Set(old, None)
            \/ UNCHANGED <<cfg, old>>
       ELSE UNCHANGED <<cfg, old>>
    /\ UNCHANGED <<record, unrestored, path, build, hadPrevious, metaBackup>>

-----------------------------------------------------------------------------
(* HOME's record, and what is cleared when everything is in place.         *)

\* Nobody looks whether the old record could be deleted.
DeleteRecord ==
    /\ pc = "record"
    /\ record' \in {record, record \ {"new"}} /\ pc' = "push"
    /\ UNCHANGED <<cfg, old, tmp, meta, contents, unrestored, path, locals>>

PushRecord ==
    /\ pc = "push"
    /\ record' = record \cup {"new"} /\ pc' = "finish"
    /\ UNCHANGED <<cfg, old, tmp, meta, contents, unrestored, path, locals>>

\* The record is deleted again, and the old one put back when the metadata is.
PushFails ==
    /\ pc = "push"
    /\ RollbackConfig(TRUE) /\ Fails
    /\ \E restored \in BOOLEAN :
          /\ rollbackContentMeta(restored)
          /\ \/ record' \in {record, record \ {"new"}}
             \/ restored /\ metaBackup # 0 /\ record' = record \cup {"new"}
    /\ UNCHANGED <<unrestored, path, build, hadPrevious, metaBackup>>

Finish ==
    /\ pc = "finish"
    /\ tmp' = Set(tmp, None) /\ old' = Set(old, None) /\ pc' = "orphans"
    /\ UNCHANGED <<cfg, databases, path, locals>>

RemoveOrphans ==
    /\ pc = "orphans" /\ UNCHANGED meta
    /\ LET replaced == IF metaBackup = 0 THEN {}
                       ELSE Contents("new", metaBackup) \ Contents("new", build)
       IN contents' \in {contents, contents \ Orphans(replaced)}
    /\ pc' = "legacy"
    /\ UNCHANGED <<cfg, old, tmp, record, unrestored, path, locals>>

-----------------------------------------------------------------------------
(* The shortcuts of earlier releases: only one that names this launcher.   *)

findLegacyForwarders == cfg["legacy"] = path /\ meta["legacy"] # 0

LegacyRecord ==
    /\ pc = "legacy"
    /\ \/ /\ findLegacyForwarders
          /\ record' = record \ {"legacy"} /\ pc' = "legacyMeta" /\ UNCHANGED created
       \/ Fails /\ UNCHANGED record
    /\ UNCHANGED <<cfg, old, tmp, meta, contents, unrestored, path, build, hadPrevious,
                   metaBackup>>

\* When the removal fails, the metadata is put back, and the record whether or
\* not that has worked.
removeLegacyForwarder ==
    /\ pc = "legacyMeta" /\ Fails
    /\ \/ /\ meta' = [meta EXCEPT !["legacy"] = 0]
          /\ cfg' = [cfg EXCEPT !["legacy"] = None]
          /\ contents' \in {contents, contents \ Orphans(Contents("legacy", meta["legacy"]))}
          /\ UNCHANGED <<record, unrestored>>
       \/ /\ record' \in {record, record \cup {"legacy"}} /\ UNCHANGED <<cfg, contents>>
          /\ \/ UNCHANGED <<meta, unrestored>>
             \/ meta' = [meta EXCEPT !["legacy"] = 0] /\ unrestored' = TRUE
    /\ UNCHANGED <<old, tmp, path, build, hadPrevious, metaBackup>>

-----------------------------------------------------------------------------
forwarder_create ==
    /\ pc = "idle" /\ build < Builds
    /\ pc' = "stage" /\ build' = build + 1 /\ created' = {}
    /\ UNCHANGED <<cfg, old, tmp, databases, path, hadPrevious, metaBackup>>

PowerCut ==
    /\ pc # "idle" /\ Fails
    /\ UNCHANGED <<cfg, old, tmp, databases, path, build, hadPrevious, metaBackup>>

\* The user moves the launcher; its shortcuts name the old place.
MoveLauncher ==
    /\ pc = "idle" /\ path' \in Path \ {path}
    /\ UNCHANGED <<cfg, old, tmp, databases, pc, locals>>

Installation ==
    \/ StageBegin \/ StageEnds \/ registerContent \/ installContentMeta
    \/ PreserveConfig \/ ActivateConfig \/ DeleteRecord \/ PushRecord \/ Finish
    \/ RemoveOrphans \/ LegacyRecord \/ removeLegacyForwarder
Failure == StageFails \/ ContentFails \/ CommitFails \/ PushFails \/ PowerCut

Next == forwarder_create \/ Installation \/ Failure \/ MoveLauncher

Spec == Init /\ [][Next]_vars

-----------------------------------------------------------------------------
TypeOK ==
    /\ cfg \in [Title -> Path \cup {None}] /\ old \in [Title -> Path \cup {None}]
    /\ tmp \in [Title -> Path \cup {None, "torn"}]
    /\ meta \in [Title -> 0..Builds] /\ contents \subseteq Content
    /\ record \subseteq Title /\ path \in Path
    /\ build \in 0..Builds /\ created \subseteq Content
    /\ hadPrevious \in BOOLEAN /\ metaBackup \in 0..Builds /\ unrestored \in BOOLEAN

\* A title that HOME shows has its metadata, and the contents that registered
\* metadata refers to are registered, whatever failed and wherever it ended: what
\* a failed installation takes back is only what it brought.  An old shortcut
\* whose removal failed is the exception: when its metadata could not be put back
\* either, it may be shown without (forwarder.cpp:1229-1231).
ShortcutIsWhole ==
    /\ \A t \in record : meta[t] # 0 \/ (t = "legacy" /\ unrestored)
    /\ \A t \in Title : meta[t] # 0 => Contents(t, meta[t]) \subseteq contents

-----------------------------------------------------------------------------
(* What ShortcutIsWhole rests on.                                          *)

\* What an installation created is its own build's, and was not there before: a
\* build of the title that was registered has its contents besides.
CreatedIsOwn ==
    /\ created \subseteq Contents("new", build)
    /\ pc # "idle" => build # 0
    /\ pc = "stage" \/ pc = "write" => created = {}

KeptWithout(b) == b # 0 => \A c \in Contents("new", b) : c \in contents /\ c \notin created

\* Before the metadata is committed, and after.
Registering ==
    /\ pc = "content" \/ pc = "meta" => KeptWithout(meta["new"])
    /\ pc = "meta" => Contents("new", build) \subseteq contents

Replacing ==
    pc = "preserve" \/ pc = "activate" \/ pc = "record" \/ pc = "push" =>
        /\ KeptWithout(metaBackup) /\ meta["new"] = build
        /\ "new" \in record => metaBackup # 0

\* The configuration that is activated was completely written.
Staged ==
    pc = "content" \/ pc = "meta" \/ pc = "preserve" \/ pc = "activate" => tmp["new"] # "torn"

LegacyGoing == pc = "legacyMeta" => "legacy" \notin record /\ meta["legacy"] # 0

IInv ==
    /\ TypeOK /\ ShortcutIsWhole /\ CreatedIsOwn /\ Registering /\ Replacing
    /\ Staged /\ LegacyGoing
================================================================================
