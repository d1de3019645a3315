------------------------------- MODULE PrefsStore -------------------------------
(***************************************************************************)
(* The preferences of a session (src/source/prefs.c) and the two files     *)
(* they live in: the launch configuration, which the launcher writes from  *)
(* its own settings and the game's profile before it starts the host, and  *)
(* the game's profile, into which the host mirrors one changed value at a  *)
(* time.  The host replaces a file by writing a .tmp, removing the file    *)
(* and renaming the .tmp; the power may go before any of these steps, and  *)
(* each may fail.                                                          *)
(*                                                                         *)
(* A file's content is a function from keys to values.  The keys are those *)
(* the code treats specially, "speed" and "stylus" which the in-game menu  *)
(* changes, and "other" for those it does not.                             *)
(***************************************************************************)
EXTENDS Naturals, FiniteSets, Functions

CONSTANTS
  Limit,     \* PREFS_MAX_ENTRIES
  Launches,  \* launch configurations a session may start with: functions
  Profiles,  \* profiles of the game there may be: functions, or NoFile
  Global,    \* the launcher's settings, migrated
  Speeds     \* values the menu gives to "speed"

NoFile == [missing |-> "yes"]

\* The values of hotkeys that are told apart: defaults, and what they replaced.
DefaultMenu == "L+R+Plus"
DefaultSave == "L+R+Minus+Y"
OldMenu == "L+R+Minus"
OldQuit == "L+R+Plus"
OldSave == "L+R+Y"

Without(f, ks) == Restrict(f, DOMAIN f \ ks)
With(f, k, v) == [x \in DOMAIN f \cup {k} |-> IF x = k THEN v ELSE f[x]]
Over(f, g) == [x \in DOMAIN f \cup DOMAIN g |-> IF x \in DOMAIN f THEN f[x] ELSE g[x]]
Get(f, k, default) == IF k \in DOMAIN f THEN f[k] ELSE default

VARIABLES
  up,          \* the host runs
  profiled,    \* Wrapper/GameConfigPath names the profile
  entries,     \* the preferences in memory
  launch,      \* the launch configuration on the card
  profile,     \* the game's profile on the card
  temporary,   \* the profile's .tmp
  pc, key,     \* prefs_save_runtime_key: its next step, and its key
  meant,       \* history: what the profile should hold
  spoiled      \* history: a profile lost lines in a way the code does not see

vars == <<up, profiled, entries, launch, profile, temporary, pc, key, meant, spoiled>>
onCard == <<launch, profile, temporary>>

--------------------------------------------------------------------------------
(* prefs_init *)

\* put_entry: a new key is dropped when the table is full.
Put(f, k, v) ==
  IF k \in DOMAIN f \/ Cardinality(DOMAIN f) < Limit THEN With(f, k, v) ELSE f

Seed(f, k, v) == IF k \in DOMAIN f THEN f ELSE Put(f, k, v)

Seeded(f) ==
  LET a == Seed(f, "menu", DefaultMenu)
      b == Seed(a, "quit", "None")
      c == Seed(b, "save", DefaultSave)
      d == Seed(c, "stylus", "stick")
  IN  Seed(d, "speed", 2)

\* migrate_stylus_mode; without a mode of either kind the default is seeded.
StylusMigrated(f) ==
  IF "stylus" \in DOMAIN f \/ "legacy" \notin DOMAIN f THEN f
  ELSE Put(f, "stylus", IF f["legacy"] THEN "stick" ELSE "off")

\* migrate_hotkey_defaults; five keys migrate as "save" does.
HotkeysMoved(f) ==
  LET both == Get(f, "hotkeys", 0) < 2 /\ Get(f, "menu", "") = OldMenu /\ Get(f, "quit", "") = OldQuit
      a == IF both THEN Put(Put(f, "menu", DefaultMenu), "quit", "None") ELSE f
  IN  IF Get(a, "save", "") = OldSave THEN Put(a, "save", DefaultSave) ELSE a

HotkeysMigrated(f) ==
  IF Get(f, "hotkeys", 0) >= 3 THEN f ELSE Put(HotkeysMoved(f), "hotkeys", 3)

\* Mutant: the version is not looked at.
SpeedMigratedAlways(f) ==
  Put(IF Get(f, "speed", 2) = 0 THEN Put(f, "speed", 5) ELSE f, "settings", 3)

\* migrate_fast_forward_speed
SpeedMigrated(f) ==
  IF Get(f, "settings", 0) >= 3 THEN f
  ELSE Put(IF Get(f, "speed", 2) = 0 THEN Put(f, "speed", 5) ELSE f, "settings", 3)

\* The file's lines, defaults for what it lacks, and the migrations.
Loaded(file) ==
  LET read == IF file = NoFile THEN <<>> ELSE Without(file, {"boost"})
  IN  SpeedMigrated(HotkeysMigrated(Seeded(StylusMigrated(read))))

--------------------------------------------------------------------------------
(* Starting the host *)

Idle == up /\ pc = "idle"

\* Directly, with the launch configuration that is there.
StartHost ==
  /\ ~up /\ up' = TRUE
  /\ entries' = Loaded(launch)
  /\ profiled' = (launch # NoFile /\ profiled)
  /\ pc' = "idle"
  /\ UNCHANGED <<onCard, key, meant, spoiled>>

\* recoverAtomicFile: a .tmp is never taken for the file.
\* By the launcher, which recovers the profile and overrides its settings.
Launch ==
  /\ ~up /\ up' = TRUE
  /\ temporary' = NoFile
  /\ LET overrides == IF profile = NoFile THEN <<>> ELSE profile
         old == "legacy" \in DOMAIN overrides /\ "stylus" \notin DOMAIN overrides
         migrated == IF old THEN With(overrides, "stylus", IF overrides["legacy"] THEN "stick" ELSE "off")
                     ELSE overrides
     IN  launch' = Over(Without(migrated, {"legacy", "boost"}), Global)
  /\ entries' = Loaded(launch')
  /\ profiled' = TRUE
  /\ pc' = "idle"
  /\ UNCHANGED <<profile, key, meant, spoiled>>

--------------------------------------------------------------------------------
(* prefs_save_runtime_key *)

\* The in-game menu: prefs_set_... and prefs_save_runtime_key.
Change ==
  /\ Idle
  /\ \/ key' = "speed" /\ \E v \in Speeds : entries' = Put(entries, "speed", v)
     \/ key' = "stylus" /\ \E v \in {"off", "motion"} : entries' = Put(entries, "stylus", v)
  /\ pc' = "save"
  /\ UNCHANGED <<up, profiled, onCard, meant, spoiled>>

\* The session's end saves the launch configuration only.
End ==
  /\ Idle
  /\ key' = "" /\ pc' = "save"
  /\ UNCHANGED <<up, profiled, entries, onCard, meant, spoiled>>

SaveReturns == pc' = IF key = "" THEN "gone" ELSE "mirror"

\* prefs_save; it says nothing of a failure.
Save ==
  /\ up /\ pc = "save"
  /\ \/ SaveReturns /\ UNCHANGED launch
     \/ launch' = NoFile /\ pc' = "renameLaunch"
  /\ UNCHANGED <<up, profiled, entries, profile, temporary, key, meant, spoiled>>

RenameLaunch ==
  /\ up /\ pc = "renameLaunch"
  /\ launch' \in {entries, NoFile}
  /\ SaveReturns
  /\ UNCHANGED <<up, profiled, entries, profile, temporary, key, meant, spoiled>>

\* Mutant: the profile is written anew from the key alone.
MirroredAlone(read) == [k \in {key} |-> entries[key]]

\* The profile's lines with the key's value replaced, or added.
Mirrored(read) == With(read, key, entries[key])

\* Without a profile or an entry for the key there is nothing to mirror, and
\* nothing is done when the .tmp cannot be opened; a .tmp that cannot be
\* written is removed.  It is written from what can be read of the profile.  A profile that
\* cannot be opened counts as an empty one, and a line whose writing fails is
\* not noticed unless the last flush or fclose fails too.
Mirror ==
  /\ up /\ pc = "mirror"
  /\ \/ temporary' = temporary /\ pc' = "idle" /\ UNCHANGED spoiled
     \/ profiled /\ temporary' = NoFile /\ pc' = "idle" /\ UNCHANGED spoiled
     \/ /\ profiled /\ key \in DOMAIN entries
        /\ \E read \in {IF profile = NoFile THEN <<>> ELSE profile, <<>>} :
             /\ temporary' \in {Mirrored(read), Without(Mirrored(read), {"other"})}
             /\ spoiled' = (spoiled \/ (profile # NoFile /\ temporary' # Mirrored(profile)))
        /\ pc' = "remove"
  /\ UNCHANGED <<up, profiled, entries, launch, profile, key, meant>>

\* A profile that cannot be removed is not replaced by the rename either.
RemoveProfile ==
  /\ up /\ pc = "remove"
  /\ \/ profile' = NoFile /\ pc' = "rename"
     \/ profile' = profile /\ pc' = "idle"
  /\ UNCHANGED <<up, profiled, entries, launch, temporary, key, meant, spoiled>>

\* A failure leaves the .tmp alone, which the launcher throws away.
RenameProfile ==
  /\ up /\ pc = "rename" /\ pc' = "idle"
  /\ \/ /\ profile' = temporary /\ temporary' = NoFile
        /\ meant' = With(meant, key, entries[key])
        /\ UNCHANGED spoiled
     \/ spoiled' = TRUE /\ UNCHANGED <<profile, temporary, meant>>
  /\ UNCHANGED <<up, profiled, entries, launch, key>>

\* The host is gone, in order or with the power.  Between the removal of the
\* profile and the rename the profile goes with it.
Stop ==
  /\ up /\ up' = FALSE
  /\ entries' = <<>> /\ key' = "" /\ pc' = "gone"
  /\ spoiled' = (spoiled \/ pc = "rename")
  /\ UNCHANGED <<profiled, onCard, meant>>

Init ==
  /\ up = FALSE /\ profiled \in BOOLEAN
  /\ entries = <<>>
  /\ launch \in Launches
  /\ profile \in Profiles
  /\ temporary = NoFile
  /\ pc = "gone" /\ key = ""
  /\ meant = IF profile = NoFile THEN <<>> ELSE profile
  /\ spoiled = FALSE

Next ==
  \/ StartHost \/ Launch \/ Change \/ End \/ Save \/ RenameLaunch \/ Mirror \/ RemoveProfile
  \/ RenameProfile \/ Stop

Spec == Init /\ [][Next]_vars

--------------------------------------------------------------------------------
(* The game's profile keeps every setting that was in it and the values that    *)
(* were mirrored into it, wherever a save of the host stops, except where the   *)
(* code does not see that lines are lost: the profile cannot be read or a line  *)
(* written, or the power goes, or the rename fails, after the profile is        *)
(* removed (prefs.c:280-325).                                                   *)
ProfileKeepsOthers ==
  ~spoiled =>
    IF pc = "rename" THEN temporary = With(meant, key, entries[key])
    ELSE (IF profile = NoFile THEN <<>> ELSE profile) = meant

(* A session that is started again with what it saved starts with what it held: *)
(* neither defaults nor migrations change a choice of the user, even one that   *)
(* equals an old default, unless the table had no room for the versions         *)
(* (prefs.c:168-257).                                                           *)
RestartKeepsChoices ==
  up /\ {"hotkeys", "settings"} \subseteq DOMAIN entries => Loaded(entries) = entries

(* What the user has chosen outlives the session: both of the above.            *)
ChoicesSurvive == ProfileKeepsOthers /\ RestartKeepsChoices

--------------------------------------------------------------------------------
(* What holds in every state, and why choices survive.  A session's preferences *)
(* are settled: every default is there unless there is no room for it, and of   *)
(* the two versions each is the last, so that loading them changes nothing.     *)
IsFile(f) == IsFiniteSet(DOMAIN f) /\ f = [k \in DOMAIN f |-> f[k]]
Full(f) == Cardinality(DOMAIN f) >= Limit
Defaults == {"menu", "quit", "save", "stylus", "speed"}

Settled(f) ==
  /\ IsFile(f) /\ "boost" \notin DOMAIN f
  /\ \A k \in Defaults : k \in DOMAIN f \/ Full(f)
  /\ "hotkeys" \in DOMAIN f => f["hotkeys"] >= 3
  /\ "settings" \in DOMAIN f => f["settings"] >= 3

SessionsSettled == up => Settled(entries)

FilesAreFiles == IsFile(launch) /\ IsFile(profile) /\ IsFile(temporary)

(* A profile is mirrored into with a key, by a host that is up; and before it   *)
(* is removed the .tmp holds what it should.                                    *)
MirrorsKey ==
  /\ key \in {"", "speed", "stylus"}
  /\ pc \in {"mirror", "remove", "rename"} => key # ""
  /\ ~up => pc = "gone"

WrittenFirst == pc = "remove" /\ ~spoiled => temporary = With(meant, key, entries[key])

IInv ==
  SessionsSettled /\ FilesAreFiles /\ MirrorsKey /\ WrittenFirst /\ ProfileKeepsOthers
================================================================================
