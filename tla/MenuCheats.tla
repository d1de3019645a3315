------------------------------- MODULE MenuCheats -------------------------------
(***************************************************************************)
(* The in-game menu's page of cheats (src/source/ingame_menu.c:288-529,    *)
(* 1319-1368).  The core keeps the cheats of the game's database and the   *)
(* user's own; the page keeps a list of copies, and the preferences keep   *)
(* the numbers of the database cheats that are on, as a bitmap in          *)
(* hexadecimal digits.  The saved numbers are given to the core once in a  *)
(* session, with the first frame or when the page is first read.           *)
(*                                                                         *)
(* What the core itself stores of its cheats between two sessions is not   *)
(* the repository's code: a session starts with any of it.                 *)
(***************************************************************************)
EXTENDS Integers, Sequences, SequencesExt

CONSTANTS
  Counts,       \* the database may hold so many cheats
  FolderOf,     \* the folder of each of them, -1 for none
  Single,       \* the folders of which one cheat may be on
  FolderLimit,  \* MENU_FOLDER_LIMIT
  Limit,        \* MENU_CHEAT_LIMIT
  DigitBits,    \* cheats in a digit of the bitmap (4 in the code)
  Names,        \* names of the user's cheats
  MaxCustom     \* bound: cheats of the user's own

Low(a, b) == IF a < b THEN a ELSE b
Absent == <<-1>>

VARIABLES
  db,       \* the core's: which cheats of the database are on, numbered from 0
  custom,   \* the core's: the user's cheats, a sequence of [name, on]
  running,  \* what the core applies since its last update
  saved,    \* Wrapper/EnabledDatabaseCheats: a sequence of digits, or Absent
  applied,  \* persisted_cheats_applied
  open,     \* the page is shown
  list      \* cheats: a sequence of [custom, index, name, on]

vars == <<db, custom, running, saved, applied, open, list>>

Count == Len(db)
Running == <<db, custom>>
On(i) == db[i + 1]

--------------------------------------------------------------------------------
(* The bitmap of numbers *)

Pow2(k) == <<1, 2, 4, 8>>[k + 1]

\* One digit for each DigitBits numbers, up to the highest.
Encode(numbers) ==
  LET highest == IF numbers = {} THEN -1 ELSE CHOOSE i \in numbers : \A j \in numbers : j <= i
      digits == IF highest < 0 THEN 0 ELSE highest \div DigitBits + 1
      Bit(d, k) == IF k < DigitBits /\ d * DigitBits + k \in numbers THEN Pow2(k) ELSE 0
  IN  [d \in 1 .. digits |-> Bit(d - 1, 0) + Bit(d - 1, 1) + Bit(d - 1, 2) + Bit(d - 1, 3)]

\* enabled_list_contains
ListContains(digits, i) ==
  LET d == i \div DigitBits
  IN  d < Len(digits) /\ (digits[d + 1] \div Pow2(i % DigitBits)) % 2 = 1

--------------------------------------------------------------------------------
(* The list *)

\* drastic_menu_apply_persisted_cheats
AppliedTo(flags) ==
  IF applied \/ saved = Absent THEN flags
  ELSE [i \in 1 .. Len(flags) |-> IF i <= Limit THEN ListContains(saved, i - 1) ELSE flags[i]]

\* The core's cheats, the database first, at most Limit of both together.
Listed(flags, own) ==
  LET count == Low(Len(flags), Limit)
      total == Low(count + Low(Len(own), Limit), Limit)
  IN  [k \in 1 .. total |->
         IF k <= count THEN [custom |-> FALSE, index |-> k - 1, name |-> "none", on |-> flags[k]]
         ELSE [custom |-> TRUE, index |-> k - count - 1, name |-> own[k - count].name,
               on |-> own[k - count].on]]

\* refresh_cheats; the list stays empty when there is no memory for it.
Refresh(own) ==
  /\ db' = AppliedTo(db)
  /\ applied' = TRUE
  /\ list' \in {Listed(db', own), <<>>}

--------------------------------------------------------------------------------
(* The session *)

Init ==
  /\ \E n \in Counts : db \in [1 .. n -> BOOLEAN]
  /\ custom = <<>>
  /\ running = <<db, custom>>
  /\ saved = Absent \/ \E s \in SUBSET (0 .. Limit - 1) : saved = Encode(s)
  /\ applied = FALSE /\ open = FALSE /\ list = <<>>

\* The game ends and is started again, with the database the card holds then.
NextSession ==
  /\ \E n \in Counts : db' \in [1 .. n -> BOOLEAN]
  /\ running' = <<db', custom>>
  /\ applied' = FALSE /\ open' = FALSE /\ list' = <<>>
  /\ UNCHANGED <<custom, saved>>

FirstFrame ==
  /\ ~applied /\ ~open
  /\ db' = AppliedTo(db)
  /\ applied' = TRUE
  /\ running' = IF saved = Absent THEN running ELSE <<db', custom>>
  /\ UNCHANGED <<custom, saved, open, list>>

OpenPage ==
  /\ ~open /\ open' = TRUE
  /\ Refresh(custom)
  /\ running' = IF applied \/ saved = Absent THEN running ELSE <<db', custom>>
  /\ UNCHANGED <<custom, saved>>

LeavePage ==
  /\ open /\ open' = FALSE
  /\ UNCHANGED <<db, custom, running, saved, applied, list>>

--------------------------------------------------------------------------------
(* The page *)

\* add_custom_cheat: the keyboard may be cancelled and the code invalid, which
\* changes nothing; the core takes the cheat, on, or rejects it.
AddCustom ==
  /\ open
  /\ \E name \in Names :
       custom' \in {custom} \cup
         (IF Len(custom) < MaxCustom THEN {Append(custom, [name |-> name, on |-> TRUE])} ELSE {})
  /\ Refresh(custom')
  /\ running' = <<db', custom'>>
  /\ UNCHANGED <<saved, open>>

\* The cheats of the database that a toggle of entry k turns off.
Others(k) ==
  {j \in DOMAIN list :
     /\ j # k /\ ~list[j].custom /\ list[j].on
     /\ FolderOf[list[j].index] = FolderOf[list[k].index]}

Exclusive(k) ==
  LET folder == FolderOf[list[k].index]
  IN  ~list[k].custom /\ ~list[k].on /\ folder \in 0 .. FolderLimit - 1 /\ folder \in Single

\* Mutant: the others are turned off in the core, not in the page's copies.
OnlyItToggled(k, off) == [list EXCEPT ![k].on = ~@]

\* The page's copies, with entry k toggled and the entries of off turned off.
Toggled(k, off) ==
  [j \in DOMAIN list |->
     IF j = k THEN [list[j] EXCEPT !.on = ~@]
     ELSE [list[j] EXCEPT !.on = @ /\ j \notin off]]

\* persist_database_cheats collects the numbers from the page's copies.
Persisted(entries) ==
  Encode({entries[j].index : j \in {j \in DOMAIN entries : ~entries[j].custom /\ entries[j].on}})

\* A: the entry and, in a folder of which one may be on, the others.
Toggle(k) ==
  LET off == IF Exclusive(k) THEN Others(k) ELSE {}
      entry == [list[k] EXCEPT !.on = ~@]
  IN  /\ open
      /\ list' = Toggled(k, off)
      /\ IF entry.custom
         THEN custom' = [custom EXCEPT ![entry.index + 1].on = entry.on] /\ UNCHANGED <<db, saved>>
         ELSE /\ db' = [i \in DOMAIN db |->
                          IF i = entry.index + 1 THEN entry.on
                          ELSE db[i] /\ \A j \in off : list[j].index + 1 # i]
              /\ saved' = Persisted(list')
              /\ UNCHANGED custom
      /\ running' = <<db', custom'>>
      /\ UNCHANGED <<applied, open>>

\* X: later cheats of the user move up.
RemoveCustom(k) ==
  /\ open /\ list[k].custom
  /\ custom' = RemoveAt(custom, list[k].index + 1)
  /\ Refresh(custom')
  /\ running' = <<db', custom'>>
  /\ UNCHANGED <<saved, open>>

Next ==
  \/ NextSession \/ FirstFrame \/ OpenPage \/ LeavePage \/ AddCustom
  \/ \E k \in DOMAIN list : Toggle(k) \/ RemoveCustom(k)

Spec == Init /\ [][Next]_vars

--------------------------------------------------------------------------------
Cheat == [name : Names, on : BOOLEAN]

TypeOK ==
  /\ db \in Seq(BOOLEAN) /\ custom \in Seq(Cheat)
  /\ applied \in BOOLEAN /\ open \in BOOLEAN

(* While the page is shown, each of its entries names a cheat of the core and   *)
(* says whether it is on; the core runs with what it has been told; and the     *)
(* saved numbers are those of the database cheats that are on, so that the next *)
(* session starts as this one ends.  The page works on copies and by number,    *)
(* and the numbers of the user's cheats move when one is deleted                *)
(* (ingame_menu.c:343-441, 1331-1367).                                          *)
SavedCheatsMatch ==
  /\ open => running = Running
  /\ open => \A k \in DOMAIN list :
       LET e == list[k]
       IN  IF e.custom
           THEN e.index + 1 \in DOMAIN custom /\ custom[e.index + 1] = [name |-> e.name, on |-> e.on]
           ELSE On(e.index) = e.on
  /\ applied /\ saved # Absent =>
       \A i \in 0 .. Low(Count, Limit) - 1 : On(i) <=> ListContains(saved, i)

(* What holds in every state, and why the page can be trusted: the core runs    *)
(* with what it has been told at any time, and a list, where there is one, is   *)
(* what reading it again would give.                                            *)
ListIsFresh ==
  /\ list \in {Listed(db, custom), <<>>}
  /\ ~applied => list = <<>>

IInv == TypeOK /\ running = Running /\ ListIsFresh /\ SavedCheatsMatch
================================================================================
