--------------------------- MODULE LauncherCovers ---------------------------
(***************************************************************************)
(* The covers of the library's games (src/launcher/source/main.cpp): the   *)
(* grid asks for the covers of the page that is shown and of the next one, *)
(* a worker decodes them, each frame installs a few of its results, and    *)
(* the least recently used cover makes room for a new one.  Meanwhile the  *)
(* file of a cover is downloaded, imported or removed, and the library is  *)
(* scanned again.                                                          *)
(*                                                                         *)
(* coverRequest numbers the requests; all the code asks of the number is   *)
(* whether a job still is the one its game waits for, kept here with the   *)
(* job as "wanted".  Likewise "fresh" stands for the job's epoch.          *)
(***************************************************************************)
EXTENDS Integers, Sequences, FiniteSets, SequencesExt

CONSTANTS
    Games,        \* the games of the library, 1 .. Games in their order
    Cols, Rows,   \* the grid's page
    JobLimit,     \* COVER_JOB_LIMIT
    ReadyLimit,   \* COVER_READY_LIMIT
    UploadBudget, \* COVER_UPLOAD_BUDGET
    PumpLimit,    \* results looked at in a frame (pumpCoverDecodeResults: 12)
    RequestBudget, \* COVER_REQUEST_BUDGET
    CacheLimit    \* COVER_CACHE_LIMIT

Game == 1..Games
PerPage == Cols * Rows
\* What a decoded cover, or a failure to find one, is of: the cover's file
\* as it is now, or as it was before it was replaced.
Read == {"none", "stale", "current"}
Idle == [game |-> 0, wanted |-> FALSE, fresh |-> FALSE, read |-> "none"]

VARIABLES
    mode,       \* the loop that runs: "grid", "menu", "download" or "import"
    phase,      \* its frame: "pump", "events" or "draw"
    frame,      \* the results processed and uploaded in this frame
    page,       \* the covers that this frame's drawing has yet to ask for
    budget,     \* g_cover_budget: the requests that it has left
    sel,        \* the game selected
    answer,     \* triedCover: what was read for the game
    texture,    \* the games with a texture
    queued,     \* coverQueued
    recent,     \* the games with a texture, the least recently used first
    jobs,       \* g_coverDecodeJobs: the game, and whether it waits for this job
    busy,       \* the worker's job
    ready,      \* g_coverDecodeReady
    downloaded, \* the covers downloadAllCovers has written so far
    unnoticed   \* history: covers imported though the import was cancelled

drawing == <<page, budget>>
screen == <<mode, phase, frame, drawing, sel>>
shown == <<answer, texture, queued, recent>>
queue == <<jobs, busy, ready>>
history == <<downloaded, unnoticed>>
vars == <<mode, phase, frame, page, budget, sel, answer, texture, queued,
          recent, jobs, busy, ready, downloaded, unnoticed>>

NoFrame == [processed |-> 0, uploads |-> 0]

Init ==
    /\ mode = "grid" /\ phase = "pump" /\ frame = NoFrame /\ sel = 1
    /\ page = <<>> /\ budget = RequestBudget
    /\ answer = [g \in Game |-> "none"] /\ texture = {} /\ queued = {}
    /\ recent = <<>> /\ jobs = <<>> /\ busy = Idle /\ ready = <<>>
    /\ downloaded = {} /\ unnoticed = {}

-----------------------------------------------------------------------------
(* The selection.  gridNav moves it within the page and to the next or the *)
(* previous one, gridPage by a page; both stay in the library.             *)
PageOf(i) == (i - 1) \div PerPage
Position(i) == (i - 1) % PerPage
Cell(p, row, col) == p * PerPage + row * Cols + col + 1
Clamped(i) == IF i > Games THEN Games ELSE i

gridNav(i, dx, dy) ==
    LET p == PageOf(i)  row == Position(i) \div Cols  col == Position(i) % Cols
    IN CASE dx = 1 /\ col < Cols - 1 /\ i < Games -> i + 1
         [] dx = 1 /\ (col = Cols - 1 \/ i = Games) /\ Cell(p + 1, 0, 0) <= Games ->
              Clamped(Cell(p + 1, row, 0))
         [] dx = -1 /\ col > 0 -> i - 1
         [] dx = -1 /\ col = 0 /\ p > 0 -> Cell(p - 1, row, Cols - 1)
         [] dy = 1 /\ row < Rows - 1 /\ i + Cols <= Games -> i + Cols
         [] dy = -1 /\ row > 0 -> i - Cols
         [] OTHER -> i

gridPage(i, dir) ==
    LET p == PageOf(i) + dir
    IN IF p < 0 \/ p > PageOf(Games) THEN i
       ELSE Clamped(p * PerPage + Position(i) + 1)

Navigate ==
    /\ mode = "grid" /\ phase = "events"
    /\ \/ \E d \in {<<1, 0>>, <<-1, 0>>, <<0, 1>>, <<0, -1>>} :
            sel' = gridNav(sel, d[1], d[2])
       \/ \E dir \in {-1, 1} : sel' = gridPage(sel, dir)
    /\ UNCHANGED <<mode, phase, frame, drawing, shown, queue, history>>

-----------------------------------------------------------------------------
(* Requests.                                                               *)

Wanted(s, g) == {i \in DOMAIN s : s[i].game = g /\ s[i].wanted}
ToFront(s, i) ==
    [k \in DOMAIN s |-> IF k = 1 THEN s[i] ELSE IF k <= i THEN s[k - 1] ELSE s[k]]

(* The bug of a full queue that drops its last job and forgets the game.   *)
ForgottenNone == {}

(* A full queue drops its last job; the game it was for may ask again.     *)
Dropping == Len(jobs) >= JobLimit
Kept == IF Dropping THEN Front(jobs) ELSE jobs
Forgotten == IF Dropping /\ Last(jobs).wanted THEN {Last(jobs).game} ELSE {}

queueCoverDecode(g, priority) ==
    IF answer[g] # "none" THEN UNCHANGED <<jobs, queued, budget>>
    ELSE IF g \in queued
    THEN /\ \/ \E i \in Wanted(jobs, g) : priority /\ jobs' = ToFront(jobs, i)
            \/ ~(priority /\ Wanted(jobs, g) # {}) /\ UNCHANGED jobs
         /\ UNCHANGED <<queued, budget>>
    ELSE IF budget = 0 THEN UNCHANGED <<jobs, queued, budget>>
    ELSE LET job == <<[game |-> g, wanted |-> TRUE]>>
         IN /\ jobs' = IF priority THEN job \o Kept ELSE Kept \o job
            /\ queued' = (queued \ Forgotten) \cup {g}
            /\ budget' = budget - 1

(* ensureCover, for the next cover to ask for.                             *)
ensureCover ==
    /\ phase = "draw" /\ page # <<>> /\ page' = Tail(page)
    /\ LET g == Head(page).game
       IN \/ /\ g \in texture
             /\ recent' = Append(SelectSeq(recent, LAMBDA h : h # g), g)
             /\ UNCHANGED <<jobs, queued, budget>>
          \/ /\ g \notin texture
             /\ queueCoverDecode(g, Head(page).priority)
             /\ UNCHANGED recent
    /\ UNCHANGED <<mode, phase, frame, sel, answer, texture, busy, ready, history>>

Asked(g, priority) == [game |-> g, priority |-> priority]
PageCovers(p, priority) ==
    LET left == IF p * PerPage < Games THEN Games - p * PerPage ELSE 0
        n == IF PerPage < left THEN PerPage ELSE left
    IN [k \in 1..n |-> Asked(p * PerPage + k, priority)]

(* renderGrid asks for the covers of the page that is shown, for the       *)
(* selected game's first and last, so that it comes before all, and for    *)
(* those of the next page after everything else.                           *)
DrawGrid ==
    /\ mode = "grid" /\ budget' = RequestBudget
    /\ page' = <<Asked(sel, TRUE)>> \o PageCovers(PageOf(sel), TRUE)
               \o <<Asked(sel, TRUE)>> \o PageCovers(PageOf(sel) + 1, FALSE)

(* perGameMenu shows the cover of its game alone.                          *)
DrawMenu ==
    /\ mode = "menu" /\ budget' = 1
    /\ page' = <<Asked(sel, TRUE)>>

(* The progress of a download or an import is drawn without covers.        *)
DrawProgress == mode \in {"download", "import"} /\ UNCHANGED drawing

Draw ==
    /\ phase = "events" /\ phase' = "draw"
    /\ DrawGrid \/ DrawMenu \/ DrawProgress
    /\ UNCHANGED <<mode, frame, sel, shown, queue, history>>

Present ==
    /\ phase = "draw" /\ page = <<>>
    /\ phase' = "pump" /\ frame' = NoFrame
    /\ UNCHANGED <<mode, drawing, sel, shown, queue, history>>

-----------------------------------------------------------------------------
(* The worker.                                                             *)

TakeJob ==
    /\ busy = Idle /\ jobs # <<>> /\ Len(ready) < ReadyLimit
    /\ busy' = [game |-> Head(jobs).game, wanted |-> Head(jobs).wanted,
                fresh |-> TRUE, read |-> "none"]
    /\ jobs' = Tail(jobs)
    /\ UNCHANGED <<screen, shown, ready, history>>

decodeCover ==
    /\ busy # Idle /\ busy.read = "none"
    /\ busy' = [busy EXCEPT !.read = "current"]
    /\ UNCHANGED <<screen, shown, jobs, ready, history>>

(* A result that found no image has none; an old epoch's is dropped.       *)
Publish ==
    /\ busy # Idle /\ busy.read # "none"
    /\ ready' \in IF busy.fresh
                  THEN {Append(ready, [game |-> busy.game, wanted |-> busy.wanted,
                                       read |-> busy.read, image |-> image])
                        : image \in BOOLEAN}
                  ELSE {ready}
    /\ busy' = Idle
    /\ UNCHANGED <<screen, shown, jobs, history>>

Worker == TakeJob \/ decodeCover \/ Publish

-----------------------------------------------------------------------------
(* The results.                                                            *)

MayTake == ready # <<>> /\ frame.processed < PumpLimit
           /\ (Head(ready).image => frame.uploads < UploadBudget)

(* installCover, with evictLeastRecentlyUsedCover when the cache is full.  *)
(* An upload may fail, and leaves the game without a cover.                *)
Install(g, read) ==
    LET full == Cardinality(texture) >= CacheLimit
        victim == IF full THEN {Head(recent)} ELSE {}
    IN /\ texture' = (texture \ victim) \cup {g}
       /\ recent' = Append(SelectSeq(recent, LAMBDA h : h \notin victim), g)
       /\ answer' = [h \in Game |-> CASE h = g -> read
                                      [] h \in victim -> "none"
                                      [] OTHER -> answer[h]]

(* The bug of a result taken for the game's whichever request it answers.  *)
InstallResultAny ==
    LET result == Head(ready)
    IN /\ queued' = queued \ {result.game}
       /\ IF result.image /\ result.game \notin texture
          THEN Install(result.game, result.read)
          ELSE UNCHANGED <<texture, recent, answer>>

InstallResult ==
    LET result == Head(ready)
    IN IF ~result.wanted THEN UNCHANGED shown
       ELSE /\ queued' = queued \ {result.game}
            /\ \/ result.image /\ Install(result.game, result.read)
               \/ /\ answer' = [answer EXCEPT ![result.game] = result.read]
                  /\ UNCHANGED <<texture, recent>>

pumpCoverDecodeResults ==
    /\ phase = "pump"
    /\ \/ /\ MayTake
          /\ ready' = Tail(ready) /\ InstallResult
          /\ frame' = [processed |-> frame.processed + 1,
                       uploads |-> IF Head(ready).wanted /\ Head(ready).image
                                   THEN frame.uploads + 1 ELSE frame.uploads]
          /\ UNCHANGED phase
       \/ /\ ~MayTake /\ phase' = "events"
          /\ UNCHANGED <<ready, shown, frame>>
    /\ UNCHANGED <<mode, drawing, sel, jobs, busy, history>>

-----------------------------------------------------------------------------
(* Covers that change.                                                     *)

(* The jobs of the games in G are no longer waited for; the games in F     *)
(* have a new file, so that what was read of them is stale.                *)
Unwanted(r, G) == IF r.game \in G THEN [r EXCEPT !.wanted = FALSE] ELSE r
Aged(r, F) == IF r.game \in F /\ r.read = "current" THEN [r EXCEPT !.read = "stale"] ELSE r

Forget(G, F) ==
    /\ jobs' = [i \in DOMAIN jobs |-> Unwanted(jobs[i], G)]
    /\ busy' = Unwanted(Aged(busy, F), G)
    /\ ready' = [i \in DOMAIN ready |-> Unwanted(Aged(ready[i], F), G)]
    /\ answer' = [g \in Game |-> CASE g \in G -> "none"
                                   [] g \in F \ G /\ answer[g] = "current" -> "stale"
                                   [] OTHER -> answer[g]]
    /\ texture' = texture \ G
    /\ queued' = queued \ G
    /\ recent' = SelectSeq(recent, LAMBDA g : g \notin G)

OpenMenu ==
    /\ mode = "grid" /\ phase = "events" /\ mode' = "menu"
    /\ UNCHANGED <<phase, frame, drawing, sel, shown, queue, history>>

CloseMenu ==
    /\ mode = "menu" /\ phase = "events" /\ mode' = "grid"
    /\ UNCHANGED <<phase, frame, drawing, sel, shown, queue, history>>

(* reloadCover, of a cover whose file was replaced: it asks for the new    *)
(* one, and the menu that is drawn then asks once more.                    *)
reloadCover ==
    /\ Forget({sel}, {sel})
    /\ unnoticed' = unnoticed \ {sel}
    /\ phase' = "draw" /\ page' = <<Asked(sel, TRUE), Asked(sel, TRUE)>>
    /\ budget' = IF budget = 0 THEN 1 ELSE budget

(* downloadCover, or a custom cover that is removed.                       *)
ReplaceCover ==
    /\ mode = "menu" /\ phase = "events" /\ reloadCover
    /\ UNCHANGED <<mode, frame, sel, downloaded>>

(* An import runs on a thread of its own while frames are drawn.  It may   *)
(* be cancelled after it has replaced the file; the cover is not reloaded. *)
StartImport ==
    /\ mode = "menu" /\ phase = "events" /\ mode' = "import"
    /\ UNCHANGED <<phase, frame, drawing, sel, shown, queue, history>>

EndImport ==
    /\ mode = "import" /\ mode' = "menu"
    /\ \/ reloadCover
       \/ /\ Forget({}, {sel}) /\ unnoticed' = unnoticed \cup {sel}
          /\ UNCHANGED <<phase, drawing>>
       \/ UNCHANGED <<phase, drawing, shown, queue, unnoticed>>
    /\ UNCHANGED <<frame, sel, downloaded>>

(* downloadAllCovers writes the covers on a thread of its own while frames *)
(* are drawn, and asks for them again when it has ended.                   *)
StartDownload ==
    /\ mode = "grid" /\ phase = "events" /\ mode' = "download"
    /\ UNCHANGED <<phase, frame, drawing, sel, shown, queue, history>>

DownloadOne ==
    /\ mode = "download"
    /\ \E g \in Game \ downloaded :
        /\ Forget({}, {g})
        /\ downloaded' = downloaded \cup {g}
    /\ UNCHANGED <<screen, unnoticed>>

EndDownload ==
    /\ mode = "download" /\ phase = "events" /\ mode' = "grid"
    /\ Forget(downloaded, {})
    /\ downloaded' = {} /\ unnoticed' = unnoticed \ downloaded
    /\ UNCHANGED <<phase, frame, drawing, sel>>

(* startGameScan, for a new library.                                       *)
cancelQueuedCoverDecodes ==
    /\ mode = "grid" /\ phase = "events"
    /\ jobs' = <<>> /\ ready' = <<>> /\ queued' = {}
    /\ busy' = [busy EXCEPT !.fresh = FALSE, !.wanted = FALSE]
    /\ UNCHANGED <<screen, answer, texture, recent, history>>

(* pumpGameScan: the games of the old library go, or one game's file has   *)
(* changed; what takes their place has no cover and no request.            *)
GamesReplaced ==
    /\ mode = "grid" /\ phase = "events"
    /\ \E G \in {Game} \cup {{g} : g \in Game} :
          Forget(G, {}) /\ unnoticed' = unnoticed \ G
    /\ UNCHANGED <<screen, downloaded>>

Next ==
    \/ Navigate \/ Draw \/ ensureCover \/ Present \/ Worker \/ pumpCoverDecodeResults
    \/ OpenMenu \/ CloseMenu \/ ReplaceCover \/ StartImport \/ EndImport
    \/ StartDownload \/ DownloadOne \/ EndDownload
    \/ cancelQueuedCoverDecodes \/ GamesReplaced

Spec == Init /\ [][Next]_vars

-----------------------------------------------------------------------------
(* A game that waits for its cover has a request that will be answered:    *)
(* a job, the worker's job or a result, of this epoch and for this request *)
(* - otherwise the game would never ask again, and its cover never appear. *)
QueuedIsServed ==
    \A g \in queued :
        \/ Wanted(jobs, g) # {} \/ Wanted(ready, g) # {}
        \/ busy.game = g /\ busy.wanted /\ busy.fresh

(* What the grid shows of a game was read from the cover's file as it is   *)
(* now, except while covers are being downloaded and after an import that  *)
(* was cancelled too late.                                                 *)
CoverIsCurrent ==
    \A g \in Game : answer[g] = "stale" => g \in downloaded \cup unnoticed

(* Every cover that is waited for comes, and it is the one on the card: both *)
(* of the above.                                                           *)
CoversAreServed == QueuedIsServed /\ CoverIsCurrent

-----------------------------------------------------------------------------
(* What holds in every state, and why the covers are served.               *)
Request == [game : Int, priority : BOOLEAN]
Job == [game : Int, wanted : BOOLEAN]
Work == [game : Int, wanted : BOOLEAN, fresh : BOOLEAN, read : Read]
Result == [game : Int, wanted : BOOLEAN, read : Read, image : BOOLEAN]

TypeOK ==
    /\ mode \in {"grid", "menu", "download", "import"}
    /\ phase \in {"pump", "events", "draw"}
    /\ sel \in Int /\ page \in Seq(Request) /\ budget \in Nat
    /\ answer \in [Game -> Read] /\ queued \subseteq Int
    /\ jobs \in Seq(Job) /\ busy \in Work /\ ready \in Seq(Result)

(* What was read of an older file and is still waited for is of a cover    *)
(* that is known to have changed.                                          *)
ComingIsCurrent ==
    /\ busy.wanted /\ busy.read = "stale" => busy.game \in downloaded \cup unnoticed
    /\ \A i \in DOMAIN ready :
         ready[i].wanted /\ ready[i].read = "stale" =>
             ready[i].game \in downloaded \cup unnoticed

IInv == TypeOK /\ QueuedIsServed /\ CoverIsCurrent /\ ComingIsCurrent
=============================================================================
