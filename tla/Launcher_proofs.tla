---------------------------- MODULE Launcher_proofs ----------------------------
(***************************************************************************)
(* Proofs about the launcher and the storage below it, for any values of   *)
(* the constants.  For each part an inductive invariant, which its module  *)
(* states, is shown to hold at first and to survive every step of the      *)
(* part; the theorems at the end say so of the whole, where the part never *)
(* changes.                                                                *)
(***************************************************************************)
EXTENDS MCLauncher, FiniteSetTheorems, SequenceTheorems, WellFoundedInduction, TLAPS

--------------------------------------------------------------------------------
(* Library: a disk that is plugged in is listed.                                 *)

wLoop == v1
wMode == v2
wDisk == v5
wMoved == v6
wRefreshAt == v7
wUsbPath == v8
wStorage == v9
wQueued == v11
wScan == v12
wSawEmpty == v13
wGames == v14
wDropped == v15

USE DEF wLoop, wMode, wDisk, wMoved, wRefreshAt, wUsbPath, wStorage, wQueued, wScan,
        wSawEmpty, wGames, wDropped

LEMMA LibraryNoScan ==
  /\ Library!NoScan \in Library!Scan /\ ~Library!NoScan.on /\ ~Library!NoScan.done
  /\ Library!NoScan.ready = <<>>
  /\ Library!NoScan.todo = {} /\ Library!NoScan.open = Library!None
  /\ Library!NoScan.completed = {} /\ Library!NoScan.found = {}
<1>1. <<>> \in Seq(Library!Game)
  OBVIOUS
<1>2. QED  BY <1>1 DEF Library!NoScan, Library!Scan

(* What reading one more folder makes of the list.                            *)
LEMMA LibraryAppended ==
  ASSUME NEW G, NEW s \in Seq(G), NEW g \in G
  PROVE  \E n \in Nat :
           /\ n = Len(s) /\ DOMAIN s = 1 .. n
           /\ Len(Append(s, g)) = n + 1 /\ DOMAIN Append(s, g) = 1 .. n + 1
           /\ \A i \in 1 .. n : Append(s, g)[i] = s[i]
           /\ Append(s, g)[n + 1] = g
<1>1. PICK n \in Nat : n = Len(s) /\ DOMAIN s = 1 .. n
  OBVIOUS
<1>2. Append(s, g) \in Seq(G) /\ Len(Append(s, g)) = n + 1
  BY <1>1
<1>3. DOMAIN Append(s, g) = 1 .. n + 1
  BY <1>1, <1>2
<1>4. (\A i \in 1 .. n : Append(s, g)[i] = s[i]) /\ Append(s, g)[n + 1] = g
  BY <1>1
<1>5. QED  BY <1>1, <1>2, <1>3, <1>4

(* A scan that is started.                                                    *)
LEMMA LibraryStarted ==
  ASSUME Library!TypeOK, NEW folders \in SUBSET Library!Folder, NEW path \in BOOLEAN,
         NEW replace \in BOOLEAN, Library!StartScan(folders, path, replace)
  PROVE  /\ wScan' \in Library!Scan /\ wScan'.on /\ ~wScan'.done /\ wScan'.replace = replace
         /\ wScan'.ready = <<>> /\ wScan'.open = Library!None /\ wScan'.completed = {}
         /\ "usb" \in wScan'.todo <=> "usb" \in folders /\ path
         /\ wDropped' \in BOOLEAN
         /\ wDropped /\ ~("usb" \in folders /\ path) => wDropped'
<1>1. PICK todo \in SUBSET Library!Folder :
        /\ todo = {f \in folders : f = "usb" => path}
        /\ "usb" \in todo <=> "usb" \in folders /\ path
  <2>1. {f \in folders : f = "usb" => path} \in SUBSET Library!Folder
    OBVIOUS
  <2>2. "usb" \in {f \in folders : f = "usb" => path} <=> "usb" \in folders /\ path
    OBVIOUS
  <2>3. QED  BY <2>1, <2>2
<1>2. wScan' = [Library!NoScan EXCEPT !.on = TRUE, !.replace = replace, !.stable = wDisk,
                            !.todo = todo]
  BY <1>1 DEF Library!StartScan
<1>3. <<>> \in Seq(Library!Game) /\ wDisk \in UsbDisk \cup {Library!None}
  BY DEF Library!TypeOK
<1>4. /\ wScan' \in Library!Scan /\ wScan'.on /\ ~wScan'.done /\ wScan'.replace = replace
      /\ wScan'.ready = <<>> /\ wScan'.open = Library!None /\ wScan'.completed = {}
      /\ wScan'.todo = todo
  BY <1>2, <1>3 DEF Library!NoScan, Library!Scan
<1>5. wDropped' = (wDropped /\ ~("usb" \in folders /\ path)) /\ wDropped \in BOOLEAN
  BY DEF Library!StartScan, Library!TypeOK
<1>6. QED  BY <1>1, <1>4, <1>5

(* The disk's folder stays to be read, or its game to be listed, where the    *)
(* scan, what is queued and the list stay.                                    *)
LEMMA LibraryKeptListed ==
  ASSUME Library!WillBeListed, wScan' = wScan, wGames' = wGames,
         "usb" \in wQueued => "usb" \in wQueued'
  PROVE  Library!WillBeListed'
BY DEF Library!WillBeListed, Library!Reading, Library!Stays

LEMMA LibraryKeptScan ==
  ASSUME Library!ScanInOrder, wScan' = wScan
  PROVE  Library!ScanInOrder'
BY DEF Library!ScanInOrder

(* The worker.                                                                *)
LEMMA LibraryWorkerInv ==
  ASSUME Library!IInv, Library!Worker
  PROVE  Library!IInv'
<1>1. Library!TypeOK /\ Library!ScanInOrder /\ Library!KnownIsListed /\ Library!Scanning
  BY DEF Library!IInv, Library!Worker, Library!OpenFolder, Library!ReadFolder,
         Library!ScanDone
<1>2. /\ UNCHANGED <<wLoop, Library!shortcut, Library!usb, Library!sources>>
      /\ UNCHANGED <<Library!mounts, Library!listed, wSawEmpty>>
  BY DEF Library!Worker, Library!OpenFolder, Library!ReadFolder, Library!ScanDone
<1>3. (Library!Known' => Library!Known) /\ wUsbPath' = wUsbPath /\ wDropped' = wDropped
      /\ wGames' = wGames /\ wQueued' = wQueued
  BY <1>2
     DEF Library!shortcut, Library!usb, Library!sources, Library!mounts, Library!listed,
         Library!Known
<1>4. SUFFICES /\ wScan' \in Library!Scan /\ Library!ScanInOrder'
               /\ Library!Known /\ Library!WillBeListed => Library!WillBeListed'
  BY <1>1, <1>2, <1>3
     DEF Library!IInv, Library!TypeOK, Library!KnownIsListed, Library!shortcut, Library!usb,
         Library!sources, Library!mounts, Library!listed
<1>5. wScan \in Library!Scan /\ wScan.on /\ ~wScan.done
  BY <1>1 DEF Library!TypeOK, Library!Scanning
<1>6. CASE Library!OpenFolder
  <2>1. PICK f \in wScan.todo : wScan' = [wScan EXCEPT !.todo = @ \ {f},
                            !.open = IF Library!Mounted(f) THEN f ELSE Library!None,
                            !.completed = IF Library!Mounted(f) THEN @ \cup {f} ELSE @]
    BY <1>6 DEF Library!OpenFolder
  <2>2. f \in Library!Folder
    BY <1>5 DEF Library!Scan
  <2>3. /\ wScan' \in Library!Scan /\ wScan'.on /\ ~wScan'.done
        /\ wScan'.ready = wScan.ready
        /\ wScan'.todo = wScan.todo \ {f} /\ wScan'.found = wScan.found
        /\ wScan'.replace = wScan.replace /\ wScan'.cleared = wScan.cleared
        /\ wScan'.open = IF Library!Mounted(f) THEN f ELSE Library!None
        /\ wScan'.completed = IF Library!Mounted(f) THEN wScan.completed \cup {f}
                             ELSE wScan.completed
    BY <1>5, <2>1, <2>2 DEF Library!Scan
  <2>4. Library!ScanInOrder'
    BY <1>1, <2>3 DEF Library!ScanInOrder
  <2>5. ASSUME Library!Known, Library!WillBeListed PROVE Library!WillBeListed'
    <3>1. f = "usb" => Library!Mounted(f)
      BY <2>5 DEF Library!Known, Library!Mounted, Library!None
    <3>2. CASE f = "usb"
      BY <2>3, <3>1, <3>2 DEF Library!WillBeListed, Library!Reading
    <3>3. CASE f # "usb"
      <4>1. "usb" \in wScan'.completed => "usb" \in wScan.completed
        BY <2>3, <3>3
      <4>2. wScan.open = Library!None
        BY <1>6 DEF Library!OpenFolder
      <4>3. "usb" \in wScan.todo => "usb" \in wScan'.todo
        BY <2>3, <3>3
      <4>4. QED
        BY <1>3, <1>5, <2>3, <2>5, <4>1, <4>2, <4>3
           DEF Library!WillBeListed, Library!Reading, Library!Stays, Library!None
    <3>4. QED  BY <3>2, <3>3
  <2>6. QED  BY <2>3, <2>4, <2>5, <1>4
<1>7. CASE Library!ReadFolder
  <2> DEFINE g == [folder |-> wScan.open,
                   disk |-> IF wScan.open = "usb" THEN wDisk ELSE Library!None,
                   source |-> IF wScan.open = "usb" THEN wScan.stable ELSE Library!None]
  <2>1. wScan.open # Library!None /\ wScan.open \in Library!Folder
    BY <1>5, <1>7 DEF Library!ReadFolder, Library!Scan
  <2>2. g \in Library!Game /\ g.folder = wScan.open
    BY <1>1, <1>5, <2>1 DEF Library!TypeOK, Library!Scan, Library!Game
  <2> HIDE DEF g
  <2>3. wScan' = [wScan EXCEPT !.open = Library!None,
                             !.ready = IF Library!Mounted(wScan.open) THEN Append(@, g) ELSE @,
                             !.found = IF Library!Mounted(wScan.open) THEN @ \cup {g} ELSE @]
    BY <1>7 DEF Library!ReadFolder, g
  <2>4. wScan.ready \in Seq(Library!Game)
    BY <1>5 DEF Library!Scan
  <2>5. Append(wScan.ready, g) \in Seq(Library!Game)
    BY <2>2, <2>4
  <2>6. /\ wScan' \in Library!Scan /\ wScan'.on /\ ~wScan'.done /\ wScan'.todo = wScan.todo
        /\ wScan'.replace = wScan.replace /\ wScan'.cleared = wScan.cleared
        /\ wScan'.completed = wScan.completed /\ wScan'.open = Library!None
        /\ wScan'.ready = IF Library!Mounted(wScan.open) THEN Append(wScan.ready, g)
                         ELSE wScan.ready
        /\ wScan'.found = IF Library!Mounted(wScan.open) THEN wScan.found \cup {g}
                         ELSE wScan.found
    BY <1>5, <2>2, <2>3, <2>5 DEF Library!Scan
  <2>7. PICK n \in Nat :
          /\ n = Len(wScan.ready) /\ DOMAIN wScan.ready = 1 .. n
          /\ Len(Append(wScan.ready, g)) = n + 1
          /\ DOMAIN Append(wScan.ready, g) = 1 .. n + 1
          /\ \A i \in 1 .. n : Append(wScan.ready, g)[i] = wScan.ready[i]
          /\ Append(wScan.ready, g)[n + 1] = g
    BY <2>2, <2>4, LibraryAppended
  <2>8. \A i \in 1 .. n : wScan.ready[i] \in wScan.found
    BY <1>1, <2>7 DEF Library!ScanInOrder
  <2>9. \A i \in 1 .. n + 1 : i \in 1 .. n \/ i = n + 1
    BY <2>7
  <2>10. Library!ScanInOrder'
    BY <2>6, <2>7, <2>8, <2>9 DEF Library!ScanInOrder
  <2>11. ASSUME Library!Known, Library!WillBeListed PROVE Library!WillBeListed'
    <3>1. wScan.open = "usb" => Library!Mounted(wScan.open)
      BY <2>11 DEF Library!Known, Library!Mounted, Library!None
    <3>2. n + 1 \in 1 .. n + 1 /\ \A i \in 1 .. n : i \in 1 .. n + 1
      BY <2>7
    <3>3. CASE wScan.open = "usb"
      BY <2>2, <2>6, <2>7, <3>1, <3>2, <3>3 DEF Library!WillBeListed, Library!Reading
    <3>4. CASE \E i \in DOMAIN wScan.ready : wScan.ready[i].folder = "usb"
      <4>1. PICK i \in 1 .. n : wScan.ready[i].folder = "usb"
        BY <2>7, <3>4
      <4>2. i \in DOMAIN wScan'.ready /\ wScan'.ready[i].folder = "usb"
        BY <2>6, <2>7, <3>2, <4>1
      <4>3. QED  BY <2>6, <4>2 DEF Library!WillBeListed, Library!Reading
    <3>5. CASE ~(\/ wScan.open = "usb"
                 \/ \E i \in DOMAIN wScan.ready : wScan.ready[i].folder = "usb")
      <4>1. wScan.found \subseteq wScan'.found
        BY <2>6
      <4>2. QED
        BY <1>3, <1>5, <2>6, <2>11, <3>5, <4>1
           DEF Library!WillBeListed, Library!Reading, Library!Stays
    <3>6. QED  BY <3>3, <3>4, <3>5
  <2>12. QED  BY <2>6, <2>10, <2>11, <1>4
<1>8. CASE Library!ScanDone
  <2>1. /\ wScan' = [wScan EXCEPT !.done = TRUE] /\ wScan.todo = {}
        /\ wScan.open = Library!None
    BY <1>8 DEF Library!ScanDone
  <2>2. /\ wScan' \in Library!Scan /\ wScan'.on /\ wScan'.todo = wScan.todo
        /\ wScan'.open = wScan.open
        /\ wScan'.replace = wScan.replace /\ wScan'.cleared = wScan.cleared
        /\ wScan'.completed = wScan.completed
        /\ wScan'.ready = wScan.ready /\ wScan'.found = wScan.found
    BY <1>5, <2>1 DEF Library!Scan
  <2>3. Library!ScanInOrder'
    BY <1>1, <2>1, <2>2 DEF Library!ScanInOrder
  <2>4. Library!Known /\ Library!WillBeListed => Library!WillBeListed'
    BY <1>3, <1>5, <2>2 DEF Library!WillBeListed, Library!Reading, Library!Stays
  <2>5. QED  BY <2>2, <2>3, <2>4, <1>4
<1>9. QED  BY <1>6, <1>7, <1>8 DEF Library!Worker

(* A change of the disk is not known of yet.                                  *)
LEMMA LibraryStorageInv ==
  ASSUME Library!IInv,
         Library!StorageStarts \/ Library!Unplug \/ \E d \in UsbDisk : Library!Plug(d)
  PROVE  Library!IInv'
<1>1. wMoved' = TRUE /\ wDisk' \in UsbDisk \cup {Library!None}
  BY DEF Library!StorageStarts, Library!Unplug, Library!Plug
<1>2. UNCHANGED <<wMode, wRefreshAt, wUsbPath, wQueued, wScan, wGames, wDropped>>
  BY DEF Library!StorageStarts, Library!Unplug, Library!Plug, Library!shortcut,
         Library!sources, Library!listed
<1>3. QED
  BY <1>1, <1>2, LibraryKeptScan
     DEF Library!IInv, Library!TypeOK, Library!KnownIsListed, Library!Known

(* What leaves the scan, the list and what is queued alone.                   *)
LEMMA LibraryStepsInv ==
  ASSUME Library!IInv,
         \/ Library!Answer \/ Library!Notice \/ Library!NoEvent
         \/ Library!GiveUp \/ Library!Select \/ Library!RequestExit
  PROVE  Library!IInv'
<1>1. UNCHANGED <<wMode, wDisk, wUsbPath, wQueued, wScan, wStorage, wGames, wDropped>>
  BY DEF Library!Answer, Library!Notice, Library!NoEvent, Library!GiveUp, Library!Select,
         Library!RequestExit, Library!shortcut, Library!usb, Library!sources,
         Library!mounts, Library!listed
<1>2. wMoved' \in BOOLEAN /\ wRefreshAt' \in BOOLEAN /\ (Library!Known' => Library!Known)
  <2>1. CASE Library!Notice
    <3>1. \/ wMoved' = FALSE /\ wRefreshAt' = (wRefreshAt \/ wMoved)
          \/ wMoved' = wMoved /\ wRefreshAt' = wRefreshAt
      BY <2>1 DEF Library!Notice
    <3>2. wMoved \in BOOLEAN /\ wRefreshAt \in BOOLEAN /\ wLoop # "closed"
      BY <2>1 DEF Library!IInv, Library!TypeOK, Library!Notice
    <3>3. QED  BY <1>1, <3>1, <3>2 DEF Library!Known
  <2>2. CASE ~Library!Notice
    <3>1. wMoved' = wMoved /\ wRefreshAt' = wRefreshAt /\ wLoop # "closed"
      BY <2>2
         DEF Library!Answer, Library!NoEvent, Library!GiveUp, Library!Select,
             Library!RequestExit, Library!usb, Library!sources
    <3>2. QED  BY <1>1, <3>1 DEF Library!IInv, Library!TypeOK, Library!Known
  <2>3. QED  BY <2>1, <2>2
<1>3. Library!TypeOK'
  BY <1>1, <1>2 DEF Library!IInv, Library!TypeOK
<1>4. Library!KnownIsListed'
  BY <1>1, <1>2, LibraryKeptListed DEF Library!IInv, Library!KnownIsListed
<1>5. QED  BY <1>1, <1>3, <1>4, LibraryKeptScan DEF Library!IInv

(* Two games a frame go from the scan to the list.                            *)
LEMMA LibraryPumpInv ==
  ASSUME Library!IInv, Library!Pump
  PROVE  Library!IInv'
<1>1. /\ Library!TypeOK /\ Library!ScanInOrder /\ Library!KnownIsListed /\ wLoop = "pump"
      /\ wScan \in Library!Scan /\ wScan.ready \in Seq(Library!Game)
  BY DEF Library!IInv, Library!TypeOK, Library!Scan, Library!Pump
<1>2. /\ UNCHANGED <<Library!shortcut, Library!usb, Library!sources, Library!mounts, wDropped>>
      /\ wLoop' = "finish"
  BY DEF Library!Pump, Library!Goto
<1>3. PICK n \in Nat : n = Len(wScan.ready) /\ DOMAIN wScan.ready = 1 .. n
  BY <1>1
<1>4. PICK k \in 0 .. n : k = Library!Rows(n) /\ (k = 0 => n = 0)
  BY DEF Library!Rows
<1>5. PICK clear \in BOOLEAN : clear = (k > 0 /\ wScan.replace /\ ~wScan.cleared)
  OBVIOUS
<1>6. k = 0 => ~clear
  <2>1. k = 0 => ~(k > 0)
    OBVIOUS
  <2>2. QED  BY <1>5, <2>1, Zenon
<1>7. k # 0 /\ wScan.replace => clear \/ wScan.cleared
  <2>1. k # 0 => k > 0
    OBVIOUS
  <2>2. wScan.replace \in BOOLEAN /\ wScan.cleared \in BOOLEAN
    BY <1>1 DEF Library!Scan
  <2>3. QED  BY <1>5, <2>1, <2>2
<1>8. PICK rest \in Seq(Library!Game) :
        /\ rest = SubSeq(wScan.ready, k + 1, n) /\ Len(rest) = n - k
        /\ DOMAIN rest = 1 .. n - k
        /\ \A i \in 1 .. n - k : rest[i] = wScan.ready[k + i]
  <2>1. \A i \in k + 1 .. n : wScan.ready[i] \in Library!Game
    BY <1>1, <1>3
  <2>2. /\ SubSeq(wScan.ready, k + 1, n) \in Seq(Library!Game)
        /\ Len(SubSeq(wScan.ready, k + 1, n)) = n - k
        /\ \A i \in 1 .. n - k : SubSeq(wScan.ready, k + 1, n)[i] = wScan.ready[k + i]
    BY <1>1, <1>3, <2>1
  <2>3. DOMAIN SubSeq(wScan.ready, k + 1, n) = 1 .. n - k
    BY <2>2
  <2>4. QED  BY <2>2, <2>3
<1>9. PICK batch \in SUBSET Library!Game : batch = {wScan.ready[i] : i \in 1 .. k}
  <2>1. \A i \in 1 .. k : wScan.ready[i] \in Library!Game
    BY <1>1, <1>3
  <2>2. QED  BY <2>1
<1>10. /\ wGames' = (IF clear THEN {} ELSE wGames) \cup batch
      /\ wScan' = [wScan EXCEPT !.ready = rest, !.cleared = @ \/ clear]
  BY <1>3, <1>4, <1>5, <1>8, <1>9 DEF Library!Pump
<1>11. /\ wScan' \in Library!Scan /\ wScan'.ready = rest /\ wScan'.on = wScan.on
      /\ wScan'.cleared = (wScan.cleared \/ clear) /\ wScan'.replace = wScan.replace
      /\ wScan'.todo = wScan.todo /\ wScan'.open = wScan.open /\ wScan'.done = wScan.done
      /\ wScan'.completed = wScan.completed /\ wScan'.found = wScan.found
  BY <1>1, <1>10 DEF Library!Scan
<1>12. \A i \in 1 .. n - k : k + i \in 1 .. n
  OBVIOUS
<1>13. Library!ScanInOrder'
  <2>1. \A i \in 1 .. n - k : rest[i] \in wScan.found
    BY <1>1, <1>3, <1>8, <1>12 DEF Library!ScanInOrder
  <2>2. ASSUME ~wScan.on PROVE rest = <<>>
    <3>1. n = 0
      BY <1>1, <1>3, <2>2 DEF Library!ScanInOrder
    <3>2. Len(rest) = 0
      BY <1>8, <3>1
    <3>3. QED  BY <1>8, <3>2
  <2>3. QED  BY <1>1, <1>8, <1>11, <2>1, <2>2 DEF Library!ScanInOrder
<1>14. Library!TypeOK'
  BY <1>1, <1>2, <1>9, <1>10, <1>11
     DEF Library!TypeOK, Library!shortcut, Library!usb, Library!sources
<1>15. ASSUME Library!Known, Library!WillBeListed PROVE Library!WillBeListed'
  <2>1. wQueued' = wQueued
    BY <1>2 DEF Library!sources
  <2>2. CASE "usb" \in wQueued \/ (wScan.on /\ ("usb" \in wScan.todo \/ wScan.open = "usb"))
    BY <1>11, <2>1, <2>2 DEF Library!WillBeListed, Library!Reading
  <2>3. CASE wScan.on /\ \E i \in DOMAIN wScan.ready : wScan.ready[i].folder = "usb"
    <3>1. PICK i \in 1 .. n : wScan.ready[i].folder = "usb"
      BY <1>3, <2>3
    <3>2. CASE i \in 1 .. k
      <4>1. wScan.ready[i] \in wGames' /\ wScan.ready[i] \in wScan.found
        BY <1>1, <1>3, <1>9, <1>10, <3>1, <3>2 DEF Library!ScanInOrder
      <4>2. PICK g \in wGames' : g.folder = "usb" /\ g \in wScan.found
        BY <3>1, <4>1
      <4>3. wScan'.replace => wScan'.cleared
        <5>1. k # 0
          BY <3>2
        <5>2. QED  BY <1>7, <1>11, <5>1
      <4>4. Library!Stays(g)'
        BY <1>11, <4>2, <4>3 DEF Library!Stays
      <4>5. QED  BY <4>2, <4>4 DEF Library!WillBeListed
    <3>3. CASE i \notin 1 .. k
      <4>1. i - k \in 1 .. n - k /\ k + (i - k) = i
        BY <3>3
      <4>2. rest[i - k].folder = "usb" /\ i - k \in DOMAIN rest
        BY <1>8, <3>1, <4>1
      <4>3. QED  BY <1>11, <2>3, <4>2 DEF Library!WillBeListed, Library!Reading
    <3>4. QED  BY <3>2, <3>3
  <2>4. CASE \E g \in wGames : g.folder = "usb" /\ Library!Stays(g)
    <3>1. PICK g \in wGames : g.folder = "usb" /\ Library!Stays(g)
      BY <2>4
    <3>2. CASE ~(wScan.on /\ clear)
      <4>1. CASE ~clear
        BY <1>10, <1>11, <3>1, <4>1 DEF Library!WillBeListed, Library!Stays
      <4>2. CASE clear
        <5>1. ~wScan.on
          BY <3>2, <4>2
        <5>2. n = 0
          BY <1>1, <1>3, <5>1 DEF Library!ScanInOrder
        <5>3. k = 0
          BY <5>2
        <5>4. QED  BY <1>6, <4>2, <5>3
      <4>3. QED  BY <4>1, <4>2
    <3>3. CASE wScan.on /\ clear
      BY <1>5, <3>1, <3>3 DEF Library!Stays
    <3>4. QED  BY <3>2, <3>3
  <2>5. QED  BY <1>15, <2>2, <2>3, <2>4 DEF Library!WillBeListed, Library!Reading
<1>16. Library!KnownIsListed'
  BY <1>1, <1>2, <1>15
     DEF Library!KnownIsListed, Library!Known, Library!shortcut, Library!usb,
         Library!sources, Library!mounts
<1>17. QED  BY <1>13, <1>14, <1>16 DEF Library!IInv

(* A scan that ends leaves the disk's game, but for one it drops.             *)
LEMMA LibraryFinishInv ==
  ASSUME Library!IInv, Library!FinishScan
  PROVE  Library!IInv'
<1>1. /\ UNCHANGED <<Library!shortcut, Library!usb, Library!sources, Library!mounts>>
      /\ wLoop = "finish"
  BY DEF Library!FinishScan
<1>2. CASE ~(wScan.on /\ wScan.done /\ wSawEmpty)
  <2>1. wGames' = wGames /\ wScan' = wScan /\ wDropped' = wDropped
    BY <1>2 DEF Library!FinishScan
  <2>2. Library!Known' => Library!Known
    BY <1>1
       DEF Library!Known, Library!shortcut, Library!usb, Library!sources, Library!mounts
  <2>3. QED
    BY <1>1, <2>1, <2>2, LibraryKeptListed, LibraryKeptScan
       DEF Library!IInv, Library!TypeOK, Library!KnownIsListed, Library!shortcut,
           Library!usb, Library!sources, Library!mounts
<1>3. CASE wScan.on /\ wScan.done /\ wSawEmpty
  <2>1. /\ wGames' = IF wScan.replace THEN (IF wScan.cleared THEN wGames ELSE {})
                    ELSE {g \in wGames : ~Library!Stale(g)}
        /\ wDropped' = (wDropped \/ wScan.ready # <<>>) /\ wScan' = Library!NoScan
    BY <1>3 DEF Library!FinishScan
  <2>2. wGames' \subseteq wGames /\ wDropped' \in BOOLEAN
    BY <2>1
  <2>3. Library!TypeOK' /\ Library!ScanInOrder'
    BY <1>1, <2>1, <2>2, LibraryNoScan
       DEF Library!IInv, Library!TypeOK, Library!ScanInOrder, Library!shortcut, Library!usb,
           Library!sources, Library!mounts
  <2>4. wScan.todo = {} /\ wScan.open = Library!None
    BY <1>3 DEF Library!IInv, Library!ScanInOrder
  <2>5. ASSUME Library!Known, ~wDropped' PROVE Library!WillBeListed'
    <3>1. wScan.ready = <<>> /\ ~wDropped
      BY <2>1, <2>5
    <3>2. ~\E i \in DOMAIN wScan.ready : wScan.ready[i].folder = "usb"
      <4>1. DOMAIN wScan.ready = {}
        BY <3>1
      <4>2. QED  BY <4>1
    <3>3. "usb" \in wQueued \/ \E g \in wGames : g.folder = "usb" /\ Library!Stays(g)
      BY <2>4, <2>5, <3>1, <3>2
         DEF Library!IInv, Library!KnownIsListed, Library!WillBeListed, Library!Reading,
             Library!None
    <3>4. CASE "usb" \in wQueued
      BY <1>1, <3>4 DEF Library!WillBeListed, Library!sources
    <3>5. ASSUME NEW g \in wGames, g.folder = "usb", Library!Stays(g) PROVE Library!WillBeListed'
      <4>1. g \in wGames'
        BY <1>3, <2>1, <3>5 DEF Library!Stays, Library!Stale
      <4>2. ~wScan'.on
        BY <2>1, LibraryNoScan
      <4>3. QED  BY <3>5, <4>1, <4>2 DEF Library!WillBeListed, Library!Stays
    <3>6. QED  BY <3>3, <3>4, <3>5
  <2>6. Library!KnownIsListed'
    BY <1>1, <2>5
       DEF Library!IInv, Library!KnownIsListed, Library!Known, Library!shortcut,
           Library!usb, Library!sources, Library!mounts
  <2>7. QED  BY <2>3, <2>6 DEF Library!IInv
<1>4. QED  BY <1>2, <1>3

(* What was queued is scanned when no scan runs.                              *)
LEMMA LibraryQueuedInv ==
  ASSUME Library!IInv, Library!StartQueued
  PROVE  Library!IInv'
<1>1. /\ UNCHANGED <<Library!shortcut, Library!usb, wRefreshAt, wUsbPath, Library!mounts, wGames>>
      /\ wLoop = "start"
  BY DEF Library!StartQueued
<1>2. CASE ~(wMode # "direct" /\ ~wScan.on /\ wQueued # {})
  <2>1. wQueued' = wQueued /\ wScan' = wScan /\ wDropped' = wDropped
    BY <1>2 DEF Library!StartQueued
  <2>2. Library!Known' => Library!Known
    BY <1>1 DEF Library!Known, Library!shortcut, Library!usb, Library!mounts
  <2>3. QED
    BY <1>1, <2>1, <2>2, LibraryKeptListed, LibraryKeptScan
       DEF Library!IInv, Library!TypeOK, Library!KnownIsListed, Library!shortcut,
           Library!usb, Library!mounts
<1>3. CASE wMode # "direct" /\ ~wScan.on /\ wQueued # {}
  <2>1. Library!StartScan(wQueued, TRUE, FALSE) /\ wQueued' = {}
    BY <1>3 DEF Library!StartQueued
  <2>2. Library!TypeOK /\ wQueued \in SUBSET Library!Folder
    BY DEF Library!IInv, Library!TypeOK, Library!Folder
  <2>3. /\ wScan' \in Library!Scan /\ wScan'.on /\ ~wScan'.done /\ ~wScan'.replace
        /\ wScan'.ready = <<>> /\ wScan'.open = Library!None /\ wScan'.completed = {}
        /\ "usb" \in wScan'.todo <=> "usb" \in wQueued
        /\ wDropped' \in BOOLEAN /\ (wDropped /\ "usb" \notin wQueued => wDropped')
    BY <2>1, <2>2, LibraryStarted
  <2>4. Library!TypeOK' /\ Library!ScanInOrder'
    BY <1>1, <2>1, <2>2, <2>3
       DEF Library!TypeOK, Library!ScanInOrder, Library!shortcut, Library!usb,
           Library!mounts
  <2>5. ASSUME Library!Known, ~wDropped' PROVE Library!WillBeListed'
    <3>1. CASE "usb" \in wQueued
      BY <2>3, <3>1 DEF Library!WillBeListed, Library!Reading
    <3>2. CASE "usb" \notin wQueued
      <4>1. ~wDropped
        BY <2>3, <2>5, <3>2
      <4>2. PICK g \in wGames : g.folder = "usb"
        BY <1>3, <2>5, <3>2, <4>1
           DEF Library!IInv, Library!KnownIsListed, Library!WillBeListed
      <4>3. QED  BY <1>1, <2>3, <4>2 DEF Library!WillBeListed, Library!Stays
    <3>3. QED  BY <3>1, <3>2
  <2>6. Library!KnownIsListed'
    BY <1>1, <2>5
       DEF Library!IInv, Library!KnownIsListed, Library!Known, Library!shortcut,
           Library!usb, Library!mounts
  <2>7. QED  BY <2>4, <2>6 DEF Library!IInv
<1>4. QED  BY <1>2, <1>3

(* The folders are resolved, and the disk's is queued if the disk is there.   *)
LEMMA LibraryResolvedInv ==
  ASSUME Library!IInv, Library!Integrate \/ Library!Refresh
  PROVE  Library!IInv'
<1>1. wScan' = wScan /\ wMode' = wMode /\ wDisk' = wDisk /\ wDropped' = wDropped
  BY DEF Library!Integrate, Library!Refresh, Library!shortcut, Library!usb, Library!listed
<1>2. CASE Library!Integrate /\ wStorage # "done"
  <2>2. UNCHANGED <<wMoved, wRefreshAt, wUsbPath, wQueued, wStorage, wGames>>
    BY <1>2 DEF Library!Integrate, Library!listed
  <2>3. Library!Known' => Library!Known
    BY <1>1, <1>2, <2>2 DEF Library!Known, Library!Integrate
  <2>4. QED
    BY <1>1, <2>2, <2>3, LibraryKeptListed, LibraryKeptScan
       DEF Library!IInv, Library!TypeOK, Library!KnownIsListed
<1>3. CASE Library!Integrate /\ wStorage = "done"
  <2>1. /\ wMoved' = FALSE /\ wRefreshAt' = wRefreshAt /\ wUsbPath' = Library!Resolved
        /\ wGames' = wGames
        /\ wQueued' = IF wMode = "direct" THEN wQueued
                     ELSE wQueued \cup {"smb"} \cup (IF Library!Resolved THEN {"usb"} ELSE {})
    BY <1>3 DEF Library!Integrate, Library!listed
  <2>2. Library!TypeOK'
    BY <1>1, <2>1 DEF Library!IInv, Library!TypeOK, Library!Resolved
  <2>3. Library!Known' => wUsbPath' /\ "usb" \in wQueued'
    BY <1>1, <2>1 DEF Library!Known, Library!Resolved
  <2>4. QED
    BY <1>1, <2>2, <2>3, LibraryKeptScan
       DEF Library!IInv, Library!KnownIsListed, Library!WillBeListed
<1>4. CASE Library!Refresh
  <2>1. /\ wRefreshAt' = FALSE /\ wMoved' = wMoved /\ wUsbPath' = Library!Resolved
        /\ wGames' \subseteq wGames
        /\ wQueued' = IF Library!Resolved THEN {"usb"} ELSE wQueued
    BY <1>4 DEF Library!Refresh, Library!usb
  <2>2. Library!TypeOK'
    BY <1>1, <2>1 DEF Library!IInv, Library!TypeOK, Library!Resolved
  <2>3. Library!Known' => wUsbPath' /\ "usb" \in wQueued'
    BY <1>1, <2>1 DEF Library!Known, Library!Resolved
  <2>4. QED
    BY <1>1, <2>2, <2>3, LibraryKeptScan
       DEF Library!IInv, Library!KnownIsListed, Library!WillBeListed
<1>5. QED  BY <1>2, <1>3, <1>4

(* Everything is read again.                                                  *)
LEMMA LibraryRescanInv ==
  ASSUME Library!IInv, Library!Rescan \/ Library!RescanAfterSettings
  PROVE  Library!IInv'
<1>1. /\ wMode' = wMode /\ wDisk' = wDisk /\ wStorage' = wStorage /\ wQueued' = wQueued
      /\ wGames' = wGames
      /\ wLoop = "events"
  BY DEF Library!Rescan, Library!RescanAfterSettings, Library!shortcut, Library!usb,
         Library!sources, Library!mounts
<1>2. PICK path \in BOOLEAN :
        /\ Library!StartScan(Library!Folder, path, TRUE) /\ wUsbPath' = path
        /\ Library!Known' => path
  <2>1. CASE Library!Rescan
    <3>1. /\ Library!StartScan(Library!Folder, wUsbPath, TRUE) /\ wUsbPath' = wUsbPath
          /\ wUsbPath \in BOOLEAN
          /\ wMoved' = wMoved /\ wRefreshAt' = wRefreshAt
      BY <2>1 DEF Library!Rescan, Library!IInv, Library!TypeOK, Library!usb, Library!sources
    <3>2. Library!Known' => Library!Known
      BY <1>1, <3>1 DEF Library!Known
    <3>3. Library!Known => wUsbPath
      BY DEF Library!IInv, Library!KnownIsListed
    <3>4. QED  BY <3>1, <3>2, <3>3
  <2>2. CASE Library!RescanAfterSettings
    <3>1. /\ Library!StartScan(Library!Folder, Library!Resolved, TRUE)
          /\ wUsbPath' = Library!Resolved /\ Library!Resolved \in BOOLEAN
      BY <2>2 DEF Library!RescanAfterSettings, Library!Resolved
    <3>2. Library!Known' => Library!Resolved
      BY <1>1 DEF Library!Known, Library!Resolved
    <3>3. QED  BY <3>1, <3>2
  <2>3. QED  BY <2>1, <2>2
<1>3. wMoved' \in BOOLEAN /\ wRefreshAt' \in BOOLEAN
  BY DEF Library!Rescan, Library!RescanAfterSettings, Library!IInv, Library!TypeOK,
         Library!usb, Library!sources
<1>4. Library!TypeOK /\ Library!Folder \in SUBSET Library!Folder /\ "usb" \in Library!Folder
  BY DEF Library!IInv, Library!Folder
<1>5. /\ wScan' \in Library!Scan /\ wScan'.on /\ ~wScan'.done
      /\ wScan'.ready = <<>>
      /\ "usb" \in wScan'.todo <=> path
      /\ wDropped' \in BOOLEAN
  BY <1>2, <1>4, LibraryStarted
<1>6. Library!TypeOK' /\ Library!ScanInOrder'
  BY <1>1, <1>2, <1>3, <1>4, <1>5 DEF Library!TypeOK, Library!ScanInOrder
<1>7. Library!KnownIsListed'
  BY <1>2, <1>5 DEF Library!KnownIsListed, Library!WillBeListed, Library!Reading
<1>8. QED  BY <1>6, <1>7 DEF Library!IInv

LEMMA LibraryCloseInv ==
  ASSUME Library!IInv, Library!Close
  PROVE  Library!IInv'
<1>1. wLoop' = "closed" /\ wScan' = Library!NoScan
      /\ UNCHANGED <<Library!shortcut, Library!usb, Library!sources>>
      /\ UNCHANGED <<Library!mounts, Library!listed>>
  BY DEF Library!Close, Library!Goto
<1>2. QED
  BY <1>1, LibraryNoScan
     DEF Library!IInv, Library!TypeOK, Library!ScanInOrder, Library!KnownIsListed,
         Library!Known, Library!shortcut, Library!usb, Library!sources, Library!mounts,
         Library!listed

LEMMA LibraryInit == Library!Init => Library!IInv
<1> SUFFICES ASSUME Library!Init PROVE Library!IInv
  OBVIOUS
<1>1. PICK todo \in SUBSET Library!Folder : todo = {"sd"}
  BY DEF Library!Folder
<1>2. \/ wScan = Library!NoScan
      \/ wScan = [Library!NoScan EXCEPT !.on = TRUE, !.replace = TRUE, !.todo = todo]
  BY <1>1 DEF Library!Init
<1>3. <<>> \in Seq(Library!Game)
  OBVIOUS
<1>4. wScan \in Library!Scan /\ ~wScan.done /\ wScan.ready = <<>>
  <2>1. CASE wScan = Library!NoScan
    BY <2>1, LibraryNoScan
  <2>2. CASE wScan = [Library!NoScan EXCEPT !.on = TRUE, !.replace = TRUE, !.todo = todo]
    BY <1>3, <2>2 DEF Library!NoScan, Library!Scan
  <2>3. QED  BY <1>2, <2>1, <2>2
<1>5. Library!ScanInOrder
  BY <1>4 DEF Library!ScanInOrder
<1>6. wMode \in {"browse", "key", "direct"} /\ wRefreshAt \in BOOLEAN
  BY DEF Library!Init
<1>7. Library!TypeOK
  BY <1>4, <1>6 DEF Library!Init, Library!TypeOK
<1>8. Library!KnownIsListed
  BY DEF Library!Init, Library!KnownIsListed, Library!Known
<1>9. QED  BY <1>5, <1>7, <1>8 DEF Library!IInv

LEMMA LibraryStep == Library!IInv /\ Library!Next => Library!IInv'
  BY LibraryWorkerInv, LibraryStorageInv, LibraryStepsInv, LibraryPumpInv, LibraryFinishInv,
     LibraryQueuedInv, LibraryResolvedInv, LibraryRescanInv, LibraryCloseInv
     DEF Library!Next, Library!Pass, Library!User

LEMMA LibraryStutter == Library!IInv /\ UNCHANGED Library!vars => Library!IInv'
<1> SUFFICES ASSUME Library!IInv, UNCHANGED Library!vars PROVE Library!IInv'
  OBVIOUS
<1>1. /\ UNCHANGED <<wLoop, wMode, wDisk, wMoved, wRefreshAt, wUsbPath>>
      /\ UNCHANGED <<wQueued, wScan, wStorage, wGames, wDropped>>
  BY DEF Library!vars, Library!shortcut, Library!usb, Library!sources, Library!mounts,
         Library!listed
<1>2. Library!TypeOK' /\ Library!ScanInOrder'
  BY <1>1 DEF Library!IInv, Library!TypeOK, Library!ScanInOrder
<1>3. Library!KnownIsListed'
  BY <1>1, LibraryKeptListed DEF Library!IInv, Library!KnownIsListed, Library!Known
<1>4. QED  BY <1>2, <1>3 DEF Library!IInv

LEMMA LibrarySafe == Library!IInv => Library!DiskIsListed
  BY DEF Library!IInv, Library!KnownIsListed, Library!Known, Library!WillBeListed,
         Library!DiskIsListed, Library!NothingLeftToDo

HIDE DEF wLoop, wMode, wDisk, wMoved, wRefreshAt, wUsbPath, wStorage, wQueued, wScan,
         wSawEmpty, wGames, wDropped

--------------------------------------------------------------------------------
(* Boot: a restart of the console leaves settings and a core to boot from.        *)

bPc == v1
bAfter == v2
bCur == v3
bOld == v4
bTmp == v5
bMem == v6
bFirst == v7
bUnread == v8
bBuild == v10
bCore == v11
bMarker == v12
bSaved == v13

USE DEF bPc, bAfter, bCur, bOld, bTmp, bMem, bFirst, bUnread, bBuild, bCore, bMarker, bSaved

(* The contents of launcher.ini, and what is none.                          *)
LEMMA BootContents ==
  /\ Boot!Nothing \in Boot!Contents /\ Boot!Nothing.change = 0
  /\ [change |-> 0, bound |-> TRUE, version |-> 0] \in Boot!Contents
  /\ [change |-> 0, bound |-> TRUE, version |-> 0].change = 0
  /\ Boot!Missing \notin Boot!Contents /\ Boot!Torn \notin Boot!Contents
  /\ Boot!Missing # Boot!Torn
  /\ \A c \in Boot!Contents : c.change \in Nat /\ c.change <= MaxChanges
  BY MaxChangesAssumption DEF Boot!Nothing, Boot!Contents, Boot!Missing, Boot!Torn

(* What the program changes in it.                                          *)
LEMMA BootChanges ==
  \A c \in Boot!Contents :
    /\ [c EXCEPT !.version = 4] \in Boot!Contents
    /\ [c EXCEPT !.version = 4].change = c.change
    /\ [c EXCEPT !.bound = FALSE] \in Boot!Contents
    /\ [c EXCEPT !.bound = FALSE].change = c.change
  BY DEF Boot!Contents

LEMMA BootChange ==
  ASSUME NEW c \in Boot!Contents, c.change < MaxChanges
  PROVE  /\ [change |-> c.change + 1, bound |-> TRUE, version |-> c.version] \in Boot!Contents
         /\ [change |-> c.change + 1, bound |-> TRUE, version |-> c.version].change = c.change + 1
  BY MaxChangesAssumption DEF Boot!Contents

(* Nothing is unpacked, and no setting was changed.                         *)
LEMMA BootInit == Boot!Init => Boot!IInv
<1> SUFFICES ASSUME Boot!Init PROVE Boot!IInv
  OBVIOUS
<1>1. /\ bCur = Boot!Missing \/ (bCur \in Boot!Contents /\ bSaved = bCur)
      /\ bSaved \in Boot!Contents /\ bSaved.change = 0
  <2>1. CASE bCur = Boot!Missing
    BY <2>1, BootContents DEF Boot!Init
  <2>2. CASE bCur # Boot!Missing
    <3>1. bCur = [change |-> 0, bound |-> TRUE, version |-> 0] /\ bSaved = bCur
      BY <2>2 DEF Boot!Init
    <3>2. QED  BY <3>1, BootContents
  <2>3. QED  BY <2>1, <2>2
<1>2. /\ bBuild \in 1..Builds /\ bCore \in 0..Builds /\ bMarker \in 0..Builds
      /\ bMarker <= bBuild
  BY BuildsAssumption DEF Boot!Init, Boot!NoBuild
<1>3. Boot!TypeOK
  BY <1>1, <1>2, BootContents DEF Boot!Init, Boot!TypeOK
<1>4. Boot!KeptSince /\ Boot!SaveUnderWay /\ Boot!MarkedAsUnpacked
  BY <1>1, <1>2, BootContents
     DEF Boot!Init, Boot!Recent, Boot!OnCard, Boot!KeptSince, Boot!SaveUnderWay,
         Boot!MarkedAsUnpacked
<1>5. QED  BY <1>3, <1>4 DEF Boot!IInv

(* A save writes beside the file, puts the old one aside before the new one *)
(* takes its place, and never drops the old one earlier: at every moment    *)
(* recovery finds one of them.  A file is marked after it was unpacked.     *)
LEMMA BootStep == Boot!IInv /\ Boot!Next => Boot!IInv'
<1> SUFFICES ASSUME Boot!IInv, Boot!Next PROVE Boot!IInv'
  OBVIOUS
<1> USE BootContents, BuildsAssumption DEF Boot!IInv
<1>1. \A ok \in BOOLEAN : Boot!Return(ok) =>
        /\ bPc' \in {"off", "sources", "unpack"}
        /\ bSaved' = IF ok THEN bMem ELSE bSaved
  BY DEF Boot!Return, Boot!TypeOK
<1>2. CASE Boot!SaveRecovers
  BY <1>1, <1>2
     DEF Boot!TypeOK, Boot!Recent, Boot!OnCard, Boot!KeptSince, Boot!SaveUnderWay,
         Boot!MarkedAsUnpacked, Boot!file, Boot!unpacked, Boot!SaveRecovers, Boot!Settled,
         Boot!RecoverStep
<1>3. CASE Boot!Write
  BY <1>1, <1>3
     DEF Boot!TypeOK, Boot!Recent, Boot!OnCard, Boot!KeptSince, Boot!SaveUnderWay,
         Boot!MarkedAsUnpacked, Boot!file, Boot!unpacked, Boot!Write
<1>4. CASE Boot!Aside
  BY <1>1, <1>4
     DEF Boot!TypeOK, Boot!Recent, Boot!OnCard, Boot!KeptSince, Boot!SaveUnderWay,
         Boot!MarkedAsUnpacked, Boot!file, Boot!unpacked, Boot!Aside
<1>5. CASE Boot!Place
  BY <1>1, <1>5
     DEF Boot!TypeOK, Boot!Recent, Boot!OnCard, Boot!KeptSince, Boot!SaveUnderWay,
         Boot!MarkedAsUnpacked, Boot!file, Boot!unpacked, Boot!Place
<1>6. CASE Boot!Undo
  BY <1>1, <1>6
     DEF Boot!TypeOK, Boot!Recent, Boot!OnCard, Boot!KeptSince, Boot!SaveUnderWay,
         Boot!MarkedAsUnpacked, Boot!file, Boot!unpacked, Boot!Undo
<1>7. CASE Boot!Tidy
  <2>1. /\ UNCHANGED <<bAfter, bCur, bTmp, bMem, bFirst, bUnread, bBuild, bCore, bMarker>>
        /\ bPc = "tidy" /\ bPc' \in {"off", "sources", "unpack"}
        /\ bOld' \in {bOld, Boot!Missing} /\ bSaved' = bMem
    BY <1>1, <1>7 DEF Boot!unpacked, Boot!Tidy
  <2>2. Boot!TypeOK'
    BY <2>1 DEF Boot!TypeOK
  <2>3. Boot!KeptSince'
    BY <2>1 DEF Boot!TypeOK, Boot!KeptSince, Boot!OnCard, Boot!Recent, Boot!SaveUnderWay
  <2>4. Boot!SaveUnderWay' /\ Boot!MarkedAsUnpacked'
    BY <2>1 DEF Boot!SaveUnderWay, Boot!MarkedAsUnpacked, Boot!TypeOK
  <2>5. QED  BY <2>2, <2>3, <2>4
<1>8. CASE Boot!Start
  BY <1>1, <1>8
     DEF Boot!TypeOK, Boot!Recent, Boot!OnCard, Boot!KeptSince, Boot!SaveUnderWay,
         Boot!MarkedAsUnpacked, Boot!file, Boot!unpacked, Boot!Start
<1>9. CASE Boot!Load
  <2>1. /\ UNCHANGED <<bAfter, bFirst, bBuild, bCore, bMarker, bSaved>> /\ bPc = "load"
        /\ \/ /\ bPc' = "migrate" /\ bTmp = Boot!Missing /\ bOld = Boot!Missing
              /\ UNCHANGED <<bCur, bOld, bTmp, bUnread>>
              /\ \/ bCur = Boot!Missing /\ bMem' = Boot!Nothing
                 \/ bCur # Boot!Missing /\ bMem' = bCur
           \/ /\ UNCHANGED <<bPc, bMem, bUnread>>
              /\ \/ /\ bCur = Boot!Missing /\ bOld # Boot!Missing
                    /\ bCur' = bOld /\ bOld' = Boot!Missing /\ UNCHANGED bTmp
                 \/ bTmp' = Boot!Missing /\ UNCHANGED <<bCur, bOld>>
                 \/ bCur # Boot!Missing /\ bOld' = Boot!Missing /\ UNCHANGED <<bCur, bTmp>>
           \/ bUnread' = TRUE /\ bPc' = "migrate" /\ UNCHANGED <<bCur, bOld, bTmp, bMem>>
    <3>1. UNCHANGED <<bAfter, bFirst, bBuild, bCore, bMarker, bSaved>> /\ bPc = "load"
      BY <1>9 DEF Boot!unpacked, Boot!Load
    <3>2. CASE Boot!Settled
      <4>1. bTmp = Boot!Missing /\ bOld = Boot!Missing
        BY <3>2 DEF Boot!Settled
      <4>2. bPc' = "migrate" /\ UNCHANGED <<bCur, bOld, bTmp, bUnread>>
        BY <1>9, <3>2 DEF Boot!Load, Boot!file
      <4>3. \/ bCur = Boot!Missing /\ bMem' = Boot!Nothing
            \/ bCur # Boot!Missing /\ bMem' = bCur
        BY <1>9, <3>2 DEF Boot!Load
      <4>4. QED  BY <3>1, <4>1, <4>2, <4>3
    <3>3. CASE ~Boot!Settled /\ Boot!RecoverStep /\ UNCHANGED <<bPc, bMem, bUnread>>
      BY <3>1, <3>3 DEF Boot!RecoverStep
    <3>4. CASE bUnread' = TRUE /\ bPc' = "migrate" /\ UNCHANGED <<Boot!file, bMem>>
      BY <3>1, <3>4 DEF Boot!file
    <3>5. QED  BY <1>9, <3>2, <3>3, <3>4 DEF Boot!Load
  <2>2. Boot!TypeOK'
    BY <2>1 DEF Boot!TypeOK
  <2>3. Boot!KeptSince'
    BY <2>1 DEF Boot!TypeOK, Boot!KeptSince, Boot!OnCard, Boot!Recent, Boot!SaveUnderWay
  <2>4. Boot!SaveUnderWay' /\ Boot!MarkedAsUnpacked'
    BY <2>1 DEF Boot!SaveUnderWay, Boot!MarkedAsUnpacked, Boot!TypeOK
  <2>5. QED  BY <2>2, <2>3, <2>4
<1>10. CASE Boot!Migrate
  <2>1. /\ UNCHANGED <<bAfter, bCur, bOld, bTmp, bFirst, bUnread, bBuild, bCore, bMarker, bSaved>>
        /\ bPc = "migrate" /\ bPc' \in {"setup", "off"}
        /\ bMem' \in Boot!Contents /\ bMem'.change = bMem.change
    <3>1. UNCHANGED <<bAfter, bCur, bOld, bTmp, bFirst, bUnread, bBuild, bCore, bMarker, bSaved>>
      BY <1>10 DEF Boot!file, Boot!unpacked, Boot!Migrate
    <3>2. /\ bPc = "migrate" /\ bPc' \in {"setup", "off"}
          /\ bMem' = [bMem EXCEPT !.version = 4]
      BY <1>10 DEF Boot!Migrate
    <3>3. bMem \in Boot!Contents
      BY DEF Boot!TypeOK
    <3>4. bMem' \in Boot!Contents /\ bMem'.change = bMem.change
      BY <3>2, <3>3, BootChanges
    <3>5. QED  BY <3>1, <3>2, <3>4
  <2>2. Boot!TypeOK'
    BY <2>1 DEF Boot!TypeOK
  <2>3. Boot!KeptSince'
    BY <2>1 DEF Boot!TypeOK, Boot!KeptSince, Boot!OnCard, Boot!Recent, Boot!SaveUnderWay
  <2>4. Boot!SaveUnderWay' /\ Boot!MarkedAsUnpacked'
    BY <2>1 DEF Boot!SaveUnderWay, Boot!MarkedAsUnpacked, Boot!TypeOK
  <2>5. QED  BY <2>2, <2>3, <2>4
<1>11. CASE Boot!Setup
  BY <1>1, <1>11, BootChanges
     DEF Boot!TypeOK, Boot!Recent, Boot!OnCard, Boot!KeptSince, Boot!SaveUnderWay,
         Boot!MarkedAsUnpacked, Boot!file, Boot!unpacked, Boot!Setup, Boot!Save
<1>12. CASE Boot!Change
  <2>1. /\ UNCHANGED <<bCur, bOld, bTmp, bFirst, bUnread, bBuild, bCore, bMarker, bSaved>>
        /\ bPc = "sources" /\ bPc' = "recover" /\ bAfter' = "sources"
        /\ bMem' \in Boot!Contents /\ bMem'.change = bMem.change + 1
    BY <1>12, BootChange DEF Boot!file, Boot!unpacked, Boot!Change, Boot!Save, Boot!TypeOK
  <2>2. Boot!TypeOK'
    BY <2>1 DEF Boot!TypeOK
  <2>3. Boot!KeptSince'
    BY <2>1 DEF Boot!TypeOK, Boot!KeptSince, Boot!OnCard, Boot!Recent, Boot!SaveUnderWay
  <2>4. Boot!SaveUnderWay' /\ Boot!MarkedAsUnpacked'
    BY <2>1 DEF Boot!SaveUnderWay, Boot!MarkedAsUnpacked, Boot!TypeOK
  <2>5. QED  BY <2>2, <2>3, <2>4
<1>13. CASE Boot!Leave
  BY <1>1, <1>13
     DEF Boot!TypeOK, Boot!Recent, Boot!OnCard, Boot!KeptSince, Boot!SaveUnderWay,
         Boot!MarkedAsUnpacked, Boot!file, Boot!unpacked, Boot!Leave, Boot!Save
<1>14. CASE Boot!Unpack
  BY <1>1, <1>14
     DEF Boot!TypeOK, Boot!Recent, Boot!OnCard, Boot!KeptSince, Boot!SaveUnderWay,
         Boot!MarkedAsUnpacked, Boot!file, Boot!unpacked, Boot!Unpack
<1>15. CASE Boot!Mark
  BY <1>1, <1>15
     DEF Boot!TypeOK, Boot!Recent, Boot!OnCard, Boot!KeptSince, Boot!SaveUnderWay,
         Boot!MarkedAsUnpacked, Boot!file, Boot!unpacked, Boot!Mark
<1>16. CASE Boot!Chain
  BY <1>1, <1>16
     DEF Boot!TypeOK, Boot!Recent, Boot!OnCard, Boot!KeptSince, Boot!SaveUnderWay,
         Boot!MarkedAsUnpacked, Boot!file, Boot!unpacked, Boot!Chain
<1>17. CASE Boot!GameEnds
  BY <1>1, <1>17
     DEF Boot!TypeOK, Boot!Recent, Boot!OnCard, Boot!KeptSince, Boot!SaveUnderWay,
         Boot!MarkedAsUnpacked, Boot!file, Boot!unpacked, Boot!GameEnds
<1>18. CASE Boot!Remove
  <2>1. Boot!NoBuild \in 0..Builds
    BY DEF Boot!NoBuild
  <2>2. QED
    BY <1>18, <2>1
       DEF Boot!TypeOK, Boot!Recent, Boot!OnCard, Boot!KeptSince, Boot!SaveUnderWay,
           Boot!MarkedAsUnpacked, Boot!file, Boot!unpacked, Boot!Remove
<1>19. CASE Boot!PowerCut
  BY <1>1, <1>19
     DEF Boot!TypeOK, Boot!Recent, Boot!OnCard, Boot!KeptSince, Boot!SaveUnderWay,
         Boot!MarkedAsUnpacked, Boot!file, Boot!unpacked, Boot!PowerCut
<1>20. QED
  BY <1>2, <1>3, <1>4, <1>5, <1>6, <1>7, <1>8, <1>9, <1>10, <1>11, <1>12, <1>13, <1>14,
     <1>15, <1>16, <1>17, <1>18, <1>19
     DEF Boot!Next, Boot!Saving, Boot!Startup, Boot!Launch

(* The invariant says more than RestartsWhole.                              *)
LEMMA BootSafe == Boot!IInv => Boot!RestartsWhole
  BY BootContents, MaxChangesAssumption
     DEF Boot!IInv, Boot!TypeOK, Boot!KeptSince, Boot!Recent, Boot!MarkedAsUnpacked,
         Boot!RestartsWhole, Boot!SavedIsRecovered, Boot!ChainedWithOwnFiles

(* The invariant is about the variables alone.                              *)
LEMMA BootStutter == Boot!IInv /\ UNCHANGED Boot!vars => Boot!IInv'
  BY DEF Boot!vars, Boot!file, Boot!unpacked, Boot!IInv, Boot!TypeOK, Boot!Recent,
         Boot!OnCard, Boot!KeptSince, Boot!SaveUnderWay, Boot!MarkedAsUnpacked

HIDE DEF bPc, bAfter, bCur, bOld, bTmp, bMem, bFirst, bUnread, bBuild, bCore, bMarker,
         bSaved

--------------------------------------------------------------------------------
(* Screens: no option that was changed is left unsaved when the grid is shown.    *)

cStack == v1
cExit == v2
cActive == v3
cGlobal == v4
cDisk == v5
cFailed == v6
cOwn == v8
cOlder == v9
cMeant == v10

USE DEF cStack, cExit, cActive, cGlobal, cDisk, cFailed, cOwn, cOlder, cMeant

(* The stack of loops after one was started, and after the last returned.   *)
LEMMA Pushed ==
  ASSUME Screens!TypeOK, NEW s \in Screens!Screen, Screens!Push(s)
  PROVE  /\ cStack' \in Seq(Screens!Screen) /\ Len(cStack') = Len(cStack) + 1 /\ Len(cStack) \in Nat
         /\ \A i \in 1 .. Len(cStack) : cStack'[i] = cStack[i]
         /\ cStack'[Len(cStack) + 1] = s
  BY DEF Screens!Push, Screens!TypeOK

LEMMA Popped ==
  ASSUME Screens!TypeOK, ~Screens!Closed, Screens!Pop
  PROVE  /\ cStack' \in Seq(Screens!Screen) /\ Len(cStack') = Len(cStack) - 1
         /\ Len(cStack) \in Nat /\ Len(cStack) # 0
         /\ \A i \in 1 .. Len(cStack) - 1 : cStack'[i] = cStack[i]
<1>1. cStack \in Seq(Screens!Screen) /\ cStack # <<>> /\ Len(cStack) \in Nat \ {0}
  BY DEF Screens!TypeOK, Screens!Closed
<1>2. PICK n \in Nat : n = Len(cStack) - 1
  BY <1>1
<1>3. \A i \in 1 .. n : cStack[i] \in Screens!Screen
  BY <1>1, <1>2
<1>4. /\ SubSeq(cStack, 1, n) \in Seq(Screens!Screen)
      /\ Len(SubSeq(cStack, 1, n)) = n
      /\ \A i \in 1 .. n : SubSeq(cStack, 1, n)[i] = cStack[i]
  BY <1>1, <1>2
<1>5. cStack' = SubSeq(cStack, 1, n)
  BY <1>2 DEF Screens!Pop
<1>6. QED  BY <1>1, <1>2, <1>4, <1>5

(* Where the loop that runs can be.                                         *)
LEMMA Places ==
  ASSUME Screens!TypeOK, Screens!WellNested, ~Screens!Closed
  PROVE  \E n \in Nat \ {0} :
           /\ n = Len(cStack) /\ Screens!Top \in Screens!Screen /\ Screens!Top = cStack[n]
           /\ n = 1 => Screens!Top = "grid"
           /\ n > 1 => cStack[2] \in {"root", "filter", "menu"} /\ cStack[1] = "grid"
           /\ n > 2 => Screens!Above(n)
           /\ n > 3 => Screens!Above(n - 1) /\ Screens!Below = cStack[n - 1]
           /\ n = 3 => Screens!Below = cStack[2]
<1>1. cStack \in Seq(Screens!Screen) /\ cStack # <<>> /\ Len(cStack) \in Nat \ {0}
  BY DEF Screens!TypeOK, Screens!Closed
<1>2. PICK n \in Nat \ {0} : n = Len(cStack)
  BY <1>1
<1>3. Screens!Top \in Screens!Screen /\ Screens!Top = cStack[n]
  BY <1>1, <1>2 DEF Screens!Top
<1>4. cStack[1] = "grid" /\ (n > 1 => cStack[2] \in {"root", "filter", "menu"})
      /\ \A i \in 3 .. n : Screens!Above(i)
  BY <1>2 DEF Screens!WellNested
<1>5. Screens!Below = cStack[n - 1]
  BY <1>2 DEF Screens!Below
<1>6. (n > 2 => n \in 3 .. n) /\ (n > 3 => n - 1 \in 3 .. n) /\ (n = 3 => n - 1 = 2)
  OBVIOUS
<1>7. QED  BY <1>2, <1>3, <1>4, <1>5, <1>6

LEMMA Depths ==
  ASSUME Screens!TypeOK, Screens!WellNested, ~Screens!Closed
  PROVE  \E n \in Nat \ {0} : Screens!Standing(n)
<1>1. PICK n \in Nat \ {0} :
           /\ n = Len(cStack) /\ Screens!Top \in Screens!Screen /\ Screens!Top = cStack[n]
           /\ n = 1 => Screens!Top = "grid"
           /\ n > 1 => cStack[2] \in {"root", "filter", "menu"} /\ cStack[1] = "grid"
           /\ n > 2 => Screens!Above(n)
           /\ n > 3 => Screens!Above(n - 1) /\ Screens!Below = cStack[n - 1]
           /\ n = 3 => Screens!Below = cStack[2]
  BY Places
<1>2. n = 1 \/ n = 2 \/ n > 2
  OBVIOUS
<1>3. n > 2 => /\ Screens!Top \notin Screens!Base
               /\ Screens!Top = "gameroot" => n = 3 /\ cStack[2] = "menu"
  BY <1>1
     DEF Screens!Above, Screens!SettingsScreen, Screens!FilterScreen, Screens!MenuScreen,
         Screens!GameScreen, Screens!Base
<1>4. /\ n = 1 => Screens!Top = "grid"
      /\ n = 2 => Screens!Top = cStack[2] /\ Screens!Top \in {"root", "filter", "menu"}
  <2>1. CASE n = 2
    <3>1. Screens!Top = cStack[2] /\ cStack[2] \in {"root", "filter", "menu"}
      BY <1>1, <2>1
    <3>2. QED  BY <2>1, <3>1
  <2>2. CASE n # 2
    BY <1>1, <2>2
  <2>3. QED  BY <2>1, <2>2
<1>5. Screens!Top = "grid" => n = 1
  BY <1>2, <1>3, <1>4 DEF Screens!Base
<1>6. Screens!Top \in {"root", "filter", "menu"} => n = 2 /\ cStack[2] = Screens!Top
  BY <1>2, <1>3, <1>4 DEF Screens!Base
<1>7. Screens!Top \notin Screens!Base => n > 2
  BY <1>2, <1>4 DEF Screens!Base
<1>8. Screens!Top = "gameroot" => n = 3 /\ cStack[2] = "menu"
  BY <1>3, <1>7 DEF Screens!Base
<1>9. n > 2 /\ Screens!Below \notin Screens!Base => n > 3
  <2>1. n = 3 => Screens!Below \in Screens!Base
    BY <1>1 DEF Screens!Base
  <2>2. QED  BY <2>1
<1>10. QED  BY <1>1, <1>5, <1>6, <1>7, <1>8, <1>9 DEF Screens!Standing

(* A step that leaves the loops below where they are.                       *)
LEMMA StayInv ==
  ASSUME Screens!IInv,
         \/ cStack' = cStack
         \/ /\ ~Screens!Closed /\ Screens!Pop
            /\ Screens!Top \notin Screens!Base /\ Screens!Top # "gameroot",
         cActive' = cActive, cExit' \in BOOLEAN,
         cGlobal' \in Screens!Store, cDisk' \in Screens!Store, cFailed' \in BOOLEAN,
         cDisk'.options = cGlobal'.options \/ cFailed' \/ Screens!InSettings,
         Screens!MeantIsUsed'
  PROVE  Screens!IInv'
<1>1. CASE cStack' = cStack
  BY <1>1
     DEF Screens!IInv, Screens!TypeOK, Screens!WellNested, Screens!Closed, Screens!Above,
         Screens!ActiveStore, Screens!SavedOrOpen, Screens!InSettings
<1>2. CASE /\ ~Screens!Closed /\ Screens!Pop
           /\ Screens!Top \notin Screens!Base /\ Screens!Top # "gameroot"
  <2> PICK n \in Nat \ {0} : Screens!Standing(n)
    BY <1>2, Depths DEF Screens!IInv
  <2>a. n = Len(cStack) /\ n > 2 /\ cStack[n] = Screens!Top
        /\ cStack[1] = "grid" /\ cStack[2] \in {"root", "filter", "menu"}
    BY <1>2 DEF Screens!Standing
  <2>1. /\ cStack' \in Seq(Screens!Screen) /\ Len(cStack') = n - 1
        /\ \A i \in 1 .. n - 1 : cStack'[i] = cStack[i]
    BY <1>2, <2>a, Popped DEF Screens!IInv
  <2>2. cStack'[1] = cStack[1] /\ cStack'[2] = cStack[2]
    BY <2>1, <2>a
  <2>3. n > 3 => cStack'[3] = cStack[3]
    BY <2>1
  <2>4. n = 3 => cStack[3] # "gameroot"
    BY <1>2, <2>a
  <2>5. Screens!WellNested'
    <3>1. ASSUME NEW i \in 3 .. n - 1 PROVE Screens!Above(i)'
      <4>1. i \in 3 .. n /\ n > 3 /\ cStack'[i] = cStack[i]
        BY <2>1
      <4>2. Screens!Above(i)
        BY <2>a, <4>1 DEF Screens!IInv, Screens!WellNested
      <4>3. QED  BY <4>1, <4>2, <2>2, <2>3 DEF Screens!Above
    <3>2. QED  BY <2>a, <2>1, <3>1, <2>2 DEF Screens!WellNested
  <2>6. Screens!ActiveStore'
    <3>1. CASE n = 3
      BY <2>a, <2>1, <2>4, <3>1 DEF Screens!IInv, Screens!ActiveStore
    <3>2. CASE n > 3
      BY <2>a, <2>1, <2>3, <3>2 DEF Screens!IInv, Screens!ActiveStore
    <3>3. QED  BY <2>a, <3>1, <3>2
  <2>7. Screens!SavedOrOpen'
    BY <2>a, <2>1, <2>2 DEF Screens!SavedOrOpen, Screens!InSettings
  <2>8. QED  BY <2>1, <2>5, <2>6, <2>7 DEF Screens!IInv, Screens!TypeOK
<1>3. QED  BY <1>1, <1>2

(* A change of the store the page edits: a global option only in the settings. *)
LEMMA OptionSet ==
  ASSUME Screens!IInv, Screens!SetOption
  PROVE  /\ cGlobal' \in Screens!Store
         /\ cActive = "game" => cGlobal' = cGlobal
  BY DEF Screens!IInv, Screens!TypeOK, Screens!SetOption, Screens!Changed, Screens!Store

LEMMA SaveGives ==
  ASSUME Screens!IInv, cGlobal' \in Screens!Store, Screens!SaveGlobal
  PROVE  /\ cDisk' \in Screens!Store /\ cFailed' \in BOOLEAN
         /\ cDisk'.options = cGlobal'.options \/ cFailed'
  BY DEF Screens!IInv, Screens!TypeOK, Screens!SaveGlobal

(* A settings page is above the settings, or above those of the game.       *)
LEMMA PageAbove ==
  ASSUME Screens!IInv, NEW i \in Nat, i > 2, i <= Len(cStack), Screens!Above(i),
         cStack[i] \in {"page", "launcher", "layout", "sources", "library"}
  PROVE  cActive = "game" \/ Screens!InSettings
<1>1. Len(cStack) > 2
  BY DEF Screens!IInv, Screens!TypeOK
<1>2. cStack[2] = "root" \/ cStack[3] = "gameroot"
  BY DEF Screens!Above, Screens!FilterScreen, Screens!MenuScreen, Screens!SettingsScreen
<1>3. QED  BY <1>1, <1>2 DEF Screens!IInv, Screens!ActiveStore, Screens!InSettings

(* Only the settings have the folders of games and the launcher's own page.  *)
LEMMA SourcesAbove ==
  ASSUME Screens!IInv, NEW i \in Nat, i > 2, i <= Len(cStack), Screens!Above(i),
         cStack[i] = "sources"
  PROVE  Screens!InSettings
<1>1. Len(cStack) > 2
  BY DEF Screens!IInv, Screens!TypeOK
<1>2. cStack[2] = "root"
  BY DEF Screens!Above, Screens!FilterScreen, Screens!MenuScreen, Screens!SettingsScreen,
         Screens!GameScreen
<1>3. QED  BY <1>1, <1>2 DEF Screens!InSettings

LEMMA ScreensInit == Screens!Init => Screens!IInv
<1> SUFFICES ASSUME Screens!Init PROVE Screens!IInv
  OBVIOUS
<1>1. cStack = <<"grid">> /\ Len(cStack) = 1 /\ cStack[1] = "grid"
  BY DEF Screens!Init
<1>2. cStack \in Seq(Screens!Screen)
  BY <1>1 DEF Screens!Screen
<1>3. Screens!TypeOK
  <2>1. cGlobal \in Screens!Store
    BY DEF Screens!Init, Screens!Store
  <2>2. QED  BY <1>2, <2>1 DEF Screens!Init, Screens!TypeOK
<1>4. Screens!WellNested /\ Screens!ActiveStore /\ Screens!SavedOrOpen
  BY <1>1 DEF Screens!Init, Screens!WellNested, Screens!ActiveStore, Screens!SavedOrOpen
<1>5. QED  BY <1>3, <1>4 DEF Screens!Init, Screens!IInv, Screens!MeantIsUsed

(* A loop is started.                                                       *)
LEMMA PushInv ==
  ASSUME Screens!IInv, NEW s \in Screens!Screen, Screens!Push(s), ~Screens!Closed,
         NEW m \in Nat, m = Len(cStack), m > 0,
         m = 1 => s \in {"root", "filter", "menu"},
         m > 1 => Screens!Above(m + 1)',
         cActive' = IF s = "gameroot" THEN "game" ELSE cActive,
         s = "gameroot" => m = 2,
         cGlobal' \in Screens!Store, cGlobal'.options = cGlobal.options,
         UNCHANGED <<cExit, Screens!file>>, Screens!MeantIsUsed'
  PROVE  Screens!IInv'
<1>1. /\ cStack' \in Seq(Screens!Screen) /\ Len(cStack') = m + 1
      /\ \A i \in 1 .. m : cStack'[i] = cStack[i]
      /\ cStack'[m + 1] = s
  BY Pushed DEF Screens!IInv
<1>2. Screens!TypeOK'
  BY <1>1 DEF Screens!IInv, Screens!TypeOK, Screens!file
<1>3. Screens!WellNested'
  <2>1. cStack'[1] = "grid"
    BY <1>1 DEF Screens!IInv, Screens!WellNested
  <2>2. cStack'[2] \in {"root", "filter", "menu"}
    <3>1. CASE m = 1
      BY <1>1, <3>1
    <3>2. CASE m > 1
      <4>1. cStack'[2] = cStack[2]
        BY <1>1, <3>2
      <4>2. QED  BY <3>2, <4>1 DEF Screens!IInv, Screens!WellNested
    <3>3. QED  BY <3>1, <3>2
  <2>3. ASSUME NEW i \in 3 .. m + 1 PROVE Screens!Above(i)'
    <3>1. CASE i = m + 1
      BY <3>1
    <3>2. CASE i # m + 1
      <4>1. i \in 3 .. m /\ m > 2
        BY <3>2
      <4>2. cStack'[i] = cStack[i] /\ cStack'[2] = cStack[2] /\ cStack'[3] = cStack[3]
        BY <1>1, <4>1
      <4>3. Screens!Above(i)
        BY <4>1 DEF Screens!IInv, Screens!WellNested
      <4>4. QED  BY <4>2, <4>3 DEF Screens!Above
    <3>3. QED  BY <3>1, <3>2
  <2>4. QED  BY <1>1, <2>1, <2>2, <2>3 DEF Screens!WellNested
<1>4. Screens!ActiveStore'
  <2>1. CASE m > 2
    <3>1. cStack'[3] = cStack[3] /\ Len(cStack') > 2 /\ cActive' = cActive
      BY <1>1, <2>1
    <3>2. QED  BY <2>1, <3>1 DEF Screens!IInv, Screens!ActiveStore
  <2>2. CASE m = 2
    <3>1. cStack'[3] = s /\ Len(cStack') > 2 /\ cActive = "global"
      BY <1>1, <2>2 DEF Screens!IInv, Screens!ActiveStore
    <3>2. QED  BY <3>1 DEF Screens!ActiveStore
  <2>3. CASE m = 1
    <3>1. s # "gameroot" /\ ~(Len(cStack') > 2) /\ cActive = "global"
      BY <1>1, <2>3 DEF Screens!IInv, Screens!ActiveStore
    <3>2. QED  BY <3>1 DEF Screens!ActiveStore
  <2>4. QED  BY <2>1, <2>2, <2>3
<1>5. Screens!SavedOrOpen'
  <2>1. Screens!InSettings => Screens!InSettings'
    <3> SUFFICES ASSUME Screens!InSettings PROVE Screens!InSettings'
      OBVIOUS
    <3>1. m > 1 /\ cStack[2] = "root"
      BY DEF Screens!InSettings
    <3>2. Len(cStack') > 1 /\ cStack'[2] = cStack[2]
      BY <1>1, <3>1
    <3>3. QED  BY <3>1, <3>2 DEF Screens!InSettings
  <2>2. QED  BY <2>1 DEF Screens!IInv, Screens!SavedOrOpen, Screens!file
<1>6. QED  BY <1>2, <1>3, <1>4, <1>5 DEF Screens!IInv

(* What each loop may start is what may be above it.                        *)
LEMMA OpenInv ==
  ASSUME Screens!IInv, NEW s, Screens!Open(s)
  PROVE  Screens!IInv'
<1>1. s \in Screens!Children(Screens!Top) /\ Screens!Push(s) /\ ~Screens!Closed
      /\ UNCHANGED <<cExit, cActive, Screens!file, Screens!profile>>
  BY DEF Screens!Open
<1> PICK n \in Nat \ {0} : Screens!Standing(n)
  BY <1>1, Depths DEF Screens!IInv
<1>2. n = Len(cStack) /\ Screens!Top \in Screens!Screen /\ Screens!Top = cStack[n]
  BY DEF Screens!Standing
<1>3. s \in Screens!Screen /\ s # "gameroot"
  BY <1>1
     DEF Screens!Children, Screens!Screen, Screens!SettingsScreen, Screens!FilterScreen,
         Screens!MenuScreen, Screens!GameScreen
<1>4. cGlobal' \in Screens!Store /\ cGlobal'.options = cGlobal.options
  <2>1. /\ Screens!Normalized(cGlobal) \in Screens!Store
        /\ Screens!Normalized(cGlobal).options = cGlobal.options
    BY DEF Screens!IInv, Screens!TypeOK, Screens!Normalized, Screens!Store
  <2>2. cGlobal' = cGlobal \/ cGlobal' = Screens!Normalized(cGlobal)
    BY DEF Screens!Open
  <2>3. QED  BY <2>1, <2>2 DEF Screens!IInv, Screens!TypeOK
<1>5. Screens!MeantIsUsed'
  BY <1>1 DEF Screens!IInv, Screens!MeantIsUsed, Screens!Picked, Screens!profile
<1>6. n = 1 => s \in {"root", "filter", "menu"}
  <2>1. n = 1 => Screens!Top = "grid"
    BY DEF Screens!Standing, Screens!Base
  <2>2. QED  BY <1>1, <2>1 DEF Screens!Children
<1>7. n > 1 => Screens!Above(n + 1)'
  <2> SUFFICES ASSUME n > 1 PROVE Screens!Above(n + 1)'
    OBVIOUS
  <2>1. cStack'[n + 1] = s /\ \A i \in 1 .. n : cStack'[i] = cStack[i]
    BY <1>1, <1>2, <1>3, Pushed DEF Screens!IInv
  <2>2. CASE n = 2
    <3>1. /\ cStack'[2] = Screens!Top /\ cStack'[3] = s
          /\ Screens!Top \in {"root", "filter", "menu"}
      BY <1>2, <2>1, <2>2 DEF Screens!Standing
    <3>2. CASE Screens!Top = "root"
      <4>1. s \in Screens!SettingsScreen
        BY <1>1, <3>2 DEF Screens!Children, Screens!SettingsScreen
      <4>2. QED  BY <2>2, <3>1, <3>2, <4>1 DEF Screens!Above
    <3>3. CASE Screens!Top = "filter"
      <4>1. s \in Screens!FilterScreen
        BY <1>1, <3>3 DEF Screens!Children, Screens!FilterScreen
      <4>2. QED  BY <2>2, <3>1, <3>3, <4>1 DEF Screens!Above
    <3>4. CASE Screens!Top = "menu"
      <4>1. s \in Screens!MenuScreen
        BY <1>1, <3>4 DEF Screens!Children, Screens!MenuScreen
      <4>2. QED  BY <1>3, <2>2, <3>1, <3>4, <4>1 DEF Screens!Above
    <3>5. QED  BY <3>1, <3>2, <3>3, <3>4
  <2>3. CASE n > 2
    <3>1. cStack'[2] = cStack[2] /\ cStack'[3] = cStack[3] /\ cStack'[n + 1] = s
      BY <2>1, <2>3
    <3>2. Screens!Above(n)
      BY <2>3 DEF Screens!Standing, Screens!Base
    <3>3. CASE cStack[2] = "root" /\ Screens!Top \in Screens!SettingsScreen
      <4>1. s \in Screens!SettingsScreen
        BY <1>1, <3>3 DEF Screens!Children, Screens!SettingsScreen
      <4>2. QED  BY <3>1, <3>3, <4>1 DEF Screens!Above
    <3>4. CASE cStack[2] = "filter" /\ Screens!Top \in Screens!FilterScreen
      <4>1. s \in Screens!FilterScreen
        BY <1>1, <3>4 DEF Screens!Children, Screens!FilterScreen
      <4>2. QED  BY <3>1, <3>4, <4>1 DEF Screens!Above
    <3>5. CASE /\ cStack[2] = "menu" /\ cStack[3] # "gameroot"
               /\ Screens!Top \in Screens!MenuScreen
      <4>1. s \in Screens!MenuScreen
        BY <1>1, <3>5 DEF Screens!Children, Screens!MenuScreen
      <4>2. QED  BY <3>1, <3>5, <4>1 DEF Screens!Above
    <3>6. CASE /\ cStack[2] = "menu" /\ cStack[3] = "gameroot"
               /\ n = 3 \/ Screens!Top \in Screens!GameScreen
      <4>1. Screens!Top = "gameroot" \/ Screens!Top \in Screens!GameScreen
        BY <1>2, <3>6
      <4>2. s \in Screens!GameScreen
        BY <1>1, <4>1 DEF Screens!Children, Screens!GameScreen
      <4>3. QED  BY <3>1, <3>6, <4>2 DEF Screens!Above
    <3>7. QED  BY <1>2, <3>2, <3>3, <3>4, <3>5, <3>6 DEF Screens!Above
  <2>4. QED  BY <2>2, <2>3
<1>8. cActive' = IF s = "gameroot" THEN "game" ELSE cActive
  BY <1>1, <1>3
<1>9. n \in Nat /\ n > 0 /\ UNCHANGED <<cExit, Screens!file>>
  BY <1>1
<1>10. QED
  BY <1>1, <1>2, <1>3, <1>4, <1>5, <1>6, <1>7, <1>8, <1>9, PushInv

LEMMA EnterInv ==
  ASSUME Screens!IInv, Screens!OpenSettings \/ Screens!OpenMenu \/ Screens!OpenGameSettings
  PROVE  Screens!IInv'
<1>1. ~Screens!Closed
  BY DEF Screens!OpenSettings, Screens!OpenMenu, Screens!OpenGameSettings, Screens!On
<1> PICK n \in Nat \ {0} : Screens!Standing(n)
  BY <1>1, Depths DEF Screens!IInv
<1>2. n \in Nat /\ n > 0 /\ n = Len(cStack) /\ cGlobal \in Screens!Store
  BY DEF Screens!IInv, Screens!TypeOK, Screens!Standing
<1>3. Screens!MeantIsUsed'
  BY DEF Screens!IInv, Screens!MeantIsUsed, Screens!Picked, Screens!OpenSettings,
         Screens!OpenMenu, Screens!OpenGameSettings, Screens!profile
<1>4. CASE Screens!OpenSettings \/ Screens!OpenMenu
  <2>1. PICK s \in {"root", "menu"} : Screens!Push(s)
    BY <1>4 DEF Screens!OpenSettings, Screens!OpenMenu
  <2>2. /\ Screens!Top = "grid" /\ UNCHANGED <<cExit, Screens!file, cGlobal>>
        /\ cActive' \in {cActive, "global"}
    BY <1>4 DEF Screens!OpenSettings, Screens!OpenMenu, Screens!On
  <2>3. n = 1
    BY <2>2 DEF Screens!Standing
  <2>4. cActive = "global"
    BY <1>2, <2>3 DEF Screens!IInv, Screens!ActiveStore
  <2>5. s \in Screens!Screen /\ s # "gameroot" /\ s \in {"root", "filter", "menu"}
    BY DEF Screens!Screen
  <2>6. cActive' = IF s = "gameroot" THEN "game" ELSE cActive
    BY <2>2, <2>4, <2>5
  <2>7. QED  BY <1>1, <1>2, <1>3, <2>1, <2>2, <2>3, <2>5, <2>6, PushInv
<1>5. CASE Screens!OpenGameSettings
  <2>1. /\ Screens!Push("gameroot") /\ cActive' = "game"
        /\ UNCHANGED <<cExit, Screens!file, cGlobal>>
        /\ Screens!Top = "menu"
    BY <1>5 DEF Screens!OpenGameSettings, Screens!On
  <2>2. n = 2 /\ cStack[2] = "menu"
    BY <2>1 DEF Screens!Standing
  <2>3. "gameroot" \in Screens!Screen
    BY DEF Screens!Screen
  <2>4. cStack'[2] = "menu" /\ cStack'[3] = "gameroot"
    BY <1>2, <2>1, <2>2, <2>3, Pushed DEF Screens!IInv
  <2>5. Screens!Above(3)' /\ n + 1 = 3
    BY <2>2, <2>4 DEF Screens!Above
  <2>6. QED  BY <1>1, <1>2, <1>3, <2>1, <2>2, <2>3, <2>5, PushInv
<1>6. QED  BY <1>4, <1>5

(* Options are changed on the pages, and saved at once elsewhere.           *)
LEMMA PageInv ==
  ASSUME Screens!IInv, Screens!Adjust \/ Screens!Choose \/ Screens!SaveLayout
  PROVE  Screens!IInv'
<1>1. /\ Screens!SetOption /\ ~Screens!Closed
      /\ UNCHANGED <<cExit, cActive, cOwn, cOlder, cMeant>>
  BY DEF Screens!Adjust, Screens!Choose, Screens!SaveLayout, Screens!On, Screens!Return
<1> PICK n \in Nat \ {0} : Screens!Standing(n)
  BY <1>1, Depths DEF Screens!IInv
<1>2. /\ cGlobal' \in Screens!Store /\ (cActive = "game" => cGlobal' = cGlobal)
      /\ cActive \in {"global", "game"} /\ cExit' \in BOOLEAN
  BY <1>1, OptionSet DEF Screens!IInv, Screens!TypeOK
<1>3. Screens!MeantIsUsed'
  BY <1>1 DEF Screens!IInv, Screens!MeantIsUsed, Screens!Picked
<1>4. CASE Screens!Adjust
  <2>1. Screens!Top \in {"page", "launcher"} /\ UNCHANGED <<cStack, Screens!file>>
    BY <1>4 DEF Screens!Adjust, Screens!On
  <2>2. Screens!Top \notin Screens!Base
    BY <2>1 DEF Screens!Base
  <2>3. n > 2 /\ n <= Len(cStack) /\ Screens!Above(n) /\ cStack[n] = Screens!Top
    BY <2>2 DEF Screens!Standing
  <2>4. cActive = "game" \/ Screens!InSettings
    BY <2>1, <2>3, PageAbove
  <2>5. /\ cDisk' \in Screens!Store /\ cFailed' \in BOOLEAN
        /\ cDisk'.options = cGlobal'.options \/ cFailed' \/ Screens!InSettings
    BY <1>2, <2>1, <2>4 DEF Screens!IInv, Screens!TypeOK, Screens!SavedOrOpen, Screens!file
  <2>6. QED  BY <1>1, <1>2, <1>3, <2>1, <2>5, StayInv
<1>5. CASE Screens!Choose
  <2>1. /\ Screens!Top = "popup" /\ Screens!Pop /\ Screens!Below \in {"page", "launcher"}
        /\ UNCHANGED Screens!file
    BY <1>5 DEF Screens!Choose, Screens!Return, Screens!On
  <2>2. /\ Screens!Top \notin Screens!Base /\ Screens!Below \notin Screens!Base
        /\ Screens!Top # "gameroot"
    BY <2>1 DEF Screens!Base
  <2>3. /\ n - 1 > 2 /\ n - 1 <= Len(cStack) /\ Screens!Above(n - 1)
        /\ cStack[n - 1] = Screens!Below /\ n - 1 \in Nat
    BY <2>2 DEF Screens!Standing
  <2>4. cActive = "game" \/ Screens!InSettings
    BY <2>1, <2>3, PageAbove
  <2>5. /\ cDisk' \in Screens!Store /\ cFailed' \in BOOLEAN
        /\ cDisk'.options = cGlobal'.options \/ cFailed' \/ Screens!InSettings
    BY <1>2, <2>1, <2>4 DEF Screens!IInv, Screens!TypeOK, Screens!SavedOrOpen, Screens!file
  <2>6. QED  BY <1>1, <1>2, <1>3, <2>1, <2>2, <2>5, StayInv
<1>6. CASE Screens!SaveLayout
  <2>1. Screens!Top \notin Screens!Base /\ Screens!Top # "gameroot" /\ Screens!Pop
    BY <1>6 DEF Screens!SaveLayout, Screens!Return, Screens!On, Screens!Base
  <2>2. CASE cActive = "global"
    <3>1. Screens!SaveGlobal
      BY <1>6, <2>2 DEF Screens!SaveLayout
    <3>2. QED  BY <1>1, <1>2, <1>3, <2>1, <3>1, SaveGives, StayInv
  <2>3. CASE cActive = "game"
    <3>1. UNCHANGED Screens!file /\ cGlobal' = cGlobal
      BY <1>2, <1>6, <2>3 DEF Screens!SaveLayout
    <3>2. /\ cDisk' \in Screens!Store /\ cFailed' \in BOOLEAN
          /\ cDisk'.options = cGlobal'.options \/ cFailed' \/ Screens!InSettings
      BY <3>1 DEF Screens!IInv, Screens!TypeOK, Screens!SavedOrOpen, Screens!file
    <3>3. QED  BY <1>1, <1>2, <1>3, <2>1, <3>2, StayInv
  <2>4. QED  BY <1>2, <2>2, <2>3
<1>7. QED  BY <1>4, <1>5, <1>6

LEMMA SavesInv ==
  ASSUME Screens!IInv, Screens!SetAccountKey \/ Screens!Organize
  PROVE  Screens!IInv'
<1>1. /\ cGlobal' = Screens!Changed(cGlobal) /\ Screens!SaveGlobal /\ ~Screens!Closed
      /\ UNCHANGED <<cExit, cActive, Screens!profile>>
  BY DEF Screens!SetAccountKey, Screens!Organize, Screens!Return, Screens!On
<1>2. cGlobal' \in Screens!Store /\ cExit' \in BOOLEAN
  BY <1>1 DEF Screens!IInv, Screens!TypeOK, Screens!Changed, Screens!Store
<1>3. Screens!MeantIsUsed'
  BY <1>1 DEF Screens!IInv, Screens!MeantIsUsed, Screens!Picked, Screens!profile
<1>4. cStack' = cStack \/ (Screens!Pop /\ Screens!Top \in {"popup", "confirm"})
  BY DEF Screens!SetAccountKey, Screens!Organize, Screens!Return, Screens!On
<1>5. Screens!Top \in {"popup", "confirm"}
      => Screens!Top \notin Screens!Base /\ Screens!Top # "gameroot"
  BY DEF Screens!Base
<1>6. QED  BY <1>1, <1>2, <1>3, <1>4, <1>5, SaveGives, StayInv

LEMMA FoldersInv ==
  ASSUME Screens!IInv, Screens!EditFolders
  PROVE  Screens!IInv'
<1>1. /\ cGlobal' = Screens!Changed(cGlobal) /\ ~Screens!Closed
      /\ UNCHANGED <<cExit, cActive, Screens!file, Screens!profile>>
  BY DEF Screens!EditFolders, Screens!Return, Screens!On
<1> PICK n \in Nat \ {0} : Screens!Standing(n)
  BY <1>1, Depths DEF Screens!IInv
<1>2. /\ cGlobal' \in Screens!Store /\ cExit' \in BOOLEAN /\ cDisk' \in Screens!Store
      /\ cFailed' \in BOOLEAN
  BY <1>1 DEF Screens!IInv, Screens!TypeOK, Screens!Changed, Screens!Store, Screens!file
<1>3. Screens!MeantIsUsed'
  BY <1>1 DEF Screens!IInv, Screens!MeantIsUsed, Screens!Picked, Screens!profile
<1>4. CASE Screens!Top = "sources" /\ cStack' = cStack
  <2>1. Screens!Top \notin Screens!Base
    BY <1>4 DEF Screens!Base
  <2>2. n > 2 /\ n <= Len(cStack) /\ Screens!Above(n) /\ cStack[n] = "sources"
    BY <1>4, <2>1 DEF Screens!Standing
  <2>3. Screens!InSettings
    BY <2>2, SourcesAbove
  <2>4. QED  BY <1>1, <1>2, <1>3, <1>4, <2>3, StayInv
<1>5. CASE /\ Screens!Top \in {"confirm", "tool"} /\ Screens!Pop
           /\ Screens!Below = "sources"
  <2>1. /\ Screens!Top \notin Screens!Base /\ Screens!Below \notin Screens!Base
        /\ Screens!Top # "gameroot"
    BY <1>5 DEF Screens!Base
  <2>2. /\ n - 1 > 2 /\ n - 1 <= Len(cStack) /\ Screens!Above(n - 1)
        /\ cStack[n - 1] = "sources"
        /\ n - 1 \in Nat
    BY <1>5, <2>1 DEF Screens!Standing
  <2>3. Screens!InSettings
    BY <2>2, SourcesAbove
  <2>4. QED  BY <1>1, <1>2, <1>3, <1>5, <2>1, <2>3, StayInv
<1>6. QED  BY <1>4, <1>5 DEF Screens!EditFolders, Screens!Return, Screens!On

(* A loop over the grid returns to it.                                      *)
LEMMA Uncovered ==
  ASSUME Screens!IInv, ~Screens!Closed, Screens!Pop,
         Screens!Top \in {"root", "filter", "menu"}
  PROVE  /\ cStack' \in Seq(Screens!Screen) /\ Len(cStack') = 1 /\ cStack'[1] = "grid"
         /\ cActive = "global" /\ ~Screens!InSettings'
         /\ (Screens!InSettings => Screens!Top = "root")
<1> PICK n \in Nat \ {0} : Screens!Standing(n)
  BY Depths DEF Screens!IInv
<1>1. n = 2 /\ n = Len(cStack) /\ cStack[2] = Screens!Top /\ cStack[1] = "grid"
  BY DEF Screens!Standing
<1>2. cStack' \in Seq(Screens!Screen) /\ Len(cStack') = 1 /\ cStack'[1] = cStack[1]
  <2>1. /\ cStack' \in Seq(Screens!Screen) /\ Len(cStack') = n - 1
        /\ \A i \in 1 .. n - 1 : cStack'[i] = cStack[i]
    BY <1>1, Popped DEF Screens!IInv
  <2>2. n - 1 = 1 /\ 1 \in 1 .. n - 1
    BY <1>1
  <2>3. Len(cStack') = 1
    BY <2>1, <2>2
  <2>4. cStack'[1] = cStack[1]
    BY <2>1, <2>2
  <2>5. QED  BY <2>1, <2>3, <2>4
<1>3. ~(Len(cStack) > 2)
  <2>1. ~(n > 2)
    BY <1>1
  <2>2. QED  BY <1>1, <2>1
<1>4. cActive = "global"
  BY <1>3 DEF Screens!IInv, Screens!ActiveStore
<1>5. ~Screens!InSettings'
  <2>1. ~(Len(cStack') > 1)
    BY <1>2
  <2>2. QED  BY <2>1 DEF Screens!InSettings
<1>6. Screens!InSettings => Screens!Top = "root"
  BY <1>1 DEF Screens!InSettings
<1>7. QED  BY <1>1, <1>2, <1>4, <1>5, <1>6

LEMMA GridShown ==
  ASSUME cStack' \in Seq(Screens!Screen), Len(cStack') = 1, cStack'[1] = "grid",
         cActive' = "global"
  PROVE  Screens!WellNested' /\ Screens!ActiveStore'
BY DEF Screens!WellNested, Screens!ActiveStore

(* The loops return.                                                        *)
LEMMA DismissInv ==
  ASSUME Screens!IInv, Screens!Dismiss
  PROVE  Screens!IInv'
<1>1. /\ ~Screens!Closed /\ Screens!Pop /\ Screens!Top \notin {"grid", "root", "gameroot"}
      /\ UNCHANGED <<cExit, cActive, cGlobal, Screens!file, Screens!profile>>
  BY DEF Screens!Dismiss, Screens!Return, Screens!On
<1>2. Screens!MeantIsUsed' /\ cExit' \in BOOLEAN
  BY <1>1
     DEF Screens!IInv, Screens!TypeOK, Screens!MeantIsUsed, Screens!Picked, Screens!profile
<1>3. /\ cGlobal' \in Screens!Store /\ cDisk' \in Screens!Store /\ cFailed' \in BOOLEAN
      /\ cDisk'.options = cGlobal'.options \/ cFailed' \/ Screens!InSettings
  BY <1>1 DEF Screens!IInv, Screens!TypeOK, Screens!SavedOrOpen, Screens!file
<1>4. CASE Screens!Top \notin Screens!Base
  BY <1>1, <1>2, <1>3, <1>4, StayInv
<1>5. CASE Screens!Top \in {"filter", "menu"}
  <2>1. /\ cStack' \in Seq(Screens!Screen) /\ Len(cStack') = 1 /\ cStack'[1] = "grid"
        /\ cActive' = "global" /\ ~Screens!InSettings
    BY <1>1, <1>5, Uncovered
  <2>2. QED
    BY <1>1, <1>2, <1>3, <2>1, GridShown
       DEF Screens!IInv, Screens!TypeOK, Screens!SavedOrOpen
<1>6. QED  BY <1>1, <1>4, <1>5 DEF Screens!Base

(* To the grid, with the options saved or as they were.                     *)
LEMMA GridInv ==
  ASSUME Screens!IInv,
         \/ Screens!LeaveLauncher \/ Screens!CloseSettings \/ Screens!Close
         \/ Screens!Select \/ Screens!RequestExit
  PROVE  Screens!IInv'
<1>1. UNCHANGED <<cGlobal, cOwn, cOlder, cMeant>> /\ cExit' \in BOOLEAN
  BY DEF Screens!IInv, Screens!TypeOK, Screens!LeaveLauncher, Screens!CloseSettings,
         Screens!Close, Screens!Select, Screens!RequestExit, Screens!profile
<1>2. Screens!MeantIsUsed' /\ cGlobal' \in Screens!Store
  BY <1>1 DEF Screens!IInv, Screens!TypeOK, Screens!MeantIsUsed, Screens!Picked
<1>3. CASE Screens!LeaveLauncher
  <2>1. /\ Screens!Pop /\ ~Screens!Closed /\ Screens!Top = "launcher" /\ Screens!SaveGlobal
        /\ cActive' = cActive
    BY <1>3 DEF Screens!LeaveLauncher, Screens!Return, Screens!On
  <2>2. Screens!Top \notin Screens!Base /\ Screens!Top # "gameroot"
    BY <2>1 DEF Screens!Base
  <2>3. QED  BY <1>1, <1>2, <2>1, <2>2, SaveGives, StayInv
<1>4. CASE Screens!CloseSettings
  <2>1. /\ Screens!Pop /\ ~Screens!Closed /\ Screens!Top = "root" /\ Screens!SaveGlobal
        /\ cActive' = cActive
    BY <1>4 DEF Screens!CloseSettings, Screens!Return, Screens!On
  <2>2. /\ cStack' \in Seq(Screens!Screen) /\ Len(cStack') = 1 /\ cStack'[1] = "grid"
        /\ cActive' = "global"
    BY <2>1, Uncovered
  <2>3. /\ cDisk' \in Screens!Store /\ cFailed' \in BOOLEAN
        /\ (cDisk'.options = cGlobal'.options \/ cFailed')
    BY <1>2, <2>1, SaveGives
  <2>4. QED
    BY <1>1, <1>2, <2>2, <2>3, GridShown
       DEF Screens!IInv, Screens!TypeOK, Screens!SavedOrOpen
<1>5. CASE Screens!Close
  <2>1. cStack' = <<>> /\ Screens!SaveGlobal /\ cActive' = "global"
    BY <1>5 DEF Screens!Close
  <2>2. /\ cDisk' \in Screens!Store /\ cFailed' \in BOOLEAN
        /\ (cDisk'.options = cGlobal'.options \/ cFailed')
    BY <1>2, <2>1, SaveGives
  <2>3. cStack' \in Seq(Screens!Screen) /\ Len(cStack') = 0
    BY <2>1
  <2>4. Screens!WellNested' /\ Screens!ActiveStore'
    BY <2>1, <2>3 DEF Screens!WellNested, Screens!ActiveStore, Screens!Closed
  <2>5. QED
    BY <1>1, <1>2, <2>1, <2>2, <2>3, <2>4
       DEF Screens!IInv, Screens!TypeOK, Screens!SavedOrOpen
<1>6. CASE Screens!Select
  <2>1. /\ ~Screens!Closed /\ Screens!Top \in {"grid", "menu"} /\ cStack' = <<"grid">>
        /\ UNCHANGED <<cActive, Screens!file>>
    BY <1>6 DEF Screens!Select, Screens!On
  <2> PICK n \in Nat \ {0} : Screens!Standing(n)
    BY <2>1, Depths DEF Screens!IInv
  <2>2. n = Len(cStack) /\ (n = 1 \/ (n = 2 /\ cStack[2] = "menu"))
    BY <2>1 DEF Screens!Standing
  <2>3. cActive = "global" /\ ~Screens!InSettings
    BY <2>2 DEF Screens!IInv, Screens!ActiveStore, Screens!InSettings
  <2>4. cStack' \in Seq(Screens!Screen) /\ Len(cStack') = 1 /\ cStack'[1] = "grid"
    BY <2>1 DEF Screens!Screen
  <2>5. /\ cDisk' \in Screens!Store /\ cFailed' \in BOOLEAN
        /\ cDisk'.options = cGlobal'.options \/ cFailed'
    BY <1>1, <2>1, <2>3 DEF Screens!IInv, Screens!TypeOK, Screens!SavedOrOpen, Screens!file
  <2>6. QED
    BY <1>1, <1>2, <2>1, <2>3, <2>4, <2>5, GridShown
       DEF Screens!IInv, Screens!TypeOK, Screens!SavedOrOpen
<1>7. CASE Screens!RequestExit
  <2>1. UNCHANGED <<cStack, cActive, Screens!file>>
    BY <1>7 DEF Screens!RequestExit
  <2>2. /\ cDisk' \in Screens!Store /\ cFailed' \in BOOLEAN
        /\ cDisk'.options = cGlobal'.options \/ cFailed' \/ Screens!InSettings
    BY <1>1, <2>1 DEF Screens!IInv, Screens!TypeOK, Screens!SavedOrOpen, Screens!file
  <2>3. QED  BY <1>1, <1>2, <2>1, <2>2, StayInv
<1>8. QED  BY <1>3, <1>4, <1>5, <1>6, <1>7

(* The settings of a game.                                                  *)
LEMMA GameInv ==
  ASSUME Screens!IInv,
         Screens!CloseGameSettings \/ Screens!ClearGameSettings \/ Screens!DeleteGame
  PROVE  Screens!IInv'
<1>1. /\ ~Screens!Closed /\ UNCHANGED <<cExit, cGlobal, Screens!file>>
      /\ cExit' \in BOOLEAN /\ cGlobal' \in Screens!Store /\ cDisk' \in Screens!Store
      /\ cFailed' \in BOOLEAN
      /\ cDisk'.options = cGlobal'.options \/ cFailed' \/ Screens!InSettings
  BY DEF Screens!IInv, Screens!TypeOK, Screens!SavedOrOpen, Screens!CloseGameSettings,
         Screens!ClearGameSettings, Screens!DeleteGame, Screens!Return, Screens!On,
         Screens!file
<1>2. Screens!MeantIsUsed'
  BY DEF Screens!IInv, Screens!MeantIsUsed, Screens!Picked, Screens!CloseGameSettings,
         Screens!ClearGameSettings, Screens!DeleteGame
<1>3. CASE Screens!ClearGameSettings
  <2>1. UNCHANGED <<cStack, cActive>>
    BY <1>3 DEF Screens!ClearGameSettings
  <2>2. QED  BY <1>1, <1>2, <2>1, StayInv
<1>4. CASE Screens!DeleteGame
  <2>1. /\ Screens!Pop /\ Screens!Top \notin Screens!Base /\ Screens!Top # "gameroot"
        /\ cActive' = cActive
    BY <1>4 DEF Screens!DeleteGame, Screens!Return, Screens!On, Screens!Base
  <2>2. QED  BY <1>1, <1>2, <2>1, StayInv
<1>5. CASE Screens!CloseGameSettings
  <2>1. Screens!Pop /\ Screens!Top = "gameroot" /\ cActive' = "global"
    BY <1>5 DEF Screens!CloseGameSettings, Screens!Return, Screens!On
  <2> PICK n \in Nat \ {0} : Screens!Standing(n)
    BY <1>1, Depths DEF Screens!IInv
  <2>2. n = Len(cStack) /\ n = 3 /\ cStack[2] = "menu" /\ cStack[1] = "grid"
    BY <2>1 DEF Screens!Standing
  <2>3. /\ cStack' \in Seq(Screens!Screen) /\ Len(cStack') = 2
        /\ cStack'[1] = "grid" /\ cStack'[2] = "menu"
    BY <1>1, <2>1, <2>2, Popped DEF Screens!IInv
  <2>4. Screens!WellNested' /\ Screens!ActiveStore'
    BY <2>1, <2>3 DEF Screens!WellNested, Screens!ActiveStore
  <2>5. ~Screens!InSettings
    BY <2>2 DEF Screens!InSettings
  <2>6. QED
    BY <1>1, <1>2, <2>1, <2>3, <2>4, <2>5
       DEF Screens!IInv, Screens!TypeOK, Screens!SavedOrOpen
<1>6. QED  BY <1>3, <1>4, <1>5

LEMMA ScreensStep == Screens!IInv /\ Screens!Next => Screens!IInv'
  BY OpenInv, EnterInv, PageInv, SavesInv, FoldersInv, DismissInv, GridInv, GameInv
     DEF Screens!Next, Screens!Leave, Screens!Edit

LEMMA ScreensStutter == Screens!IInv /\ UNCHANGED Screens!vars => Screens!IInv'
  BY DEF Screens!vars, Screens!file, Screens!profile, Screens!library, Screens!IInv,
         Screens!TypeOK, Screens!WellNested, Screens!Closed, Screens!Above,
         Screens!ActiveStore, Screens!SavedOrOpen, Screens!InSettings, Screens!MeantIsUsed,
         Screens!Picked

(* On the grid no settings are open.                                        *)
LEMMA ScreensSafe == Screens!IInv => Screens!OptionsAreKept
<1> SUFFICES ASSUME Screens!IInv, cStack = <<"grid">> \/ Screens!Closed
             PROVE  cDisk.options = cGlobal.options \/ cFailed
  BY DEF Screens!OptionsAreKept, Screens!NothingUnsaved, Screens!IInv
<1>1. CASE cStack = <<"grid">>
  BY <1>1 DEF Screens!IInv, Screens!SavedOrOpen, Screens!InSettings
<1>2. CASE Screens!Closed
  BY <1>2 DEF Screens!IInv, Screens!SavedOrOpen, Screens!InSettings, Screens!Closed
<1>3. QED  BY <1>1, <1>2

HIDE DEF cStack, cExit, cActive, cGlobal, cDisk, cFailed, cOwn, cOlder, cMeant

--------------------------------------------------------------------------------
(* Identity: a key is one game's for ever.                                        *)

iFiles == v1
iRecords == v3
iTodo == v6
iFound == v7

USE DEF iFiles, iRecords, iTodo, iFound

(* A set of numbers that is not empty has a first one.                      *)
LEMMA IdentityFirst ==
  ASSUME NEW S \in SUBSET Nat, S # {}
  PROVE  Identity!First(S) \in S
<1> DEFINE Less == {ss \in Nat \X Nat : ss[1] < ss[2]}
<1>1. IsWellFoundedOn(Less, Nat)
  BY NatLessThanWellFounded DEF OpToRel
<1> HIDE DEF Less
<1>2. PICK i \in S : \A j \in S : ~ (<<j, i>> \in Less)
  BY <1>1, WFMin
<1>3. \A j \in S : i <= j
  <2> SUFFICES ASSUME NEW j \in S PROVE i <= j
    OBVIOUS
  <2>1. i \in Nat /\ j \in Nat /\ <<j, i>> \notin Less
    BY <1>2
  <2>2. j < i => <<j, i>> \in Less
    BY <2>1, Zenon DEF Less
  <2>3. QED  BY <2>1, <2>2
<1>4. QED  BY <1>3 DEF Identity!First

(* What is recorded and read keeps its fields.                              *)
LEMMA IdentityFields ==
  /\ \A g \in Identity!Read : g.path \in GamePath /\ g.content \in Identity!Content
  /\ \A r \in Identity!Recorded, b \in BOOLEAN :
        [r EXCEPT !.retired = b] \in Identity!Recorded /\ [r EXCEPT !.retired = b].base = r.base
  /\ \A p \in GamePath, c \in Identity!Content :
        Identity!Record(p, c) \in Identity!Recorded /\ Identity!Record(p, c).base = c.base
  BY DEF Identity!Read, Identity!Recorded, Identity!Content, Identity!Record

(* The records after a game was assigned: the record of its key, if there   *)
(* is one, is of the same game.                                             *)
LEMMA IdentityAssign ==
  ASSUME Identity!IInv, NEW g \in iTodo, Identity!Assign(g)
  PROVE  iRecords' \in Seq(Identity!Recorded) /\ Identity!KeyNamesOneGame
<1> DEFINE p == g.path
           c == g.content
           key == Identity!Match(p, c)
           retired == [i \in Identity!Ids |->
                        [iRecords[i] EXCEPT !.retired = @ \/ i \in Identity!Replaced(p, c)]]
<1>1. /\ iRecords' = IF key \in Identity!Ids THEN [retired EXCEPT ![key] = Identity!Record(p, c)]
                    ELSE Append(retired, Identity!Record(p, c))
      /\ iRecords \in Seq(Identity!Recorded) /\ Identity!Ids = 1 .. Len(iRecords)
  BY DEF Identity!Assign, Identity!IInv, Identity!Ids
<1>2. /\ p \in GamePath /\ c \in Identity!Content
      /\ Identity!Record(p, c) \in Identity!Recorded /\ Identity!Record(p, c).base = c.base
  BY IdentityFields DEF Identity!IInv
<1>3. key \in Identity!Ids => iRecords[key].base = c.base
  <2>1. /\ Identity!ByPath(p, c) \in SUBSET Nat
        /\ \A i \in Identity!ByPath(p, c) : iRecords[i].base = c.base
    BY <1>1 DEF Identity!ByPath, Identity!AtPath, Identity!Compatible
  <2>2. /\ Identity!Movable(p, c) \in SUBSET Nat
        /\ \A i \in Identity!Movable(p, c) : iRecords[i].base = c.base
    BY <1>1 DEF Identity!Movable, Identity!Compatible
  <2>3. CASE Identity!ByPath(p, c) # {}
    BY <2>1, <2>3, IdentityFirst DEF Identity!Match
  <2>4. CASE Identity!ByPath(p, c) = {} /\ Identity!Movable(p, c) # {}
    BY <2>2, <2>4, IdentityFirst DEF Identity!Match
  <2>5. CASE Identity!ByPath(p, c) = {} /\ Identity!Movable(p, c) = {}
    BY <1>1, <2>5 DEF Identity!Match
  <2>6. QED  BY <2>3, <2>4, <2>5
<1>4. /\ retired \in Seq(Identity!Recorded) /\ Len(retired) = Len(iRecords)
      /\ \A i \in Identity!Ids : retired[i].base = iRecords[i].base
  <2>1. \A i \in Identity!Ids :
              retired[i] \in Identity!Recorded /\ retired[i].base = iRecords[i].base
    <3>1. SUFFICES ASSUME NEW i \in Identity!Ids
                   PROVE  retired[i] \in Identity!Recorded /\ retired[i].base = iRecords[i].base
      OBVIOUS
    <3>2. /\ iRecords[i] \in Identity!Recorded
          /\ retired[i] = [iRecords[i] EXCEPT
                            !.retired = iRecords[i].retired \/ i \in Identity!Replaced(p, c)]
      BY <1>1
    <3>3. (iRecords[i].retired \/ i \in Identity!Replaced(p, c)) \in BOOLEAN
      OBVIOUS
    <3>4. QED  BY <3>2, <3>3, IdentityFields
  <2>2. retired = [i \in 1 .. Len(iRecords) |-> retired[i]]
    BY <1>1
  <2>3. QED
    <3> HIDE DEF retired
    <3>1. QED  BY <1>1, <2>1, <2>2
<1> HIDE DEF retired, key, p, c
<1>5. CASE key \in Identity!Ids
  <2>1. iRecords' = [retired EXCEPT ![key] = Identity!Record(p, c)]
    BY <1>1, <1>5
  <2>2. QED  BY <1>1, <1>2, <1>3, <1>4, <1>5, <2>1 DEF Identity!KeyNamesOneGame
<1>6. CASE key \notin Identity!Ids
  <2>1. iRecords' = Append(retired, Identity!Record(p, c))
    BY <1>1, <1>6
  <2>2. QED  BY <1>1, <1>2, <1>4, <2>1 DEF Identity!KeyNamesOneGame
<1>7. QED  BY <1>5, <1>6

(* Nothing is recorded.                                                     *)
LEMMA IdentityInit == Identity!Init => Identity!IInv
  BY DEF Identity!Init, Identity!IInv

(* Only Assign changes the records.                                         *)
LEMMA IdentityStep == Identity!IInv /\ Identity!Next => Identity!IInv' /\ Identity!KeyNamesOneGame
<1> SUFFICES ASSUME Identity!IInv, Identity!Next PROVE Identity!IInv' /\ Identity!KeyNamesOneGame
  OBVIOUS
<1>1. UNCHANGED iRecords => Identity!KeyNamesOneGame
  BY DEF Identity!KeyNamesOneGame
<1>2. ASSUME NEW q \in GamePath, NEW content \in Identity!Content \cup {Identity!NoFile},
             Identity!Write(q, content)
      PROVE  Identity!IInv' /\ Identity!KeyNamesOneGame
  <2>1. /\ UNCHANGED <<iTodo, iRecords>>
        /\ iFiles' \in [GamePath -> Identity!Content \cup {Identity!NoFile}]
    BY <1>2 DEF Identity!Write, Identity!IInv, Identity!worker, Identity!identities
  <2>2. QED  BY <1>1, <2>1 DEF Identity!IInv
<1>3. ASSUME NEW q \in GamePath, NEW r \in GamePath, Identity!Move(q, r)
      PROVE  Identity!IInv' /\ Identity!KeyNamesOneGame
  <2>1. /\ UNCHANGED <<iTodo, iRecords>>
        /\ iFiles' \in [GamePath -> Identity!Content \cup {Identity!NoFile}]
    BY <1>3 DEF Identity!Move, Identity!IInv, Identity!worker, Identity!identities
  <2>2. QED  BY <1>1, <2>1 DEF Identity!IInv
<1>4. ASSUME NEW q \in GamePath, NEW r \in GamePath, Identity!Copy(q, r)
      PROVE  Identity!IInv' /\ Identity!KeyNamesOneGame
  <2>1. iFiles[q] \in Identity!Content \cup {Identity!NoFile}
    BY DEF Identity!IInv
  <2>2. QED  BY <1>2, <1>4, <2>1 DEF Identity!Copy
<1>5. ASSUME NEW kind \in {"replace", "update"}, Identity!StartScan(kind)
      PROVE  Identity!IInv' /\ Identity!KeyNamesOneGame
  <2>1. /\ UNCHANGED <<iFiles, iRecords>>
        /\ iTodo' = {[path |-> q, content |-> iFiles[q]] : q \in iFound'}
        /\ \A q \in iFound' : q \in GamePath /\ iFiles[q] \in Identity!Content
    BY <1>5 DEF Identity!StartScan, Identity!IInv
  <2>2. iTodo' \subseteq Identity!Read
    BY <2>1 DEF Identity!Read
  <2>3. QED  BY <1>1, <2>1, <2>2 DEF Identity!IInv
<1>6. ASSUME NEW g \in iTodo, Identity!Assign(g)
      PROVE  Identity!IInv' /\ Identity!KeyNamesOneGame
  <2>1. UNCHANGED iFiles /\ iTodo' \subseteq iTodo
    BY <1>6 DEF Identity!Assign
  <2>2. QED  BY <1>6, <2>1, IdentityAssign DEF Identity!IInv
<1>7. CASE Identity!Finish
  BY <1>1, <1>7 DEF Identity!Finish, Identity!IInv, Identity!worker, Identity!identities
<1>8. CASE Identity!Cancel
  BY <1>1, <1>8 DEF Identity!Cancel, Identity!IInv, Identity!worker, Identity!identities
<1>9. QED  BY <1>2, <1>3, <1>4, <1>5, <1>6, <1>7, <1>8 DEF Identity!Next

(* The invariant is about the variables alone.                              *)
LEMMA IdentityStutter == Identity!IInv /\ UNCHANGED Identity!vars => Identity!IInv'
  BY DEF Identity!vars, Identity!identities, Identity!worker, Identity!IInv

HIDE DEF iFiles, iRecords, iTodo, iFound

--------------------------------------------------------------------------------
(* Transfer: a transfer that fails or is cut off loses no file.                  *)

tPc == v1
tKind == v2
tMove == v3
tSame == v4
tSrc == v5
tDst == v6
tBak == v7
tPart == v8
tCopying == v9
tAside == v10
tCancelled == v11
tResult == v13
tUnlisted == v14

USE DEF tPc, tKind, tMove, tSame, tSrc, tDst, tBak, tPart, tCopying, tAside, tCancelled,
        tResult, tUnlisted

(* The files of the item.                                                   *)
LEMMA TransferItem ==
  /\ Transfer!Item \subseteq Files /\ 1 \in Transfer!Item /\ 1 \in Files
  /\ tKind = "file" => \A f \in Transfer!Item : f = 1
  /\ tKind' = tKind => Transfer!Item' = Transfer!Item
  BY FilesAssumption DEF Transfer!Item

(* The item is at its source.                                               *)
LEMMA TransferInit == Transfer!Init => Transfer!IInv
  BY FilesAssumption, TransferItem
     DEF Transfer!Init, Transfer!IInv, Transfer!TypeOK, Transfer!NothingLost,
         Transfer!SourceWhole, Transfer!OldIsFirst, Transfer!CopyUnderWay

(* Nothing is taken from the source before all of it that was listed is at  *)
(* the destination, and nothing from the destination while the source is    *)
(* not whole.                                                               *)
LEMMA TransferStep == Transfer!IInv /\ Transfer!Next => Transfer!IInv' /\ Transfer!ReplacedIsKept
<1> SUFFICES ASSUME Transfer!IInv, Transfer!Next PROVE Transfer!IInv' /\ Transfer!ReplacedIsKept
  OBVIOUS
<1> USE TransferItem DEF Transfer!IInv
<1>1. CASE (tResult = "none" /\ Transfer!Paste)
  BY <1>1
     DEF Transfer!TypeOK, Transfer!NothingLost, Transfer!SourceWhole, Transfer!OldIsFirst,
         Transfer!CopyUnderWay, Transfer!ReplacedIsKept, Transfer!Replaces, Transfer!task,
         Transfer!disk, Transfer!step, Transfer!Goto, Transfer!Paste
<1>2. CASE Transfer!Preserve
  BY <1>2
     DEF Transfer!TypeOK, Transfer!NothingLost, Transfer!SourceWhole, Transfer!OldIsFirst,
         Transfer!CopyUnderWay, Transfer!ReplacedIsKept, Transfer!Replaces, Transfer!task,
         Transfer!disk, Transfer!step, Transfer!Goto, Transfer!Preserve
<1>3. CASE Transfer!Rename
  <2>1. /\ UNCHANGED <<tKind, tMove, tSame, tPart, tCopying, tAside, tUnlisted, tCancelled>>
        /\ tPc = "rename"
    BY <1>3 DEF Transfer!Rename, Transfer!task, Transfer!step
  <2>2. /\ \A f \in tSrc : f \in Files
        /\ Transfer!Item \subseteq tSrc /\ 1 \in tSrc
    BY <2>1 DEF Transfer!TypeOK, Transfer!SourceWhole
  <2>3. CASE tPc' = "idle"
    <3>1. /\ tSrc' = {} /\ tResult' = "ok"
          /\ tBak' = tBak \/ tBak' = FALSE
          /\ tDst' = [f \in Files |-> IF f \in tSrc THEN "new" ELSE tDst[f]]
      BY <1>3, <2>3 DEF Transfer!Rename, Transfer!Goto
    <3>2. /\ \A f \in Files : tDst'[f] = "new" \/ tDst'[f] = tDst[f]
          /\ \A f \in tSrc : tDst'[f] = "new"
      BY <2>2, <3>1
    <3>3. tDst' \in [Files -> {"none", "old", "new"}]
      BY <3>1 DEF Transfer!TypeOK
    <3>4. Transfer!TypeOK'
      BY <2>1, <3>1, <3>3 DEF Transfer!TypeOK
    <3>5. Transfer!OldIsFirst'
      BY <2>1, <3>1, <3>2 DEF Transfer!OldIsFirst
    <3>6. /\ Transfer!NothingLost' /\ Transfer!SourceWhole' /\ Transfer!CopyUnderWay'
          /\ Transfer!ReplacedIsKept
      BY <2>1, <2>2, <2>3, <3>1, <3>2
         DEF Transfer!NothingLost, Transfer!SourceWhole, Transfer!CopyUnderWay,
             Transfer!ReplacedIsKept
    <3>7. QED  BY <3>4, <3>5, <3>6
  <2>4. CASE tPc' = "copy"
    <3>1. /\ UNCHANGED tSrc
          /\ \/ tBak /\ tBak' = FALSE /\ tDst' = [tDst EXCEPT ![1] = "old"]
             \/ UNCHANGED <<tBak, tDst>>
      BY <1>3, <2>4 DEF Transfer!Rename, Transfer!Goto
    <3>2. Transfer!TypeOK'
      BY <2>1, <2>4, <3>1 DEF Transfer!TypeOK
    <3>3. Transfer!OldIsFirst' /\ Transfer!ReplacedIsKept
      BY <2>1, <2>4, <3>1
         DEF Transfer!TypeOK, Transfer!OldIsFirst, Transfer!ReplacedIsKept,
             Transfer!Replaces
    <3>4. Transfer!NothingLost' /\ Transfer!SourceWhole' /\ Transfer!CopyUnderWay'
      BY <2>1, <2>2, <2>4, <3>1
         DEF Transfer!NothingLost, Transfer!SourceWhole, Transfer!CopyUnderWay
    <3>5. QED  BY <3>2, <3>3, <3>4
  <2>5. QED  BY <1>3, <2>3, <2>4 DEF Transfer!Rename, Transfer!Goto
<1>4. CASE Transfer!CopyTree
  <2>1. /\ UNCHANGED <<tKind, tMove, tSame, tSrc, tDst, tBak, tPart, tAside, tCancelled, tResult>>
        /\ tPc = "copy" /\ tUnlisted \subseteq tUnlisted'
    BY <1>4 DEF Transfer!CopyTree, Transfer!Fail, Transfer!task, Transfer!disk
  <2>2. tUnlisted' \subseteq Files
    BY <1>4 DEF Transfer!CopyTree, Transfer!Todo, Transfer!TypeOK
  <2>3. tCopying' = tCopying \/ tCopying' \in Transfer!Item
    BY <1>4 DEF Transfer!CopyTree, Transfer!Todo
  <2>4. \/ tPc' = "copied" /\ UNCHANGED tUnlisted /\ Transfer!Todo = {}
        \/ tPc' \in {"copy", "failed"}
        \/ tPc' = "open" /\ tCopying' \in Transfer!Item
    BY <1>4, <2>1 DEF Transfer!CopyTree, Transfer!Fail, Transfer!Goto, Transfer!Todo
  <2>5. Transfer!TypeOK'
    BY <2>1, <2>2, <2>3 DEF Transfer!TypeOK
  <2>6. Transfer!NothingLost' /\ Transfer!OldIsFirst' /\ Transfer!ReplacedIsKept
    BY <2>1
       DEF Transfer!NothingLost, Transfer!OldIsFirst, Transfer!ReplacedIsKept,
           Transfer!Replaces
  <2>7. Transfer!SourceWhole' /\ Transfer!CopyUnderWay'
    BY <2>1, <2>4 DEF Transfer!SourceWhole, Transfer!CopyUnderWay, Transfer!Todo
  <2>8. QED  BY <2>5, <2>6, <2>7
<1>5. CASE Transfer!Write
  BY <1>5
     DEF Transfer!TypeOK, Transfer!NothingLost, Transfer!SourceWhole, Transfer!OldIsFirst,
         Transfer!CopyUnderWay, Transfer!ReplacedIsKept, Transfer!Replaces, Transfer!task,
         Transfer!disk, Transfer!step, Transfer!Goto, Transfer!Write, Transfer!Fail
<1>6. CASE Transfer!Written
  BY <1>6
     DEF Transfer!TypeOK, Transfer!NothingLost, Transfer!SourceWhole, Transfer!OldIsFirst,
         Transfer!CopyUnderWay, Transfer!ReplacedIsKept, Transfer!Replaces, Transfer!task,
         Transfer!disk, Transfer!step, Transfer!Goto, Transfer!Written, Transfer!Fail
<1>7. CASE Transfer!Aside
  BY <1>7
     DEF Transfer!TypeOK, Transfer!NothingLost, Transfer!SourceWhole, Transfer!OldIsFirst,
         Transfer!CopyUnderWay, Transfer!ReplacedIsKept, Transfer!Replaces, Transfer!task,
         Transfer!disk, Transfer!step, Transfer!Goto, Transfer!Aside, Transfer!Fail
<1>8. CASE Transfer!Place
  BY <1>8
     DEF Transfer!TypeOK, Transfer!NothingLost, Transfer!SourceWhole, Transfer!OldIsFirst,
         Transfer!CopyUnderWay, Transfer!ReplacedIsKept, Transfer!Replaces, Transfer!task,
         Transfer!disk, Transfer!step, Transfer!Goto, Transfer!Place
<1>9. CASE Transfer!Undo
  <2>1. /\ UNCHANGED <<tKind, tMove, tSame, tSrc, tCopying, tAside, tUnlisted, tCancelled,
                      tResult>>
        /\ tPc = "undo" /\ tPc' = "failed" /\ tPart' = "none"
        /\ \/ tAside /\ tDst' = [tDst EXCEPT ![tCopying] = "old"] /\ tBak' = FALSE
           \/ UNCHANGED <<tBak, tDst>>
    BY <1>9 DEF Transfer!Undo, Transfer!Fail, Transfer!Goto, Transfer!task, Transfer!step
  <2>2. Transfer!Item \subseteq tSrc /\ (tAside => tKind = "file" /\ tCopying = 1)
    BY <2>1 DEF Transfer!SourceWhole, Transfer!CopyUnderWay
  <2>3. Transfer!TypeOK'
    BY <2>1 DEF Transfer!TypeOK
  <2>4. Transfer!OldIsFirst' /\ Transfer!ReplacedIsKept
    BY <2>1, <2>2
       DEF Transfer!TypeOK, Transfer!OldIsFirst, Transfer!ReplacedIsKept, Transfer!Replaces
  <2>5. Transfer!NothingLost' /\ Transfer!SourceWhole' /\ Transfer!CopyUnderWay'
    BY <2>1, <2>2 DEF Transfer!NothingLost, Transfer!SourceWhole, Transfer!CopyUnderWay
  <2>6. QED  BY <2>3, <2>4, <2>5
<1>10. CASE Transfer!Tidy
  BY <1>10
     DEF Transfer!TypeOK, Transfer!NothingLost, Transfer!SourceWhole, Transfer!OldIsFirst,
         Transfer!CopyUnderWay, Transfer!ReplacedIsKept, Transfer!Replaces, Transfer!task,
         Transfer!disk, Transfer!step, Transfer!Goto, Transfer!Tidy
<1>11. CASE Transfer!RemoveDestination
  BY <1>11
     DEF Transfer!TypeOK, Transfer!NothingLost, Transfer!SourceWhole, Transfer!OldIsFirst,
         Transfer!CopyUnderWay, Transfer!ReplacedIsKept, Transfer!Replaces, Transfer!task,
         Transfer!disk, Transfer!step, Transfer!Goto, Transfer!RemoveDestination
<1>12. CASE Transfer!Copied
  BY <1>12
     DEF Transfer!TypeOK, Transfer!NothingLost, Transfer!SourceWhole, Transfer!OldIsFirst,
         Transfer!CopyUnderWay, Transfer!ReplacedIsKept, Transfer!Replaces, Transfer!task,
         Transfer!disk, Transfer!step, Transfer!Goto, Transfer!Copied
<1>13. CASE Transfer!RemoveSource
  BY <1>13
     DEF Transfer!TypeOK, Transfer!NothingLost, Transfer!SourceWhole, Transfer!OldIsFirst,
         Transfer!CopyUnderWay, Transfer!ReplacedIsKept, Transfer!Replaces, Transfer!task,
         Transfer!disk, Transfer!step, Transfer!Goto, Transfer!RemoveSource
<1>14. CASE Transfer!Cancel
  BY <1>14
     DEF Transfer!TypeOK, Transfer!NothingLost, Transfer!SourceWhole, Transfer!OldIsFirst,
         Transfer!CopyUnderWay, Transfer!ReplacedIsKept, Transfer!Replaces, Transfer!task,
         Transfer!disk, Transfer!step, Transfer!Goto, Transfer!Cancel
<1>15. CASE Transfer!PowerCut
  BY <1>15
     DEF Transfer!TypeOK, Transfer!NothingLost, Transfer!SourceWhole, Transfer!OldIsFirst,
         Transfer!CopyUnderWay, Transfer!ReplacedIsKept, Transfer!Replaces, Transfer!task,
         Transfer!disk, Transfer!step, Transfer!Goto, Transfer!PowerCut
<1>16. QED
  BY <1>1, <1>2, <1>3, <1>4, <1>5, <1>6, <1>7, <1>8, <1>9, <1>10, <1>11, <1>12, <1>13,
     <1>14, <1>15
     DEF Transfer!Next, Transfer!Worker

(* The invariant says more than NothingLost.                                *)
LEMMA TransferSafe == Transfer!IInv => Transfer!NothingLost
  BY DEF Transfer!IInv

(* The invariant is about the variables alone.                              *)
LEMMA TransferStutter == Transfer!IInv /\ UNCHANGED Transfer!vars => Transfer!IInv'
  BY DEF Transfer!vars, Transfer!task, Transfer!disk, Transfer!step, Transfer!IInv,
         Transfer!TypeOK, Transfer!NothingLost, Transfer!SourceWhole, Transfer!OldIsFirst,
         Transfer!CopyUnderWay, Transfer!Item

HIDE DEF tPc, tKind, tMove, tSame, tSrc, tDst, tBak, tPart, tCopying, tAside, tCancelled,
         tResult, tUnlisted

--------------------------------------------------------------------------------
(* Shares: a share goes with every path that leads to it.                        *)

sShares == v1
sMounted == v3
sSources == v4
sPinned == v5
sClipboard == v6
sOpen == v8
sHeld == v9
sCurrent == v11
sStale == v12

USE DEF sShares, sMounted, sSources, sPinned, sClipboard, sOpen, sHeld, sCurrent, sStale

(* A screen that opens is in front of the others, and gives way to the one  *)
(* below it.                                                                *)
LEMMA SharesOpen ==
  ASSUME Shares!Opened, NEW s \in {"folders", "browser", "shares"},
         Shares!Last(sOpen) # "shares",
         s = "folders" => Shares!Last(sOpen) = "library",
         s = "browser" => Shares!Last(sOpen) \in {"library", "folders"},
         sOpen' = Append(sOpen, s)
  PROVE  /\ Shares!Opened' /\ Shares!Last(sOpen') = s
         /\ Shares!BrowserOpen' => s = "browser" \/ Shares!BrowserOpen
         /\ Shares!ListOpen' => s = "folders" \/ Shares!ListOpen
<1>1. s \in Shares!Screens
  BY DEF Shares!Screens
<1>2. /\ sOpen' \in Seq(Shares!Screens) /\ Len(sOpen') = Len(sOpen) + 1
      /\ sOpen'[Len(sOpen) + 1] = s
      /\ \A i \in 1..Len(sOpen) : sOpen'[i] = sOpen[i]
      /\ Len(sOpen) \in Nat /\ Len(sOpen) >= 1
  BY <1>1 DEF Shares!Opened
<1>3. /\ Shares!Last(sOpen) = "library" => Len(sOpen) = 1
      /\ Shares!Last(sOpen) = "folders" => Len(sOpen) = 2
      /\ Shares!Last(sOpen) = sOpen[Len(sOpen)]
  <2>1. Shares!Last(sOpen) = sOpen[Len(sOpen)] /\ Len(sOpen) \in 1..Len(sOpen)
    BY <1>2 DEF Shares!Last
  <2>2. QED  BY <2>1 DEF Shares!Opened
<1>4. ASSUME NEW i \in 1..Len(sOpen')
      PROVE  /\ sOpen'[i] = "library" => i = 1
             /\ sOpen'[i] = "shares" => i = Len(sOpen')
             /\ sOpen'[i] = "folders" => i = 2
             /\ sOpen'[i] = "browser" => i = 2 \/ (i = 3 /\ sOpen'[2] = "folders")
  <2>1. CASE i = Len(sOpen) + 1
    BY <1>2, <1>3, <2>1
  <2>2. CASE i \in 1..Len(sOpen)
    BY <1>2, <1>3, <2>2 DEF Shares!Opened
  <2>3. QED  BY <1>2, <1>4, <2>1, <2>2
<1>5. Shares!Opened'
  BY <1>2, <1>4 DEF Shares!Opened
<1>6. QED  BY <1>2, <1>5 DEF Shares!BrowserOpen, Shares!ListOpen, Shares!Last

LEMMA SharesClose ==
  ASSUME Shares!Opened, Len(sOpen) > 1, sOpen' = Shares!Front(sOpen)
  PROVE  /\ Shares!Opened' /\ Shares!Last(sOpen') # "shares"
         /\ Shares!BrowserOpen' => Shares!BrowserOpen
         /\ Shares!ListOpen' => Shares!ListOpen
<1>1. \A i \in 1..Len(sOpen) - 1 : sOpen[i] \in Shares!Screens
  BY DEF Shares!Opened
<1>2. /\ sOpen' \in Seq(Shares!Screens) /\ Len(sOpen') = Len(sOpen) - 1
      /\ \A i \in 1..Len(sOpen) - 1 : sOpen'[i] = sOpen[i]
  BY <1>1, SubSeqProperties DEF Shares!Front, Shares!Opened
<1>3. Shares!Opened'
  BY <1>2 DEF Shares!Opened
<1>4. QED
  BY <1>2, <1>3 DEF Shares!Opened, Shares!BrowserOpen, Shares!ListOpen, Shares!Last

LEMMA SharesLibrary ==
  ASSUME Shares!Opened
  PROVE  /\ Shares!Last(sOpen) = "library" => ~Shares!BrowserOpen
         /\ Shares!Last(sOpen) # "library" => Len(sOpen) > 1
         /\ Shares!Last(sOpen) = "browser" => Shares!BrowserOpen
         /\ Shares!Last(sOpen) = "folders" => Shares!ListOpen
  BY DEF Shares!Opened, Shares!BrowserOpen, Shares!ListOpen, Shares!Last

(* A browser that does not stand on the library stands on the folder list.  *)
LEMMA SharesPicking ==
  ASSUME Shares!Opened, Shares!Last(sOpen) = "browser", ~Shares!Managing
  PROVE  Shares!ListOpen
  BY DEF Shares!Opened, Shares!Managing, Shares!Browsing, Shares!InFront, Shares!ListOpen,
         Shares!Last

(* No share is configured.                                                  *)
LEMMA SharesInit == Shares!Init => Shares!IInv
<1> SUFFICES ASSUME Shares!Init PROVE Shares!IInv
  OBVIOUS
<1>1. sOpen \in Seq(Shares!Screens) /\ Len(sOpen) = 1 /\ sOpen[1] = "library"
  BY DEF Shares!Init, Shares!Screens
<1>2. Shares!Opened /\ Shares!BrowsesShare
  BY <1>1 DEF Shares!Init, Shares!Opened, Shares!BrowsesShare, Shares!BrowserOpen
<1>3. Shares!NoPath \notin Shares!Path
  BY ShareAssumption DEF Shares!NoPath, Shares!Path, Shares!Card
<1>4. Shares!HeldHaveShares /\ Shares!SavedHaveShares
  BY <1>3 DEF Shares!Init, Shares!HeldHaveShares, Shares!SavedHaveShares, Shares!OnShare
<1>5. QED
  BY <1>2, <1>4 DEF Shares!Init, Shares!IInv

(* What a step that removes no share has to keep: the folder shown and what *)
(* is saved or held is on the card, on a share or stale, as before.         *)
LEMMA SharesKept ==
  ASSUME Shares!IInv, sShares \subseteq sShares', sMounted' \subseteq sShares',
         UNCHANGED sStale, Shares!Opened',
         Shares!BrowserOpen' =>
           /\ \/ sCurrent' = Shares!NoPath \/ sCurrent'[1] = Shares!Card
              \/ sCurrent'[1] \in sShares
           /\ Shares!Last(sOpen') = "shares" => sCurrent' = Shares!NoPath,
         Shares!ListOpen' =>
           \A p \in sHeld' : Shares!OnShare(p) => p[1] \in sShares \/ p \in sStale,
         \A p \in sSources' : Shares!OnShare(p) => p[1] \in sShares \/ p \in sStale,
         \A p \in sPinned' \cup {sClipboard'} : Shares!OnShare(p) => p[1] \in sShares
  PROVE  Shares!IInv'
<1>1. Shares!BrowsesShare'
  BY DEF Shares!BrowsesShare
<1>2. Shares!HeldHaveShares' /\ Shares!SavedHaveShares'
  BY DEF Shares!HeldHaveShares, Shares!SavedHaveShares, Shares!OnShare
<1>3. QED  BY <1>1, <1>2 DEF Shares!IInv

(* A browser that shows a folder shows one on the card or on a share.       *)
LEMMA SharesShown ==
  ASSUME Shares!IInv, Shares!Last(sOpen) = "browser", sCurrent # Shares!NoPath
  PROVE  sCurrent[1] = Shares!Card \/ sCurrent[1] \in sShares
BY SharesLibrary DEF Shares!IInv, Shares!BrowsesShare

(* What opens or closes no screen and keeps the shares: the folder shown is *)
(* where an open browser may be.                                            *)
LEMMA SharesStep == Shares!IInv /\ Shares!Next => Shares!IInv'
<1> SUFFICES ASSUME Shares!IInv, Shares!Next PROVE Shares!IInv'
  OBVIOUS
<1>1. Shares!NoPath \notin Shares!Path
  BY ShareAssumption DEF Shares!NoPath, Shares!Path, Shares!Card
<1>2. /\ sMounted \subseteq sShares /\ Shares!Opened
      /\ Shares!BrowserOpen =>
           /\ \/ sCurrent = Shares!NoPath \/ sCurrent[1] = Shares!Card
              \/ sCurrent[1] \in sShares
           /\ Shares!Last(sOpen) = "shares" => sCurrent = Shares!NoPath
  BY DEF Shares!IInv, Shares!BrowsesShare
<1>3. /\ Shares!ListOpen =>
           \A p \in sHeld : Shares!OnShare(p) => p[1] \in sShares \/ p \in sStale
      /\ \A p \in sSources : Shares!OnShare(p) => p[1] \in sShares \/ p \in sStale
      /\ \A p \in sPinned \cup {sClipboard} : Shares!OnShare(p) => p[1] \in sShares
  BY DEF Shares!IInv, Shares!HeldHaveShares, Shares!SavedHaveShares
<1>4. UNCHANGED sOpen =>
        /\ Shares!Opened' /\ Shares!Last(sOpen') = Shares!Last(sOpen)
        /\ Shares!ListOpen' = Shares!ListOpen /\ Shares!BrowserOpen' = Shares!BrowserOpen
  BY <1>2 DEF Shares!Opened, Shares!ListOpen, Shares!BrowserOpen
<1>5. CASE Shares!OpenFolders
  <2>1. /\ UNCHANGED <<sShares, sMounted, sStale, sSources, sPinned, sClipboard, sCurrent>>
        /\ Shares!Last(sOpen) = "library" /\ sOpen' = Append(sOpen, "folders")
        /\ sHeld' = sSources
    BY <1>5
       DEF Shares!saved, Shares!network, Shares!view, Shares!OpenFolders, Shares!InFront
  <2>2. Shares!Opened' /\ ~Shares!BrowserOpen'
    BY <1>2, <2>1, SharesOpen, SharesLibrary
  <2>3. QED  BY <1>2, <1>3, <2>1, <2>2, SharesKept
<1>6. CASE Shares!OpenManager
  <2>1. /\ UNCHANGED <<sShares, sMounted, sStale, sSources, sPinned, sClipboard, sHeld>>
        /\ Shares!Last(sOpen) = "library" /\ sOpen' = Append(sOpen, "browser")
        /\ sCurrent' = Shares!NoPath
    BY <1>6
       DEF Shares!saved, Shares!network, Shares!view, Shares!OpenManager, Shares!InFront
  <2>2. Shares!Opened' /\ (Shares!ListOpen' => Shares!ListOpen)
    BY <1>2, <2>1, SharesOpen
  <2>3. QED  BY <1>2, <1>3, <2>1, <2>2, SharesKept
<1>7. CASE Shares!OpenShares
  <2>1. /\ UNCHANGED <<sShares, sMounted, sStale, sSources, sPinned, sClipboard, sHeld,
                      sCurrent>>
        /\ sOpen' = Append(sOpen, "shares")
        /\ \/ Shares!Last(sOpen) = "library"
           \/ Shares!Last(sOpen) = "browser" /\ sCurrent = Shares!NoPath
    BY <1>7
       DEF Shares!saved, Shares!network, Shares!view, Shares!OpenShares, Shares!InFront,
           Shares!Browsing
  <2>2. /\ Shares!Opened' /\ (Shares!ListOpen' => Shares!ListOpen)
        /\ Shares!BrowserOpen' => Shares!BrowserOpen
    BY <1>2, <2>1, SharesOpen
  <2>3. Shares!BrowserOpen' => sCurrent = Shares!NoPath
    BY <1>2, <2>1, <2>2, SharesLibrary
  <2>4. QED  BY <1>2, <1>3, <2>1, <2>2, <2>3, SharesKept
<1>8. CASE Shares!Back
  <2>1. /\ UNCHANGED <<sShares, sMounted, sStale, sSources, sPinned, sClipboard, sHeld>>
        /\ Len(sOpen) > 1
        /\ \/ sCurrent' = Shares!NoPath /\ UNCHANGED sOpen
           \/ sOpen' = Shares!Front(sOpen) /\ UNCHANGED sCurrent
    BY <1>8 DEF Shares!saved, Shares!network, Shares!Back
  <2>2. /\ Shares!Opened' /\ (Shares!ListOpen' => Shares!ListOpen)
        /\ UNCHANGED sCurrent => /\ Shares!BrowserOpen' => Shares!BrowserOpen
                                 /\ Shares!Last(sOpen') # "shares" \/ sCurrent' = Shares!NoPath
    BY <1>2, <1>4, <2>1, SharesClose
  <2>3. QED  BY <1>2, <1>3, <2>1, <2>2, SharesKept
<1>9. CASE Shares!AddShare
  <2>1. /\ UNCHANGED <<sStale, sSources, sPinned, sClipboard, sHeld, sCurrent, sOpen>>
        /\ sShares \subseteq sShares' /\ sMounted' \subseteq sShares'
    BY <1>2, <1>9 DEF Shares!saved, Shares!view, Shares!AddShare
  <2>2. QED  BY <1>2, <1>3, <1>4, <2>1, SharesKept
<1>10. CASE Shares!ConnectShare
  <2>1. /\ UNCHANGED <<sStale, sSources, sPinned, sClipboard, sHeld, sCurrent, sOpen>>
        /\ sShares \subseteq sShares' /\ sMounted' \subseteq sShares'
    BY <1>2, <1>10 DEF Shares!saved, Shares!view, Shares!ConnectShare
  <2>2. QED  BY <1>2, <1>3, <1>4, <2>1, SharesKept
<1>11. CASE Shares!EditShare
  <2>1. /\ UNCHANGED <<sStale, sSources, sPinned, sClipboard, sHeld, sCurrent, sOpen>>
        /\ sShares \subseteq sShares' /\ sMounted' \subseteq sShares'
    BY <1>2, <1>11 DEF Shares!saved, Shares!view, Shares!EditShare
  <2>2. QED  BY <1>2, <1>3, <1>4, <2>1, SharesKept
<1>12. CASE Shares!ToggleStartup
  <2>1. /\ UNCHANGED <<sStale, sSources, sPinned, sClipboard, sHeld, sCurrent, sOpen>>
        /\ sShares \subseteq sShares' /\ sMounted' \subseteq sShares'
    BY <1>2, <1>12 DEF Shares!saved, Shares!view, Shares!ToggleStartup
  <2>2. QED  BY <1>2, <1>3, <1>4, <2>1, SharesKept
<1>13. CASE Shares!RemoveShare
  <2>1. PICK s \in sShares : /\ sShares' = sShares \ {s} /\ sMounted' = sMounted \ {s}
                            /\ Shares!RemoveSaved(s)
                            /\ sStale' = {p \in sStale : ~Shares!Below(p, s)}
                                 \cup IF Shares!ListOpen
                                      THEN {p \in sHeld : Shares!Below(p, s)} ELSE {}
    BY <1>13 DEF Shares!RemoveShare
  <2>2. UNCHANGED <<sHeld, sCurrent, sOpen>> /\ Shares!Last(sOpen) = "shares"
    BY <1>13 DEF Shares!RemoveShare, Shares!view, Shares!InFront
  <2>3. /\ sSources' = {p \in sSources : p[1] # s} /\ sPinned' = {p \in sPinned : p[1] # s}
        /\ sClipboard' = Shares!NoPath \/ (sClipboard' = sClipboard /\ sClipboard[1] # s)
    BY <2>1 DEF Shares!RemoveSaved, Shares!Below
  <2>4. Shares!SavedHaveShares'
    BY <1>1, <1>3, <2>1, <2>3 DEF Shares!SavedHaveShares, Shares!OnShare, Shares!Below
  <2>5. Shares!HeldHaveShares'
    BY <1>3, <1>4, <2>1, <2>2 DEF Shares!HeldHaveShares, Shares!OnShare, Shares!Below
  <2>6. Shares!BrowsesShare' /\ sMounted' \subseteq sShares'
    BY <1>2, <1>4, <2>1, <2>2 DEF Shares!BrowsesShare
  <2>7. QED  BY <1>4, <2>2, <2>4, <2>5, <2>6 DEF Shares!IInv
<1>14. CASE Shares!Enter
  <2>1. /\ UNCHANGED <<sShares, sStale, sSources, sPinned, sClipboard, sHeld, sOpen>>
        /\ sMounted' \subseteq sShares' /\ Shares!Last(sOpen) = "browser"
        /\ sCurrent'[1] = Shares!Card \/ sCurrent'[1] \in sShares
    BY <1>2, <1>14 DEF Shares!Enter, Shares!Browsing, Shares!InFront, Shares!saved
  <2>2. QED  BY <1>2, <1>3, <1>4, <2>1, SharesKept
<1>15. CASE Shares!Unavailable
  <2>1. /\ UNCHANGED <<sShares, sStale, sSources, sPinned, sClipboard, sHeld, sOpen>>
        /\ sMounted' \subseteq sShares' /\ sCurrent' = Shares!NoPath
    BY <1>2, <1>15 DEF Shares!Unavailable, Shares!saved
  <2>2. QED  BY <1>2, <1>3, <1>4, <2>1, SharesKept
<1>16. CASE Shares!TogglePinned
  <2>1. /\ UNCHANGED <<sShares, sMounted, sStale, sSources, sClipboard, sHeld, sCurrent, sOpen>>
        /\ Shares!Last(sOpen) = "browser" /\ sCurrent # Shares!NoPath
        /\ \A p \in sPinned' : p \in sPinned \/ p[1] = sCurrent[1]
    BY <1>16 DEF Shares!TogglePinned, Shares!Browsing, Shares!InFront, Shares!view
  <2>2. \A p \in sPinned' : Shares!OnShare(p) => p[1] \in sShares
    BY <1>3, <2>1, SharesShown DEF Shares!OnShare
  <2>3. QED  BY <1>2, <1>3, <1>4, <2>1, <2>2, SharesKept
<1>17. CASE Shares!PutOnClipboard
  <2>1. /\ UNCHANGED <<sShares, sMounted, sStale, sSources, sPinned, sHeld, sCurrent, sOpen>>
        /\ Shares!Last(sOpen) = "browser" /\ sCurrent # Shares!NoPath
        /\ sClipboard'[1] = sCurrent[1]
    BY <1>17
       DEF Shares!PutOnClipboard, Shares!Managing, Shares!Browsing, Shares!InFront,
           Shares!view, Shares!network
  <2>2. Shares!OnShare(sClipboard') => sClipboard'[1] \in sShares
    BY <2>1, SharesShown DEF Shares!OnShare
  <2>3. QED  BY <1>2, <1>3, <1>4, <2>1, <2>2, SharesKept
<1>18. CASE Shares!MoveFolder
  <2>1. PICK from \in Shares!Path, to \in Shares!Path :
          /\ to[1] = sCurrent[1]
          /\ sSources' = {Shares!Renamed(p, from, to) : p \in sSources}
          /\ sPinned' = {Shares!Renamed(p, from, to) : p \in sPinned}
          /\ \/ sClipboard' = Shares!NoPath
             \/ sClipboard' = Shares!Renamed(sClipboard, from, to)
    BY <1>18 DEF Shares!MoveFolder
  <2>2. /\ UNCHANGED <<sShares, sMounted, sStale, sHeld, sCurrent, sOpen>>
        /\ Shares!Last(sOpen) = "browser" /\ sCurrent # Shares!NoPath
    BY <1>18
       DEF Shares!MoveFolder, Shares!Managing, Shares!Browsing, Shares!InFront,
           Shares!view, Shares!network
  <2>3. Shares!OnShare(to) => to[1] \in sShares
    BY <2>1, <2>2, SharesShown DEF Shares!OnShare
  <2>4. /\ \A p \in sSources' : p = to \/ p \in sSources
        /\ \A p \in sPinned' : p = to \/ p \in sPinned
        /\ sClipboard' = Shares!NoPath \/ sClipboard' = to \/ sClipboard' = sClipboard
    BY <2>1 DEF Shares!Renamed
  <2>5. /\ \A p \in sSources' : Shares!OnShare(p) => p[1] \in sShares \/ p \in sStale
        /\ \A p \in sPinned' \cup {sClipboard'} : Shares!OnShare(p) => p[1] \in sShares
    BY <1>1, <1>3, <2>3, <2>4 DEF Shares!OnShare
  <2>6. QED  BY <1>2, <1>3, <1>4, <2>2, <2>5, SharesKept
<1>19. CASE Shares!PickFolder
  <2>1. /\ UNCHANGED <<sShares, sMounted, sStale, sSources, sPinned, sClipboard, sHeld>>
        /\ Shares!Last(sOpen) = "folders" /\ sOpen' = Append(sOpen, "browser")
        /\ sCurrent' = Shares!NoPath \/ sCurrent'[1] = Shares!Card \/ sCurrent'[1] \in sMounted
    BY <1>19
       DEF Shares!saved, Shares!network, Shares!PickFolder, Shares!InFront
  <2>2. /\ Shares!Opened' /\ Shares!Last(sOpen') # "shares"
        /\ Shares!ListOpen' => Shares!ListOpen
    BY <1>2, <2>1, SharesOpen
  <2>3. QED  BY <1>2, <1>3, <2>1, <2>2, SharesKept
<1>20. CASE Shares!UseFolder
  <2>1. /\ UNCHANGED <<sShares, sMounted, sStale, sPinned, sClipboard, sCurrent>>
        /\ Shares!Last(sOpen) = "browser" /\ ~Shares!Managing
        /\ sCurrent # Shares!NoPath /\ sOpen' = Shares!Front(sOpen)
        /\ \A p \in sHeld' : p \in sHeld \cup sSources \/ p = sCurrent
        /\ \A p \in sSources' : p \in sHeld \cup sSources \/ p = sCurrent
    BY <1>20 DEF Shares!UseFolder, Shares!Browsing, Shares!InFront, Shares!SaveSources
  <2>2. Shares!ListOpen /\ Shares!BrowserOpen
    BY <1>2, <2>1, SharesPicking, SharesLibrary
  <2>3. Shares!Opened' /\ Shares!Last(sOpen') # "shares"
    BY <1>2, <2>1, SharesClose, SharesLibrary
  <2>4. \A p \in sHeld \cup sSources \cup {sCurrent} :
          Shares!OnShare(p) => p[1] \in sShares \/ p \in sStale
    BY <1>3, <2>1, <2>2, SharesShown DEF Shares!OnShare
  <2>5. QED  BY <1>2, <1>3, <2>1, <2>2, <2>3, <2>4, SharesKept
<1>21. CASE Shares!MoveSource
  <2>1. /\ UNCHANGED <<sShares, sMounted, sStale, sPinned, sClipboard, sCurrent, sOpen>>
        /\ Shares!Last(sOpen) = "folders"
        /\ sHeld' \subseteq sHeld /\ sSources' \subseteq sHeld
    BY <1>21 DEF Shares!MoveSource, Shares!InFront, Shares!SaveSources, Shares!network
  <2>2. Shares!ListOpen
    BY <1>2, <2>1, SharesLibrary
  <2>3. QED  BY <1>2, <1>3, <1>4, <2>1, <2>2, SharesKept
<1>22. CASE Shares!RemoveSource
  <2>1. /\ UNCHANGED <<sShares, sMounted, sStale, sPinned, sClipboard, sCurrent, sOpen>>
        /\ Shares!Last(sOpen) = "folders"
        /\ sHeld' \subseteq sHeld /\ sSources' \subseteq sHeld
    BY <1>22 DEF Shares!RemoveSource, Shares!InFront, Shares!SaveSources, Shares!network
  <2>2. Shares!ListOpen
    BY <1>2, <2>1, SharesLibrary
  <2>3. QED  BY <1>2, <1>3, <1>4, <2>1, <2>2, SharesKept
<1>23. QED
  BY <1>5, <1>6, <1>7, <1>8, <1>9, <1>10, <1>11, <1>12, <1>13, <1>14, <1>15, <1>16, <1>17,
     <1>18, <1>19, <1>20, <1>21, <1>22
     DEF Shares!Next

(* The invariant says more than SavedHaveShares.                           *)
LEMMA SharesSafe == Shares!IInv => Shares!SavedHaveShares
  BY DEF Shares!IInv

(* The invariant is about the variables alone.                              *)
LEMMA SharesStutter == Shares!IInv /\ UNCHANGED Shares!vars => Shares!IInv'
  BY DEF Shares!vars, Shares!IInv, Shares!Opened, Shares!BrowserOpen, Shares!BrowsesShare,
         Shares!ListOpen, Shares!HeldHaveShares, Shares!SavedHaveShares, Shares!OnShare

HIDE DEF sShares, sMounted, sSources, sPinned, sClipboard, sOpen, sHeld, sCurrent, sStale

--------------------------------------------------------------------------------
(* Covers: a cover that is waited for comes, and it is the one on the card.      *)

oMode == v1
oPhase == v2
oFrame == v3
oPage == v4
oBudget == v5
oSel == v6
oAnswer == v7
oQueued == v9
oJobs == v11
oBusy == v12
oReady == v13
oDownloaded == v14
oUnnoticed == v15

USE DEF oMode, oPhase, oFrame, oPage, oBudget, oSel, oAnswer, oQueued, oJobs, oBusy, oReady,
        oDownloaded, oUnnoticed

(* The sequences of the requests.                                             *)
LEMMA CoversNothing ==
  /\ <<>> \in Seq(Covers!Request) /\ <<>> \in Seq(Covers!Job)
  /\ <<>> \in Seq(Covers!Result)
  OBVIOUS

LEMMA CoversOfPage ==
  ASSUME NEW p \in Int, NEW priority \in BOOLEAN
  PROVE  Covers!PageCovers(p, priority) \in Seq(Covers!Request)
<1>1. PICK first \in Int : first = p * Covers!PerPage
  BY CoversAssumption DEF Covers!PerPage
<1>2. PICK n \in Nat :
        Covers!PageCovers(p, priority) = [k \in 1 .. n |-> Covers!Asked(first + k, priority)]
  <2>1. Covers!PerPage \in Nat
    BY CoversAssumption DEF Covers!PerPage
  <2>2. PICK left \in Nat : left = IF first < LibrarySize THEN LibrarySize - first ELSE 0
    <3>1. CASE first < LibrarySize
      <4>1. LibrarySize - first \in Nat
        BY <3>1, CoversAssumption
      <4>2. QED  BY <3>1, <4>1
    <3>2. CASE ~(first < LibrarySize)
      BY <3>2
    <3>3. QED  BY <3>1, <3>2
  <2>3. PICK n \in Nat : n = IF Covers!PerPage < left THEN Covers!PerPage ELSE left
    BY <2>1
  <2>4. QED  BY <1>1, <2>2, <2>3 DEF Covers!PageCovers
<1>3. \A k \in 1 .. n : Covers!Asked(first + k, priority) \in Covers!Request
  BY DEF Covers!Asked, Covers!Request
<1>4. QED  BY <1>2, <1>3

LEMMA CoversPageOf == ASSUME NEW i \in Int PROVE Covers!PageOf(i) \in Int
  BY CoversAssumption DEF Covers!PageOf, Covers!PerPage

(* A sequence of jobs that a request goes through.                            *)
LEMMA CoversKept ==
  ASSUME Covers!TypeOK
  PROVE  /\ Covers!Kept \in Seq(Covers!Job)
         /\ \A g : Covers!Wanted(oJobs, g) # {} /\ g \notin Covers!Forgotten =>
                    Covers!Wanted(Covers!Kept, g) # {}
<1>1. PICK n \in Nat : n = Len(oJobs) /\ DOMAIN oJobs = 1 .. n /\ oJobs \in Seq(Covers!Job)
  BY DEF Covers!TypeOK
<1>2. CASE ~Covers!Dropping
  BY <1>1, <1>2 DEF Covers!Kept, Covers!Forgotten
<1>3. CASE Covers!Dropping
  <2>1. n > 0 /\ n \in 1 .. n /\ n - 1 \in Nat
    BY <1>1, <1>3, CoversAssumption DEF Covers!Dropping
  <2>2. /\ Covers!Kept = SubSeq(oJobs, 1, n - 1) /\ Covers!Last(oJobs) = oJobs[n]
        /\ oJobs[n] \in Covers!Job
    BY <1>1, <1>3, <2>1 DEF Covers!Kept, Covers!Front, Covers!Last
  <2>3. \A i \in 1 .. n - 1 : i \in 1 .. n /\ oJobs[i] \in Covers!Job
    BY <1>1, <2>1
  <2>4. /\ SubSeq(oJobs, 1, n - 1) \in Seq(Covers!Job)
        /\ Len(SubSeq(oJobs, 1, n - 1)) = n - 1
        /\ \A i \in 1 .. n - 1 : SubSeq(oJobs, 1, n - 1)[i] = oJobs[i]
    BY <1>1, <2>1, <2>3
  <2>5. DOMAIN Covers!Kept = 1 .. n - 1 /\ \A i \in 1 .. n - 1 : Covers!Kept[i] = oJobs[i]
    BY <2>2, <2>4
  <2>7. ASSUME NEW g, Covers!Wanted(oJobs, g) # {}, g \notin Covers!Forgotten
        PROVE  Covers!Wanted(Covers!Kept, g) # {}
    <3>1. PICK i \in 1 .. n : oJobs[i].game = g /\ oJobs[i].wanted
      BY <1>1, <2>7 DEF Covers!Wanted
    <3>2. i # n
      BY <1>3, <2>2, <2>7, <3>1 DEF Covers!Forgotten
    <3>3. i \in 1 .. n - 1
      BY <3>2
    <3>4. QED  BY <2>5, <3>1, <3>3 DEF Covers!Wanted
  <2>8. QED  BY <2>2, <2>4, <2>7
<1>4. QED  BY <1>2, <1>3

LEMMA CoversToFront ==
  ASSUME Covers!TypeOK, NEW i \in DOMAIN oJobs, NEW g
  PROVE  /\ Covers!ToFront(oJobs, i) \in Seq(Covers!Job)
         /\ Covers!Wanted(oJobs, g) # {} => Covers!Wanted(Covers!ToFront(oJobs, i), g) # {}
<1>1. PICK n \in Nat : n = Len(oJobs) /\ DOMAIN oJobs = 1 .. n /\ oJobs \in Seq(Covers!Job)
  BY DEF Covers!TypeOK
<1>2. i \in 1 .. n /\ 1 \in 1 .. n
  BY <1>1
<1>3. PICK s : s = Covers!ToFront(oJobs, i)
  OBVIOUS
<1>4. /\ DOMAIN s = 1 .. n /\ s[1] = oJobs[i]
      /\ \A k \in 1 .. n : k # 1 /\ k <= i => s[k] = oJobs[k - 1]
      /\ \A k \in 1 .. n : k # 1 /\ ~(k <= i) => s[k] = oJobs[k]
      /\ s = [k \in 1 .. n |-> s[k]]
  BY <1>1, <1>2, <1>3 DEF Covers!ToFront
<1>5. \A k \in 1 .. n : s[k] \in Covers!Job
  <2> SUFFICES ASSUME NEW k \in 1 .. n PROVE s[k] \in Covers!Job
    OBVIOUS
  <2>1. CASE k = 1
    BY <1>1, <1>2, <1>4, <2>1
  <2>2. CASE k # 1 /\ k <= i
    <3>1. k - 1 \in 1 .. n
      BY <2>2
    <3>2. QED  BY <1>1, <1>4, <2>2, <3>1
  <2>3. CASE k # 1 /\ ~(k <= i)
    BY <1>1, <1>4, <2>3
  <2>4. QED  BY <2>1, <2>2, <2>3
<1>6. s \in Seq(Covers!Job)
  BY <1>4, <1>5
<1>7. ASSUME Covers!Wanted(oJobs, g) # {} PROVE Covers!Wanted(s, g) # {}
  <2>1. PICK k \in 1 .. n : oJobs[k].game = g /\ oJobs[k].wanted
    BY <1>1, <1>7 DEF Covers!Wanted
  <2>2. CASE k = i
    BY <1>2, <1>4, <2>1, <2>2 DEF Covers!Wanted
  <2>3. CASE k < i
    <3>1. k + 1 \in 1 .. n /\ k + 1 # 1 /\ k + 1 <= i /\ (k + 1) - 1 = k
      BY <1>2, <2>3
    <3>2. s[k + 1] = oJobs[k]
      BY <1>4, <3>1
    <3>3. QED  BY <1>4, <2>1, <3>1, <3>2 DEF Covers!Wanted
  <2>4. CASE k > i
    <3>1. k # 1 /\ ~(k <= i)
      BY <1>2, <2>4
    <3>2. QED  BY <1>4, <2>1, <3>1 DEF Covers!Wanted
  <2>5. QED  BY <1>2, <2>2, <2>3, <2>4
<1>8. QED  BY <1>3, <1>6, <1>7

(* A step that leaves requests, results and what was read as they are.        *)
LEMMA CoversSame ==
  ASSUME Covers!IInv,
         UNCHANGED <<oAnswer, oQueued, Covers!queue, Covers!history>>,
         oMode' \in {"grid", "menu", "download", "import"},
         oPhase' \in {"pump", "events", "draw"},
         oSel' \in Int, oPage' \in Seq(Covers!Request), oBudget' \in Nat
  PROVE  Covers!IInv'
<1>1. UNCHANGED <<oAnswer, oQueued, oJobs, oBusy, oReady, oDownloaded, oUnnoticed>>
  BY DEF Covers!queue, Covers!history
<1>2. Covers!TypeOK'
  BY <1>1 DEF Covers!IInv, Covers!TypeOK
<1>3. Covers!QueuedIsServed'
  BY <1>1 DEF Covers!IInv, Covers!QueuedIsServed, Covers!Wanted
<1>4. Covers!CoverIsCurrent' /\ Covers!ComingIsCurrent'
  BY <1>1 DEF Covers!IInv, Covers!CoverIsCurrent, Covers!ComingIsCurrent
<1>5. QED  BY <1>2, <1>3, <1>4 DEF Covers!IInv

LEMMA CoversNavigate ==
  ASSUME Covers!IInv, Covers!Navigate
  PROVE  Covers!IInv'
<1>1. oSel \in Int /\ PageCols \in Int /\ Covers!PerPage \in Int /\ LibrarySize \in Int
  BY CoversAssumption DEF Covers!IInv, Covers!TypeOK, Covers!PerPage
<1>2. PICK p \in Int : p = Covers!PageOf(oSel)
  BY <1>1, CoversPageOf
<1>3. Covers!Position(oSel) \in Int
  BY <1>1, CoversAssumption DEF Covers!Position, Covers!PerPage
<1>5. oSel' \in Int
  <2>1. ASSUME NEW dx \in {1, 0, -1}, NEW dy \in {1, 0, -1}
        PROVE  Covers!gridNav(oSel, dx, dy) \in Int
    <3>1. /\ Covers!Position(oSel) \div PageCols \in Int
          /\ Covers!Position(oSel) % PageCols \in Int
      BY <1>3, CoversAssumption
    <3>2. PICK row \in Int, col \in Int :
            row = Covers!Position(oSel) \div PageCols /\ col = Covers!Position(oSel) % PageCols
      BY <3>1
    <3>3. /\ Covers!Cell(p + 1, row, 0) \in Int
          /\ Covers!Cell(p - 1, row, PageCols - 1) \in Int
      BY <1>1, <1>2, <3>2 DEF Covers!Cell
    <3>4. Covers!Clamped(Covers!Cell(p + 1, row, 0)) \in Int
      BY <1>1, <3>3 DEF Covers!Clamped
    <3>5. \/ Covers!gridNav(oSel, dx, dy) = oSel + 1
          \/ Covers!gridNav(oSel, dx, dy) = Covers!Clamped(Covers!Cell(p + 1, row, 0))
          \/ Covers!gridNav(oSel, dx, dy) = oSel - 1
          \/ Covers!gridNav(oSel, dx, dy) = Covers!Cell(p - 1, row, PageCols - 1)
          \/ Covers!gridNav(oSel, dx, dy) = oSel + PageCols
          \/ Covers!gridNav(oSel, dx, dy) = oSel - PageCols
          \/ Covers!gridNav(oSel, dx, dy) = oSel
      BY <1>2, <3>2 DEF Covers!gridNav
    <3>6. QED  BY <1>1, <3>3, <3>4, <3>5
  <2>2. ASSUME NEW dir \in {-1, 1} PROVE Covers!gridPage(oSel, dir) \in Int
    <3>1. PICK q \in Int : q = p + dir
      BY <1>2
    <3>2. PICK a \in Int : a = q * Covers!PerPage
      BY <1>1, <3>1
    <3>3. Covers!Clamped(a + Covers!Position(oSel) + 1) \in Int
      BY <1>1, <1>3 DEF Covers!Clamped
    <3>4. \/ Covers!gridPage(oSel, dir) = oSel
          \/ Covers!gridPage(oSel, dir) = Covers!Clamped(a + Covers!Position(oSel) + 1)
      BY <1>2, <3>1, <3>2 DEF Covers!gridPage
    <3>5. QED  BY <1>1, <3>3, <3>4
  <2>3. \/ \E d \in {<<1, 0>>, <<-1, 0>>, <<0, 1>>, <<0, -1>>} :
             oSel' = Covers!gridNav(oSel, d[1], d[2])
        \/ \E dir \in {-1, 1} : oSel' = Covers!gridPage(oSel, dir)
    BY DEF Covers!Navigate
  <2>4. CASE \E dir \in {-1, 1} : oSel' = Covers!gridPage(oSel, dir)
    BY <2>2, <2>4
  <2>5. CASE \E d \in {<<1, 0>>, <<-1, 0>>, <<0, 1>>, <<0, -1>>} :
               oSel' = Covers!gridNav(oSel, d[1], d[2])
    <3>1. PICK d \in {<<1, 0>>, <<-1, 0>>, <<0, 1>>, <<0, -1>>} :
            oSel' = Covers!gridNav(oSel, d[1], d[2])
      BY <2>5
    <3>2. PICK dx \in {1, 0, -1}, dy \in {1, 0, -1} : dx = d[1] /\ dy = d[2]
      OBVIOUS
    <3>3. QED  BY <2>1, <3>1, <3>2
  <2>6. QED  BY <2>3, <2>4, <2>5
<1>6. /\ UNCHANGED <<oAnswer, oQueued, Covers!queue, Covers!history>>
      /\ oMode' = oMode /\ oPhase' = oPhase /\ oPage' = oPage /\ oBudget' = oBudget
  BY DEF Covers!Navigate, Covers!drawing, Covers!shown
<1>7. QED  BY <1>5, <1>6, CoversSame DEF Covers!IInv, Covers!TypeOK

(* The drawing, and the screens that are opened and closed.                   *)
LEMMA CoversDraw ==
  ASSUME Covers!IInv,
         \/ Covers!Draw \/ Covers!Present \/ Covers!OpenMenu
         \/ Covers!CloseMenu \/ Covers!StartImport \/ Covers!StartDownload
  PROVE  Covers!IInv'
<1>1. oSel \in Int /\ oPage \in Seq(Covers!Request) /\ oBudget \in Nat
  BY DEF Covers!IInv, Covers!TypeOK
<1>2. oPage' \in Seq(Covers!Request) /\ oBudget' \in Nat
  <2>1. PICK r \in Covers!Request : r = Covers!Asked(oSel, TRUE)
    BY <1>1 DEF Covers!Asked, Covers!Request
  <2>2. PICK one \in Seq(Covers!Request) : one = <<r>>
    <3>1. <<r>> \in Seq(Covers!Request)
      OBVIOUS
    <3>2. QED  BY <3>1
  <2>3. CASE oPage' = oPage /\ oBudget' = oBudget
    BY <1>1, <2>3
  <2>4. CASE Covers!DrawMenu
    BY <2>1, <2>2, <2>4 DEF Covers!DrawMenu
  <2>5. CASE Covers!DrawGrid
    <3>1. PICK p \in Int, q \in Int : p = Covers!PageOf(oSel) /\ q = p + 1
      BY <1>1, CoversPageOf
    <3>3. PICK this \in Seq(Covers!Request), next \in Seq(Covers!Request) :
            this = Covers!PageCovers(p, TRUE) /\ next = Covers!PageCovers(q, FALSE)
      BY CoversOfPage
    <3>4. oPage' = one \o this \o one \o next /\ oBudget' = RequestBudget
      BY <2>1, <2>2, <2>5, <3>1, <3>3 DEF Covers!DrawGrid
    <3>5. QED  BY <3>4, CoversAssumption
  <2>6. QED
    BY <2>3, <2>4, <2>5
       DEF Covers!Draw, Covers!Present, Covers!OpenMenu, Covers!CloseMenu,
           Covers!StartImport, Covers!StartDownload, Covers!DrawProgress, Covers!drawing
<1>3. /\ UNCHANGED <<oAnswer, oQueued, Covers!queue, Covers!history>> /\ oSel' = oSel
      /\ oMode' \in {"grid", "menu", "download", "import"}
      /\ oPhase' \in {"pump", "events", "draw"}
  BY DEF Covers!Draw, Covers!Present, Covers!OpenMenu, Covers!CloseMenu, Covers!StartImport,
         Covers!StartDownload, Covers!shown, Covers!IInv, Covers!TypeOK
<1>4. QED  BY <1>1, <1>2, <1>3, CoversSame

LEMMA CoversAsk ==
  ASSUME Covers!IInv, Covers!ensureCover
  PROVE  Covers!IInv'
<1>1. /\ Covers!TypeOK /\ Covers!QueuedIsServed /\ Covers!CoverIsCurrent
      /\ Covers!ComingIsCurrent
      /\ oPage \in Seq(Covers!Request) /\ oPage # <<>>
  BY DEF Covers!IInv, Covers!TypeOK, Covers!ensureCover
<1>2. Head(oPage) \in Covers!Request /\ Tail(oPage) \in Seq(Covers!Request)
  BY <1>1
<1>3. PICK g \in Int, priority \in BOOLEAN :
        g = Head(oPage).game /\ priority = Head(oPage).priority
  BY <1>2 DEF Covers!Request
<1>4. /\ oPage' = Tail(oPage)
      /\ UNCHANGED <<oMode, oPhase, oSel, oAnswer, oBusy, oReady, oDownloaded, oUnnoticed>>
      /\ UNCHANGED <<oJobs, oQueued, oBudget>> \/ Covers!queueCoverDecode(g, priority)
  BY <1>3 DEF Covers!ensureCover, Covers!history
<1>5. SUFFICES /\ oJobs' \in Seq(Covers!Job) /\ oQueued' \subseteq Int /\ oBudget' \in Nat
               /\ Covers!QueuedIsServed'
  <2>1. Covers!CoverIsCurrent' /\ Covers!ComingIsCurrent'
    BY <1>1, <1>4 DEF Covers!CoverIsCurrent, Covers!ComingIsCurrent
  <2>2. ASSUME oJobs' \in Seq(Covers!Job), oQueued' \subseteq Int, oBudget' \in Nat
        PROVE  Covers!TypeOK'
    BY <1>1, <1>2, <1>4, <2>2 DEF Covers!TypeOK
  <2>3. QED  BY <2>1, <2>2 DEF Covers!IInv
<1>6. CASE UNCHANGED <<oJobs, oQueued, oBudget>>
  BY <1>1, <1>4, <1>6 DEF Covers!TypeOK, Covers!QueuedIsServed, Covers!Wanted
<1>7. CASE \E i \in Covers!Wanted(oJobs, g) :
             oJobs' = Covers!ToFront(oJobs, i) /\ UNCHANGED <<oQueued, oBudget>>
  <2>1. PICK i \in DOMAIN oJobs : oJobs' = Covers!ToFront(oJobs, i)
    BY <1>7 DEF Covers!Wanted
  <2>2. oQueued' = oQueued /\ oBudget' = oBudget
    BY <1>7
  <2>3. oJobs' \in Seq(Covers!Job)
    BY <1>1, <2>1, CoversToFront
  <2>4. \A h : Covers!Wanted(oJobs, h) # {} => Covers!Wanted(oJobs', h) # {}
    BY <1>1, <2>1, CoversToFront
  <2>5. QED
    BY <1>1, <1>4, <2>2, <2>3, <2>4
       DEF Covers!TypeOK, Covers!QueuedIsServed, Covers!Wanted
<1>8. CASE /\ oBudget # 0 /\ oBudget' = oBudget - 1
           /\ oQueued' = (oQueued \ Covers!Forgotten) \cup {g}
           /\ LET job == <<[game |-> g, wanted |-> TRUE]>>
              IN oJobs' = IF priority THEN job \o Covers!Kept ELSE Covers!Kept \o job
  <2>1. oBudget' \in Nat /\ oQueued' \subseteq Int
    <3>1. oBudget \in Nat /\ oQueued \subseteq Int
      BY <1>1 DEF Covers!TypeOK
    <3>2. oBudget # 0 /\ oBudget' = oBudget - 1
      BY <1>8
    <3>3. oBudget' \in Nat
      BY <3>1, <3>2
    <3>4. oQueued' \subseteq Int
      BY <1>8, <3>1
    <3>5. QED  BY <3>3, <3>4
  <2>2. PICK r \in Covers!Job : r = [game |-> g, wanted |-> TRUE]
    BY DEF Covers!Job
  <2>3. r.game = g /\ r.wanted
    BY <2>2
  <2>4. PICK kept \in Seq(Covers!Job) : kept = Covers!Kept
    BY <1>1, CoversKept
  <2>5. PICK n \in Nat : n = Len(kept) /\ DOMAIN kept = 1 .. n
    BY <2>4
  <2>6. oJobs' = <<r>> \o kept \/ oJobs' = kept \o <<r>>
    BY <1>8, <2>2, <2>4
  <2>7. /\ oJobs' \in Seq(Covers!Job) /\ Covers!Wanted(oJobs', g) # {}
        /\ \A h : Covers!Wanted(kept, h) # {} => Covers!Wanted(oJobs', h) # {}
    <3>1. CASE oJobs' = <<r>> \o kept
      <4>1. /\ oJobs' \in Seq(Covers!Job) /\ DOMAIN oJobs' = 1 .. n + 1 /\ oJobs'[1] = r
            /\ \A i \in 1 .. n : oJobs'[i + 1] = kept[i]
        BY <2>5, <3>1
      <4>2. 1 \in 1 .. n + 1 /\ \A i \in 1 .. n : i + 1 \in 1 .. n + 1
        BY <2>5
      <4>3. ASSUME NEW h, Covers!Wanted(kept, h) # {} PROVE Covers!Wanted(oJobs', h) # {}
        <5>1. PICK i \in 1 .. n : kept[i].game = h /\ kept[i].wanted
          BY <2>5, <4>3 DEF Covers!Wanted
        <5>2. QED  BY <4>1, <4>2, <5>1 DEF Covers!Wanted
      <4>4. Covers!Wanted(oJobs', g) # {}
        BY <2>3, <4>1, <4>2 DEF Covers!Wanted
      <4>5. QED  BY <4>1, <4>3, <4>4
    <3>2. CASE oJobs' = kept \o <<r>>
      <4>1. /\ oJobs' \in Seq(Covers!Job) /\ DOMAIN oJobs' = 1 .. n + 1 /\ oJobs'[n + 1] = r
            /\ \A i \in 1 .. n : oJobs'[i] = kept[i]
        BY <2>5, <3>2
      <4>2. n + 1 \in 1 .. n + 1 /\ \A i \in 1 .. n : i \in 1 .. n + 1
        BY <2>5
      <4>3. ASSUME NEW h, Covers!Wanted(kept, h) # {} PROVE Covers!Wanted(oJobs', h) # {}
        <5>1. PICK i \in 1 .. n : kept[i].game = h /\ kept[i].wanted
          BY <2>5, <4>3 DEF Covers!Wanted
        <5>2. QED  BY <4>1, <4>2, <5>1 DEF Covers!Wanted
      <4>4. Covers!Wanted(oJobs', g) # {}
        BY <2>3, <4>1, <4>2 DEF Covers!Wanted
      <4>5. QED  BY <4>1, <4>3, <4>4
    <3>3. QED  BY <2>6, <3>1, <3>2
  <2>8. ASSUME NEW h \in oQueued'
        PROVE  \/ Covers!Wanted(oJobs', h) # {} \/ Covers!Wanted(oReady', h) # {}
               \/ oBusy'.game = h /\ oBusy'.wanted /\ oBusy'.fresh
    <3>1. CASE h = g
      BY <2>7, <3>1
    <3>2. CASE h \in oQueued /\ h \notin Covers!Forgotten
      <4>1. Covers!Wanted(oJobs, h) # {} => Covers!Wanted(oJobs', h) # {}
        BY <1>1, <2>4, <2>7, <3>2, CoversKept
      <4>2. QED  BY <1>1, <1>4, <3>2, <4>1 DEF Covers!QueuedIsServed, Covers!Wanted
    <3>3. QED  BY <1>8, <3>1, <3>2
  <2>9. QED  BY <2>1, <2>7, <2>8 DEF Covers!QueuedIsServed
<1>9. QED  BY <1>4, <1>6, <1>7, <1>8 DEF Covers!queueCoverDecode

(* The worker.                                                                *)
LEMMA CoversTakeJob ==
  ASSUME Covers!IInv, Covers!TakeJob
  PROVE  Covers!IInv'
<1>1. /\ Covers!TypeOK /\ Covers!QueuedIsServed /\ Covers!CoverIsCurrent
      /\ Covers!ComingIsCurrent
      /\ oJobs \in Seq(Covers!Job) /\ oJobs # <<>>
  BY DEF Covers!IInv, Covers!TypeOK, Covers!TakeJob
<1>2. Head(oJobs) \in Covers!Job /\ Head(oJobs) = oJobs[1] /\ oJobs' = Tail(oJobs)
  BY <1>1 DEF Covers!TakeJob
<1>3. /\ oBusy' = [game |-> oJobs[1].game, wanted |-> oJobs[1].wanted,
                  fresh |-> TRUE, read |-> "none"]
      /\ UNCHANGED <<oMode, oPhase, oSel, oPage, oBudget, oAnswer, oQueued, oReady>>
      /\ UNCHANGED <<oDownloaded, oUnnoticed>>
  BY <1>2 DEF Covers!TakeJob, Covers!screen, Covers!drawing, Covers!shown, Covers!history
<1>4. PICK n \in Nat : n = Len(oJobs) /\ DOMAIN oJobs = 1 .. n
  BY <1>1
<1>5. n # 0 /\ n - 1 \in Nat
  BY <1>1, <1>4
<1>6. /\ oJobs' \in Seq(Covers!Job) /\ DOMAIN oJobs' = 1 .. n - 1
      /\ \A i \in 1 .. n - 1 : oJobs'[i] = oJobs[i + 1]
  BY <1>1, <1>2, <1>4, <1>5
<1>7. oBusy' \in Covers!Work /\ oBusy'.fresh /\ oBusy'.read = "none"
  BY <1>2, <1>3 DEF Covers!Job, Covers!Work, Covers!Read
<1>8. oBusy'.game = oJobs[1].game /\ (oBusy'.wanted <=> oJobs[1].wanted)
  BY <1>3
<1>9. Covers!TypeOK'
  BY <1>1, <1>3, <1>6, <1>7 DEF Covers!TypeOK
<1>10. Covers!CoverIsCurrent' /\ Covers!ComingIsCurrent'
  BY <1>1, <1>3, <1>7 DEF Covers!CoverIsCurrent, Covers!ComingIsCurrent
<1>11. ASSUME NEW g, Covers!Wanted(oJobs, g) # {}, Covers!Wanted(oJobs', g) = {}
       PROVE  oBusy'.game = g /\ oBusy'.wanted
  <2>1. PICK i \in 1 .. n : oJobs[i].game = g /\ oJobs[i].wanted
    BY <1>4, <1>11 DEF Covers!Wanted
  <2>2. CASE i = 1
    BY <1>8, <2>1, <2>2
  <2>3. CASE i # 1
    <3>1. PICK k \in 1 .. n - 1 : k + 1 = i
      <4>1. i - 1 \in 1 .. n - 1 /\ (i - 1) + 1 = i
        BY <2>3
      <4>2. QED  BY <4>1
    <3>2. oJobs'[k].game = g /\ oJobs'[k].wanted
      BY <1>6, <2>1, <3>1
    <3>3. QED  BY <1>6, <1>11, <3>2 DEF Covers!Wanted
  <2>4. QED  BY <2>2, <2>3
<1>12. ASSUME NEW g \in oQueued, Covers!Wanted(oJobs', g) = {}, Covers!Wanted(oReady', g) = {}
       PROVE  oBusy'.game = g /\ oBusy'.wanted /\ oBusy'.fresh
  <2>1. Covers!Wanted(oReady, g) = {}
    BY <1>3, <1>12 DEF Covers!Wanted
  <2>2. ~oBusy.fresh
    BY DEF Covers!TakeJob, Covers!Idle
  <2>3. Covers!Wanted(oJobs, g) # {}
    BY <1>1, <1>12, <2>1, <2>2 DEF Covers!QueuedIsServed
  <2>4. QED  BY <1>7, <1>11, <1>12, <2>3
<1>13. QED  BY <1>3, <1>9, <1>10, <1>12 DEF Covers!IInv, Covers!QueuedIsServed

LEMMA CoversDecode ==
  ASSUME Covers!IInv, Covers!decodeCover
  PROVE  Covers!IInv'
<1>1. /\ Covers!TypeOK /\ Covers!QueuedIsServed /\ Covers!CoverIsCurrent
      /\ Covers!ComingIsCurrent /\ oBusy \in Covers!Work
      /\ oBusy' = [oBusy EXCEPT !.read = "current"]
      /\ UNCHANGED <<oMode, oPhase, oSel, oPage, oBudget, oAnswer, oQueued, oJobs, oReady>>
      /\ UNCHANGED <<oDownloaded, oUnnoticed>>
  BY DEF Covers!IInv, Covers!TypeOK, Covers!decodeCover, Covers!screen, Covers!drawing,
         Covers!shown, Covers!history
<1>2. /\ oBusy' \in Covers!Work /\ oBusy'.game = oBusy.game /\ oBusy'.wanted = oBusy.wanted
      /\ oBusy'.fresh = oBusy.fresh /\ oBusy'.read = "current"
  BY <1>1 DEF Covers!Work, Covers!Read
<1>3. Covers!TypeOK' /\ Covers!CoverIsCurrent' /\ Covers!ComingIsCurrent'
  BY <1>1, <1>2 DEF Covers!TypeOK, Covers!CoverIsCurrent, Covers!ComingIsCurrent
<1>4. Covers!QueuedIsServed'
  BY <1>1, <1>2 DEF Covers!QueuedIsServed, Covers!Wanted
<1>5. QED  BY <1>3, <1>4 DEF Covers!IInv

LEMMA CoversPublish ==
  ASSUME Covers!IInv, Covers!Publish
  PROVE  Covers!IInv'
<1>1. /\ Covers!TypeOK /\ Covers!QueuedIsServed /\ Covers!CoverIsCurrent
      /\ Covers!ComingIsCurrent /\ oBusy \in Covers!Work
      /\ oReady \in Seq(Covers!Result) /\ oBusy' = Covers!Idle
      /\ UNCHANGED <<oMode, oPhase, oSel, oPage, oBudget, oAnswer, oQueued, oJobs>>
      /\ UNCHANGED <<oDownloaded, oUnnoticed>>
  BY DEF Covers!IInv, Covers!TypeOK, Covers!Publish, Covers!screen, Covers!drawing,
         Covers!shown, Covers!history
<1>2. oBusy' \in Covers!Work /\ ~oBusy'.wanted
  BY <1>1 DEF Covers!Idle, Covers!Work, Covers!Read
<1>3. PICK n \in Nat : n = Len(oReady) /\ DOMAIN oReady = 1 .. n
  BY <1>1
<1>4. SUFFICES /\ oReady' \in Seq(Covers!Result) /\ Covers!QueuedIsServed'
               /\ \A i \in DOMAIN oReady' :
                    oReady'[i].wanted /\ oReady'[i].read = "stale" =>
                      oReady'[i].game \in oDownloaded \cup oUnnoticed
  BY <1>1, <1>2
     DEF Covers!IInv, Covers!TypeOK, Covers!CoverIsCurrent, Covers!ComingIsCurrent
<1>5. CASE ~oBusy.fresh
  <2>1. oReady' = oReady
    BY <1>5 DEF Covers!Publish
  <2>2. QED
    BY <1>1, <1>5, <2>1
       DEF Covers!TypeOK, Covers!ComingIsCurrent, Covers!QueuedIsServed, Covers!Wanted
<1>6. CASE oBusy.fresh
  <2>1. PICK image \in BOOLEAN :
          oReady' = Append(oReady, [game |-> oBusy.game, wanted |-> oBusy.wanted,
                                  read |-> oBusy.read, image |-> image])
    BY <1>6 DEF Covers!Publish
  <2>2. PICK r \in Covers!Result : r = [game |-> oBusy.game, wanted |-> oBusy.wanted,
                                 read |-> oBusy.read, image |-> image]
    BY <1>1 DEF Covers!Work, Covers!Result
  <2>3. r.game = oBusy.game /\ (r.wanted <=> oBusy.wanted) /\ r.read = oBusy.read
    BY <2>2
  <2>4. /\ oReady' \in Seq(Covers!Result) /\ DOMAIN oReady' = 1 .. n + 1
        /\ oReady'[n + 1] = r
        /\ \A i \in 1 .. n : oReady'[i] = oReady[i]
    BY <1>1, <1>3, <2>1, <2>2
  <2>5. n + 1 \in 1 .. n + 1 /\ \A i \in 1 .. n : i \in 1 .. n + 1
    BY <1>3
  <2>6. \A i \in 1 .. n + 1 : i \in 1 .. n \/ i = n + 1
    BY <1>3
  <2>7. \A i \in DOMAIN oReady' :
          oReady'[i].wanted /\ oReady'[i].read = "stale" =>
            oReady'[i].game \in oDownloaded \cup oUnnoticed
    <3> SUFFICES ASSUME NEW i \in 1 .. n + 1, oReady'[i].wanted, oReady'[i].read = "stale"
                 PROVE  oReady'[i].game \in oDownloaded \cup oUnnoticed
      BY <2>4
    <3>1. CASE i \in 1 .. n
      BY <1>1, <1>3, <2>4, <3>1 DEF Covers!ComingIsCurrent
    <3>2. CASE i = n + 1
      BY <1>1, <2>3, <2>4, <3>2 DEF Covers!ComingIsCurrent
    <3>3. QED  BY <2>6, <3>1, <3>2
  <2>8. \A g : Covers!Wanted(oReady, g) # {} => Covers!Wanted(oReady', g) # {}
    BY <1>3, <2>4, <2>5 DEF Covers!Wanted
  <2>9. oBusy.wanted => Covers!Wanted(oReady', oBusy.game) # {}
    BY <2>3, <2>4, <2>5 DEF Covers!Wanted
  <2>10. ASSUME NEW g \in oQueued
         PROVE  Covers!Wanted(oJobs', g) # {} \/ Covers!Wanted(oReady', g) # {}
    <3>1. Covers!Wanted(oJobs, g) # {} => Covers!Wanted(oJobs', g) # {}
      BY <1>1 DEF Covers!Wanted
    <3>2. QED  BY <1>1, <2>8, <2>9, <3>1 DEF Covers!QueuedIsServed
  <2>11. QED  BY <1>1, <2>4, <2>7, <2>10 DEF Covers!QueuedIsServed
<1>7. QED  BY <1>5, <1>6

(* A result is installed, or found to be of no use.                           *)
LEMMA CoversPump ==
  ASSUME Covers!IInv, Covers!pumpCoverDecodeResults
  PROVE  Covers!IInv'
<1>1. /\ Covers!TypeOK /\ Covers!QueuedIsServed /\ Covers!CoverIsCurrent
      /\ Covers!ComingIsCurrent
      /\ oReady \in Seq(Covers!Result) /\ oAnswer \in [Covers!Game -> Covers!Read]
      /\ UNCHANGED <<oMode, oSel, oPage, oBudget, oJobs, oBusy, oDownloaded, oUnnoticed>>
      /\ oPhase' \in {"pump", "events", "draw"}
  BY DEF Covers!IInv, Covers!TypeOK, Covers!pumpCoverDecodeResults, Covers!drawing,
         Covers!history
<1>2. CASE UNCHANGED <<oReady, Covers!shown>>
  BY <1>1, <1>2, CoversSame DEF Covers!TypeOK, Covers!shown, Covers!queue, Covers!history
<1>3. CASE oReady # <<>> /\ oReady' = Tail(oReady) /\ Covers!InstallResult
  <2>1. PICK r \in Covers!Result : r = Head(oReady) /\ r = oReady[1]
    BY <1>1, <1>3
  <2>2. r.read \in Covers!Read /\ r.wanted \in BOOLEAN
    BY DEF Covers!Result
  <2>3. PICK n \in Nat : n = Len(oReady) /\ DOMAIN oReady = 1 .. n
    BY <1>1
  <2>4. n # 0 /\ n - 1 \in Nat
    BY <1>1, <1>3, <2>3
  <2>5. /\ oReady' \in Seq(Covers!Result) /\ DOMAIN oReady' = 1 .. n - 1
        /\ \A i \in 1 .. n - 1 : oReady'[i] = oReady[i + 1]
    BY <1>1, <1>3, <2>3, <2>4
  <2>6. 1 \in 1 .. n /\ \A i \in 1 .. n - 1 : i + 1 \in 1 .. n
    BY <2>3, <2>4
  <2>7. Covers!ComingIsCurrent'
    BY <1>1, <2>3, <2>5, <2>6 DEF Covers!ComingIsCurrent
  <2>8. r.wanted /\ r.read = "stale" => r.game \in oDownloaded \cup oUnnoticed
    BY <1>1, <2>1, <2>3, <2>6 DEF Covers!ComingIsCurrent
  <2>9. \/ ~r.wanted /\ oAnswer' = oAnswer /\ oQueued' = oQueued
        \/ /\ r.wanted /\ oQueued' = oQueued \ {r.game}
           /\ \/ Covers!Install(r.game, r.read)
              \/ oAnswer' = [oAnswer EXCEPT ![r.game] = r.read]
    BY <1>3, <2>1, <2>2 DEF Covers!InstallResult, Covers!shown
  <2>10. /\ oAnswer' \in [Covers!Game -> Covers!Read]
         /\ \A g \in Covers!Game :
              \/ oAnswer'[g] = oAnswer[g] \/ oAnswer'[g] = "none"
              \/ r.wanted /\ g = r.game /\ oAnswer'[g] = r.read
    <3>1. CASE oAnswer' = oAnswer
      BY <1>1, <3>1
    <3>2. CASE r.wanted /\ oAnswer' = [oAnswer EXCEPT ![r.game] = r.read]
      BY <1>1, <2>2, <3>2
    <3>3. CASE r.wanted /\ Covers!Install(r.game, r.read)
      <4>1. PICK victim :
              oAnswer' = [h \in Covers!Game |-> CASE h = r.game -> r.read
                                          [] h \in victim -> "none"
                                          [] OTHER -> oAnswer[h]]
        BY <3>3 DEF Covers!Install
      <4>2. "none" \in Covers!Read
        BY DEF Covers!Read
      <4>3. QED  BY <1>1, <2>2, <3>3, <4>1, <4>2
    <3>4. QED  BY <2>9, <3>1, <3>2, <3>3
  <2>11. Covers!CoverIsCurrent'
    BY <1>1, <2>8, <2>10 DEF Covers!CoverIsCurrent
  <2>12. ASSUME NEW g \in oQueued', Covers!Wanted(oJobs', g) = {}, Covers!Wanted(oReady', g) = {}
         PROVE  oBusy'.game = g /\ oBusy'.wanted /\ oBusy'.fresh
    <3>1. g \in oQueued /\ ~(r.wanted /\ g = r.game)
      BY <2>9
    <3>2. Covers!Wanted(oReady, g) = {}
      <4> SUFFICES ASSUME NEW i \in 1 .. n, oReady[i].game = g, oReady[i].wanted
                   PROVE  FALSE
        BY <2>3 DEF Covers!Wanted
      <4>1. i # 1
        BY <2>1, <3>1
      <4>2. PICK k \in 1 .. n - 1 : k + 1 = i
        <5>1. i - 1 \in 1 .. n - 1 /\ (i - 1) + 1 = i
          BY <4>1
        <5>2. QED  BY <5>1
      <4>3. oReady'[k].game = g /\ oReady'[k].wanted
        BY <2>5, <4>2
      <4>4. QED  BY <2>5, <2>12, <4>3 DEF Covers!Wanted
    <3>3. Covers!Wanted(oJobs, g) = {}
      BY <1>1, <2>12 DEF Covers!Wanted
    <3>4. QED  BY <1>1, <3>1, <3>2, <3>3 DEF Covers!QueuedIsServed
  <2>13. Covers!TypeOK'
    BY <1>1, <2>5, <2>9, <2>10 DEF Covers!TypeOK
  <2>14. QED  BY <2>7, <2>11, <2>12, <2>13 DEF Covers!IInv, Covers!QueuedIsServed
<1>4. QED  BY <1>2, <1>3 DEF Covers!pumpCoverDecodeResults, Covers!MayTake

(* Covers that change: G are asked for anew, the files of F are others.       *)
LEMMA CoversForget ==
  ASSUME Covers!IInv, NEW G, NEW F, Covers!Forget(G, F),
         \A g : g \in oDownloaded \cup oUnnoticed \cup F /\ g \notin G =>
                  g \in oDownloaded' \cup oUnnoticed'
  PROVE  /\ oAnswer' \in [Covers!Game -> Covers!Read] /\ oQueued' \subseteq Int
         /\ oJobs' \in Seq(Covers!Job) /\ oBusy' \in Covers!Work
         /\ oReady' \in Seq(Covers!Result)
         /\ Covers!QueuedIsServed' /\ Covers!CoverIsCurrent' /\ Covers!ComingIsCurrent'
<1>1. /\ Covers!TypeOK /\ Covers!QueuedIsServed /\ Covers!CoverIsCurrent
      /\ Covers!ComingIsCurrent
      /\ oJobs \in Seq(Covers!Job) /\ oBusy \in Covers!Work /\ oReady \in Seq(Covers!Result)
      /\ oAnswer \in [Covers!Game -> Covers!Read] /\ oQueued \subseteq Int
  BY DEF Covers!IInv, Covers!TypeOK
<1>2. ASSUME NEW r \in Covers!Job
      PROVE  /\ Covers!Unwanted(r, G) \in Covers!Job /\ Covers!Unwanted(r, G).game = r.game
             /\ Covers!Unwanted(r, G).wanted <=> r.wanted /\ r.game \notin G
  BY DEF Covers!Unwanted, Covers!Job
<1>3. ASSUME NEW r \in Covers!Work
      PROVE  /\ Covers!Unwanted(Covers!Aged(r, F), G) \in Covers!Work
             /\ Covers!Unwanted(Covers!Aged(r, F), G).game = r.game
             /\ Covers!Unwanted(Covers!Aged(r, F), G).wanted <=> r.wanted /\ r.game \notin G
             /\ Covers!Unwanted(Covers!Aged(r, F), G).fresh = r.fresh
             /\ Covers!Unwanted(Covers!Aged(r, F), G).read = "stale" =>
                  r.read = "stale" \/ r.game \in F
  BY DEF Covers!Unwanted, Covers!Aged, Covers!Work, Covers!Read
<1>4. ASSUME NEW r \in Covers!Result
      PROVE  /\ Covers!Unwanted(Covers!Aged(r, F), G) \in Covers!Result
             /\ Covers!Unwanted(Covers!Aged(r, F), G).game = r.game
             /\ Covers!Unwanted(Covers!Aged(r, F), G).wanted <=> r.wanted /\ r.game \notin G
             /\ Covers!Unwanted(Covers!Aged(r, F), G).read = "stale" =>
                  r.read = "stale" \/ r.game \in F
  BY DEF Covers!Unwanted, Covers!Aged, Covers!Result, Covers!Read
<1>5. PICK n \in Nat : n = Len(oJobs) /\ DOMAIN oJobs = 1 .. n
  BY <1>1
<1>6. PICK m \in Nat : m = Len(oReady) /\ DOMAIN oReady = 1 .. m
  BY <1>1
<1>7. /\ oJobs' = [i \in 1 .. n |-> Covers!Unwanted(oJobs[i], G)]
      /\ oReady' = [i \in 1 .. m |-> Covers!Unwanted(Covers!Aged(oReady[i], F), G)]
      /\ oBusy' = Covers!Unwanted(Covers!Aged(oBusy, F), G)
      /\ oQueued' = oQueued \ G
  BY <1>5, <1>6 DEF Covers!Forget
<1>8. /\ (\A i \in 1 .. n : oJobs[i] \in Covers!Job)
      /\ \A i \in 1 .. m : oReady[i] \in Covers!Result
  BY <1>1, <1>5, <1>6
<1>9. /\ oJobs' \in Seq(Covers!Job) /\ oBusy' \in Covers!Work
      /\ oReady' \in Seq(Covers!Result) /\ oQueued' \subseteq Int
  <2>1. \A i \in 1 .. n : Covers!Unwanted(oJobs[i], G) \in Covers!Job
    BY <1>2, <1>8
  <2>2. \A i \in 1 .. m : Covers!Unwanted(Covers!Aged(oReady[i], F), G) \in Covers!Result
    BY <1>4, <1>8
  <2>3. oJobs' \in Seq(Covers!Job)
    BY <1>7, <2>1
  <2>4. oReady' \in Seq(Covers!Result)
    BY <1>7, <2>2
  <2>5. QED  BY <1>1, <1>3, <1>7, <2>3, <2>4
<1>10. /\ oAnswer' \in [Covers!Game -> Covers!Read]
       /\ \A g \in Covers!Game :
            oAnswer'[g] = "stale" => g \notin G /\ (oAnswer[g] = "stale" \/ g \in F)
  <2>1. oAnswer' = [g \in Covers!Game |-> CASE g \in G -> "none"
                                    [] g \in F \ G /\ oAnswer[g] = "current" -> "stale"
                                    [] OTHER -> oAnswer[g]]
    BY DEF Covers!Forget
  <2>2. QED  BY <1>1, <2>1 DEF Covers!Read
<1>11. Covers!CoverIsCurrent'
  BY <1>1, <1>10 DEF Covers!CoverIsCurrent
<1>12. Covers!ComingIsCurrent'
  <2>1. oBusy'.wanted /\ oBusy'.read = "stale" => oBusy'.game \in oDownloaded' \cup oUnnoticed'
    BY <1>1, <1>3, <1>7 DEF Covers!ComingIsCurrent
  <2>2. ASSUME NEW i \in 1 .. m,
               oReady'[i].wanted, oReady'[i].read = "stale"
        PROVE  oReady'[i].game \in oDownloaded' \cup oUnnoticed'
    BY <1>1, <1>4, <1>6, <1>7, <1>8, <2>2 DEF Covers!ComingIsCurrent
  <2>3. DOMAIN oReady' = 1 .. m
    BY <1>7
  <2>4. QED  BY <2>1, <2>2, <2>3 DEF Covers!ComingIsCurrent
<1>13. Covers!QueuedIsServed'
  <2> SUFFICES ASSUME NEW g \in oQueued, g \notin G
               PROVE  \/ Covers!Wanted(oJobs', g) # {} \/ Covers!Wanted(oReady', g) # {}
                      \/ oBusy'.game = g /\ oBusy'.wanted /\ oBusy'.fresh
    BY <1>7 DEF Covers!QueuedIsServed
  <2>1. Covers!Wanted(oJobs, g) # {} => Covers!Wanted(oJobs', g) # {}
    BY <1>2, <1>5, <1>7, <1>8 DEF Covers!Wanted
  <2>2. Covers!Wanted(oReady, g) # {} => Covers!Wanted(oReady', g) # {}
    BY <1>4, <1>6, <1>7, <1>8 DEF Covers!Wanted
  <2>3. oBusy.game = g /\ oBusy.wanted /\ oBusy.fresh =>
          oBusy'.game = g /\ oBusy'.wanted /\ oBusy'.fresh
    BY <1>1, <1>3, <1>7
  <2>4. QED  BY <1>1, <2>1, <2>2, <2>3 DEF Covers!QueuedIsServed
<1>14. QED  BY <1>9, <1>10, <1>11, <1>12, <1>13

LEMMA CoversReload ==
  ASSUME Covers!IInv, Covers!reloadCover, UNCHANGED <<oFrame, oSel, oDownloaded>>,
         oMode' \in {"grid", "menu", "download", "import"}
  PROVE  Covers!IInv'
<1>1. oSel \in Int /\ oBudget \in Nat
  BY DEF Covers!IInv, Covers!TypeOK
<1>2. oPage' \in Seq(Covers!Request)
  <2>1. PICK r \in Covers!Request : r = Covers!Asked(oSel, TRUE)
    BY <1>1 DEF Covers!Asked, Covers!Request
  <2>2. <<r, r>> \in Seq(Covers!Request)
    OBVIOUS
  <2>3. oPage' = <<r, r>>
    BY <2>1 DEF Covers!reloadCover
  <2>4. QED  BY <2>2, <2>3
<1>3. oBudget' \in Nat /\ oPhase' = "draw"
  BY <1>1 DEF Covers!reloadCover
<1>4. /\ Covers!Forget({oSel}, {oSel}) /\ oUnnoticed' = oUnnoticed \ {oSel}
      /\ oDownloaded' = oDownloaded
  BY DEF Covers!reloadCover
<1>5. \A g : g \in oDownloaded \cup oUnnoticed \cup {oSel} /\ g \notin {oSel} =>
             g \in oDownloaded' \cup oUnnoticed'
  BY <1>4
<1>6. QED  BY <1>1, <1>2, <1>3, <1>4, <1>5, CoversForget DEF Covers!IInv, Covers!TypeOK

LEMMA CoversReplaced ==
  ASSUME Covers!IInv,
         \/ Covers!ReplaceCover \/ Covers!EndImport \/ Covers!DownloadOne
         \/ Covers!EndDownload \/ Covers!GamesReplaced
  PROVE  Covers!IInv'
<1>1. Covers!TypeOK
  BY DEF Covers!IInv
<1>2. ASSUME oMode' \in {"grid", "menu", "download", "import"},
             UNCHANGED <<oPhase, Covers!drawing, oSel>>,
             NEW G, NEW F, Covers!Forget(G, F),
             \A g : g \in oDownloaded \cup oUnnoticed \cup F /\ g \notin G =>
                      g \in oDownloaded' \cup oUnnoticed'
      PROVE  Covers!IInv'
  BY <1>1, <1>2, CoversForget DEF Covers!IInv, Covers!TypeOK, Covers!drawing
<1>3. CASE Covers!ReplaceCover
  BY <1>3, CoversReload DEF Covers!ReplaceCover
<1>4. CASE Covers!EndImport
  <2>1. oMode' = "menu" /\ UNCHANGED <<oFrame, oSel, oDownloaded>>
    BY <1>4 DEF Covers!EndImport
  <2>2. CASE Covers!reloadCover
    BY <2>1, <2>2, CoversReload
  <2>3. CASE /\ Covers!Forget({}, {oSel}) /\ oUnnoticed' = oUnnoticed \cup {oSel}
             /\ UNCHANGED <<oPhase, Covers!drawing>>
    <3>1. \A g : g \in oDownloaded \cup oUnnoticed \cup {oSel} /\ g \notin {} =>
                 g \in oDownloaded' \cup oUnnoticed'
      BY <2>1, <2>3
    <3>2. QED  BY <1>2, <2>1, <2>3, <3>1
  <2>4. CASE UNCHANGED <<oPhase, Covers!drawing, Covers!shown, Covers!queue, oUnnoticed>>
    BY <1>1, <2>1, <2>4, CoversSame
       DEF Covers!TypeOK, Covers!drawing, Covers!shown, Covers!history
  <2>5. QED  BY <1>4, <2>2, <2>3, <2>4 DEF Covers!EndImport
<1>5. CASE Covers!DownloadOne
  <2>1. PICK h : Covers!Forget({}, {h}) /\ oDownloaded' = oDownloaded \cup {h}
    BY <1>5 DEF Covers!DownloadOne
  <2>2. UNCHANGED <<oMode, oPhase, Covers!drawing, oSel, oUnnoticed>>
    BY <1>5 DEF Covers!DownloadOne, Covers!screen
  <2>3. \A g : g \in oDownloaded \cup oUnnoticed \cup {h} /\ g \notin {} =>
               g \in oDownloaded' \cup oUnnoticed'
    BY <2>1, <2>2
  <2>4. QED  BY <1>1, <1>2, <2>1, <2>2, <2>3 DEF Covers!TypeOK
<1>6. CASE Covers!EndDownload
  <2>1. /\ Covers!Forget(oDownloaded, {}) /\ oUnnoticed' = oUnnoticed \ oDownloaded
        /\ UNCHANGED <<oPhase, Covers!drawing, oSel>> /\ oMode' = "grid"
    BY <1>6 DEF Covers!EndDownload
  <2>2. \A g : g \in oDownloaded \cup oUnnoticed \cup {} /\ g \notin oDownloaded =>
               g \in oDownloaded' \cup oUnnoticed'
    BY <2>1
  <2>3. QED  BY <1>2, <2>1, <2>2
<1>7. CASE Covers!GamesReplaced
  <2>1. PICK G : Covers!Forget(G, {}) /\ oUnnoticed' = oUnnoticed \ G
    BY <1>7 DEF Covers!GamesReplaced
  <2>2. UNCHANGED <<oMode, oPhase, Covers!drawing, oSel, oDownloaded>>
    BY <1>7 DEF Covers!GamesReplaced, Covers!screen
  <2>3. \A g : g \in oDownloaded \cup oUnnoticed \cup {} /\ g \notin G =>
               g \in oDownloaded' \cup oUnnoticed'
    BY <2>1, <2>2
  <2>4. QED  BY <1>1, <1>2, <2>1, <2>2, <2>3 DEF Covers!TypeOK
<1>8. QED  BY <1>3, <1>4, <1>5, <1>6, <1>7

LEMMA CoversCancel ==
  ASSUME Covers!IInv, Covers!cancelQueuedCoverDecodes
  PROVE  Covers!IInv'
<1>1. /\ Covers!TypeOK /\ Covers!CoverIsCurrent /\ oBusy \in Covers!Work
      /\ oJobs' = <<>> /\ oReady' = <<>> /\ oQueued' = {}
      /\ oBusy' = [oBusy EXCEPT !.fresh = FALSE, !.wanted = FALSE]
      /\ UNCHANGED <<oMode, oPhase, oSel, oPage, oBudget, oAnswer, oDownloaded, oUnnoticed>>
  BY DEF Covers!IInv, Covers!TypeOK, Covers!cancelQueuedCoverDecodes, Covers!screen,
         Covers!drawing, Covers!history
<1>2. oBusy' \in Covers!Work /\ ~oBusy'.wanted
  BY <1>1 DEF Covers!Work
<1>3. Covers!TypeOK'
  BY <1>1, <1>2, CoversNothing DEF Covers!TypeOK
<1>4. Covers!CoverIsCurrent' /\ Covers!QueuedIsServed'
  BY <1>1 DEF Covers!CoverIsCurrent, Covers!QueuedIsServed
<1>5. Covers!ComingIsCurrent'
  <2>1. DOMAIN oReady' = {}
    BY <1>1
  <2>2. QED  BY <1>2, <2>1 DEF Covers!ComingIsCurrent
<1>6. QED  BY <1>3, <1>4, <1>5 DEF Covers!IInv

LEMMA CoversInit == Covers!Init => Covers!IInv
<1> SUFFICES ASSUME Covers!Init PROVE Covers!IInv
  OBVIOUS
<1>1. /\ oMode = "grid" /\ oPhase = "pump" /\ oSel = 1 /\ oPage = <<>>
      /\ oBudget = RequestBudget
      /\ oAnswer = [g \in Covers!Game |-> "none"] /\ oQueued = {}
      /\ oJobs = <<>> /\ oBusy = Covers!Idle /\ oReady = <<>>
  BY DEF Covers!Init
<1>2. oBusy \in Covers!Work /\ ~oBusy.wanted
  BY <1>1 DEF Covers!Idle, Covers!Work, Covers!Read
<1>3. /\ oAnswer \in [Covers!Game -> Covers!Read]
      /\ \A g \in Covers!Game : oAnswer[g] # "stale"
  BY <1>1 DEF Covers!Read
<1>4. Covers!TypeOK
  BY <1>1, <1>2, <1>3, CoversNothing, CoversAssumption DEF Covers!TypeOK
<1>5. Covers!ComingIsCurrent
  <2>1. DOMAIN oReady = {}
    BY <1>1
  <2>2. QED  BY <1>2, <2>1 DEF Covers!ComingIsCurrent
<1>6. QED
  BY <1>1, <1>3, <1>4, <1>5
     DEF Covers!IInv, Covers!QueuedIsServed, Covers!CoverIsCurrent

LEMMA CoversStep == Covers!IInv /\ Covers!Next => Covers!IInv'
  BY CoversNavigate, CoversDraw, CoversAsk, CoversTakeJob, CoversDecode, CoversPublish,
     CoversPump, CoversReplaced, CoversCancel
     DEF Covers!Next, Covers!Worker

LEMMA CoversStutter == Covers!IInv /\ UNCHANGED Covers!vars => Covers!IInv'
<1> SUFFICES ASSUME Covers!IInv, UNCHANGED Covers!vars PROVE Covers!IInv'
  OBVIOUS
<1>1. /\ UNCHANGED <<oAnswer, oQueued, Covers!queue, Covers!history>>
      /\ UNCHANGED <<oMode, oPhase, oSel, oPage, oBudget>>
  BY DEF Covers!vars, Covers!queue, Covers!history
<1>2. QED  BY <1>1, CoversSame DEF Covers!IInv, Covers!TypeOK

LEMMA CoversSafe == Covers!IInv => Covers!CoversAreServed
  BY DEF Covers!IInv, Covers!CoversAreServed

HIDE DEF oMode, oPhase, oFrame, oPage, oBudget, oSel, oAnswer, oQueued, oJobs, oBusy,
         oReady, oDownloaded, oUnnoticed

--------------------------------------------------------------------------------
(* Update: a launcher is there to start, whenever an update is cut off.          *)

uLauncher == v1
uBackup == v2
uTemp == v3
uStored == v4
uBuilt == v5
uScreen == v6
uStep == v8
uState == v9
uRelease == v10
uCancel == v11
uJob == v12

USE DEF uLauncher, uBackup, uTemp, uStored, uBuilt, uScreen, uStep, uState, uRelease,
        uCancel, uJob

(* What the worker is told to do, and what it answers.                      *)
LEMMA UpdateJobs ==
  /\ Update!NoJob \in Update!Jobs /\ Update!NoJob.task = "none"
  /\ Update!NoJob.result = "pending"
  /\ \A k \in {"check", "download"}, g \in Update!Release \cup {Update!None} :
        /\ [task |-> k, result |-> "pending", tag |-> g] \in Update!Jobs
        /\ [task |-> k, result |-> "pending", tag |-> g].task = k
        /\ [task |-> k, result |-> "pending", tag |-> g].result = "pending"
        /\ [task |-> k, result |-> "pending", tag |-> g].tag = g
  BY DEF Update!NoJob, Update!Jobs

LEMMA UpdateAnswers ==
  /\ \A j \in Update!Jobs, r \in {"ok", "failed"} :
        /\ [j EXCEPT !.result = r] \in Update!Jobs
        /\ [j EXCEPT !.result = r].task = j.task
        /\ [j EXCEPT !.result = r].result = r
        /\ [j EXCEPT !.result = r].tag = j.tag
  /\ \A g \in Update!Release :
        /\ [task |-> "check", result |-> "ok", tag |-> g] \in Update!Jobs
        /\ [task |-> "check", result |-> "ok", tag |-> g].task = "check"
        /\ [task |-> "check", result |-> "ok", tag |-> g].tag = g
  BY DEF Update!Jobs

(* A launcher is installed, with no backup and no download.                 *)
LEMMA UpdateInit == Update!Init => Update!IInv
<1> SUFFICES ASSUME Update!Init PROVE Update!IInv
  OBVIOUS
<1>1. /\ 1 \in Update!Release /\ Update!None \notin Update!Release
      /\ Update!Partial \notin Update!Release /\ Update!None # Update!Partial
  BY MaxReleaseAssumption DEF Update!Release, Update!None, Update!Partial
<1>2. QED
  BY <1>1, UpdateJobs
     DEF Update!Init, Update!IInv, Update!TypeOK, Update!TagsAreReleases,
         Update!DownloadVerified, Update!OldIsKept, Update!LauncherSurvives

(* The old launcher is put away only when the new one is at hand and        *)
(* verified, and is let go only when the new one is in its place.           *)
LEMMA UpdateStep == Update!IInv /\ Update!Next => Update!IInv'
<1> SUFFICES ASSUME Update!IInv, Update!Next PROVE Update!IInv'
  OBVIOUS
<1> USE DEF Update!IInv
<1>1. /\ Update!None \notin Update!Release /\ Update!Partial \notin Update!Release
      /\ Update!None # Update!Partial
  BY MaxReleaseAssumption DEF Update!None, Update!Release, Update!Partial
<1>2. CASE Update!FetchLatestRelease
  <2>1. /\ UNCHANGED <<uLauncher, uBackup, uTemp, uStored, uBuilt>>
        /\ UNCHANGED <<uScreen, uStep, uState, uRelease, uCancel>>
    BY <1>2 DEF Update!files, Update!ui, Update!update, Update!FetchLatestRelease
  <2>2. /\ uJob' \in Update!Jobs /\ uJob.task = "check" /\ uJob'.task = "check"
        /\ uJob'.result = "ok" => uJob'.tag \in Update!Release
    <3>1. uJob \in Update!Jobs /\ uJob.task = "check"
      BY <1>2 DEF Update!TypeOK, Update!FetchLatestRelease
    <3>2. CASE uJob' = [uJob EXCEPT !.result = "failed"]
      BY <3>1, <3>2, UpdateAnswers
    <3>3. CASE \E tag \in Update!Release :
                uJob' = [task |-> "check", result |-> "ok", tag |-> tag]
      BY <3>1, <3>3, UpdateAnswers
    <3>4. QED  BY <1>2, <3>2, <3>3 DEF Update!FetchLatestRelease
  <2>3. Update!TypeOK' /\ Update!LauncherSurvives'
    BY <1>1, <2>1, <2>2 DEF Update!TypeOK, Update!LauncherSurvives
  <2>4. Update!TagsAreReleases'
    BY <1>1, <2>1, <2>2 DEF Update!TagsAreReleases
  <2>5. Update!DownloadVerified' /\ Update!OldIsKept'
    BY <1>1, <2>1, <2>2 DEF Update!DownloadVerified, Update!OldIsKept
  <2>6. QED  BY <2>3, <2>4, <2>5
<1>3. CASE Update!DownloadRelease
  <2>1. /\ UNCHANGED <<uLauncher, uBackup, uStored, uBuilt>>
        /\ UNCHANGED <<uScreen, uStep, uState, uRelease, uCancel>>
        /\ uJob' \in Update!Jobs /\ uJob.task = "download" /\ uJob.result = "pending"
        /\ uJob'.task = uJob.task /\ uJob'.tag = uJob.tag
        /\ \/ uTemp' \in {Update!None, Update!Partial} /\ uJob'.result \in {"pending", "failed"}
           \/ uTemp' = uJob.tag /\ uJob'.result = "ok"
    <3>1. /\ uJob.task = "download" /\ uJob.result = "pending" /\ uJob \in Update!Jobs
          /\ UNCHANGED <<uLauncher, uBackup, uStored, uBuilt>>
          /\ UNCHANGED <<uScreen, uStep, uState, uRelease, uCancel>>
      BY <1>3 DEF Update!TypeOK, Update!ui, Update!update, Update!DownloadRelease
    <3>2. CASE uTemp' = Update!Partial /\ UNCHANGED uJob
      BY <3>1, <3>2
    <3>3. CASE uTemp' = uJob.tag /\ uJob' = [uJob EXCEPT !.result = "ok"]
      BY <3>1, <3>3, UpdateAnswers
    <3>4. CASE uTemp' = Update!None /\ uJob' = [uJob EXCEPT !.result = "failed"]
      BY <3>1, <3>4, UpdateAnswers
    <3>5. QED  BY <1>3, <3>1, <3>2, <3>3, <3>4 DEF Update!DownloadRelease
  <2>2. uJob.tag \in Update!Release
    BY <2>1 DEF Update!TagsAreReleases
  <2>3. Update!TypeOK' /\ Update!LauncherSurvives'
    BY <1>1, <2>1, <2>2 DEF Update!TypeOK, Update!LauncherSurvives
  <2>4. Update!TagsAreReleases'
    BY <1>1, <2>1 DEF Update!TagsAreReleases
  <2>5. Update!DownloadVerified' /\ Update!OldIsKept'
    BY <1>1, <2>1, <2>2 DEF Update!DownloadVerified, Update!OldIsKept
  <2>6. QED  BY <2>3, <2>4, <2>5
<1>4. CASE Update!CheckEnds
  <2>1. /\ UNCHANGED <<uLauncher, uBackup, uTemp, uStored, uBuilt, uScreen, uStep, uCancel>>
        /\ uJob.task = "check" /\ uJob.result \in {"ok", "failed"} /\ uJob' = Update!NoJob
        /\ \/ uState' \in {"Cancelled", "Error"} /\ UNCHANGED uRelease
           \/ /\ uJob.result = "ok" /\ uRelease' = uJob.tag
              /\ uState' \in {"UpdateAvailable", "Error", "UpToDate"}
    BY <1>4
       DEF Update!TypeOK, Update!files, Update!ui, Update!CheckEnds, Update!Failed,
           Update!Jobs
  <2>2. QED
    BY <1>1, <2>1, UpdateJobs
       DEF Update!TypeOK, Update!TagsAreReleases, Update!DownloadVerified, Update!OldIsKept,
           Update!LauncherSurvives, Update!Jobs
<1>5. CASE Update!DownloadEnds
  BY UpdateJobs, <1>1, <1>5
     DEF Update!TypeOK, Update!TagsAreReleases, Update!DownloadVerified, Update!OldIsKept,
         Update!LauncherSurvives, Update!files, Update!ui, Update!update,
         Update!DownloadEnds, Update!Failed
<1>6. CASE Update!OpenUpdateScreen
  <2>1. /\ UNCHANGED <<uLauncher, uBackup, uTemp, uStored, uBuilt, uStep>>
        /\ uScreen' = "update" /\ uStep = "none"
        /\ \/ UNCHANGED <<uState, uRelease, uCancel, uJob>>
           \/ /\ uState' = "Checking" /\ uRelease' = Update!None /\ uCancel' = FALSE
              /\ uJob' \in Update!Jobs /\ uJob'.task = "check" /\ uJob'.result = "pending"
    BY <1>6, UpdateJobs
       DEF Update!TypeOK, Update!files, Update!update, Update!OpenUpdateScreen,
           Update!Running, Update!StartCheck
  <2>2. Update!TypeOK' /\ Update!LauncherSurvives'
    BY <1>1, <2>1 DEF Update!TypeOK, Update!LauncherSurvives
  <2>3. Update!TagsAreReleases'
    BY <1>1, <2>1 DEF Update!TagsAreReleases
  <2>4. Update!DownloadVerified' /\ Update!OldIsKept'
    BY <1>1, <2>1 DEF Update!DownloadVerified, Update!OldIsKept
  <2>5. QED  BY <2>2, <2>3, <2>4
<1>7. CASE Update!UpdateFrame
  BY UpdateJobs, <1>1, <1>7
     DEF Update!TypeOK, Update!TagsAreReleases, Update!DownloadVerified, Update!OldIsKept,
         Update!LauncherSurvives, Update!files, Update!ui, Update!update,
         Update!UpdateFrame, Update!Running
<1>8. CASE Update!Cancel
  BY UpdateJobs, <1>1, <1>8
     DEF Update!TypeOK, Update!TagsAreReleases, Update!DownloadVerified, Update!OldIsKept,
         Update!LauncherSurvives, Update!files, Update!ui, Update!update, Update!Cancel,
         Update!Running
<1>9. CASE Update!Confirm
  <2>1. /\ UNCHANGED <<uLauncher, uBackup, uTemp, uStored, uBuilt, uStep>>
        /\ uScreen' \in {uScreen, "exit"} /\ uStep = "none"
        /\ \/ UNCHANGED <<uState, uRelease, uCancel, uJob>>
           \/ /\ uState' = "Checking" /\ uRelease' = Update!None /\ uCancel' = FALSE
              /\ uJob' \in Update!Jobs /\ uJob'.task = "check" /\ uJob'.result = "pending"
           \/ /\ uState = "UpdateAvailable" /\ uState' = "Downloading" /\ uCancel' = FALSE
              /\ uJob' \in Update!Jobs /\ uJob'.task = "download"
              /\ uJob'.result = "pending"
              /\ uJob'.tag = uRelease /\ UNCHANGED uRelease
    BY <1>9, UpdateJobs
       DEF Update!TypeOK, Update!files, Update!update, Update!Confirm, Update!Running,
           Update!StartCheck, Update!StartDownload
  <2>2. Update!TypeOK' /\ Update!LauncherSurvives'
    BY <1>1, <2>1 DEF Update!TypeOK, Update!LauncherSurvives
  <2>3. Update!TagsAreReleases'
    BY <1>1, <2>1 DEF Update!TagsAreReleases
  <2>4. Update!DownloadVerified' /\ Update!OldIsKept'
    BY <1>1, <2>1 DEF Update!DownloadVerified, Update!OldIsKept
  <2>5. QED  BY <2>2, <2>3, <2>4
<1>10. CASE Update!Leave
  BY UpdateJobs, <1>1, <1>10
     DEF Update!TypeOK, Update!TagsAreReleases, Update!DownloadVerified, Update!OldIsKept,
         Update!LauncherSurvives, Update!files, Update!ui, Update!update, Update!Leave,
         Update!Running
<1>11. CASE Update!Preserve
  BY UpdateJobs, <1>1, <1>11
     DEF Update!TypeOK, Update!TagsAreReleases, Update!DownloadVerified, Update!OldIsKept,
         Update!LauncherSurvives, Update!files, Update!ui, Update!update, Update!Preserve,
         Update!InstallFails
<1>12. CASE Update!Activate
  <2>1. /\ UNCHANGED <<uStored, uBuilt, uScreen, uRelease, uCancel, uJob>>
        /\ uStep = "activate"
        /\ \/ /\ uLauncher' = uTemp /\ uTemp' = Update!None /\ uStep' = "validate"
              /\ UNCHANGED <<uBackup, uState>>
           \/ /\ uState' = "Error" /\ uStep' = "none" /\ UNCHANGED uTemp
              /\ \/ uLauncher' = uBackup /\ uBackup' = Update!None
                 \/ uLauncher' = Update!None /\ UNCHANGED uBackup
                 \/ UNCHANGED <<uLauncher, uBackup>>
    BY <1>12 DEF Update!TypeOK, Update!Activate, Update!InstallFails, Update!PutBack
  <2>2. uTemp \in Update!Release /\ uBackup \in Update!Release /\ uJob.task = "none"
    BY <2>1 DEF Update!DownloadVerified, Update!OldIsKept
  <2>3. Update!TypeOK' /\ Update!LauncherSurvives'
    BY <1>1, <2>1, <2>2 DEF Update!TypeOK, Update!LauncherSurvives
  <2>4. Update!TagsAreReleases' /\ Update!DownloadVerified' /\ Update!OldIsKept'
    BY <2>1, <2>2 DEF Update!TagsAreReleases, Update!DownloadVerified, Update!OldIsKept
  <2>5. QED  BY <2>3, <2>4
<1>13. CASE Update!Validate
  BY UpdateJobs, <1>1, <1>13
     DEF Update!TypeOK, Update!TagsAreReleases, Update!DownloadVerified, Update!OldIsKept,
         Update!LauncherSurvives, Update!files, Update!ui, Update!update, Update!Validate,
         Update!InstallFails, Update!PutBack
<1>14. CASE Update!SaveTag
  BY UpdateJobs, <1>1, <1>14
     DEF Update!TypeOK, Update!TagsAreReleases, Update!DownloadVerified, Update!OldIsKept,
         Update!LauncherSurvives, Update!files, Update!ui, Update!update, Update!SaveTag
<1>15. CASE Update!Start
  <2>1. /\ UNCHANGED uStored /\ uLauncher # Update!None /\ uBuilt' = uLauncher
        /\ uTemp' = Update!None /\ uScreen' = "library" /\ uStep' = "none"
        /\ \/ UNCHANGED <<uLauncher, uBackup>>
           \/ uBackup' = Update!None /\ UNCHANGED uLauncher
           \/ uBackup # Update!None /\ uLauncher' = uBackup /\ uBackup' = Update!None
           \/ uBackup # Update!None /\ uLauncher' = Update!None /\ UNCHANGED uBackup
    BY <1>15 DEF Update!TypeOK, Update!Start, Update!RecoverInstallation, Update!PutBack
  <2>2. /\ uState' \in {"Idle", "Checking"} /\ uRelease' = Update!None /\ uCancel' = FALSE
        /\ uJob' \in Update!Jobs /\ uJob'.task # "download" /\ uJob'.result = "pending"
        /\ uState' = "Idle" => uJob'.task = "none"
    BY <1>15, UpdateJobs DEF Update!TypeOK, Update!Start
  <2>3. Update!TypeOK' /\ Update!LauncherSurvives'
    BY <1>1, <2>1, <2>2 DEF Update!TypeOK, Update!LauncherSurvives
  <2>4. Update!TagsAreReleases'
    BY <1>1, <2>1, <2>2 DEF Update!TagsAreReleases
  <2>5. Update!DownloadVerified' /\ Update!OldIsKept'
    BY <1>1, <2>1, <2>2 DEF Update!DownloadVerified, Update!OldIsKept
  <2>6. QED  BY <2>3, <2>4, <2>5
<1>16. CASE Update!RequestExit
  BY UpdateJobs, <1>1, <1>16
     DEF Update!TypeOK, Update!TagsAreReleases, Update!DownloadVerified, Update!OldIsKept,
         Update!LauncherSurvives, Update!files, Update!ui, Update!update,
         Update!RequestExit, Update!Running
<1>17. CASE Update!Exit
  BY UpdateJobs, <1>1, <1>17
     DEF Update!TypeOK, Update!TagsAreReleases, Update!DownloadVerified, Update!OldIsKept,
         Update!LauncherSurvives, Update!files, Update!ui, Update!update, Update!Exit,
         Update!Running
<1>18. CASE Update!PowerCut
  BY UpdateJobs, <1>1, <1>18
     DEF Update!TypeOK, Update!TagsAreReleases, Update!DownloadVerified, Update!OldIsKept,
         Update!LauncherSurvives, Update!files, Update!ui, Update!update, Update!PowerCut
<1>19. QED
  BY <1>2, <1>3, <1>4, <1>5, <1>6, <1>7, <1>8, <1>9, <1>10, <1>11, <1>12, <1>13, <1>14,
     <1>15, <1>16, <1>17, <1>18
     DEF Update!Next, Update!Worker, Update!Screen, Update!InstallDownloaded

(* The invariant says more than LauncherSurvives.                           *)
LEMMA UpdateSafe == Update!IInv => Update!LauncherSurvives
  BY DEF Update!IInv

(* The invariant is about the variables alone.                              *)
LEMMA UpdateStutter == Update!IInv /\ UNCHANGED Update!vars => Update!IInv'
  BY DEF Update!vars, Update!IInv, Update!TypeOK, Update!TagsAreReleases,
         Update!DownloadVerified, Update!OldIsKept, Update!LauncherSurvives

HIDE DEF uLauncher, uBackup, uTemp, uStored, uBuilt, uScreen, uStep, uState, uRelease,
         uCancel, uJob

--------------------------------------------------------------------------------
(* Forwarder: a shortcut that is registered is whole.                            *)

fCfg == v1
fOld == v2
fTmp == v3
fMeta == v4
fContents == v5
fRecord == v6
fPath == v7
fPc == v8
fBuild == v9
fCreated == v10
fHadPrevious == v11
fMetaBackup == v12
fUnrestored == v13

USE DEF fCfg, fOld, fTmp, fMeta, fContents, fRecord, fPath, fPc, fBuild, fCreated,
        fHadPrevious, fMetaBackup, fUnrestored

(* The contents of a build, and whose they are.                             *)
LEMMA ForwarderContents ==
  /\ \A t \in Forwarder!Title, b \in 0..ShortcutBuilds :
        Forwarder!Contents(t, b) \subseteq Forwarder!Content
  /\ \A a, b \in 0..ShortcutBuilds :
        \A c \in Forwarder!Contents("new", a) : c \notin Forwarder!Contents("legacy", b)
  BY ShortcutBuildsAssumption DEF Forwarder!Contents, Forwarder!Content, Forwarder!Title

(* At most a shortcut of an earlier release is there, and it is whole.      *)
LEMMA ForwarderInit == Forwarder!Init => Forwarder!IInv
<1> SUFFICES ASSUME Forwarder!Init PROVE Forwarder!IInv
  OBVIOUS
<1>1. /\ 1 \in 0..ShortcutBuilds /\ 0 \in 0..ShortcutBuilds /\ 1 # 0
  BY ShortcutBuildsAssumption
<1>2. PICK before \in SUBSET {"legacy"} :
        /\ fRecord = before
        /\ fCfg = [t \in Forwarder!Title |-> IF t \in before THEN "here" ELSE Forwarder!None]
        /\ fMeta = [t \in Forwarder!Title |-> IF t \in before THEN 1 ELSE 0]
        /\ fContents = UNION {Forwarder!Contents(t, 1) : t \in before}
  BY DEF Forwarder!Init
<1>3. Forwarder!TypeOK
  <2>1. fContents \subseteq Forwarder!Content
    BY <1>1, <1>2, ForwarderContents DEF Forwarder!Title
  <2>2. /\ fCfg \in [Forwarder!Title -> Forwarder!Path \cup {Forwarder!None}]
        /\ fMeta \in [Forwarder!Title -> 0..ShortcutBuilds]
        /\ fRecord \subseteq Forwarder!Title
    BY <1>1, <1>2 DEF Forwarder!Title, Forwarder!Path
  <2>3. QED
    BY <1>1, <2>1, <2>2 DEF Forwarder!Init, Forwarder!TypeOK, Forwarder!Path
<1>4. Forwarder!ShortcutIsWhole
  BY <1>1, <1>2 DEF Forwarder!ShortcutIsWhole, Forwarder!Title
<1>5. /\ Forwarder!CreatedIsOwn /\ Forwarder!Registering /\ Forwarder!Replacing
      /\ Forwarder!Staged /\ Forwarder!LegacyGoing
  BY DEF Forwarder!Init, Forwarder!CreatedIsOwn, Forwarder!Registering, Forwarder!Replacing,
         Forwarder!Staged, Forwarder!LegacyGoing
<1>6. QED  BY <1>3, <1>4, <1>5 DEF Forwarder!IInv

(* What a failed installation takes back is what it brought itself, and     *)
(* what a finished one clears no metadata refers to.                        *)
LEMMA ForwarderStep == Forwarder!IInv /\ Forwarder!Next => Forwarder!IInv'
<1> SUFFICES ASSUME Forwarder!IInv, Forwarder!Next PROVE Forwarder!IInv'
  OBVIOUS
<1> USE ForwarderContents, ShortcutBuildsAssumption DEF Forwarder!IInv
<1>1. CASE Forwarder!StageBegin
  BY <1>1
     DEF Forwarder!TypeOK, Forwarder!ShortcutIsWhole, Forwarder!CreatedIsOwn,
         Forwarder!KeptWithout, Forwarder!Registering, Forwarder!Replacing,
         Forwarder!Staged, Forwarder!LegacyGoing, Forwarder!Title, Forwarder!Path,
         Forwarder!None, Forwarder!databases, Forwarder!locals, Forwarder!StageBegin,
         Forwarder!Set
<1>2. CASE Forwarder!StageEnds
  <2>1. Forwarder!TypeOK'
    BY <1>2
       DEF Forwarder!TypeOK, Forwarder!Title, Forwarder!databases, Forwarder!StageEnds,
           Forwarder!Set, Forwarder!Fails
  <2>2. /\ UNCHANGED <<fMeta, fContents, fRecord, fUnrestored, fBuild>> /\ fPc = "write"
        /\ \/ fPc' = "content" /\ fTmp'["new"] # "torn" /\ UNCHANGED fCreated
           \/ fPc' = "idle" /\ fCreated' = {}
    BY <1>2
       DEF Forwarder!StageEnds, Forwarder!Set, Forwarder!Fails, Forwarder!databases,
           Forwarder!TypeOK, Forwarder!Title, Forwarder!Path
  <2>3. /\ Forwarder!ShortcutIsWhole' /\ Forwarder!CreatedIsOwn' /\ Forwarder!Registering'
        /\ Forwarder!Replacing' /\ Forwarder!Staged' /\ Forwarder!LegacyGoing'
    BY <2>2
       DEF Forwarder!ShortcutIsWhole, Forwarder!CreatedIsOwn, Forwarder!KeptWithout,
           Forwarder!Registering, Forwarder!Replacing, Forwarder!Staged,
           Forwarder!LegacyGoing, Forwarder!TypeOK, Forwarder!Title
  <2>4. QED  BY <2>1, <2>3
<1>3. CASE Forwarder!registerContent
  BY <1>3
     DEF Forwarder!TypeOK, Forwarder!ShortcutIsWhole, Forwarder!CreatedIsOwn,
         Forwarder!KeptWithout, Forwarder!Registering, Forwarder!Replacing,
         Forwarder!Staged, Forwarder!LegacyGoing, Forwarder!Title, Forwarder!Path,
         Forwarder!None, Forwarder!databases, Forwarder!locals, Forwarder!registerContent,
         Forwarder!Created
<1>4. CASE Forwarder!installContentMeta
  BY <1>4
     DEF Forwarder!TypeOK, Forwarder!ShortcutIsWhole, Forwarder!CreatedIsOwn,
         Forwarder!KeptWithout, Forwarder!Registering, Forwarder!Replacing,
         Forwarder!Staged, Forwarder!LegacyGoing, Forwarder!Title, Forwarder!Path,
         Forwarder!None, Forwarder!databases, Forwarder!locals,
         Forwarder!installContentMeta, Forwarder!Set, Forwarder!Fails,
         Forwarder!RollbackConfig
<1>5. CASE Forwarder!PreserveConfig
  BY <1>5
     DEF Forwarder!TypeOK, Forwarder!ShortcutIsWhole, Forwarder!CreatedIsOwn,
         Forwarder!KeptWithout, Forwarder!Registering, Forwarder!Replacing,
         Forwarder!Staged, Forwarder!LegacyGoing, Forwarder!Title, Forwarder!Path,
         Forwarder!None, Forwarder!databases, Forwarder!locals, Forwarder!PreserveConfig,
         Forwarder!Set
<1>6. CASE Forwarder!ActivateConfig
  <2>1. Forwarder!TypeOK'
    BY <1>6
       DEF Forwarder!TypeOK, Forwarder!Staged, Forwarder!databases, Forwarder!locals,
           Forwarder!ActivateConfig, Forwarder!Set, Forwarder!Title
  <2>2. /\ Forwarder!ShortcutIsWhole' /\ Forwarder!CreatedIsOwn' /\ Forwarder!Registering'
        /\ Forwarder!Replacing' /\ Forwarder!Staged' /\ Forwarder!LegacyGoing'
    BY <1>6
       DEF Forwarder!ShortcutIsWhole, Forwarder!CreatedIsOwn, Forwarder!KeptWithout,
           Forwarder!Registering, Forwarder!Replacing, Forwarder!Staged,
           Forwarder!LegacyGoing, Forwarder!databases, Forwarder!locals,
           Forwarder!ActivateConfig, Forwarder!Set
  <2>3. QED  BY <2>1, <2>2
<1>7. CASE Forwarder!DeleteRecord
  BY <1>7
     DEF Forwarder!TypeOK, Forwarder!ShortcutIsWhole, Forwarder!CreatedIsOwn,
         Forwarder!KeptWithout, Forwarder!Registering, Forwarder!Replacing,
         Forwarder!Staged, Forwarder!LegacyGoing, Forwarder!Title, Forwarder!Path,
         Forwarder!None, Forwarder!databases, Forwarder!locals, Forwarder!DeleteRecord
<1>8. CASE Forwarder!PushRecord
  BY <1>8
     DEF Forwarder!TypeOK, Forwarder!ShortcutIsWhole, Forwarder!CreatedIsOwn,
         Forwarder!KeptWithout, Forwarder!Registering, Forwarder!Replacing,
         Forwarder!Staged, Forwarder!LegacyGoing, Forwarder!Title, Forwarder!Path,
         Forwarder!None, Forwarder!databases, Forwarder!locals, Forwarder!PushRecord
<1>9. CASE Forwarder!Finish
  BY <1>9
     DEF Forwarder!TypeOK, Forwarder!ShortcutIsWhole, Forwarder!CreatedIsOwn,
         Forwarder!KeptWithout, Forwarder!Registering, Forwarder!Replacing,
         Forwarder!Staged, Forwarder!LegacyGoing, Forwarder!Title, Forwarder!Path,
         Forwarder!None, Forwarder!databases, Forwarder!locals, Forwarder!Finish,
         Forwarder!Set
<1>10. CASE Forwarder!RemoveOrphans
  BY <1>10
     DEF Forwarder!TypeOK, Forwarder!ShortcutIsWhole, Forwarder!CreatedIsOwn,
         Forwarder!KeptWithout, Forwarder!Registering, Forwarder!Replacing,
         Forwarder!Staged, Forwarder!LegacyGoing, Forwarder!Title, Forwarder!Path,
         Forwarder!None, Forwarder!databases, Forwarder!locals, Forwarder!RemoveOrphans,
         Forwarder!Orphans
<1>11. CASE Forwarder!LegacyRecord
  <2>1. Forwarder!TypeOK'
    BY <1>11 DEF Forwarder!TypeOK, Forwarder!LegacyRecord, Forwarder!Fails
  <2>2. /\ Forwarder!ShortcutIsWhole' /\ Forwarder!CreatedIsOwn' /\ Forwarder!Registering'
        /\ Forwarder!Replacing' /\ Forwarder!Staged' /\ Forwarder!LegacyGoing'
    BY <1>11
       DEF Forwarder!ShortcutIsWhole, Forwarder!CreatedIsOwn, Forwarder!KeptWithout,
           Forwarder!Registering, Forwarder!Replacing, Forwarder!Staged,
           Forwarder!LegacyGoing, Forwarder!LegacyRecord, Forwarder!Fails,
           Forwarder!findLegacyForwarders
  <2>3. QED  BY <2>1, <2>2
<1>12. CASE Forwarder!removeLegacyForwarder
  <2>1. Forwarder!TypeOK'
    <3>1. /\ UNCHANGED <<fOld, fTmp, fPath, fBuild, fHadPrevious, fMetaBackup>>
          /\ fCreated' = {}
      BY <1>12 DEF Forwarder!removeLegacyForwarder, Forwarder!Fails
    <3>2. fContents' \subseteq fContents
      BY <1>12 DEF Forwarder!removeLegacyForwarder
    <3>3. fMeta' \in [Forwarder!Title -> 0..ShortcutBuilds]
      BY <1>12 DEF Forwarder!removeLegacyForwarder, Forwarder!TypeOK
    <3>4. /\ fCfg' \in [Forwarder!Title -> Forwarder!Path \cup {Forwarder!None}]
          /\ fRecord' \subseteq Forwarder!Title
      BY <1>12 DEF Forwarder!removeLegacyForwarder, Forwarder!TypeOK, Forwarder!Title
    <3>5. fUnrestored' \in BOOLEAN
      <4>1. UNCHANGED fUnrestored \/ fUnrestored' = TRUE
        BY <1>12 DEF Forwarder!removeLegacyForwarder
      <4>2. QED  BY <4>1 DEF Forwarder!TypeOK
    <3>6. QED  BY <3>1, <3>2, <3>3, <3>4, <3>5 DEF Forwarder!TypeOK
  <2>2. Forwarder!ShortcutIsWhole' /\ Forwarder!CreatedIsOwn'
    <3>1. /\ fPc = "legacyMeta" /\ fPc' = "idle" /\ fCreated' = {} /\ UNCHANGED fBuild
      BY <1>12 DEF Forwarder!removeLegacyForwarder, Forwarder!Fails
    <3>2. Forwarder!CreatedIsOwn'
      BY <3>1 DEF Forwarder!CreatedIsOwn
    <3>3. fPc = "legacyMeta" /\ "legacy" \notin fRecord /\ fRecord \subseteq Forwarder!Title
      BY <3>1 DEF Forwarder!LegacyGoing, Forwarder!TypeOK
    <3>4. CASE UNCHANGED <<fMeta, fContents, fUnrestored>>
      <4>1. fRecord' \subseteq fRecord \cup {"legacy"}
        BY <1>12 DEF Forwarder!removeLegacyForwarder
      <4>2. fMeta["legacy"] # 0
        BY <3>1 DEF Forwarder!LegacyGoing
      <4>3. QED
        BY <3>2, <3>4, <4>1, <4>2 DEF Forwarder!ShortcutIsWhole, Forwarder!Contents
    <3>5. CASE fMeta' = [fMeta EXCEPT !["legacy"] = 0]
      <4>1. \A t \in Forwarder!Title : t # "legacy" => fMeta'[t] = fMeta[t]
        BY <3>5 DEF Forwarder!TypeOK
      <4>2. fMeta'["legacy"] = 0
        BY <3>5 DEF Forwarder!TypeOK, Forwarder!Title
      <4>3. ASSUME fMeta["new"] # 0,
                   NEW c \in Forwarder!Contents("new", fMeta["new"]), c \in fContents
            PROVE  c \in fContents'
        <5>1. /\ fMeta'["new"] # 0 /\ c \in Forwarder!Contents("new", fMeta'["new"])
              /\ "new" \in Forwarder!Title
          BY <4>1, <4>3 DEF Forwarder!Title
        <5>2. c \notin Forwarder!Orphans(Forwarder!Contents("legacy", fMeta["legacy"]))
          BY <5>1 DEF Forwarder!Orphans
        <5>3. \E cs : fContents' \in {fContents, fContents \ cs}
                      /\ cs = Forwarder!Orphans(Forwarder!Contents("legacy", fMeta["legacy"]))
          BY <1>12 DEF Forwarder!removeLegacyForwarder
        <5>4. QED  BY <4>3, <5>2, <5>3
      <4>4. \A t \in fRecord' : fMeta'[t] # 0 \/ (t = "legacy" /\ fUnrestored')
        <5>1. /\ fRecord' \subseteq fRecord \cup {"legacy"}
              /\ UNCHANGED fRecord \/ fUnrestored' = TRUE
          <6>1. fMeta' # fMeta
            BY <3>1, <4>2 DEF Forwarder!LegacyGoing
          <6>2. QED  BY <1>12, <6>1 DEF Forwarder!removeLegacyForwarder
        <5>2. QED  BY <3>3, <4>1, <5>1 DEF Forwarder!ShortcutIsWhole
      <4>5. \A t \in Forwarder!Title :
              fMeta'[t] # 0 => Forwarder!Contents(t, fMeta'[t]) \subseteq fContents'
        BY <4>1, <4>2, <4>3 DEF Forwarder!ShortcutIsWhole, Forwarder!Title
      <4>6. QED  BY <3>2, <4>4, <4>5 DEF Forwarder!ShortcutIsWhole, Forwarder!Contents
    <3>6. QED  BY <1>12, <3>4, <3>5 DEF Forwarder!removeLegacyForwarder
  <2>3. Forwarder!Registering' /\ Forwarder!Replacing' /\ Forwarder!Staged'
    BY <1>12
       DEF Forwarder!Registering, Forwarder!Replacing, Forwarder!Staged,
           Forwarder!KeptWithout, Forwarder!LegacyGoing, Forwarder!removeLegacyForwarder,
           Forwarder!Fails, Forwarder!Orphans, Forwarder!TypeOK, Forwarder!Title
  <2>4. Forwarder!LegacyGoing'
    BY <1>12
       DEF Forwarder!LegacyGoing, Forwarder!removeLegacyForwarder, Forwarder!Fails,
           Forwarder!TypeOK, Forwarder!Title
  <2>5. QED  BY <2>1, <2>2, <2>3, <2>4
<1>13. CASE Forwarder!StageFails
  BY <1>13
     DEF Forwarder!TypeOK, Forwarder!ShortcutIsWhole, Forwarder!CreatedIsOwn,
         Forwarder!KeptWithout, Forwarder!Registering, Forwarder!Replacing,
         Forwarder!Staged, Forwarder!LegacyGoing, Forwarder!Title, Forwarder!Path,
         Forwarder!None, Forwarder!databases, Forwarder!locals, Forwarder!StageFails,
         Forwarder!Fails, Forwarder!Set
<1>14. CASE Forwarder!ContentFails
  BY <1>14
     DEF Forwarder!TypeOK, Forwarder!ShortcutIsWhole, Forwarder!CreatedIsOwn,
         Forwarder!KeptWithout, Forwarder!Registering, Forwarder!Replacing,
         Forwarder!Staged, Forwarder!LegacyGoing, Forwarder!Title, Forwarder!Path,
         Forwarder!None, Forwarder!databases, Forwarder!locals, Forwarder!ContentFails,
         Forwarder!Fails, Forwarder!RollbackConfig, Forwarder!Set
<1>15. CASE Forwarder!CommitFails
  BY <1>15
     DEF Forwarder!TypeOK, Forwarder!ShortcutIsWhole, Forwarder!CreatedIsOwn,
         Forwarder!KeptWithout, Forwarder!Registering, Forwarder!Replacing,
         Forwarder!Staged, Forwarder!LegacyGoing, Forwarder!Title, Forwarder!Path,
         Forwarder!None, Forwarder!databases, Forwarder!locals, Forwarder!CommitFails,
         Forwarder!rollbackContentMeta, Forwarder!Fails, Forwarder!Set
<1>16. CASE Forwarder!PushFails
  <2>1. /\ UNCHANGED <<fPath, fBuild, fHadPrevious, fMetaBackup, fUnrestored>>
        /\ fPc = "push" /\ fPc' = "idle" /\ fCreated' = {}
    BY <1>16 DEF Forwarder!PushFails, Forwarder!Fails
  <2>2. PICK restored \in BOOLEAN :
          /\ Forwarder!rollbackContentMeta(restored)
          /\ \/ fRecord' \in {fRecord, fRecord \ {"new"}}
             \/ restored /\ fMetaBackup # 0 /\ fRecord' = fRecord \cup {"new"}
    BY <1>16 DEF Forwarder!PushFails
  <2>3. /\ fMeta' = fMeta \/ fMeta' = [fMeta EXCEPT !["new"] = fMetaBackup]
        /\ restored => fMeta' = [fMeta EXCEPT !["new"] = fMetaBackup]
        /\ fContents' = fContents \/ (restored /\ fContents' = fContents \ fCreated)
    BY <2>2 DEF Forwarder!rollbackContentMeta, Forwarder!Set
  <2>4. /\ "new" \in Forwarder!Title
        /\ \A t \in Forwarder!Title : t # "new" => fMeta'[t] = fMeta[t]
        /\ fMeta'["new"] = fMeta["new"] \/ fMeta'["new"] = fMetaBackup
        /\ restored => fMeta'["new"] = fMetaBackup
    BY <2>3 DEF Forwarder!TypeOK, Forwarder!Title
  <2>5. Forwarder!TypeOK'
    <3>1. /\ fCfg' \in [Forwarder!Title -> Forwarder!Path \cup {Forwarder!None}]
          /\ fOld' \in [Forwarder!Title -> Forwarder!Path \cup {Forwarder!None}]
          /\ fTmp' \in [Forwarder!Title -> Forwarder!Path \cup {Forwarder!None, "torn"}]
      BY <1>16
         DEF Forwarder!PushFails, Forwarder!RollbackConfig, Forwarder!Set, Forwarder!TypeOK,
             Forwarder!Title
    <3>2. /\ fMeta' \in [Forwarder!Title -> 0..ShortcutBuilds]
          /\ fContents' \subseteq Forwarder!Content /\ fRecord' \subseteq Forwarder!Title
      BY <2>2, <2>3, <2>4 DEF Forwarder!TypeOK
    <3>3. QED  BY <2>1, <3>1, <3>2 DEF Forwarder!TypeOK
  <2>6. Forwarder!KeptWithout(fMetaBackup) /\ fMeta["new"] = fBuild /\ fBuild # 0
        /\ ("new" \in fRecord => fMetaBackup # 0)
    BY <2>1 DEF Forwarder!Replacing, Forwarder!CreatedIsOwn
  <2>7. \A t \in fRecord' : fMeta'[t] # 0 \/ (t = "legacy" /\ fUnrestored')
    <3>1. fMeta'["new"] # 0 \/ "new" \notin fRecord'
      BY <2>2, <2>4, <2>6
    <3>2. \A t \in fRecord' : t = "new" \/ (t \in fRecord /\ t \in Forwarder!Title)
      BY <2>2 DEF Forwarder!TypeOK
    <3>3. QED  BY <2>1, <2>4, <3>1, <3>2 DEF Forwarder!ShortcutIsWhole
  <2>8. \A t \in Forwarder!Title :
          fMeta'[t] # 0 => Forwarder!Contents(t, fMeta'[t]) \subseteq fContents'
    <3>1. fMeta'["legacy"] = fMeta["legacy"] /\ "legacy" \in Forwarder!Title
      BY <2>4 DEF Forwarder!Title
    <3>2. \A c \in fCreated : c \in Forwarder!Contents("new", fBuild)
      BY DEF Forwarder!CreatedIsOwn
    <3>3. fMeta["legacy"] \in 0..ShortcutBuilds /\ fBuild \in 0..ShortcutBuilds
      BY <3>1 DEF Forwarder!TypeOK
    <3>4. fMeta["legacy"] # 0 =>
            Forwarder!Contents("legacy", fMeta["legacy"]) \subseteq fContents'
      BY <2>3, <3>1, <3>2, <3>3 DEF Forwarder!ShortcutIsWhole
    <3>5. fMeta'["new"] # 0 => Forwarder!Contents("new", fMeta'["new"]) \subseteq fContents'
      BY <2>3, <2>4, <2>6 DEF Forwarder!ShortcutIsWhole, Forwarder!KeptWithout
    <3>6. QED  BY <3>1, <3>4, <3>5 DEF Forwarder!Title
  <2>9. /\ Forwarder!ShortcutIsWhole' /\ Forwarder!CreatedIsOwn' /\ Forwarder!Registering'
        /\ Forwarder!Replacing' /\ Forwarder!Staged' /\ Forwarder!LegacyGoing'
    BY <2>1, <2>7, <2>8
       DEF Forwarder!ShortcutIsWhole, Forwarder!Contents, Forwarder!CreatedIsOwn,
           Forwarder!Registering, Forwarder!Replacing, Forwarder!Staged,
           Forwarder!LegacyGoing
  <2>10. QED  BY <2>5, <2>9
<1>17. CASE Forwarder!PowerCut
  BY <1>17
     DEF Forwarder!TypeOK, Forwarder!ShortcutIsWhole, Forwarder!CreatedIsOwn,
         Forwarder!KeptWithout, Forwarder!Registering, Forwarder!Replacing,
         Forwarder!Staged, Forwarder!LegacyGoing, Forwarder!Title, Forwarder!Path,
         Forwarder!None, Forwarder!databases, Forwarder!locals, Forwarder!PowerCut,
         Forwarder!Fails
<1>18. CASE Forwarder!forwarder_create
  BY <1>18
     DEF Forwarder!TypeOK, Forwarder!ShortcutIsWhole, Forwarder!CreatedIsOwn,
         Forwarder!KeptWithout, Forwarder!Registering, Forwarder!Replacing,
         Forwarder!Staged, Forwarder!LegacyGoing, Forwarder!Title, Forwarder!Path,
         Forwarder!None, Forwarder!databases, Forwarder!locals, Forwarder!forwarder_create
<1>19. CASE Forwarder!MoveLauncher
  BY <1>19
     DEF Forwarder!TypeOK, Forwarder!ShortcutIsWhole, Forwarder!CreatedIsOwn,
         Forwarder!KeptWithout, Forwarder!Registering, Forwarder!Replacing,
         Forwarder!Staged, Forwarder!LegacyGoing, Forwarder!Title, Forwarder!Path,
         Forwarder!None, Forwarder!databases, Forwarder!locals, Forwarder!MoveLauncher
<1>20. QED
  BY <1>1, <1>2, <1>3, <1>4, <1>5, <1>6, <1>7, <1>8, <1>9, <1>10, <1>11, <1>12, <1>13,
     <1>14, <1>15, <1>16, <1>17, <1>18, <1>19
     DEF Forwarder!Next, Forwarder!Installation, Forwarder!Failure

(* The invariant says more than ShortcutIsWhole.                            *)
LEMMA ForwarderSafe == Forwarder!IInv => Forwarder!ShortcutIsWhole
  BY DEF Forwarder!IInv

(* The invariant is about the variables alone.                              *)
LEMMA ForwarderStutter == Forwarder!IInv /\ UNCHANGED Forwarder!vars => Forwarder!IInv'
  BY DEF Forwarder!vars, Forwarder!IInv, Forwarder!TypeOK, Forwarder!ShortcutIsWhole,
         Forwarder!CreatedIsOwn, Forwarder!KeptWithout, Forwarder!Registering,
         Forwarder!Replacing, Forwarder!Staged, Forwarder!LegacyGoing

HIDE DEF fCfg, fOld, fTmp, fMeta, fContents, fRecord, fPath, fPc, fBuild, fCreated,
         fHadPrevious, fMetaBackup, fUnrestored

--------------------------------------------------------------------------------
(* Loader: a shortcut starts the game it was made for.                           *)

lConfig == v1
lNext == v2
lDefault == v3
lMapped == v4
lProc == v5
lArgv == v6
lChosen == v7

USE DEF lConfig, lNext, lDefault, lMapped, lProc, lArgv, lChosen

(* What the loader may be told to start.                                    *)
LEMMA LoaderCommands ==
  /\ \A c \in Loader!Command : c.nro \in Loader!Program /\ c.argv \in Loader!Argument
  /\ \A n \in Loader!Program, a \in Loader!Argument :
        [nro |-> n, argv |-> a] \in Loader!Command
        /\ [nro |-> n, argv |-> a].nro = n /\ [nro |-> n, argv |-> a].argv = a
  BY DEF Loader!Command

(* No program is mapped, and HOME runs.                                     *)
LEMMA LoaderInit == Loader!Init => Loader!IInv
  BY LoaderCommands
     DEF Loader!Init, Loader!Shortcut, Loader!Nothing, Loader!Program, Loader!Argument,
         Loader!IInv, Loader!TypeOK, Loader!Configured, Loader!DefaultIsShortcut,
         Loader!NextIsChosen, Loader!StartedIsChosen, Loader!ChosenGameOnly

(* The emulator is started by the launcher alone, which was given the key   *)
(* when the shortcut was started, or had a game selected in it.             *)
LEMMA LoaderStep == Loader!IInv /\ Loader!Next => Loader!IInv'
<1> SUFFICES ASSUME Loader!IInv, Loader!Next PROVE Loader!IInv'
  OBVIOUS
<1> USE DEF Loader!IInv, Loader!TypeOK, Loader!Configured, Loader!DefaultIsShortcut,
            Loader!NextIsChosen, Loader!StartedIsChosen, Loader!ChosenGameOnly,
            Loader!Program, Loader!Argument
<1>1. CASE Loader!StartShortcut
  BY <1>1 DEF Loader!StartShortcut
<1>2. CASE Loader!LoadNro
  <2>1. UNCHANGED <<lConfig, lChosen>> /\ lProc = "loader"
    BY <1>2 DEF Loader!LoadNro
  <2>2. PICK c \in Loader!Command :
          /\ Loader!ReadConfig(c) \/ Loader!NextCommand(c)
          /\ \/ lProc' = c.nro /\ lMapped' = TRUE
             \/ lProc' = "aborted" /\ lMapped' = FALSE
          /\ lArgv' = c.argv
          /\ lNext' \in Loader!Command /\ lNext'.nro = c.nro
          /\ lNext'.argv = "exitDetection"
    BY <1>2, LoaderCommands DEF Loader!LoadNro
  <2>3. c.nro \in Loader!Program /\ c.argv \in Loader!Argument
    BY LoaderCommands
  <2>4. CASE Loader!ReadConfig(c)
    <3>1. ~lMapped /\ c = lConfig /\ lDefault' = c
      BY <2>4 DEF Loader!ReadConfig
    <3>2. QED  BY <2>1, <2>2, <2>3, <3>1
  <2>5. CASE Loader!NextCommand(c)
    <3>1. /\ lMapped /\ UNCHANGED lDefault
          /\ \/ c = lDefault /\ lNext.argv = "exitDetection" /\ lNext.nro # lDefault.nro
             \/ c = lNext /\ lNext.argv # "exitDetection"
      BY <2>5 DEF Loader!NextCommand
    <3>2. lNext.nro \in Loader!Program
      BY LoaderCommands
    <3>3. QED  BY <2>1, <2>2, <2>3, <3>1, <3>2
  <2>6. QED  BY <2>2, <2>4, <2>5
<1>3. CASE Loader!selfExit
  BY <1>3 DEF Loader!selfExit
<1>4. CASE Loader!LauncherChains
  <2>1. /\ UNCHANGED <<lConfig, lDefault, lMapped, lArgv>> /\ lProc = "launcher"
        /\ lProc' = "loader" /\ lChosen' = (lChosen \/ lArgv = "none")
    BY <1>4 DEF Loader!LauncherChains
  <2>2. lNext' \in Loader!Command /\ lNext'.nro = "emulator" /\ lNext'.argv = "none"
    BY <1>4, LoaderCommands DEF Loader!LauncherChains
  <2>3. QED  BY <2>1, <2>2
<1>5. CASE Loader!EmulatorExits
  <2>1. /\ UNCHANGED <<lConfig, lDefault, lMapped, lArgv>> /\ lProc = "emulator"
        /\ lProc' = "loader" /\ lChosen' = FALSE
    BY <1>5 DEF Loader!EmulatorExits
  <2>2. lNext' \in Loader!Command /\ lNext'.nro = "launcher" /\ lNext'.argv = "none"
    BY <1>5, LoaderCommands DEF Loader!EmulatorExits
  <2>3. QED  BY <2>1, <2>2
<1>6. CASE Loader!Ends
  BY <1>6 DEF Loader!Ends
<1>7. QED
  BY <1>1, <1>2, <1>3, <1>4, <1>5, <1>6 DEF Loader!Next

(* The invariant says more than ChosenGameOnly.                             *)
LEMMA LoaderSafe == Loader!IInv => Loader!ChosenGameOnly
  BY DEF Loader!IInv

(* The invariant is about the variables alone.                              *)
LEMMA LoaderStutter == Loader!IInv /\ UNCHANGED Loader!vars => Loader!IInv'
  BY DEF Loader!vars, Loader!IInv, Loader!TypeOK, Loader!Configured,
         Loader!DefaultIsShortcut, Loader!NextIsChosen, Loader!StartedIsChosen,
         Loader!ChosenGameOnly

HIDE DEF lConfig, lNext, lDefault, lMapped, lProc, lArgv, lChosen

--------------------------------------------------------------------------------
(* Mounts: no connection is destroyed under a thread that uses it.               *)

mCreated == v1
mRegistered == v2
mRetired == v3
mContext == v4
mState == v5
mIo == v6
mCall == v7

USE DEF mCreated, mRegistered, mRetired, mContext, mState, mIo, mCall

(* What an operation makes of its thread's call.                            *)
MountCallBecomes(t, o, m, s) ==
  /\ mCall' \in [MountThread -> Mounts!Calls]
  /\ mCall'[t].op = o /\ mCall'[t].mount = m /\ mCall'[t].step = s
  /\ \A u \in MountThread \ {t} : mCall'[u] = mCall[u]

(* The fields of a call, and how an operation begins, goes on and returns.  *)
LEMMA MountCallFields ==
  \A c \in Mounts!Calls :
    /\ c.op \in Mounts!Ops /\ c.mount \in Mounts!Mount \cup {Mounts!NoMount}
    /\ c.step \in Mounts!Steps
  BY DEF Mounts!Calls

LEMMA MountCallBegins ==
  ASSUME mCall \in [MountThread -> Mounts!Calls], NEW t \in MountThread,
         NEW o \in Mounts!Ops, NEW m \in Mounts!Mount \cup {Mounts!NoMount},
         NEW s \in Mounts!Steps,
         Mounts!Begins(t, o, m, s)
  PROVE  MountCallBecomes(t, o, m, s)
<1>1. [op |-> o, mount |-> m, step |-> s] \in Mounts!Calls
  BY DEF Mounts!Calls
<1>2. QED  BY <1>1 DEF Mounts!Begins, MountCallBecomes

LEMMA MountCallSteps ==
  ASSUME mCall \in [MountThread -> Mounts!Calls], NEW t \in MountThread,
         NEW s \in Mounts!Steps, Mounts!Step(t, s)
  PROVE  MountCallBecomes(t, mCall[t].op, mCall[t].mount, s)
<1>1. [mCall[t] EXCEPT !.step = s] \in Mounts!Calls
  BY DEF Mounts!Calls
<1>2. mCall' = [mCall EXCEPT ![t] = [mCall[t] EXCEPT !.step = s]]
  BY DEF Mounts!Step
<1>3. mCall'[t] = [mCall[t] EXCEPT !.step = s] /\ mCall' \in [MountThread -> Mounts!Calls]
  BY <1>1, <1>2
<1>4. mCall'[t].op = mCall[t].op /\ mCall'[t].mount = mCall[t].mount /\ mCall'[t].step = s
  BY <1>3 DEF Mounts!Calls
<1>5. QED  BY <1>2, <1>3, <1>4 DEF MountCallBecomes

LEMMA MountCallReturns ==
  ASSUME mCall \in [MountThread -> Mounts!Calls], NEW t \in MountThread, Mounts!Returns(t)
  PROVE  MountCallBecomes(t, "none", Mounts!NoMount, "none")
<1>1. Mounts!NoCall \in Mounts!Calls
  BY DEF Mounts!Calls, Mounts!NoCall, Mounts!Ops, Mounts!Steps
<1>2. QED  BY <1>1 DEF Mounts!Returns, MountCallBecomes, Mounts!NoCall

(* Nothing is mounted and nobody is at work.                                *)
LEMMA MountsInit == Mounts!Init => Mounts!IInv
<1> SUFFICES ASSUME Mounts!Init PROVE Mounts!IInv
  OBVIOUS
<1>1. /\ mCall \in [MountThread -> Mounts!Calls]
      /\ \A t \in MountThread : mCall[t].op = "none" /\ mCall[t].step = "none"
  BY DEF Mounts!Init, Mounts!NoCall, Mounts!Calls, Mounts!Ops, Mounts!Steps
<1>2. QED
  BY MaxMountsAssumption, <1>1
     DEF Mounts!Init, Mounts!IInv, Mounts!TypeOK, Mounts!Registrations, Mounts!LockHeld,
         Mounts!MakersApart, Mounts!ConnectedHasContext, Mounts!OrphansFenced, Mounts!Known,
         Mounts!Users

(* Each step says first what it does, then why the invariant survives it: a *)
(* connection goes only with the lock of its mount free or held by the      *)
(* thread itself, or while the mount is its maker's alone.                  *)
LEMMA MountsStep == Mounts!IInv /\ Mounts!Next => Mounts!IInv'
<1> SUFFICES ASSUME Mounts!IInv, NEW t \in MountThread,
               \/ Mounts!MountSmb(t) \/ Mounts!Register(t) \/ Mounts!MountFails(t)
               \/ Mounts!ReconnectSmb(t) \/ Mounts!Relock(t) \/ Mounts!Reconnected(t)
               \/ Mounts!reconnectMountUnlocked(t)
               \/ Mounts!UnmountSmb(t) \/ Mounts!Fence(t)
               \/ Mounts!mountFrom(t) \/ Mounts!pathOperation(t)
               \/ Mounts!smbOpen(t) \/ Mounts!ensureFileCurrent(t)
               \/ Mounts!FileReopened(t) \/ Mounts!OperationEnds(t)
             PROVE  Mounts!IInv'
  BY DEF Mounts!Next
<1> DEFINE own == mCall[t].mount
<1> USE MaxMountsAssumption, MountThreadAssumption, MountCallFields DEF Mounts!IInv,
                                                                        Mounts!TypeOK
<1>1. /\ Mounts!NoMount \notin Mounts!Mount
      /\ (mCreated' = mCreated => Mounts!Made' = Mounts!Made)
  BY DEF Mounts!NoMount, Mounts!Mount, Mounts!Made
<1>2. CASE Mounts!MountSmb(t)
  <2>1. /\ UNCHANGED <<mRegistered, mRetired, mIo>> /\ mCall[t].op = "none"
        /\ \/ /\ mRegistered # Mounts!NoMount
              /\ MountCallBecomes(t, "existing", mRegistered, "lock")
              /\ UNCHANGED <<mCreated, mContext, mState>>
           \/ \E n \in Mounts!Mount :
                /\ n = mCreated + 1 /\ mRegistered = Mounts!NoMount
                /\ mCreated' = n /\ mCreated' \in 0..MaxMounts
                /\ Mounts!Made' = Mounts!Made \cup {n} /\ n \notin Mounts!Made
                /\ mContext' = mContext \cup {n}
                /\ mState' = [mState EXCEPT ![n] = "Connecting"]
                /\ MountCallBecomes(t, "mount", n, "connecting")
    BY <1>2, MountCallBegins
       DEF Mounts!MountSmb, Mounts!NoCall, Mounts!Ops, Mounts!Steps, Mounts!Mount,
           Mounts!Made, Mounts!NoMount
  <2>2. QED
    BY <1>1, <2>1
       DEF MountCallBecomes, Mounts!Registrations, Mounts!LockHeld, Mounts!MakersApart,
           Mounts!ConnectedHasContext, Mounts!OrphansFenced, Mounts!Known, Mounts!Users,
           Mounts!Ops
<1>3. CASE Mounts!Register(t)
  <2>1. /\ UNCHANGED <<mCreated, mRetired, mState, mIo>>
        /\ mCall[t].op = "mount" /\ mCall[t].step = "connected"
        /\ MountCallBecomes(t, "none", Mounts!NoMount, "none")
        /\ \/ mRegistered = Mounts!NoMount /\ mRegistered' = own /\ UNCHANGED mContext
           \/ mRegistered # Mounts!NoMount /\ mContext' = mContext \ {own} /\ UNCHANGED mRegistered
    BY <1>3, MountCallReturns DEF Mounts!Register, Mounts!At, Mounts!disconnectMountUnlocked
  <2>2. QED
    BY <1>1, <2>1
       DEF MountCallBecomes, Mounts!Registrations, Mounts!LockHeld, Mounts!MakersApart,
           Mounts!ConnectedHasContext, Mounts!OrphansFenced, Mounts!Known, Mounts!Users,
           Mounts!Ops
<1>4. CASE Mounts!MountFails(t)
  <2>1. /\ UNCHANGED <<mCreated, mRegistered, mRetired, mState, mIo>>
        /\ mCall[t].op = "mount" /\ mCall[t].step = "failed"
        /\ mContext' = mContext \ {own}
        /\ MountCallBecomes(t, "none", Mounts!NoMount, "none")
    BY <1>4, MountCallReturns
       DEF Mounts!MountFails, Mounts!At, Mounts!disconnectMountUnlocked
  <2>2. QED
    BY <1>1, <2>1
       DEF MountCallBecomes, Mounts!Registrations, Mounts!LockHeld, Mounts!MakersApart,
           Mounts!ConnectedHasContext, Mounts!OrphansFenced, Mounts!Known, Mounts!Users,
           Mounts!Ops
<1>5. CASE Mounts!ReconnectSmb(t)
  <2>1. /\ UNCHANGED <<mCreated, mRegistered, mRetired, mContext, mState, mIo>>
        /\ mRegistered # Mounts!NoMount /\ mCall[t].op = "none"
        /\ MountCallBecomes(t, "reconnect", mRegistered, "lock")
    BY <1>5, MountCallBegins
       DEF Mounts!ReconnectSmb, Mounts!NoCall, Mounts!Ops, Mounts!Steps
  <2>2. QED
    BY <1>1, <2>1
       DEF MountCallBecomes, Mounts!Registrations, Mounts!LockHeld, Mounts!MakersApart,
           Mounts!ConnectedHasContext, Mounts!OrphansFenced, Mounts!Known, Mounts!Users,
           Mounts!Ops
<1>6. CASE Mounts!Relock(t)
  <2>1. /\ UNCHANGED <<mCreated, mRegistered, mRetired>>
        /\ mCall[t].op \in {"existing", "reconnect"} /\ mCall[t].step = "lock"
        /\ mIo[own] = "free"
        /\ \/ /\ UNCHANGED <<mContext, mState, mIo>>
              /\ MountCallBecomes(t, "none", Mounts!NoMount, "none")
           \/ /\ own \notin mRetired /\ mIo' = [mIo EXCEPT ![own] = t]
              /\ \/ /\ MountCallBecomes(t, mCall[t].op, own, "connecting")
                    /\ mContext' = mContext \cup {own}
                    /\ mState' \in {[mState EXCEPT ![own] = "Connecting"],
                                   [mState EXCEPT ![own] = "Reconnecting"]}
                 \/ /\ MountCallBecomes(t, mCall[t].op, own, "failed")
                    /\ mContext' = mContext \ {own}
                    /\ mState' = [mState EXCEPT ![own] = "Failed"]
    BY <1>6, MountCallReturns, MountCallSteps
       DEF Mounts!Relock, Mounts!StartsConnecting, Mounts!Steps
  <2>2. QED
    BY <1>1, <2>1
       DEF MountCallBecomes, Mounts!Registrations, Mounts!LockHeld, Mounts!MakersApart,
           Mounts!ConnectedHasContext, Mounts!OrphansFenced, Mounts!Known, Mounts!Users,
           Mounts!Ops
<1>7. CASE Mounts!Reconnected(t)
  <2>1. /\ UNCHANGED <<mCreated, mRegistered, mRetired, mContext, mState>>
        /\ mCall[t].op \in {"existing", "reconnect"}
        /\ mCall[t].step \in {"connected", "failed"}
        /\ mIo' = [mIo EXCEPT ![own] = "free"]
        /\ MountCallBecomes(t, "none", Mounts!NoMount, "none")
    BY <1>7, MountCallReturns DEF Mounts!Reconnected, Mounts!Unlocks
  <2>2. QED
    BY <1>1, <2>1
       DEF MountCallBecomes, Mounts!Registrations, Mounts!LockHeld, Mounts!MakersApart,
           Mounts!ConnectedHasContext, Mounts!OrphansFenced, Mounts!Known, Mounts!Users,
           Mounts!Ops
<1>8. CASE Mounts!reconnectMountUnlocked(t)
  <2>1. /\ UNCHANGED <<mCreated, mRegistered, mRetired, mIo>>
        /\ mCall[t].step = "connecting"
        /\ \/ /\ MountCallBecomes(t, mCall[t].op, own, "connected") /\ mContext' = mContext
              /\ mState' = [mState EXCEPT ![own] = "Connected"]
           \/ /\ MountCallBecomes(t, mCall[t].op, own, "failed")
              /\ mContext' \in {mContext, mContext \ {own}}
              /\ mState' \in {[mState EXCEPT ![own] = "Failed"],
                             [mState EXCEPT ![own] = "Disconnected"]}
    BY <1>8, MountCallSteps
       DEF Mounts!reconnectMountUnlocked, Mounts!Connecting, Mounts!disconnectMountUnlocked,
           Mounts!Steps
  <2>2. QED
    BY <1>1, <2>1
       DEF MountCallBecomes, Mounts!Registrations, Mounts!LockHeld, Mounts!MakersApart,
           Mounts!ConnectedHasContext, Mounts!OrphansFenced, Mounts!Known, Mounts!Users,
           Mounts!Ops
<1>9. CASE Mounts!UnmountSmb(t)
  <2>1. /\ UNCHANGED <<mCreated, mContext, mIo>> /\ mCall[t].op = "none"
        /\ mRegistered # Mounts!NoMount /\ mRegistered' = Mounts!NoMount
        /\ mRetired' = mRetired \cup {mRegistered}
        /\ mState' = [mState EXCEPT ![mRegistered] = "Disconnected"]
        /\ MountCallBecomes(t, "unmount", mRegistered, "fence")
    BY <1>9, MountCallBegins DEF Mounts!UnmountSmb, Mounts!NoCall, Mounts!Ops, Mounts!Steps
  <2>2. QED
    BY <1>1, <2>1
       DEF MountCallBecomes, Mounts!Registrations, Mounts!LockHeld, Mounts!MakersApart,
           Mounts!ConnectedHasContext, Mounts!OrphansFenced, Mounts!Known, Mounts!Users,
           Mounts!Ops
<1>10. CASE Mounts!Fence(t)
  <2>1. /\ UNCHANGED <<mCreated, mRegistered, mRetired, mState, mIo>>
        /\ mCall[t].op = "unmount" /\ mIo[own] = "free"
        /\ mContext' = mContext \ {own}
        /\ MountCallBecomes(t, "none", Mounts!NoMount, "none")
    BY <1>10, MountCallReturns DEF Mounts!Fence, Mounts!At, Mounts!disconnectMountUnlocked
  <2>2. QED
    BY <1>1, <2>1
       DEF MountCallBecomes, Mounts!Registrations, Mounts!LockHeld, Mounts!MakersApart,
           Mounts!ConnectedHasContext, Mounts!OrphansFenced, Mounts!Known, Mounts!Users,
           Mounts!Ops
<1>11. CASE Mounts!mountFrom(t)
  <2>1. /\ UNCHANGED <<mCreated, mRegistered, mRetired, mContext, mState, mIo>>
        /\ mCall[t].op = "none"
        /\ \E m \in Mounts!Known, o \in {"path", "open", "file"} :
                MountCallBecomes(t, o, m, "lock")
    BY <1>11, MountCallBegins
       DEF Mounts!mountFrom, Mounts!NoCall, Mounts!Known, Mounts!Ops, Mounts!Steps
  <2>2. QED
    BY <1>1, <2>1
       DEF MountCallBecomes, Mounts!Registrations, Mounts!LockHeld, Mounts!MakersApart,
           Mounts!ConnectedHasContext, Mounts!OrphansFenced, Mounts!Known, Mounts!Users,
           Mounts!Ops
<1>12. CASE Mounts!pathOperation(t)
  <2>1. /\ UNCHANGED <<mCreated, mRegistered, mRetired, mContext, mState>>
        /\ mCall[t].op = "path" /\ mCall[t].step = "lock" /\ mIo[own] = "free"
        /\ \/ MountCallBecomes(t, "none", Mounts!NoMount, "none") /\ mIo' = mIo
           \/ /\ MountCallBecomes(t, mCall[t].op, own, "using") /\ own \in mContext
              /\ mIo' = [mIo EXCEPT ![own] = t]
    BY <1>12, MountCallReturns, MountCallSteps
       DEF Mounts!pathOperation, Mounts!At, Mounts!Steps
  <2>2. QED
    BY <1>1, <2>1
       DEF MountCallBecomes, Mounts!Registrations, Mounts!LockHeld, Mounts!MakersApart,
           Mounts!ConnectedHasContext, Mounts!OrphansFenced, Mounts!Known, Mounts!Users,
           Mounts!Ops
<1>13. CASE Mounts!ensureFileCurrent(t)
  <2>1. /\ UNCHANGED <<mCreated, mRegistered, mRetired>>
        /\ mCall[t].op = "file" /\ mCall[t].step = "lock" /\ mIo[own] = "free"
        /\ \/ /\ UNCHANGED <<mContext, mState, mIo>>
              /\ MountCallBecomes(t, "none", Mounts!NoMount, "none")
           \/ /\ own \notin mRetired /\ mIo' = [mIo EXCEPT ![own] = t]
              /\ \/ /\ MountCallBecomes(t, mCall[t].op, own, "using")
                    /\ mState[own] = "Connected" /\ UNCHANGED <<mContext, mState>>
                 \/ /\ MountCallBecomes(t, mCall[t].op, own, "connecting")
                    /\ mContext' = mContext \cup {own}
                    /\ mState' \in {[mState EXCEPT ![own] = "Connecting"],
                                   [mState EXCEPT ![own] = "Reconnecting"]}
                 \/ /\ MountCallBecomes(t, mCall[t].op, own, "failed")
                    /\ mContext' = mContext \ {own}
                    /\ mState' = [mState EXCEPT ![own] = "Failed"]
    BY <1>13, MountCallReturns, MountCallSteps
       DEF Mounts!ensureFileCurrent, Mounts!StartsConnecting, Mounts!At, Mounts!Steps
  <2>2. QED
    BY <1>1, <2>1
       DEF MountCallBecomes, Mounts!Registrations, Mounts!LockHeld, Mounts!MakersApart,
           Mounts!ConnectedHasContext, Mounts!OrphansFenced, Mounts!Known, Mounts!Users,
           Mounts!Ops
<1>14. CASE Mounts!FileReopened(t)
  <2>1. /\ UNCHANGED <<mCreated, mRegistered, mRetired, mContext, mState>>
        /\ mCall[t].op = "file"
        /\ \/ /\ MountCallBecomes(t, mCall[t].op, own, "using")
              /\ mCall[t].step = "connected" /\ mIo' = mIo
           \/ /\ MountCallBecomes(t, "none", Mounts!NoMount, "none")
              /\ mCall[t].step = "failed" /\ mIo' = [mIo EXCEPT ![own] = "free"]
    BY <1>14, MountCallReturns, MountCallSteps
       DEF Mounts!FileReopened, Mounts!Unlocks, Mounts!Steps
  <2>2. QED
    BY <1>1, <2>1
       DEF MountCallBecomes, Mounts!Registrations, Mounts!LockHeld, Mounts!MakersApart,
           Mounts!ConnectedHasContext, Mounts!OrphansFenced, Mounts!Known, Mounts!Users,
           Mounts!Ops
<1>15. CASE Mounts!OperationEnds(t)
  <2>1. /\ UNCHANGED <<mCreated, mRegistered, mRetired, mContext>>
        /\ mCall[t].step \in {"using", "blind"}
        /\ mState' \in {mState, [mState EXCEPT ![own] = "Failed"]}
        /\ mIo' = [mIo EXCEPT ![own] = "free"]
        /\ MountCallBecomes(t, "none", Mounts!NoMount, "none")
    BY <1>15, MountCallReturns DEF Mounts!OperationEnds, Mounts!Unlocks
  <2>2. QED
    BY <1>1, <2>1
       DEF MountCallBecomes, Mounts!Registrations, Mounts!LockHeld, Mounts!MakersApart,
           Mounts!ConnectedHasContext, Mounts!OrphansFenced, Mounts!Known, Mounts!Users,
           Mounts!Ops
<1>16. CASE Mounts!smbOpen(t)
  <2>1. /\ UNCHANGED <<mCreated, mRegistered, mRetired, mContext, mState>>
        /\ mCall[t].op = "open" /\ mCall[t].step = "lock" /\ mIo[own] = "free"
        /\ \/ MountCallBecomes(t, "none", Mounts!NoMount, "none") /\ mIo' = mIo
           \/ /\ MountCallBecomes(t, mCall[t].op, own, "using") /\ own \in mContext
              /\ mIo' = [mIo EXCEPT ![own] = t]
           \/ /\ MountCallBecomes(t, mCall[t].op, own, "blind")
              /\ own \notin mContext /\ own \notin mRetired
              /\ mIo' = [mIo EXCEPT ![own] = t]
    BY <1>16, MountCallReturns, MountCallSteps DEF Mounts!smbOpen, Mounts!At, Mounts!Steps
  <2>2. own \in Mounts!Known
    BY <2>1 DEF Mounts!LockHeld, Mounts!Users
  <2>3. own \notin mContext /\ own \notin mRetired => mState[own] # "Connected"
    BY <2>2 DEF Mounts!Known, Mounts!ConnectedHasContext
  <2>4. QED
    BY <1>1, <2>1, <2>3
       DEF MountCallBecomes, Mounts!Registrations, Mounts!LockHeld, Mounts!MakersApart,
           Mounts!ConnectedHasContext, Mounts!OrphansFenced, Mounts!Known, Mounts!Users,
           Mounts!Ops
<1>17. QED
  BY <1>2, <1>3, <1>4, <1>5, <1>6, <1>7, <1>8, <1>9, <1>10, <1>11, <1>12, <1>13, <1>14,
     <1>15, <1>16

(* The invariant says more than ContextOutlivesUse.                         *)
LEMMA MountsSafe == Mounts!IInv => Mounts!ContextOutlivesUse
  BY DEF Mounts!IInv, Mounts!LockHeld, Mounts!ConnectedHasContext, Mounts!OrphansFenced,
         Mounts!ContextOutlivesUse

(* The invariant is about the variables alone.                              *)
LEMMA MountsStutter == Mounts!IInv /\ UNCHANGED Mounts!vars => Mounts!IInv'
  BY DEF Mounts!vars, Mounts!IInv, Mounts!TypeOK, Mounts!Registrations, Mounts!LockHeld,
         Mounts!MakersApart, Mounts!ConnectedHasContext, Mounts!OrphansFenced, Mounts!Known,
         Mounts!Users, Mounts!Made

HIDE DEF mCreated, mRegistered, mRetired, mContext, mState, mIo, mCall

--------------------------------------------------------------------------------
(* File: a file on a share is read where it stands.                               *)

rContent == v1
rHandle == v2
rCurrent == v3
rFile == v4
rLeft == v5
rOvertaken == v6

USE DEF rContent, rHandle, rCurrent, rFile, rLeft, rOvertaken

LEMMA LeastIs ==
  ASSUME NEW a \in Nat, NEW b \in Nat
  PROVE  /\ File!Least(a, b) \in Nat /\ File!Least(a, b) <= a /\ File!Least(a, b) <= b
         /\ File!Least(a, b) = a \/ File!Least(a, b) = b
BY DEF File!Least

(* What a request returns: no more than was asked for, nothing past the file's *)
(* end, and the same bytes as a request for just those.                     *)
LEMMA Taken ==
  ASSUME File!TypeOK, NEW a \in 0 .. MaxSize, NEW k \in Nat
  PROVE  /\ File!Bytes(a, k) \in Seq(Nat) /\ Len(File!Bytes(a, k)) \in Nat
         /\ Len(File!Bytes(a, k)) <= k /\ a + Len(File!Bytes(a, k)) \in 0 .. MaxSize
         /\ File!Bytes(a, k) # <<>> =>
              /\ Len(File!Bytes(a, k)) > 0
              /\ File!Bytes(a, k) = File!Bytes(a, Len(File!Bytes(a, k)))
<1> a \in Nat
  BY ReadsAssumption
<1>1. PICK e \in Nat : e = Len(rContent) /\ e <= MaxSize
  BY DEF File!TypeOK
<1>2. PICK n \in Nat : n = File!Least(e, a + k) /\ n <= e /\ n <= a + k
  <2>1. PICK b \in Nat : b = a + k
    OBVIOUS
  <2>2. File!Least(e, b) \in Nat /\ File!Least(e, b) <= e /\ File!Least(e, b) <= b
    BY LeastIs
  <2>3. QED  BY <2>1, <2>2
<1>3. PICK m \in Int : m = a + 1
  OBVIOUS
<1>4. File!Bytes(a, k) = SubSeq(rContent, m, n)
  BY <1>1, <1>2, <1>3 DEF File!Bytes
<1>5. /\ File!Bytes(a, k) \in Seq(Nat)
      /\ Len(File!Bytes(a, k)) = IF m <= n THEN n - m + 1 ELSE 0
  <2>1. n \in Int /\ \A i \in m .. n : rContent[i] \in Nat
    BY <1>1, <1>2, <1>3 DEF File!TypeOK
  <2>2. /\ SubSeq(rContent, m, n) \in Seq(Nat)
        /\ Len(SubSeq(rContent, m, n)) = IF m <= n THEN n - m + 1 ELSE 0
    BY <2>1, SubSeqProperties
  <2>3. QED  BY <1>4, <2>2
<1>6. PICK l \in Nat : l = Len(File!Bytes(a, k)) /\ l = IF a + 1 <= n THEN n - a ELSE 0
  <2>1. PICK l \in Nat : l = IF m <= n THEN n - m + 1 ELSE 0
    <3>1. CASE m <= n
      <4>1. n - m + 1 \in Nat
        BY <3>1
      <4>2. QED  BY <3>1, <4>1
    <3>2. CASE ~(m <= n)
      BY <3>2
    <3>3. QED  BY <3>1, <3>2
  <2>2. l = Len(File!Bytes(a, k))
    BY <1>5, <2>1
  <2>3. l = IF a + 1 <= n THEN n - a ELSE 0
    BY <1>3, <2>1
  <2>4. QED  BY <2>2, <2>3
<1>7. l <= k /\ a + l \in 0 .. MaxSize
  BY <1>1, <1>2, <1>6, ReadsAssumption
<1>8. ASSUME File!Bytes(a, k) # <<>>
      PROVE  l > 0 /\ File!Bytes(a, k) = File!Bytes(a, l)
  <2>1. l # 0
    BY <1>5, <1>6, <1>8, EmptySeq
  <2>2. l > 0 /\ a + l = n
    BY <1>6, <2>1, ReadsAssumption
  <2>3. File!Least(e, n) = n
    BY <1>2 DEF File!Least
  <2>4. File!Bytes(a, l) = SubSeq(rContent, m, n)
    BY <1>1, <1>3, <2>2, <2>3 DEF File!Bytes
  <2>5. QED  BY <1>4, <2>2, <2>4
<1>9. QED  BY <1>5, <1>6, <1>7, <1>8

(* The parts of an open file, and the states a call leaves it in.           *)
LEMMA FieldsAre ==
  ASSUME File!TypeOK
  PROVE  /\ rFile.position \in Nat /\ rFile.position <= MaxSize /\ rFile.offset \in Nat
         /\ rFile.sequential \in 0 .. 3 /\ rFile.readAhead \in Seq(Nat)
         /\ Len(rFile.readAhead) \in Nat
         /\ rFile.readAhead = <<>> => Len(rFile.readAhead) = 0
BY ReadsAssumption DEF File!TypeOK, File!OpenFile

LEMMA Put ==
  ASSUME NEW f \in File!OpenFile, NEW p \in 0 .. MaxSize, NEW s \in Seq(Nat), NEW o \in Nat,
         NEW q \in 0 .. 3
  PROVE  /\ [f EXCEPT !.position = p] \in File!OpenFile
         /\ [f EXCEPT !.position = p, !.sequential = q] \in File!OpenFile
         /\ [f EXCEPT !.position = p, !.offset = o] \in File!OpenFile
         /\ [f EXCEPT !.readAhead = s, !.offset = o] \in File!OpenFile
         /\ [f EXCEPT !.readAhead = s, !.offset = o, !.sequential = q] \in File!OpenFile
         /\ [f EXCEPT !.position = p, !.readAhead = s, !.offset = o] \in File!OpenFile
BY DEF File!OpenFile

LEMMA Nothing == <<>> \in Seq(Nat) /\ 0 \in Nat /\ Len(<<>>) = 0
BY EmptySeq

LEMMA NoBufferIs ==
  ASSUME File!TypeOK, NEW p \in Nat, p <= MaxSize
  PROVE  /\ File!NoBuffer \in File!OpenFile /\ File!NoBuffer.position = rFile.position
         /\ File!NoBuffer.readAhead = <<>> /\ File!NoBuffer.offset = 0
         /\ [File!NoBuffer EXCEPT !.position = p] \in File!OpenFile
         /\ [File!NoBuffer EXCEPT !.position = p].position = p
         /\ [File!NoBuffer EXCEPT !.position = p].readAhead = <<>>
         /\ [File!NoBuffer EXCEPT !.position = p].offset = 0
         /\ [File!NoBuffer EXCEPT !.position = p, !.sequential = 0] \in File!OpenFile
         /\ [File!NoBuffer EXCEPT !.position = p, !.sequential = 0].position = p
         /\ [File!NoBuffer EXCEPT !.position = p, !.sequential = 0].readAhead = <<>>
         /\ [File!NoBuffer EXCEPT !.position = p, !.sequential = 0].offset = 0
<1>1. PICK s \in Seq(Nat) : s = <<>>
  BY Nothing
<1>2. /\ p \in 0 .. MaxSize /\ rFile \in File!OpenFile /\ 0 \in 0 .. 3
      /\ rFile.position \in 0 .. MaxSize
  BY ReadsAssumption DEF File!TypeOK, File!OpenFile
<1>3. File!NoBuffer = [rFile EXCEPT !.readAhead = s, !.offset = 0]
  BY <1>1 DEF File!NoBuffer
<1>4. File!NoBuffer \in File!OpenFile
  BY <1>2, <1>3, Put
<1>5. /\ File!NoBuffer.position = rFile.position /\ File!NoBuffer.readAhead = s
      /\ File!NoBuffer.offset = 0
  BY <1>2, <1>3 DEF File!OpenFile
<1>6. /\ [File!NoBuffer EXCEPT !.position = p] \in File!OpenFile
      /\ [File!NoBuffer EXCEPT !.position = p, !.sequential = 0] \in File!OpenFile
  BY <1>2, <1>4, Put
<1>7. PICK g \in File!OpenFile : g = File!NoBuffer
  BY <1>4
<1>8. /\ [g EXCEPT !.position = p].position = p
      /\ [g EXCEPT !.position = p].readAhead = g.readAhead
      /\ [g EXCEPT !.position = p].offset = g.offset
      /\ [g EXCEPT !.position = p, !.sequential = 0].position = p
      /\ [g EXCEPT !.position = p, !.sequential = 0].readAhead = g.readAhead
      /\ [g EXCEPT !.position = p, !.sequential = 0].offset = g.offset
  BY DEF File!OpenFile
<1>9. QED  BY <1>1, <1>4, <1>5, <1>6, <1>7, <1>8

(* A file without a buffer, at the server's handle.                         *)
LEMMA NoBufferLeft ==
  ASSUME File!TypeOK', rLeft' = 0, rFile'.readAhead = <<>>, rFile'.offset = 0,
         rHandle' # File!NoHandle /\ rCurrent' => rHandle' = rFile'.position
  PROVE  File!IInv'
<1>1. Len(rFile'.readAhead) = 0 /\ rFile'.position \in Nat
  BY ReadsAssumption DEF File!TypeOK, File!OpenFile
<1>2. File!InTheBuffer' /\ File!UsedUp' /\ File!BufferIsOfTheFile'
  BY <1>1 DEF File!InTheBuffer, File!UsedUp, File!BufferIsOfTheFile
<1>3. File!Start' = rFile'.position /\ rFile'.position + 0 = rFile'.position
  BY <1>1 DEF File!Start
<1>4. File!HandleAtItsEnd'
  BY <1>1, <1>3 DEF File!HandleAtItsEnd, File!NoHandle
<1>5. QED  BY <1>2, <1>4 DEF File!IInv

LEMMA FileInit == File!Init => File!IInv
<1> SUFFICES ASSUME File!Init PROVE File!IInv
  OBVIOUS
<1>1. rContent \in Seq(Nat) /\ Len(rContent) = FileSize
  <2>1. \A i \in 1 .. FileSize : i \in Nat
    BY ReadsAssumption
  <2>2. QED  BY <2>1, ReadsAssumption DEF File!Init
<1>2. /\ rFile \in File!OpenFile /\ rFile.readAhead = <<>> /\ rFile.position = 0
      /\ rFile.offset = 0
  <2>1. PICK s \in Seq(Nat) : s = <<>>
    BY Nothing
  <2>2. 0 \in 0 .. MaxSize /\ 0 \in Nat /\ 0 \in 0 .. 3
    BY ReadsAssumption
  <2>3. [position |-> 0, readAhead |-> s, offset |-> 0, sequential |-> 0] \in File!OpenFile
    BY <2>2 DEF File!OpenFile
  <2>4. QED  BY <2>1, <2>3 DEF File!Init
<1>3. File!TypeOK
  <2>1. Len(rContent) \in 0 .. MaxSize
    BY <1>1, ReadsAssumption
  <2>2. rHandle \in 0 .. File!NoHandle /\ rLeft \in 0 .. MaxLength
    BY ReadsAssumption DEF File!Init, File!NoHandle
  <2>3. QED  BY <1>1, <1>2, <2>1, <2>2 DEF File!Init, File!TypeOK
<1>4. File!InTheBuffer /\ File!UsedUp /\ File!BufferIsOfTheFile
  BY <1>2 DEF File!Init, File!InTheBuffer, File!UsedUp, File!BufferIsOfTheFile
<1>5. File!HandleAtItsEnd
  BY <1>2 DEF File!Init, File!HandleAtItsEnd, File!Start
<1>6. QED  BY <1>3, <1>4, <1>5 DEF File!IInv

(* What is used of the buffer.                                              *)
LEMMA Advanced ==
  ASSUME NEW f \in File!OpenFile, NEW n \in Nat, f.offset + n <= Len(f.readAhead),
         f.position + n <= MaxSize
  PROVE  /\ File!Advance(f, n) \in File!OpenFile /\ File!Advance(f, n).position = f.position + n
         /\ \/ /\ f.offset + n = Len(f.readAhead)
               /\ File!Advance(f, n).readAhead = <<>> /\ File!Advance(f, n).offset = 0
            \/ /\ f.offset + n < Len(f.readAhead)
               /\ File!Advance(f, n).readAhead = f.readAhead
               /\ File!Advance(f, n).offset = f.offset + n
<1>1. /\ f.position \in Nat /\ f.offset \in Nat /\ Len(f.readAhead) \in Nat
      /\ f.readAhead \in Seq(Nat) /\ f.sequential \in 0 .. 3
  BY ReadsAssumption DEF File!OpenFile
<1>2. PICK p \in 0 .. MaxSize : p = f.position + n
  BY <1>1, ReadsAssumption
<1>3. PICK o \in Nat : o = f.offset + n
  BY <1>1
<1>4. CASE o = Len(f.readAhead)
  <2>1. PICK s \in Seq(Nat) : s = <<>>
    BY Nothing
  <2>2. File!Advance(f, n) = [f EXCEPT !.position = p, !.readAhead = s, !.offset = 0]
    BY <1>2, <1>3, <1>4, <2>1 DEF File!Advance, File!OpenFile
  <2>3. [f EXCEPT !.position = p, !.readAhead = s, !.offset = 0] \in File!OpenFile
    BY DEF File!OpenFile
  <2>4. /\ File!Advance(f, n).position = p
        /\ File!Advance(f, n).readAhead = s /\ File!Advance(f, n).offset = 0
    BY <2>2 DEF File!OpenFile
  <2>5. QED  BY <1>2, <1>3, <1>4, <2>1, <2>2, <2>3, <2>4
<1>5. CASE o # Len(f.readAhead)
  <2>1. o < Len(f.readAhead)
    BY <1>1, <1>3, <1>5
  <2>2. File!Advance(f, n) = [f EXCEPT !.position = p, !.offset = o]
    BY <1>2, <1>3, <1>5 DEF File!Advance, File!OpenFile
  <2>3. [f EXCEPT !.position = p, !.offset = o] \in File!OpenFile
    BY DEF File!OpenFile
  <2>4. /\ File!Advance(f, n).position = p
        /\ File!Advance(f, n).readAhead = f.readAhead /\ File!Advance(f, n).offset = o
    BY <2>2 DEF File!OpenFile
  <2>5. QED  BY <1>2, <1>3, <2>1, <2>2, <2>3, <2>4
<1>6. QED  BY <1>4, <1>5

LEMMA NowIs ==
  ASSUME File!IInv
  PROVE  /\ File!TypeOK /\ rFile \in File!OpenFile
         /\ rHandle \in Nat /\ File!Start \in Nat /\ rLeft \in Nat
         /\ File!Start = rFile.position - rFile.offset
         /\ rFile.offset <= Len(rFile.readAhead)
         /\ rHandle # File!NoHandle => rHandle <= MaxSize
<1>1. /\ rFile.position \in Nat /\ rFile.offset \in Nat /\ rFile.offset <= rFile.position
      /\ rFile.offset <= Len(rFile.readAhead)
  BY FieldsAre DEF File!IInv, File!InTheBuffer
<1>2. rFile.position - rFile.offset \in Nat
  BY <1>1
<1>3. rHandle \in Nat /\ rLeft \in Nat /\ (rHandle # File!NoHandle => rHandle <= MaxSize)
  BY ReadsAssumption DEF File!IInv, File!TypeOK, File!NoHandle
<1>4. QED  BY <1>1, <1>2, <1>3 DEF File!IInv, File!TypeOK, File!Start

(* A read takes what is buffered; only a buffer that is used up has a remainder *)
(* asked of the server.                                                     *)
LEMMA ReadInv ==
  ASSUME File!IInv, File!smbRead
  PROVE  File!IInv'
<1>1. /\ rHandle # File!NoHandle /\ rCurrent /\ rLeft = 0
      /\ UNCHANGED <<rContent, rHandle, rCurrent, rOvertaken>>
  BY DEF File!smbRead, File!MayCall
<1>2. PICK length \in 1 .. MaxLength :
         /\ rFile' = IF rFile.offset < Len(rFile.readAhead)
                    THEN File!Advance(rFile,
                                 File!Least(length, Len(rFile.readAhead) - rFile.offset))
                    ELSE rFile
         /\ rLeft' = length - File!Least(length, Len(rFile.readAhead) - rFile.offset)
  BY DEF File!smbRead
<1>3. /\ File!TypeOK /\ rFile \in File!OpenFile /\ rFile.position \in Nat
      /\ rFile.offset \in Nat
      /\ rFile.readAhead \in Seq(Nat)
      /\ rFile.offset <= rFile.position /\ rFile.position <= MaxSize
  BY NowIs, FieldsAre DEF File!IInv, File!InTheBuffer
<1>4. PICK l \in Nat : l = Len(rFile.readAhead) /\ rFile.offset <= l
  BY NowIs, FieldsAre
<1>5. length \in Nat /\ length <= MaxLength
  BY ReadsAssumption
<1>6. l - rFile.offset \in Nat
  BY <1>3, <1>4
<1>7. PICK n \in Nat :
         /\ n = File!Least(length, l - rFile.offset) /\ n <= length /\ n <= l - rFile.offset
         /\ n = length \/ n = l - rFile.offset
  BY <1>5, <1>6, LeastIs
<1>8. rLeft' = length - n /\ rLeft' \in 0 .. MaxLength
  BY <1>2, <1>4, <1>5, <1>7, ReadsAssumption
<1>9. /\ rHandle = File!Start + l /\ File!Start = rFile.position - rFile.offset
      /\ rHandle <= MaxSize
  BY <1>1, <1>4, NowIs DEF File!IInv, File!HandleAtItsEnd
<1>10. CASE rFile.offset < l
  <2>1. rFile' = File!Advance(rFile, n)
    BY <1>2, <1>4, <1>7, <1>10
  <2>2. rFile.offset + n <= l /\ rFile.position + n <= MaxSize
    BY <1>3, <1>6, <1>7, <1>9, ReadsAssumption
  <2>3. /\ rFile' \in File!OpenFile /\ rFile'.position = rFile.position + n
        /\ \/ /\ rFile.offset + n = l /\ rFile'.readAhead = <<>> /\ rFile'.offset = 0
           \/ /\ rFile.offset + n < l
              /\ rFile'.readAhead = rFile.readAhead /\ rFile'.offset = rFile.offset + n
    BY <1>3, <1>4, <2>1, <2>2, Advanced
  <2>4. File!TypeOK'
    BY <1>1, <1>8, <2>3 DEF File!IInv, File!TypeOK, File!NoHandle
  <2>5. CASE rFile.offset + n = l /\ rFile'.readAhead = <<>> /\ rFile'.offset = 0
    <3>1. Len(rFile'.readAhead) = 0 /\ rFile'.position = rHandle /\ rFile'.position \in Nat
      BY <1>3, <1>9, <2>3, <2>5, Nothing
    <3>2. File!InTheBuffer' /\ File!UsedUp' /\ File!BufferIsOfTheFile'
      BY <1>1, <2>5, <3>1
         DEF File!InTheBuffer, File!UsedUp, File!BufferIsOfTheFile, File!NoHandle
    <3>3. File!HandleAtItsEnd'
      BY <1>1, <2>5, <3>1 DEF File!HandleAtItsEnd, File!Start
    <3>4. QED  BY <2>4, <3>2, <3>3 DEF File!IInv
  <2>6. CASE /\ rFile.offset + n < l
             /\ rFile'.readAhead = rFile.readAhead /\ rFile'.offset = rFile.offset + n
    <3>1. File!Start' = File!Start
      BY <1>3, <1>9, <2>3, <2>6 DEF File!Start
    <3>2. rLeft' = 0
      BY <1>3, <1>5, <1>7, <1>8, <2>6
    <3>3. File!InTheBuffer'
      BY <1>3, <1>4, <2>3, <2>6 DEF File!InTheBuffer
    <3>4. File!UsedUp' /\ File!HandleAtItsEnd' /\ File!BufferIsOfTheFile'
      BY <1>1, <2>6, <3>1, <3>2
         DEF File!IInv, File!UsedUp, File!HandleAtItsEnd, File!BufferIsOfTheFile,
             File!Bytes, File!NoHandle
    <3>5. QED  BY <2>4, <3>3, <3>4 DEF File!IInv
  <2>7. QED  BY <2>3, <2>5, <2>6
<1>11. CASE ~(rFile.offset < l)
  <2>1. rFile' = rFile /\ rFile.offset = l
    BY <1>2, <1>3, <1>4, <1>11
  <2>2. File!TypeOK'
    BY <1>1, <1>8, <2>1 DEF File!IInv, File!TypeOK, File!NoHandle
  <2>3. File!UsedUp'
    BY <1>1, <1>4, <2>1 DEF File!UsedUp, File!NoHandle
  <2>4. File!InTheBuffer' /\ File!HandleAtItsEnd' /\ File!BufferIsOfTheFile'
    BY <1>1, <2>1
       DEF File!IInv, File!InTheBuffer, File!HandleAtItsEnd, File!BufferIsOfTheFile,
           File!Start, File!Bytes, File!NoHandle
  <2>5. QED  BY <2>2, <2>3, <2>4 DEF File!IInv
<1>12. QED  BY <1>10, <1>11

(* A request to the server begins where the file is.                        *)
LEMMA AtPosition ==
  ASSUME File!IInv, rLeft > 0
  PROVE  /\ rHandle = rFile.position /\ rHandle \in 0 .. MaxSize
         /\ rCurrent /\ rHandle # File!NoHandle
         /\ rFile.offset = Len(rFile.readAhead)
<1>1. rCurrent /\ rHandle # File!NoHandle /\ rFile.offset = Len(rFile.readAhead)
  BY DEF File!IInv, File!UsedUp
<1>2. rHandle = File!Start + Len(rFile.readAhead)
  BY <1>1 DEF File!IInv, File!HandleAtItsEnd
<1>3. /\ rFile.position \in Nat /\ rFile.offset \in Nat
      /\ File!Start = rFile.position - rFile.offset
  BY NowIs, FieldsAre
<1>4. rHandle = rFile.position
  BY <1>1, <1>2, <1>3
<1>5. QED  BY <1>1, <1>4, NowIs, ReadsAssumption

LEMMA TargetIs == ASSUME File!TypeOK PROVE File!AheadTarget \in Nat
<1>1. PICK q \in 0 .. 3 : q = File!Least(rFile.sequential, 3)
  BY DEF File!TypeOK, File!OpenFile, File!Least
<1>2. PICK d \in {1, 2, 4, 8} : d = <<1, 2, 4, 8>>[q + 1]
  <2>1. q = 0 \/ q = 1 \/ q = 2 \/ q = 3
    OBVIOUS
  <2>2. QED  BY <2>1
<1>3. AheadMin * d \in Nat
  BY ReadsAssumption
<1>4. QED  BY <1>1, <1>2, <1>3, ReadsAssumption, LeastIs DEF File!AheadTarget

LEMMA ReadAheadInv ==
  ASSUME File!IInv, File!ReadAhead
  PROVE  File!IInv'
<1>1. /\ rHandle = rFile.position /\ rHandle \in 0 .. MaxSize /\ rHandle \in Nat
      /\ File!TypeOK /\ rFile \in File!OpenFile /\ rLeft \in Nat /\ rLeft > 0
      /\ rLeft' = 0 /\ UNCHANGED <<rContent, rCurrent, rOvertaken>>
      /\ rHandle # File!NoHandle /\ rCurrent
  BY AtPosition, NowIs DEF File!ReadAhead
<1>2. PICK k \in Nat : k = File!Least(File!AheadTarget, ReadMax)
  BY <1>1, TargetIs, LeastIs, ReadsAssumption
<1>3. PICK read \in Seq(Nat) : read = File!Bytes(rHandle, k)
  BY <1>1, Taken
<1>4. PICK l \in Nat :
         /\ l = Len(read) /\ rHandle + l \in 0 .. MaxSize /\ rHandle + l \in Nat
         /\ read # <<>> => l > 0 /\ read = File!Bytes(rHandle, l)
  <2>1. PICK l \in Nat : l = Len(read)
    BY <1>1, <1>3, Taken
  <2>2. rHandle + l \in 0 .. MaxSize
    BY <1>1, <1>3, <2>1, Taken
  <2>3. read # <<>> => l > 0
    BY <1>1, <1>3, <2>1, Taken
  <2>4. read # <<>> => read = File!Bytes(rHandle, l)
    BY <1>1, <1>3, <2>1, Taken
  <2>5. rHandle + l \in Nat
    BY <1>1, <2>1
  <2>6. QED  BY <2>1, <2>2, <2>3, <2>4, <2>5
<1>5. rHandle' = rHandle + l
      /\ rFile' = IF read = <<>> THEN rFile
                 ELSE File!Advance([rFile EXCEPT !.readAhead = read, !.offset = 0,
                                           !.sequential = File!Least(@ + 1, 3)],
                              File!Least(rLeft, l))
  BY <1>2, <1>3, <1>4 DEF File!ReadAhead
<1>6. CASE read = <<>>
  <2>1. l = 0 /\ rFile' = rFile /\ rHandle' = rHandle
    BY <1>1, <1>4, <1>5, <1>6, Nothing
  <2>2. File!TypeOK'
    BY <1>1, <2>1, ReadsAssumption DEF File!TypeOK, File!NoHandle
  <2>3. QED
    BY <1>1, <2>1, <2>2
       DEF File!IInv, File!InTheBuffer, File!UsedUp, File!HandleAtItsEnd,
           File!BufferIsOfTheFile, File!Start, File!Bytes, File!NoHandle
<1>7. CASE read # <<>>
  <2>1. PICK q \in 0 .. 3 : q = File!Least(rFile.sequential + 1, 3)
    BY <1>1 DEF File!OpenFile, File!Least
  <2>2. PICK f \in File!OpenFile :
           /\ f = [rFile EXCEPT !.readAhead = read, !.offset = 0, !.sequential = q]
           /\ f.readAhead = read /\ f.offset = 0 /\ f.position = rFile.position
    <3>1. [rFile EXCEPT !.readAhead = read, !.offset = 0, !.sequential = q] \in File!OpenFile
      BY <1>1, Put
    <3>2. /\ [rFile EXCEPT !.readAhead = read, !.offset = 0, !.sequential = q].readAhead = read
          /\ [rFile EXCEPT !.readAhead = read, !.offset = 0, !.sequential = q].offset = 0
          /\ [rFile EXCEPT !.readAhead = read, !.offset = 0, !.sequential = q].position
             = rFile.position
      BY <1>1 DEF File!OpenFile
    <3>3. QED  BY <3>1, <3>2
  <2>3. PICK n \in Nat : n = File!Least(rLeft, l) /\ n <= l
    BY <1>1, LeastIs
  <2>4. rFile' = File!Advance(f, n)
    BY <1>1, <1>5, <1>7, <2>1, <2>2, <2>3 DEF File!OpenFile
  <2>5. f.offset + n <= Len(f.readAhead) /\ f.position + n <= MaxSize
    BY <1>1, <1>4, <2>2, <2>3, ReadsAssumption
  <2>6. /\ rFile' \in File!OpenFile /\ rFile'.position = rHandle + n
        /\ \/ n = l /\ rFile'.readAhead = <<>> /\ rFile'.offset = 0
           \/ n < l /\ rFile'.readAhead = read /\ rFile'.offset = n
    <3>1. /\ rFile' \in File!OpenFile /\ rFile'.position = f.position + n
          /\ \/ /\ f.offset + n = Len(f.readAhead)
                /\ rFile'.readAhead = <<>> /\ rFile'.offset = 0
             \/ /\ f.offset + n < Len(f.readAhead)
                /\ rFile'.readAhead = f.readAhead /\ rFile'.offset = f.offset + n
      BY <2>4, <2>5, Advanced
    <3>2. f.offset + n = n /\ Len(f.readAhead) = l
      BY <1>4, <2>2
    <3>3. f.position + n = rHandle + n
      BY <1>1, <2>2
    <3>4. QED  BY <2>2, <3>1, <3>2, <3>3
  <2>7. File!TypeOK'
    BY <1>1, <1>4, <1>5, <2>6, ReadsAssumption DEF File!TypeOK, File!NoHandle
  <2>8. CASE n = l /\ rFile'.readAhead = <<>> /\ rFile'.offset = 0
    BY <1>1, <1>5, <2>6, <2>7, <2>8, NoBufferLeft
  <2>9. CASE n < l /\ rFile'.readAhead = read /\ rFile'.offset = n
    <3>1. File!Start' = rHandle
      BY <1>1, <2>3, <2>6, <2>9 DEF File!Start
    <3>2. File!InTheBuffer' /\ File!UsedUp'
      BY <1>1, <1>4, <2>3, <2>6, <2>9 DEF File!InTheBuffer, File!UsedUp
    <3>3. File!HandleAtItsEnd'
      BY <1>4, <1>5, <2>9, <3>1 DEF File!HandleAtItsEnd
    <3>4. File!BufferIsOfTheFile'
      BY <1>1, <1>4, <1>7, <2>9, <3>1 DEF File!BufferIsOfTheFile, File!Bytes
    <3>5. QED  BY <2>7, <3>2, <3>3, <3>4 DEF File!IInv
  <2>10. QED  BY <2>6, <2>8, <2>9
<1>8. QED  BY <1>6, <1>7

LEMMA ReadDirectInv ==
  ASSUME File!IInv, File!ReadDirect
  PROVE  File!IInv'
<1>1. /\ rHandle = rFile.position /\ rHandle \in 0 .. MaxSize /\ rHandle \in Nat
      /\ File!TypeOK /\ rFile \in File!OpenFile /\ rLeft \in Nat /\ rLeft > 0
      /\ rLeft <= MaxLength
      /\ UNCHANGED <<rContent, rCurrent>> /\ rHandle # File!NoHandle /\ rCurrent
      /\ rFile.offset = Len(rFile.readAhead)
  BY AtPosition, NowIs, ReadsAssumption DEF File!ReadDirect, File!IInv, File!TypeOK
<1>2. PICK k \in Nat : k = File!Least(rLeft, ReadMax) /\ k <= rLeft
  BY <1>1, LeastIs, ReadsAssumption
<1>3. PICK read \in Seq(Nat) : read = File!Bytes(rHandle, k)
  BY <1>1, Taken
<1>4. PICK l \in Nat :
         /\ l = Len(read) /\ rHandle + l \in 0 .. MaxSize
         /\ read = <<>> => l = 0
  BY <1>1, <1>3, Taken, Nothing
<1>5. /\ rHandle' = rHandle + l
      /\ rFile' = IF read = <<>> THEN rFile
                 ELSE [rFile EXCEPT !.position = @ + l, !.sequential = 0]
      /\ rLeft' = IF l < k THEN 0 ELSE rLeft - k
      /\ rOvertaken' = (rOvertaken \/ (rFile.readAhead # <<>> /\ read # <<>>))
  BY <1>2, <1>3, <1>4 DEF File!ReadDirect
<1>6. rLeft' \in 0 .. MaxLength
  BY <1>1, <1>2, <1>4, <1>5, ReadsAssumption
<1>7. CASE read = <<>>
  <2>1. rFile' = rFile /\ rHandle' = rHandle /\ rOvertaken' = rOvertaken
    BY <1>1, <1>4, <1>5, <1>7 DEF File!TypeOK
  <2>2. File!TypeOK'
    BY <1>1, <1>6, <2>1 DEF File!TypeOK, File!NoHandle
  <2>3. QED
    BY <1>1, <2>1, <2>2
       DEF File!IInv, File!InTheBuffer, File!UsedUp, File!HandleAtItsEnd,
           File!BufferIsOfTheFile, File!Start, File!Bytes, File!NoHandle
<1>8. CASE read # <<>>
  <2>1. PICK p \in 0 .. MaxSize : p = rFile.position + l /\ p = rHandle'
    BY <1>1, <1>4, <1>5
  <2>2. /\ rFile' \in File!OpenFile /\ rFile'.position = p
        /\ rFile'.readAhead = rFile.readAhead
        /\ rFile'.offset = rFile.offset
    <3>1. rFile' = [rFile EXCEPT !.position = p, !.sequential = 0]
      BY <1>1, <1>5, <1>8, <2>1 DEF File!OpenFile
    <3>2. [rFile EXCEPT !.position = p, !.sequential = 0] \in File!OpenFile
      <4>1. 0 \in 0 .. 3 /\ 0 \in Nat /\ <<>> \in Seq(Nat)
        BY Nothing
      <4>2. QED  BY <1>1, <4>1, Put
    <3>3. /\ rFile'.position = p /\ rFile'.readAhead = rFile.readAhead
          /\ rFile'.offset = rFile.offset
      BY <1>1, <3>1 DEF File!OpenFile
    <3>4. QED  BY <3>1, <3>2, <3>3
  <2>3. File!TypeOK'
    <3>1. rHandle' \in 0 .. File!NoHandle
      BY <2>1, ReadsAssumption DEF File!NoHandle
    <3>2. rOvertaken' \in BOOLEAN
      BY <1>5
    <3>3. QED  BY <1>1, <1>6, <2>2, <3>1, <3>2 DEF File!TypeOK
  <2>4. File!InTheBuffer'
    BY <1>1, <1>4, <2>1, <2>2, FieldsAre DEF File!IInv, File!InTheBuffer
  <2>5. rHandle' # File!NoHandle
    BY <2>1, ReadsAssumption DEF File!NoHandle
  <2>6. File!UsedUp' /\ File!BufferIsOfTheFile'
    BY <1>1, <1>5, <1>8, <2>2, <2>5 DEF File!UsedUp, File!BufferIsOfTheFile, File!NoHandle
  <2>7. File!HandleAtItsEnd'
    <3>1. p = p - rFile.offset + Len(rFile.readAhead)
      BY <1>1, <2>1, FieldsAre
    <3>2. QED  BY <2>1, <2>2, <3>1 DEF File!HandleAtItsEnd, File!Start
  <2>8. QED  BY <2>3, <2>4, <2>6, <2>7 DEF File!IInv
<1>9. QED  BY <1>7, <1>8

LEMMA ReadFailsInv ==
  ASSUME File!IInv, File!ReadFails
  PROVE  File!IInv'
<1>1. rLeft' \in 0 .. MaxLength /\ rCurrent' \in BOOLEAN
  <2>1. rLeft' = 0 /\ rCurrent' = FALSE
    BY DEF File!ReadFails
  <2>2. 0 \in 0 .. MaxLength
    BY ReadsAssumption
  <2>3. rLeft' \in 0 .. MaxLength
    BY <2>1, <2>2
  <2>4. rCurrent' \in BOOLEAN
    BY <2>1
  <2>5. QED  BY <2>3, <2>4
<1>2. File!TypeOK'
  BY <1>1 DEF File!IInv, File!TypeOK, File!ReadFails, File!NoHandle
<1>3. QED
  BY <1>2
     DEF File!IInv, File!ReadFails, File!InTheBuffer, File!UsedUp, File!HandleAtItsEnd,
         File!BufferIsOfTheFile, File!Start, File!Bytes

(* A seek stays in the buffer or drops it; then the server's handle goes along. *)
LEMMA SeekInv ==
  ASSUME File!IInv, File!smbSeek
  PROVE  File!IInv'
<1>1. /\ rLeft = 0 /\ rLeft' = 0 /\ UNCHANGED <<rContent, rCurrent>>
      /\ rOvertaken' = (rOvertaken /\ rFile'.readAhead # <<>>)
      /\ rHandle # File!NoHandle /\ rCurrent
  BY DEF File!smbSeek, File!MayCall
<1>2. File!TypeOK /\ rFile \in File!OpenFile /\ File!Start \in Nat /\ rHandle <= MaxSize
  BY <1>1, NowIs
<1>3. CASE \E target \in 0 .. MaxSize : File!SeekTo(target)
  <2>1. PICK target \in 0 .. MaxSize : File!SeekTo(target)
    BY <1>3
  <2>2. target \in Nat /\ target <= MaxSize
    BY ReadsAssumption
  <2>3. CASE File!InBuffer(target)
    <3>1. PICK l \in Nat : l = Len(rFile.readAhead)
      BY <1>2, FieldsAre
    <3>2. PICK o \in Nat : o = target - File!Start /\ o <= l
      BY <1>2, <2>2, <2>3, <3>1 DEF File!InBuffer
    <3>3. rHandle' = rHandle /\ rFile' = [rFile EXCEPT !.position = target, !.offset = o]
      BY <2>1, <2>3, <3>2 DEF File!SeekTo
    <3>4. rFile' \in File!OpenFile
      <4>1. 0 \in 0 .. 3 /\ <<>> \in Seq(Nat)
        BY Nothing
      <4>2. QED  BY <1>2, <3>2, <3>3, <4>1, Put
    <3>5. /\ rFile'.position = target /\ rFile'.readAhead = rFile.readAhead
          /\ rFile'.offset = o
      BY <1>2, <3>3 DEF File!OpenFile
    <3>6. File!Start' = File!Start
      BY <1>2, <2>2, <3>2, <3>5 DEF File!Start
    <3>7. File!TypeOK'
      BY <1>1, <1>2, <3>3, <3>4, ReadsAssumption DEF File!TypeOK, File!NoHandle
    <3>8. File!InTheBuffer' /\ File!UsedUp'
      BY <1>1, <1>2, <2>2, <3>1, <3>2, <3>5 DEF File!InTheBuffer, File!UsedUp
    <3>9. File!HandleAtItsEnd' /\ File!BufferIsOfTheFile'
      BY <1>1, <2>3, <3>3, <3>5, <3>6
         DEF File!IInv, File!HandleAtItsEnd, File!BufferIsOfTheFile, File!Bytes,
             File!NoHandle, File!InBuffer, File!TypeOK
    <3>10. QED  BY <3>7, <3>8, <3>9 DEF File!IInv
  <2>4. CASE ~File!InBuffer(target)
    <3>1. /\ rHandle' = target
          /\ rFile' = [File!NoBuffer EXCEPT !.position = target, !.sequential = 0]
      BY <2>1, <2>4 DEF File!SeekTo
    <3>2. /\ rFile' \in File!OpenFile /\ rFile'.position = target
          /\ rFile'.readAhead = <<>> /\ rFile'.offset = 0
      BY <1>2, <2>2, <3>1, NoBufferIs
    <3>3. File!TypeOK'
      BY <1>1, <1>2, <3>1, <3>2, ReadsAssumption DEF File!TypeOK, File!NoHandle
    <3>4. QED  BY <1>1, <3>1, <3>2, <3>3, NoBufferLeft
  <2>5. QED  BY <2>3, <2>4
<1>4. CASE \E back \in 0 .. Len(rContent) :
              /\ rFile' = [File!NoBuffer EXCEPT !.position = Len(rContent) - back, !.sequential = 0]
              /\ rHandle' = Len(rContent) - back
  <2>1. PICK p \in Nat :
           /\ p <= MaxSize /\ rHandle' = p
           /\ rFile' = [File!NoBuffer EXCEPT !.position = p, !.sequential = 0]
    <3>1. PICK e \in Nat : e = Len(rContent) /\ e <= MaxSize
      BY <1>2, ReadsAssumption DEF File!TypeOK
    <3>2. PICK back \in 0 .. e :
              /\ rFile' = [File!NoBuffer EXCEPT !.position = e - back, !.sequential = 0]
              /\ rHandle' = e - back
      BY <1>4, <3>1
    <3>3. PICK p \in Nat : p = e - back /\ p <= MaxSize
      <4>1. e - back \in Nat /\ e - back <= e
        OBVIOUS
      <4>2. e - back <= MaxSize
        BY <3>1, <4>1, ReadsAssumption
      <4>3. QED  BY <4>1, <4>2
    <3>4. QED  BY <3>2, <3>3
  <2>2. /\ rFile' \in File!OpenFile /\ rFile'.position = p
        /\ rFile'.readAhead = <<>> /\ rFile'.offset = 0
    BY <1>2, <2>1, NoBufferIs
  <2>3. File!TypeOK'
    BY <1>1, <1>2, <2>1, <2>2, ReadsAssumption DEF File!TypeOK, File!NoHandle
  <2>4. QED  BY <1>1, <2>1, <2>2, <2>3, NoBufferLeft
<1>5. QED  BY <1>3, <1>4 DEF File!smbSeek

(* Before a write or a truncation the server's handle is put where the file is. *)
LEMMA SynchronizedIs ==
  ASSUME File!IInv, rHandle # File!NoHandle, rCurrent
  PROVE  File!Synchronized = rFile.position
<1>1. rFile.readAhead = <<>> => rHandle = rFile.position
  <2> SUFFICES ASSUME rFile.readAhead = <<>> PROVE rHandle = rFile.position
    OBVIOUS
  <2>1. Len(rFile.readAhead) = 0 /\ rFile.offset = 0
    BY FieldsAre, Nothing DEF File!IInv, File!InTheBuffer
  <2>2. rHandle = rFile.position - 0 + 0 /\ rFile.position \in Nat
    BY <2>1, FieldsAre DEF File!IInv, File!HandleAtItsEnd, File!Start
  <2>3. QED  BY <2>2
<1>2. QED  BY <1>1 DEF File!Synchronized

LEMMA WrittenIs ==
  ASSUME File!TypeOK, NEW at \in Nat, NEW n \in Nat, at + n <= MaxSize
  PROVE  File!Overwritten(at, n) \in Seq(Nat) /\ Len(File!Overwritten(at, n)) \in 0 .. MaxSize
<1>1. PICK e \in Nat : e = Len(rContent) /\ e <= MaxSize
  BY ReadsAssumption DEF File!TypeOK
<1>2. PICK g \in Nat : g = File!Greatest(e, at + n) /\ g <= MaxSize
  BY <1>1 DEF File!Greatest
<1>3. \A i \in 1 .. g :
         (CASE i > at /\ i <= at + n -> File!Mark + i
            [] i <= e /\ ~(i > at /\ i <= at + n) -> rContent[i]
            [] OTHER -> 0) \in Nat
  <2> TAKE i \in 1 .. g
  <2>1. CASE i > at /\ i <= at + n
    BY <2>1, ReadsAssumption DEF File!Mark
  <2>2. CASE i <= e /\ ~(i > at /\ i <= at + n)
    <3>1. rContent[i] \in Nat
      BY <1>1, <2>2 DEF File!TypeOK
    <3>2. QED  BY <2>2, <3>1
  <2>3. CASE ~(i <= e) /\ ~(i > at /\ i <= at + n)
    BY <2>3
  <2>4. QED  BY <2>1, <2>2, <2>3
<1>4. File!Overwritten(at, n) \in [1 .. g -> Nat]
  BY <1>1, <1>2, <1>3 DEF File!Overwritten
<1>5. File!Overwritten(at, n) \in Seq(Nat) /\ Len(File!Overwritten(at, n)) = g
  BY <1>4
<1>6. QED  BY <1>2, <1>5

LEMMA WriteInv ==
  ASSUME File!IInv, File!smbWrite
  PROVE  File!IInv'
<1>1. /\ rHandle # File!NoHandle /\ rCurrent /\ rLeft = 0 /\ rLeft' = 0
      /\ rOvertaken' = FALSE /\ File!TypeOK
  BY DEF File!smbWrite, File!MayCall, File!IInv
<1>2. PICK append \in BOOLEAN, n \in 0 .. MaxLength, whole \in BOOLEAN :
         LET at == IF append THEN Len(rContent) ELSE File!Synchronized
             position == IF append THEN Len(rContent) ELSE rFile.position
         IN /\ at + n <= MaxSize
            /\ rContent' = IF n = 0 THEN rContent ELSE File!Overwritten(at, n)
            /\ rHandle' = at + n /\ rCurrent' = whole
            /\ rFile' = [File!NoBuffer EXCEPT !.position = position + n]
  BY DEF File!smbWrite
<1>3. PICK at \in Nat : at = IF append THEN Len(rContent) ELSE rFile.position
  BY <1>1, FieldsAre DEF File!TypeOK
<1>4. File!Synchronized = rFile.position
  BY <1>1, SynchronizedIs
<1>5. n \in Nat
  BY ReadsAssumption
<1>6. PICK p \in Nat : p = at + n
  BY <1>5
<1>7. /\ p <= MaxSize /\ rContent' = (IF n = 0 THEN rContent ELSE File!Overwritten(at, n))
      /\ rHandle' = p /\ rCurrent' = whole /\ rFile' = [File!NoBuffer EXCEPT !.position = p]
  BY <1>2, <1>3, <1>4, <1>6
<1>8. rContent' \in Seq(Nat) /\ Len(rContent') \in 0 .. MaxSize
  <2>1. CASE n = 0
    BY <1>1, <1>7, <2>1 DEF File!TypeOK
  <2>2. CASE n # 0
    BY <1>1, <1>5, <1>6, <1>7, <2>2, WrittenIs
  <2>3. QED  BY <2>1, <2>2
<1>9. /\ rFile' \in File!OpenFile /\ rFile'.position = p
      /\ rFile'.readAhead = <<>> /\ rFile'.offset = 0
  BY <1>1, <1>7, NoBufferIs
<1>10. rHandle' \in 0 .. File!NoHandle /\ rLeft' \in 0 .. MaxLength
  BY <1>1, <1>7, ReadsAssumption DEF File!NoHandle
<1>11. File!TypeOK'
  <2>1. File!NoHandle' = File!NoHandle /\ rCurrent' \in BOOLEAN /\ rOvertaken' \in BOOLEAN
    BY <1>1, <1>7 DEF File!NoHandle
  <2>2. QED  BY <1>8, <1>9, <1>10, <2>1 DEF File!TypeOK
<1>12. QED  BY <1>1, <1>7, <1>9, <1>11, NoBufferLeft

LEMMA TruncateInv ==
  ASSUME File!IInv, File!smbTruncate
  PROVE  File!IInv'
<1>1. /\ rHandle # File!NoHandle /\ rCurrent /\ rLeft = 0 /\ File!TypeOK
      /\ UNCHANGED <<rCurrent, rLeft>> /\ rOvertaken' = FALSE
      /\ rHandle' = File!Synchronized /\ rFile' = File!NoBuffer
  BY DEF File!smbTruncate, File!MayCall, File!IInv
<1>2. PICK length \in 0 .. MaxSize :
        rContent' = [i \in 1 .. length |-> IF i <= Len(rContent) THEN rContent[i] ELSE 0]
  BY DEF File!smbTruncate
<1>3. rContent' \in Seq(Nat) /\ Len(rContent') \in 0 .. MaxSize
  <2>1. length \in Nat
    BY <1>2, ReadsAssumption
  <2>2. \A i \in 1 .. length :
          (IF i <= Len(rContent) THEN rContent[i] ELSE 0) \in Nat
    BY <1>1, <2>1 DEF File!TypeOK
  <2>3. rContent' \in [1 .. length -> Nat]
    BY <1>2, <2>2
  <2>4. rContent' \in Seq(Nat) /\ Len(rContent') = length
    BY <2>1, <2>3
  <2>5. QED  BY <1>2, <2>4
<1>4. /\ rFile.position \in Nat /\ rFile.position <= MaxSize /\ rHandle' = rFile.position
  BY <1>1, FieldsAre, SynchronizedIs
<1>5. /\ rFile' \in File!OpenFile /\ rFile'.position = rFile.position
      /\ rFile'.readAhead = <<>> /\ rFile'.offset = 0
  BY <1>1, <1>4, NoBufferIs
<1>6. rHandle' \in 0 .. File!NoHandle
  BY <1>4, ReadsAssumption DEF File!NoHandle
<1>7. File!TypeOK'
  BY <1>1, <1>3, <1>5, <1>6 DEF File!TypeOK, File!NoHandle
<1>8. QED  BY <1>1, <1>4, <1>5, <1>7, NoBufferLeft

(* The file is opened again where it was.                                   *)
LEMMA ReopenInv ==
  ASSUME File!IInv, File!Reopen
  PROVE  File!IInv'
<1>1. rLeft = 0 /\ UNCHANGED <<rContent, rLeft>> /\ File!TypeOK /\ rLeft' = 0
  BY DEF File!Reopen, File!IInv
<1>2. CASE /\ rHandle' = rFile.position /\ rCurrent' = TRUE
           /\ rFile' = File!NoBuffer /\ rOvertaken' = FALSE
  <2>1. rFile.position \in Nat /\ rFile.position <= MaxSize
    BY <1>1, FieldsAre
  <2>2. /\ rFile' \in File!OpenFile /\ rFile'.position = rFile.position
        /\ rFile'.readAhead = <<>> /\ rFile'.offset = 0
    BY <1>1, <1>2, <2>1, NoBufferIs
  <2>3. rHandle' \in 0 .. File!NoHandle
    BY <1>2, <2>1, ReadsAssumption DEF File!NoHandle
  <2>4. File!TypeOK'
    BY <1>1, <1>2, <2>2, <2>3 DEF File!TypeOK, File!NoHandle
  <2>5. QED  BY <1>1, <1>2, <2>2, <2>4, NoBufferLeft
<1>3. CASE rHandle' = File!NoHandle /\ UNCHANGED <<rCurrent, rFile, rOvertaken>>
  <2>1. rHandle' \in 0 .. File!NoHandle
    BY <1>3, ReadsAssumption DEF File!NoHandle
  <2>2. File!TypeOK'
    BY <1>1, <1>3, <2>1 DEF File!TypeOK, File!NoHandle
  <2>3. File!NoHandle' = File!NoHandle /\ ~(rLeft' > 0)
    BY <1>1 DEF File!NoHandle
  <2>4. File!InTheBuffer' /\ File!UsedUp' /\ File!HandleAtItsEnd'
    BY <1>3, <2>3 DEF File!IInv, File!InTheBuffer, File!UsedUp, File!HandleAtItsEnd
  <2>5. File!BufferIsOfTheFile'
    BY <1>1, <1>3 DEF File!IInv, File!BufferIsOfTheFile, File!Start, File!Bytes
  <2>6. QED  BY <2>2, <2>4, <2>5 DEF File!IInv
<1>4. QED  BY <1>2, <1>3 DEF File!Reopen

LEMMA OpenFileInv ==
  ASSUME File!IInv, File!smbOpen
  PROVE  File!IInv'
<1>1. /\ rLeft = 0 /\ UNCHANGED rLeft /\ rCurrent' = TRUE /\ rOvertaken' = FALSE
      /\ File!TypeOK
      /\ rFile' = [position |-> rHandle', readAhead |-> <<>>, offset |-> 0, sequential |-> 0]
      /\ rContent' \in {<<>>, rContent} /\ rHandle' \in {Len(rContent'), 0}
  BY DEF File!smbOpen, File!IInv
<1>2. rContent' \in Seq(Nat) /\ Len(rContent') \in 0 .. MaxSize
  <2>1. CASE rContent' = <<>>
    BY <2>1, Nothing, ReadsAssumption
  <2>2. CASE rContent' = rContent
    BY <1>1, <2>2 DEF File!TypeOK
  <2>3. QED  BY <1>1, <2>1, <2>2
<1>3. PICK h \in Nat : h = rHandle' /\ h <= MaxSize
  BY <1>1, <1>2, ReadsAssumption
<1>4. /\ rFile' \in File!OpenFile /\ rFile'.position = h
      /\ rFile'.readAhead = <<>> /\ rFile'.offset = 0
  <2>1. PICK s \in Seq(Nat) : s = <<>>
    BY Nothing
  <2>2. h \in 0 .. MaxSize /\ 0 \in 0 .. 3
    BY <1>3, ReadsAssumption
  <2>3. [position |-> h, readAhead |-> s, offset |-> 0, sequential |-> 0] \in File!OpenFile
    BY <2>2 DEF File!OpenFile
  <2>4. QED  BY <1>1, <1>3, <2>1, <2>3
<1>5. rHandle' \in 0 .. File!NoHandle
  BY <1>3, ReadsAssumption DEF File!NoHandle
<1>6. File!TypeOK'
  BY <1>1, <1>2, <1>4, <1>5 DEF File!TypeOK, File!NoHandle
<1>7. QED  BY <1>1, <1>3, <1>4, <1>6, NoBufferLeft

LEMMA LostInv ==
  ASSUME File!IInv, File!ConnectionLost
  PROVE  File!IInv'
<1>1. /\ rLeft = 0 /\ rCurrent' = FALSE
      /\ UNCHANGED <<rContent, rHandle, rFile, rLeft, rOvertaken>>
  BY DEF File!ConnectionLost
<1>2. File!TypeOK'
  BY <1>1 DEF File!IInv, File!TypeOK, File!NoHandle
<1>3. ~(rLeft' > 0)
  BY <1>1
<1>4. QED
  BY <1>1, <1>2, <1>3
     DEF File!IInv, File!InTheBuffer, File!UsedUp, File!HandleAtItsEnd,
         File!BufferIsOfTheFile, File!Start, File!Bytes

LEMMA FileStep == File!IInv /\ File!Next => File!IInv'
  BY ReadInv, ReadAheadInv, ReadDirectInv, ReadFailsInv, SeekInv, WriteInv, TruncateInv,
     ReopenInv, OpenFileInv, LostInv
     DEF File!Next

LEMMA FileStutter == File!IInv /\ UNCHANGED File!vars => File!IInv'
<1> SUFFICES ASSUME File!IInv, UNCHANGED <<rContent, rHandle, rCurrent, rFile, rLeft, rOvertaken>>
             PROVE  File!IInv'
  BY DEF File!vars
<1>1. File!TypeOK'
  BY DEF File!IInv, File!TypeOK, File!NoHandle
<1>2. QED
  BY <1>1
     DEF File!IInv, File!InTheBuffer, File!UsedUp, File!HandleAtItsEnd,
         File!BufferIsOfTheFile, File!Start, File!Bytes, File!NoHandle

LEMMA FileSafe == File!IInv => File!FileReadsItsBytes
<1> SUFFICES ASSUME File!IInv, rHandle # File!NoHandle, rCurrent, ~rOvertaken
             PROVE  IF rFile.readAhead = <<>> THEN rHandle = rFile.position
                    ELSE /\ rHandle = File!Start + Len(rFile.readAhead)
                         /\ rFile.readAhead = File!Bytes(File!Start, Len(rFile.readAhead))
  BY DEF File!FileReadsItsBytes
<1>1. rFile.readAhead = <<>> => rHandle = rFile.position
  <2> SUFFICES ASSUME rFile.readAhead = <<>> PROVE rHandle = rFile.position
    OBVIOUS
  <2>1. Len(rFile.readAhead) = 0 /\ rFile.offset = 0
    BY FieldsAre, Nothing DEF File!IInv, File!InTheBuffer
  <2>2. rHandle = rFile.position - 0 + 0 /\ rFile.position \in Nat
    BY <2>1, FieldsAre DEF File!IInv, File!HandleAtItsEnd, File!Start
  <2>3. QED  BY <2>2
<1>2. rFile.readAhead # <<>> => /\ rHandle = File!Start + Len(rFile.readAhead)
                               /\ rFile.readAhead = File!Bytes(File!Start, Len(rFile.readAhead))
  BY DEF File!IInv, File!HandleAtItsEnd, File!BufferIsOfTheFile
<1>3. QED  BY <1>1, <1>2

HIDE DEF rContent, rHandle, rCurrent, rFile, rLeft, rOvertaken

--------------------------------------------------------------------------------
(* Transport: a command's answer is its own.                                     *)

pPc == v1
pCommand == v2
pHasData == v3
pTag == v4
pTaskTag == v5
pNextTag == v6
pOpen == v7
pStatus == v8
pData == v9
pAnswers == v10
pResult == v11
pClobbered == v12

USE DEF pPc, pCommand, pHasData, pTag, pTaskTag, pNextTag, pOpen, pStatus, pData, pAnswers,
        pResult, pClobbered

(* The device's units, and those to come after one was taken, or some more  *)
(* were sent, or some were dropped and the task was confirmed.              *)
LEMMA TransportUnits ==
  /\ \A t \in 1 .. TagLimit - 1, k \in Transport!Kinds, o \in 0 .. MaxCommands :
        /\ [tag |-> t, kind |-> k, of |-> o] \in Transport!Unit
        /\ [tag |-> t, kind |-> k, of |-> o].tag = t
        /\ [tag |-> t, kind |-> k, of |-> o].kind = k
        /\ [tag |-> t, kind |-> k, of |-> o].of = o
  /\ \A u \in Transport!Unit :
        u.tag \in 1 .. TagLimit - 1 /\ u.kind \in Transport!Kinds /\ u.of \in 0 .. MaxCommands
  BY DEF Transport!Unit

LEMMA TransportTaken ==
  ASSUME pAnswers \in Seq(Transport!Unit), pAnswers # <<>>, pAnswers' = Tail(pAnswers)
  PROVE  /\ pAnswers' \in Seq(Transport!Unit) /\ Transport!Coming' \subseteq Transport!Coming
         /\ Head(pAnswers) \in Transport!Coming
<1>1. Len(pAnswers) > 0 /\ Head(pAnswers) = pAnswers[1] /\ pAnswers' \in Seq(Transport!Unit)
  OBVIOUS
<1>2. Len(pAnswers') = Len(pAnswers) - 1
      /\ \A i \in 1 .. Len(pAnswers') : pAnswers'[i] = pAnswers[i + 1]
  OBVIOUS
<1>3. QED  BY <1>1, <1>2 DEF Transport!Coming

LEMMA TransportSent ==
  ASSUME pAnswers \in Seq(Transport!Unit), NEW r \in Seq(Transport!Unit),
         pAnswers' = pAnswers \o r
  PROVE  /\ pAnswers' \in Seq(Transport!Unit)
         /\ \A u \in Transport!Coming' :
               u \in Transport!Coming \/ \E i \in 1 .. Len(r) : u = r[i]
<1>1. pAnswers' \in Seq(Transport!Unit) /\ Len(pAnswers') = Len(pAnswers) + Len(r)
  OBVIOUS
<1>2. \A i \in 1 .. Len(pAnswers') :
         pAnswers'[i] = IF i <= Len(pAnswers) THEN pAnswers[i] ELSE r[i - Len(pAnswers)]
  OBVIOUS
<1>3. ASSUME NEW i \in 1 .. Len(pAnswers')
      PROVE  pAnswers'[i] \in Transport!Coming \/ \E j \in 1 .. Len(r) : pAnswers'[i] = r[j]
  <2>1. CASE i <= Len(pAnswers)
    BY <1>2, <2>1 DEF Transport!Coming
  <2>2. CASE ~(i <= Len(pAnswers))
    <3>1. i - Len(pAnswers) \in 1 .. Len(r)
      BY <1>1, <2>2
    <3>2. pAnswers'[i] = r[i - Len(pAnswers)]
      BY <1>2, <2>2
    <3>3. QED  BY <3>1, <3>2
  <2>3. QED  BY <2>1, <2>2
<1>4. QED  BY <1>1, <1>3 DEF Transport!Coming

LEMMA TransportDropped ==
  ASSUME pAnswers \in Seq(Transport!Unit), NEW n \in 0 .. Len(pAnswers),
         NEW c \in Transport!Unit,
         pAnswers' = Append(SubSeq(pAnswers, 1, n), c)
  PROVE  pAnswers' \in Seq(Transport!Unit) /\ Transport!Coming' \subseteq Transport!Coming \cup {c}
<1>1. /\ SubSeq(pAnswers, 1, n) \in Seq(Transport!Unit) /\ Len(SubSeq(pAnswers, 1, n)) = n
      /\ \A i \in 1 .. n : SubSeq(pAnswers, 1, n)[i] = pAnswers[i]
  BY SubSeqProperties
<1>2. /\ pAnswers' \in Seq(Transport!Unit) /\ Len(pAnswers') = n + 1 /\ pAnswers'[n + 1] = c
      /\ \A i \in 1 .. n : pAnswers'[i] = pAnswers[i]
  BY <1>1
<1>3. QED  BY <1>2 DEF Transport!Coming

(* A tag that is allocated is not that of a unit to come, as long as the    *)
(* tags have not come round.                                                *)
LEMMA TransportAllocate ==
  ASSUME Transport!TypeOK, Transport!TagsAreSpent, Transport!AllocateTag,
         (pPc = "idle" /\ pCommand < MaxCommands) \/ pPc = "taskAbort" \/ pPc = "taskUnit"
  PROVE  /\ Transport!Allocated \in 1 .. TagLimit - 1 /\ pNextTag' \in 1 .. TagLimit
         /\ \A u \in Transport!Coming : u.tag # Transport!Allocated
         /\ \A t \in 0 .. TagLimit - 1 :
               t = Transport!Allocated \/ Transport!IsSpent(t)
                 => t = TagLimit - 1 \/ (pNextTag' < TagLimit - 1 /\ t < pNextTag')
         /\ pPc = "idle" => pNextTag' <= 3 * pCommand + 2 \/ pNextTag' = TagLimit
         /\ pPc = "taskAbort" => pNextTag' <= 3 * pCommand
         /\ pPc = "taskUnit" => pNextTag' <= 3 * pCommand + 1
<1>1. /\ pNextTag \in 1 .. TagLimit /\ pCommand \in 0 .. MaxCommands
      /\ 3 * MaxCommands + 2 < TagLimit /\ TagLimit \in Nat /\ MaxCommands \in Nat
      /\ Transport!Coming \subseteq Transport!Unit
  BY TagsAssumption DEF Transport!TypeOK, Transport!Coming
<1>2. Transport!Spent = IF pPc = "idle" THEN 3 * pCommand
              ELSE IF pPc = "taskUnit" THEN 3 * pCommand - 1 ELSE 3 * pCommand - 2
  BY DEF Transport!Spent, Transport!Resetting, Transport!Aborting
<1>3. pCommand = 0 => Transport!Coming = {} /\ pPc = "idle"
  BY DEF Transport!TagsAreSpent, Transport!Coming
<1>4. /\ pNextTag' = Transport!Allocated + 1
      /\ Transport!Allocated = IF pNextTag = TagLimit THEN 1 ELSE pNextTag
  BY <1>1 DEF Transport!AllocateTag, Transport!Allocated
<1>5. CASE pNextTag = TagLimit - 1 /\ pCommand = 0
  BY <1>1, <1>2, <1>3, <1>4, <1>5 DEF Transport!IsSpent
<1>6. CASE pNextTag = TagLimit
  BY <1>1, <1>2, <1>3, <1>4, <1>6 DEF Transport!TagsAreSpent, Transport!IsSpent
<1>7. CASE pNextTag <= Transport!Spent + 1
  <2>1. /\ pNextTag < TagLimit - 2 /\ Transport!Allocated = pNextTag
        /\ pNextTag' = pNextTag + 1
    BY <1>1, <1>2, <1>3, <1>4, <1>7
  <2>2. QED  BY <1>1, <1>2, <1>7, <2>1 DEF Transport!TagsAreSpent, Transport!IsSpent
<1>8. QED  BY <1>5, <1>6, <1>7 DEF Transport!TagsAreSpent

(* Nothing is posted or to come.                                            *)
LEMMA TransportInit == Transport!Init => Transport!IInv
<1> SUFFICES ASSUME Transport!Init PROVE Transport!IInv
  OBVIOUS
<1>1. pAnswers \in Seq(Transport!Unit) /\ Transport!Coming = {}
  BY DEF Transport!Init, Transport!Coming
<1>2. TagLimit \in Nat /\ MaxCommands \in Nat /\ 2 < TagLimit
  BY TagsAssumption
<1>3. Transport!TypeOK
  <2>1. pNextTag \in 1 .. TagLimit
    BY <1>2 DEF Transport!Init
  <2>2. /\ pCommand \in 0 .. MaxCommands /\ pTag \in 0 .. TagLimit - 1
        /\ pTaskTag \in 0 .. TagLimit - 1
    BY <1>2 DEF Transport!Init
  <2>3. QED  BY <1>1, <2>1, <2>2 DEF Transport!Init, Transport!TypeOK
<1>4. Transport!Posted /\ Transport!OwnStatus /\ Transport!AnswerIsOwn
  BY <1>1 DEF Transport!Init, Transport!Posted, Transport!OwnStatus, Transport!AnswerIsOwn
<1>5. Transport!TagsAreSpent
  BY <1>1, <1>2
     DEF Transport!Init, Transport!TagsAreSpent, Transport!Spent, Transport!Resetting
<1>6. QED  BY <1>3, <1>4, <1>5 DEF Transport!IInv

(* A command's tag is no unit's to come, so that a status with it is the    *)
(* command's; what is posted is taken back before it is posted again.       *)
LEMMA TransportStep == Transport!IInv /\ Transport!Next => Transport!IInv'
<1> SUFFICES ASSUME Transport!IInv, Transport!Next PROVE Transport!IInv'
  OBVIOUS
<1> USE DEF Transport!IInv, Transport!tags
<1>1. TagLimit \in Nat /\ MaxCommands \in Nat /\ 3 * MaxCommands + 2 < TagLimit
  BY TagsAssumption
<1>2. Transport!Coming \subseteq Transport!Unit
  BY DEF Transport!TypeOK, Transport!Coming
<1>3. UNCHANGED pAnswers => UNCHANGED Transport!Coming
  BY DEF Transport!Coming
<1>4. CASE Transport!Begin
  <2>1. /\ pPc = "idle" /\ pCommand < MaxCommands /\ pCommand' = pCommand + 1
        /\ pHasData' \in BOOLEAN /\ pTag' = Transport!Allocated /\ Transport!AllocateTag
        /\ pResult' = Transport!None
        /\ UNCHANGED <<pTaskTag, pOpen, pData, pAnswers>>
        /\ pPc' = "send" \/ (pPc' = "abort" /\ UNCHANGED pStatus)
        /\ pStatus' \in BOOLEAN /\ pClobbered' = (pClobbered \/ pStatus)
    BY <1>4 DEF Transport!Begin, Transport!PostStatus, Transport!TypeOK
  <2>2. /\ pTag' \in 1 .. TagLimit - 1 /\ pNextTag' \in 1 .. TagLimit
        /\ \A u \in Transport!Coming : u.tag # pTag'
        /\ \A t \in 0 .. TagLimit - 1 :
              t = pTag' \/ Transport!IsSpent(t)
                => t = TagLimit - 1 \/ (pNextTag' < TagLimit - 1 /\ t < pNextTag')
        /\ pNextTag' <= 3 * pCommand + 2 \/ pNextTag' = TagLimit
    BY <2>1, TransportAllocate
  <2>3. Transport!TypeOK'
    BY <1>1, <2>1, <2>2 DEF Transport!TypeOK
  <2>4. Transport!Posted' /\ Transport!OwnStatus' /\ Transport!AnswerIsOwn'
    BY <1>3, <2>1, <2>2 DEF Transport!Posted, Transport!OwnStatus, Transport!AnswerIsOwn
  <2>5. Transport!TagsAreSpent'
    <3>1. Transport!Spent' = 3 * pCommand + 1 /\ pCommand' > 0
      BY <2>1 DEF Transport!Spent, Transport!Resetting, Transport!Aborting, Transport!TypeOK
    <3>2. \A u \in Transport!Coming' :
                u.tag \in 1 .. TagLimit - 1 /\ Transport!IsSpent(u.tag)
      BY <1>2, <1>3, <2>1, TransportUnits DEF Transport!TagsAreSpent
    <3>3. \A u \in Transport!Coming' : Transport!IsSpent(u.tag)'
      BY <1>1, <2>2, <3>2 DEF Transport!IsSpent
    <3>4. Transport!IsSpent(pTag)' /\ pTag' > 0
      BY <1>1, <2>2 DEF Transport!IsSpent
    <3>5. pNextTag' <= Transport!Spent' + 1 \/ pNextTag' = TagLimit
      BY <1>1, <2>1, <2>2, <3>1 DEF Transport!TypeOK
    <3>6. QED  BY <2>1, <3>1, <3>3, <3>4, <3>5 DEF Transport!TagsAreSpent
  <2>6. QED  BY <2>3, <2>4, <2>5
<1>5. CASE Transport!Send
  <2>1. /\ pPc = "send" /\ (pPc' = "first" \/ pPc' = "abort")
        /\ UNCHANGED <<pCommand, pHasData, pTag, pTaskTag, pNextTag>>
        /\ UNCHANGED <<pOpen, pStatus, pData, pResult, pClobbered>>
    BY <1>5 DEF Transport!Send
  <2>2. pTag \in 1 .. TagLimit - 1
    BY <1>1, <2>1 DEF Transport!TypeOK, Transport!TagsAreSpent, Transport!IsSpent
  <2>3. PICK r \in Transport!Replies : pAnswers' = pAnswers \o r
    BY <1>5 DEF Transport!Send
  <2>4. /\ r \in Seq(Transport!Unit)
        /\ \A i \in 1 .. Len(r) : r[i].tag = pTag /\ r[i].of = pCommand
    <3> DEFINE u(k) == [tag |-> pTag, kind |-> k, of |-> pCommand]
    <3>1. r \in {<<>>, <<u("sense")>>, <<u("response")>>, <<u("ready")>>,
                   <<u("ready"), u("sense")>>}
      BY DEF Transport!Replies
    <3>2. \A k \in Transport!Kinds :
                u(k) \in Transport!Unit /\ u(k).tag = pTag /\ u(k).of = pCommand
      BY <2>2, TransportUnits DEF Transport!TypeOK
    <3> HIDE DEF u
    <3>3. /\ u("sense") \in Transport!Unit /\ u("response") \in Transport!Unit
          /\ u("ready") \in Transport!Unit
      BY <3>2 DEF Transport!Kinds
    <3>4. r \in Seq(Transport!Unit)
      <4>1. <<>> \in Seq(Transport!Unit)
        OBVIOUS
      <4>2. \A a \in Transport!Unit : <<a>> \in Seq(Transport!Unit)
        OBVIOUS
      <4>3. \A a, b \in Transport!Unit : <<a, b>> \in Seq(Transport!Unit)
        OBVIOUS
      <4>4. QED  BY <3>1, <3>3, <4>1, <4>2, <4>3
    <3>5. \A i \in 1 .. Len(r) :
                r[i] = u("sense") \/ r[i] = u("response") \/ r[i] = u("ready")
      BY <3>1
    <3>6. QED  BY <3>2, <3>4, <3>5 DEF Transport!Kinds
  <2>5. pAnswers' \in Seq(Transport!Unit)
        /\ \A u \in Transport!Coming' :
              u \in Transport!Coming \/ (u.tag = pTag /\ u.of = pCommand)
    <3>1. pAnswers' \in Seq(Transport!Unit)
          /\ \A u \in Transport!Coming' :
                u \in Transport!Coming \/ \E i \in 1 .. Len(r) : u = r[i]
      BY <2>3, <2>4, TransportSent DEF Transport!TypeOK
    <3>2. QED  BY <2>4, <3>1
  <2>6. /\ Transport!TypeOK' /\ Transport!Posted' /\ Transport!OwnStatus'
        /\ Transport!AnswerIsOwn'
    BY <2>1, <2>5
       DEF Transport!TypeOK, Transport!Posted, Transport!OwnStatus, Transport!AnswerIsOwn
  <2>7. Transport!TagsAreSpent'
    BY <2>1, <2>5
       DEF Transport!TypeOK, Transport!TagsAreSpent, Transport!IsSpent, Transport!Spent,
           Transport!Resetting, Transport!Aborting
  <2>8. QED  BY <2>6, <2>7
<1>6. CASE Transport!First
  <2>1. /\ pPc = "first" /\ pStatus' = FALSE
        /\ pAnswers \in Seq(Transport!Unit) /\ pAnswers # <<>> /\ pAnswers' = Tail(pAnswers)
        /\ UNCHANGED <<pCommand, pHasData, pTag, pTaskTag, pNextTag>>
        /\ UNCHANGED <<pOpen, pData, pClobbered>>
        /\ \/ pPc' \in {"second", "abort"} /\ UNCHANGED pResult
           \/ /\ pPc' = "idle" /\ pResult' = Head(pAnswers).of
              /\ Head(pAnswers).kind = "sense" /\ Head(pAnswers).tag = pTag
    BY <1>6
       DEF Transport!First, Transport!Delivered, Transport!Parse, Transport!IsOf,
           Transport!TypeOK
  <2>2. /\ pAnswers' \in Seq(Transport!Unit) /\ Transport!Coming' \subseteq Transport!Coming
        /\ Head(pAnswers) \in Transport!Coming
    BY <2>1, TransportTaken
  <2>3. pResult' = pResult \/ pResult' = pCommand
    BY <2>1, <2>2 DEF Transport!OwnStatus
  <2>4. /\ Transport!TypeOK' /\ Transport!Posted' /\ Transport!OwnStatus'
        /\ Transport!AnswerIsOwn'
    BY <2>1, <2>2, <2>3
       DEF Transport!TypeOK, Transport!Posted, Transport!OwnStatus, Transport!AnswerIsOwn,
           Transport!Failed
  <2>5. Transport!TagsAreSpent'
    BY <2>1, <2>2
       DEF Transport!TypeOK, Transport!TagsAreSpent, Transport!IsSpent, Transport!Spent,
           Transport!Resetting, Transport!Aborting
  <2>6. QED  BY <2>4, <2>5
<1>7. CASE Transport!Second
  <2>1. /\ pPc = "second" /\ ~pStatus /\ pStatus' \in BOOLEAN
        /\ pPc' = "data" \/ (pPc' = "abort" /\ UNCHANGED pStatus)
        /\ UNCHANGED <<pCommand, pHasData, pTag, pTaskTag, pNextTag>>
        /\ UNCHANGED <<pOpen, pData, pAnswers, pResult, pClobbered>>
    BY <1>7
       DEF Transport!Second, Transport!PostStatus, Transport!AnswerIsOwn, Transport!Posted,
           Transport!TypeOK
  <2>2. QED
    BY <1>3, <2>1
       DEF Transport!TypeOK, Transport!Posted, Transport!OwnStatus, Transport!AnswerIsOwn,
           Transport!TagsAreSpent, Transport!IsSpent, Transport!Spent, Transport!Resetting,
           Transport!Aborting
<1>8. CASE Transport!Data
  <2>1. /\ pPc = "data" /\ ~pData /\ pData' \in BOOLEAN
        /\ (pPc' = "last" /\ ~pData') \/ pPc' = "abort"
        /\ UNCHANGED <<pCommand, pHasData, pTag, pTaskTag, pNextTag>>
        /\ UNCHANGED <<pOpen, pStatus, pAnswers, pResult, pClobbered>>
    BY <1>8 DEF Transport!Data, Transport!AnswerIsOwn, Transport!Posted, Transport!TypeOK
  <2>2. QED
    BY <1>3, <2>1
       DEF Transport!TypeOK, Transport!Posted, Transport!OwnStatus, Transport!AnswerIsOwn,
           Transport!TagsAreSpent, Transport!IsSpent, Transport!Spent, Transport!Resetting,
           Transport!Aborting
<1>9. CASE Transport!Last
  <2>1. /\ pPc = "last" /\ pStatus' = FALSE
        /\ pAnswers \in Seq(Transport!Unit) /\ pAnswers # <<>> /\ pAnswers' = Tail(pAnswers)
        /\ UNCHANGED <<pCommand, pHasData, pTag, pTaskTag, pNextTag>>
        /\ UNCHANGED <<pOpen, pData, pClobbered>>
        /\ \/ pPc' = "abort" /\ UNCHANGED pResult
           \/ /\ pPc' = "idle" /\ pResult' = Head(pAnswers).of
              /\ Head(pAnswers).kind = "sense" /\ Head(pAnswers).tag = pTag
    BY <1>9
       DEF Transport!Last, Transport!Delivered, Transport!Parse, Transport!IsOf,
           Transport!TypeOK
  <2>2. /\ pAnswers' \in Seq(Transport!Unit) /\ Transport!Coming' \subseteq Transport!Coming
        /\ Head(pAnswers) \in Transport!Coming
    BY <2>1, TransportTaken
  <2>3. pResult' = pResult \/ pResult' = pCommand
    BY <2>1, <2>2 DEF Transport!OwnStatus
  <2>4. /\ Transport!TypeOK' /\ Transport!Posted' /\ Transport!OwnStatus'
        /\ Transport!AnswerIsOwn'
    BY <2>1, <2>2, <2>3
       DEF Transport!TypeOK, Transport!Posted, Transport!OwnStatus, Transport!AnswerIsOwn,
           Transport!Failed
  <2>5. Transport!TagsAreSpent'
    BY <2>1, <2>2
       DEF Transport!TypeOK, Transport!TagsAreSpent, Transport!IsSpent, Transport!Spent,
           Transport!Resetting, Transport!Aborting
  <2>6. QED  BY <2>4, <2>5
<1>10. CASE Transport!TimeOut
  <2>1. /\ (pPc = "first" \/ pPc = "last") /\ pPc' = "abort"
        /\ UNCHANGED <<pCommand, pHasData, pTag, pTaskTag, pNextTag>>
        /\ UNCHANGED <<pOpen, pStatus, pData, pAnswers, pResult, pClobbered>>
    BY <1>10 DEF Transport!TimeOut
  <2>2. QED
    BY <1>3, <2>1
       DEF Transport!TypeOK, Transport!Posted, Transport!OwnStatus, Transport!AnswerIsOwn,
           Transport!TagsAreSpent, Transport!IsSpent, Transport!Spent, Transport!Resetting,
           Transport!Aborting
<1>11. CASE Transport!Reopen
  <2>1. /\ pStatus' = FALSE /\ pData' = FALSE /\ pOpen' \in BOOLEAN
        /\ \/ pPc = "abort" /\ (pPc' = "taskAbort" \/ pPc' = "resetUnit")
           \/ pPc = "resetUnit" /\ (pPc' = "taskUnit" \/ pPc' = "resetDevice")
        /\ UNCHANGED <<pCommand, pHasData, pTag, pTaskTag, pNextTag>>
        /\ UNCHANGED <<pAnswers, pResult, pClobbered>>
    BY <1>11 DEF Transport!Reopen, Transport!AllReopened, Transport!AfterTask
  <2>2. /\ Transport!TypeOK' /\ Transport!Posted' /\ Transport!OwnStatus'
        /\ Transport!AnswerIsOwn'
    BY <1>3, <2>1
       DEF Transport!TypeOK, Transport!Posted, Transport!OwnStatus, Transport!AnswerIsOwn
  <2>3. /\ Transport!Spent' >= Transport!Spent
        /\ UNCHANGED <<pNextTag, pCommand, pTag, pAnswers>> /\ pPc' # "sendAbort"
        /\ pPc' # "sendUnit" /\ pPc # "idle"
    BY <2>1 DEF Transport!Spent, Transport!Resetting, Transport!Aborting, Transport!TypeOK
  <2>4. QED
    BY <1>3, <2>1, <2>2, <2>3
       DEF Transport!TypeOK, Transport!TagsAreSpent, Transport!IsSpent, Transport!Spent,
           Transport!Resetting, Transport!Aborting
<1>12. CASE Transport!PostTask
  <2>1. /\ pTaskTag' = Transport!Allocated /\ Transport!AllocateTag /\ ~pStatus
        /\ pStatus' \in BOOLEAN
        /\ \/ pPc = "taskAbort" /\ (pPc' = "sendAbort" \/ (pPc' = "resetUnit" /\ UNCHANGED pStatus))
           \/ pPc = "taskUnit" /\ (pPc' = "sendUnit" \/ (pPc' = "resetDevice" /\ UNCHANGED pStatus))
        /\ UNCHANGED <<pCommand, pHasData, pTag, pOpen, pData, pAnswers, pResult, pClobbered>>
    BY <1>12
       DEF Transport!PostTask, Transport!PostStatus, Transport!AnswerIsOwn,
           Transport!Posted, Transport!TypeOK
  <2>2. /\ pTaskTag' \in 1 .. TagLimit - 1 /\ pNextTag' \in 1 .. TagLimit
        /\ \A t \in 0 .. TagLimit - 1 :
              t = pTaskTag' \/ Transport!IsSpent(t)
                => t = TagLimit - 1 \/ (pNextTag' < TagLimit - 1 /\ t < pNextTag')
        /\ pPc = "taskAbort" => pNextTag' <= 3 * pCommand
        /\ pPc = "taskUnit" => pNextTag' <= 3 * pCommand + 1
    BY <2>1, TransportAllocate
  <2>3. /\ Transport!TypeOK' /\ Transport!Posted' /\ Transport!OwnStatus'
        /\ Transport!AnswerIsOwn'
    BY <1>1, <1>3, <2>1, <2>2
       DEF Transport!TypeOK, Transport!Posted, Transport!OwnStatus, Transport!AnswerIsOwn
  <2>4. pNextTag' <= Transport!Spent' + 1
    BY <2>1, <2>2
       DEF Transport!Spent, Transport!Resetting, Transport!Aborting, Transport!TypeOK
  <2>5. \A u \in Transport!Coming' : u.tag \in 0 .. TagLimit - 1 /\ Transport!IsSpent(u.tag)
    BY <1>1, <1>2, <1>3, <2>1, TransportUnits DEF Transport!TagsAreSpent
  <2>6. Transport!TagsAreSpent'
    BY <2>1, <2>2, <2>4, <2>5
       DEF Transport!TagsAreSpent, Transport!IsSpent, Transport!TypeOK
  <2>7. QED  BY <2>3, <2>6
<1>13. CASE Transport!SendTask
  <2> DEFINE confirmation == [tag |-> pTaskTag, kind |-> "response", of |-> 0]
  <2>1. /\ \/ pPc = "sendAbort" /\ (pPc' = "awaitAbort" \/ (pPc' = "resetUnit" /\ ~pStatus'))
           \/ pPc = "sendUnit" /\ (pPc' = "awaitUnit" \/ (pPc' = "resetDevice" /\ ~pStatus'))
        /\ pStatus' \in BOOLEAN /\ pOpen' \in BOOLEAN
        /\ UNCHANGED <<pCommand, pHasData, pTag, pTaskTag, pNextTag>>
        /\ UNCHANGED <<pData, pResult, pClobbered>>
    BY <1>13 DEF Transport!SendTask, Transport!Cancel, Transport!TypeOK
  <2>2. pTaskTag \in 1 .. TagLimit - 1 /\ Transport!IsSpent(pTaskTag) /\ pCommand > 0
    BY <1>1, <2>1 DEF Transport!TypeOK, Transport!TagsAreSpent, Transport!IsSpent
  <2>3. /\ confirmation \in Transport!Unit /\ confirmation.tag = pTaskTag
        /\ confirmation.kind = "response"
    BY <1>1, <2>2, TransportUnits DEF Transport!Kinds
  <2>4. /\ pAnswers' \in Seq(Transport!Unit)
        /\ Transport!Coming' \subseteq Transport!Coming \cup {confirmation}
    <3>1. CASE UNCHANGED pAnswers
      BY <1>3, <3>1 DEF Transport!TypeOK
    <3>2. CASE \E n \in 0 .. Len(pAnswers) :
                 pAnswers' = Append(SubSeq(pAnswers, 1, n), confirmation)
      BY <2>3, <3>2, TransportDropped DEF Transport!TypeOK
    <3>3. QED  BY <1>13, <3>1, <3>2 DEF Transport!SendTask
  <2> HIDE DEF confirmation
  <2>5. /\ Transport!TypeOK' /\ Transport!Posted' /\ Transport!OwnStatus'
        /\ Transport!AnswerIsOwn'
    BY <2>1, <2>3, <2>4
       DEF Transport!TypeOK, Transport!Posted, Transport!OwnStatus, Transport!AnswerIsOwn
  <2>6. Transport!TagsAreSpent'
    BY <2>1, <2>2, <2>3, <2>4
       DEF Transport!TypeOK, Transport!TagsAreSpent, Transport!IsSpent, Transport!Spent,
           Transport!Resetting, Transport!Aborting
  <2>7. QED  BY <2>5, <2>6
<1>14. CASE Transport!AwaitTask
  <2>1. /\ pStatus' = FALSE /\ pOpen' \in BOOLEAN
        /\ \/ pPc = "awaitAbort" /\ (pPc' = "idle" \/ (pPc' = "resetUnit" /\ UNCHANGED pResult))
           \/ pPc = "awaitUnit" /\ (pPc' = "idle" \/ (pPc' = "resetDevice" /\ UNCHANGED pResult))
        /\ pResult' = Transport!Failed \/ UNCHANGED pResult
        /\ UNCHANGED pAnswers \/ (pAnswers # <<>> /\ pAnswers' = Tail(pAnswers))
        /\ UNCHANGED <<pCommand, pHasData, pTag, pTaskTag, pNextTag, pData, pClobbered>>
    BY <1>14
       DEF Transport!AwaitTask, Transport!Delivered, Transport!Cancel, Transport!TypeOK
  <2>2. pAnswers' \in Seq(Transport!Unit) /\ Transport!Coming' \subseteq Transport!Coming
    BY <1>3, <2>1, TransportTaken DEF Transport!TypeOK
  <2>3. /\ Transport!TypeOK' /\ Transport!Posted' /\ Transport!OwnStatus'
        /\ Transport!AnswerIsOwn'
    BY <2>1, <2>2
       DEF Transport!TypeOK, Transport!Posted, Transport!OwnStatus, Transport!AnswerIsOwn,
           Transport!Failed
  <2>4. Transport!TagsAreSpent'
    BY <2>1, <2>2
       DEF Transport!TypeOK, Transport!TagsAreSpent, Transport!IsSpent, Transport!Spent,
           Transport!Resetting, Transport!Aborting
  <2>5. QED  BY <2>3, <2>4
<1>15. CASE Transport!ResetDevice
  <2>1. /\ pPc = "resetDevice" /\ pPc' = "idle" /\ pResult' = Transport!Failed
        /\ pStatus' = FALSE /\ pData' = FALSE /\ pOpen' \in BOOLEAN
        /\ UNCHANGED <<pCommand, pHasData, pTag, pTaskTag, pClobbered>>
        /\ \/ pAnswers' = <<>> /\ pNextTag' = 1
           \/ pAnswers' \in {pAnswers, <<>>} /\ UNCHANGED pNextTag
    BY <1>15 DEF Transport!ResetDevice, Transport!AllReopened
  <2>2. /\ pAnswers' \in Seq(Transport!Unit) /\ Transport!Coming' \subseteq Transport!Coming
        /\ (pAnswers' = <<>> => Transport!Coming' = {})
    <3>1. pAnswers' = <<>> => Transport!Coming' = {}
      BY DEF Transport!Coming
    <3>2. <<>> \in Seq(Transport!Unit)
      OBVIOUS
    <3>3. CASE pAnswers' = <<>>
      BY <3>1, <3>2, <3>3
    <3>4. CASE UNCHANGED pAnswers
      BY <1>3, <3>1, <3>4 DEF Transport!TypeOK
    <3>5. QED  BY <2>1, <3>3, <3>4
  <2>3. /\ Transport!TypeOK' /\ Transport!Posted' /\ Transport!OwnStatus'
        /\ Transport!AnswerIsOwn'
    <3>1. pNextTag' \in 1 .. TagLimit
      BY <1>1, <2>1 DEF Transport!TypeOK
    <3>2. Transport!TypeOK'
      BY <2>1, <2>2, <3>1 DEF Transport!TypeOK
    <3>3. QED
      BY <2>1, <2>2, <3>2
         DEF Transport!TypeOK, Transport!Posted, Transport!OwnStatus, Transport!AnswerIsOwn,
             Transport!Failed
  <2>4. Transport!TagsAreSpent'
    BY <2>1, <2>2
       DEF Transport!TypeOK, Transport!TagsAreSpent, Transport!IsSpent, Transport!Spent,
           Transport!Resetting, Transport!Aborting
  <2>5. QED  BY <2>3, <2>4
<1>16. QED
  BY <1>4, <1>5, <1>6, <1>7, <1>8, <1>9, <1>10, <1>11, <1>12, <1>13, <1>14, <1>15
     DEF Transport!Next

(* The invariant says more than AnswerIsOwn.                                *)
LEMMA TransportSafe == Transport!IInv => Transport!AnswerIsOwn
  BY DEF Transport!IInv

(* The invariant is about the variables alone.                              *)
LEMMA TransportStutter == Transport!IInv /\ UNCHANGED Transport!vars => Transport!IInv'
  BY DEF Transport!vars, Transport!tags, Transport!IInv, Transport!TypeOK, Transport!Posted,
         Transport!TagsAreSpent, Transport!Coming, Transport!IsSpent, Transport!Spent,
         Transport!OwnStatus, Transport!AnswerIsOwn

HIDE DEF pPc, pCommand, pHasData, pTag, pTaskTag, pNextTag, pOpen, pStatus, pData, pAnswers,
         pResult, pClobbered

--------------------------------------------------------------------------------
(* Disks: no transport is freed under a thread that uses it.                    *)

dMade == v1
dDriveOf == v2
dFreed == v3
dTable == v4
dMutex == v5
dIo == v6
dUasp == v7
dEndpoints == v8
dCall == v9

USE DEF dMade, dDriveOf, dFreed, dTable, dMutex, dIo, dUasp, dEndpoints, dCall

(* What a step makes of its thread's call.                                  *)
DiskCallBecomes(t, s, d, c) ==
  /\ dCall' \in [Disks!Thread -> Disks!Calls]
  /\ dCall'[t].step = s /\ dCall'[t].drive = d /\ dCall'[t].ctx = c
  /\ \A u \in Disks!Thread \ {t} : dCall'[u] = dCall[u]

(* The fields of a call, and how a step changes it.                         *)
LEMMA DiskCallFields ==
  \A c \in Disks!Calls :
    /\ c.step \in Disks!Steps /\ c.drive \in Drive \cup {Disks!None}
    /\ c.ctx \in Disks!Context \cup {Disks!None}
  BY DEF Disks!Calls

LEMMA DiskCallGoes ==
  ASSUME dCall \in [Disks!Thread -> Disks!Calls], NEW t \in Disks!Thread,
         NEW s \in Disks!Steps, NEW d \in Drive \cup {Disks!None},
         NEW c \in Disks!Context \cup {Disks!None},
         Disks!Goes(t, s, d, c)
  PROVE  DiskCallBecomes(t, s, d, c)
<1>1. [step |-> s, drive |-> d, ctx |-> c] \in Disks!Calls
  BY DEF Disks!Calls
<1>2. QED  BY <1>1 DEF Disks!Goes, DiskCallBecomes

(* No disk is plugged.                                                      *)
LEMMA DisksInit == Disks!Init => Disks!IInv
<1> SUFFICES ASSUME Disks!Init PROVE Disks!IInv
  OBVIOUS
<1>1. /\ dCall \in [Disks!Thread -> Disks!Calls]
      /\ \A t \in Disks!Thread : dCall[t].step = "idle" /\ dCall[t].ctx = Disks!None
  BY DEF Disks!Init, Disks!Idle, Disks!Calls, Disks!Steps, Disks!ReaderSteps
<1>2. Disks!TypeOK
  BY MaxContextsAssumption, <1>1 DEF Disks!Init, Disks!TypeOK
<1>3. Disks!MutexHeld /\ Disks!FoundInTable /\ Disks!TableSound /\ Disks!ManagerAt
  BY <1>1
     DEF Disks!Init, Disks!MutexHeld, Disks!FoundInTable, Disks!TableSound, Disks!ManagerAt,
         Disks!ReaderSteps, Disks!RemoveSteps, Disks!Thread
<1>4. QED  BY <1>2, <1>3 DEF Disks!IInv

(* A transport leaves the table only while the manager holds the table's    *)
(* mutex and nobody the transport's: then no thread is between finding it   *)
(* and the end of its use.                                                  *)
LEMMA DisksStep == Disks!IInv /\ Disks!Next => Disks!IInv'
<1> SUFFICES ASSUME Disks!IInv, Disks!Next PROVE Disks!IInv'
  OBVIOUS
<1> USE MaxContextsAssumption, ReaderAssumption, DiskCallFields DEF Disks!IInv, Disks!TypeOK
<1>1. /\ Disks!None \notin Disks!Context /\ Disks!Nobody \notin Disks!Thread
      /\ Disks!Manager \in Disks!Thread
      /\ Reader = Disks!Thread \ {Disks!Manager}
      /\ (dMade' = dMade => Disks!Allocated' = Disks!Allocated)
  <2>1. Disks!None \notin Disks!Context
    BY DEF Disks!None, Disks!Context
  <2>2. /\ Disks!Nobody \notin Disks!Thread /\ Disks!Manager \in Disks!Thread
        /\ Reader = Disks!Thread \ {Disks!Manager}
    BY DEF Disks!Nobody, Disks!Thread, Disks!Manager
  <2>3. QED  BY <2>1, <2>2 DEF Disks!Allocated
<1>2. ASSUME NEW t \in Reader, Disks!TransferCommand(t) PROVE Disks!IInv'
  <2>1. PICK d \in Drive :
          /\ UNCHANGED <<dMade, dDriveOf, dFreed, dTable, dMutex, dIo, dUasp, dEndpoints>>
          /\ t \in Disks!Thread /\ dCall[t].step = "idle"
          /\ DiskCallBecomes(t, "find", d, Disks!None)
    BY <1>2, DiskCallGoes
       DEF Disks!contexts, Disks!held, Disks!TransferCommand, Disks!At, Disks!Begins,
           Disks!Thread, Disks!Steps, Disks!ReaderSteps
  <2>2. QED
    BY <1>1, <2>1
       DEF DiskCallBecomes, Disks!MutexHeld, Disks!FoundInTable, Disks!TableSound,
           Disks!ManagerAt, Disks!NoneFor, Disks!Found, Disks!ReaderSteps, Disks!RemoveSteps
<1>3. ASSUME NEW t \in Disks!Thread, Disks!Find(t) PROVE Disks!IInv'
  <2>1. /\ UNCHANGED <<dMade, dDriveOf, dFreed, dTable, dIo, dUasp, dEndpoints>>
        /\ dMutex = Disks!Nobody /\ dMutex' = t /\ dCall[t].step = "find"
        /\ \/ DiskCallBecomes(t, "unlock", dCall[t].drive, dCall[t].ctx)
           \/ \E c \in dTable :
                dDriveOf[c] = dCall[t].drive /\ DiskCallBecomes(t, "lock", dCall[t].drive, c)
    <3>1. \A c \in Disks!Found(dCall[t].drive) :
            c \in Disks!Context /\ c \in dTable /\ dDriveOf[c] = dCall[t].drive
      BY DEF Disks!Found
    <3>2. QED
      BY <1>3, <3>1, DiskCallGoes
         DEF Disks!contexts, Disks!held, Disks!Find, Disks!At, Disks!Takes, Disks!Step,
             Disks!Steps, Disks!ReaderSteps
  <2>2. QED
    BY <1>1, <2>1
       DEF DiskCallBecomes, Disks!MutexHeld, Disks!FoundInTable, Disks!TableSound,
           Disks!ManagerAt, Disks!NoneFor, Disks!Found, Disks!ReaderSteps, Disks!RemoveSteps
<1>4. ASSUME NEW t \in Disks!Thread, Disks!LockContext(t) PROVE Disks!IInv'
  <2>1. /\ UNCHANGED <<dMade, dDriveOf, dFreed, dTable, dMutex, dUasp, dEndpoints>>
        /\ dCall[t].step = "lock" /\ dIo[dCall[t].ctx] = Disks!Nobody
        /\ dIo' = [dIo EXCEPT ![dCall[t].ctx] = t]
        /\ DiskCallBecomes(t, "unlock", dCall[t].drive, dCall[t].ctx)
    BY <1>4, DiskCallGoes
       DEF Disks!contexts, Disks!held, Disks!LockContext, Disks!At, Disks!Step, Disks!Steps,
           Disks!ReaderSteps
  <2>2. QED
    BY <1>1, <2>1
       DEF DiskCallBecomes, Disks!MutexHeld, Disks!FoundInTable, Disks!TableSound,
           Disks!ManagerAt, Disks!NoneFor, Disks!Found, Disks!ReaderSteps, Disks!RemoveSteps
<1>5. ASSUME NEW t \in Disks!Thread, Disks!Unlock(t) PROVE Disks!IInv'
  <2>1. /\ UNCHANGED <<dMade, dDriveOf, dFreed, dTable, dIo, dUasp, dEndpoints>>
        /\ dCall[t].step = "unlock" /\ dMutex' = Disks!Nobody
        /\ \/ dCall[t].ctx = Disks!None /\ DiskCallBecomes(t, "idle", Disks!None, Disks!None)
           \/ dCall[t].ctx # Disks!None /\ DiskCallBecomes(t, "use", dCall[t].drive, dCall[t].ctx)
    BY <1>5, DiskCallGoes
       DEF Disks!contexts, Disks!held, Disks!Unlock, Disks!At, Disks!Step, Disks!Returns,
           Disks!Steps, Disks!ReaderSteps
  <2>2. QED
    BY <1>1, <2>1
       DEF DiskCallBecomes, Disks!MutexHeld, Disks!FoundInTable, Disks!TableSound,
           Disks!ManagerAt, Disks!NoneFor, Disks!Found, Disks!ReaderSteps, Disks!RemoveSteps
<1>6. ASSUME NEW t \in Disks!Thread, Disks!Use(t) PROVE Disks!IInv'
  <2>1. /\ UNCHANGED <<dMade, dDriveOf, dFreed, dTable, dMutex, dUasp>>
        /\ dCall[t].step = "use"
        /\ dEndpoints' \in {dEndpoints, [dEndpoints EXCEPT ![dCall[t].drive] = "closed"]}
        /\ dIo' = [dIo EXCEPT ![dCall[t].ctx] = Disks!Nobody]
        /\ DiskCallBecomes(t, "idle", Disks!None, Disks!None)
    BY <1>6, DiskCallGoes
       DEF Disks!contexts, Disks!held, Disks!Use, Disks!At, Disks!Returns, Disks!Steps,
           Disks!ReaderSteps
  <2>2. QED
    BY <1>1, <2>1
       DEF DiskCallBecomes, Disks!MutexHeld, Disks!FoundInTable, Disks!TableSound,
           Disks!ManagerAt, Disks!NoneFor, Disks!Found, Disks!ReaderSteps, Disks!RemoveSteps
<1>7. CASE Disks!Initialize
  <2>1. PICK d \in Drive :
          /\ UNCHANGED <<dMade, dDriveOf, dFreed, dTable, dMutex, dIo>>
          /\ dCall[Disks!Manager].step = "idle"
          /\ dEndpoints[d] = "unplugged"
          /\ dEndpoints' = [dEndpoints EXCEPT ![d] = "uas"]
          /\ dUasp' = [dUasp EXCEPT ![d] = TRUE]
          /\ DiskCallBecomes(Disks!Manager, "look", d, Disks!None)
    BY <1>1, <1>7, DiskCallGoes
       DEF Disks!contexts, Disks!held, Disks!Initialize, Disks!At, Disks!Begins, Disks!Steps
  <2>2. QED
    BY <1>1, <2>1
       DEF DiskCallBecomes, Disks!MutexHeld, Disks!FoundInTable, Disks!TableSound,
           Disks!ManagerAt, Disks!NoneFor, Disks!Found, Disks!ReaderSteps, Disks!RemoveSteps
<1>8. CASE Disks!Allocate
  <2> DEFINE d == dCall[Disks!Manager].drive
  <2>1. /\ UNCHANGED <<dFreed, dTable, dMutex, dIo, dUasp, dEndpoints>>
        /\ dCall[Disks!Manager].step = "look" /\ dMutex = Disks!Nobody /\ d \in Drive
        /\ \/ UNCHANGED <<dMade, dDriveOf>> /\ DiskCallBecomes(Disks!Manager, "find", d, Disks!None)
           \/ /\ UNCHANGED <<dMade, dDriveOf>>
              /\ DiskCallBecomes(Disks!Manager, "fallback", d, dCall[Disks!Manager].ctx)
           \/ \E c \in Disks!Context :
                /\ dMade' \in 0 .. MaxContexts
                /\ Disks!Allocated' = Disks!Allocated \cup {c} /\ c \notin Disks!Allocated
                /\ dDriveOf' = [dDriveOf EXCEPT ![c] = d]
                /\ DiskCallBecomes(Disks!Manager, "insert", d, c)
    <3>1. dCall[Disks!Manager].step = "look" /\ d \in Drive
      BY <1>1, <1>8 DEF Disks!Allocate, Disks!At, Disks!MutexHeld
    <3>2. ASSUME dMade < MaxContexts
          PROVE  \E c \in Disks!Context :
                   /\ c = dMade + 1 /\ c \in 0 .. MaxContexts
                   /\ 1 .. dMade + 1 = Disks!Allocated \cup {c} /\ c \notin Disks!Allocated
      BY <3>2 DEF Disks!Allocated, Disks!Context
    <3>3. CASE UNCHANGED <<dMade, dDriveOf>>
      <4>1. dMade' # dMade + 1
        BY <1>1, <3>3
      <4>2. \/ Disks!Goes(Disks!Manager, "find", d, Disks!None)
            \/ Disks!Goes(Disks!Manager, "fallback", d, dCall[Disks!Manager].ctx)
        BY <1>8, <4>1 DEF Disks!Allocate, Disks!Begins, Disks!Step
      <4>3. /\ d \in Drive \cup {Disks!None}
            /\ dCall[Disks!Manager].ctx \in Disks!Context \cup {Disks!None}
            /\ Disks!None \in Disks!Context \cup {Disks!None}
        BY <1>1, <3>1 DEF Disks!Calls
      <4>4. ASSUME Disks!Goes(Disks!Manager, "find", d, Disks!None)
            PROVE  DiskCallBecomes(Disks!Manager, "find", d, Disks!None)
        BY <1>1, <4>3, <4>4, DiskCallGoes DEF Disks!Steps, Disks!ReaderSteps
      <4>5. ASSUME Disks!Goes(Disks!Manager, "fallback", d, dCall[Disks!Manager].ctx)
            PROVE  DiskCallBecomes(Disks!Manager, "fallback", d, dCall[Disks!Manager].ctx)
        BY <1>1, <4>3, <4>5, DiskCallGoes DEF Disks!Steps, Disks!ReaderSteps
      <4>6. \/ DiskCallBecomes(Disks!Manager, "find", d, Disks!None)
            \/ DiskCallBecomes(Disks!Manager, "fallback", d, dCall[Disks!Manager].ctx)
        BY <4>2, <4>4, <4>5
      <4>7. /\ UNCHANGED <<dFreed, dTable, dMutex, dIo, dUasp, dEndpoints>>
            /\ dMutex = Disks!Nobody
        BY <1>8 DEF Disks!Allocate, Disks!held
      <4>8. QED  BY <3>1, <3>3, <4>6, <4>7
    <3>4. CASE ~UNCHANGED <<dMade, dDriveOf>>
      <4>1. /\ dMade < MaxContexts /\ dMade' = dMade + 1
            /\ dDriveOf' = [dDriveOf EXCEPT ![dMade'] = d]
            /\ Disks!Goes(Disks!Manager, "insert", d, dMade')
        BY <1>8, <3>4 DEF Disks!Allocate
      <4>2. /\ UNCHANGED <<dFreed, dTable, dMutex, dIo, dUasp, dEndpoints>>
            /\ dMutex = Disks!Nobody
        BY <1>8 DEF Disks!Allocate, Disks!held
      <4>3. PICK c \in Disks!Context :
              /\ c = dMade' /\ dMade' \in 0 .. MaxContexts
              /\ Disks!Allocated' = Disks!Allocated \cup {c} /\ c \notin Disks!Allocated
        BY <3>2, <4>1 DEF Disks!Allocated
      <4>4. DiskCallBecomes(Disks!Manager, "insert", d, c)
        BY <1>1, <3>1, <4>1, <4>3, DiskCallGoes DEF Disks!Steps
      <4>5. QED  BY <3>1, <4>1, <4>2, <4>3, <4>4
    <3>5. QED  BY <3>3, <3>4
  <2>2. QED
    BY <1>1, <2>1
       DEF DiskCallBecomes, Disks!MutexHeld, Disks!FoundInTable, Disks!TableSound,
           Disks!ManagerAt, Disks!NoneFor, Disks!Found, Disks!ReaderSteps, Disks!RemoveSteps
<1>9. CASE Disks!Insert
  <2> DEFINE d == dCall[Disks!Manager].drive
             c == dCall[Disks!Manager].ctx
  <2>1. /\ UNCHANGED <<dMade, dDriveOf, dMutex, dIo, dUasp, dEndpoints>>
        /\ dCall[Disks!Manager].step = "insert" /\ dMutex = Disks!Nobody /\ d \in Drive
        /\ c \in Disks!Context
        /\ \/ /\ Disks!NoneFor(d) /\ dTable' = dTable \cup {c} /\ UNCHANGED dFreed
              /\ DiskCallBecomes(Disks!Manager, "find", d, Disks!None)
           \/ /\ dFreed' = dFreed \cup {c} /\ UNCHANGED dTable
              /\ \/ DiskCallBecomes(Disks!Manager, "find", d, Disks!None)
                 \/ DiskCallBecomes(Disks!Manager, "fallback", d, Disks!None)
    <3>1. dCall[Disks!Manager].step = "insert" /\ d \in Drive /\ c \in Disks!Context
      <4>1. dCall[Disks!Manager].step = "insert" /\ d \in Drive /\ c \in Disks!Allocated
        BY <1>1, <1>9 DEF Disks!Insert, Disks!At, Disks!MutexHeld, Disks!ManagerAt
      <4>2. Disks!Allocated \subseteq Disks!Context
        BY DEF Disks!Allocated, Disks!Context
      <4>3. QED  BY <4>1, <4>2
    <3>2. Disks!Found(d) = {} => Disks!NoneFor(d)
      BY DEF Disks!Found, Disks!NoneFor
    <3>3. QED
      BY <1>1, <1>9, <3>1, <3>2, DiskCallGoes
         DEF Disks!contexts, Disks!held, Disks!Insert, Disks!At, Disks!Begins, Disks!Steps,
             Disks!ReaderSteps
  <2>2. QED
    BY <1>1, <2>1
       DEF DiskCallBecomes, Disks!MutexHeld, Disks!FoundInTable, Disks!TableSound,
           Disks!ManagerAt, Disks!NoneFor, Disks!Found, Disks!ReaderSteps, Disks!RemoveSteps
<1>10. CASE Disks!GiveUp
  <2>1. PICK d \in Drive :
          /\ UNCHANGED <<dMade, dDriveOf, dFreed, dTable, dMutex, dIo, dUasp, dEndpoints>>
          /\ dCall[Disks!Manager].step = "idle"
          /\ \/ DiskCallBecomes(Disks!Manager, "fallback", d, Disks!None)
             \/ DiskCallBecomes(Disks!Manager, "destroy", d, Disks!None)
    BY <1>1, <1>10, DiskCallGoes
       DEF Disks!contexts, Disks!held, Disks!GiveUp, Disks!At, Disks!Begins, Disks!Steps
  <2>2. QED
    BY <1>1, <2>1
       DEF DiskCallBecomes, Disks!MutexHeld, Disks!FoundInTable, Disks!TableSound,
           Disks!ManagerAt, Disks!NoneFor, Disks!Found, Disks!ReaderSteps, Disks!RemoveSteps
<1>11. CASE Disks!Cleanup
  <2> DEFINE d == dCall[Disks!Manager].drive
  <2>1. /\ UNCHANGED <<dMade, dDriveOf, dFreed, dTable, dIo, dUasp, dEndpoints>>
        /\ dCall[Disks!Manager].step \in {"fallback", "destroy"} /\ d \in Drive
        /\ dMutex = Disks!Nobody /\ dMutex' = Disks!Manager
        /\ \E c \in Disks!Context \cup {Disks!None} :
             /\ (c \in dTable /\ dDriveOf[c] = d) \/ (c = Disks!None /\ Disks!NoneFor(d))
             /\ \/ DiskCallBecomes(Disks!Manager, "removeToDestroy", d, c)
                \/ DiskCallBecomes(Disks!Manager, "removeToFallback", d, c)
    <3>1. /\ dCall[Disks!Manager].step \in {"fallback", "destroy"}
          /\ d \in Drive
      BY <1>1, <1>11 DEF Disks!Cleanup, Disks!MutexHeld
    <3>2. PICK c \in Disks!Context \cup {Disks!None} :
            /\ c = IF Disks!Found(d) = {} THEN Disks!None ELSE CHOOSE x \in Disks!Found(d) : TRUE
            /\ (c \in dTable /\ dDriveOf[c] = d) \/ (c = Disks!None /\ Disks!NoneFor(d))
      BY <1>1 DEF Disks!Found, Disks!NoneFor
    <3>3. QED
      BY <1>1, <1>11, <3>1, <3>2, DiskCallGoes
         DEF Disks!contexts, Disks!held, Disks!Cleanup, Disks!Takes, Disks!At, Disks!Steps,
             Disks!RemoveSteps
  <2>2. QED
    BY <1>1, <2>1
       DEF DiskCallBecomes, Disks!MutexHeld, Disks!FoundInTable, Disks!TableSound,
           Disks!ManagerAt, Disks!NoneFor, Disks!Found, Disks!ReaderSteps, Disks!RemoveSteps
<1>12. CASE Disks!Remove
  <2> DEFINE d == dCall[Disks!Manager].drive
             c == dCall[Disks!Manager].ctx
  <2>1. /\ UNCHANGED <<dMade, dDriveOf, dIo, dUasp, dEndpoints>>
        /\ dCall[Disks!Manager].step \in Disks!RemoveSteps /\ d \in Drive
        /\ dMutex' = Disks!Nobody
        /\ c # Disks!None => dIo[c] = Disks!Nobody
        /\ dTable' = dTable \ {c} /\ dFreed' = dFreed \cup ({c} \ {Disks!None})
        /\ \/ DiskCallBecomes(Disks!Manager, "unplug", d, c)
           \/ DiskCallBecomes(Disks!Manager, "close", d, c)
    BY <1>1, <1>12, DiskCallGoes
       DEF Disks!contexts, Disks!held, Disks!Remove, Disks!Removing, Disks!RemoveSteps,
           Disks!MutexHeld, Disks!At, Disks!Step, Disks!Steps
  <2>2. QED
    BY <1>1, <2>1
       DEF DiskCallBecomes, Disks!MutexHeld, Disks!FoundInTable, Disks!TableSound,
           Disks!ManagerAt, Disks!NoneFor, Disks!Found, Disks!ReaderSteps, Disks!RemoveSteps
<1>13. CASE Disks!Unplug
  <2> DEFINE d == dCall[Disks!Manager].drive
  <2>1. /\ UNCHANGED <<dMade, dDriveOf, dFreed, dTable, dMutex, dIo>>
        /\ dCall[Disks!Manager].step = "unplug" /\ d \in Drive
        /\ dEndpoints' = [dEndpoints EXCEPT ![d] = "unplugged"]
        /\ dUasp' = [dUasp EXCEPT ![d] = FALSE]
        /\ DiskCallBecomes(Disks!Manager, "idle", Disks!None, Disks!None)
    BY <1>1, <1>13, DiskCallGoes
       DEF Disks!contexts, Disks!held, Disks!Unplug, Disks!MutexHeld, Disks!At,
           Disks!Returns, Disks!Steps, Disks!ReaderSteps
  <2>2. QED
    BY <1>1, <2>1
       DEF DiskCallBecomes, Disks!MutexHeld, Disks!FoundInTable, Disks!TableSound,
           Disks!ManagerAt, Disks!NoneFor, Disks!Found, Disks!ReaderSteps, Disks!RemoveSteps
<1>14. CASE Disks!Close
  <2> DEFINE d == dCall[Disks!Manager].drive
  <2>1. /\ UNCHANGED <<dMade, dDriveOf, dFreed, dTable, dMutex, dIo, dUasp>>
        /\ dCall[Disks!Manager].step = "close" /\ d \in Drive
        /\ dEndpoints' = [dEndpoints EXCEPT ![d] = "closed"]
        /\ DiskCallBecomes(Disks!Manager, "open", d, dCall[Disks!Manager].ctx)
    BY <1>1, <1>14, DiskCallGoes
       DEF Disks!contexts, Disks!held, Disks!Close, Disks!MutexHeld, Disks!At, Disks!Step,
           Disks!Steps
  <2>2. QED
    BY <1>1, <2>1
       DEF DiskCallBecomes, Disks!MutexHeld, Disks!FoundInTable, Disks!TableSound,
           Disks!ManagerAt, Disks!NoneFor, Disks!Found, Disks!ReaderSteps, Disks!RemoveSteps
<1>15. CASE Disks!OpenBulk
  <2> DEFINE d == dCall[Disks!Manager].drive
  <2>1. /\ UNCHANGED <<dMade, dDriveOf, dFreed, dTable, dMutex, dIo>>
        /\ dCall[Disks!Manager].step = "open" /\ d \in Drive
        /\ \/ /\ dEndpoints' = [dEndpoints EXCEPT ![d] = "bulk"]
              /\ dUasp' = [dUasp EXCEPT ![d] = FALSE]
              /\ DiskCallBecomes(Disks!Manager, "idle", Disks!None, Disks!None)
           \/ /\ DiskCallBecomes(Disks!Manager, "destroy", d, Disks!None)
              /\ UNCHANGED <<dEndpoints, dUasp>>
    BY <1>1, <1>15, DiskCallGoes
       DEF Disks!contexts, Disks!held, Disks!OpenBulk, Disks!MutexHeld, Disks!At,
           Disks!Begins, Disks!Returns, Disks!Steps, Disks!ReaderSteps
  <2>2. Disks!TableSound'
    BY <1>1, <2>1 DEF Disks!TableSound, Disks!ManagerAt, Disks!NoneFor
  <2>3. Disks!TypeOK'
    BY <1>1, <2>1 DEF DiskCallBecomes
  <2>4. Disks!MutexHeld' /\ Disks!FoundInTable'
    BY <1>1, <2>1
       DEF DiskCallBecomes, Disks!MutexHeld, Disks!FoundInTable, Disks!RemoveSteps
  <2>5. Disks!ManagerAt'
    BY <1>1, <2>1 DEF DiskCallBecomes, Disks!ManagerAt, Disks!RemoveSteps
  <2>6. QED  BY <2>2, <2>3, <2>4, <2>5
<1>16. CASE Disks!NoFallback
  <2> DEFINE d == dCall[Disks!Manager].drive
  <2>1. /\ UNCHANGED <<dMade, dDriveOf, dFreed, dTable, dMutex, dIo, dUasp, dEndpoints>>
        /\ dCall[Disks!Manager].step = "fallback" /\ d \in Drive
        /\ DiskCallBecomes(Disks!Manager, "destroy", d, Disks!None)
    <3>1. dCall[Disks!Manager].step = "fallback" /\ d \in Drive
      BY <1>1, <1>16 DEF Disks!NoFallback, Disks!At, Disks!MutexHeld
    <3>2. QED
      BY <1>1, <1>16, <3>1, DiskCallGoes
         DEF Disks!contexts, Disks!held, Disks!NoFallback, Disks!At, Disks!Begins, Disks!Steps
  <2>2. QED
    BY <1>1, <2>1
       DEF DiskCallBecomes, Disks!MutexHeld, Disks!FoundInTable, Disks!TableSound,
           Disks!ManagerAt, Disks!NoneFor, Disks!Found, Disks!ReaderSteps, Disks!RemoveSteps
<1>17. QED
  BY <1>2, <1>3, <1>4, <1>5, <1>6, <1>7, <1>8, <1>9, <1>10, <1>11, <1>12, <1>13, <1>14,
     <1>15, <1>16
     DEF Disks!Next

(* The invariant says more than TransportOutlivesUse.                       *)
LEMMA DisksSafe == Disks!IInv => Disks!TransportOutlivesUse
  BY DEF Disks!IInv, Disks!FoundInTable, Disks!TableSound, Disks!TransportOutlivesUse,
         Disks!At

(* The invariant is about the variables alone.                              *)
LEMMA DisksStutter == Disks!IInv /\ UNCHANGED Disks!vars => Disks!IInv'
  BY DEF Disks!vars, Disks!contexts, Disks!held, Disks!IInv, Disks!TypeOK, Disks!MutexHeld,
         Disks!FoundInTable, Disks!TableSound, Disks!ManagerAt, Disks!NoneFor,
         Disks!Allocated

HIDE DEF dMade, dDriveOf, dFreed, dTable, dMutex, dIo, dUasp, dEndpoints, dCall

--------------------------------------------------------------------------------
(* Downloads: a cover that is replaced is on the card until the new one is.      *)

kCall == v1
kWanted == v5
kCard == v6
kHad == v7

USE DEF kCall, kWanted, kCard, kHad

(* What the invariant asks of the download's step, the cover's files and the     *)
(* cover there was.                                                             *)
CoverStands(step, existed, path, tmp, old, before) ==
  /\ path # Covered!Torn /\ old # Covered!Torn
  /\ step \in {"aside", "install"} => tmp # Covered!Torn
  /\ before # Covered!NoCover => before \in {path, old}
  /\ step \in {"open", "write", "aside"} =>
       before = path /\ (existed <=> path # Covered!NoCover)
  /\ step = "install" => before \in {Covered!NoCover, old}

CoverCall(step, who, existed) == [step |-> step, who |-> who, existed |-> existed]
CoverFiles(path, tmp, old) == [path |-> path, tmp |-> tmp, old |-> old]

LEMMA CoverWhole == \A url :
      Covered!Whole(url) # Covered!Torn /\ Covered!NoCover # Covered!Torn
  BY DEF Covered!Whole, Covered!Torn, Covered!NoCover

(* The invariant, of the values. *)
LEMMA CoverValues ==
  ASSUME NEW step, NEW who, NEW existed \in BOOLEAN, NEW path, NEW tmp, NEW old,
         kCall = CoverCall(step, who, existed), kCard = CoverFiles(path, tmp, old)
  PROVE  Covered!IInv <=> CoverStands(step, existed, path, tmp, old, kHad)
<1>1. /\ kCall.step = step /\ kCall.who = who /\ kCall.existed = existed
      /\ kCard.path = path /\ kCard.tmp = tmp /\ kCard.old = old
  BY DEF CoverCall, CoverFiles
<1>2. /\ kCall = [step |-> kCall.step, who |-> kCall.who, existed |-> kCall.existed]
      /\ kCard = [path |-> kCard.path, tmp |-> kCard.tmp, old |-> kCard.old]
  BY <1>1, Zenon DEF CoverCall, CoverFiles
<1>3. QED  BY <1>1, <1>2, Zenon DEF Covered!IInv, CoverStands, Covered!At

LEMMA CoverBecomes ==
  ASSUME NEW step, NEW who, NEW existed \in BOOLEAN, NEW path, NEW tmp, NEW old,
         kCall' = CoverCall(step, who, existed), kCard' = CoverFiles(path, tmp, old),
         CoverStands(step, existed, path, tmp, old, kHad')
  PROVE  Covered!IInv'
<1>1. /\ kCall'.step = step /\ kCall'.who = who /\ kCall'.existed = existed
      /\ kCard'.path = path /\ kCard'.tmp = tmp /\ kCard'.old = old
  BY DEF CoverCall, CoverFiles
<1>2. /\ kCall' = [step |-> kCall'.step, who |-> kCall'.who, existed |-> kCall'.existed]
      /\ kCard' = [path |-> kCard'.path, tmp |-> kCard'.tmp, old |-> kCard'.old]
  BY <1>1, Zenon DEF CoverCall, CoverFiles
<1>3. QED  BY <1>1, <1>2, Zenon DEF Covered!IInv, CoverStands, Covered!At

LEMMA CoveredInit == Covered!Init => Covered!IInv
<1> SUFFICES ASSUME Covered!Init PROVE Covered!IInv
  OBVIOUS
<1>1. kCall = CoverCall("idle", Covered!None, FALSE)
  BY DEF Covered!Init, Covered!Idle, CoverCall
<1>2. PICK path \in {Covered!NoCover} \cup {Covered!Whole(url) : url \in Addresses} :
        kCard = CoverFiles(path, Covered!NoCover, Covered!NoCover)
  <2>1. kCard \in [path : {Covered!NoCover} \cup {Covered!Whole(url) : url \in Addresses},
                 tmp : {Covered!NoCover}, old : {Covered!NoCover}]
    BY DEF Covered!Init
  <2>2. kCard = CoverFiles(kCard.path, Covered!NoCover, Covered!NoCover)
    BY <2>1 DEF CoverFiles
  <2>3. kCard.path \in {Covered!NoCover} \cup {Covered!Whole(url) : url \in Addresses}
    BY <2>1
  <2>4. QED  BY <2>2, <2>3
<1>3. kHad = path
  <2>1. kHad = kCard.path
    BY DEF Covered!Init
  <2>2. QED  BY <1>2, <2>1 DEF CoverFiles
<1>4. path # Covered!Torn
  BY <1>2, CoverWhole
<1>5. CoverStands("idle", FALSE, path, Covered!NoCover, Covered!NoCover, kHad)
  BY <1>3, <1>4, CoverWhole DEF CoverStands
<1>6. QED  BY <1>1, <1>2, <1>5, CoverValues

LEMMA CoveredStep == Covered!IInv /\ Covered!Next => Covered!IInv'
<1> SUFFICES ASSUME Covered!IInv, Covered!Next PROVE Covered!IInv'
  OBVIOUS
<1>1. PICK step, who, existed : existed \in BOOLEAN /\ kCall = CoverCall(step, who, existed)
  BY DEF Covered!IInv, CoverCall
<1>2. PICK path, tmp, old : kCard = CoverFiles(path, tmp, old)
  BY DEF Covered!IInv, CoverFiles
<1>3. CoverStands(step, existed, path, tmp, old, kHad)
  BY <1>1, <1>2, CoverValues
<1>4. /\ kCall.step = step /\ kCall.existed = existed
      /\ kCard.path = path /\ kCard.tmp = tmp /\ kCard.old = old
  BY <1>1, <1>2 DEF CoverCall, CoverFiles
<1>5. Covered!Ends => kCall' = CoverCall("idle", Covered!None, FALSE)
  BY DEF Covered!Ends, Covered!Idle, CoverCall
<1>6. \A s : Covered!Goes(s) => kCall' = CoverCall(s, who, existed)
  BY <1>1 DEF Covered!Goes, CoverCall
<1>7. \A c \in Covered!Without(kCard) : \E t : c = CoverFiles(path, t, old)
  BY <1>2 DEF Covered!Without, CoverFiles
<1>8. ASSUME NEW s, NEW w, NEW e \in BOOLEAN, kCall' = CoverCall(s, w, e),
             s \notin {"open", "write", "aside", "install"},
             NEW t, kCard' = CoverFiles(path, t, old), kHad' = kHad
      PROVE  Covered!IInv'
  <2>1. CoverStands(s, e, path, t, old, kHad')
    BY <1>3, <1>8 DEF CoverStands
  <2>2. QED  BY <1>8, <2>1, CoverBecomes
<1>9. ASSUME kCall' = kCall \/ Covered!Ends, kCard' = kCard, kHad' = kHad
      PROVE  Covered!IInv'
  <2>1. CASE kCall' = kCall
    <3>1. kCall' = CoverCall(step, who, existed) /\ kCard' = CoverFiles(path, tmp, old)
      BY <1>1, <1>2, <1>9, <2>1
    <3>2. CoverStands(step, existed, path, tmp, old, kHad')
      BY <1>3, <1>9
    <3>3. QED  BY <1>1, <3>1, <3>2, CoverBecomes
  <2>2. CASE Covered!Ends
    BY <1>2, <1>5, <1>8, <1>9, <2>2
  <2>3. QED  BY <1>9, <2>1, <2>2
<1>10. ASSUME NEW s, s \in {"games", "icons", "artworks", "list", "get", "picked", "stat"},
              Covered!Goes(s), kCard' = kCard, kHad' = kHad
       PROVE  Covered!IInv'
  <2>1. kCall' = CoverCall(s, who, existed)
    BY <1>6, <1>10
  <2>2. QED  BY <1>1, <1>2, <1>8, <1>10, <2>1
<1>11. ASSUME Covered!Fails, kCard' \in Covered!Without(kCard) PROVE Covered!IInv'
  <2>1. kCall' = CoverCall("idle", Covered!None, FALSE) /\ kHad' = kHad
    BY <1>5, <1>11 DEF Covered!Fails
  <2>2. PICK t : kCard' = CoverFiles(path, t, old)
    BY <1>7, <1>11
  <2>3. QED  BY <1>8, <2>1, <2>2
<1>12. ASSUME NEW w \in {"batch", "menu", "icons"}, Covered!Ask(w) PROVE Covered!IInv'
  <2>1. /\ kCall' = CoverCall("search", w, FALSE) /\ kCard' = CoverFiles(path, tmp, old)
        /\ kHad' = kHad
    BY <1>2, <1>12 DEF Covered!Ask, CoverCall
  <2>2. QED  BY <1>8, <2>1
<1>13. CASE Covered!Cancel
  BY <1>9, <1>13 DEF Covered!Cancel
<1>14. CASE Covered!Refused
  BY <1>9, <1>14 DEF Covered!Refused
<1>15. CASE Covered!Searched
  BY <1>10, <1>15 DEF Covered!Searched
<1>16. CASE Covered!GameChosen
  <2>1. /\ kCard' = kCard /\ kHad' = kHad
        /\ Covered!Ends \/ Covered!Goes("icons") \/ Covered!Goes("artworks")
    BY <1>16 DEF Covered!GameChosen
  <2>2. QED  BY <1>9, <1>10, <2>1
<1>17. CASE Covered!Listed
  BY <1>10, <1>17 DEF Covered!Listed
<1>18. CASE Covered!ArtworkChosen
  <2>1. /\ kCard' = kCard /\ kHad' = kHad
        /\ Covered!Ends \/ Covered!Goes("get")
    BY <1>18 DEF Covered!ArtworkChosen
  <2>2. QED  BY <1>9, <1>10, <2>1
<1>19. CASE Covered!IconsListed
  BY <1>10, <1>19 DEF Covered!IconsListed
<1>20. CASE Covered!IconsShown
  BY <1>9, <1>20 DEF Covered!IconsShown
<1>21. CASE Covered!Received
  BY <1>10, <1>21 DEF Covered!Received, Covered!Then
<1>22. CASE Covered!Restore
  <2>1. CASE Covered!Fails /\ UNCHANGED kCard
    BY <1>9, <2>1 DEF Covered!Fails
  <2>2. CASE ~(Covered!Fails /\ UNCHANGED kCard)
    <3>1. /\ kCard' = IF path = Covered!NoCover
                     THEN [kCard EXCEPT !.path = kCard.old, !.old = Covered!NoCover]
                     ELSE [kCard EXCEPT !.old = Covered!NoCover]
          /\ kCall' = [kCall EXCEPT !.step = "open", !.existed = kCard'.path # Covered!NoCover]
          /\ kHad' = kCard'.path
      BY <1>4, <1>22, <2>2 DEF Covered!Restore
    <3>2. PICK p : p = IF path = Covered!NoCover THEN old ELSE path
      OBVIOUS
    <3>3. kCard' = CoverFiles(p, tmp, Covered!NoCover)
      <4>1. CASE path = Covered!NoCover
        BY <1>2, <1>4, <3>1, <3>2, <4>1 DEF CoverFiles
      <4>2. CASE path # Covered!NoCover
        BY <1>2, <1>4, <3>1, <3>2, <4>2 DEF CoverFiles
      <4>3. QED  BY <4>1, <4>2
    <3>4. kHad' = p /\ kCard'.path = p
      <4>1. kCard'.path = p
        BY <3>3 DEF CoverFiles
      <4>2. QED  BY <3>1, <4>1, Zenon
    <3>5. PICK e \in BOOLEAN : e <=> p # Covered!NoCover
      OBVIOUS
    <3>6. kCall' = CoverCall("open", who, e)
      <4>1. (kCard'.path # Covered!NoCover) = e
        BY <3>4, <3>5
      <4>2. QED  BY <1>1, <3>1, <4>1 DEF CoverCall
    <3>7. CoverStands("open", e, p, tmp, Covered!NoCover, kHad')
      BY <1>3, <3>2, <3>4, <3>5, CoverWhole DEF CoverStands
    <3>8. QED  BY <3>3, <3>6, <3>7, CoverBecomes
  <2>3. QED  BY <2>1, <2>2
<1>23. CASE Covered!Open
  <2>1. CASE Covered!Fails /\ kCard' \in Covered!Without(kCard)
    BY <1>11, <2>1
  <2>2. CASE /\ Covered!Then("write")
             /\ kCard' = [kCard EXCEPT !.tmp = Covered!Torn]
    <3>1. kCall' = CoverCall("write", who, existed) /\ kHad' = kHad
      BY <1>6, <2>2 DEF Covered!Then
    <3>2. kCard' = CoverFiles(path, Covered!Torn, old)
      BY <1>2, <2>2 DEF CoverFiles
    <3>3. step = "open"
      BY <1>4, <1>23 DEF Covered!Open, Covered!At
    <3>4. CoverStands("write", existed, path, Covered!Torn, old, kHad')
      BY <1>3, <3>1, <3>3 DEF CoverStands
    <3>5. QED  BY <1>1, <3>1, <3>2, <3>4, CoverBecomes
  <2>3. QED  BY <1>23, <2>1, <2>2 DEF Covered!Open
<1>24. CASE Covered!Write
  <2>1. CASE Covered!Fails /\ kCard' \in Covered!Without(kCard)
    BY <1>11, <2>1
  <2>2. CASE /\ Covered!Then("aside")
             /\ kCard' = [kCard EXCEPT !.tmp = Covered!Whole(kWanted)]
    <3>1. kCall' = CoverCall("aside", who, existed) /\ kHad' = kHad
      BY <1>6, <2>2 DEF Covered!Then
    <3>2. kCard' = CoverFiles(path, Covered!Whole(kWanted), old)
      BY <1>2, <2>2 DEF CoverFiles
    <3>3. step = "write"
      BY <1>4, <1>24 DEF Covered!Write, Covered!At
    <3>4. CoverStands("aside", existed, path, Covered!Whole(kWanted), old, kHad')
      BY <1>3, <3>1, <3>3, CoverWhole DEF CoverStands
    <3>5. QED  BY <1>1, <3>1, <3>2, <3>4, CoverBecomes
  <2>3. QED  BY <1>24, <2>1, <2>2 DEF Covered!Write
<1>25. CASE Covered!Aside
  <2>1. CASE Covered!Fails /\ kCard' \in Covered!Without(kCard)
    BY <1>11, <2>1
  <2>2. CASE ~(Covered!Fails /\ kCard' \in Covered!Without(kCard))
    <3>1. /\ Covered!Then("install")
          /\ kCard' = IF existed THEN [kCard EXCEPT !.old = kCard.path, !.path = Covered!NoCover]
                     ELSE kCard
      BY <1>4, <1>25, <2>2 DEF Covered!Aside
    <3>2. kCall' = CoverCall("install", who, existed) /\ kHad' = kHad
      BY <1>6, <3>1 DEF Covered!Then
    <3>3. step = "aside"
      BY <1>4, <1>25 DEF Covered!Aside, Covered!At
    <3>4. CASE existed
      <4>1. kCard' = CoverFiles(Covered!NoCover, tmp, path)
        BY <1>2, <1>4, <3>1, <3>4 DEF CoverFiles
      <4>2. CoverStands("install", existed, Covered!NoCover, tmp, path, kHad')
        BY <1>3, <3>2, <3>3, CoverWhole DEF CoverStands
      <4>3. QED  BY <1>1, <3>2, <4>1, <4>2, CoverBecomes
    <3>5. CASE ~existed
      <4>1. kCard' = CoverFiles(path, tmp, old)
        BY <1>2, <3>1, <3>5
      <4>2. CoverStands("install", existed, path, tmp, old, kHad')
        BY <1>3, <3>2, <3>3, <3>5 DEF CoverStands
      <4>3. QED  BY <1>1, <3>2, <4>1, <4>2, CoverBecomes
    <3>6. QED  BY <1>1, <3>4, <3>5
  <2>3. QED  BY <2>1, <2>2
<1>26. CASE Covered!Install
  <2>1. step = "install"
    BY <1>4, <1>26 DEF Covered!Install, Covered!At
  <2>2. CASE /\ Covered!Then("drop")
             /\ kCard' = [kCard EXCEPT !.path = kCard.tmp, !.tmp = Covered!NoCover]
    <3>1. kCall' = CoverCall("drop", who, existed) /\ kHad' = kHad
      BY <1>6, <2>2 DEF Covered!Then
    <3>2. kCard' = CoverFiles(tmp, Covered!NoCover, old)
      BY <1>2, <1>4, <2>2 DEF CoverFiles
    <3>3. CoverStands("drop", existed, tmp, Covered!NoCover, old, kHad')
      BY <1>3, <2>1, <3>1 DEF CoverStands
    <3>4. QED  BY <1>1, <3>1, <3>2, <3>3, CoverBecomes
  <2>3. CASE Covered!Fails /\ kCard' \in Covered!Without(kCard)
    BY <1>11, <2>3
  <2>4. CASE /\ Covered!Fails
             /\ kCard' \in
                  Covered!Without([kCard EXCEPT !.path = kCard.old, !.old = Covered!NoCover])
    <3>1. kCall' = CoverCall("idle", Covered!None, FALSE) /\ kHad' = kHad
      BY <1>5, <2>4 DEF Covered!Fails
    <3>2. PICK f : f = [kCard EXCEPT !.path = kCard.old, !.old = Covered!NoCover]
      OBVIOUS
    <3>3. f = CoverFiles(old, tmp, Covered!NoCover)
      BY <1>2, <3>2 DEF CoverFiles
    <3>4. PICK t : kCard' = CoverFiles(old, t, Covered!NoCover)
      <4>1. kCard' = f \/ kCard' = [f EXCEPT !.tmp = Covered!NoCover]
        BY <2>4, <3>2 DEF Covered!Without
      <4>2. QED  BY <3>3, <4>1 DEF CoverFiles
    <3>5. CoverStands("idle", FALSE, old, t, Covered!NoCover, kHad')
      BY <1>3, <2>1, <3>1, CoverWhole DEF CoverStands
    <3>6. QED  BY <3>1, <3>4, <3>5, CoverBecomes
  <2>5. QED  BY <1>26, <2>2, <2>3, <2>4 DEF Covered!Install
<1>27. CASE Covered!Drop
  <2>1. kCall' = CoverCall("idle", Covered!None, FALSE) /\ kHad' = path
    BY <1>4, <1>5, <1>27 DEF Covered!Drop
  <2>2. PICK o : kCard' = CoverFiles(path, tmp, o) /\ o \in {old, Covered!NoCover}
    <3>1. kCard' = kCard \/ kCard' = [kCard EXCEPT !.old = Covered!NoCover]
      BY <1>27 DEF Covered!Drop
    <3>2. QED  BY <1>2, <3>1 DEF CoverFiles
  <2>3. CoverStands("idle", FALSE, path, tmp, o, kHad')
    BY <1>3, <2>1, <2>2, CoverWhole DEF CoverStands
  <2>4. QED  BY <2>1, <2>2, <2>3, CoverBecomes
<1>28. CASE Covered!RemoveCustom
  <2>1. kCall' = CoverCall(step, who, existed) /\ kHad' = Covered!NoCover /\ step = "idle"
    BY <1>1, <1>4, <1>28 DEF Covered!RemoveCustom, Covered!At
  <2>2. kCard' = CoverFiles(Covered!NoCover, tmp, old)
    BY <1>2, <1>28 DEF Covered!RemoveCustom, CoverFiles
  <2>3. CoverStands(step, existed, Covered!NoCover, tmp, old, kHad')
    BY <1>3, <2>1, CoverWhole DEF CoverStands
  <2>4. QED  BY <1>1, <2>1, <2>2, <2>3, CoverBecomes
<1>29. CASE Covered!PowerCut
  BY <1>9, <1>29 DEF Covered!PowerCut
<1>30. QED
  BY <1>12, <1>13, <1>14, <1>15, <1>16, <1>17, <1>18, <1>19, <1>20, <1>21, <1>22, <1>23,
     <1>24, <1>25, <1>26, <1>27, <1>28, <1>29
     DEF Covered!Next

LEMMA CoveredStutter == Covered!IInv /\ UNCHANGED Covered!vars => Covered!IInv'
  BY DEF Covered!IInv, Covered!vars, Covered!At, Covered!requests

LEMMA CoveredSafe == Covered!IInv => Covered!CoverIsWhole
  BY DEF Covered!IInv, Covered!CoverIsWhole

HIDE DEF kCall, kWanted, kCard, kHad

--------------------------------------------------------------------------------
(* The whole.  A behaviour exercises one part, and what the part does to its    *)
(* slots is what its module says, for its invariant to hold of the part; then   *)
(* the theorems follow.                                                         *)

(* The invariant of Library holds while it is the part exercised. *)
LEMMA LibraryAlways == LauncherSpec => [](part = "library" => Library!IInv)
<1>1. LauncherInit => (part = "library" => Library!IInv)
  BY LibraryInit DEF LauncherInit
<1>2. /\ part = "library" => Library!IInv
      /\ [LauncherNext]_allVars
      => (part = "library" => Library!IInv)'
  <2> SUFFICES ASSUME part = "library" => Library!IInv, [LauncherNext]_allVars,
                      part' = "library"
               PROVE  Library!IInv'
    OBVIOUS
  <2>1. CASE LauncherNext
    BY <2>1, LibraryStep DEF LauncherNext
  <2>2. CASE UNCHANGED allVars
    <3>1. part = "library" /\ UNCHANGED Library!vars
      BY <2>2 DEF allVars, after6, after7, after8, after9, after10, after11, after12,
                  after13, after14, Library!vars, Library!shortcut, Library!usb,
                  Library!sources, Library!mounts, Library!listed
    <3>2. QED  BY <3>1, LibraryStutter
  <2>3. QED  BY <2>1, <2>2
<1>3. QED  BY <1>1, <1>2, PTL DEF LauncherSpec

(* The invariant of Boot holds while it is the part exercised. *)
LEMMA BootAlways == LauncherSpec => [](part = "boot" => Boot!IInv)
<1>1. LauncherInit => (part = "boot" => Boot!IInv)
  BY BootInit DEF LauncherInit
<1>2. /\ part = "boot" => Boot!IInv
      /\ [LauncherNext]_allVars
      => (part = "boot" => Boot!IInv)'
  <2> SUFFICES ASSUME part = "boot" => Boot!IInv, [LauncherNext]_allVars,
                      part' = "boot"
               PROVE  Boot!IInv'
    OBVIOUS
  <2>1. CASE LauncherNext
    BY <2>1, BootStep DEF LauncherNext
  <2>2. CASE UNCHANGED allVars
    <3>1. part = "boot" /\ UNCHANGED Boot!vars
      BY <2>2 DEF allVars, after6, after7, after8, after9, after10, after11, after12,
                  after13, after14, Boot!vars, Boot!file, Boot!unpacked
    <3>2. QED  BY <3>1, BootStutter
  <2>3. QED  BY <2>1, <2>2
<1>3. QED  BY <1>1, <1>2, PTL DEF LauncherSpec

(* The invariant of Screens holds while it is the part exercised. *)
LEMMA ScreensAlways == LauncherSpec => [](part = "screens" => Screens!IInv)
<1>1. LauncherInit => (part = "screens" => Screens!IInv)
  BY ScreensInit DEF LauncherInit
<1>2. /\ part = "screens" => Screens!IInv
      /\ [LauncherNext]_allVars
      => (part = "screens" => Screens!IInv)'
  <2> SUFFICES ASSUME part = "screens" => Screens!IInv, [LauncherNext]_allVars,
                      part' = "screens"
               PROVE  Screens!IInv'
    OBVIOUS
  <2>1. CASE LauncherNext
    BY <2>1, ScreensStep DEF LauncherNext
  <2>2. CASE UNCHANGED allVars
    <3>1. part = "screens" /\ UNCHANGED Screens!vars
      BY <2>2 DEF allVars, after6, after7, after8, after9, after10, after11, after12,
                  after13, after14, Screens!vars, Screens!file, Screens!profile,
                  Screens!library
    <3>2. QED  BY <3>1, ScreensStutter
  <2>3. QED  BY <2>1, <2>2
<1>3. QED  BY <1>1, <1>2, PTL DEF LauncherSpec

(* The invariant of Identity holds while it is the part exercised. *)
LEMMA IdentityAlways == LauncherSpec => [](part = "identity" => Identity!IInv)
<1>1. LauncherInit => (part = "identity" => Identity!IInv)
  BY IdentityInit DEF LauncherInit
<1>2. /\ part = "identity" => Identity!IInv
      /\ [LauncherNext]_allVars
      => (part = "identity" => Identity!IInv)'
  <2> SUFFICES ASSUME part = "identity" => Identity!IInv, [LauncherNext]_allVars,
                      part' = "identity"
               PROVE  Identity!IInv'
    OBVIOUS
  <2>1. CASE LauncherNext
    BY <2>1, IdentityStep DEF LauncherNext
  <2>2. CASE UNCHANGED allVars
    <3>1. part = "identity" /\ UNCHANGED Identity!vars
      BY <2>2 DEF allVars, after6, after7, after8, after9, after10, after11, after12,
                  after13, after14, Identity!vars, Identity!identities, Identity!worker
    <3>2. QED  BY <3>1, IdentityStutter
  <2>3. QED  BY <2>1, <2>2
<1>3. QED  BY <1>1, <1>2, PTL DEF LauncherSpec

(* The invariant of Transfer holds while it is the part exercised. *)
LEMMA TransferAlways == LauncherSpec => [](part = "transfer" => Transfer!IInv)
<1>1. LauncherInit => (part = "transfer" => Transfer!IInv)
  BY TransferInit DEF LauncherInit
<1>2. /\ part = "transfer" => Transfer!IInv
      /\ [LauncherNext]_allVars
      => (part = "transfer" => Transfer!IInv)'
  <2> SUFFICES ASSUME part = "transfer" => Transfer!IInv, [LauncherNext]_allVars,
                      part' = "transfer"
               PROVE  Transfer!IInv'
    OBVIOUS
  <2>1. CASE LauncherNext
    BY <2>1, TransferStep DEF LauncherNext
  <2>2. CASE UNCHANGED allVars
    <3>1. part = "transfer" /\ UNCHANGED Transfer!vars
      BY <2>2 DEF allVars, after6, after7, after8, after9, after10, after11, after12,
                  after13, after14, Transfer!vars, Transfer!task, Transfer!disk,
                  Transfer!step
    <3>2. QED  BY <3>1, TransferStutter
  <2>3. QED  BY <2>1, <2>2
<1>3. QED  BY <1>1, <1>2, PTL DEF LauncherSpec

(* The invariant of Shares holds while it is the part exercised. *)
LEMMA SharesAlways == LauncherSpec => [](part = "shares" => Shares!IInv)
<1>1. LauncherInit => (part = "shares" => Shares!IInv)
  BY SharesInit DEF LauncherInit
<1>2. /\ part = "shares" => Shares!IInv
      /\ [LauncherNext]_allVars
      => (part = "shares" => Shares!IInv)'
  <2> SUFFICES ASSUME part = "shares" => Shares!IInv, [LauncherNext]_allVars,
                      part' = "shares"
               PROVE  Shares!IInv'
    OBVIOUS
  <2>1. CASE LauncherNext
    BY <2>1, SharesStep DEF LauncherNext
  <2>2. CASE UNCHANGED allVars
    <3>1. part = "shares" /\ UNCHANGED Shares!vars
      BY <2>2 DEF allVars, after6, after7, after8, after9, after10, after11, after12,
                  after13, after14, Shares!vars
    <3>2. QED  BY <3>1, SharesStutter
  <2>3. QED  BY <2>1, <2>2
<1>3. QED  BY <1>1, <1>2, PTL DEF LauncherSpec

(* The invariant of Covers holds while it is the part exercised. *)
LEMMA CoversAlways == LauncherSpec => [](part = "covers" => Covers!IInv)
<1>1. LauncherInit => (part = "covers" => Covers!IInv)
  BY CoversInit DEF LauncherInit
<1>2. /\ part = "covers" => Covers!IInv
      /\ [LauncherNext]_allVars
      => (part = "covers" => Covers!IInv)'
  <2> SUFFICES ASSUME part = "covers" => Covers!IInv, [LauncherNext]_allVars,
                      part' = "covers"
               PROVE  Covers!IInv'
    OBVIOUS
  <2>1. CASE LauncherNext
    BY <2>1, CoversStep DEF LauncherNext
  <2>2. CASE UNCHANGED allVars
    <3>1. part = "covers" /\ UNCHANGED Covers!vars
      BY <2>2 DEF allVars, after6, after7, after8, after9, after10, after11, after12,
                  after13, after14, Covers!vars
    <3>2. QED  BY <3>1, CoversStutter
  <2>3. QED  BY <2>1, <2>2
<1>3. QED  BY <1>1, <1>2, PTL DEF LauncherSpec

(* The invariant of Update holds while it is the part exercised. *)
LEMMA UpdateAlways == LauncherSpec => [](part = "update" => Update!IInv)
<1>1. LauncherInit => (part = "update" => Update!IInv)
  BY UpdateInit DEF LauncherInit
<1>2. /\ part = "update" => Update!IInv
      /\ [LauncherNext]_allVars
      => (part = "update" => Update!IInv)'
  <2> SUFFICES ASSUME part = "update" => Update!IInv, [LauncherNext]_allVars,
                      part' = "update"
               PROVE  Update!IInv'
    OBVIOUS
  <2>1. CASE LauncherNext
    BY <2>1, UpdateStep DEF LauncherNext
  <2>2. CASE UNCHANGED allVars
    <3>1. part = "update" /\ UNCHANGED Update!vars
      BY <2>2 DEF allVars, after6, after7, after8, after9, after10, after11, after12,
                  after13, after14, Update!vars
    <3>2. QED  BY <3>1, UpdateStutter
  <2>3. QED  BY <2>1, <2>2
<1>3. QED  BY <1>1, <1>2, PTL DEF LauncherSpec

(* The invariant of Forwarder holds while it is the part exercised. *)
LEMMA ForwarderAlways == LauncherSpec => [](part = "forwarder" => Forwarder!IInv)
<1>1. LauncherInit => (part = "forwarder" => Forwarder!IInv)
  BY ForwarderInit DEF LauncherInit
<1>2. /\ part = "forwarder" => Forwarder!IInv
      /\ [LauncherNext]_allVars
      => (part = "forwarder" => Forwarder!IInv)'
  <2> SUFFICES ASSUME part = "forwarder" => Forwarder!IInv, [LauncherNext]_allVars,
                      part' = "forwarder"
               PROVE  Forwarder!IInv'
    OBVIOUS
  <2>1. CASE LauncherNext
    BY <2>1, ForwarderStep DEF LauncherNext
  <2>2. CASE UNCHANGED allVars
    <3>1. part = "forwarder" /\ UNCHANGED Forwarder!vars
      BY <2>2 DEF allVars, after6, after7, after8, after9, after10, after11, after12,
                  after13, after14, Forwarder!vars
    <3>2. QED  BY <3>1, ForwarderStutter
  <2>3. QED  BY <2>1, <2>2
<1>3. QED  BY <1>1, <1>2, PTL DEF LauncherSpec

(* The invariant of Loader holds while it is the part exercised. *)
LEMMA LoaderAlways == LauncherSpec => [](part = "loader" => Loader!IInv)
<1>1. LauncherInit => (part = "loader" => Loader!IInv)
  BY LoaderInit DEF LauncherInit
<1>2. /\ part = "loader" => Loader!IInv
      /\ [LauncherNext]_allVars
      => (part = "loader" => Loader!IInv)'
  <2> SUFFICES ASSUME part = "loader" => Loader!IInv, [LauncherNext]_allVars,
                      part' = "loader"
               PROVE  Loader!IInv'
    OBVIOUS
  <2>1. CASE LauncherNext
    BY <2>1, LoaderStep DEF LauncherNext
  <2>2. CASE UNCHANGED allVars
    <3>1. part = "loader" /\ UNCHANGED Loader!vars
      BY <2>2 DEF allVars, after6, after7, after8, after9, after10, after11, after12,
                  after13, after14, Loader!vars
    <3>2. QED  BY <3>1, LoaderStutter
  <2>3. QED  BY <2>1, <2>2
<1>3. QED  BY <1>1, <1>2, PTL DEF LauncherSpec

(* The invariant of Mounts holds while it is the part exercised. *)
LEMMA MountsAlways == LauncherSpec => [](part = "mounts" => Mounts!IInv)
<1>1. LauncherInit => (part = "mounts" => Mounts!IInv)
  BY MountsInit DEF LauncherInit
<1>2. /\ part = "mounts" => Mounts!IInv
      /\ [LauncherNext]_allVars
      => (part = "mounts" => Mounts!IInv)'
  <2> SUFFICES ASSUME part = "mounts" => Mounts!IInv, [LauncherNext]_allVars,
                      part' = "mounts"
               PROVE  Mounts!IInv'
    OBVIOUS
  <2>1. CASE LauncherNext
    BY <2>1, MountsStep DEF LauncherNext
  <2>2. CASE UNCHANGED allVars
    <3>1. part = "mounts" /\ UNCHANGED Mounts!vars
      BY <2>2 DEF allVars, after6, after7, after8, after9, after10, after11, after12,
                  after13, after14, Mounts!vars
    <3>2. QED  BY <3>1, MountsStutter
  <2>3. QED  BY <2>1, <2>2
<1>3. QED  BY <1>1, <1>2, PTL DEF LauncherSpec

(* The invariant of File holds while it is the part exercised. *)
LEMMA FileAlways == LauncherSpec => [](part = "file" => File!IInv)
<1>1. LauncherInit => (part = "file" => File!IInv)
  BY FileInit DEF LauncherInit
<1>2. /\ part = "file" => File!IInv
      /\ [LauncherNext]_allVars
      => (part = "file" => File!IInv)'
  <2> SUFFICES ASSUME part = "file" => File!IInv, [LauncherNext]_allVars,
                      part' = "file"
               PROVE  File!IInv'
    OBVIOUS
  <2>1. CASE LauncherNext
    BY <2>1, FileStep DEF LauncherNext
  <2>2. CASE UNCHANGED allVars
    <3>1. part = "file" /\ UNCHANGED File!vars
      BY <2>2 DEF allVars, after6, after7, after8, after9, after10, after11, after12,
                  after13, after14, File!vars
    <3>2. QED  BY <3>1, FileStutter
  <2>3. QED  BY <2>1, <2>2
<1>3. QED  BY <1>1, <1>2, PTL DEF LauncherSpec

(* The invariant of Transport holds while it is the part exercised. *)
LEMMA TransportAlways == LauncherSpec => [](part = "uas" => Transport!IInv)
<1>1. LauncherInit => (part = "uas" => Transport!IInv)
  BY TransportInit DEF LauncherInit
<1>2. /\ part = "uas" => Transport!IInv
      /\ [LauncherNext]_allVars
      => (part = "uas" => Transport!IInv)'
  <2> SUFFICES ASSUME part = "uas" => Transport!IInv, [LauncherNext]_allVars,
                      part' = "uas"
               PROVE  Transport!IInv'
    OBVIOUS
  <2>1. CASE LauncherNext
    BY <2>1, TransportStep DEF LauncherNext
  <2>2. CASE UNCHANGED allVars
    <3>1. part = "uas" /\ UNCHANGED Transport!vars
      BY <2>2 DEF allVars, after6, after7, after8, after9, after10, after11, after12,
                  after13, after14, Transport!vars, Transport!tags
    <3>2. QED  BY <3>1, TransportStutter
  <2>3. QED  BY <2>1, <2>2
<1>3. QED  BY <1>1, <1>2, PTL DEF LauncherSpec

(* The invariant of Disks holds while it is the part exercised. *)
LEMMA DisksAlways == LauncherSpec => [](part = "disks" => Disks!IInv)
<1>1. LauncherInit => (part = "disks" => Disks!IInv)
  BY DisksInit DEF LauncherInit
<1>2. /\ part = "disks" => Disks!IInv
      /\ [LauncherNext]_allVars
      => (part = "disks" => Disks!IInv)'
  <2> SUFFICES ASSUME part = "disks" => Disks!IInv, [LauncherNext]_allVars,
                      part' = "disks"
               PROVE  Disks!IInv'
    OBVIOUS
  <2>1. CASE LauncherNext
    BY <2>1, DisksStep DEF LauncherNext
  <2>2. CASE UNCHANGED allVars
    <3>1. part = "disks" /\ UNCHANGED Disks!vars
      BY <2>2 DEF allVars, after6, after7, after8, after9, after10, after11, after12,
                  after13, after14, Disks!vars, Disks!contexts, Disks!held
    <3>2. QED  BY <3>1, DisksStutter
  <2>3. QED  BY <2>1, <2>2
<1>3. QED  BY <1>1, <1>2, PTL DEF LauncherSpec

(* The invariant of Covered holds while it is the part exercised. *)
LEMMA CoveredAlways == LauncherSpec => [](part = "griddb" => Covered!IInv)
<1>1. LauncherInit => (part = "griddb" => Covered!IInv)
  BY CoveredInit DEF LauncherInit
<1>2. /\ part = "griddb" => Covered!IInv
      /\ [LauncherNext]_allVars
      => (part = "griddb" => Covered!IInv)'
  <2> SUFFICES ASSUME part = "griddb" => Covered!IInv, [LauncherNext]_allVars,
                      part' = "griddb"
               PROVE  Covered!IInv'
    OBVIOUS
  <2>1. CASE LauncherNext
    BY <2>1, CoveredStep DEF LauncherNext
  <2>2. CASE UNCHANGED allVars
    <3>1. part = "griddb" /\ UNCHANGED Covered!vars
      BY <2>2 DEF allVars, after6, after7, after8, after9, after10, after11, after12,
                  after13, after14, Covered!vars, Covered!requests
    <3>2. QED  BY <3>1, CoveredStutter
  <2>3. QED  BY <2>1, <2>2
<1>3. QED  BY <1>1, <1>2, PTL DEF LauncherSpec

(* A disk that is plugged in is listed once nothing is left to do, whatever was *)
(* plugged, pulled, scanned, queued and waited for before.                      *)
THEOREM DiskShowsUp == LauncherSpec => []DiskIsListed
<1>1. (part = "library" => Library!IInv) => DiskIsListed
  BY LibrarySafe DEF DiskIsListed
<1>2. QED  BY <1>1, LibraryAlways, PTL

(* Whenever the power goes, the launcher starts with the settings that were     *)
(* saved, and starts games with its own files.                                  *)
THEOREM RestartFindsWhole == LauncherSpec => []RestartsWhole
<1>1. (part = "boot" => Boot!IInv) => RestartsWhole
  BY BootSafe DEF RestartsWhole
<1>2. QED  BY <1>1, BootAlways, PTL

(* Whenever the grid is shown, however it was come back to, the options are in  *)
(* launcher.ini unless it could not be written; and a game starts with the      *)
(* options its settings were last left with.                                    *)
THEOREM OptionsStay == LauncherSpec => []OptionsAreKept
<1>1. (part = "screens" => Screens!IInv) => OptionsAreKept
  BY ScreensSafe DEF OptionsAreKept
<1>2. QED  BY <1>1, ScreensAlways, PTL

(* A key never passes from one game to another, also when a different game is   *)
(* put at a path the first one had.                                             *)
THEOREM KeyIsOneGames == LauncherSpec => KeyNamesOneGame
<1>1. /\ part = "identity" => Identity!IInv
      /\ [LauncherNext]_allVars
      => [part = "identity" => Identity!KeyNamesOneGame]_allVars
  <2> SUFFICES ASSUME part = "identity" => Identity!IInv, LauncherNext, part = "identity"
               PROVE  Identity!KeyNamesOneGame
    OBVIOUS
  <2>1. QED  BY IdentityStep DEF LauncherNext
<1>2. QED  BY <1>1, IdentityAlways, PTL DEF LauncherSpec, KeyNamesOneGame

(* Whatever fails, is cancelled or cut off, every file of a transfer is at its  *)
(* source or, whole, at its destination, but for one that the failing reading   *)
(* of a directory left out.                                                     *)
THEOREM NothingIsLost == LauncherSpec => []NothingLost
<1>1. (part = "transfer" => Transfer!IInv) => NothingLost
  BY TransferSafe DEF NothingLost
<1>2. QED  BY <1>1, TransferAlways, PTL

(* A file that is to be replaced is there, or set aside, until the new one is   *)
(* in its place.                                                                *)
THEOREM ReplacedKept == LauncherSpec => ReplacedIsKept
<1>1. /\ part = "transfer" => Transfer!IInv
      /\ [LauncherNext]_allVars
      => [part = "transfer" => Transfer!ReplacedIsKept]_allVars
  <2> SUFFICES ASSUME part = "transfer" => Transfer!IInv, LauncherNext, part = "transfer"
               PROVE  Transfer!ReplacedIsKept
    OBVIOUS
  <2>1. QED  BY TransferStep DEF LauncherNext
<1>2. QED  BY <1>1, TransferAlways, PTL DEF LauncherSpec, ReplacedIsKept

(* A share is removed with everything saved on it: no pinned folder, clipboard  *)
(* entry or game folder leads to a share that is no longer configured, but for  *)
(* a game folder that an open folder list held when the share was removed.      *)
THEOREM SavedLeadToShares == LauncherSpec => []SavedHaveShares
<1>1. (part = "shares" => Shares!IInv) => SavedHaveShares
  BY SharesSafe DEF SavedHaveShares
<1>2. QED  BY <1>1, SharesAlways, PTL

(* A game that waits for its cover has a request that will be answered, however *)
(* the queue overflowed, the view moved and covers were replaced; and what was  *)
(* read is the card's cover, but for a download that has not ended and an       *)
(* import that was cancelled too late.                                          *)
THEOREM CoversCome == LauncherSpec => []CoversAreServed
<1>1. (part = "covers" => Covers!IInv) => CoversAreServed
  BY CoversSafe DEF CoversAreServed
<1>2. QED  BY <1>1, CoversAlways, PTL

(* A whole launcher stays on the card, in its place or as its backup, wherever  *)
(* an update fails, is cancelled or is cut off.                                 *)
THEOREM LauncherIsThere == LauncherSpec => []LauncherSurvives
<1>1. (part = "update" => Update!IInv) => LauncherSurvives
  BY UpdateSafe DEF LauncherSurvives
<1>2. QED  BY <1>1, UpdateAlways, PTL

(* A title that HOME shows has its metadata, and the contents it refers to are  *)
(* registered, whatever failed and wherever an installation ended, but for an   *)
(* old shortcut that neither could be removed nor have its metadata put back.   *)
THEOREM RegisteredIsWhole == LauncherSpec => []ShortcutIsWhole
<1>1. (part = "forwarder" => Forwarder!IInv) => ShortcutIsWhole
  BY ForwarderSafe DEF ShortcutIsWhole
<1>2. QED  BY <1>1, ForwarderAlways, PTL

(* The loader starts a shortcut's game only after it was selected: a user who   *)
(* left the game is not put into it again.                                      *)
THEOREM StartsItsGame == LauncherSpec => []ChosenGameOnly
<1>1. (part = "loader" => Loader!IInv) => ChosenGameOnly
  BY LoaderSafe DEF ChosenGameOnly
<1>2. QED  BY <1>1, LoaderAlways, PTL

(* A mount's connection is there for as long as a thread uses it, whatever the  *)
(* threads that mount, reconnect, unmount and read do meanwhile; only a file or *)
(* directory is opened without one, of a mount that is not connected.           *)
THEOREM ContextOutlives == LauncherSpec => []ContextOutlivesUse
<1>1. (part = "mounts" => Mounts!IInv) => ContextOutlivesUse
  BY MountsSafe DEF ContextOutlivesUse
<1>2. QED  BY <1>1, MountsAlways, PTL

(* While the connection stands, the server's handle is where the next request   *)
(* belongs and the buffer holds the file's own bytes, whatever was read, sought, *)
(* written or cut off before, but for a buffer that a direct read went past.    *)
THEOREM ReadsItsBytes == LauncherSpec => []FileReadsItsBytes
<1>1. (part = "file" => File!IInv) => FileReadsItsBytes
  BY FileSafe DEF FileReadsItsBytes
<1>2. QED  BY <1>1, FileAlways, PTL

(* A command that does not fail has been answered by the device for this        *)
(* command, however late the units of an earlier one come; and no buffer is     *)
(* written while it is posted.                                                  *)
THEOREM AnswersItsCommand == LauncherSpec => []AnswerIsOwn
<1>1. (part = "uas" => Transport!IInv) => AnswerIsOwn
  BY TransportSafe DEF AnswerIsOwn
<1>2. QED  BY <1>1, TransportAlways, PTL

(* A disk's transport is there for as long as a thread waits for it or uses it, *)
(* and no endpoint of bulk transfers is used as one of UAS.                     *)
THEOREM TransportOutlives == LauncherSpec => []TransportOutlivesUse
<1>1. (part = "disks" => Disks!IInv) => TransportOutlivesUse
  BY DisksSafe DEF TransportOutlivesUse
<1>2. QED  BY <1>1, DisksAlways, PTL

(* The cover is always a whole picture, and the one there was is on the card    *)
(* until the downloaded one is, whatever fails and wherever the power goes: the *)
(* half of FetchedWhole that is about the files.                                *)
THEOREM CoverNeverTorn == LauncherSpec => [](part = "griddb" => Covered!CoverIsWhole)
<1>1. (part = "griddb" => Covered!IInv) => (part = "griddb" => Covered!CoverIsWhole)
  BY CoveredSafe
<1>2. QED  BY <1>1, CoveredAlways, PTL
================================================================================
