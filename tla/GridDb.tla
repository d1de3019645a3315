---------------------------------- MODULE GridDb ----------------------------------
(***************************************************************************)
(* The launcher's downloads from SteamGridDB (src/launcher/source/         *)
(* griddb.cpp): a search for the game's title, a request for the artworks  *)
(* of a game that was found, and the download of a picture over the game's *)
(* cover, or of several icons for a shortcut.  A response is a text of     *)
(* tokens, read by the code's own small JSON reader; every request and     *)
(* every file call may fail, the batch may be cancelled, and the power may *)
(* go between two file calls.                                              *)
(***************************************************************************)
EXTENDS Naturals, Sequences, SequencesExt

CONSTANTS
  Names,      \* the texts (sequences of characters) the server may send
  Urls,       \* the addresses among them
  Limit,      \* results that are kept: 32 games, 100 artworks
  MaxObjects, \* bound: objects in a response
  MaxIcons    \* maxCount of griddb_fetch_icons

Absent == <<"absent">>
None == "none"

\* A picture's file: none, one that is written, and the whole picture of an
\* address
NoCover == <<>>
Torn == <<"torn">>
Whole(url) == <<"whole", url>>

VARIABLES
  call,     \* what is executed: its step, who asked for it, and `existed`
  cancel,   \* g_requestCancel
  offered,  \* the objects of the last response, as the server meant them
  found,    \* what the code read of it
  wanted,   \* the address that is downloaded
  card,     \* the cover's file, its .tmp and its .old
  had,      \* history: the cover before the download in progress
  icons     \* the pictures saved for the icon picker

requests == <<cancel, offered, found, wanted, icons>>
vars == <<call, requests, card, had>>

Idle == [step |-> "idle", who |-> None, existed |-> FALSE]

Init ==
  /\ call = Idle /\ cancel = FALSE /\ offered = <<>> /\ found = <<>> /\ wanted = <<>>
  /\ card \in [path : {NoCover} \cup {Whole(url) : url \in Urls}, tmp : {NoCover}, old : {NoCover}]
  /\ had = card.path /\ icons = <<>>

At(step) == call.step = step
Goes(step) == call' = [call EXCEPT !.step = step]

--------------------------------------------------------------------------------
(* What the server sends.  Characters are plain but for the quote "q", the       *)
(* backslash "b", the slash and one outside the basic plane, "wide".             *)

Encoded(c, slash) ==
  CASE c \in {"q", "b"} -> <<"b", c>>
    [] c = "/" /\ slash -> <<"b", "/">>
    [] c = "wide" -> <<"b", "hi", "b", "lo">>
    [] OTHER -> <<c>>

Quoted(s, slash) ==
  <<"q">> \o FoldLeft(LAMBDA t, c : t \o Encoded(c, slash), <<>>, s) \o <<"q">>

Field(name, value) == <<"q", name, "q", ":">> \o value

Joined(parts) ==
  FoldLeft(LAMBDA t, part : IF t = <<>> THEN part ELSE t \o <<",">> \o part, <<>>, parts)

\* An object with the fields it has, of a game or of an artwork.
Printed(object, names, slash) ==
  LET has == SelectSeq(names, LAMBDA f : object[f] # Absent)
      value(f) == IF f = "id" THEN object[f] ELSE Quoted(object[f], slash)
  IN  <<"{">> \o Joined([i \in DOMAIN has |-> Field(has[i], value(has[i]))]) \o <<"}">>

Response(objects, names, slash) ==
  <<"{">> \o Field("data", <<"[">> \o Joined([i \in DOMAIN objects |->
     Printed(objects[i], names, slash)]) \o <<"]">>) \o <<"}">>

Game == [id : {<<"0">>, <<"1">>, <<"2">>}, name : {Absent} \cup Names]
Artwork == [url : {Absent, <<>>} \cup Urls, thumb : {Absent} \cup Urls]

GameFields == {<<"id", "name">>, <<"name", "id">>}
ArtworkFields == {<<"url", "thumb">>, <<"thumb", "url">>}

--------------------------------------------------------------------------------
(* What the code reads of it                                                     *)

\* find: where a part of a text begins, or 0
Find(t, part, from) ==
  LET at == {i \in from .. Len(t) - Len(part) + 1 :
               \A k \in DOMAIN part : t[i + k - 1] = part[k]}
  IN  IF at = {} THEN 0 ELSE CHOOSE i \in at : \A j \in at : i <= j

\* A plausible slip: a quote always ends a string.
ClosesAlways(s, c) == c = "q"

Closes(s, c) == c = "q" /\ ~s.escaped

\* One character of json_data_objects' scan
Scan(s, c) ==
  LET in == s.depth > 0
      taken == IF in THEN Append(s.object, c) ELSE s.object
  IN  CASE s.done -> s
        [] ~s.done /\ s.quoted ->
             [s EXCEPT !.object = taken, !.escaped = ~s.escaped /\ c = "b",
                       !.quoted = ~Closes(s, c)]
        [] ~s.done /\ ~s.quoted /\ c = "q" -> [s EXCEPT !.object = taken, !.quoted = TRUE]
        [] ~s.done /\ ~s.quoted /\ c = "{" ->
             [s EXCEPT !.depth = @ + 1, !.object = IF in THEN taken ELSE <<c>>]
        [] ~s.done /\ ~s.quoted /\ c = "}" /\ in ->
             [s EXCEPT !.depth = @ - 1, !.object = IF s.depth = 1 THEN <<>> ELSE taken,
                       !.objects = IF s.depth = 1 THEN Append(@, taken) ELSE @]
        [] ~s.done /\ ~s.quoted /\ c = "]" /\ ~in -> [s EXCEPT !.done = TRUE]
        [] OTHER -> [s EXCEPT !.object = taken]

json_data_objects(t) ==
  LET data == Find(t, <<"q", "data", "q">>, 1)
      array == Find(t, <<"[">>, data + 3)
      start == [quoted |-> FALSE, escaped |-> FALSE, depth |-> 0, object |-> <<>>,
                objects |-> <<>>, done |-> FALSE]
  IN  IF data = 0 \/ array = 0 THEN <<>>
      ELSE FoldLeft(Scan, start, SubSeq(t, array + 1, Len(t))).objects

\* Where a field's value is, or 0
json_field_value(t, field) ==
  LET key == Find(t, <<"q", field, "q">>, 1)
      colon == Find(t, <<":">>, key + 3)
  IN  IF key = 0 \/ colon = 0 THEN 0 ELSE colon + 1

\* The string at a place: the set of the one there is, or of none
parse_json_string(t, at) ==
  LET read[i \in 1 .. Len(t) + 4] ==
        IF i > Len(t) THEN {}
        ELSE CASE t[i] = "q" -> {<<>>}
               [] t[i] = "b" /\ i < Len(t) /\ t[i + 1] \in {"q", "b", "/"} ->
                    {<<t[i + 1]>> \o s : s \in read[i + 2]}
               [] t[i] = "b" /\ i < Len(t) /\ t[i + 1] = "hi" ->
                    IF i + 3 <= Len(t) /\ t[i + 2] = "b" /\ t[i + 3] = "lo"
                    THEN {<<"wide">> \o s : s \in read[i + 4]}
                    ELSE {<<"hi">> \o s : s \in read[i + 2]}
               [] t[i] = "b" /\ (i = Len(t) \/ t[i + 1] \notin {"q", "b", "/", "hi"}) -> {}
               [] OTHER -> {<<t[i]>> \o s : s \in read[i + 1]}
  IN  IF at = 0 \/ at > Len(t) THEN {} ELSE IF t[at] # "q" THEN {} ELSE read[at + 1]

json_object_string(t, field) == parse_json_string(t, json_field_value(t, field))

json_object_number(t, field) ==
  LET at == json_field_value(t, field)
  IN  IF at = 0 \/ at > Len(t) THEN {} ELSE {t[at]} \cap {"0", "1", "2"}

\* The first results, one of each key
Distinct(results, key(_)) ==
  LET new == FoldLeft(LAMBDA s, r : IF \E i \in DOMAIN s : key(s[i]) = key(r) THEN s
                                    ELSE Append(s, r), <<>>, results)
  IN  SubSeq(new, 1, IF Len(new) < Limit THEN Len(new) ELSE Limit)

GamesRead(t) ==
  LET read(o) == {[id |-> <<n>>, name |-> s] :
                    n \in json_object_number(o, "id") \ {"0"},
                    s \in json_object_string(o, "name") \ {<<>>}}
      one(s, o) == s \o SetToSeq(read(o))
  IN  Distinct(FoldLeft(one, <<>>, json_data_objects(t)), LAMBDA g : g.id)

ArtworksRead(t) ==
  LET read(o) == {[url |-> u, thumb |->
                     IF json_object_string(o, "thumb") \subseteq {<<>>} THEN u
                     ELSE CHOOSE s \in json_object_string(o, "thumb") : TRUE] :
                    u \in json_object_string(o, "url") \ {<<>>}}
      one(s, o) == s \o SetToSeq(read(o))
  IN  Distinct(FoldLeft(one, <<>>, json_data_objects(t)), LAMBDA a : a.url)

\* collect: the addresses after the tag, without their backslashes
Collected(t) ==
  LET tag == <<"q", "url", "q", ":", "q">>
      from == {i \in 1 .. Len(t) : Find(t, tag, i) = i}
      end(i) == Find(t, <<"q">>, i + 5)
      url(i) == SelectSeq(SubSeq(t, i + 5, end(i) - 1), LAMBDA c : c # "b")
      places == SetToSortSeq({i \in from : end(i) # 0}, LAMBDA i, j : i < j)
  IN  SubSeq([k \in DOMAIN places |-> url(places[k])], 1,
             IF Len(places) < MaxIcons * 3 THEN Len(places) ELSE MaxIcons * 3)

--------------------------------------------------------------------------------
(* Requests                                                                      *)

Responses(objects) == UNION {[1 .. n -> objects] : n \in 0 .. MaxObjects}

Ends == call' = Idle /\ cancel' = FALSE /\ offered' = <<>> /\ found' = <<>> /\ wanted' = <<>>

\* griddb_fetch_cover of the batch, downloadCover of a game's menu, pickIcon
Ask(who) ==
  /\ At("idle") /\ call' = [step |-> "search", who |-> who, existed |-> FALSE]
  /\ cancel' = FALSE /\ UNCHANGED <<offered, found, wanted, card, had, icons>>

Cancel ==
  /\ ~At("idle") /\ call.who = "batch" /\ ~cancel /\ cancel' = TRUE
  /\ UNCHANGED <<call, offered, found, wanted, card, had, icons>>

\* No network or key, no answer, an error status or a cancelled transfer
Refused ==
  /\ call.step \in {"search", "artworks", "icons", "get"} /\ Ends
  /\ UNCHANGED <<card, had, icons>>

Searched ==
  /\ At("search") /\ ~cancel
  /\ \E objects \in Responses(Game), names \in GameFields, slash \in BOOLEAN :
       /\ offered' = objects
       /\ found' = GamesRead(Response(objects, names, slash))
  /\ Goes("games") /\ UNCHANGED <<cancel, wanted, card, had, icons>>

\* Nothing was found, or the batch was cancelled; or a game is chosen: the
\* first, but in downloadCover, where the user chooses.
GameChosen ==
  /\ At("games")
  /\ \/ (found = <<>> \/ cancel \/ call.who = "menu") /\ Ends
     \/ found # <<>> /\ ~cancel /\ Goes(IF call.who = "icons" THEN "icons" ELSE "artworks")
        /\ offered' = <<>> /\ found' = <<>> /\ UNCHANGED <<cancel, wanted>>
  /\ UNCHANGED <<card, had, icons>>

Listed ==
  /\ At("artworks") /\ ~cancel
  /\ \E objects \in Responses(Artwork), names \in ArtworkFields, slash \in BOOLEAN :
       /\ offered' = objects
       /\ found' = ArtworksRead(Response(objects, names, slash))
  /\ Goes("list") /\ UNCHANGED <<cancel, wanted, card, had, icons>>

ArtworkChosen ==
  /\ At("list")
  /\ \/ (found = <<>> \/ cancel \/ call.who = "menu") /\ Ends
     \/ /\ found # <<>> /\ ~cancel
        /\ \E i \in IF call.who = "menu" THEN DOMAIN found ELSE {1} : wanted' = found[i].url
        /\ Goes("get") /\ offered' = <<>> /\ found' = <<>> /\ UNCHANGED cancel
  /\ UNCHANGED <<card, had, icons>>

\* griddb_fetch_icons' two requests, read with one scan each, and their
\* downloads, each of which may fail
IconsListed ==
  /\ At("icons")
  /\ \E objects \in Responses(Artwork), slash \in BOOLEAN :
       LET urls == Collected(Response(objects, <<"url", "thumb">>, slash))
       IN  /\ offered' = objects
           /\ \E failed \in SUBSET DOMAIN urls :
                LET saved == SetToSortSeq(DOMAIN urls \ failed, LAMBDA i, j : i < j)
                IN  icons' = [k \in 1 .. (IF Len(saved) < MaxIcons THEN Len(saved) ELSE MaxIcons)
                                |-> urls[saved[k]]]
  /\ Goes("picked") /\ UNCHANGED <<cancel, found, wanted, card, had>>

IconsShown == At("picked") /\ Ends /\ icons' = <<>> /\ UNCHANGED <<card, had>>

--------------------------------------------------------------------------------
(* http_download                                                                 *)

Fails == Ends /\ UNCHANGED <<had, icons>>
Then(step) == Goes(step) /\ UNCHANGED <<requests, had>>

Received == At("get") /\ ~cancel /\ Then("stat") /\ UNCHANGED card

\* The file may be removed or left where its removal fails.
Without(c) == {c, [c EXCEPT !.tmp = NoCover]}

Restore ==
  /\ At("stat")
  /\ \/ Fails /\ UNCHANGED card
     \/ /\ card' = IF card.path = NoCover THEN [card EXCEPT !.path = card.old, !.old = NoCover]
                   ELSE [card EXCEPT !.old = NoCover]
        /\ call' = [call EXCEPT !.step = "open", !.existed = card'.path # NoCover]
        /\ had' = card'.path /\ UNCHANGED requests

Open ==
  /\ At("open")
  /\ \/ Fails /\ card' \in Without(card)
     \/ Then("write") /\ card' = [card EXCEPT !.tmp = Torn]

Write ==
  /\ At("write")
  /\ \/ Fails /\ card' \in Without(card)
     \/ Then("aside") /\ card' = [card EXCEPT !.tmp = Whole(wanted)]

\* A plausible slip: the old cover is removed before the new one is in place.
AsideRemoved ==
  /\ At("aside")
  /\ \/ call.existed /\ Fails /\ card' \in Without(card)
     \/ Then("install")
        /\ card' = IF call.existed THEN [card EXCEPT !.path = NoCover] ELSE card

Aside ==
  /\ At("aside")
  /\ \/ call.existed /\ Fails /\ card' \in Without(card)
     \/ Then("install")
        /\ card' = IF call.existed THEN [card EXCEPT !.old = card.path, !.path = NoCover] ELSE card

Install ==
  /\ At("install")
  /\ \/ Then("drop") /\ card' = [card EXCEPT !.path = card.tmp, !.tmp = NoCover]
     \/ Fails /\ \/ card' \in Without(card)
                 \/ call.existed
                    /\ card' \in Without([card EXCEPT !.path = card.old, !.old = NoCover])

Drop ==
  /\ At("drop") /\ Ends
  /\ card' \in {card} \cup (IF call.existed THEN {[card EXCEPT !.old = NoCover]} ELSE {})
  /\ had' = card.path /\ UNCHANGED icons

\* removeCustom of the game's cover settings
RemoveCustom ==
  /\ At("idle") /\ card.path # NoCover
  /\ card' = [card EXCEPT !.path = NoCover] /\ had' = NoCover
  /\ UNCHANGED <<call, requests>>

PowerCut ==
  /\ call.step \in {"stat", "open", "write", "aside", "install", "drop"}
  /\ Ends /\ UNCHANGED <<card, had, icons>>

Next ==
  \/ \E who \in {"batch", "menu", "icons"} : Ask(who)
  \/ Cancel \/ Refused \/ Searched \/ GameChosen \/ Listed \/ ArtworkChosen
  \/ IconsListed \/ IconsShown
  \/ Received \/ Restore \/ Open \/ Write \/ Aside \/ Install \/ Drop
  \/ RemoveCustom \/ PowerCut

Spec == Init /\ [][Next]_vars

--------------------------------------------------------------------------------
(* What the server offered: the first results of each key that have one.         *)
Offered(objects, wants(_), key(_)) ==
  LET good == SelectSeq(objects, wants)
      first == {i \in DOMAIN good : \A j \in 1 .. i - 1 : key(good[j]) # key(good[i])}
      order == SetToSortSeq(first, LAMBDA i, j : i < j)
  IN  [k \in 1 .. (IF Len(order) < Limit THEN Len(order) ELSE Limit) |-> good[order[k]]]

(* Games and artworks are read as the server meant them, whatever quotes,        *)
(* brackets and escapes their names hold, and the icons are of addresses it      *)
(* sent: the cover that is fetched is the one of the game that was found         *)
(* (griddb.cpp:146-249, 281-327, 351-372).                                       *)
ReadAsOffered ==
  /\ At("games") => found =
       Offered(offered, LAMBDA g : g.id # <<"0">> /\ g.name \notin {Absent, <<>>},
               LAMBDA g : g.id)
  /\ At("list") =>
       LET meant == Offered(offered, LAMBDA a : a.url \notin {Absent, <<>>}, LAMBDA a : a.url)
       IN  found = [k \in DOMAIN meant |-> [url |-> meant[k].url, thumb |->
                      IF meant[k].thumb = Absent THEN meant[k].url ELSE meant[k].thumb]]
  /\ At("picked") => \A k \in DOMAIN icons : \E i \in DOMAIN offered : offered[i].url = icons[k]

(* The cover is always a whole picture, and the one there was is on the card,    *)
(* under its name or as .old, until the new one has taken its place, whatever    *)
(* fails and wherever the power goes (griddb.cpp:82-117).                        *)
CoverIsWhole ==
  /\ card.path # Torn /\ card.old # Torn
  /\ had # NoCover => had \in {card.path, card.old}

(* The files are whole but for the .tmp while it is written, and before the old  *)
(* cover is moved aside it has its name.  It is inductive.                       *)
IInv ==
  /\ call = [step |-> call.step, who |-> call.who, existed |-> call.existed]
  /\ call.existed \in BOOLEAN
  /\ card = [path |-> card.path, tmp |-> card.tmp, old |-> card.old]
  /\ card.path # Torn /\ card.old # Torn
  /\ call.step \in {"aside", "install"} => card.tmp # Torn
  /\ had # NoCover => had \in {card.path, card.old}
  /\ call.step \in {"open", "write", "aside"} =>
       had = card.path /\ (call.existed <=> card.path # NoCover)
  /\ At("install") => had \in {NoCover, card.old}

(* What is fetched is what was offered, whole: both of the above.                *)
FetchedWhole == ReadAsOffered /\ CoverIsWhole
================================================================================
