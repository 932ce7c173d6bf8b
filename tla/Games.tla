------------------------------- MODULE Games -------------------------------
(***************************************************************************)
(* The descriptions of games: the tables of the main process, changed by   *)
(* the import of metadata (DefaultGameInfoImporter.mts) and by the user    *)
(* (DefaultGameDataService.mts), and the copy in the store of the renderer *)
(* (dux/games.mts), which is loaded on demand by the pages (GamesPage.tsx, *)
(* GamePage.tsx) and kept up to date by gameCrawled.  The index shows one  *)
(* page of the games its query selects.                                    *)
(*                                                                         *)
(* Results and actions come over one port, in order.  A step of the main   *)
(* process is a transaction with what it posts: the next transaction has   *)
(* to wait for the connection.  A step of the renderer is what one message *)
(* or one effect does.                                                     *)
(***************************************************************************)
EXTENDS Integers, Sequences, FiniteSetsExt

CONSTANTS
  Game,      \* the games that exist or may be created, and one never found
  PageSize,  \* games on a page of the index
  MaxPages,  \* bound: pages that are asked for
  MaxCalls,  \* bound: calls under way when the user goes on
  MaxTime,   \* bound: the clock
  MaxEdits,  \* bound: changes of the notes of one game
  MaxFaults, \* bound: failing calls
  MaxQueue   \* bound: what is under way when an import or an edit posts

ASSUME BoundAssumption ==
  /\ MaxTime \in Nat \ {0} /\ MaxEdits \in Nat \ {0}
  /\ MaxFaults \in Nat /\ MaxQueue \in Nat \ {0}
  /\ PageSize \in Nat \ {0} /\ MaxPages \in Nat \ {0} /\ MaxCalls \in Nat \ {0}

None   == 0                  \* no metadata, no notes
Time   == 1 .. MaxTime
Stamps == Time \cup {None}
Notes  == 0 .. MaxEdits      \* the notes of a game, by revision

(* What the loader finds in a folder: the timestamp of the metadata, and   *)
(* whether there is a changelog of the version.                            *)
Folder == [stamp : Time, changelog : BOOLEAN]

Row    == [notes : Notes, meta : Stamps]

(* A page of the index, of all games or of those with a custom name: the   *)
(* name in the query is a prefix of each of these.                         *)
Query  == [no : 1 .. MaxPages, named : BOOLEAN]

Entity == [type : {"none", "loading", "error"}] \cup [type : {"loaded"}, row : Row]

VARIABLES
  known,     \* game
  meta,      \* game_metadata: metadata_timestamp, or None without a row
  notes,     \* game_user_notes
  version,   \* the note of the one version of each game in game_version
  imported,  \* the timestamps of the metadata imported so far
  ignored,   \* the games for which an import left the metadata as it was
  now,
  requests,  \* retrieveGamesById, findGames under way to the main process
  messages,  \* results and actions under way to the renderer
  entity,    \* state.games.entities
  page,      \* the games whose page is open, at most one
  query,     \* the query of the index, if it is open
  result,    \* what the index shows, and the query that was answered
  faults

database == <<known, meta, notes, version, imported, ignored, now>>
index    == <<query, result>>
renderer == <<entity, page, index>>
vars == <<known, meta, notes, version, imported, ignored, now, requests,
          messages, entity, page, query, result, faults>>

VersionNotes == {"none", "empty", "note"}

NoResult == [query |-> {}, selected |-> {}, total |-> 0]

RowOf(g) == [notes |-> notes[g], meta |-> meta[g]]

Init ==
  /\ known = {}
  /\ meta = [g \in Game |-> None]
  /\ notes = [g \in Game |-> 0]
  /\ version = [g \in Game |-> "none"]
  /\ imported = [g \in Game |-> {}]
  /\ ignored = {}
  /\ now = 1
  /\ requests = <<>> /\ messages = <<>>
  /\ entity = [g \in Game |-> [type |-> "none"]]
  /\ page = {}
  /\ query = {} /\ result = NoResult
  /\ faults = 0

Post(m) == messages' = Append(messages, m)

PortNotFull == Len(messages) < MaxQueue

Crawled(g, row) == [kind |-> "crawled", game |-> g, row |-> row]

-----------------------------------------------------------------------------
(* The main process.                                                       *)

Tick ==
  /\ now < MaxTime
  /\ now' = now + 1
  /\ UNCHANGED <<known, meta, notes, version, imported, ignored, requests,
                 messages, renderer, faults>>

(* sanitizeMetadataTimestamp: no timestamp is in the future. *)
Sanitized(t) == IF t > now THEN now ELSE t

(* Mutant: metadata is always replaced. *)
ReplacesAlways(t, g) == TRUE

(* The condition of the upsert of game_metadata. *)
Replaces(t, g) == meta[g] = None \/ t < meta[g]

(* Mutant: gameCrawled is sent with what was there before. *)
ImportGameInfoStale(g, folder) ==
  LET t == Sanitized(folder.stamp) IN
  /\ PortNotFull
  /\ known' = known \cup {g}
  /\ meta' = IF Replaces(t, g) THEN [meta EXCEPT ![g] = t] ELSE meta
  /\ ignored' = IF Replaces(t, g) THEN ignored ELSE ignored \cup {g}
  /\ imported' = [imported EXCEPT ![g] = @ \cup {t}]
  /\ Post(Crawled(g, RowOf(g)))
  /\ UNCHANGED <<notes, version, now, requests, renderer, faults>>

(* importGameInfoFromFolder: gameCrawled carries the metadata the upsert   *)
(* returned, null if it changed nothing.                                   *)
ImportGameInfo(g, folder) ==
  LET t == Sanitized(folder.stamp)
      returned == IF Replaces(t, g) THEN t ELSE None IN
  /\ PortNotFull
  /\ known' = known \cup {g}
  /\ meta' = IF Replaces(t, g) THEN [meta EXCEPT ![g] = t] ELSE meta
  /\ ignored' = IF Replaces(t, g) THEN ignored ELSE ignored \cup {g}
  /\ imported' = [imported EXCEPT ![g] = @ \cup {t}]
  /\ version' = IF folder.changelog /\ version[g] \in {"none", "empty"}
                THEN [version EXCEPT ![g] = "note"] ELSE version
  /\ Post(Crawled(g, [notes |-> notes[g], meta |-> returned]))
  /\ UNCHANGED <<notes, now, requests, renderer, faults>>

(* createCustomGame, which tells nobody. *)
CreateCustomGame(g) ==
  /\ g \notin known
  /\ known' = known \cup {g}
  /\ notes' = [notes EXCEPT ![g] = 1]
  /\ UNCHANGED <<meta, version, imported, ignored, now, requests, messages,
                 renderer, faults>>

(* createArtifactPlaceholder adds the version. *)
AddVersion(g) ==
  /\ g \in known
  /\ version[g] = "none"
  /\ version' = [version EXCEPT ![g] = "empty"]
  /\ UNCHANGED <<known, meta, notes, imported, ignored, now, requests,
                 messages, renderer, faults>>

(* The page shows the form with which a game is edited once it is loaded. *)
CanEdit(g) == g \in page /\ entity[g].type = "loaded"

(* updateGameDescription. *)
UpdateGameDescription(g) ==
  /\ PortNotFull
  /\ CanEdit(g)
  /\ notes[g] < MaxEdits
  /\ notes' = [notes EXCEPT ![g] = @ + 1]
  /\ Post(Crawled(g, [notes |-> notes[g] + 1, meta |-> meta[g]]))
  /\ UNCHANGED <<known, meta, version, imported, ignored, now, requests,
                 renderer, faults>>

(* getGames: the rows of the games that exist. *)
GetGames ==
  LET ids == Head(requests).ids
      found == ids \cap known IN
  /\ requests # <<>> /\ Head(requests).kind = "load"
  /\ requests' = Tail(requests)
  /\ Post([kind |-> "games", ids |-> ids, rows |-> [g \in found |-> RowOf(g)]])
  /\ UNCHANGED <<database, renderer, faults>>

Matching(q) == {g \in known : q.named => notes[g] # None}

(* How many of n games are on page q.no. *)
OnPage(q, n) == Max({0, Min({PageSize, n - (q.no - 1) * PageSize})})

(* findGames: one page of what matches, in an order that is data here.     *)
(* The total comes with the rows, it is 0 if there are none.               *)
FindGames ==
  LET q == Head(requests).query
      n == Cardinality(Matching(q)) IN
  /\ requests # <<>> /\ Head(requests).kind = "find"
  /\ requests' = Tail(requests)
  /\ \E selected \in kSubset(OnPage(q, n), Matching(q)) :
       Post([kind |-> "found", query |-> q, live |-> Head(requests).live,
             selected |-> selected, total |-> IF selected = {} THEN 0 ELSE n])
  /\ UNCHANGED <<database, renderer, faults>>

(* A call is rejected. *)
CallFails ==
  /\ requests # <<>>
  /\ faults < MaxFaults
  /\ faults' = faults + 1
  /\ requests' = Tail(requests)
  /\ Post([kind |-> "failed",
           ids |-> IF Head(requests).kind = "load" THEN Head(requests).ids ELSE {}])
  /\ UNCHANGED <<database, renderer>>

-----------------------------------------------------------------------------
(* The renderer.                                                           *)

NeedsLoading(g) == entity[g].type \in {"none", "error"}

(* The bound on the calls under way, which the actions of the user obey. *)
FewCalls ==
  Len(requests) + Len(SelectSeq(messages, LAMBDA m : m.kind # "crawled")) < MaxCalls

LoadRequest(ids) == [kind |-> "load", ids |-> ids]

(* The pending reducer of loadGamesById. *)
Pending(ids) ==
  [g \in Game |-> IF g \in ids /\ entity[g].type # "loaded"
                  THEN [type |-> "loading"] ELSE entity[g]]

(* The effect of the index is cleaned up: what its searches find will not  *)
(* be shown.                                                               *)
Aborted(calls) ==
  [i \in DOMAIN calls |-> IF calls[i].kind \in {"find", "found"}
                          THEN [calls[i] EXCEPT !.live = FALSE] ELSE calls[i]]

(* GamePage is opened for a game, or the page of another one; the index is *)
(* closed.                                                                 *)
OpenGamePage(g) ==
  /\ page' = {g}
  /\ query' = {} /\ result' = NoResult
  /\ requests' = Aborted(requests) /\ messages' = Aborted(messages)
  /\ UNCHANGED <<database, entity, faults>>

(* Its effect, after each change of the game. *)
GamePageEffect ==
  /\ FewCalls
  /\ \E g \in page :
       /\ NeedsLoading(g)
       /\ entity' = Pending({g})
       /\ requests' = Append(requests, LoadRequest({g}))
  /\ UNCHANGED <<database, messages, page, index, faults>>

(* The effect of the index: the search before is aborted, paginateGameIndex *)
(* is dispatched for the query.                                            *)
Paginate(q) ==
  /\ query' = {q}
  /\ requests' = Append(Aborted(requests), [kind |-> "find", query |-> q, live |-> TRUE])
  /\ messages' = Aborted(messages)

(* The index is opened, or the user changes the query. *)
ShowIndex(q) ==
  /\ FewCalls
  /\ q \notin query
  /\ Paginate(q)
  /\ page' = {}
  /\ UNCHANGED <<database, entity, result, faults>>

(* Rendered while nothing is shown, any page but the first is given up: it *)
(* may lie behind the end of the list.                                     *)
ResetPage ==
  /\ FewCalls
  /\ \E q \in query :
       /\ result.total = 0 /\ q.no > 1
       /\ Paginate([q EXCEPT !.no = 1])
  /\ UNCHANGED <<database, entity, page, result, faults>>

Loaded(row) == [type |-> "loaded", row |-> row]

(* Mutant: what was not found keeps its state. *)
FulfilledOnly(ids, rows) ==
  [g \in Game |-> IF g \in DOMAIN rows THEN Loaded(rows[g]) ELSE entity[g]]

(* The fulfilled reducer. *)
Fulfilled(ids, rows) ==
  [g \in Game |->
     IF g \in DOMAIN rows THEN Loaded(rows[g])
     ELSE IF g \in ids /\ entity[g].type # "loaded" THEN [type |-> "error"]
     ELSE entity[g]]

(* The reducer of gameCrawled. *)
CrawledEntity(g, row) == [entity EXCEPT ![g] = Loaded(row)]

(* The rejected reducer: games that are loaded meanwhile, too. *)
Rejected(ids) ==
  [g \in Game |-> IF g \in ids THEN [type |-> "error"] ELSE entity[g]]

(* The result or the action at the head of the port. *)
Receiving(kind) ==
  /\ messages # <<>> /\ Head(messages).kind = kind
  /\ messages' = Tail(messages)
  /\ UNCHANGED <<database, page, query, faults>>

ReceiveGames ==
  /\ Receiving("games")
  /\ entity' = Fulfilled(Head(messages).ids, Head(messages).rows)
  /\ UNCHANGED <<requests, result>>

(* The index shows what it showed before. *)
ReceiveFailure ==
  /\ Receiving("failed")
  /\ entity' = Rejected(Head(messages).ids)
  /\ UNCHANGED <<requests, result>>

ReceiveCrawled ==
  /\ Receiving("crawled")
  /\ entity' = CrawledEntity(Head(messages).game, Head(messages).row)
  /\ UNCHANGED <<requests, result>>

(* Mutant: an aborted search is shown, too. *)
ShownAnyhow(m) == TRUE

(* The effect of the search has not been cleaned up. *)
Shown(m) == m.live

(* paginateGameIndex goes on, aborted or not: what is missing is loaded.   *)
ReceiveFound ==
  LET m == Head(messages)
      needed == {g \in m.selected : NeedsLoading(g)} IN
  /\ Receiving("found")
  /\ entity' = Pending(needed)
  /\ requests' = IF needed = {} THEN requests ELSE Append(requests, LoadRequest(needed))
  /\ result' = IF Shown(m)
               THEN [query |-> {m.query}, selected |-> m.selected, total |-> m.total]
               ELSE result

Answer  == GetGames \/ FindGames \/ CallFails
Receive == ReceiveGames \/ ReceiveFailure \/ ReceiveCrawled \/ ReceiveFound

Next ==
  \/ Tick
  \/ \E g \in Game, folder \in Folder : ImportGameInfo(g, folder)
  \/ \E g \in Game : CreateCustomGame(g) \/ AddVersion(g)
  \/ \E g \in Game : UpdateGameDescription(g) \/ OpenGamePage(g)
  \/ GamePageEffect
  \/ \E q \in Query : ShowIndex(q)
  \/ ResetPage
  \/ Answer
  \/ Receive

Spec == Init /\ [][Next]_vars

(* Calls are answered, messages delivered. *)
Fairness == WF_vars(Answer) /\ WF_vars(Receive)

FairSpec == Spec /\ Fairness
-----------------------------------------------------------------------------
Request ==
  [kind : {"load"}, ids : SUBSET Game] \cup [kind : {"find"}, query : Query, live : BOOLEAN]

Message ==
  [kind : {"crawled"}, game : Game, row : Row]
    \cup [kind : {"games"}, ids : SUBSET Game, rows : UNION {[S -> Row] : S \in SUBSET Game}]
    \cup [kind : {"found"}, query : Query, live : BOOLEAN, selected : SUBSET Game, total : Nat]
    \cup [kind : {"failed"}, ids : SUBSET Game]

(* The values the variables take.  No metadata is from the future. *)
TypeOK ==
  /\ known \in SUBSET Game /\ IsFiniteSet(known)
  /\ meta \in [Game -> 0 .. now]
  /\ notes \in [Game -> Notes]
  /\ version \in [Game -> VersionNotes]
  /\ imported \in [Game -> SUBSET Time]
  /\ ignored \in SUBSET Game
  /\ now \in Time
  /\ requests \in Seq(Request)
  /\ messages \in Seq(Message)
  /\ entity \in [Game -> Entity]
  /\ page \in SUBSET Game
  /\ query \in SUBSET Query
  /\ result \in [query : SUBSET Query, selected : SUBSET Game, total : Nat]
  /\ faults \in 0 .. MaxFaults

(* What is kept of a game does not depend on the order in which metadata   *)
(* is imported: it is the metadata with the oldest timestamp.              *)
OldestKept ==
  \A g \in Game :
    /\ imported[g] # {} => meta[g] \in imported[g] /\ \A t \in imported[g] : meta[g] <= t
    /\ imported[g] = {} => meta[g] = None

(* The message has a row of the game. *)
Carries(m, g) ==
  \/ m.kind = "crawled" /\ m.game = g
  \/ m.kind = "games" /\ g \in DOMAIN m.rows

RowIn(m, g) == IF m.kind = "crawled" THEN m.row ELSE m.rows[g]

(* What the renderer may show of a game: the metadata may be missing after *)
(* an import that left it as it was.                                       *)
IsCurrent(row, g) ==
  /\ row.notes = notes[g]
  /\ \/ row.meta = meta[g]
     \/ row.meta = None /\ g \in ignored

(* What the renderer has last or will get last of a game is current, and   *)
(* it knows no game that does not exist.                                   *)
LastIsCurrent ==
  \A g \in Game :
    /\ \A i \in DOMAIN messages :
         Carries(messages[i], g) =>
           /\ g \in known
           /\ \/ IsCurrent(RowIn(messages[i], g), g)
              \/ \E k \in DOMAIN messages : k > i /\ Carries(messages[k], g)
    /\ entity[g].type = "loaded" =>
         /\ g \in known
         /\ \/ IsCurrent(entity[g].row, g)
            \/ \E k \in DOMAIN messages : Carries(messages[k], g)

(* A search whose result will be shown is the one of the query. *)
LiveIsAsked ==
  \A calls \in {requests, messages} : \A i \in DOMAIN calls :
    calls[i].kind \in {"find", "found"} /\ calls[i].live => query = {calls[i].query}

(* The values the variables take, the metadata that is kept, what of it is *)
(* on its way to the renderer, and the search.  It is inductive.           *)
GamesInv == TypeOK /\ OldestKept /\ LastIsCurrent /\ LiveIsAsked

(* When nothing is under way, a loaded game shows what is in the database, *)
(* however loads, imports and edits were interleaved.  The exception: the  *)
(* metadata may be missing after an import that left it as it was.         *)
LoadedIsCurrent ==
  messages = <<>> =>
    \A g \in Game : entity[g].type = "loaded" => IsCurrent(entity[g].row, g)

(* A load ends, and no game stays in the state of being loaded. *)
LoadsEnd ==
  \A g \in Game : entity[g].type = "loading" ~> entity[g].type # "loading"

(* What the index shows changes to what its query asks for, not to what an *)
(* earlier query asked for and is answered after it was given up.          *)
ShownIsAsked == [][result' # result => result'.query \subseteq query']_vars
=============================================================================
