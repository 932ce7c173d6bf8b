---------------------------- MODULE GamesProofs ----------------------------
(***************************************************************************)
(* For any games, clock, number of pages, calls, edits and failures: the   *)
(* oldest metadata is kept, the renderer ends up with what is in the       *)
(* database, and the index shows what its query asks for.                  *)
(***************************************************************************)
EXTENDS Games, FiniteSetTheorems, TLAPS

(* What a message at the end, and the first one taken away, do to a queue. *)
LEMMA Appended ==
  ASSUME NEW S, NEW s \in Seq(S), NEW e \in S
  PROVE  /\ Append(s, e) \in Seq(S) /\ Len(s) \in Nat /\ DOMAIN s = 1 .. Len(s)
         /\ DOMAIN Append(s, e) = 1 .. Len(s) + 1
         /\ \A i \in DOMAIN s : i \in DOMAIN Append(s, e) /\ Append(s, e)[i] = s[i]
         /\ Append(s, e)[Len(s) + 1] = e /\ Len(s) + 1 \in DOMAIN Append(s, e)
         /\ \A i \in DOMAIN Append(s, e) : i \in DOMAIN s \/ i = Len(s) + 1
OBVIOUS

LEMMA Taken ==
  ASSUME NEW S, NEW s \in Seq(S), s # <<>>
  PROVE  /\ Tail(s) \in Seq(S) /\ Head(s) = s[1] /\ Head(s) \in S /\ 1 \in DOMAIN s
         /\ \A i \in DOMAIN Tail(s) : i + 1 \in DOMAIN s /\ Tail(s)[i] = s[i + 1] /\ i \in Nat
         /\ \A i \in DOMAIN s : i = 1 \/ (i - 1 \in DOMAIN Tail(s) /\ Tail(s)[i - 1] = s[i] /\ i \in Nat)
OBVIOUS

(* What closing the index leaves of the calls. *)
LEMMA AbortedCalls ==
  ASSUME TypeOK
  PROVE  /\ Aborted(requests) \in Seq(Request) /\ Aborted(messages) \in Seq(Message)
         /\ DOMAIN Aborted(requests) = DOMAIN requests
         /\ DOMAIN Aborted(messages) = DOMAIN messages
         /\ \A i \in DOMAIN requests :
              Aborted(requests)[i].kind = "find" => Aborted(requests)[i].live = FALSE
         /\ \A i \in DOMAIN messages :
              /\ Aborted(messages)[i].kind = "found" => Aborted(messages)[i].live = FALSE
              /\ messages[i].kind # "found" => Aborted(messages)[i] = messages[i]
              /\ messages[i].kind = "found" => Aborted(messages)[i].kind = "found"
         /\ \A i \in DOMAIN requests : Aborted(requests)[i].kind # "found"
         /\ \A i \in DOMAIN messages : Aborted(messages)[i].kind # "find"
<1>1. requests \in Seq(Request) /\ messages \in Seq(Message)
  BY DEF TypeOK
<1>2. \A i \in DOMAIN requests : requests[i] \in Request
  BY <1>1
<1>3. \A i \in DOMAIN messages : messages[i] \in Message
  BY <1>1
<1>4. \A r \in Request : r.kind \in {"load", "find"} /\
        (r.kind = "find" => /\ [r EXCEPT !.live = FALSE] \in Request
                            /\ [r EXCEPT !.live = FALSE].live = FALSE
                            /\ [r EXCEPT !.live = FALSE].kind = "find")
  BY DEF Request
<1>5. \A m \in Message : m.kind \in {"crawled", "games", "found", "failed"} /\
        (m.kind = "found" => /\ [m EXCEPT !.live = FALSE] \in Message
                             /\ [m EXCEPT !.live = FALSE].live = FALSE
                             /\ [m EXCEPT !.live = FALSE].kind = "found")
  BY DEF Message
<1>6. \A i \in DOMAIN requests : Aborted(requests)[i] \in Request
  BY <1>2, <1>4 DEF Aborted
<1>7. \A i \in DOMAIN messages : Aborted(messages)[i] \in Message
  BY <1>3, <1>5 DEF Aborted
<1>8. /\ Aborted(requests) = [i \in 1 .. Len(requests) |-> Aborted(requests)[i]]
      /\ DOMAIN requests = 1 .. Len(requests) /\ Len(requests) \in Nat
  BY <1>1 DEF Aborted
<1>9. /\ Aborted(messages) = [i \in 1 .. Len(messages) |-> Aborted(messages)[i]]
      /\ DOMAIN messages = 1 .. Len(messages) /\ Len(messages) \in Nat
  BY <1>1 DEF Aborted
<1>10. Aborted(requests) \in Seq(Request)
  BY <1>6, <1>8
<1>11. Aborted(messages) \in Seq(Message)
  BY <1>7, <1>9
<1> QED
  BY <1>2, <1>3, <1>4, <1>5, <1>10, <1>11 DEF Aborted

(* What the first request and the first message are. *)
LEMMA HeadTypes ==
  ASSUME TypeOK
  PROVE  /\ requests # <<>> =>
              /\ Head(requests) \in Request
              /\ Head(requests).kind = "load" => Head(requests).ids \in SUBSET Game
              /\ Head(requests).kind = "find" =>
                   Head(requests).query \in Query /\ Head(requests).live \in BOOLEAN
         /\ messages # <<>> =>
              /\ Head(messages) \in Message
              /\ Head(messages).kind = "crawled" =>
                   Head(messages).game \in Game /\ Head(messages).row \in Row
              /\ Head(messages).kind = "games" =>
                   /\ Head(messages).ids \in SUBSET Game
                   /\ DOMAIN Head(messages).rows \in SUBSET Game
                   /\ \A g \in DOMAIN Head(messages).rows : Head(messages).rows[g] \in Row
              /\ Head(messages).kind = "found" =>
                   /\ Head(messages).query \in Query /\ Head(messages).selected \in SUBSET Game
                   /\ Head(messages).total \in Nat
              /\ Head(messages).kind = "failed" => Head(messages).ids \in SUBSET Game
<1>1. requests # <<>> => Head(requests) \in Request
  BY Taken DEF TypeOK
<1>2. messages # <<>> => Head(messages) \in Message
  BY Taken DEF TypeOK
<1>3. \A r \in Request : /\ r.kind = "load" => r.ids \in SUBSET Game
                         /\ r.kind = "find" => r.query \in Query /\ r.live \in BOOLEAN
  BY DEF Request
<1>4. \A m \in Message :
        /\ m.kind = "crawled" => m.game \in Game /\ m.row \in Row
        /\ m.kind = "games" => /\ m.ids \in SUBSET Game /\ DOMAIN m.rows \in SUBSET Game
                               /\ \A g \in DOMAIN m.rows : m.rows[g] \in Row
        /\ m.kind = "found" =>
             m.query \in Query /\ m.selected \in SUBSET Game /\ m.total \in Nat
        /\ m.kind = "failed" => m.ids \in SUBSET Game
  BY DEF Message
<1> QED
  BY <1>1, <1>2, <1>3, <1>4

LEMMA RowTypes ==
  ASSUME TypeOK, NEW g \in Game
  PROVE  /\ now \in Nat /\ now >= 1 /\ meta[g] \in Stamps /\ meta[g] \in 0 .. now
         /\ RowOf(g) \in Row
BY BoundAssumption DEF TypeOK, Time, Stamps, None, RowOf, Row

-----------------------------------------------------------------------------
(* The types: the main process. *)
LEMMA ImportTypes ==
  ASSUME TypeOK, NEW g \in Game, NEW folder \in Folder, ImportGameInfo(g, folder)
  PROVE  /\ TypeOK' /\ Sanitized(folder.stamp) \in 1 .. now
<1> DEFINE t == Sanitized(folder.stamp)
           returned == IF Replaces(t, g) THEN t ELSE None
           m == Crawled(g, [notes |-> notes[g], meta |-> returned])
<1>1. t \in 1 .. now /\ t \in Time /\ now \in Time /\ now \in Nat
  BY RowTypes, BoundAssumption DEF TypeOK, Folder, Sanitized, Time
<1>2. m \in Message
  <2>1. returned \in Stamps /\ notes[g] \in Notes
    BY <1>1 DEF Stamps, TypeOK
  <2> QED
    BY <2>1 DEF Message, Crawled, Row
<1>3. messages' \in Seq(Message)
  BY <1>2, Appended DEF TypeOK, ImportGameInfo, Post
<1>4. known' \in SUBSET Game /\ IsFiniteSet(known')
  BY FS_AddElement DEF TypeOK, ImportGameInfo
<1>5. meta' \in [Game -> 0 .. now]
  BY <1>1 DEF TypeOK, ImportGameInfo
<1>6. version' \in [Game -> VersionNotes] /\ imported' \in [Game -> SUBSET Time]
  BY <1>1 DEF TypeOK, ImportGameInfo, VersionNotes
<1>7. ignored' \in SUBSET Game
  BY DEF TypeOK, ImportGameInfo
<1> QED
  BY <1>1, <1>3, <1>4, <1>5, <1>6, <1>7 DEF TypeOK, ImportGameInfo, renderer, index

LEMMA MainTypes ==
  ASSUME TypeOK,
         \/ Tick
         \/ \E g \in Game : CreateCustomGame(g) \/ AddVersion(g) \/ UpdateGameDescription(g)
         \/ Answer
  PROVE  TypeOK'
<1>1. CASE Tick
  BY <1>1, BoundAssumption DEF Tick, TypeOK, Time, renderer, index
<1>2. ASSUME NEW g \in Game, CreateCustomGame(g) PROVE TypeOK'
  <2>1. known' \in SUBSET Game /\ IsFiniteSet(known')
    BY <1>2, FS_AddElement DEF TypeOK, CreateCustomGame
  <2>2. notes' \in [Game -> Notes]
    BY <1>2, BoundAssumption DEF TypeOK, CreateCustomGame, Notes
  <2> QED
    BY <1>2, <2>1, <2>2 DEF TypeOK, CreateCustomGame, renderer, index
<1>3. ASSUME NEW g \in Game, AddVersion(g) PROVE TypeOK'
  BY <1>3 DEF AddVersion, TypeOK, VersionNotes, renderer, index
<1>4. ASSUME NEW g \in Game, UpdateGameDescription(g) PROVE TypeOK'
  <2>1. notes[g] + 1 \in Notes
    BY <1>4, BoundAssumption DEF UpdateGameDescription, TypeOK, Notes
  <2>2. Crawled(g, [notes |-> notes[g] + 1, meta |-> meta[g]]) \in Message
    BY <2>1, RowTypes DEF Crawled, Message, Row
  <2>3. messages' \in Seq(Message)
    BY <1>4, <2>2, Appended DEF UpdateGameDescription, Post, TypeOK
  <2> QED
    BY <1>4, <2>1, <2>3 DEF UpdateGameDescription, TypeOK, renderer, index
<1>5. ASSUME NEW m \in Message, requests # <<>>, requests' = Tail(requests), Post(m),
             UNCHANGED <<database, renderer>>, faults' \in 0 .. MaxFaults
      PROVE  TypeOK'
  <2>1. requests' \in Seq(Request) /\ messages' \in Seq(Message)
    BY <1>5, Taken, Appended DEF TypeOK, Post
  <2> QED
    BY <1>5, <2>1 DEF TypeOK, database, renderer, index
<1>6. CASE GetGames
  <2> DEFINE ids == Head(requests).ids
             found == ids \cap known
             rows == [g \in found |-> RowOf(g)]
             m == [kind |-> "games", ids |-> ids, rows |-> rows]
  <2>1. ids \in SUBSET Game
    BY <1>6, HeadTypes DEF GetGames
  <2>2. found \in SUBSET Game /\ rows \in [found -> Row]
    BY <2>1, RowTypes
  <2>3. rows \in UNION {[S -> Row] : S \in SUBSET Game}
    BY <2>2
  <2>4. m \in Message
    BY <2>1, <2>3 DEF Message
  <2> QED
    BY <1>5, <1>6, <2>4 DEF GetGames, TypeOK
<1>7. CASE FindGames
  <2> DEFINE q == Head(requests).query
             n == Cardinality(Matching(q))
  <2>1. q \in Query /\ Head(requests).live \in BOOLEAN
    BY <1>7, HeadTypes DEF FindGames
  <2>2. Matching(q) \in SUBSET Game /\ n \in Nat
    BY FS_Subset, FS_CardinalityType DEF TypeOK, Matching
  <2>3. PICK selected \in kSubset(OnPage(q, n), Matching(q)) :
          Post([kind |-> "found", query |-> q, live |-> Head(requests).live,
                selected |-> selected, total |-> IF selected = {} THEN 0 ELSE n])
    BY <1>7 DEF FindGames
  <2>4. selected \in SUBSET Game
    BY <2>2, <2>3 DEF kSubset
  <2>5. [kind |-> "found", query |-> q, live |-> Head(requests).live,
         selected |-> selected, total |-> IF selected = {} THEN 0 ELSE n] \in Message
    BY <2>1, <2>2, <2>4 DEF Message
  <2> QED
    BY <1>5, <1>7, <2>3, <2>5 DEF FindGames, TypeOK
<1>8. CASE CallFails
  <2>1. [kind |-> "failed",
         ids |-> IF Head(requests).kind = "load" THEN Head(requests).ids ELSE {}] \in Message
    BY <1>8, HeadTypes DEF CallFails, Message
  <2>2. faults' \in 0 .. MaxFaults
    BY <1>8, BoundAssumption DEF CallFails, TypeOK
  <2> QED
    BY <1>5, <1>8, <2>1, <2>2 DEF CallFails
<1> QED
  BY <1>1, <1>2, <1>3, <1>4, <1>6, <1>7, <1>8 DEF Answer

-----------------------------------------------------------------------------
(* The types: the renderer. *)
LEMMA EntityTypes ==
  ASSUME TypeOK
  PROVE  /\ \A ids \in SUBSET Game : Pending(ids) \in [Game -> Entity]
         /\ \A ids \in SUBSET Game : Rejected(ids) \in [Game -> Entity]
         /\ \A g \in Game, row \in Row : CrawledEntity(g, row) \in [Game -> Entity]
         /\ \A row \in Row : Loaded(row) \in Entity
         /\ [type |-> "error"] \in Entity
BY DEF TypeOK, Pending, Rejected, CrawledEntity, Entity, Loaded

LEMMA PageTypes ==
  ASSUME TypeOK,
         \/ \E g \in Game : OpenGamePage(g)
         \/ GamePageEffect
         \/ \E q \in Query : ShowIndex(q)
         \/ ResetPage
  PROVE  TypeOK'
<1>1. ASSUME NEW g \in Game, OpenGamePage(g) PROVE TypeOK'
  <2>1. result' \in [query : SUBSET Query, selected : SUBSET Game, total : Nat]
    BY <1>1 DEF OpenGamePage, NoResult
  <2>2. requests' \in Seq(Request) /\ messages' \in Seq(Message)
    BY <1>1, AbortedCalls DEF OpenGamePage
  <2> QED
    BY <1>1, <2>1, <2>2 DEF OpenGamePage, TypeOK, database
<1>2. CASE GamePageEffect
  <2>1. PICK g \in page : /\ entity' = Pending({g})
                          /\ requests' = Append(requests, LoadRequest({g}))
    BY <1>2 DEF GamePageEffect
  <2>2. {g} \in SUBSET Game
    BY <2>1 DEF TypeOK
  <2>3. LoadRequest({g}) \in Request
    BY <2>2 DEF LoadRequest, Request
  <2>4. requests' \in Seq(Request) /\ entity' \in [Game -> Entity]
    BY <2>1, <2>2, <2>3, Appended, EntityTypes DEF TypeOK
  <2> QED
    BY <1>2, <2>4 DEF GamePageEffect, TypeOK, database, index
<1>3. ASSUME NEW q \in Query, Paginate(q), UNCHANGED <<database, entity, result, faults>>,
             page' \in SUBSET Game
      PROVE  TypeOK'
  <2>1. [kind |-> "find", query |-> q, live |-> TRUE] \in Request
    BY DEF Request
  <2>2. requests' \in Seq(Request) /\ messages' \in Seq(Message)
    BY <1>3, <2>1, AbortedCalls, Appended DEF Paginate
  <2>3. query' \in SUBSET Query
    BY <1>3 DEF Paginate
  <2> QED
    BY <1>3, <2>2, <2>3 DEF TypeOK, database
<1>4. ASSUME NEW q \in Query, ShowIndex(q) PROVE TypeOK'
  BY <1>3, <1>4 DEF ShowIndex
<1>5. CASE ResetPage
  <2>1. PICK q \in query : Paginate([q EXCEPT !.no = 1])
    BY <1>5 DEF ResetPage
  <2>2. [q EXCEPT !.no = 1] \in Query
    BY <2>1, BoundAssumption DEF TypeOK, Query
  <2> QED
    BY <1>3, <1>5, <2>1, <2>2 DEF ResetPage, TypeOK
<1> QED
  BY <1>1, <1>2, <1>4, <1>5

LEMMA ReceiveTypes ==
  ASSUME TypeOK, Receive
  PROVE  TypeOK'
<1> DEFINE m == Head(messages)
<1>1. ASSUME NEW kind, Receiving(kind), entity' \in [Game -> Entity],
             requests' \in Seq(Request),
             result' \in [query : SUBSET Query, selected : SUBSET Game, total : Nat]
      PROVE  TypeOK'
  <2>1. messages' \in Seq(Message)
    BY <1>1, Taken DEF Receiving, TypeOK
  <2> QED
    BY <1>1, <2>1 DEF Receiving, TypeOK, database
<1>2. CASE ReceiveGames
  <2>1. Fulfilled(m.ids, m.rows) \in [Game -> Entity]
    BY <1>2, HeadTypes, EntityTypes DEF ReceiveGames, Receiving, Fulfilled, TypeOK
  <2> QED
    BY <1>1, <1>2, <2>1 DEF ReceiveGames, TypeOK
<1>3. CASE ReceiveFailure
  <2>1. entity' \in [Game -> Entity]
    BY <1>3, HeadTypes, EntityTypes DEF ReceiveFailure, Receiving
  <2> QED
    BY <1>1, <1>3, <2>1 DEF ReceiveFailure, TypeOK
<1>4. CASE ReceiveCrawled
  <2>1. entity' \in [Game -> Entity]
    BY <1>4, HeadTypes, EntityTypes DEF ReceiveCrawled, Receiving
  <2> QED
    BY <1>1, <1>4, <2>1 DEF ReceiveCrawled, TypeOK
<1>5. CASE ReceiveFound
  <2> DEFINE needed == {g \in m.selected : NeedsLoading(g)}
  <2>1. /\ Receiving("found") /\ m \in Message /\ m.query \in Query
        /\ m.selected \in SUBSET Game /\ m.total \in Nat /\ needed \in SUBSET Game
    BY <1>5, HeadTypes DEF ReceiveFound, Receiving
  <2>2. LoadRequest(needed) \in Request
    BY <2>1 DEF LoadRequest, Request
  <2>3. requests' \in Seq(Request)
    BY <1>5, <2>2, Appended DEF ReceiveFound, TypeOK
  <2>4. entity' \in [Game -> Entity]
    BY <1>5, <2>1, EntityTypes DEF ReceiveFound
  <2>5. result' \in [query : SUBSET Query, selected : SUBSET Game, total : Nat]
    BY <1>5, <2>1 DEF ReceiveFound, TypeOK
  <2> QED
    BY <1>1, <2>1, <2>3, <2>4, <2>5
<1> QED
  BY <1>2, <1>3, <1>4, <1>5 DEF Receive

(* Every step keeps the types. *)
LEMMA NextTypeOK == TypeOK /\ [Next]_vars => TypeOK'
<1> SUFFICES ASSUME TypeOK, [Next]_vars PROVE TypeOK'
  OBVIOUS
<1>1. CASE UNCHANGED vars
  BY <1>1 DEF TypeOK, vars
<1> QED
  BY <1>1, ImportTypes, MainTypes, PageTypes, ReceiveTypes DEF Next

-----------------------------------------------------------------------------
(* The metadata that is kept. *)
LEMMA NextOldestKept == TypeOK /\ OldestKept /\ [Next]_vars => OldestKept'
<1> SUFFICES ASSUME TypeOK, OldestKept, [Next]_vars PROVE OldestKept'
  OBVIOUS
<1>1. ASSUME NEW g \in Game, NEW folder \in Folder, ImportGameInfo(g, folder) PROVE OldestKept'
  <2> DEFINE t == Sanitized(folder.stamp)
  <2>1. t \in 1 .. now /\ now \in Nat /\ meta[g] \in 0 .. now
    BY <1>1, ImportTypes, RowTypes
  <2>2. /\ meta' = IF Replaces(t, g) THEN [meta EXCEPT ![g] = t] ELSE meta
        /\ imported' = [imported EXCEPT ![g] = @ \cup {t}]
    BY <1>1 DEF ImportGameInfo
  <2>3. \A h \in Game : h # g => meta'[h] = meta[h] /\ imported'[h] = imported[h]
    BY <2>2 DEF TypeOK
  <2>4. imported'[g] = imported[g] \cup {t} /\ meta'[g] = IF Replaces(t, g) THEN t ELSE meta[g]
    BY <2>2 DEF TypeOK
  <2>5. imported[g] \subseteq Nat \ {0}
    BY DEF TypeOK, Time
  <2>6. meta'[g] \in imported'[g] /\ \A u \in imported'[g] : meta'[g] <= u
    <3>1. CASE imported[g] = {}
      BY <2>1, <2>4, <3>1 DEF OldestKept, Replaces
    <3>2. CASE imported[g] # {}
      <4>1. meta[g] \in imported[g] /\ \A u \in imported[g] : meta[g] <= u
        BY <3>2 DEF OldestKept
      <4> QED
        BY <2>1, <2>4, <2>5, <4>1 DEF Replaces, None
    <3> QED
      BY <3>1, <3>2
  <2> QED
    BY <2>3, <2>4, <2>6 DEF OldestKept
<1>2. CASE UNCHANGED <<meta, imported>>
  BY <1>2 DEF OldestKept
<1> QED
  BY <1>1, <1>2
  DEF Next, Tick, CreateCustomGame, AddVersion, UpdateGameDescription, OpenGamePage,
      GamePageEffect, ShowIndex, ResetPage, Answer, GetGames, FindGames, CallFails, Receive,
      ReceiveGames, ReceiveFailure, ReceiveCrawled, ReceiveFound, Receiving, database, vars

-----------------------------------------------------------------------------
(* What is on its way to the renderer. *)

(* What the renderer may show after the step. *)
NextCurrent(row, g) ==
  /\ row.notes = notes'[g]
  /\ \/ row.meta = meta'[g]
     \/ row.meta = None /\ g \in ignored'

(* The row of a message, or of the renderer, is not the last, or current.  *)
LEMMA NextLast ==
  ASSUME \A g \in Game :
           /\ \A i \in DOMAIN messages' :
                Carries(messages'[i], g) =>
                  /\ g \in known'
                  /\ \/ NextCurrent(RowIn(messages'[i], g), g)
                     \/ \E k \in DOMAIN messages' : k > i /\ Carries(messages'[k], g)
           /\ entity'[g].type = "loaded" =>
                /\ g \in known'
                /\ \/ NextCurrent(entity'[g].row, g)
                   \/ \E k \in DOMAIN messages' : Carries(messages'[k], g)
  PROVE  LastIsCurrent'
BY DEF LastIsCurrent, Carries, RowIn, NextCurrent, IsCurrent

(* A message that is posted does not make a row out of date, and carries   *)
(* the row of what it is about if that has changed.                        *)
LEMMA PostKeepsRows ==
  ASSUME TypeOK, LastIsCurrent, NEW m \in Message, Post(m), UNCHANGED entity,
         known \subseteq known',
         \A g \in Game : Carries(m, g) => g \in known' /\ NextCurrent(RowIn(m, g), g),
         \A g \in Game :
           ~Carries(m, g) =>
             notes'[g] = notes[g] /\ meta'[g] = meta[g] /\ (g \in ignored => g \in ignored')
  PROVE  LastIsCurrent'
<1> SUFFICES ASSUME NEW g \in Game
             PROVE  /\ \A i \in DOMAIN messages' :
                         Carries(messages'[i], g) =>
                           /\ g \in known'
                           /\ \/ NextCurrent(RowIn(messages'[i], g), g)
                              \/ \E k \in DOMAIN messages' : k > i /\ Carries(messages'[k], g)
                    /\ entity[g].type = "loaded" =>
                         /\ g \in known'
                         /\ \/ NextCurrent(entity[g].row, g)
                            \/ \E k \in DOMAIN messages' : Carries(messages'[k], g)
  BY NextLast
<1>1. messages' = Append(messages, m) /\ messages \in Seq(Message)
  BY DEF Post, TypeOK
<1>2. /\ Len(messages) \in Nat /\ DOMAIN messages = 1 .. Len(messages)
      /\ \A i \in DOMAIN messages : i \in DOMAIN messages' /\ messages'[i] = messages[i]
      /\ messages'[Len(messages) + 1] = m /\ Len(messages) + 1 \in DOMAIN messages'
      /\ \A i \in DOMAIN messages' : i \in DOMAIN messages \/ i = Len(messages) + 1
  BY <1>1, Appended
<1>3. /\ entity[g].type = "loaded" => g \in known'
      /\ \A i \in DOMAIN messages : Carries(messages[i], g) => g \in known'
  BY DEF LastIsCurrent
<1>4. CASE Carries(m, g)
  <2>1. g \in known' /\ NextCurrent(RowIn(m, g), g)
    BY <1>4
  <2>2. \A i \in DOMAIN messages : Len(messages) + 1 > i
    BY <1>2
  <2> QED
    BY <1>2, <1>3, <1>4, <2>1, <2>2
<1>5. CASE ~Carries(m, g)
  <2>1. \A row : IsCurrent(row, g) => NextCurrent(row, g)
    BY <1>5 DEF IsCurrent, NextCurrent
  <2> HIDE DEF Carries, RowIn, IsCurrent, NextCurrent
  <2>2. \A i \in DOMAIN messages :
          Carries(messages[i], g) =>
            \/ NextCurrent(RowIn(messages[i], g), g)
            \/ \E k \in DOMAIN messages : k > i /\ Carries(messages[k], g)
    BY <2>1 DEF LastIsCurrent
  <2>3. entity[g].type = "loaded" =>
          \/ NextCurrent(entity[g].row, g)
          \/ \E k \in DOMAIN messages : Carries(messages[k], g)
    BY <2>1 DEF LastIsCurrent
  <2> QED
    BY <1>2, <1>3, <1>5, <2>2, <2>3
<1> QED
  BY <1>4, <1>5

(* Steps that leave the rows of the database and the messages alone. *)
LEMMA RowsStand ==
  ASSUME TypeOK, LastIsCurrent, UNCHANGED <<notes, meta, ignored, known>>,
         DOMAIN messages' = DOMAIN messages,
         \A i \in DOMAIN messages :
           messages'[i] = messages[i]
             \/ (messages[i].kind = "found" /\ messages'[i].kind = "found"),
         \A g \in Game : entity'[g] = entity[g] \/ entity'[g].type # "loaded"
  PROVE  LastIsCurrent'
<1>1. \A g \in Game, i \in DOMAIN messages :
        Carries(messages'[i], g) <=> Carries(messages[i], g)
  BY DEF Carries
<1>2. \A g \in Game, i \in DOMAIN messages :
        Carries(messages[i], g) => RowIn(messages'[i], g) = RowIn(messages[i], g)
  BY DEF Carries
<1>3. \A g, row : NextCurrent(row, g) <=> IsCurrent(row, g)
  BY DEF NextCurrent, IsCurrent
<1> QED
  BY <1>1, <1>2, <1>3, NextLast DEF LastIsCurrent

(* A message that is received hands its row over. *)
LEMMA ReceiveKeepsRows ==
  ASSUME TypeOK, LastIsCurrent, UNCHANGED <<notes, meta, ignored, known>>,
         messages # <<>>, messages' = Tail(messages),
         \A g \in Game : Carries(Head(messages), g) => entity'[g] = Loaded(RowIn(Head(messages), g)),
         \A g \in Game : ~Carries(Head(messages), g) =>
                           entity'[g] = entity[g] \/ entity'[g].type # "loaded"
  PROVE  LastIsCurrent'
<1> SUFFICES ASSUME NEW g \in Game
             PROVE  /\ \A i \in DOMAIN messages' :
                         Carries(messages'[i], g) =>
                           /\ g \in known
                           /\ \/ NextCurrent(RowIn(messages'[i], g), g)
                              \/ \E k \in DOMAIN messages' : k > i /\ Carries(messages'[k], g)
                    /\ entity'[g].type = "loaded" =>
                         /\ g \in known
                         /\ \/ NextCurrent(entity'[g].row, g)
                            \/ \E k \in DOMAIN messages' : Carries(messages'[k], g)
  BY NextLast
<1>1. /\ Head(messages) = messages[1] /\ 1 \in DOMAIN messages
      /\ \A i \in DOMAIN messages' : i + 1 \in DOMAIN messages /\ messages'[i] = messages[i + 1] /\ i \in Nat
      /\ \A i \in DOMAIN messages : i = 1 \/ (i - 1 \in DOMAIN messages' /\ messages'[i - 1] = messages[i] /\ i \in Nat)
  BY Taken DEF TypeOK
<1>2. \A row : NextCurrent(row, g) <=> IsCurrent(row, g)
  BY DEF NextCurrent, IsCurrent
<1>3. \A row : Loaded(row).row = row
  BY DEF Loaded
<1> HIDE DEF Carries, RowIn, IsCurrent, NextCurrent, Loaded
<1>4. \A i \in DOMAIN messages :
        Carries(messages[i], g) =>
          /\ g \in known
          /\ \/ IsCurrent(RowIn(messages[i], g), g)
             \/ \E k \in DOMAIN messages : k > i /\ Carries(messages[k], g)
  BY DEF LastIsCurrent
<1>5. ASSUME NEW i \in DOMAIN messages', Carries(messages'[i], g)
      PROVE  /\ g \in known
             /\ \/ NextCurrent(RowIn(messages'[i], g), g)
                \/ \E k \in DOMAIN messages' : k > i /\ Carries(messages'[k], g)
  <2>1. /\ i + 1 \in DOMAIN messages /\ Carries(messages[i + 1], g) /\ i \in Nat
        /\ messages'[i] = messages[i + 1]
    BY <1>1, <1>5
  <2>2. CASE \E k \in DOMAIN messages : k > i + 1 /\ Carries(messages[k], g)
    <3>1. PICK k \in DOMAIN messages : k > i + 1 /\ Carries(messages[k], g)
      BY <2>2
    <3>2. k - 1 \in DOMAIN messages' /\ messages'[k - 1] = messages[k] /\ k - 1 > i
      BY <1>1, <2>1, <3>1
    <3> QED
      BY <1>4, <2>1, <3>1, <3>2
  <2>3. CASE IsCurrent(RowIn(messages[i + 1], g), g)
    BY <1>2, <1>4, <2>1, <2>3
  <2> QED
    BY <1>4, <2>1, <2>2, <2>3
<1>6. ASSUME entity'[g].type = "loaded"
      PROVE  /\ g \in known
             /\ \/ NextCurrent(entity'[g].row, g)
                \/ \E k \in DOMAIN messages' : Carries(messages'[k], g)
  <2>1. \A k \in DOMAIN messages : k > 1 /\ Carries(messages[k], g) =>
           \E i \in DOMAIN messages' : Carries(messages'[i], g)
    BY <1>1
  <2>2. CASE Carries(Head(messages), g)
    <3>1. entity'[g].row = RowIn(messages[1], g)
      BY <1>1, <1>3, <2>2
    <3> QED
      BY <1>1, <1>2, <1>4, <2>1, <2>2, <3>1
  <2>3. CASE ~Carries(Head(messages), g)
    <3>1. entity'[g] = entity[g]
      BY <1>6, <2>3
    <3>2. /\ g \in known
          /\ \/ IsCurrent(entity[g].row, g)
             \/ \E k \in DOMAIN messages : Carries(messages[k], g)
      BY <1>6, <3>1 DEF LastIsCurrent
    <3>3. \A k \in DOMAIN messages : Carries(messages[k], g) => k > 1
      BY <1>1, <2>3
    <3> QED
      BY <1>2, <2>1, <3>1, <3>2, <3>3
  <2> QED
    BY <2>2, <2>3
<1> QED
  BY <1>5, <1>6

LEMMA NextLastIsCurrent == TypeOK /\ LastIsCurrent /\ [Next]_vars => LastIsCurrent'
<1> SUFFICES ASSUME TypeOK, LastIsCurrent, [Next]_vars PROVE LastIsCurrent'
  OBVIOUS
<1>1. ASSUME NEW g \in Game, NEW folder \in Folder, ImportGameInfo(g, folder) PROVE LastIsCurrent'
  <2> DEFINE t == Sanitized(folder.stamp)
             returned == IF Replaces(t, g) THEN t ELSE None
             m == Crawled(g, [notes |-> notes[g], meta |-> returned])
  <2>1. /\ Post(m) /\ UNCHANGED <<entity, notes>> /\ known' = known \cup {g}
        /\ meta' = IF Replaces(t, g) THEN [meta EXCEPT ![g] = t] ELSE meta
        /\ ignored' = IF Replaces(t, g) THEN ignored ELSE ignored \cup {g}
    BY <1>1 DEF ImportGameInfo, renderer
  <2>2. m \in Message
    <3>1. t \in Time /\ notes[g] \in Notes
      BY <1>1, ImportTypes, RowTypes, BoundAssumption DEF TypeOK, Time
    <3> QED
      BY <3>1 DEF Message, Crawled, Row, Stamps
  <2>3. \A h \in Game : Carries(m, h) => h = g
    BY DEF Carries, Crawled
  <2>4. NextCurrent(RowIn(m, g), g)
    BY <2>1 DEF NextCurrent, RowIn, Crawled, TypeOK
  <2>5. \A h \in Game : h # g => meta'[h] = meta[h]
    BY <2>1 DEF TypeOK
  <2>6. Carries(m, g)
    BY DEF Carries, Crawled
  <2> QED
    BY <2>1, <2>2, <2>3, <2>4, <2>5, <2>6, PostKeepsRows
<1>2. ASSUME NEW g \in Game, UpdateGameDescription(g) PROVE LastIsCurrent'
  <2> DEFINE m == Crawled(g, [notes |-> notes[g] + 1, meta |-> meta[g]])
  <2>1. /\ Post(m) /\ UNCHANGED <<entity, meta, ignored, known>>
        /\ notes' = [notes EXCEPT ![g] = @ + 1] /\ entity[g].type = "loaded"
    BY <1>2 DEF UpdateGameDescription, renderer, CanEdit
  <2>2. m \in Message
    <3>1. notes[g] + 1 \in Notes /\ meta[g] \in Stamps
      BY <1>2, RowTypes, BoundAssumption DEF UpdateGameDescription, TypeOK, Notes
    <3> QED
      BY <3>1 DEF Message, Crawled, Row
  <2>3. g \in known /\ Carries(m, g) /\ \A h \in Game : Carries(m, h) => h = g
    BY <2>1 DEF Carries, Crawled, LastIsCurrent
  <2>4. NextCurrent(RowIn(m, g), g)
    BY <2>1 DEF NextCurrent, RowIn, Crawled, TypeOK
  <2>5. \A h \in Game : h # g => notes'[h] = notes[h]
    BY <2>1 DEF TypeOK
  <2> QED
    BY <2>1, <2>2, <2>3, <2>4, <2>5, PostKeepsRows
<1>3. ASSUME NEW g \in Game, CreateCustomGame(g) PROVE LastIsCurrent'
  <2>1. /\ g \notin known /\ known' = known \cup {g} /\ notes' = [notes EXCEPT ![g] = 1]
        /\ UNCHANGED <<meta, ignored, messages, entity>>
    BY <1>3 DEF CreateCustomGame, renderer
  <2>2. \A row : \A h \in Game : h # g => (NextCurrent(row, h) <=> IsCurrent(row, h))
    BY <2>1 DEF NextCurrent, IsCurrent, TypeOK
  <2> QED
    BY <2>1, <2>2, NextLast DEF LastIsCurrent
<1>4. CASE GetGames
  <2> DEFINE found == Head(requests).ids \cap known
             rows == [g \in found |-> RowOf(g)]
             m == [kind |-> "games", ids |-> Head(requests).ids, rows |-> rows]
  <2>1. Post(m) /\ UNCHANGED <<entity, meta, notes, ignored, known>>
    BY <1>4 DEF GetGames, renderer, database
  <2>2. m \in Message
    <3>1. Head(requests).ids \in SUBSET Game
      BY <1>4, HeadTypes DEF GetGames
    <3>2. found \in SUBSET Game /\ rows \in [found -> Row]
      BY <3>1, RowTypes
    <3>3. rows \in UNION {[S -> Row] : S \in SUBSET Game}
      BY <3>2
    <3> QED
      BY <3>1, <3>3 DEF Message
  <2>3. \A g \in Game : Carries(m, g) => g \in known /\ RowIn(m, g) = RowOf(g)
    BY DEF Carries, RowIn
  <2>4. \A g \in Game : NextCurrent(RowOf(g), g)
    BY <2>1 DEF NextCurrent, RowOf
  <2> QED
    BY <2>1, <2>2, <2>3, <2>4, PostKeepsRows
<1>5. ASSUME NEW m \in Message, Post(m), m.kind \in {"found", "failed"},
             UNCHANGED <<entity, database>>
      PROVE  LastIsCurrent'
  <2>1. \A g \in Game : ~Carries(m, g)
    BY <1>5 DEF Carries
  <2> QED
    BY <1>5, <2>1, PostKeepsRows DEF database
<1>6. CASE FindGames
  <2> DEFINE q == Head(requests).query
             n == Cardinality(Matching(q))
  <2>1. q \in Query /\ Head(requests).live \in BOOLEAN
    BY <1>6, HeadTypes DEF FindGames
  <2>2. Matching(q) \in SUBSET Game /\ n \in Nat
    BY FS_Subset, FS_CardinalityType DEF TypeOK, Matching
  <2>3. PICK selected \in kSubset(OnPage(q, n), Matching(q)) :
          Post([kind |-> "found", query |-> q, live |-> Head(requests).live,
                selected |-> selected, total |-> IF selected = {} THEN 0 ELSE n])
    BY <1>6 DEF FindGames
  <2>4. selected \in SUBSET Game
    BY <2>2, <2>3 DEF kSubset
  <2>5. [kind |-> "found", query |-> q, live |-> Head(requests).live,
         selected |-> selected, total |-> IF selected = {} THEN 0 ELSE n] \in Message
    BY <2>1, <2>2, <2>4 DEF Message
  <2> QED
    BY <1>5, <1>6, <2>3, <2>5 DEF FindGames, renderer
<1>7. CASE CallFails
  <2>1. [kind |-> "failed",
         ids |-> IF Head(requests).kind = "load" THEN Head(requests).ids ELSE {}] \in Message
    BY <1>7, HeadTypes DEF CallFails, Message
  <2> QED
    BY <1>5, <1>7, <2>1 DEF CallFails, renderer
<1>8. ASSUME UNCHANGED <<database, entity>>, messages' = Aborted(messages) PROVE LastIsCurrent'
  <2>1. \A i \in DOMAIN messages :
          messages'[i] = messages[i]
            \/ (messages[i].kind = "found" /\ messages'[i].kind = "found")
    BY <1>8, AbortedCalls
  <2> QED
    BY <1>8, <2>1, AbortedCalls, RowsStand DEF database
<1>9. CASE (\E g \in Game : OpenGamePage(g)) \/ (\E q \in Query : ShowIndex(q)) \/ ResetPage
  BY <1>8, <1>9 DEF OpenGamePage, ShowIndex, ResetPage, Paginate
<1>10. \A ids : \A g \in Game : Pending(ids)[g] = entity[g] \/ Pending(ids)[g].type # "loaded"
  BY DEF Pending
<1>11. CASE GamePageEffect
  BY <1>10, <1>11, RowsStand DEF GamePageEffect, database
<1>12. ASSUME NEW kind, Receiving(kind),
              \A g \in Game : Carries(Head(messages), g) => entity'[g] = Loaded(RowIn(Head(messages), g)),
              \A g \in Game : ~Carries(Head(messages), g) =>
                                entity'[g] = entity[g] \/ entity'[g].type # "loaded"
       PROVE  LastIsCurrent'
  BY <1>12, ReceiveKeepsRows DEF Receiving, database
<1>13. CASE ReceiveGames
  <2>1. Head(messages).kind = "games" /\ entity' = Fulfilled(Head(messages).ids, Head(messages).rows)
    BY <1>13 DEF ReceiveGames, Receiving
  <2> QED
    BY <1>12, <1>13, <2>1 DEF ReceiveGames, Fulfilled, Carries, RowIn
<1>14. CASE ReceiveFailure
  <2>1. Head(messages).kind = "failed" /\ entity' = Rejected(Head(messages).ids)
    BY <1>14 DEF ReceiveFailure, Receiving
  <2> QED
    BY <1>12, <1>14, <2>1 DEF ReceiveFailure, Rejected, Carries
<1>15. CASE ReceiveCrawled
  <2>1. /\ Head(messages).kind = "crawled"
        /\ entity' = CrawledEntity(Head(messages).game, Head(messages).row)
    BY <1>15 DEF ReceiveCrawled, Receiving
  <2> QED
    BY <1>12, <1>15, <2>1 DEF ReceiveCrawled, CrawledEntity, Carries, RowIn, TypeOK
<1>16. CASE ReceiveFound
  <2>1. Head(messages).kind = "found" /\ Receiving("found")
        /\ \E ids : entity' = Pending(ids)
    BY <1>16 DEF ReceiveFound, Receiving
  <2> QED
    BY <1>10, <1>12, <2>1 DEF Carries
<1>17. CASE Tick \/ (\E g \in Game : AddVersion(g)) \/ UNCHANGED vars
  <2>1. UNCHANGED <<notes, meta, ignored, known, messages, entity>>
    BY <1>17 DEF Tick, AddVersion, renderer, vars
  <2> QED
    BY <2>1, RowsStand
<1> QED
  BY <1>1, <1>2, <1>3, <1>4, <1>6, <1>7, <1>9, <1>11, <1>13, <1>14, <1>15, <1>16, <1>17
  DEF Next, Answer, Receive

-----------------------------------------------------------------------------
(* The search. *)

LEMMA NextLiveIsAsked == TypeOK /\ LiveIsAsked /\ [Next]_vars => LiveIsAsked'
<1> SUFFICES ASSUME TypeOK, LiveIsAsked, [Next]_vars PROVE LiveIsAsked'
  OBVIOUS
<1> DEFINE Asked(call, q) == call.kind \in {"find", "found"} /\ call.live => q = {call.query}
<1>0. /\ \A i \in DOMAIN requests : Asked(requests[i], query)
      /\ \A i \in DOMAIN messages : Asked(messages[i], query)
      /\ requests \in Seq(Request) /\ messages \in Seq(Message)
  BY DEF LiveIsAsked, TypeOK
<1>1. ASSUME \A i \in DOMAIN requests' : Asked(requests'[i], query'),
             \A i \in DOMAIN messages' : Asked(messages'[i], query')
      PROVE  LiveIsAsked'
  BY <1>1 DEF LiveIsAsked
<1> HIDE DEF Asked
<1>2. requests # <<>> =>
        /\ Asked(Head(requests), query)
        /\ \A i \in DOMAIN Tail(requests) : Asked(Tail(requests)[i], query)
  BY <1>0, Taken
<1>3. messages # <<>> => \A i \in DOMAIN Tail(messages) : Asked(Tail(messages)[i], query)
  BY <1>0, Taken
<1>4. ASSUME NEW m, Asked(m, query)
      PROVE  \A i \in DOMAIN Append(messages, m) : Asked(Append(messages, m)[i], query)
  <2>1. /\ DOMAIN messages = 1 .. Len(messages) /\ Len(messages) \in Nat
        /\ DOMAIN Append(messages, m) = 1 .. Len(messages) + 1
        /\ \A i \in 1 .. Len(messages) + 1 :
             Append(messages, m)[i] = IF i = Len(messages) + 1 THEN m ELSE messages[i]
    BY <1>0
  <2> QED
    BY <1>0, <1>4, <2>1
<1>5. ASSUME NEW r, NEW s \in Seq(Request), NEW q, Asked(r, q),
             \A i \in DOMAIN s : Asked(s[i], q)
      PROVE  \A i \in DOMAIN Append(s, r) : Asked(Append(s, r)[i], q)
  <2>1. /\ DOMAIN s = 1 .. Len(s) /\ Len(s) \in Nat
        /\ DOMAIN Append(s, r) = 1 .. Len(s) + 1
        /\ \A i \in 1 .. Len(s) + 1 : Append(s, r)[i] = IF i = Len(s) + 1 THEN r ELSE s[i]
    OBVIOUS
  <2> QED
    BY <1>5, <2>1
<1>6. ASSUME NEW m, m.kind \in {"crawled", "games", "failed"} PROVE \A q : Asked(m, q)
  BY <1>6 DEF Asked
<1>7. \A ids, q : Asked(LoadRequest(ids), q)
  BY DEF Asked, LoadRequest
<1>8. ASSUME NEW m, m.kind = "crawled", Post(m), UNCHANGED <<requests, query>> PROVE LiveIsAsked'
  BY <1>0, <1>1, <1>4, <1>6, <1>8 DEF Post
<1>9. ASSUME NEW m, Asked(m, query), Post(m), requests # <<>>, requests' = Tail(requests),
             query' = query
      PROVE  LiveIsAsked'
  BY <1>1, <1>2, <1>4, <1>9 DEF Post
<1>10. CASE GetGames \/ CallFails
  <2>1. PICK m : /\ m.kind \in {"games", "failed"} /\ Post(m) /\ requests # <<>>
                 /\ requests' = Tail(requests) /\ query' = query
    BY <1>10 DEF GetGames, CallFails, renderer, index
  <2> QED
    BY <1>6, <1>9, <2>1
<1>11. CASE FindGames
  <2>1. PICK m : /\ m.kind = "found" /\ m.query = Head(requests).query
                 /\ m.live = Head(requests).live /\ Post(m)
    BY <1>11 DEF FindGames
  <2>2. /\ requests # <<>> /\ Head(requests).kind = "find"
        /\ requests' = Tail(requests) /\ query' = query
    BY <1>11 DEF FindGames, renderer, index
  <2>3. Asked(m, query)
    BY <1>2, <2>1, <2>2 DEF Asked
  <2> QED
    BY <1>9, <2>1, <2>2, <2>3
<1>12. \A q : /\ \A i \in DOMAIN Aborted(requests) : Asked(Aborted(requests)[i], q)
              /\ \A i \in DOMAIN Aborted(messages) : Asked(Aborted(messages)[i], q)
  BY AbortedCalls DEF Asked
<1>13. ASSUME NEW g \in Game, OpenGamePage(g) PROVE LiveIsAsked'
  BY <1>1, <1>12, <1>13 DEF OpenGamePage
<1>14. ASSUME NEW q, Paginate(q) PROVE LiveIsAsked'
  <2> DEFINE r == [kind |-> "find", query |-> q, live |-> TRUE]
  <2>1. query' = {q} /\ requests' = Append(Aborted(requests), r) /\ messages' = Aborted(messages)
    BY <1>14 DEF Paginate
  <2>2. Asked(r, {q})
    BY DEF Asked
  <2>3. \A i \in DOMAIN requests' : Asked(requests'[i], {q})
    BY <1>5, <1>12, <2>1, <2>2, AbortedCalls
  <2> QED
    BY <1>1, <1>12, <2>1, <2>3
<1>15. CASE (\E q \in Query : ShowIndex(q)) \/ ResetPage
  BY <1>14, <1>15 DEF ShowIndex, ResetPage
<1>16. CASE GamePageEffect
  <2>1. PICK g : requests' = Append(requests, LoadRequest({g})) /\ UNCHANGED <<messages, query>>
    BY <1>16 DEF GamePageEffect, index
  <2> QED
    BY <1>0, <1>1, <1>5, <1>7, <2>1
<1>17. CASE Receive
  <2>1. messages # <<>> /\ messages' = Tail(messages) /\ query' = query
    BY <1>17
    DEF Receive, ReceiveGames, ReceiveFailure, ReceiveCrawled, ReceiveFound, Receiving
  <2>2. requests' = requests \/ \E ids : requests' = Append(requests, LoadRequest(ids))
    BY <1>17 DEF Receive, ReceiveGames, ReceiveFailure, ReceiveCrawled, ReceiveFound
  <2> QED
    BY <1>0, <1>1, <1>3, <1>5, <1>7, <2>1, <2>2
<1>18. CASE \E g \in Game, folder \in Folder : ImportGameInfo(g, folder)
  BY <1>8, <1>18 DEF ImportGameInfo, Crawled, renderer, index
<1>19. CASE \E g \in Game : UpdateGameDescription(g)
  BY <1>8, <1>19 DEF UpdateGameDescription, Crawled, renderer, index
<1>20. CASE UNCHANGED <<requests, messages, query>>
  BY <1>0, <1>1, <1>20
<1> QED
  BY <1>10, <1>11, <1>13, <1>15, <1>16, <1>17, <1>18, <1>19, <1>20
  DEF Next, Answer, Tick, CreateCustomGame, AddVersion, renderer, index, vars

(* Only a search whose effect is still there changes what the index shows. *)
LEMMA NextShowsAsked ==
  TypeOK /\ LiveIsAsked /\ [Next]_vars => (result' # result => result'.query \subseteq query')
<1> SUFFICES ASSUME TypeOK, LiveIsAsked, Next, result' # result PROVE result'.query \subseteq query'
  BY DEF vars
<1>1. CASE \E g \in Game : OpenGamePage(g)
  BY <1>1 DEF OpenGamePage, NoResult
<1>2. CASE ReceiveFound
  <2>1. /\ messages # <<>> /\ Head(messages).kind = "found" /\ query' = query
        /\ Head(messages).live /\ result'.query = {Head(messages).query}
    BY <1>2 DEF ReceiveFound, Receiving, Shown
  <2>2. Head(messages) = messages[1] /\ 1 \in DOMAIN messages
    BY <2>1, Taken DEF TypeOK
  <2> QED
    BY <2>1, <2>2 DEF LiveIsAsked
<1> QED
  BY <1>1, <1>2
  DEF Next, Tick, ImportGameInfo, CreateCustomGame, AddVersion, UpdateGameDescription,
      GamePageEffect, ShowIndex, ResetPage, Answer, GetGames, FindGames, CallFails, Receive,
      ReceiveGames, ReceiveFailure, ReceiveCrawled, renderer, index

-----------------------------------------------------------------------------
LEMMA InitGamesInv == Init => GamesInv
<1> SUFFICES ASSUME Init PROVE GamesInv
  OBVIOUS
<1>1. TypeOK
  <2>1. result \in [query : SUBSET Query, selected : SUBSET Game, total : Nat]
    BY DEF Init, NoResult
  <2> QED
    BY <2>1, BoundAssumption, FS_EmptySet
    DEF Init, TypeOK, Time, Notes, None, Entity, VersionNotes
<1>2. OldestKept
  BY DEF Init, OldestKept
<1>3. LastIsCurrent /\ LiveIsAsked
  BY DEF Init, LastIsCurrent, LiveIsAsked
<1> QED
  BY <1>1, <1>2, <1>3 DEF GamesInv

(* The oldest metadata of a game is kept in whatever order folders are     *)
(* imported, the last row on the way to the renderer is the current one,   *)
(* and the only search that will be shown is that of the query.            *)
THEOREM GamesInvHolds == Spec => []GamesInv
<1>1. GamesInv /\ [Next]_vars => GamesInv'
  BY NextTypeOK, NextOldestKept, NextLastIsCurrent, NextLiveIsAsked DEF GamesInv
<1> QED
  BY <1>1, InitGamesInv, PTL DEF Spec

(* Once nothing is under way, a loaded game shows what is in the database. *)
THEOREM LoadedAreCurrent == Spec => []LoadedIsCurrent
<1>1. GamesInv => LoadedIsCurrent
  BY DEF GamesInv, LastIsCurrent, LoadedIsCurrent
<1> QED
  BY <1>1, GamesInvHolds, PTL

(* What the index shows changes to what its query asks for, only.          *)
THEOREM ShownAreAsked == Spec => ShownIsAsked
<1>1. GamesInv /\ [Next]_vars => [result' # result => result'.query \subseteq query']_vars
  BY NextShowsAsked DEF GamesInv
<1> QED
  BY <1>1, GamesInvHolds, PTL DEF Spec, ShownIsAsked
=============================================================================
