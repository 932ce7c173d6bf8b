------------------------------ MODULE HtmlPlay ------------------------------
(***************************************************************************)
(* Playing the html version of a game (HtmlGamePlayService.mts): a request *)
(* of a game window looks its file up in the tree (Dbfs) in a transaction  *)
(* and then reads the content, from the row or from the blob, while        *)
(* artifacts are imported, deleted and cleaned up.  The content is what    *)
(* ContentStore promises of it.                                            *)
(***************************************************************************)
EXTENDS Dbfs

CONSTANTS
  Hash,               \* the content hashes
  Inline,             \* those of content that is kept in the row
  Game,               \* the id of the game whose session it is, as a name
  Html,               \* the name of the platform
  Index,              \* the name index.html
  Empty, Dot, Up,     \* the segments "", "." and ".."
  MaxSegments         \* bound: the segments of the path of a URL

ASSUME SegmentAssumption ==
  /\ Inline \subseteq Hash
  /\ {Game, Html, Index} \subseteq Name
  /\ Cardinality(Name \cup {Empty, Dot, Up}) = Cardinality(Name) + 3
  /\ MaxSegments \in Nat \ {0}

VARIABLES
  hash,     \* node_file.blake3_hash of each file
  content,  \* the hashes whose content can be read
  request   \* the request of the window

playVars == <<vars, hash, content, request>>

Segment  == Name \cup {Empty, Dot, Up}
(* The path of a URL after decodeURIComponent, split at its slashes. *)
Pathname == UNION {[1 .. k -> Segment] : k \in 1 .. MaxSegments}

Idle == [phase |-> "idle", status |-> 0, file |-> NotFound, hash |-> {},
         deleted |-> FALSE]
(* The request goes on; an answer is kept until the next step. *)
OnTheWay == IF request.phase = "reading" THEN request ELSE Idle

-----------------------------------------------------------------------------
IsAbsolute(segments) == Head(segments) = Empty

(* posix.normalize, segment by segment, *)
Step(before, segment, absolute) ==
  LET last == Len(before)
  IN IF segment \in {Empty, Dot} THEN before
     ELSE IF segment # Up THEN Append(before, segment)
     ELSE IF last > 0 /\ before[last] # Up THEN SubSeq(before, 1, last - 1)
     ELSE IF absolute THEN before
     ELSE Append(before, Up)

(* and as a whole. *)
Normalized(segments) ==
  LET joined[k \in 0 .. Len(segments)] ==
        IF k = 0 THEN <<>>
        ELSE Step(joined[k - 1], segments[k], IsAbsolute(segments))
      all == joined[Len(segments)]
  IN IF all = <<>> /\ ~IsAbsolute(segments) THEN <<Dot>> ELSE all

(* A path that ends with a slash is that of index.html in the directory. *)
Completed(pathname) ==
  IF pathname[Len(pathname)] = Empty
  THEN [pathname EXCEPT ![Len(pathname)] = Index] ELSE pathname

Refused(status) == [status |-> status, version |-> Empty, resource |-> <<>>]

(* parsePathname: /<version>/<resource>.  An empty version is not refused. *)
ParsePathname(pathname) ==
  IF Len(pathname) = 1 \/ pathname = <<Empty, Empty>> THEN Refused(404)
  ELSE LET resource == Normalized(Tail(Completed(pathname)))
       IN IF resource # <<>> /\ Head(resource) = Up THEN Refused(400)
          ELSE [status |-> 200, version |-> Head(pathname), resource |-> resource]

(* Mutant: the path is joined, with the version as one more segment. *)
VirtualPathJoined(version, resource) == Normalized(<<Game, version, Html>> \o resource)

(* The path below ARTIFACTS.  The lookup skips empty segments: that of an  *)
(* empty version, a resource has none.                                     *)
VirtualPath(version, resource) ==
  (IF version = Empty THEN <<Game, Html>> ELSE <<Game, version, Html>>) \o resource

(* dbfsResolveFileNodeContentByPath: a directory is not found. *)
Resolve(version, resource) ==
  LET found == Find(ARTIFACTS, VirtualPath(version, resource))
  IN IF found \in DOMAIN hash THEN found ELSE NotFound

-----------------------------------------------------------------------------
PlayInit ==
  /\ Init
  /\ hash = <<>>
  /\ content = {}
  /\ request = Idle

Asked == {ParsePathname(pathname) : pathname \in Pathname}

(* The handler of the protocol, to the end of its transaction.  A refusal, *)
(* what is not found and content in the row are answered in the same step; *)
(* a blob has still to be opened.                                          *)
Handle(asked) ==
  LET file == Resolve(asked.version, asked.resource) IN
  /\ request.phase # "reading"
  /\ request' =
       IF asked.status # 200 \/ file = NotFound THEN Idle
       ELSE IF hash[file] \in Inline THEN Idle
       ELSE [Idle EXCEPT !.phase = "reading", !.file = file, !.hash = {hash[file]}]
  /\ UNCHANGED <<vars, hash, content>>

(* The fetch of the blob. *)
FetchBlob ==
  /\ request.phase = "reading"
  /\ request' = [request EXCEPT !.phase = "answered",
                                !.status = IF request.hash \subseteq content THEN 200 ELSE 500]
  /\ UNCHANGED <<vars, hash, content>>

(* The import of a file with the content h, the content first: its hash is *)
(* in the row of the file.                                                 *)
ImportFile(h) ==
  /\ content' = content \cup {h}
  /\ request' = OnTheWay
  /\ UNCHANGED <<vars, hash>>

ImportTree(i, path, h) ==
  /\ InsertTree(i, path)
  /\ h \in content
  /\ hash' = With(hash, [file \in {Fresh + Len(path) - 1} |-> h])
  /\ request' = OnTheWay
  /\ UNCHANGED content

Referenced == {hash[file] : file \in DOMAIN hash}

(* Mutant: content is purged whatever refers to it. *)
PurgeReferenced(G) ==
  /\ content' = content \ G
  /\ request' = OnTheWay
  /\ UNCHANGED <<vars, hash>>

(* DbfsContentCleanupJob and dbfsPurgeUnreferencedFileData. *)
Purge(G) ==
  /\ G \cap Referenced = {}
  /\ content' = content \ G
  /\ request' = OnTheWay
  /\ UNCHANGED <<vars, hash>>

(* DbfsNodeCleanupJob, to the end of its first transaction. *)
CleanUp(n) ==
  /\ DeleteTree(n)
  /\ hash' = [file \in DOMAIN hash \cap DOMAIN node' |-> hash[file]]
  /\ request' = [OnTheWay EXCEPT
       !.deleted = @ \/ request.file \in DOMAIN hash \ DOMAIN node']
  /\ UNCHANGED content

(* The other operations on the tree. *)
Arrange ==
  /\ \/ \E a \in Anchor, path \in Path, recursive \in BOOLEAN :
          MakeDirectory(a, path, recursive)
     \/ \E i \in Import, name \in Name : CreatePlaceholder(i, name)
     \/ \E i \in Import, path \in Path, name \in Name : ReplacePlaceholder(i, path, name)
     \/ \E i \in Import : AbandonImport(i)
     \/ \E n \in Node : DeleteArtifact(n)
  /\ request' = OnTheWay
  /\ UNCHANGED <<hash, content>>

PlayNext ==
  \/ \E asked \in Asked : Handle(asked)
  \/ FetchBlob
  \/ \E h \in Hash : ImportFile(h)
  \/ \E i \in Import, path \in Path, h \in Hash : ImportTree(i, path, h)
  \/ \E G \in SUBSET Hash : Purge(G)
  \/ \E n \in Node : CleanUp(n)
  \/ Arrange

PlaySpec == PlayInit /\ [][PlayNext]_playVars
-----------------------------------------------------------------------------
(* The values the variables take: the files of the tree are those that     *)
(* have a hash.                                                            *)
PlayTypeOK ==
  /\ hash \in [{n \in DOMAIN node : node[n] = "F"} -> Hash]
  /\ content \subseteq Hash
  /\ request \in [phase : {"idle", "reading", "answered"},
                  status : {0, 200, 500}, file : Node \cup {NotFound},
                  hash : SUBSET Hash, deleted : BOOLEAN]

(* What trees refer to can be read, and a request under way reads what its *)
(* file refers to, unless the file has been deleted.                       *)
ContentKept ==
  /\ Referenced \subseteq content
  /\ request.phase = "reading" /\ ~request.deleted =>
       request.file \in DOMAIN hash /\ request.hash = {hash[request.file]}

(* A request that has found its file is answered with its content, however *)
(* much is imported, deleted and purged between its transaction and its    *)
(* fetch; it fails only if the tree of the file has been cleaned up since. *)
ServedWhileKept == request.status = 500 => request.deleted

(* The tree with its content, and the request.  It is inductive. *)
PlayInv == TreeInv /\ PlayTypeOK /\ ContentKept /\ ServedWhileKept

(* Where an artifact is: its game, version and platform. *)
IsAt(n, version) ==
  /\ member[n].name = Html
  /\ member[n].parent \in DOMAIN member
  /\ LET dir == member[member[n].parent]
     IN dir.name = version /\ dir.parent \in DOMAIN member
        /\ member[dir.parent] = [parent |-> ARTIFACTS, name |-> Game]

(* The files that can be asked for. *)
Askable == {q \in Asked : q.status = 200 /\ q.version # Empty}

(* What a URL of a version finds is the file that has been imported into   *)
(* the html artifact of this version at the path of the URL, of no other   *)
(* game, version or platform, and it is found wherever there is one.       *)
(* Excepted are nodes that a late import has filled or moved: they may     *)
(* show other files, too, and the empty version: its path is that of a     *)
(* version "html".                                                         *)
FoundIsImported ==
  Strayed \/ \A q \in Askable :
    LET there == {n \in DOMAIN artifact :
                    artifact[n] = q.resource /\ artifact[n] # <<>> /\ IsAt(n, q.version)}
        other == {n \in late : IsAt(n, q.version)}
        file == Resolve(q.version, q.resource)
    IN /\ \A n \in there : file \in Below(n)
       /\ file # NotFound => \E n \in there \cup other : file \in Below(n)

(* ContentStore with a tree for each file. *)
Files == 1 .. MaxNode
Refs == [file \in Files |-> IF file \in DOMAIN hash THEN {hash[file]} ELSE {}]
Store == INSTANCE ContentStore WITH Imports <- Files, refs <- Refs

(* What this module assumes of the content is what ContentStore promises,  *)
(* and what BlobStore implements: trees are attached to content that is    *)
(* there, and nothing is purged that a tree refers to.                     *)
UsesContentStore == Store!Spec
=============================================================================
