-------------------------------- MODULE Dbfs --------------------------------
(***************************************************************************)
(* The file tree in the tables node, node_directory, node_file and         *)
(* node_member: its operations (Create.mts, Lookup.mts,                    *)
(* DbfsNodeCleanupJob.mts, the moves of DefaultArtifactOperationService    *)
(* and the inserts of NodeArtifactsIoService).  Each is one transaction.   *)
(*                                                                         *)
(* A path is the sequence of its segments after posix.normalize; paths     *)
(* that are empty or leave the anchor are refused before the database is   *)
(* asked.                                                                  *)
(*                                                                         *)
(* An import knows its node by the number only: it goes on when its        *)
(* artifact has been deleted, and into whatever has the number by then.    *)
(***************************************************************************)
EXTENDS Integers, FiniteSets, Sequences

CONSTANTS
  Name,      \* the names of members
  Anchor,    \* the nodes dbfsMakeDirectoryNode is asked to start from
  Import,    \* bound: the imports that can be under way at a time
  MaxLate,   \* bound: those of them whose artifact has been deleted
  MaxNode,   \* bound: the largest node number
  MaxDepth   \* bound: the segments of a path

ASSUME BoundAssumption == MaxNode \in Nat /\ MaxLate \in Nat /\ MaxDepth \in Nat \ {0}

(* WellKnownDirectory *)
ROOT          == 0
CLEANUP_QUEUE == -4
ARTIFACTS     == -3
TMP           == -2
TMP_IMPORT    == -129
WellKnown     == {ROOT, TMP, TMP_IMPORT, ARTIFACTS, CLEANUP_QUEUE}

Node     == WellKnown \cup 1 .. MaxNode

ASSUME AnchorAssumption == Anchor \subseteq Node

Path     == UNION {[1 .. k -> Name] : k \in 1 .. MaxDepth}
NotFound == MaxNode + 1
Failed   == MaxNode + 2

VARIABLES
  node,    \* node: the type of each node, with node_directory or node_file
  member,  \* node_member: the parent and name of each node that has one
  artifact, \* game_version_artifact.node_no, with the path of the file that
            \* has been imported into each, or no path
  made,    \* history: the directory that dbfsMakeDirectoryNode has returned
           \* last, until the next operation
  imports, \* the imports under way: the node number each holds, whether its
           \* tree is inserted, and whether its artifact is still its own
  late     \* history: the nodes that an import has filled or moved although
           \* its artifact had been deleted, and ROOT if such a number had
           \* become that of some other node of the tree

vars == <<node, member, artifact, made, imports, late>>

Nothing  == [anchor |-> ROOT, path |-> <<>>, made |-> NotFound]
NoImport == [node |-> NotFound, stage |-> "none", own |-> FALSE]

(* The well known directories are not made or looked up by name here: the  *)
(* names in Name are not theirs.                                           *)
WellKnownMember ==
  [n \in WellKnown \ {ROOT} |->
     [parent |-> IF n = TMP_IMPORT THEN TMP ELSE ROOT, name |-> n]]

Init ==
  /\ node = [n \in WellKnown |-> "D"]
  /\ member = WellKnownMember
  /\ artifact = <<>>
  /\ made = Nothing
  /\ imports = [i \in Import |-> NoImport]
  /\ late = {}

(* The first row of node_member with the parent and the name: the pair is  *)
(* unique.                                                                 *)
ChildIn(members, p, name) ==
  LET there == {n \in DOMAIN members : members[n] = [parent |-> p, name |-> name]}
  IN IF there = {} THEN NotFound ELSE CHOOSE n \in there : TRUE
Child(p, name) == ChildIn(member, p, name)

(* INTEGER PRIMARY KEY: one more than the largest number in use. *)
Fresh == 1 + CHOOSE n \in DOMAIN node : \A m \in DOMAIN node : m <= n

-----------------------------------------------------------------------------
(* Walked(a, path)[k] is the node reached from a by k segments, the        *)
(* recursive common table expression of Create.mts and Lookup.mts.         *)
WalkedIn(members, start, path) ==
  LET walk[k \in 0 .. Len(path)] ==
        IF k = 0 THEN start ELSE ChildIn(members, walk[k - 1], path[k])
  IN walk
Walked(a, path) ==
  WalkedIn(member, IF a \in DOMAIN node THEN a ELSE NotFound, path)

(* dbfsFindNodeNoByPath. *)
Find(a, path) == Walked(a, path)[Len(path)]

(* How much of the path exists, and where it ends. *)
Depth(a, path) ==
  LET walked == Walked(a, path)
  IN CHOOSE k \in 0 .. Len(path) :
       /\ walked[k] # NotFound
       /\ k < Len(path) => walked[k + 1] = NotFound
InsertionPoint(a, path) == Walked(a, path)[Depth(a, path)]

(* The directories that are missing. *)
Missing(a, path) == Len(path) - Depth(a, path)

(* Mutant: what is found need not be a directory. *)
OutcomeAny(a, path, recursive) ==
  IF a \notin DOMAIN node THEN Failed
  ELSE IF Len(path) > 1 /\ ~recursive /\ Missing(a, path) # 1 THEN Failed
  ELSE IF Missing(a, path) = 0 THEN InsertionPoint(a, path)
  ELSE NotFound

(* What dbfsMakeDirectoryNode does without making anything: it fails, or   *)
(* finds the directory.  With one segment (the fast path) an existing      *)
(* directory is found; with several only if it may make all of them: the   *)
(* branch meant for it compares a number with a bigint.                    *)
Outcome(a, path, recursive) ==
  IF a \notin DOMAIN node THEN Failed                              \* ENOENT
  ELSE IF node[InsertionPoint(a, path)] # "D" THEN Failed          \* EEXIST
  ELSE IF Len(path) > 1 /\ ~recursive /\ Missing(a, path) # 1 THEN Failed
  ELSE IF Missing(a, path) = 0 THEN InsertionPoint(a, path)
  ELSE NotFound

(* A table with new rows. *)
With(rows, new) ==
  [n \in DOMAIN rows \cup DOMAIN new |-> IF n \in DOMAIN new THEN new[n] ELSE rows[n]]

(* The members of the chain of new nodes for the segments of path after    *)
(* the first at, below p.                                                  *)
Chain(p, path, at) ==
  LET first == Fresh
      last == first + Len(path) - at - 1
  IN With(member, [n \in first .. last |->
                     [parent |-> IF n = first THEN p ELSE n - 1,
                      name |-> path[at + 1 + n - first]]])

(* dbfsMakeSimpleDirectoryNode for each segment that is missing; the       *)
(* directory is the last.                                                  *)
WithDirectory(a, path) ==
  [node |-> With(node, [n \in Fresh .. Fresh + Missing(a, path) - 1 |-> "D"]),
   member |-> Chain(InsertionPoint(a, path), path, Depth(a, path)),
   made |-> Fresh + Missing(a, path) - 1]

(* dbfsMakeDirectoryNode. *)
MakeDirectory(a, path, recursive) ==
  LET outcome == Outcome(a, path, recursive)
      with == WithDirectory(a, path) IN
  /\ IF outcome # NotFound
     THEN /\ made' = IF outcome = Failed THEN Nothing
                     ELSE [anchor |-> a, path |-> path, made |-> outcome]
          /\ UNCHANGED <<node, member>>
     ELSE /\ with.made <= MaxNode
          /\ node' = with.node /\ member' = with.member
          /\ made' = [anchor |-> a, path |-> path, made |-> with.made]
  /\ UNCHANGED <<artifact, imports, late>>

(* createArtifactPlaceholder, and the import that is given its number. *)
CreatePlaceholder(i, name) ==
  /\ imports[i] = NoImport
  /\ Child(TMP_IMPORT, name) = NotFound
  /\ Fresh <= MaxNode
  /\ node' = With(node, [n \in {Fresh} |-> "D"])
  /\ artifact' = With(artifact, [n \in {Fresh} |-> <<>>])
  /\ member' = Chain(TMP_IMPORT, <<name>>, 0)
  /\ made' = Nothing
  /\ imports' = [imports EXCEPT ![i] = [node |-> Fresh, stage |-> "waiting", own |-> TRUE]]
  /\ UNCHANGED late

(* The imports whose artifact has been deleted. *)
Late == {i \in Import : imports[i] # NoImport /\ ~imports[i].own}

InQueue(n) == n \in DOMAIN member /\ member[n].parent = CLEANUP_QUEUE

(* What a late import leaves its mark on: the node it holds, if that is an *)
(* artifact, to be cleaned up, or marked before, and else the whole tree.  *)
Mark(n) ==
  IF n \in DOMAIN artifact \cup late \/ InQueue(n) THEN n ELSE ROOT
Marked(i) ==
  IF imports[i].own THEN late ELSE late \cup {Mark(imports[i].node)}

(* The schedule has one slot, so no job starts in the middle of an import. *)
SlotFree == \A i \in Import : imports[i].stage # "filled"

(* The transaction of importFromFsNode, for a directory that has one file, *)
(* at path, below the number the import holds.  It fails if that is not a  *)
(* directory (any more), or a member of it has the name.                   *)
InsertTree(i, path) ==
  LET n == imports[i].node
      last == Fresh + Len(path) - 1 IN
  /\ imports[i].stage = "waiting" /\ SlotFree
  /\ n \in DOMAIN node /\ node[n] = "D"
  /\ Child(n, Head(path)) = NotFound
  /\ last <= MaxNode
  /\ node' = With(node, [m \in Fresh .. last |-> IF m = last THEN "F" ELSE "D"])
  /\ member' = Chain(n, path, 0)
  /\ artifact' = [m \in DOMAIN artifact |-> IF m = n THEN path ELSE artifact[m]]
  /\ made' = Nothing
  /\ imports' = [imports EXCEPT ![i].stage = "filled"]
  /\ late' = Marked(i)

(* replaceArtifactPlaceholder: the directory of the version (two segments, *)
(* game and version, as long as the version has no slash in it) is made if *)
(* it is missing, and the node moved into it, wherever and whatever it is. *)
ReplacePlaceholder(i, path, name) ==
  LET n == imports[i].node
      outcome == Outcome(ARTIFACTS, path, TRUE)
      with == WithDirectory(ARTIFACTS, path)
      dir == IF outcome = NotFound THEN with.made ELSE outcome IN
  /\ imports[i].stage = "filled"
  /\ Len(path) = 2
  /\ outcome # Failed /\ dir <= MaxNode
  /\ Child(dir, name) \in {NotFound, n}
  /\ node' = with.node
  /\ member' = [with.member EXCEPT ![n] = [parent |-> dir, name |-> name]]
  /\ made' = Nothing
  /\ imports' = [imports EXCEPT ![i] = NoImport]
  /\ late' = Marked(i)
  /\ UNCHANGED artifact

(* An import whose files cannot be read, whose transaction is refused, or  *)
(* that ends with the process.                                             *)
AbandonImport(i) ==
  /\ imports[i] # NoImport
  /\ imports' = [imports EXCEPT ![i] = NoImport]
  /\ made' = Nothing
  /\ UNCHANGED <<node, member, artifact, late>>

(* Its import, if it has not ended, goes on with the number. *)
Disowned(n) ==
  [i \in Import |-> IF imports[i].node = n
                    THEN [imports[i] EXCEPT !.own = FALSE] ELSE imports[i]]

(* Mutant: the row of the artifact is kept. *)
DeleteArtifactKeepsRow(n) ==
  /\ n \in DOMAIN artifact
  /\ n \in DOMAIN member => Child(CLEANUP_QUEUE, member[n].name) \in {NotFound, n}
  /\ member' = [m \in DOMAIN member |->
                  IF m = n THEN [member[m] EXCEPT !.parent = CLEANUP_QUEUE] ELSE member[m]]
  /\ made' = Nothing
  /\ imports' = Disowned(n)
  /\ Cardinality(Late') <= MaxLate
  /\ UNCHANGED <<node, artifact, late>>

(* deleteArtifact: the name is kept, so it may be taken in the queue. *)
DeleteArtifact(n) ==
  /\ n \in DOMAIN artifact
  /\ n \in DOMAIN member => Child(CLEANUP_QUEUE, member[n].name) \in {NotFound, n}
  /\ artifact' = [m \in DOMAIN artifact \ {n} |-> artifact[m]]
  /\ member' = [m \in DOMAIN member |->
                  IF m = n THEN [member[m] EXCEPT !.parent = CLEANUP_QUEUE] ELSE member[m]]
  /\ made' = Nothing
  /\ imports' = Disowned(n)
  /\ Cardinality(Late') <= MaxLate
  /\ UNCHANGED <<node, late>>

(* node_to_delete: n and the nodes below it. *)
BelowIn(members, n) ==
  LET reached[k \in 0 .. Cardinality(DOMAIN members)] ==
        IF k = 0 THEN {n}
        ELSE LET above == reached[k - 1]
             IN above \cup {m \in DOMAIN members : members[m].parent \in above}
  IN reached[Cardinality(DOMAIN members)]
Below(n) == BelowIn(member, n)

(* Cleanups are of nodes that deleteArtifact has given, and a late import  *)
(* may have moved out of the queue again.                                  *)
ToCleanUp(n) ==
  n \in DOMAIN member /\ (InQueue(n) \/ n \in late \ DOMAIN artifact)

(* Mutant: the members of the node are removed, those below them not. *)
DeleteTreeFlat(n) ==
  /\ ToCleanUp(n) /\ SlotFree
  /\ LET gone == {n} \cup {m \in DOMAIN member : member[m].parent = n}
     IN /\ member' = [m \in DOMAIN member \ gone |-> member[m]]
        /\ node' = [m \in DOMAIN node \ gone |-> node[m]]
  /\ made' = Nothing
  /\ late' = late \cap DOMAIN node'
  /\ UNCHANGED <<artifact, imports>>

(* DbfsNodeCleanupJob: the members of the tree, and then the nodes that    *)
(* are not members of a directory.                                         *)
DeleteTree(n) ==
  /\ ToCleanUp(n) /\ SlotFree
  /\ member' = [m \in DOMAIN member \ Below(n) |-> member[m]]
  /\ node' = [m \in (DOMAIN node \cap DOMAIN member') \cup {ROOT} |-> node[m]]
  /\ made' = Nothing
  /\ late' = late \cap DOMAIN node'
  /\ UNCHANGED <<artifact, imports>>

Next ==
  \/ \E a \in Anchor, path \in Path, recursive \in BOOLEAN :
       MakeDirectory(a, path, recursive)
  \/ \E i \in Import :
       \/ \E name \in Name : CreatePlaceholder(i, name)
       \/ \E path \in Path : InsertTree(i, path)
       \/ \E path \in Path, name \in Name : ReplacePlaceholder(i, path, name)
       \/ AbandonImport(i)
  \/ \E n \in Node : DeleteArtifact(n) \/ DeleteTree(n)

Spec == Init /\ [][Next]_vars
-----------------------------------------------------------------------------
(* The values the variables take. *)
TypeOK ==
  /\ DOMAIN node \subseteq Node /\ node \in [DOMAIN node -> {"D", "F"}]
  /\ member \in [DOMAIN node \ {ROOT} -> [parent : Node, name : Name \cup WellKnown]]
  /\ DOMAIN artifact \subseteq 1 .. MaxNode /\ artifact \in [DOMAIN artifact -> Path \cup {<<>>}]
  /\ made \in [anchor : Node, path : Path \cup {<<>>}, made : Node \cup {NotFound}]
  /\ imports \in [Import -> {NoImport} \cup
                    [node : 1 .. MaxNode, stage : {"waiting", "filled"}, own : BOOLEAN]]
  /\ late \subseteq (DOMAIN node \ WellKnown) \cup {ROOT}

(* Every node but the root is in exactly one directory, which exists, and  *)
(* the names in a directory differ.                                        *)
RowsFit ==
  \A n \in DOMAIN member :
    /\ member[n].parent \in DOMAIN node /\ node[member[n].parent] = "D"
    /\ \A m \in DOMAIN member : member[m] = member[n] => m = n

(* The well known directories stay where they are. *)
WellKnownKept ==
  /\ \A n \in WellKnown : n \in DOMAIN node /\ node[n] = "D"
  /\ \A n \in WellKnown \ {ROOT} : member[n] = WellKnownMember[n]

(* One import at a time, into a directory that stays until it ends. *)
OneSlot ==
  \A i, j \in Import : imports[i].stage = "filled" =>
    /\ imports[i].node \in DOMAIN node /\ node[imports[i].node] = "D"
    /\ imports[j].stage = "filled" => i = j

(* A late import has put files into, or has moved, a node that has nothing *)
(* to do with any deleted artifact, because its number was given out again *)
(* below one.  From then on nothing is said of the tree but what holds of  *)
(* its rows.                                                               *)
Strayed == ROOT \in late

(* Every node is below the root. *)
OneTree == Below(ROOT) = DOMAIN node

(* In the directory of a version, which is in that of a game. *)
InVersion(n) ==
  \E dir, above \in DOMAIN member :
    /\ member[n].parent = dir
    /\ member[dir].parent = above
    /\ member[above].parent = ARTIFACTS

(* Where the directories of the artifacts are, and the late ones.  *)
ArtifactsPlaced ==
  \A n \in DOMAIN artifact \cup late :
    /\ n \in DOMAIN node \ WellKnown /\ node[n] = "D"
    /\ \/ member[n].parent = TMP_IMPORT
       \/ InVersion(n)
       \/ InQueue(n) /\ n \notin DOMAIN artifact

(* An import whose artifact has not been deleted has its own placeholder   *)
(* in the import directory, unless a late one has come before it.          *)
ImportsPlaced ==
  \A i \in Import : imports[i].own =>
    LET n == imports[i].node IN
    /\ n \in DOMAIN artifact
    /\ \A j \in Import : imports[j].own /\ imports[j].node = n => j = i
    /\ n \notin late => /\ member[n].parent = TMP_IMPORT
                        /\ (imports[i].stage = "waiting") <=> (artifact[n] = <<>>)

FilesBelow(n) == {file \in Below(n) : node[file] = "F"}

(* An artifact has the file that has been imported into it, at its path,   *)
(* and no other; each file is below an artifact or is to be cleaned up.    *)
FilesOwned ==
  /\ \A n \in DOMAIN artifact :
       /\ artifact[n] # <<>> => Find(n, artifact[n]) \in FilesBelow(n)
       /\ n \notin late => \A file \in FilesBelow(n) :
            artifact[n] # <<>> /\ file = Find(n, artifact[n])
  /\ \A file \in DOMAIN node :
       node[file] = "F" =>
         \E n \in DOMAIN member :
           (n \in DOMAIN artifact \/ ToCleanUp(n)) /\ file \in Below(n)

(* What dbfsMakeDirectoryNode returns is a directory, and the one that     *)
(* dbfsFindNodeNoByPath finds at this path.                                *)
FoundAsMade ==
  made.made # NotFound =>
    /\ Find(made.anchor, made.path) = made.made
    /\ node[made.made] = "D"

(* The tree and the artifacts in it.  It is inductive. *)
TreeInv ==
  /\ TypeOK /\ RowsFit /\ WellKnownKept /\ OneSlot
  /\ FoundAsMade
  /\ \/ Strayed
     \/ OneTree /\ ArtifactsPlaced /\ ImportsPlaced /\ FilesOwned

(* An artifact is found with what has been imported into it, whatever is   *)
(* made, moved and cleaned up around it, by late imports, too, unless one  *)
(* has strayed: its file is there, and nothing of it is in the cleanup     *)
(* queue.                                                                  *)
ArtifactsAreKept ==
  Strayed \/ \A n \in DOMAIN artifact :
    /\ n \in Below(TMP_IMPORT) \cup Below(ARTIFACTS)
    /\ artifact[n] # <<>> =>
         LET file == Find(n, artifact[n])
         IN file # NotFound /\ node[file] = "F"
=============================================================================
