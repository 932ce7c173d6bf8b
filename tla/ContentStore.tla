---------------------------- MODULE ContentStore ----------------------------
(***************************************************************************)
(* What the content addressable file store promises to the rest of the    *)
(* application, whatever rows, blobs, staged files, transactions and       *)
(* garbage collectors it is made of: a directory tree is only attached to  *)
(* content that can be read, and content that a tree refers to stays       *)
(* readable until the tree is detached.  BlobStore implements it.          *)
(***************************************************************************)
CONSTANTS
  Hash,     \* the content hashes
  Imports   \* the imported trees

VARIABLES
  content,  \* the hashes whose content can be read
  refs      \* the hashes the files of each tree refer to

vars == <<content, refs>>

Referenced == UNION {refs[i] : i \in Imports}

Init ==
  /\ content = {}
  /\ refs = [i \in Imports |-> {}]

(* New content becomes readable, as a whole. *)
Put(h) ==
  /\ content' = content \cup {h}
  /\ UNCHANGED refs

(* A tree appears, as a whole, over readable content. *)
Attach(i, H) ==
  /\ H \subseteq content
  /\ refs' = [refs EXCEPT ![i] = H]
  /\ UNCHANGED content

(* Trees are deleted; their content may remain for a while. *)
Detach(I) ==
  /\ refs' = [i \in Imports |-> IF i \in I THEN {} ELSE refs[i]]
  /\ UNCHANGED content

(* Content nobody refers to is given back. *)
Collect(G) ==
  /\ G \cap Referenced = {}
  /\ content' = content \ G
  /\ UNCHANGED refs

Next ==
  \/ \E h \in Hash : Put(h)
  \/ \E i \in Imports, H \in SUBSET Hash : Attach(i, H)
  \/ \E I \in SUBSET Imports : Detach(I)
  \/ \E G \in SUBSET Hash : Collect(G)

Spec == Init /\ [][Next]_vars

(* Every file of every tree can be read. *)
ReferencedIsReadable == Referenced \subseteq content
=============================================================================
