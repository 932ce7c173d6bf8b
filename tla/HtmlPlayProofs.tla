--------------------------- MODULE HtmlPlayProofs ---------------------------
(***************************************************************************)
(* The file tree and the requests of game windows, for any names, hashes,  *)
(* anchors and bounds: the inductive invariants TreeInv and PlayInv and    *)
(* what follows from them.                                                 *)
(***************************************************************************)
EXTENDS HtmlPlay, FiniteSetTheorems, WellFoundedInduction, TLAPS

(* A set of natural numbers has a least one: the inductions over the steps *)
(* of a walk rest on it.                                                   *)
LEMMA LeastOf ==
  ASSUME NEW T \in SUBSET Nat, T # {}
  PROVE  \E x \in T : \A y \in T : x <= y
<1> DEFINE R == StrictSubsetOrdering(Nat)
           U == {0 .. x : x \in T}
<1>1. U \in SUBSET FiniteSubsetsOf(Nat) /\ U # {}
  <2>1. \A x \in T : 0 .. x \subseteq Nat /\ IsFiniteSet(0 .. x)
    BY FS_Interval
  <2> QED
    BY <2>1 DEF FiniteSubsetsOf
<1>2. \E x \in U : \A y \in U : ~ (<<y, x>> \in R)
  BY <1>1, FS_StrictSubsetOrderingWellFounded, WFMin
<1>3. PICK x \in T : \A y \in T : <<0 .. y, 0 .. x>> \notin R
  BY <1>2
<1>4. ASSUME NEW y \in T, y < x PROVE FALSE
  <2>1. /\ 0 .. y \in SUBSET Nat /\ 0 .. x \in SUBSET Nat
        /\ 0 .. y \subseteq 0 .. x /\ x \in 0 .. x /\ x \notin 0 .. y
    BY <1>4
  <2> QED
    BY <2>1, <1>3 DEF StrictSubsetOrdering
<1> QED
  BY <1>3, <1>4

(* What holds of 0 and is passed on holds up to n. *)
LEMMA Steps ==
  ASSUME NEW n \in Nat, NEW T \in SUBSET (0 .. n), 0 \in T,
         \A k \in 0 .. n - 1 : k \in T => k + 1 \in T
  PROVE  T = 0 .. n
<1> SUFFICES ASSUME (0 .. n) \ T # {} PROVE FALSE
  OBVIOUS
<1>0. (0 .. n) \ T \in SUBSET Nat
  OBVIOUS
<1>1. PICK k \in (0 .. n) \ T : \A y \in (0 .. n) \ T : k <= y
  BY <1>0, LeastOf
<1>2. k - 1 \in 0 .. n - 1 /\ k - 1 \in T
  BY <1>1
<1> QED
  BY <1>1, <1>2

-----------------------------------------------------------------------------
(* The table node_member. *)
Table(m) ==
  /\ DOMAIN m \subseteq Node /\ m \in [DOMAIN m -> [parent : Node, name : Name \cup WellKnown]]
  /\ \A x, y \in DOMAIN m : m[x] = m[y] => x = y

LEMMA NotANode == NotFound \notin Node /\ Failed \notin Node /\ NotFound # Failed
BY BoundAssumption DEF NotFound, Failed, Node, WellKnown, ROOT, TMP, TMP_IMPORT,
   ARTIFACTS, CLEANUP_QUEUE

(* A name in a directory: the member that has it, or none. *)
LEMMA ChildIs ==
  ASSUME NEW m, Table(m), NEW p, NEW name
  PROVE  /\ ChildIn(m, p, name) # NotFound =>
              /\ ChildIn(m, p, name) \in DOMAIN m
              /\ m[ChildIn(m, p, name)] = [parent |-> p, name |-> name]
         /\ \A n \in DOMAIN m : m[n] = [parent |-> p, name |-> name] =>
              ChildIn(m, p, name) = n
         /\ ChildIn(m, p, name) = NotFound =>
              \A n \in DOMAIN m : m[n] # [parent |-> p, name |-> name]
<1> DEFINE there == {n \in DOMAIN m : m[n] = [parent |-> p, name |-> name]}
<1>1. CASE there = {}
  <2>1. ChildIn(m, p, name) = NotFound
    BY <1>1 DEF ChildIn
  <2> QED
    BY <1>1, <2>1
<1>2. CASE there # {}
  <2>1. ChildIn(m, p, name) = CHOOSE n \in there : TRUE
    BY <1>2 DEF ChildIn
  <2>2. ChildIn(m, p, name) \in there
    BY <1>2, <2>1
  <2>3. \A n \in there : n = ChildIn(m, p, name)
    BY <2>2 DEF Table
  <2> QED
    BY <2>2, <2>3, NotANode DEF Table
<1> QED
  BY <1>1, <1>2

(* The recursion of a walk of n steps. *)
IsWalk(m, start, path, n, h) ==
  h = [k \in 0 .. n |-> IF k = 0 THEN start ELSE ChildIn(m, h[k - 1], path[k])]

(* It defines a function. *)
LEMMA WalkExists ==
  ASSUME NEW m, NEW start, NEW path, NEW n \in Nat
  PROVE  \E h : IsWalk(m, start, path, n, h)
<1> DEFINE Is(h, j) == IsWalk(m, start, path, j, h)
           T == {j \in 0 .. n : \E h : Is(h, j)}
<1>1. 0 \in T
  <2>1. Is([k \in 0 .. 0 |-> start], 0)
    BY DEF IsWalk
  <2> HIDE DEF Is
  <2> QED
    BY <2>1
<1>2. ASSUME NEW j \in 0 .. n - 1, j \in T PROVE j + 1 \in T
  <2>1. PICK h : Is(h, j)
    BY <1>2
  <2> DEFINE g == [k \in 0 .. j + 1 |->
                     IF k = j + 1 THEN ChildIn(m, h[j], path[j + 1]) ELSE h[k]]
  <2>2. \A k \in 0 .. j : g[k] = h[k]
    OBVIOUS
  <2>3. \A k \in 0 .. j + 1 :
          g[k] = IF k = 0 THEN start ELSE ChildIn(m, g[k - 1], path[k])
    <3> SUFFICES ASSUME NEW k \in 0 .. j + 1
                 PROVE  g[k] = IF k = 0 THEN start ELSE ChildIn(m, g[k - 1], path[k])
      OBVIOUS
    <3>1. CASE k = j + 1
      BY <3>1, <2>2
    <3>2. CASE k \in 0 .. j
      <4>1. g[k] = h[k] /\ (k # 0 => g[k - 1] = h[k - 1])
        BY <2>2, <3>2
      <4>2. h[k] = IF k = 0 THEN start ELSE ChildIn(m, h[k - 1], path[k])
        BY <2>1, <3>2 DEF IsWalk
      <4> QED
        BY <4>1, <4>2
    <3> QED
      BY <3>1, <3>2
  <2>4. Is(g, j + 1)
    BY <2>3 DEF IsWalk
  <2> HIDE DEF Is, g
  <2> QED
    BY <2>4
<1>3. T = 0 .. n
  <2> HIDE DEF T
  <2> QED
    BY <1>1, <1>2, Steps, T \in SUBSET (0 .. n) DEF T
<1> QED
  BY <1>3

LEMMA WalkDef ==
  ASSUME NEW m, NEW start, NEW path, Len(path) \in Nat
  PROVE  /\ DOMAIN WalkedIn(m, start, path) = 0 .. Len(path)
         /\ WalkedIn(m, start, path)[0] = start
         /\ \A k \in 1 .. Len(path) :
              WalkedIn(m, start, path)[k] =
                ChildIn(m, WalkedIn(m, start, path)[k - 1], path[k])
<1>1. PICK h : IsWalk(m, start, path, Len(path), h)
  BY WalkExists
<1> DEFINE walk[k \in 0 .. Len(path)] ==
             IF k = 0 THEN start ELSE ChildIn(m, walk[k - 1], path[k])
<1>2. walk = [k \in 0 .. Len(path) |->
                IF k = 0 THEN start ELSE ChildIn(m, walk[k - 1], path[k])]
  BY <1>1 DEF IsWalk
<1>3. WalkedIn(m, start, path) = walk
  BY DEF WalkedIn
<1> HIDE DEF walk
<1>4. \A k \in 1 .. Len(path) : k \in 0 .. Len(path) /\ k # 0
  OBVIOUS
<1> QED
  BY <1>2, <1>3, <1>4

(* The start of a walk is where it is; each later step goes from a node to *)
(* the member of it that has the name.                                     *)
LEMMA WalkUp ==
  ASSUME NEW m, Table(m), NEW start, NEW path, Len(path) \in Nat,
         NEW k \in 1 .. Len(path), WalkedIn(m, start, path)[k] # NotFound
  PROVE  /\ WalkedIn(m, start, path)[k] \in DOMAIN m
         /\ m[WalkedIn(m, start, path)[k]] =
              [parent |-> WalkedIn(m, start, path)[k - 1], name |-> path[k]]
         /\ WalkedIn(m, start, path)[k - 1] \in Node
<1> DEFINE w == WalkedIn(m, start, path)
<1>1. w[k] = ChildIn(m, w[k - 1], path[k])
  BY WalkDef
<1> HIDE DEF w
<1>2. w[k] \in DOMAIN m /\ m[w[k]] = [parent |-> w[k - 1], name |-> path[k]]
  BY <1>1, ChildIs DEF w
<1>3. m[w[k]].parent \in Node
  BY <1>2 DEF Table
<1> QED
  BY <1>2, <1>3 DEF w

(* A walk that goes on has not ended before. *)
LEMMA WalkPasses ==
  ASSUME NEW m, Table(m), NEW start, NEW path, Len(path) \in Nat,
         NEW k \in 0 .. Len(path), WalkedIn(m, start, path)[k] # NotFound
  PROVE  \A i \in 0 .. k : WalkedIn(m, start, path)[i] # NotFound
<1> DEFINE w == WalkedIn(m, start, path)
           T == {i \in 0 .. k : w[k - i] # NotFound}
<1> HIDE DEF w
<1>1. 0 \in T
  BY DEF w
<1>2. ASSUME NEW i \in 0 .. k - 1, i \in T PROVE i + 1 \in T
  <2>1. k - i \in 1 .. Len(path) /\ k - (i + 1) = (k - i) - 1 /\ i + 1 \in 0 .. k
    OBVIOUS
  <2>2. w[(k - i) - 1] \in Node
    BY <1>2, <2>1, WalkUp DEF w
  <2> QED
    BY <2>1, <2>2, NotANode
<1>3. T = 0 .. k
  <2>1. T \in SUBSET (0 .. k)
    OBVIOUS
  <2> HIDE DEF T
  <2> QED
    BY <1>1, <1>2, <2>1, Steps
<1>4. \A i \in 0 .. k : k - i \in T /\ k - (k - i) = i
  BY <1>3
<1> QED
  BY <1>4 DEF w

(* Whatever leads from node to node by the names of a path is the walk.    *)
LEMMA WalkIs ==
  ASSUME NEW m, Table(m), NEW start, NEW path, Len(path) \in Nat,
         NEW j \in 0 .. Len(path), NEW v, v[0] = start,
         \A k \in 1 .. j : v[k] \in DOMAIN m /\ m[v[k]] = [parent |-> v[k - 1], name |-> path[k]]
  PROVE  \A k \in 0 .. j : WalkedIn(m, start, path)[k] = v[k]
<1> DEFINE w == WalkedIn(m, start, path)
           T == {k \in 0 .. j : w[k] = v[k]}
<1>0. /\ w[0] = start
      /\ \A k \in 1 .. Len(path) : w[k] = ChildIn(m, w[k - 1], path[k])
  BY WalkDef
<1> HIDE DEF w
<1>1. 0 \in T
  BY <1>0
<1>2. ASSUME NEW k \in 0 .. j - 1, k \in T PROVE k + 1 \in T
  <2>1. k + 1 \in 1 .. j /\ k + 1 \in 1 .. Len(path) /\ (k + 1) - 1 = k
    OBVIOUS
  <2>2. w[k + 1] = ChildIn(m, v[k], path[k + 1])
    BY <1>0, <1>2, <2>1
  <2>3. v[k + 1] \in DOMAIN m /\ m[v[k + 1]] = [parent |-> v[k], name |-> path[k + 1]]
    BY <2>1
  <2>4. w[k + 1] = v[k + 1]
    BY <2>2, <2>3, ChildIs
  <2> QED
    BY <2>1, <2>4
<1>3. T = 0 .. j
  <2>1. T \in SUBSET (0 .. j) /\ j \in Nat
    OBVIOUS
  <2> HIDE DEF T
  <2> QED
    BY <1>1, <1>2, <2>1, Steps
<1> QED
  BY <1>3 DEF w

-----------------------------------------------------------------------------
(* The set has, with a node, the members of this node. *)
Closed(m, S) == \A x \in DOMAIN m : m[x].parent \in S => x \in S

(* S and what is one step below it. *)
Grown(m, S) == S \cup {x \in DOMAIN m : m[x].parent \in S}

(* The recursion that reaches what is below n. *)
IsReach(m, n, j, h) ==
  h = [k \in 0 .. j |-> IF k = 0 THEN {n} ELSE Grown(m, h[k - 1])]

LEMMA ReachExists ==
  ASSUME NEW m, NEW n, NEW bound \in Nat
  PROVE  \E h : IsReach(m, n, bound, h)
<1> DEFINE Is(h, j) == IsReach(m, n, j, h)
           T == {j \in 0 .. bound : \E h : Is(h, j)}
<1>1. 0 \in T
  <2>1. Is([k \in 0 .. 0 |-> {n}], 0)
    BY DEF IsReach
  <2> HIDE DEF Is
  <2> QED
    BY <2>1
<1>2. ASSUME NEW j \in 0 .. bound - 1, j \in T PROVE j + 1 \in T
  <2>1. PICK h : Is(h, j)
    BY <1>2
  <2> DEFINE g == [k \in 0 .. j + 1 |-> IF k = j + 1 THEN Grown(m, h[j]) ELSE h[k]]
  <2>2. \A k \in 0 .. j : g[k] = h[k]
    OBVIOUS
  <2>3. \A k \in 0 .. j + 1 : g[k] = IF k = 0 THEN {n} ELSE Grown(m, g[k - 1])
    <3> SUFFICES ASSUME NEW k \in 0 .. j + 1
                 PROVE  g[k] = IF k = 0 THEN {n} ELSE Grown(m, g[k - 1])
      OBVIOUS
    <3>1. CASE k = j + 1
      BY <3>1, <2>2
    <3>2. CASE k \in 0 .. j
      <4>1. g[k] = h[k] /\ (k # 0 => g[k - 1] = h[k - 1])
        BY <2>2, <3>2
      <4>2. h[k] = IF k = 0 THEN {n} ELSE Grown(m, h[k - 1])
        BY <2>1, <3>2 DEF IsReach
      <4> QED
        BY <4>1, <4>2
    <3> QED
      BY <3>1, <3>2
  <2>4. Is(g, j + 1)
    BY <2>3 DEF IsReach
  <2> HIDE DEF Is, g
  <2> QED
    BY <2>4
<1>3. T = 0 .. bound
  <2> HIDE DEF T
  <2> QED
    BY <1>1, <1>2, Steps, T \in SUBSET (0 .. bound) DEF T
<1> QED
  BY <1>3

LEMMA NodesAreFinite ==
  ASSUME NEW S \in SUBSET Node
  PROVE  IsFiniteSet(S) /\ Cardinality(S) \in Nat
<1>1. Node \subseteq -129 .. MaxNode /\ IsFiniteSet(-129 .. MaxNode)
  BY FS_Interval, BoundAssumption
     DEF Node, WellKnown, ROOT, TMP, TMP_IMPORT, ARTIFACTS, CLEANUP_QUEUE
<1> QED
  BY <1>1, FS_Subset, FS_CardinalityType

(* As many steps as there are members reach everything below a node.       *)
LEMMA ReachIsClosed ==
  ASSUME NEW m, Table(m), NEW n, NEW h, IsReach(m, n, Cardinality(DOMAIN m), h)
  PROVE  Closed(m, h[Cardinality(DOMAIN m)])
<1> DEFINE N == Cardinality(DOMAIN m)
           Others(k) == (h[k] \cap DOMAIN m) \ {n}
           T == {k \in 0 .. N : n \in h[k] /\ (Closed(m, h[k]) \/ Cardinality(Others(k)) >= k)}
<1>0. N \in Nat /\ IsFiniteSet(DOMAIN m)
  BY NodesAreFinite DEF Table
<1>1. \A k \in 0 .. N : /\ IsFiniteSet(Others(k)) /\ Cardinality(Others(k)) \in Nat
                        /\ Cardinality(Others(k)) <= N
                        /\ Cardinality(Others(k)) = N => DOMAIN m = Others(k)
  <2> SUFFICES ASSUME NEW k \in 0 .. N
               PROVE /\ IsFiniteSet(Others(k)) /\ Cardinality(Others(k)) \in Nat
                     /\ Cardinality(Others(k)) <= N
                     /\ Cardinality(Others(k)) = N => DOMAIN m = Others(k)
    OBVIOUS
  <2>1. Others(k) \in SUBSET DOMAIN m
    OBVIOUS
  <2> HIDE DEF Others
  <2> QED
    BY <2>1, <1>0, FS_Subset, FS_CardinalityType
<1>2. 0 \in T
  <2>1. h[0] = {n} /\ 0 \in 0 .. N
    BY <1>0 DEF IsReach
  <2> HIDE DEF Others, N
  <2> QED
    BY <2>1, <1>1
<1>3. ASSUME NEW k \in 0 .. N - 1, k \in T PROVE k + 1 \in T
  <2>1. k + 1 \in 0 .. N /\ k + 1 # 0 /\ (k + 1) - 1 = k /\ k \in 0 .. N /\ k \in Nat
    BY <1>0
  <2>2. h[k + 1] = Grown(m, h[k])
    BY <2>1 DEF IsReach
  <2>3. n \in h[k + 1]
    BY <1>3, <2>2 DEF Grown
  <2>4. CASE Closed(m, h[k])
    <3>1. h[k + 1] = h[k]
      BY <2>2, <2>4 DEF Grown, Closed
    <3> QED
      BY <3>1, <2>1, <2>3, <2>4
  <2>5. CASE ~ Closed(m, h[k])
    <3>1. PICK x \in DOMAIN m : m[x].parent \in h[k] /\ x \notin h[k]
      BY <2>5 DEF Closed
    <3>2. x \notin Others(k) /\ Others(k) \cup {x} \in SUBSET Others(k + 1)
      BY <1>3, <3>1, <2>2 DEF Grown
    <3>3. Cardinality(Others(k)) >= k
      BY <1>3, <2>5
    <3> HIDE DEF Others
    <3>4. Cardinality(Others(k) \cup {x}) = Cardinality(Others(k)) + 1
      BY <3>2, <1>1, <2>1, FS_AddElement
    <3>5. Cardinality(Others(k) \cup {x}) <= Cardinality(Others(k + 1))
      BY <3>2, <1>1, <2>1, FS_Subset
    <3>6. Cardinality(Others(k + 1)) >= k + 1
      BY <1>1, <2>1, <3>3, <3>4, <3>5
    <3> QED
      BY <2>1, <2>3, <3>6
  <2> QED
    BY <2>4, <2>5
<1>4. N \in T
  <2>1. T \in SUBSET (0 .. N)
    OBVIOUS
  <2> HIDE DEF T, N
  <2> QED
    BY <1>0, <1>2, <1>3, <2>1, Steps
<1>5. CASE Cardinality(Others(N)) >= N
  <2>1. DOMAIN m = Others(N)
    <3> HIDE DEF Others, N
    <3> QED
      BY <1>0, <1>1, <1>5
  <2> QED
    BY <2>1 DEF Closed
<1> QED
  BY <1>4, <1>5

(* What is below a node: the node, the members of what is below it, and    *)
(* nothing else.                                                           *)
LEMMA BelowIs ==
  ASSUME NEW m, Table(m), NEW n
  PROVE  /\ n \in BelowIn(m, n) /\ BelowIn(m, n) \subseteq {n} \cup DOMAIN m
         /\ Closed(m, BelowIn(m, n))
         /\ \A S : n \in S /\ Closed(m, S) => BelowIn(m, n) \subseteq S
<1> DEFINE N == Cardinality(DOMAIN m)
           reached[k \in 0 .. N] ==
             IF k = 0 THEN {n}
             ELSE LET above == reached[k - 1]
                  IN above \cup {x \in DOMAIN m : m[x].parent \in above}
<1>0. N \in Nat
  BY NodesAreFinite DEF Table
<1>1. BelowIn(m, n) = reached[N]
  BY DEF BelowIn
<1>2. PICK h : IsReach(m, n, N, h)
  <2> HIDE DEF N
  <2> QED
    BY <1>0, ReachExists
<1>3. reached = [k \in 0 .. N |->
                   IF k = 0 THEN {n}
                   ELSE LET above == reached[k - 1]
                        IN above \cup {x \in DOMAIN m : m[x].parent \in above}]
  BY <1>2 DEF IsReach, Grown
<1> HIDE DEF reached
<1>4. IsReach(m, n, N, reached)
  BY <1>3 DEF IsReach, Grown
<1>5. Closed(m, reached[N])
  BY <1>4, ReachIsClosed
<1>6. ASSUME NEW S, n \in S, Closed(m, S)
      PROVE  \A k \in 0 .. N : n \in reached[k] /\ reached[k] \subseteq S
  <2> DEFINE T == {k \in 0 .. N : n \in reached[k] /\ reached[k] \subseteq S}
  <2>1. 0 \in T
    BY <1>0, <1>4, <1>6 DEF IsReach
  <2>2. ASSUME NEW k \in 0 .. N - 1, k \in T PROVE k + 1 \in T
    <3>1. k + 1 \in 0 .. N /\ k + 1 # 0 /\ (k + 1) - 1 = k
      BY <1>0
    <3>2. reached[k + 1] = Grown(m, reached[k])
      BY <1>4, <3>1 DEF IsReach
    <3> QED
      BY <1>6, <2>2, <3>1, <3>2 DEF Grown, Closed
  <2>3. T \in SUBSET (0 .. N)
    OBVIOUS
  <2>4. T = 0 .. N
    <3> HIDE DEF T, N
    <3> QED
      BY <1>0, <2>1, <2>2, <2>3, Steps
  <2> QED
    BY <2>4
<1>7. Closed(m, {n} \cup DOMAIN m)
  BY DEF Closed
<1>8. N \in 0 .. N
  BY <1>0
<1>9. n \in reached[N] /\ reached[N] \subseteq {n} \cup DOMAIN m
  BY <1>6, <1>7, <1>8
<1>10. \A S : n \in S /\ Closed(m, S) => reached[N] \subseteq S
  BY <1>6, <1>8
<1> QED
  BY <1>1, <1>5, <1>9, <1>10

(* Above what is below a node is the node, or what is below it too. *)
LEMMA ParentBelow ==
  ASSUME NEW m, Table(m), NEW n, NEW x \in BelowIn(m, n), x # n
  PROVE  x \in DOMAIN m /\ m[x].parent \in BelowIn(m, n)
<1> DEFINE S == BelowIn(m, n) \ {x}
<1>1. x \in DOMAIN m
  BY BelowIs
<1>2. CASE m[x].parent \notin BelowIn(m, n)
  <2>1. n \in S /\ Closed(m, S)
    BY <1>2, BelowIs DEF Closed
  <2>2. BelowIn(m, n) \subseteq S
    BY <2>1, BelowIs
  <2> QED
    BY <2>2
<1> QED
  BY <1>1, <1>2

LEMMA BelowBelow ==
  ASSUME NEW m, Table(m), NEW n, NEW x \in BelowIn(m, n)
  PROVE  BelowIn(m, x) \subseteq BelowIn(m, n)
BY BelowIs

(* Two trees neither of which is in the other have nothing in common. *)
LEMMA BelowApart ==
  ASSUME NEW m, Table(m), NEW n, NEW x, x \notin BelowIn(m, n), n \notin BelowIn(m, x)
  PROVE  BelowIn(m, x) \cap BelowIn(m, n) = {}
<1> DEFINE S == BelowIn(m, x) \ BelowIn(m, n)
<1>1. ASSUME NEW y \in DOMAIN m, m[y].parent \in S PROVE y \in S
  <2>1. y \in BelowIn(m, x)
    BY <1>1, BelowIs DEF Closed
  <2>2. y \in BelowIn(m, n) => y = n
    BY <1>1, ParentBelow
  <2> QED
    BY <2>1, <2>2
<1>2. x \in S /\ Closed(m, S)
  BY <1>1, BelowIs DEF Closed
<1>3. BelowIn(m, x) \subseteq S
  BY <1>2, BelowIs
<1> QED
  BY <1>3

(* What a walk finds is below its start. *)
LEMMA WalkBelow ==
  ASSUME NEW m, Table(m), NEW start, NEW path, Len(path) \in Nat,
         NEW k \in 0 .. Len(path), WalkedIn(m, start, path)[k] # NotFound
  PROVE  \A i \in 0 .. k : WalkedIn(m, start, path)[i] \in BelowIn(m, start)
<1> DEFINE w == WalkedIn(m, start, path)
           T == {i \in 0 .. k : w[i] \in BelowIn(m, start)}
<1>0. w[0] = start /\ \A i \in 0 .. k : w[i] # NotFound
  BY WalkDef, WalkPasses
<1> HIDE DEF w
<1>1. 0 \in T
  BY <1>0, BelowIs
<1>2. ASSUME NEW i \in 0 .. k - 1, i \in T PROVE i + 1 \in T
  <2>1. i + 1 \in 1 .. Len(path) /\ i + 1 \in 0 .. k /\ (i + 1) - 1 = i
    OBVIOUS
  <2>2. w[i + 1] \in DOMAIN m /\ m[w[i + 1]] = [parent |-> w[(i + 1) - 1], name |-> path[i + 1]]
    BY <1>0, <2>1, WalkUp DEF w
  <2> QED
    BY <1>2, <2>1, <2>2, BelowIs DEF Closed
<1>3. T \in SUBSET (0 .. k)
  OBVIOUS
<1>4. T = 0 .. k
  <2> HIDE DEF T
  <2> QED
    BY <1>1, <1>2, <1>3, Steps
<1> QED
  BY <1>4 DEF w

(* A walk stays what it is as long as the rows of its members do. *)
KeepsWalk(m, m2, start, path) ==
  /\ Table(m) /\ Table(m2) /\ Len(path) \in Nat
  /\ WalkedIn(m, start, path)[Len(path)] # NotFound
  /\ \A k \in 1 .. Len(path) : LET x == WalkedIn(m, start, path)[k]
                               IN x \in DOMAIN m2 /\ m2[x] = m[x]

LEMMA WalkKept ==
  ASSUME NEW m, NEW m2, NEW start, NEW path, KeepsWalk(m, m2, start, path)
  PROVE  \A k \in 0 .. Len(path) : WalkedIn(m2, start, path)[k] = WalkedIn(m, start, path)[k]
<1> USE DEF KeepsWalk
<1> DEFINE w == WalkedIn(m, start, path)
<1>1. w[0] = start /\ \A k \in 0 .. Len(path) : w[k] # NotFound
  BY WalkDef, WalkPasses
<1>2. \A k \in 1 .. Len(path) : m[w[k]] = [parent |-> w[k - 1], name |-> path[k]]
  BY <1>1, WalkUp
<1> HIDE DEF w
<1>3. \A k \in 1 .. Len(path) : w[k] \in DOMAIN m2 /\ m2[w[k]] = m[w[k]]
  BY DEF w
<1>4. \A k \in 0 .. Len(path) : WalkedIn(m2, start, path)[k] = w[k]
  BY <1>1, <1>2, <1>3, WalkIs
<1> QED
  BY <1>4 DEF w

(* What a new member takes from, and adds to, what is below a node. *)
LEMMA BelowAdded ==
  ASSUME NEW m, Table(m), NEW m2, Table(m2), NEW new,
         DOMAIN m2 = DOMAIN m \cup new, new \cap DOMAIN m = {},
         \A x \in DOMAIN m : m2[x] = m[x] /\ m[x].parent \notin new
  PROVE  /\ \A n : BelowIn(m, n) \subseteq BelowIn(m2, n)
         /\ \A n : BelowIn(m2, n) \subseteq BelowIn(m, n) \cup new
         /\ \A n \in new : BelowIn(m2, n) \subseteq new
         /\ \A n, p : /\ n \notin new /\ p \notin BelowIn(m, n)
                      /\ \A x \in new : m2[x].parent \in new \cup {p}
                      => BelowIn(m2, n) = BelowIn(m, n)
<1>1. ASSUME NEW n PROVE BelowIn(m, n) \subseteq BelowIn(m2, n)
  <2>1. Closed(m, BelowIn(m2, n)) /\ n \in BelowIn(m2, n)
    BY BelowIs DEF Closed
  <2> QED
    BY <2>1, BelowIs
<1>2. ASSUME NEW n PROVE BelowIn(m2, n) \subseteq BelowIn(m, n) \cup new
  <2>1. Closed(m2, BelowIn(m, n) \cup new) /\ n \in BelowIn(m, n)
    BY BelowIs DEF Closed
  <2> QED
    BY <2>1, BelowIs
<1>3. ASSUME NEW n \in new PROVE BelowIn(m2, n) \subseteq new
  <2>1. Closed(m2, new)
    BY DEF Closed
  <2> QED
    BY <2>1, BelowIs
<1>4. ASSUME NEW n, NEW p, n \notin new, p \notin BelowIn(m, n),
             \A x \in new : m2[x].parent \in new \cup {p}
      PROVE  BelowIn(m2, n) = BelowIn(m, n)
  <2>1. new \cap BelowIn(m, n) = {}
    BY <1>4, BelowIs
  <2>2. Closed(m2, BelowIn(m, n)) /\ n \in BelowIn(m, n)
    BY <1>4, <2>1, BelowIs DEF Closed
  <2>3. BelowIn(m2, n) \subseteq BelowIn(m, n)
    BY <2>2, BelowIs
  <2> QED
    BY <2>3, <1>1
<1> QED
  BY <1>1, <1>2, <1>3, <1>4

(* What moving c into d changes. *)
LEMMA BelowMoved ==
  ASSUME NEW m, Table(m), NEW m2, Table(m2), NEW c \in DOMAIN m, NEW d,
         DOMAIN m2 = DOMAIN m, m2[c].parent = d,
         \A x \in DOMAIN m \ {c} : m2[x] = m[x]
  PROVE  /\ BelowIn(m2, c) = BelowIn(m, c)
         /\ \A n : c \notin BelowIn(m, n) /\ d \notin BelowIn(m, n) =>
              BelowIn(m2, n) = BelowIn(m, n)
         /\ \A n : /\ DOMAIN m \subseteq BelowIn(m, n)
                   /\ d \notin BelowIn(m, c) /\ d \in {n} \cup DOMAIN m
                   => DOMAIN m \subseteq BelowIn(m2, n)
<1>1. BelowIn(m2, c) = BelowIn(m, c)
  <2>1. Closed(m2, BelowIn(m, c)) /\ Closed(m, BelowIn(m2, c))
    BY BelowIs DEF Closed
  <2> QED
    BY <2>1, BelowIs
<1>2. ASSUME NEW n, c \notin BelowIn(m, n), d \notin BelowIn(m, n)
      PROVE  BelowIn(m2, n) = BelowIn(m, n)
  <2>1. Closed(m2, BelowIn(m, n)) /\ n \in BelowIn(m, n)
    BY <1>2, BelowIs DEF Closed
  <2>2. BelowIn(m2, n) \subseteq BelowIn(m, n)
    BY <2>1, BelowIs
  <2>3. Closed(m, BelowIn(m2, n))
    <3> SUFFICES ASSUME NEW x \in DOMAIN m, m[x].parent \in BelowIn(m2, n)
                 PROVE  x \in BelowIn(m2, n)
      BY DEF Closed
    <3>1. x \in BelowIn(m, n)
      BY <2>2, BelowIs DEF Closed
    <3>2. x # c
      BY <3>1, <1>2
    <3> QED
      BY <3>2, BelowIs DEF Closed
  <2> QED
    BY <2>2, <2>3, BelowIs
<1>3. ASSUME NEW n, DOMAIN m \subseteq BelowIn(m, n),
             d \notin BelowIn(m, c), d \in {n} \cup DOMAIN m
      PROVE  DOMAIN m \subseteq BelowIn(m2, n)
  <2> DEFINE S == BelowIn(m2, n) \cup BelowIn(m, c)
  <2>1. Closed(m, S) /\ n \in S
    <3>1. ASSUME NEW x \in DOMAIN m, m[x].parent \in S PROVE x \in S
      <4>1. CASE m[x].parent \in BelowIn(m, c)
        BY <4>1, BelowIs DEF Closed
      <4>2. CASE m[x].parent \in BelowIn(m2, n)
        BY <4>2, BelowIs DEF Closed
      <4> QED
        BY <3>1, <4>1, <4>2
    <3> QED
      BY <3>1, BelowIs DEF Closed
  <2>2. DOMAIN m \subseteq S
    BY <2>1, <1>3, BelowIs
  <2>3. d \in BelowIn(m2, n)
    BY <2>2, <1>3, BelowIs
  <2>4. c \in BelowIn(m2, n)
    BY <2>3, BelowIs DEF Closed
  <2> QED
    BY <2>2, <2>4, <1>1, BelowBelow
<1> QED
  BY <1>1, <1>2, <1>3

(* What removing c with all that is below it changes. *)
LEMMA BelowCut ==
  ASSUME NEW m, Table(m), NEW m2, Table(m2), NEW c,
         DOMAIN m2 = DOMAIN m \ BelowIn(m, c),
         \A x \in DOMAIN m2 : m2[x] = m[x]
  PROVE  \A n : n \notin BelowIn(m, c) => BelowIn(m2, n) = BelowIn(m, n) \ BelowIn(m, c)
<1> SUFFICES ASSUME NEW n, n \notin BelowIn(m, c)
             PROVE  BelowIn(m2, n) = BelowIn(m, n) \ BelowIn(m, c)
  OBVIOUS
<1> DEFINE S == BelowIn(m, n) \ BelowIn(m, c)
           U == BelowIn(m2, n) \cup BelowIn(m, c)
<1>1. Closed(m2, S) /\ n \in S
  BY BelowIs DEF Closed
<1>2. Closed(m, U) /\ n \in U
  BY BelowIs DEF Closed
<1>3. BelowIn(m2, n) \subseteq S
  BY <1>1, BelowIs
<1>4. BelowIn(m, n) \subseteq U
  BY <1>2, BelowIs
<1> QED
  BY <1>3, <1>4

-----------------------------------------------------------------------------
(* The constants. *)
LEMMA WellKnownAre ==
  /\ WellKnown = {0, -2, -129, -3, -4}
  /\ ROOT = 0 /\ TMP = -2 /\ TMP_IMPORT = -129 /\ ARTIFACTS = -3 /\ CLEANUP_QUEUE = -4
  /\ Node = WellKnown \cup 1 .. MaxNode /\ MaxNode \in Nat
  /\ WellKnownMember[TMP_IMPORT].parent = TMP
  /\ \A n \in WellKnown \ {ROOT, TMP_IMPORT} : WellKnownMember[n].parent = ROOT
BY BoundAssumption DEF WellKnown, ROOT, TMP, TMP_IMPORT, ARTIFACTS, CLEANUP_QUEUE, Node,
   WellKnownMember

LEMMA PathIs ==
  ASSUME NEW path \in Path
  PROVE  /\ path \in Seq(Name) /\ Len(path) \in 1 .. MaxDepth /\ Len(path) \in Nat
         /\ DOMAIN path = 1 .. Len(path) /\ \A k \in 1 .. Len(path) : path[k] \in Name
<1>1. PICK k \in 1 .. MaxDepth : path \in [1 .. k -> Name]
  BY DEF Path
<1>2. k \in Nat /\ MaxDepth \in Nat
  BY BoundAssumption
<1>3. path \in Seq(Name) /\ Len(path) = k
  BY <1>1, <1>2
<1> QED
  BY <1>1, <1>2, <1>3

(* The number of a new node is larger than the others. *)
LEMMA FreshIs ==
  ASSUME TypeOK, ROOT \in DOMAIN node
  PROVE  Fresh \in Nat \ {0} /\ \A x \in DOMAIN node : x < Fresh
<1> DEFINE T == {MaxNode - x : x \in DOMAIN node}
<1>1. DOMAIN node \subseteq Int /\ \A x \in DOMAIN node : x <= MaxNode
  BY WellKnownAre DEF TypeOK
<1>2. T \in SUBSET Nat /\ T # {}
  BY <1>1, WellKnownAre
<1>3. PICK t \in T : \A y \in T : t <= y
  BY <1>2, LeastOf
<1>4. PICK x \in DOMAIN node : t = MaxNode - x
  BY <1>3
<1>5. ASSUME NEW y \in DOMAIN node PROVE y <= x
  <2>1. MaxNode - y \in T
    OBVIOUS
  <2>2. MaxNode - x <= MaxNode - y
    BY <1>3, <1>4, <2>1
  <2>3. x \in Int /\ y \in Int /\ MaxNode \in Nat
    BY <1>1, WellKnownAre
  <2> QED
    BY <2>2, <2>3
<1> DEFINE largest == CHOOSE n \in DOMAIN node : \A y \in DOMAIN node : y <= n
<1>6. largest \in DOMAIN node /\ \A y \in DOMAIN node : y <= largest
  BY <1>5
<1>7. Fresh = 1 + largest
  BY DEF Fresh
<1> HIDE DEF largest
<1>8. largest \in Int /\ 0 <= largest
  BY <1>1, <1>6, WellKnownAre
<1> QED
  BY <1>1, <1>6, <1>7, <1>8

(* What holds of the rows, whatever a late import has done. *)
RowsInv == TypeOK /\ RowsFit /\ WellKnownKept

LEMMA MemberIsTable ==
  ASSUME RowsInv
  PROVE  Table(member) /\ DOMAIN member = DOMAIN node \ {ROOT} /\ ROOT \in DOMAIN node
<1> USE DEF RowsInv
<1>1. DOMAIN member = DOMAIN node \ {ROOT} /\ DOMAIN member \subseteq Node
  BY DEF TypeOK
<1>2. member \in [DOMAIN member -> [parent : Node, name : Name \cup WellKnown]]
  BY <1>1 DEF TypeOK
<1>3. Table(member)
  BY <1>1, <1>2 DEF RowsFit, Table
<1>4. ROOT \in DOMAIN node
  BY DEF WellKnownKept, WellKnown
<1> QED
  BY <1>1, <1>3, <1>4

(* How far a walk gets. *)
LEMMA DepthIs ==
  ASSUME RowsInv, NEW a \in DOMAIN node, NEW path \in Path
  PROVE  /\ Walked(a, path) = WalkedIn(member, a, path)
         /\ Depth(a, path) \in 0 .. Len(path)
         /\ InsertionPoint(a, path) = WalkedIn(member, a, path)[Depth(a, path)]
         /\ InsertionPoint(a, path) # NotFound
         /\ InsertionPoint(a, path) \in DOMAIN node \cap Below(a)
         /\ Depth(a, path) < Len(path) =>
              Child(InsertionPoint(a, path), path[Depth(a, path) + 1]) = NotFound
         /\ Missing(a, path) = Len(path) - Depth(a, path)
<1> DEFINE w == WalkedIn(member, a, path)
           Ends(k) == w[k] # NotFound /\ (k < Len(path) => w[k + 1] = NotFound)
<1>0. Walked(a, path) = w
  BY DEF Walked
<1>1. Table(member) /\ Len(path) \in Nat /\ a \in Node
  BY MemberIsTable, PathIs DEF RowsInv, TypeOK
<1>2. /\ w[0] = a
      /\ \A k \in 1 .. Len(path) : w[k] = Child(w[k - 1], path[k])
  BY <1>1, WalkDef DEF Child
<1> HIDE DEF w
<1>3. \E k \in 0 .. Len(path) : Ends(k)
  <2> SUFFICES ASSUME \A k \in 0 .. Len(path) : ~ Ends(k) PROVE FALSE
    OBVIOUS
  <2> DEFINE T == {k \in 0 .. Len(path) : w[k] # NotFound}
  <2>1. 0 \in T
    BY <1>1, <1>2, NotANode
  <2>2. \A k \in 0 .. Len(path) - 1 : k \in T => k + 1 \in T
    BY <1>1
  <2>3. T \in SUBSET (0 .. Len(path))
    OBVIOUS
  <2>4. T = 0 .. Len(path)
    <3> HIDE DEF T, Ends
    <3> QED
      BY <1>1, <2>1, <2>2, <2>3, Steps
  <2> QED
    BY <1>1, <2>4
<1> DEFINE d == CHOOSE k \in 0 .. Len(path) : Ends(k)
<1>4. d \in 0 .. Len(path) /\ Ends(d)
  <2> HIDE DEF Ends
  <2> QED
    BY <1>3
<1>5. Depth(a, path) = d
  BY <1>0 DEF Depth
<1> HIDE DEF d
<1>6. InsertionPoint(a, path) = w[d]
  BY <1>0, <1>5 DEF InsertionPoint
<1>7. w[d] \in BelowIn(member, a)
  BY <1>1, <1>4, WalkBelow DEF w
<1>8. w[d] \in DOMAIN node
  BY <1>1, <1>7, BelowIs, MemberIsTable
<1>9. d < Len(path) => Child(w[d], path[d + 1]) = NotFound
  <2> SUFFICES ASSUME d < Len(path) PROVE Child(w[d], path[d + 1]) = NotFound
    OBVIOUS
  <2>1. d + 1 \in 1 .. Len(path) /\ (d + 1) - 1 = d
    BY <1>1, <1>4
  <2> QED
    BY <1>2, <1>4, <2>1
<1> QED
  BY <1>0, <1>4, <1>5, <1>6, <1>7, <1>8, <1>9 DEF Missing, Below, w

(* The table m is old with a chain of new members below p: each but the    *)
(* first is in the one before it.                                          *)
AddsChain(old, m, new, first, p) ==
  /\ Table(old) /\ DOMAIN m = DOMAIN old \cup new
  /\ m \in [DOMAIN m -> [parent : Node, name : Name \cup WellKnown]]
  /\ new \subseteq 1 .. MaxNode /\ new \cap DOMAIN old = {}
  /\ first \in Nat /\ p \in Int /\ p < first
  /\ \A x \in DOMAIN old : m[x] = old[x] /\ old[x].parent \notin new
  /\ \A x \in new : /\ first <= x
                    /\ x = first => m[x].parent = p
                    /\ x # first => m[x].parent = x - 1 /\ x - 1 \in new
  /\ first \in new => \A x \in DOMAIN old : old[x] # m[first]

(* Then the new members are below p, and below the root if p is. *)
HasChain(old, m, new, p) ==
  /\ Table(m)
  /\ new \subseteq BelowIn(m, p)
  /\ p \in BelowIn(old, ROOT) => BelowIn(m, ROOT) = BelowIn(old, ROOT) \cup new

LEMMA RowsAdded ==
  ASSUME NEW old, NEW m, NEW new, NEW first, NEW p, AddsChain(old, m, new, first, p)
  PROVE  HasChain(old, m, new, p)
<1> USE DEF AddsChain
<1>0. new \subseteq Nat /\ 1 .. MaxNode \subseteq Node
  BY WellKnownAre
<1>1. ASSUME NEW x \in DOMAIN m, NEW y \in DOMAIN m, m[x] = m[y] PROVE x = y
  <2>1. CASE x \in DOMAIN old /\ y \in DOMAIN old
    BY <1>1, <2>1 DEF Table
  <2>2. CASE x \in new /\ y \in new
    <3>1. x \in Nat /\ y \in Nat /\ first <= x /\ first <= y
      BY <1>0, <2>2
    <3>2. CASE x = first
      BY <1>1, <2>2, <3>1, <3>2
    <3>3. CASE x # first
      BY <1>1, <2>2, <3>1, <3>3
    <3> QED
      BY <3>2, <3>3
  <2>3. ASSUME NEW u \in DOMAIN old, NEW v \in new PROVE m[u] # m[v]
    <3>1. CASE v = first
      BY <3>1
    <3>2. CASE v # first
      BY <3>2
    <3> QED
      BY <3>1, <3>2
  <2> QED
    BY <1>1, <2>1, <2>2, <2>3
<1>2. Table(m)
  BY <1>0, <1>1 DEF Table
<1>3. new \subseteq BelowIn(m, p)
  <2> DEFINE T == {x \in new : x \notin BelowIn(m, p)}
  <2>1. CASE T = {}
    BY <2>1
  <2>2. CASE T # {}
    <3>1. T \in SUBSET Nat
      BY <1>0
    <3>2. PICK x \in T : \A y \in T : x <= y
      BY <2>2, <3>1, LeastOf
    <3>3. m[x].parent \in BelowIn(m, p)
      <4>1. CASE x = first
        BY <1>2, <4>1, BelowIs
      <4>2. CASE x # first
        <5>1. m[x].parent = x - 1 /\ x - 1 \in new /\ x \in Nat /\ x - 1 \in Nat
          BY <1>0, <4>2
        <5>2. x - 1 \notin T
          BY <3>2, <5>1
        <5> QED
          BY <5>1, <5>2
      <4> QED
        BY <4>1, <4>2
    <3> QED
      BY <1>2, <3>2, <3>3, BelowIs DEF Closed
  <2> QED
    BY <2>1, <2>2
<1>4. ASSUME p \in BelowIn(old, ROOT)
      PROVE  BelowIn(m, ROOT) = BelowIn(old, ROOT) \cup new
  <2>1. /\ BelowIn(old, ROOT) \subseteq BelowIn(m, ROOT)
        /\ BelowIn(m, ROOT) \subseteq BelowIn(old, ROOT) \cup new
    BY <1>2, BelowAdded
  <2>2. BelowIn(m, p) \subseteq BelowIn(m, ROOT)
    BY <1>2, <1>4, <2>1, BelowBelow
  <2> QED
    BY <1>3, <2>1, <2>2
<1> QED
  BY <1>2, <1>3, <1>4 DEF HasChain

(* The segments of path after the first at can be made below p. *)
FitsAt(p, path, at) ==
  /\ p \in DOMAIN node /\ node[p] = "D" /\ path \in Path /\ at \in 0 .. Len(path)
  /\ at < Len(path) =>
       Child(p, path[at + 1]) = NotFound /\ Fresh + Len(path) - at - 1 <= MaxNode

NewNodes(path, at) == Fresh .. Fresh + Len(path) - at - 1

(* The members m with the chain of these nodes. *)
IsChain(m, new, p, path, at) ==
  /\ Table(m) /\ DOMAIN m = DOMAIN member \cup new /\ ROOT \notin DOMAIN m
  /\ new \cap DOMAIN node = {} /\ new \subseteq Node \ WellKnown
  /\ \A x \in DOMAIN member : m[x] = member[x] /\ member[x].parent \notin new
  /\ \A x \in new : /\ m[x] = [parent |-> IF x = Fresh THEN p ELSE x - 1,
                               name |-> path[at + 1 + x - Fresh]]
                    /\ x = Fresh => m[x].parent = p
                    /\ x # Fresh => m[x].parent = x - 1 /\ x - 1 \in new
  /\ new \subseteq BelowIn(m, p)
  /\ OneTree => BelowIn(m, ROOT) = DOMAIN node \cup new

LEMMA ChainIs ==
  ASSUME RowsInv, NEW p, NEW path, NEW at, FitsAt(p, path, at)
  PROVE  IsChain(Chain(p, path, at), NewNodes(path, at), p, path, at)
<1> DEFINE new == NewNodes(path, at)
           m == Chain(p, path, at)
<1>a. /\ p \in DOMAIN node /\ path \in Seq(Name) /\ at \in 0 .. Len(path)
      /\ at < Len(path) => Child(p, path[at + 1]) = NotFound
      /\ at < Len(path) => Fresh + Len(path) - at - 1 <= MaxNode
  BY PathIs DEF FitsAt
<1>b. new = Fresh .. Fresh + Len(path) - at - 1 /\ m = Chain(p, path, at)
  BY DEF NewNodes
<1> HIDE DEF new, m
<1> USE <1>a, <1>b
<1> DEFINE rows == [n \in new |-> [parent |-> IF n = Fresh THEN p ELSE n - 1,
                                   name |-> path[at + 1 + n - Fresh]]]
<1>1. /\ Table(member) /\ DOMAIN member = DOMAIN node \ {ROOT} /\ ROOT \in DOMAIN node
      /\ DOMAIN node \subseteq Node
  BY MemberIsTable DEF RowsInv, TypeOK
<1>2. Fresh \in Nat \ {0} /\ \A x \in DOMAIN node : x < Fresh
  BY <1>1, FreshIs DEF RowsInv
<1>3. Len(path) \in Nat /\ \A k \in 1 .. Len(path) : path[k] \in Name
  OBVIOUS
<1>4. new \subseteq 1 .. MaxNode /\ new \cap DOMAIN node = {} /\ new \subseteq Node \ WellKnown
  <2>1. ASSUME NEW x \in new PROVE x \in 1 .. MaxNode /\ x \notin DOMAIN node
    <3>1. x \in Int /\ Fresh <= x /\ x <= Fresh + Len(path) - at - 1
      BY <1>2, <1>3
    <3>2. at < Len(path)
      BY <1>2, <1>3, <3>1
    <3> QED
      BY <1>2, <1>3, <3>1, <3>2, WellKnownAre
  <2>2. 1 .. MaxNode \subseteq Node \ WellKnown
    BY WellKnownAre
  <2> QED
    BY <2>1, <2>2
<1>5. m = With(member, rows)
  BY DEF Chain
<1> HIDE DEF rows
<1>6. /\ DOMAIN m = DOMAIN member \cup new
      /\ \A x \in DOMAIN member : m[x] = member[x]
      /\ \A x \in new : m[x] = rows[x]
      /\ m \in [DOMAIN m -> {m[x] : x \in DOMAIN m}]
  BY <1>1, <1>4, <1>5 DEF With, rows
<1>7. \A x \in DOMAIN member : member[x] \in [parent : Node, name : Name \cup WellKnown]
                               /\ member[x].parent \in DOMAIN node
  BY <1>1 DEF Table, RowsInv, RowsFit
<1>8. ASSUME NEW x \in new
      PROVE  /\ m[x] = [parent |-> IF x = Fresh THEN p ELSE x - 1,
                        name |-> path[at + 1 + x - Fresh]]
             /\ path[at + 1 + x - Fresh] \in Name
             /\ at < Len(path) /\ x \in Nat /\ Fresh <= x
             /\ x = Fresh => m[x].parent = p
             /\ x # Fresh => m[x].parent = x - 1 /\ x - 1 \in new
  <2>1. x \in Int /\ Fresh <= x /\ x <= Fresh + Len(path) - at - 1
    BY <1>2, <1>3
  <2>2. at + 1 + x - Fresh \in 1 .. Len(path) /\ at < Len(path) /\ (x # Fresh => x - 1 \in new)
    BY <1>2, <1>3, <2>1
  <2>3. m[x] = [parent |-> IF x = Fresh THEN p ELSE x - 1, name |-> path[at + 1 + x - Fresh]]
    BY <1>6 DEF rows
  <2>4. (x = Fresh => m[x].parent = p) /\ (x # Fresh => m[x].parent = x - 1)
    BY <2>3
  <2> QED
    BY <1>2, <1>3, <2>1, <2>2, <2>3, <2>4
<1>9. m \in [DOMAIN m -> [parent : Node, name : Name \cup WellKnown]]
  <2>1. ASSUME NEW x \in new PROVE m[x] \in [parent : Node, name : Name \cup WellKnown]
    <3> DEFINE q == IF x = Fresh THEN p ELSE x - 1
               s == path[at + 1 + x - Fresh]
    <3>1. q \in Node
      BY <1>1, <1>4, <1>8
    <3>2. s \in Name
      BY <1>8
    <3>3. m[x] = [parent |-> q, name |-> s]
      BY <1>8
    <3> HIDE DEF q, s
    <3> QED
      BY <3>1, <3>2, <3>3
  <2>2. \A x \in DOMAIN m : m[x] \in [parent : Node, name : Name \cup WellKnown]
    BY <1>6, <1>7, <2>1
  <2> QED
    BY <1>6, <2>2
<1>10. Fresh \in new => \A x \in DOMAIN member : member[x] # m[Fresh]
  <2> SUFFICES ASSUME Fresh \in new, NEW x \in DOMAIN member PROVE member[x] # m[Fresh]
    OBVIOUS
  <2>1. at < Len(path) /\ at + 1 + Fresh - Fresh = at + 1
    BY <1>2, <1>3, <1>8
  <2>2. m[Fresh] = [parent |-> p, name |-> path[at + 1]]
    BY <1>8, <2>1
  <2>3. ChildIn(member, p, path[at + 1]) = NotFound
    BY <2>1 DEF Child
  <2> QED
    BY <1>1, <2>2, <2>3, ChildIs
<1>11. /\ new \subseteq 1 .. MaxNode /\ Fresh \in Nat /\ p \in Int /\ p < Fresh
       /\ DOMAIN m = DOMAIN member \cup new /\ new \cap DOMAIN member = {}
  BY <1>1, <1>2, <1>4, <1>6, WellKnownAre
<1>12. \A x \in DOMAIN member : m[x] = member[x] /\ member[x].parent \notin new
  BY <1>4, <1>6, <1>7
<1>13. \A x \in new : /\ Fresh <= x
                      /\ x = Fresh => m[x].parent = p
                      /\ x # Fresh => m[x].parent = x - 1 /\ x - 1 \in new
  BY <1>8
<1>14. OneTree => p \in BelowIn(member, ROOT) /\ BelowIn(member, ROOT) = DOMAIN node
  BY DEF OneTree, Below
<1>15. /\ Table(m) /\ new \subseteq BelowIn(m, p)
       /\ OneTree => BelowIn(m, ROOT) = BelowIn(member, ROOT) \cup new
  <2>1. AddsChain(member, m, new, Fresh, p)
    BY <1>1, <1>9, <1>10, <1>11, <1>12, <1>13 DEF AddsChain
  <2>2. HasChain(member, m, new, p)
    BY <2>1, RowsAdded, Zenon
  <2> QED
    BY <1>14, <2>2 DEF HasChain
<1>16. ROOT \notin DOMAIN m
  BY <1>1, <1>4, <1>6, WellKnownAre
<1> QED
  BY <1>4, <1>8, <1>11, <1>12, <1>14, <1>15, <1>16 DEF IsChain, new, m

-----------------------------------------------------------------------------
(* The invariants of the tree, of any tables: nd the nodes, mb their       *)
(* members, ar the roots (the artifacts with their paths, and the late     *)
(* nodes), lt the late ones.                                               *)
RowsOf(nd, mb) ==
  /\ Table(mb) /\ DOMAIN mb = DOMAIN nd \ {ROOT}
  /\ DOMAIN nd \subseteq Node /\ nd \in [DOMAIN nd -> {"D", "F"}]
  /\ \A n \in DOMAIN mb : mb[n].parent \in DOMAIN nd /\ nd[mb[n].parent] = "D"
  /\ \A n \in WellKnown : n \in DOMAIN nd /\ nd[n] = "D"
  /\ \A n \in WellKnown \ {ROOT} : mb[n] = WellKnownMember[n]

ShapeOf(nd, mb) == RowsOf(nd, mb) /\ BelowIn(mb, ROOT) = DOMAIN nd

VersionIn(mb, n) ==
  \E dir, above \in DOMAIN mb :
    mb[n].parent = dir /\ mb[dir].parent = above /\ mb[above].parent = ARTIFACTS

QueuedIn(mb, n) == n \in DOMAIN mb /\ mb[n].parent = CLEANUP_QUEUE

PlacedIn(nd, mb, ar) ==
  \A n \in DOMAIN ar :
    /\ n \in DOMAIN nd \ WellKnown /\ nd[n] = "D"
    /\ mb[n].parent = TMP_IMPORT \/ VersionIn(mb, n) \/ QueuedIn(mb, n)

FilesIn(nd, mb, n) == {file \in BelowIn(mb, n) : nd[file] = "F"}

(* The roots, and what is to be cleaned up. *)
IsTop(mb, ar, n) == n \in DOMAIN ar \/ QueuedIn(mb, n)

FileAt(mb, ar, n) == WalkedIn(mb, n, ar[n])[Len(ar[n])]

OwnedIn(nd, mb, ar, lt) ==
  /\ \A n \in DOMAIN ar :
       /\ ar[n] \in Path \cup {<<>>}
       /\ ar[n] # <<>> => FileAt(mb, ar, n) \in FilesIn(nd, mb, n)
       /\ n \notin lt => \A file \in FilesIn(nd, mb, n) :
                           ar[n] # <<>> /\ file = FileAt(mb, ar, n)
  /\ \A file \in DOMAIN nd :
       nd[file] = "F" => \E n : IsTop(mb, ar, n) /\ file \in BelowIn(mb, n)

TreeOf(nd, mb, ar, lt) ==
  ShapeOf(nd, mb) /\ PlacedIn(nd, mb, ar) /\ OwnedIn(nd, mb, ar, lt)

(* The roots of the variables.  No artifact is in the queue. *)
Roots == [n \in DOMAIN artifact \cup late |->
            IF n \in DOMAIN artifact THEN artifact[n] ELSE <<>>]
Unqueued == \A n \in DOMAIN artifact : ~ QueuedIn(member, n)

LEMMA RowsAre ==
  RowsInv => RowsOf(node, member)
<1> SUFFICES ASSUME RowsInv PROVE RowsOf(node, member)
  OBVIOUS
<1>1. Table(member) /\ DOMAIN member = DOMAIN node \ {ROOT} /\ ROOT \in DOMAIN node
  BY MemberIsTable
<1> QED
  BY <1>1 DEF RowsOf, RowsInv, TypeOK, RowsFit, WellKnownKept

LEMMA IsRows ==
  RowsOf(node, member) =>
    /\ RowsFit /\ WellKnownKept
    /\ DOMAIN node \subseteq Node /\ node \in [DOMAIN node -> {"D", "F"}]
    /\ member \in [DOMAIN node \ {ROOT} -> [parent : Node, name : Name \cup WellKnown]]
<1> SUFFICES ASSUME RowsOf(node, member)
             PROVE  /\ RowsFit /\ WellKnownKept
                    /\ DOMAIN node \subseteq Node /\ node \in [DOMAIN node -> {"D", "F"}]
                    /\ member \in [DOMAIN node \ {ROOT} -> [parent : Node, name : Name \cup WellKnown]]
  OBVIOUS
<1>1. RowsFit
  BY DEF RowsOf, RowsFit, Table
<1>2. WellKnownKept
  BY DEF RowsOf, WellKnownKept
<1> QED
  BY <1>1, <1>2 DEF RowsOf, Table

LEMMA RootsAre ==
  /\ DOMAIN Roots = DOMAIN artifact \cup late
  /\ \A n \in DOMAIN artifact : Roots[n] = artifact[n]
  /\ \A n \in late \ DOMAIN artifact : Roots[n] = <<>>
BY DEF Roots

LEMMA TreeIs ==
  ASSUME RowsInv, OneTree, ArtifactsPlaced, FilesOwned
  PROVE  TreeOf(node, member, Roots, late) /\ Unqueued
<1>0. RowsOf(node, member) /\ DOMAIN member = DOMAIN node \ {ROOT} /\ ROOT \in WellKnown
  BY RowsAre DEF RowsOf, WellKnown
<1>1. ShapeOf(node, member)
  BY <1>0 DEF ShapeOf, OneTree, Below
<1>2. \A n : InQueue(n) <=> QueuedIn(member, n)
  BY DEF InQueue, QueuedIn
<1>3. PlacedIn(node, member, Roots)
  BY <1>2, RootsAre DEF PlacedIn, ArtifactsPlaced, VersionIn, InVersion
<1>4. Unqueued
  <2> SUFFICES ASSUME NEW n \in DOMAIN artifact, QueuedIn(member, n) PROVE FALSE
    BY DEF Unqueued
  <2>1. member[n].parent = TMP_IMPORT \/ InVersion(n)
    BY DEF ArtifactsPlaced
  <2>2. /\ TMP_IMPORT # CLEANUP_QUEUE /\ member[CLEANUP_QUEUE].parent = ROOT
        /\ ROOT \notin DOMAIN member
    BY <1>0, WellKnownAre DEF RowsOf
  <2> QED
    BY <2>1, <2>2 DEF InVersion, QueuedIn
<1>5. ASSUME NEW n \in DOMAIN Roots
      PROVE  /\ Roots[n] \in Path \cup {<<>>}
             /\ Roots[n] # <<>> => FileAt(member, Roots, n) \in FilesIn(node, member, n)
             /\ n \notin late => \A file \in FilesIn(node, member, n) :
                  Roots[n] # <<>> /\ file = FileAt(member, Roots, n)
  <2>1. CASE n \in DOMAIN artifact
    <3>1. n \in DOMAIN node
      BY <2>1 DEF ArtifactsPlaced
    <3>2. FilesBelow(n) = FilesIn(node, member, n)
      BY DEF FilesBelow, FilesIn, Below
    <3>3. Find(n, artifact[n]) = FileAt(member, Roots, n) /\ Roots[n] = artifact[n]
      BY <2>1, <3>1, RootsAre DEF Find, Walked, FileAt
    <3>4. artifact[n] \in Path \cup {<<>>}
      BY <2>1 DEF RowsInv, TypeOK
    <3> QED
      BY <2>1, <3>2, <3>3, <3>4 DEF FilesOwned
  <2>2. CASE n \notin DOMAIN artifact
    BY <2>2, RootsAre
  <2> QED
    BY <2>1, <2>2
<1>6. ASSUME NEW file \in DOMAIN node, node[file] = "F"
      PROVE  \E n : IsTop(member, Roots, n) /\ file \in BelowIn(member, n)
  <2>1. PICK n \in DOMAIN member : (n \in DOMAIN artifact \/ ToCleanUp(n)) /\ file \in Below(n)
    BY <1>6 DEF FilesOwned
  <2>2. IsTop(member, Roots, n)
    BY <1>2, <2>1, RootsAre DEF IsTop, ToCleanUp
  <2> QED
    BY <2>1, <2>2 DEF Below
<1> QED
  BY <1>1, <1>3, <1>4, <1>5, <1>6 DEF TreeOf, OwnedIn

LEMMA IsTree ==
  TreeOf(node, member, Roots, late) /\ Unqueued => OneTree /\ ArtifactsPlaced /\ FilesOwned
<1> SUFFICES ASSUME TreeOf(node, member, Roots, late), Unqueued
             PROVE  OneTree /\ ArtifactsPlaced /\ FilesOwned
  OBVIOUS
<1> USE DEF TreeOf
<1>0. \A n : InQueue(n) <=> QueuedIn(member, n)
  BY DEF InQueue, QueuedIn
<1>1. OneTree
  BY DEF ShapeOf, OneTree, Below
<1>2. ArtifactsPlaced
  BY <1>0, RootsAre DEF PlacedIn, ArtifactsPlaced, VersionIn, InVersion, Unqueued
<1>3. \A n : FilesBelow(n) = FilesIn(node, member, n) /\ Below(n) = BelowIn(member, n)
  BY DEF FilesBelow, FilesIn, Below
<1>4. ASSUME NEW n \in DOMAIN artifact
      PROVE  /\ artifact[n] # <<>> => Find(n, artifact[n]) \in FilesBelow(n)
             /\ n \notin late => \A file \in FilesBelow(n) :
                  artifact[n] # <<>> /\ file = Find(n, artifact[n])
  <2>1. n \in DOMAIN Roots /\ Roots[n] = artifact[n]
    BY RootsAre
  <2>2. n \in DOMAIN node
    BY <2>1 DEF PlacedIn
  <2>3. Find(n, artifact[n]) = FileAt(member, Roots, n)
    BY <2>1, <2>2 DEF Find, Walked, FileAt
  <2> QED
    BY <1>3, <2>1, <2>3 DEF OwnedIn
<1>5. ASSUME NEW file \in DOMAIN node, node[file] = "F"
      PROVE  \E n \in DOMAIN member :
               (n \in DOMAIN artifact \/ ToCleanUp(n)) /\ file \in Below(n)
  <2>1. PICK n : IsTop(member, Roots, n) /\ file \in BelowIn(member, n)
    BY <1>5 DEF OwnedIn
  <2>2. n \in DOMAIN member
    <3>1. CASE n \in DOMAIN Roots
      BY <3>1 DEF PlacedIn, ShapeOf, RowsOf, WellKnown
    <3>2. CASE QueuedIn(member, n)
      BY <3>2 DEF QueuedIn
    <3> QED
      BY <2>1, <3>1, <3>2 DEF IsTop
  <2>3. n \in DOMAIN artifact \/ ToCleanUp(n)
    BY <1>0, <2>1, <2>2, RootsAre DEF IsTop, ToCleanUp
  <2> QED
    BY <1>3, <2>1, <2>2, <2>3
<1> QED
  BY <1>1, <1>2, <1>4, <1>5 DEF FilesOwned

(* A member is not above itself. *)
LEMMA NoCycle ==
  ASSUME NEW nd, NEW mb, ShapeOf(nd, mb), NEW n \in DOMAIN mb
  PROVE  mb[n].parent \notin BelowIn(mb, n)
<1> SUFFICES ASSUME mb[n].parent \in BelowIn(mb, n) PROVE FALSE
  OBVIOUS
<1> DEFINE S == BelowIn(mb, ROOT) \ BelowIn(mb, n)
<1>0. Table(mb) /\ n # ROOT /\ n \in BelowIn(mb, ROOT) /\ ROOT \notin DOMAIN mb
  BY DEF ShapeOf, RowsOf
<1>1. ROOT \in S
  BY <1>0, BelowIs
<1>2. ASSUME NEW x \in DOMAIN mb, mb[x].parent \in S PROVE x \in S
  <2>1. x \in BelowIn(mb, ROOT)
    BY <1>0, <1>2, BelowIs DEF Closed
  <2>2. x \in BelowIn(mb, n) => x = n
    BY <1>0, <1>2, ParentBelow
  <2> QED
    BY <1>2, <2>1, <2>2
<1>3. Closed(mb, S)
  BY <1>2 DEF Closed
<1>4. BelowIn(mb, ROOT) \subseteq S
  <2> HIDE DEF S
  <2> QED
    BY <1>0, <1>1, <1>3, BelowIs
<1> QED
  BY <1>0, <1>4, BelowIs

(* Below a node that is not well known there is none that is. *)
LEMMA WellKnownApart ==
  ASSUME NEW nd, NEW mb, RowsOf(nd, mb), NEW n, n \notin WellKnown
  PROVE  BelowIn(mb, n) \cap WellKnown = {}
<1> DEFINE S == ({n} \cup DOMAIN mb) \ WellKnown
<1>1. \A x \in WellKnown \ {ROOT} : mb[x].parent \in WellKnown
  BY WellKnownAre DEF RowsOf
<1>2. ROOT \notin DOMAIN mb
  BY DEF RowsOf
<1>3. n \in S /\ Closed(mb, S)
  BY <1>1, <1>2 DEF Closed
<1>4. BelowIn(mb, n) \subseteq S
  BY <1>3, BelowIs DEF RowsOf
<1> QED
  BY <1>4

LEMMA QueuedIs ==
  ASSUME NEW nd, NEW mb, RowsOf(nd, mb), NEW n, QueuedIn(mb, n)
  PROVE  n \in DOMAIN mb \ WellKnown
<1>1. /\ DOMAIN mb = DOMAIN nd \ {ROOT}
      /\ \A x \in WellKnown \ {ROOT} : mb[x] = WellKnownMember[x]
  BY DEF RowsOf
<1> QED
  BY <1>1, WellKnownAre DEF QueuedIn

(* Roots and what is to be cleaned up are in three levels below well known *)
(* directories, or one.                                                    *)
LEMMA TopIs ==
  ASSUME NEW nd, NEW mb, NEW ar, RowsOf(nd, mb), PlacedIn(nd, mb, ar), NEW n, IsTop(mb, ar, n)
  PROVE  /\ n \in DOMAIN mb \ WellKnown /\ n # ROOT
         /\ mb[n].parent \in {TMP_IMPORT, CLEANUP_QUEUE} \/ VersionIn(mb, n)
<1>0. DOMAIN mb = DOMAIN nd \ {ROOT} /\ ROOT \in WellKnown
  BY DEF RowsOf, WellKnown
<1>1. CASE n \in DOMAIN ar
  BY <1>0, <1>1 DEF PlacedIn, QueuedIn
<1>2. CASE QueuedIn(mb, n)
  BY <1>0, <1>2, QueuedIs DEF QueuedIn
<1> QED
  BY <1>1, <1>2 DEF IsTop

(* The directories of versions and games are not in the trees of these.    *)
LEMMA AboveTops ==
  ASSUME NEW nd, NEW mb, NEW ar, RowsOf(nd, mb), PlacedIn(nd, mb, ar),
         NEW n, IsTop(mb, ar, n), NEW dir \in DOMAIN mb, NEW above \in DOMAIN mb,
         mb[dir].parent = above, mb[above].parent = ARTIFACTS
  PROVE  dir \notin BelowIn(mb, n) /\ above \notin BelowIn(mb, n)
<1>0. Table(mb) /\ ROOT \notin DOMAIN mb /\ {ROOT, ARTIFACTS} \subseteq WellKnown
  BY DEF RowsOf, WellKnown
<1>1. BelowIn(mb, n) \cap WellKnown = {}
  BY TopIs, WellKnownApart
<1>2. /\ mb[TMP_IMPORT].parent = TMP /\ mb[CLEANUP_QUEUE].parent = ROOT
      /\ mb[ARTIFACTS].parent = ROOT /\ ARTIFACTS \notin {TMP, ROOT, TMP_IMPORT, CLEANUP_QUEUE}
  BY WellKnownAre DEF RowsOf
<1>3. n \notin {dir, above}
  <2>1. CASE mb[n].parent \in {TMP_IMPORT, CLEANUP_QUEUE}
    BY <2>1, <1>0, <1>2
  <2>2. CASE VersionIn(mb, n)
    <3>1. PICK dir1 \in DOMAIN mb, above1 \in DOMAIN mb :
            mb[n].parent = dir1 /\ mb[dir1].parent = above1 /\ mb[above1].parent = ARTIFACTS
      BY <2>2 DEF VersionIn
    <3> QED
      BY <3>1, <1>0, <1>2
  <2> QED
    BY <2>1, <2>2, TopIs
<1>4. above \notin BelowIn(mb, n)
  BY <1>0, <1>1, <1>3, ParentBelow
<1> QED
  BY <1>0, <1>3, <1>4, ParentBelow

(* These are not in the trees of each other. *)
LEMMA TopsApart ==
  ASSUME NEW nd, NEW mb, NEW ar, RowsOf(nd, mb), PlacedIn(nd, mb, ar),
         NEW n, IsTop(mb, ar, n), NEW c, IsTop(mb, ar, c), n # c
  PROVE  /\ c \notin BelowIn(mb, n)
         /\ BelowIn(mb, n) \cap BelowIn(mb, c) = {}
<1>0. Table(mb) /\ ROOT \notin DOMAIN mb /\ ROOT \in WellKnown
  BY DEF RowsOf, WellKnown
<1>1. ASSUME NEW x, IsTop(mb, ar, x), NEW y, IsTop(mb, ar, y), x # y, y \in BelowIn(mb, x)
      PROVE  FALSE
  <2>0. BelowIn(mb, x) \cap WellKnown = {}
    BY <1>1, TopIs, WellKnownApart
  <2>1. mb[y].parent \in BelowIn(mb, x)
    BY <1>0, <1>1, ParentBelow
  <2>2. {TMP_IMPORT, CLEANUP_QUEUE, ARTIFACTS} \subseteq WellKnown
    BY DEF WellKnown
  <2>3. VersionIn(mb, y)
    BY <1>1, <2>0, <2>1, <2>2, TopIs
  <2> QED
    BY <1>1, <2>1, <2>3, AboveTops DEF VersionIn
<1>2. c \notin BelowIn(mb, n) /\ n \notin BelowIn(mb, c)
  BY <1>1
<1> QED
  BY <1>0, <1>2, BelowApart

(* The file of an artifact is found as long as the rows of what is below   *)
(* the artifact stay what they are.                                        *)
LEMMA FileStays ==
  ASSUME NEW nd, NEW mb, ShapeOf(nd, mb), NEW mb2, Table(mb2),
         NEW n \in DOMAIN mb, NEW path, Len(path) \in Nat,
         WalkedIn(mb, n, path)[Len(path)] # NotFound,
         \A x \in BelowIn(mb, n) \ {n} : x \in DOMAIN mb2 /\ mb2[x] = mb[x]
  PROVE  WalkedIn(mb2, n, path)[Len(path)] = WalkedIn(mb, n, path)[Len(path)]
<1> DEFINE w == WalkedIn(mb, n, path)
<1>0. Table(mb)
  BY DEF ShapeOf, RowsOf
<1>1. \A k \in 0 .. Len(path) : w[k] \in BelowIn(mb, n) /\ w[k] # NotFound
  BY <1>0, WalkBelow, WalkPasses
<1>2. ASSUME NEW k \in 1 .. Len(path)
      PROVE  w[k] \in DOMAIN mb /\ mb[w[k]].parent = w[k - 1]
  <2>1. w[k] # NotFound
    BY <1>1
  <2>2. mb[w[k]] = [parent |-> w[k - 1], name |-> path[k]] /\ w[k] \in DOMAIN mb
    BY <1>0, <2>1, WalkUp
  <2> QED
    BY <2>2
<1>3. mb[n].parent \notin BelowIn(mb, n)
  BY NoCycle
<1> HIDE DEF w
<1>4. \A k \in 1 .. Len(path) : k - 1 \in 0 .. Len(path) /\ k \in 0 .. Len(path)
  OBVIOUS
<1>5. \A k \in 1 .. Len(path) : w[k] \in BelowIn(mb, n) \ {n}
  BY <1>1, <1>2, <1>3, <1>4
<1>6. \A k \in 1 .. Len(path) : LET x == WalkedIn(mb, n, path)[k]
                                IN x \in DOMAIN mb2 /\ mb2[x] = mb[x]
  BY <1>5 DEF w
<1>7. \A k \in 0 .. Len(path) : WalkedIn(mb2, n, path)[k] = WalkedIn(mb, n, path)[k]
  <2>1. KeepsWalk(mb, mb2, n, path)
    BY <1>0, <1>6 DEF KeepsWalk
  <2> QED
    BY <2>1, WalkKept
<1> QED
  BY <1>7

(* The files of the roots are where FileAt says. *)
LEMMA FileOf ==
  ASSUME NEW nd, NEW mb, NEW ar, NEW lt, TreeOf(nd, mb, ar, lt), NEW n \in DOMAIN ar
  PROVE  /\ n \in DOMAIN mb /\ n \notin WellKnown
         /\ ar[n] # <<>> =>
              /\ ar[n] \in Path /\ Len(ar[n]) \in Nat
              /\ FileAt(mb, ar, n) # NotFound
              /\ FileAt(mb, ar, n) \in BelowIn(mb, n)
              /\ nd[FileAt(mb, ar, n)] = "F"
<1> USE DEF TreeOf, ShapeOf
<1>1. n \in DOMAIN mb /\ n \notin WellKnown
  BY TopIs DEF IsTop
<1>2. ASSUME ar[n] # <<>>
      PROVE  /\ ar[n] \in Path /\ Len(ar[n]) \in Nat
             /\ FileAt(mb, ar, n) # NotFound
             /\ FileAt(mb, ar, n) \in BelowIn(mb, n)
             /\ nd[FileAt(mb, ar, n)] = "F"
  <2>1. ar[n] \in Path
    BY <1>2 DEF OwnedIn
  <2>2. Len(ar[n]) \in Nat
    BY <2>1, PathIs
  <2>3. FileAt(mb, ar, n) \in FilesIn(nd, mb, n)
    BY <1>2 DEF OwnedIn
  <2>4. FileAt(mb, ar, n) \in BelowIn(mb, n) /\ nd[FileAt(mb, ar, n)] = "F"
    BY <2>3 DEF FilesIn
  <2>5. FileAt(mb, ar, n) \in Node
    BY <1>1, <2>4, BelowIs DEF RowsOf
  <2>6. FileAt(mb, ar, n) # NotFound
    BY <2>5, NotANode
  <2> QED
    BY <2>1, <2>2, <2>4, <2>6
<1> QED
  BY <1>1, <1>2

(* The file of a root stays as long as the rows below the root do. *)
LEMMA RootStays ==
  ASSUME NEW nd, NEW mb, NEW ar, NEW lt, TreeOf(nd, mb, ar, lt), NEW n \in DOMAIN ar,
         ar[n] # <<>>, NEW mb2, Table(mb2),
         \A x \in BelowIn(mb, n) \ {n} : x \in DOMAIN mb2 /\ mb2[x] = mb[x]
  PROVE  FileAt(mb2, ar, n) = FileAt(mb, ar, n)
<1>1. /\ n \in DOMAIN mb /\ Len(ar[n]) \in Nat
      /\ WalkedIn(mb, n, ar[n])[Len(ar[n])] # NotFound
  BY FileOf DEF FileAt
<1>2. ShapeOf(nd, mb)
  BY DEF TreeOf
<1> QED
  BY <1>1, <1>2, FileStays DEF FileAt

(* The tables nd2 and mb2 are nd and mb with new nodes below p. *)
GrownBy(nd, mb, nd2, mb2, new, p) ==
  /\ Table(mb2) /\ DOMAIN mb2 = DOMAIN mb \cup new
  /\ new \cap DOMAIN nd = {} /\ new \subseteq Node \ WellKnown
  /\ \A x \in DOMAIN mb : mb2[x] = mb[x] /\ mb[x].parent \notin new
  /\ p \in DOMAIN nd
  /\ \A x \in new : /\ mb2[x].parent \in new \cup {p}
                    /\ nd2[mb2[x].parent] = "D"
  /\ new \subseteq BelowIn(mb2, p)
  /\ BelowIn(mb, ROOT) = DOMAIN nd => BelowIn(mb2, ROOT) = DOMAIN nd \cup new
  /\ DOMAIN nd2 = DOMAIN nd \cup new /\ nd2 \in [DOMAIN nd2 -> {"D", "F"}]
  /\ \A x \in DOMAIN nd : nd2[x] = nd[x]

LEMMA GrownRows ==
  ASSUME NEW nd, NEW mb, RowsOf(nd, mb),
         NEW nd2, NEW mb2, NEW new, NEW p, GrownBy(nd, mb, nd2, mb2, new, p)
  PROVE  RowsOf(nd2, mb2)
<1> USE DEF GrownBy
<1>0. Table(mb) /\ DOMAIN mb = DOMAIN nd \ {ROOT} /\ {ROOT} \subseteq WellKnown
  BY DEF RowsOf, WellKnown
<1>1. DOMAIN mb2 = DOMAIN nd2 \ {ROOT}
  BY <1>0
<1>2. \A x \in DOMAIN mb2 : mb2[x].parent \in DOMAIN nd2 /\ nd2[mb2[x].parent] = "D"
  BY <1>0 DEF RowsOf
<1>3. \A x \in WellKnown : x \in DOMAIN nd2 /\ nd2[x] = "D"
  BY DEF RowsOf
<1>4. \A x \in WellKnown \ {ROOT} : mb2[x] = WellKnownMember[x]
  BY <1>0 DEF RowsOf
<1> QED
  BY <1>1, <1>2, <1>3, <1>4 DEF RowsOf

LEMMA GrownShape ==
  ASSUME NEW nd, NEW mb, NEW ar, ShapeOf(nd, mb), PlacedIn(nd, mb, ar),
         NEW nd2, NEW mb2, NEW new, NEW p, GrownBy(nd, mb, nd2, mb2, new, p)
  PROVE  ShapeOf(nd2, mb2) /\ PlacedIn(nd2, mb2, ar)
<1>0. /\ DOMAIN mb = DOMAIN nd \ {ROOT} /\ ROOT \in WellKnown
      /\ DOMAIN nd2 = DOMAIN nd \cup new /\ DOMAIN mb2 = DOMAIN mb \cup new
      /\ \A x \in DOMAIN mb : mb2[x] = mb[x]
      /\ \A x \in DOMAIN nd : nd2[x] = nd[x]
  BY DEF ShapeOf, RowsOf, WellKnown, GrownBy
<1>1. ShapeOf(nd2, mb2)
  <2>1. RowsOf(nd2, mb2)
    BY GrownRows DEF ShapeOf
  <2> QED
    BY <2>1 DEF ShapeOf, GrownBy
<1>2. ASSUME NEW n \in DOMAIN ar
      PROVE  /\ n \in DOMAIN nd2 \ WellKnown /\ nd2[n] = "D"
             /\ mb2[n].parent = TMP_IMPORT \/ VersionIn(mb2, n) \/ QueuedIn(mb2, n)
  <2>1. n \in DOMAIN mb /\ n \in DOMAIN nd
    BY <1>0 DEF PlacedIn
  <2>2. VersionIn(mb, n) => VersionIn(mb2, n)
    BY <1>0, <2>1 DEF VersionIn
  <2>3. QueuedIn(mb, n) => QueuedIn(mb2, n)
    BY <1>0, <2>1 DEF QueuedIn
  <2> QED
    BY <1>0, <2>1, <2>2, <2>3 DEF PlacedIn
<1> QED
  BY <1>1, <1>2 DEF PlacedIn

(* The files below the nodes there have been: only new ones are added, and *)
(* to trees that p is in.                                                  *)
LEMMA GrownFiles ==
  ASSUME NEW nd, NEW mb, RowsOf(nd, mb),
         NEW nd2, NEW mb2, NEW new, NEW p, GrownBy(nd, mb, nd2, mb2, new, p), NEW n
  PROVE  /\ BelowIn(mb, n) \subseteq BelowIn(mb2, n)
         /\ n \in DOMAIN nd => FilesIn(nd, mb, n) \subseteq FilesIn(nd2, mb2, n)
         /\ n \in DOMAIN nd => FilesIn(nd2, mb2, n) \subseteq FilesIn(nd, mb, n) \cup {x \in new : nd2[x] = "F"}
         /\ n \in DOMAIN nd /\ p \notin BelowIn(mb, n) =>
              BelowIn(mb2, n) = BelowIn(mb, n) /\ FilesIn(nd2, mb2, n) = FilesIn(nd, mb, n)
         /\ n \in new => FilesIn(nd2, mb2, n) \subseteq {x \in new : nd2[x] = "F"}
<1> USE DEF GrownBy
<1>0. Table(mb) /\ Table(mb2) /\ new \cap DOMAIN mb = {} /\ DOMAIN mb \subseteq DOMAIN nd
  BY DEF RowsOf
<1>1. /\ BelowIn(mb, n) \subseteq BelowIn(mb2, n)
      /\ BelowIn(mb2, n) \subseteq BelowIn(mb, n) \cup new
      /\ n \in new => BelowIn(mb2, n) \subseteq new
  BY <1>0, BelowAdded
<1>2. n \notin new /\ p \notin BelowIn(mb, n) => BelowIn(mb2, n) = BelowIn(mb, n)
  BY <1>0, BelowAdded
<1>3. BelowIn(mb, n) \subseteq {n} \cup DOMAIN mb
  BY <1>0, BelowIs
<1>4. n \in DOMAIN nd => \A x \in BelowIn(mb, n) : x \in DOMAIN nd /\ nd2[x] = nd[x]
  BY <1>0, <1>3
<1> QED
  BY <1>1, <1>2, <1>4 DEF FilesIn

(* A root that gets no new file keeps the ones it has. *)
LEMMA GrownRoot ==
  ASSUME NEW nd, NEW mb, NEW ar, NEW lt, TreeOf(nd, mb, ar, lt),
         NEW nd2, NEW mb2, NEW new, NEW p, GrownBy(nd, mb, nd2, mb2, new, p),
         NEW n \in DOMAIN ar
  PROVE  /\ ar[n] # <<>> => FileAt(mb2, ar, n) = FileAt(mb, ar, n)
         /\ ar[n] # <<>> => FileAt(mb2, ar, n) \in FilesIn(nd2, mb2, n)
         /\ (\A x \in new : nd2[x] = "D") \/ p \notin BelowIn(mb, n) =>
              FilesIn(nd2, mb2, n) = FilesIn(nd, mb, n)
<1>0. /\ RowsOf(nd, mb) /\ Table(mb) /\ Table(mb2)
      /\ \A x \in DOMAIN mb : x \in DOMAIN mb2 /\ mb2[x] = mb[x]
      /\ DOMAIN mb \subseteq DOMAIN nd
  BY DEF TreeOf, ShapeOf, RowsOf, GrownBy
<1>1. n \in DOMAIN mb /\ n \in DOMAIN nd
  BY <1>0, FileOf
<1>2. FilesIn(nd, mb, n) \subseteq FilesIn(nd2, mb2, n)
  BY <1>0, <1>1, GrownFiles
<1>3. ASSUME p \notin BelowIn(mb, n) PROVE FilesIn(nd2, mb2, n) = FilesIn(nd, mb, n)
  BY <1>0, <1>1, <1>3, GrownFiles
<1>4. ASSUME \A x \in new : nd2[x] = "D" PROVE FilesIn(nd2, mb2, n) = FilesIn(nd, mb, n)
  <2>1. {x \in new : nd2[x] = "F"} = {}
    BY <1>4
  <2>2. FilesIn(nd2, mb2, n) \subseteq FilesIn(nd, mb, n) \cup {x \in new : nd2[x] = "F"}
    BY <1>0, <1>1, GrownFiles
  <2> QED
    BY <1>2, <2>1, <2>2
<1>5. ASSUME ar[n] # <<>>
      PROVE  FileAt(mb2, ar, n) = FileAt(mb, ar, n) /\ FileAt(mb, ar, n) \in FilesIn(nd, mb, n)
  <2>1. \A x \in BelowIn(mb, n) \ {n} : x \in DOMAIN mb2 /\ mb2[x] = mb[x]
    BY <1>0, BelowIs
  <2>2. FileAt(mb2, ar, n) = FileAt(mb, ar, n)
    BY <1>0, <1>5, <2>1, RootStays
  <2> QED
    BY <1>5, <2>2 DEF TreeOf, OwnedIn
<1> QED
  BY <1>2, <1>3, <1>4, <1>5

(* Every file stays below what it has been below. *)
LEMMA GrownCovers ==
  ASSUME NEW nd, NEW mb, NEW ar, NEW lt, TreeOf(nd, mb, ar, lt),
         NEW nd2, NEW mb2, NEW new, NEW p, GrownBy(nd, mb, nd2, mb2, new, p),
         NEW ar2, DOMAIN ar \subseteq DOMAIN ar2, NEW file \in DOMAIN nd, nd[file] = "F"
  PROVE  \E n : IsTop(mb2, ar2, n) /\ file \in BelowIn(mb2, n)
<1>0. /\ RowsOf(nd, mb) /\ DOMAIN mb2 = DOMAIN mb \cup new
      /\ \A x \in DOMAIN mb : mb2[x] = mb[x]
  BY DEF TreeOf, ShapeOf, GrownBy
<1>1. PICK n : IsTop(mb, ar, n) /\ file \in BelowIn(mb, n)
  BY DEF TreeOf, OwnedIn
<1>2. file \in BelowIn(mb2, n)
  BY <1>0, <1>1, GrownFiles
<1>3. QueuedIn(mb, n) => QueuedIn(mb2, n)
  BY <1>0 DEF QueuedIn
<1> QED
  BY <1>1, <1>2, <1>3 DEF IsTop

(* New directories, and maybe new roots with nothing in them. *)
LEMMA GrownDirs ==
  ASSUME NEW nd, NEW mb, NEW ar, NEW lt, TreeOf(nd, mb, ar, lt),
         NEW nd2, NEW mb2, NEW new, NEW p, GrownBy(nd, mb, nd2, mb2, new, p),
         \A x \in new : nd2[x] = "D",
         NEW ar2, DOMAIN ar \subseteq DOMAIN ar2, \A n \in DOMAIN ar : ar2[n] = ar[n],
         \A n \in DOMAIN ar2 \ DOMAIN ar :
           n \in new /\ ar2[n] = <<>> /\ mb2[n].parent = TMP_IMPORT
  PROVE  TreeOf(nd2, mb2, ar2, lt)
<1>0. /\ RowsOf(nd, mb) /\ ShapeOf(nd, mb) /\ PlacedIn(nd, mb, ar) /\ Table(mb) /\ Table(mb2)
      /\ DOMAIN mb \subseteq DOMAIN nd /\ DOMAIN nd2 = DOMAIN nd \cup new
      /\ DOMAIN mb2 = DOMAIN mb \cup new /\ new \cap WellKnown = {}
      /\ \A x \in DOMAIN nd : nd2[x] = nd[x]
      /\ \A x \in DOMAIN mb : mb2[x] = mb[x]
      /\ {x \in new : nd2[x] = "F"} = {}
  BY DEF TreeOf, ShapeOf, RowsOf, GrownBy
<1>1. ShapeOf(nd2, mb2) /\ PlacedIn(nd2, mb2, ar)
  BY <1>0, GrownShape
<1>2. PlacedIn(nd2, mb2, ar2)
  BY <1>0, <1>1 DEF PlacedIn
<1>3. ASSUME NEW n \in DOMAIN ar2
      PROVE  /\ ar2[n] \in Path \cup {<<>>}
             /\ ar2[n] # <<>> => FileAt(mb2, ar2, n) \in FilesIn(nd2, mb2, n)
             /\ n \notin lt => \A file \in FilesIn(nd2, mb2, n) :
                  ar2[n] # <<>> /\ file = FileAt(mb2, ar2, n)
  <2>1. CASE n \in DOMAIN ar
    <3>1. FilesIn(nd2, mb2, n) = FilesIn(nd, mb, n)
      BY <2>1, GrownRoot
    <3>2. ar[n] # <<>> => FileAt(mb2, ar, n) = FileAt(mb, ar, n)
      BY <2>1, GrownRoot
    <3>3. ar2[n] = ar[n] /\ FileAt(mb2, ar2, n) = FileAt(mb2, ar, n)
      BY <2>1 DEF FileAt
    <3> QED
      BY <2>1, <3>1, <3>2, <3>3 DEF TreeOf, OwnedIn
  <2>2. CASE n \notin DOMAIN ar
    <3>1. n \in new /\ ar2[n] = <<>>
      BY <2>2
    <3>2. FilesIn(nd2, mb2, n) = {}
      BY <1>0, <3>1, GrownFiles
    <3> QED
      BY <3>1, <3>2
  <2> QED
    BY <2>1, <2>2
<1>4. ASSUME NEW file \in DOMAIN nd2, nd2[file] = "F"
      PROVE  \E n : IsTop(mb2, ar2, n) /\ file \in BelowIn(mb2, n)
  <2>1. file \in DOMAIN nd /\ nd[file] = "F"
    BY <1>0, <1>4
  <2> QED
    BY <2>1, GrownCovers
<1> QED
  BY <1>1, <1>2, <1>3, <1>4 DEF TreeOf, OwnedIn

(* A file with the directories above it, at path below p. *)
AddsFile(nd2, mb2, new, p, path, file) ==
  /\ file \in new /\ \A x \in new : nd2[x] = "F" <=> x = file
  /\ path \in Path /\ WalkedIn(mb2, p, path)[Len(path)] = file

(* The top p becomes a root with this path, or a late one; if it is not    *)
(* late, it is an artifact that has had no file.                           *)
FilledTo(ar, lt, ar2, lt2, p, path) ==
  /\ DOMAIN ar2 = DOMAIN ar \cup {p}
  /\ \A n \in DOMAIN ar \ {p} : ar2[n] = ar[n] /\ (n \in lt <=> n \in lt2)
  /\ ar2[p] \in {path, <<>>}
  /\ p \notin lt2 => p \in DOMAIN ar /\ p \notin lt /\ ar[p] = <<>> /\ ar2[p] = path

LEMMA GrownTree ==
  ASSUME NEW nd, NEW mb, NEW ar, NEW lt, TreeOf(nd, mb, ar, lt),
         NEW nd2, NEW mb2, NEW new, NEW p, GrownBy(nd, mb, nd2, mb2, new, p),
         IsTop(mb, ar, p), nd[p] = "D",
         NEW path, NEW file, AddsFile(nd2, mb2, new, p, path, file),
         NEW ar2, NEW lt2, FilledTo(ar, lt, ar2, lt2, p, path)
  PROVE  TreeOf(nd2, mb2, ar2, lt2)
<1> USE DEF AddsFile, FilledTo
<1>0. /\ RowsOf(nd, mb) /\ ShapeOf(nd, mb) /\ PlacedIn(nd, mb, ar) /\ Table(mb) /\ Table(mb2)
      /\ DOMAIN mb \subseteq DOMAIN nd /\ DOMAIN nd2 = DOMAIN nd \cup new
      /\ DOMAIN mb2 = DOMAIN mb \cup new /\ new \cap DOMAIN nd = {}
      /\ \A x \in DOMAIN nd : nd2[x] = nd[x]
      /\ \A x \in DOMAIN mb : mb2[x] = mb[x]
      /\ new \subseteq BelowIn(mb2, p)
      /\ {x \in new : nd2[x] = "F"} = {file}
  BY DEF TreeOf, ShapeOf, RowsOf, GrownBy
<1>1. ShapeOf(nd2, mb2) /\ PlacedIn(nd2, mb2, ar)
  BY <1>0, GrownShape
<1>p. p \in DOMAIN mb /\ p \in DOMAIN nd /\ p \notin WellKnown /\ nd2[p] = "D"
  BY <1>0, TopIs
<1>q. QueuedIn(mb, p) => QueuedIn(mb2, p)
  BY <1>0 DEF QueuedIn
<1>2. PlacedIn(nd2, mb2, ar2)
  BY <1>0, <1>1, <1>p, <1>q DEF PlacedIn, IsTop
<1>3. ASSUME NEW n \in DOMAIN ar2
      PROVE  /\ ar2[n] \in Path \cup {<<>>}
             /\ ar2[n] # <<>> => FileAt(mb2, ar2, n) \in FilesIn(nd2, mb2, n)
             /\ n \notin lt2 => \A f \in FilesIn(nd2, mb2, n) :
                  ar2[n] # <<>> /\ f = FileAt(mb2, ar2, n)
  <2>1. CASE n = p
    <3>1. file \in FilesIn(nd2, mb2, p) /\ path # <<>>
      BY <1>0, PathIs DEF FilesIn
    <3>2. ar2[p] # <<>> => FileAt(mb2, ar2, p) = file
      BY DEF FileAt
    <3>3. ASSUME p \notin lt2 PROVE FilesIn(nd2, mb2, p) \subseteq {file} /\ ar2[p] # <<>>
      <4>1. FilesIn(nd, mb, p) = {} /\ ar2[p] = path
        BY <3>3 DEF TreeOf, OwnedIn
      <4> QED
        BY <1>0, <1>p, <3>1, <4>1, GrownFiles
    <3> QED
      BY <2>1, <3>1, <3>2, <3>3
  <2>2. CASE n # p
    <3>0. n \in DOMAIN ar /\ ar2[n] = ar[n] /\ (n \in lt <=> n \in lt2)
      BY <2>2
    <3>1. p \notin BelowIn(mb, n)
      BY <1>0, <2>2, <3>0, TopsApart DEF IsTop
    <3>2. FilesIn(nd2, mb2, n) = FilesIn(nd, mb, n)
      BY <3>0, <3>1, GrownRoot
    <3>3. ar[n] # <<>> => FileAt(mb2, ar, n) = FileAt(mb, ar, n)
      BY <3>0, GrownRoot
    <3>4. FileAt(mb2, ar2, n) = FileAt(mb2, ar, n)
      BY <3>0 DEF FileAt
    <3> QED
      BY <3>0, <3>2, <3>3, <3>4 DEF TreeOf, OwnedIn
  <2> QED
    BY <2>1, <2>2
<1>4. ASSUME NEW f \in DOMAIN nd2, nd2[f] = "F"
      PROVE  \E n : IsTop(mb2, ar2, n) /\ f \in BelowIn(mb2, n)
  <2>1. CASE f \in new
    BY <1>0, <2>1 DEF IsTop
  <2>2. CASE f \notin new
    <3>1. f \in DOMAIN nd /\ nd[f] = "F"
      BY <1>0, <1>4, <2>2
    <3> QED
      BY <3>1, GrownCovers
  <2> QED
    BY <2>1, <2>2
<1> QED
  BY <1>1, <1>2, <1>3, <1>4 DEF TreeOf, OwnedIn

(* The row of c is moved to the directory d. *)
MovedRows(nd, mb, mb2, c, d) ==
  /\ c \in DOMAIN mb \ WellKnown /\ d \in DOMAIN nd /\ nd[d] = "D"
  /\ DOMAIN mb2 = DOMAIN mb /\ \A n \in DOMAIN mb \ {c} : mb2[n] = mb[n]
  /\ mb2[c] \in [parent : Node, name : Name \cup WellKnown] /\ mb2[c].parent = d
  /\ mb2 \in [DOMAIN mb -> {mb2[n] : n \in DOMAIN mb}]
  /\ \A n \in DOMAIN mb \ {c} : mb[n] # mb2[c]

LEMMA RowsMoved ==
  ASSUME NEW nd, NEW mb, RowsOf(nd, mb), NEW mb2, NEW c, NEW d, MovedRows(nd, mb, mb2, c, d)
  PROVE  RowsOf(nd, mb2)
<1> USE DEF MovedRows
<1>0. Table(mb) /\ DOMAIN mb = DOMAIN nd \ {ROOT} /\ ROOT \in WellKnown
  BY DEF RowsOf, WellKnown
<1>1. Table(mb2)
  <2>1. \A x \in DOMAIN mb2 : mb2[x] \in [parent : Node, name : Name \cup WellKnown]
    BY <1>0 DEF Table
  <2>2. \A x, y \in DOMAIN mb2 : mb2[x] = mb2[y] => x = y
    BY <1>0 DEF Table
  <2> QED
    BY <1>0, <2>1, <2>2 DEF Table
<1>2. \A n \in DOMAIN mb2 : mb2[n].parent \in DOMAIN nd /\ nd[mb2[n].parent] = "D"
  BY <1>0 DEF RowsOf
<1>3. \A n \in WellKnown \ {ROOT} : mb2[n] = WellKnownMember[n]
  BY <1>0 DEF RowsOf
<1> QED
  BY <1>0, <1>1, <1>2, <1>3 DEF RowsOf

(* The top c is moved to the queue, or to the directory of a version, and  *)
(* is a root then; it keeps its path, or it is late and has none.          *)
MovedTo(nd, mb, ar, lt, mb2, ar2, lt2, c, d) ==
  /\ IsTop(mb, ar, c) /\ nd[c] = "D"
  /\ DOMAIN ar2 \subseteq DOMAIN ar \cup {c} /\ DOMAIN ar \subseteq DOMAIN ar2 \cup {c}
  /\ \A n \in DOMAIN ar2 \ {c} : ar2[n] = ar[n] /\ (n \in lt <=> n \in lt2)
  /\ c \in DOMAIN ar2 =>
       \/ c \in DOMAIN ar /\ ar2[c] = ar[c] /\ (c \in lt => c \in lt2)
       \/ ar2[c] = <<>> /\ c \in lt2
  /\ c \notin DOMAIN ar2 => d = CLEANUP_QUEUE
  /\ \/ d = CLEANUP_QUEUE
     \/ d \in DOMAIN mb /\ mb[d].parent \in DOMAIN mb /\ mb[mb[d].parent].parent = ARTIFACTS

LEMMA Moved ==
  ASSUME NEW nd, NEW mb, NEW ar, NEW lt, TreeOf(nd, mb, ar, lt),
         NEW mb2, NEW ar2, NEW lt2, NEW c, NEW d,
         MovedRows(nd, mb, mb2, c, d), MovedTo(nd, mb, ar, lt, mb2, ar2, lt2, c, d)
  PROVE  TreeOf(nd, mb2, ar2, lt2)
<1>0. /\ RowsOf(nd, mb) /\ PlacedIn(nd, mb, ar) /\ Table(mb)
      /\ DOMAIN mb = DOMAIN nd \ {ROOT}
      /\ {CLEANUP_QUEUE, ROOT, ARTIFACTS} \subseteq WellKnown /\ WellKnown \subseteq DOMAIN nd
      /\ c \in DOMAIN mb /\ c \notin WellKnown /\ IsTop(mb, ar, c)
      /\ d \in DOMAIN nd /\ mb2[c].parent = d /\ DOMAIN mb2 = DOMAIN mb
      /\ \A n \in DOMAIN mb \ {c} : mb2[n] = mb[n]
  BY DEF TreeOf, ShapeOf, RowsOf, WellKnown, MovedRows, MovedTo
<1>1. RowsOf(nd, mb2) /\ Table(mb2)
  <2>1. RowsOf(nd, mb2)
    BY <1>0, RowsMoved
  <2> QED
    BY <2>1 DEF RowsOf
<1>2. ASSUME NEW n, IsTop(mb, ar, n) PROVE d \notin BelowIn(mb, n)
  <2>1. CASE d = CLEANUP_QUEUE
    <3>1. n \notin WellKnown
      BY <1>0, <1>2, TopIs
    <3>2. BelowIn(mb, n) \cap WellKnown = {}
      BY <1>0, <3>1, WellKnownApart
    <3> QED
      BY <1>0, <2>1, <3>2
  <2>2. CASE d # CLEANUP_QUEUE
    <3>1. d \in DOMAIN mb /\ mb[d].parent \in DOMAIN mb /\ mb[mb[d].parent].parent = ARTIFACTS
      BY <2>2 DEF MovedTo
    <3> QED
      BY <1>0, <1>2, <3>1, AboveTops
  <2> QED
    BY <2>1, <2>2
<1>3. /\ BelowIn(mb2, c) = BelowIn(mb, c)
      /\ \A n : c \notin BelowIn(mb, n) /\ d \notin BelowIn(mb, n) =>
           BelowIn(mb2, n) = BelowIn(mb, n)
      /\ DOMAIN mb \subseteq BelowIn(mb, ROOT) =>  DOMAIN mb \subseteq BelowIn(mb2, ROOT)
  <2>1. d \notin BelowIn(mb, c) /\ d \in {ROOT} \cup DOMAIN mb
    BY <1>0, <1>2
  <2> QED
    BY <1>0, <1>1, <2>1, BelowMoved
<1>4. \A n : IsTop(mb, ar, n) =>
               BelowIn(mb2, n) = BelowIn(mb, n) /\ FilesIn(nd, mb2, n) = FilesIn(nd, mb, n)
  <2> SUFFICES ASSUME NEW n, IsTop(mb, ar, n)
               PROVE  BelowIn(mb2, n) = BelowIn(mb, n)
    BY DEF FilesIn
  <2>1. n # c => c \notin BelowIn(mb, n)
    BY <1>0, TopsApart
  <2> QED
    BY <1>2, <1>3, <2>1
<1>5. ShapeOf(nd, mb2)
  <2>1. BelowIn(mb, ROOT) = DOMAIN nd
    BY DEF TreeOf, ShapeOf
  <2>2. BelowIn(mb2, ROOT) \subseteq {ROOT} \cup DOMAIN mb2 /\ ROOT \in BelowIn(mb2, ROOT)
    BY <1>1, BelowIs
  <2>3. BelowIn(mb2, ROOT) = DOMAIN nd
    BY <1>0, <1>3, <2>1, <2>2
  <2> QED
    BY <1>1, <2>3 DEF ShapeOf
<1>6. ASSUME NEW n \in DOMAIN ar2
      PROVE  /\ n \in DOMAIN nd \ WellKnown /\ nd[n] = "D"
             /\ mb2[n].parent = TMP_IMPORT \/ VersionIn(mb2, n) \/ QueuedIn(mb2, n)
  <2>1. CASE n = c
    <3>1. CASE d = CLEANUP_QUEUE
      BY <1>0, <2>1, <3>1 DEF QueuedIn, MovedTo
    <3>2. CASE d # CLEANUP_QUEUE
      <4>1. /\ d \in DOMAIN mb /\ mb[d].parent \in DOMAIN mb
            /\ mb[mb[d].parent].parent = ARTIFACTS
        BY <3>2 DEF MovedTo
      <4>2. c \in BelowIn(mb, c)
        BY <1>0, BelowIs
      <4>3. d # c /\ mb[d].parent # c
        BY <1>0, <4>1, <4>2, AboveTops
      <4> QED
        BY <1>0, <2>1, <4>1, <4>3 DEF VersionIn, MovedTo
    <3> QED
      BY <3>1, <3>2
  <2>2. CASE n # c
    <3>0. n \in DOMAIN ar /\ n \in DOMAIN mb
      BY <1>0, <2>2, TopIs DEF MovedTo, IsTop
    <3>1. /\ n \in DOMAIN nd \ WellKnown /\ nd[n] = "D"
          /\ mb[n].parent = TMP_IMPORT \/ VersionIn(mb, n) \/ QueuedIn(mb, n)
      BY <1>0, <3>0 DEF PlacedIn
    <3>2. mb2[n] = mb[n]
      BY <1>0, <2>2, <3>0
    <3>3. ASSUME NEW dir \in DOMAIN mb, NEW above \in DOMAIN mb,
                 mb[n].parent = dir, mb[dir].parent = above, mb[above].parent = ARTIFACTS
          PROVE  VersionIn(mb2, n)
      <4>1. dir # c /\ above # c
        BY <1>0, <3>3, AboveTops, BelowIs
      <4> QED
        BY <1>0, <3>2, <3>3, <4>1 DEF VersionIn
    <3>4. QueuedIn(mb, n) => QueuedIn(mb2, n)
      BY <1>0, <3>2 DEF QueuedIn
    <3> QED
      BY <3>1, <3>2, <3>3, <3>4 DEF VersionIn
  <2> QED
    BY <2>1, <2>2
<1>7. PlacedIn(nd, mb2, ar2)
  BY <1>6 DEF PlacedIn
<1>8. ASSUME NEW n \in DOMAIN ar2
      PROVE  /\ ar2[n] \in Path \cup {<<>>}
             /\ ar2[n] # <<>> => FileAt(mb2, ar2, n) \in FilesIn(nd, mb2, n)
             /\ n \notin lt2 => \A file \in FilesIn(nd, mb2, n) :
                  ar2[n] # <<>> /\ file = FileAt(mb2, ar2, n)
  <2>1. CASE n = c /\ ar2[c] = <<>> /\ c \in lt2
    BY <2>1
  <2>2. CASE ~(n = c /\ ar2[c] = <<>> /\ c \in lt2)
    <3>1. n \in DOMAIN ar /\ ar2[n] = ar[n] /\ (n \in lt => n \in lt2)
      BY <2>2 DEF MovedTo
    <3>2. FilesIn(nd, mb2, n) = FilesIn(nd, mb, n)
      BY <1>4, <3>1 DEF IsTop
    <3>3. ASSUME ar[n] # <<>> PROVE FileAt(mb2, ar, n) = FileAt(mb, ar, n)
      <4>1. n # c => c \notin BelowIn(mb, n)
        BY <1>0, <3>1, TopsApart DEF IsTop
      <4>2. \A x \in BelowIn(mb, n) \ {n} : x \in DOMAIN mb2 /\ mb2[x] = mb[x]
        BY <1>0, <4>1, BelowIs
      <4> QED
        BY <1>1, <3>1, <3>3, <4>2, RootStays
    <3>4. FileAt(mb2, ar2, n) = FileAt(mb2, ar, n)
      BY <3>1 DEF FileAt
    <3> QED
      BY <3>1, <3>2, <3>3, <3>4 DEF TreeOf, OwnedIn
  <2> QED
    BY <2>1, <2>2
<1>9. ASSUME NEW file \in DOMAIN nd, nd[file] = "F"
      PROVE  \E n : IsTop(mb2, ar2, n) /\ file \in BelowIn(mb2, n)
  <2>1. PICK n : IsTop(mb, ar, n) /\ file \in BelowIn(mb, n)
    BY <1>9 DEF TreeOf, OwnedIn
  <2>2. file \in BelowIn(mb2, n)
    BY <1>4, <2>1
  <2>3. IsTop(mb2, ar2, n)
    <3>1. CASE n = c
      BY <1>0, <3>1 DEF IsTop, QueuedIn, MovedTo
    <3>2. CASE n # c
      BY <1>0, <2>1, <3>2 DEF IsTop, QueuedIn, MovedTo
    <3> QED
      BY <3>1, <3>2
  <2> QED
    BY <2>2, <2>3
<1> QED
  BY <1>5, <1>7, <1>8, <1>9 DEF TreeOf, OwnedIn

(* The rows below c are removed. *)
CutRows(nd, mb, nd2, mb2, c) ==
  /\ DOMAIN mb2 = DOMAIN mb \ BelowIn(mb, c) /\ \A x \in DOMAIN mb2 : mb2[x] = mb[x]
  /\ mb2 \in [DOMAIN mb2 -> {mb2[x] : x \in DOMAIN mb2}]
  /\ DOMAIN nd2 = DOMAIN mb2 \cup {ROOT} /\ \A x \in DOMAIN nd2 : nd2[x] = nd[x]
  /\ nd2 \in [DOMAIN nd2 -> {nd2[x] : x \in DOMAIN nd2}]

LEMMA RowsCut ==
  ASSUME NEW nd, NEW mb, NEW nd2, NEW mb2, NEW c, CutRows(nd, mb, nd2, mb2, c),
         RowsOf(nd, mb), c \notin WellKnown
  PROVE  RowsOf(nd2, mb2)
<1> USE DEF CutRows
<1>0. /\ Table(mb) /\ DOMAIN mb = DOMAIN nd \ {ROOT} /\ DOMAIN nd \subseteq Node
      /\ ROOT \in WellKnown /\ WellKnown \subseteq DOMAIN nd
  BY DEF RowsOf, WellKnown
<1>1. BelowIn(mb, c) \cap WellKnown = {} /\ Closed(mb, BelowIn(mb, c))
  BY <1>0, WellKnownApart, BelowIs
<1>2. DOMAIN nd2 = DOMAIN nd \ BelowIn(mb, c)
  BY <1>0, <1>1
<1>3. Table(mb2)
  <2>1. \A x \in DOMAIN mb2 : mb2[x] \in [parent : Node, name : Name \cup WellKnown]
    BY <1>0 DEF Table
  <2>2. \A x, y \in DOMAIN mb2 : mb2[x] = mb2[y] => x = y
    BY <1>0 DEF Table
  <2> QED
    BY <1>0, <2>1, <2>2 DEF Table
<1>4. \A n \in DOMAIN mb2 : mb2[n].parent \in DOMAIN nd2 /\ nd2[mb2[n].parent] = "D"
  BY <1>0, <1>1, <1>2 DEF RowsOf, Closed
<1>5. \A n \in WellKnown \ {ROOT} : mb2[n] = WellKnownMember[n]
  BY <1>0, <1>1 DEF RowsOf
<1>6. \A n \in WellKnown : n \in DOMAIN nd2 /\ nd2[n] = "D"
  BY <1>0, <1>1, <1>2 DEF RowsOf
<1>7. \A n \in DOMAIN nd2 : nd2[n] \in {"D", "F"}
  BY <1>0, <1>2 DEF RowsOf
<1>8. DOMAIN mb2 = DOMAIN nd2 \ {ROOT} /\ DOMAIN nd2 \subseteq Node
  BY <1>0, <1>2
<1> QED
  BY <1>3, <1>4, <1>5, <1>6, <1>7, <1>8 DEF RowsOf

(* The tree of the top c, which is no artifact, is removed. *)
CutTo(ar, lt, ar2, lt2, c) ==
  /\ DOMAIN ar2 = DOMAIN ar \ {c}
  /\ \A n \in DOMAIN ar2 : ar2[n] = ar[n] /\ (n \in lt <=> n \in lt2)

LEMMA CutOff ==
  ASSUME NEW nd, NEW mb, NEW ar, NEW lt, TreeOf(nd, mb, ar, lt), NEW c, IsTop(mb, ar, c),
         NEW nd2, NEW mb2, CutRows(nd, mb, nd2, mb2, c),
         NEW ar2, NEW lt2, CutTo(ar, lt, ar2, lt2, c)
  PROVE  TreeOf(nd2, mb2, ar2, lt2)
<1> USE DEF CutTo
<1>0. /\ RowsOf(nd, mb) /\ PlacedIn(nd, mb, ar) /\ Table(mb)
      /\ DOMAIN mb = DOMAIN nd \ {ROOT} /\ ROOT \in WellKnown /\ ROOT \in DOMAIN nd
      /\ DOMAIN mb2 = DOMAIN mb \ BelowIn(mb, c)
      /\ \A x \in DOMAIN mb2 : mb2[x] = mb[x]
      /\ \A x \in DOMAIN nd2 : nd2[x] = nd[x]
  BY DEF TreeOf, ShapeOf, RowsOf, WellKnown, CutRows
<1>a. /\ c \notin WellKnown /\ c \in BelowIn(mb, c) /\ BelowIn(mb, c) \cap WellKnown = {}
  BY <1>0, TopIs, WellKnownApart, BelowIs
<1>1. RowsOf(nd2, mb2) /\ Table(mb2) /\ DOMAIN nd2 = DOMAIN nd \ BelowIn(mb, c)
  <2>0. RowsOf(nd, mb) /\ c \notin WellKnown
    BY <1>0, <1>a
  <2>1. RowsOf(nd2, mb2)
    BY <2>0, RowsCut
  <2>2. DOMAIN nd2 = DOMAIN nd \ BelowIn(mb, c)
    BY <1>0, <1>a DEF CutRows
  <2> QED
    BY <2>1, <2>2 DEF RowsOf
<1>3. \A n : n \notin BelowIn(mb, c) => BelowIn(mb2, n) = BelowIn(mb, n) \ BelowIn(mb, c)
  BY <1>0, <1>1, BelowCut
<1>4. \A n : IsTop(mb, ar, n) /\ n # c =>
               /\ n \in DOMAIN mb2 /\ n \in DOMAIN nd2 /\ BelowIn(mb2, n) = BelowIn(mb, n)
               /\ FilesIn(nd2, mb2, n) = FilesIn(nd, mb, n)
               /\ BelowIn(mb, n) \subseteq DOMAIN mb2
  <2> SUFFICES ASSUME NEW n, IsTop(mb, ar, n), n # c
               PROVE  /\ n \in DOMAIN mb2 /\ n \in DOMAIN nd2 /\ BelowIn(mb2, n) = BelowIn(mb, n)
                      /\ FilesIn(nd2, mb2, n) = FilesIn(nd, mb, n)
                      /\ BelowIn(mb, n) \subseteq DOMAIN mb2
    OBVIOUS
  <2>1. BelowIn(mb, n) \cap BelowIn(mb, c) = {} /\ n \in DOMAIN mb
    BY <1>0, TopsApart, TopIs
  <2>2. n \in BelowIn(mb, n) /\ BelowIn(mb, n) \subseteq {n} \cup DOMAIN mb
    BY <1>0, BelowIs
  <2>3. BelowIn(mb2, n) = BelowIn(mb, n)
    BY <1>3, <2>1, <2>2
  <2>4. \A x \in BelowIn(mb, n) : x \in DOMAIN mb2 /\ x \in DOMAIN nd2 /\ nd2[x] = nd[x]
    BY <1>0, <1>1, <2>1, <2>2
  <2> QED
    BY <2>1, <2>2, <2>3, <2>4 DEF FilesIn
<1>5. ShapeOf(nd2, mb2)
  <2>1. BelowIn(mb, ROOT) = DOMAIN nd
    BY DEF ShapeOf, TreeOf
  <2>2. BelowIn(mb2, ROOT) = DOMAIN nd2
    BY <1>0, <1>a, <1>1, <1>3, <2>1
  <2> QED
    BY <1>1, <2>2 DEF ShapeOf
<1>6. ASSUME NEW n \in DOMAIN ar2
      PROVE  /\ n \in DOMAIN nd2 \ WellKnown /\ nd2[n] = "D"
             /\ mb2[n].parent = TMP_IMPORT \/ VersionIn(mb2, n) \/ QueuedIn(mb2, n)
  <2>1. n \in DOMAIN mb2 /\ n \in DOMAIN nd2 /\ n \notin WellKnown /\ nd[n] = "D"
    BY <1>0, <1>4 DEF PlacedIn, IsTop
  <2>2. mb[n].parent = TMP_IMPORT \/ VersionIn(mb, n) \/ QueuedIn(mb, n)
    BY <1>0 DEF PlacedIn
  <2>3. ASSUME NEW dir \in DOMAIN mb, NEW above \in DOMAIN mb,
               mb[n].parent = dir, mb[dir].parent = above, mb[above].parent = ARTIFACTS
        PROVE  VersionIn(mb2, n)
    <3>1. dir \in DOMAIN mb2 /\ above \in DOMAIN mb2
      BY <1>0, <2>3, AboveTops
    <3> QED
      BY <1>0, <2>1, <2>3, <3>1 DEF VersionIn
  <2>4. QueuedIn(mb, n) => QueuedIn(mb2, n)
    BY <1>0, <2>1 DEF QueuedIn
  <2> QED
    BY <1>0, <2>1, <2>2, <2>3, <2>4 DEF VersionIn
<1>7. ASSUME NEW n \in DOMAIN ar2
      PROVE  /\ ar2[n] \in Path \cup {<<>>}
             /\ ar2[n] # <<>> => FileAt(mb2, ar2, n) \in FilesIn(nd2, mb2, n)
             /\ n \notin lt2 => \A file \in FilesIn(nd2, mb2, n) :
                  ar2[n] # <<>> /\ file = FileAt(mb2, ar2, n)
  <2>1. /\ FilesIn(nd2, mb2, n) = FilesIn(nd, mb, n) /\ BelowIn(mb, n) \subseteq DOMAIN mb2
        /\ n \in DOMAIN ar /\ ar2[n] = ar[n] /\ (n \in lt <=> n \in lt2)
    BY <1>4 DEF IsTop
  <2>2. ASSUME ar[n] # <<>> PROVE FileAt(mb2, ar, n) = FileAt(mb, ar, n)
    <3>1. \A x \in BelowIn(mb, n) \ {n} : x \in DOMAIN mb2 /\ mb2[x] = mb[x]
      BY <1>0, <2>1
    <3> QED
      BY <1>1, <2>1, <2>2, <3>1, RootStays
  <2>3. FileAt(mb2, ar2, n) = FileAt(mb2, ar, n)
    BY <2>1 DEF FileAt
  <2> QED
    BY <2>1, <2>2, <2>3 DEF TreeOf, OwnedIn
<1>9. ASSUME NEW file \in DOMAIN nd2, nd2[file] = "F"
      PROVE  \E n : IsTop(mb2, ar2, n) /\ file \in BelowIn(mb2, n)
  <2>1. file \in DOMAIN nd /\ nd[file] = "F" /\ file \notin BelowIn(mb, c)
    BY <1>0, <1>1, <1>9
  <2>2. PICK n : IsTop(mb, ar, n) /\ file \in BelowIn(mb, n)
    BY <2>1 DEF TreeOf, OwnedIn
  <2>3. n # c
    BY <2>1, <2>2
  <2>4. n \in DOMAIN mb2 /\ BelowIn(mb2, n) = BelowIn(mb, n) /\ mb2[n] = mb[n]
    BY <1>0, <1>4, <2>2, <2>3
  <2> QED
    BY <2>2, <2>3, <2>4 DEF IsTop, QueuedIn
<1>10. PlacedIn(nd2, mb2, ar2)
  BY <1>6 DEF PlacedIn
<1> QED
  BY <1>5, <1>7, <1>9, <1>10 DEF TreeOf, OwnedIn

-----------------------------------------------------------------------------
(* The operations.  Of the rows they keep RowsOf, and unless one has       *)
(* strayed they keep the tree.                                             *)
Types ==
  /\ DOMAIN artifact \subseteq 1 .. MaxNode /\ artifact \in [DOMAIN artifact -> Path \cup {<<>>}]
  /\ imports \in [Import -> {NoImport} \cup
                    [node : 1 .. MaxNode, stage : {"waiting", "filled"}, own : BOOLEAN]]
  /\ late \subseteq (DOMAIN node \ WellKnown) \cup {ROOT}

MadeTyped == made \in [anchor : Node, path : Path \cup {<<>>}, made : Node \cup {NotFound}]

Placed == Strayed \/ (TreeOf(node, member, Roots, late) /\ Unqueued /\ ImportsPlaced)

Kept == RowsOf(node, member) /\ Types /\ OneSlot /\ Placed

LEMMA KeptIs == Kept /\ MadeTyped /\ FoundAsMade => TreeInv
<1> SUFFICES ASSUME Kept, MadeTyped, FoundAsMade PROVE TreeInv
  OBVIOUS
<1>1. TypeOK /\ RowsFit /\ WellKnownKept
  BY IsRows DEF Kept, Types, MadeTyped, TypeOK
<1>2. Strayed \/ (OneTree /\ ArtifactsPlaced /\ ImportsPlaced /\ FilesOwned)
  BY IsTree DEF Kept, Placed
<1> QED
  BY <1>1, <1>2 DEF TreeInv, Kept

LEMMA IsKept == TreeInv => Kept /\ RowsInv
<1> SUFFICES ASSUME TreeInv PROVE Kept /\ RowsInv
  OBVIOUS
<1>1. RowsInv
  BY DEF TreeInv, RowsInv
<1>2. RowsOf(node, member)
  BY <1>1, RowsAre
<1>3. Types
  BY <1>1 DEF RowsInv, TypeOK, Types
<1>4. Placed
  BY <1>1, TreeIs DEF TreeInv, Placed
<1> QED
  BY <1>1, <1>2, <1>3, <1>4 DEF Kept, TreeInv

LEMMA TreeStep == (Kept /\ MadeTyped /\ FoundAsMade)' => TreeInv'
BY KeptIs, PTL

(* Operations after which the last directory made is not remembered. *)
LEMMA QuietIs == Kept /\ made = Nothing => TreeInv
<1> SUFFICES ASSUME Kept, made = Nothing PROVE TreeInv
  OBVIOUS
<1>1. ROOT \in Node
  BY WellKnownAre
<1>2. MadeTyped /\ FoundAsMade
  BY <1>1 DEF MadeTyped, FoundAsMade, Nothing
<1> QED
  BY <1>2, KeptIs

LEMMA QuietStep == (Kept /\ made = Nothing)' => TreeInv'
BY QuietIs, PTL

(* An import under way has a number that is no well known one. *)
LEMMA ImportIs ==
  ASSUME Kept, NEW i \in Import
  PROVE  /\ imports[i] # NoImport =>
              imports[i] \in [node : 1 .. MaxNode, stage : {"waiting", "filled"}, own : BOOLEAN]
         /\ imports[i] = NoImport =>
              imports[i].stage = "none" /\ imports[i].node = NotFound /\ ~imports[i].own
         /\ imports[i] # NoImport => imports[i].node \in Node \ WellKnown
         /\ imports[i].own \in BOOLEAN
<1>1. imports[i] \in {NoImport} \cup
        [node : 1 .. MaxNode, stage : {"waiting", "filled"}, own : BOOLEAN]
  BY DEF Kept, Types
<1>2. 1 .. MaxNode \subseteq Node \ WellKnown
  BY WellKnownAre
<1>3. CASE imports[i] = NoImport
  <2>1. NoImport.stage = "none" /\ NoImport.node = NotFound /\ NoImport.own = FALSE
    BY DEF NoImport
  <2> QED
    BY <1>3, <2>1
<1>4. CASE imports[i] # NoImport
  <2>1. imports[i] \in [node : 1 .. MaxNode, stage : {"waiting", "filled"}, own : BOOLEAN]
    BY <1>1, <1>4
  <2> QED
    BY <1>2, <1>4, <2>1
<1> QED
  BY <1>3, <1>4

LEMMA RootIs ==
  ASSUME Kept, ~Strayed, NEW n \in DOMAIN artifact \cup late
  PROVE  /\ n \in DOMAIN Roots /\ IsTop(member, Roots, n)
         /\ n \in DOMAIN node /\ node[n] = "D" /\ n \in DOMAIN member /\ n \notin WellKnown
<1>1. TreeOf(node, member, Roots, late) /\ n \in DOMAIN Roots
  BY RootsAre DEF Kept, Placed
<1> QED
  BY <1>1, FileOf DEF IsTop, TreeOf, PlacedIn

(* What an import marks. *)
LEMMA MarkIs ==
  ASSUME Kept, NEW i \in Import, imports[i] # NoImport, imports[i].node \in DOMAIN node
  PROVE  /\ Marked(i) \subseteq (DOMAIN node \ WellKnown) \cup {ROOT}
         /\ late \subseteq Marked(i)
         /\ ROOT \notin Marked(i) =>
              /\ ~Strayed /\ IsTop(member, Roots, imports[i].node)
              /\ imports[i].own => Marked(i) = late /\ imports[i].node \in DOMAIN artifact
              /\ ~imports[i].own => Marked(i) = late \cup {imports[i].node}
<1> DEFINE n == imports[i].node
<1>0. n \notin WellKnown /\ n # ROOT /\ imports[i].own \in BOOLEAN
  BY ImportIs DEF WellKnown
<1>t. late \subseteq (DOMAIN node \ WellKnown) \cup {ROOT}
  BY DEF Kept, Types
<1>1. CASE imports[i].own
  <2>1. Marked(i) = late
    BY <1>1 DEF Marked
  <2>2. ASSUME ~Strayed PROVE n \in DOMAIN artifact /\ IsTop(member, Roots, n)
    BY <1>1, <2>2, RootIs DEF Kept, Placed, ImportsPlaced
  <2> QED
    BY <1>1, <1>t, <2>1, <2>2 DEF Strayed
<1>2. CASE ~imports[i].own
  <2>1. Marked(i) = late \cup {Mark(n)}
    BY <1>2 DEF Marked
  <2>2. CASE n \in DOMAIN artifact \cup late \/ InQueue(n)
    <3>1. Mark(n) = n
      BY <2>2 DEF Mark
    <3>2. IsTop(member, Roots, n)
      BY <2>2, RootsAre DEF IsTop, InQueue, QueuedIn
    <3> QED
      BY <1>0, <1>2, <1>t, <2>1, <3>1, <3>2 DEF Strayed
  <2>3. CASE ~(n \in DOMAIN artifact \cup late \/ InQueue(n))
    <3>1. Mark(n) = ROOT
      BY <2>3 DEF Mark
    <3> QED
      BY <1>t, <2>1, <3>1
  <2> QED
    BY <2>2, <2>3
<1> QED
  BY <1>0, <1>1, <1>2

(* New nodes with these members, all but the last directories. *)
LEMMA ChainGrows ==
  ASSUME RowsInv, NEW p, NEW path, NEW at, FitsAt(p, path, at),
         NEW nd2, DOMAIN nd2 = DOMAIN node \cup NewNodes(path, at),
         nd2 \in [DOMAIN nd2 -> {"D", "F"}], \A x \in DOMAIN node : nd2[x] = node[x],
         \A x \in NewNodes(path, at) : x + 1 \in NewNodes(path, at) => nd2[x] = "D"
  PROVE  GrownBy(node, member, nd2, Chain(p, path, at), NewNodes(path, at), p)
<1>0. IsChain(Chain(p, path, at), NewNodes(path, at), p, path, at)
  BY ChainIs
<1>1. p \in DOMAIN node /\ node[p] = "D"
  BY DEF FitsAt
<1>2. NewNodes(path, at) \subseteq Int
  BY <1>0, WellKnownAre DEF IsChain
<1>3. ASSUME NEW x \in NewNodes(path, at)
      PROVE  /\ Chain(p, path, at)[x].parent \in NewNodes(path, at) \cup {p}
             /\ nd2[Chain(p, path, at)[x].parent] = "D"
  <2>1. CASE x = Fresh
    BY <2>1, <1>0, <1>1 DEF IsChain
  <2>2. CASE x # Fresh
    <3>1. Chain(p, path, at)[x].parent = x - 1 /\ x - 1 \in NewNodes(path, at)
      BY <2>2, <1>0 DEF IsChain
    <3>2. (x - 1) + 1 = x
      BY <1>2
    <3> QED
      BY <3>1, <3>2
  <2> QED
    BY <2>1, <2>2
<1> QED
  BY <1>0, <1>1, <1>3 DEF GrownBy, IsChain, OneTree, Below

(* The last of the new nodes is found at the path. *)
LEMMA ChainWalk ==
  ASSUME RowsInv, NEW p, NEW path, NEW at, FitsAt(p, path, at),
         NEW a, WalkedIn(member, a, path)[at] = p
  PROVE  /\ at = Len(path) => WalkedIn(Chain(p, path, at), a, path)[Len(path)] = p
         /\ at < Len(path) =>
              WalkedIn(Chain(p, path, at), a, path)[Len(path)] = Fresh + Len(path) - at - 1
<1> DEFINE w == WalkedIn(member, a, path)
           m == Chain(p, path, at)
           v == [k \in 0 .. Len(path) |-> IF k <= at THEN w[k] ELSE Fresh + k - at - 1]
<1>0. /\ Table(member) /\ DOMAIN node \subseteq Node /\ ROOT \in DOMAIN node
      /\ Len(path) \in Nat /\ at \in 0 .. Len(path) /\ p \in DOMAIN node
  BY MemberIsTable, PathIs DEF RowsInv, FitsAt, TypeOK
<1>1. p # NotFound /\ Fresh \in Nat
  BY <1>0, NotANode, FreshIs DEF RowsInv
<1>2. w[0] = a
  BY <1>0, WalkDef
<1>3. ASSUME NEW k \in 1 .. at
      PROVE  w[k] \in DOMAIN member /\ member[w[k]] = [parent |-> w[k - 1], name |-> path[k]]
  <2>1. w[k] # NotFound /\ k \in 1 .. Len(path)
    BY <1>0, <1>1, WalkPasses
  <2> QED
    BY <1>0, <2>1, WalkUp
<1>4. /\ Table(m) /\ DOMAIN m = DOMAIN member \cup NewNodes(path, at)
      /\ \A x \in DOMAIN member : m[x] = member[x]
      /\ \A x \in NewNodes(path, at) :
           m[x] = [parent |-> IF x = Fresh THEN p ELSE x - 1, name |-> path[at + 1 + x - Fresh]]
  <2>1. IsChain(m, NewNodes(path, at), p, path, at)
    BY ChainIs
  <2> QED
    BY <2>1 DEF IsChain
<1>5. w[at] = p
  OBVIOUS
<1> HIDE DEF w, m
<1>6. ASSUME NEW k \in 1 .. Len(path)
      PROVE  v[k] \in DOMAIN m /\ m[v[k]] = [parent |-> v[k - 1], name |-> path[k]]
  <2>1. CASE k <= at
    <3>1. v[k] = w[k] /\ v[k - 1] = w[k - 1] /\ k \in 1 .. at
      BY <1>0, <2>1
    <3> QED
      BY <1>3, <1>4, <3>1
  <2>2. CASE k > at
    <3>1. v[k] = Fresh + k - at - 1 /\ Fresh + k - at - 1 \in NewNodes(path, at)
      BY <1>0, <1>1, <2>2 DEF NewNodes
    <3>2. at + 1 + v[k] - Fresh = k
      BY <1>0, <1>1, <3>1
    <3>3. v[k - 1] = IF v[k] = Fresh THEN p ELSE v[k] - 1
      <4>1. CASE k = at + 1
        BY <1>0, <1>1, <1>5, <3>1, <4>1
      <4>2. CASE k > at + 1
        BY <1>0, <1>1, <3>1, <4>2
      <4> QED
        BY <1>0, <2>2, <4>1, <4>2
    <3> HIDE DEF v
    <3> QED
      BY <1>4, <3>1, <3>2, <3>3
  <2> QED
    BY <1>0, <2>1, <2>2
<1>7. v[0] = a
  BY <1>0, <1>2
<1>8. Len(path) \in 0 .. Len(path) /\ Len(path) \in Nat
  BY <1>0
<1>9. \A k \in 0 .. Len(path) : WalkedIn(m, a, path)[k] = v[k]
  <2> HIDE DEF v
  <2> QED
    BY <1>4, <1>6, <1>7, <1>8, WalkIs
<1>10. WalkedIn(m, a, path)[Len(path)] = v[Len(path)]
  BY <1>8, <1>9
<1>11. /\ at = Len(path) => v[Len(path)] = p
       /\ at < Len(path) => v[Len(path)] = Fresh + Len(path) - at - 1
  BY <1>0, <1>5, <1>8
<1> QED
  BY <1>10, <1>11 DEF m

(* What dbfsMakeDirectoryNode does for a path below a: the tree is one,    *)
(* and the directory is at the path.                                       *)
LEMMA DirectoryMade ==
  ASSUME RowsInv, NEW a \in DOMAIN node, NEW path \in Path,
         node[InsertionPoint(a, path)] = "D",
         Missing(a, path) # 0 => WithDirectory(a, path).made <= MaxNode,
         NEW dir, dir = IF Missing(a, path) = 0 THEN InsertionPoint(a, path)
                        ELSE WithDirectory(a, path).made
  PROVE  /\ RowsOf(WithDirectory(a, path).node, WithDirectory(a, path).member)
         /\ \A ar, lt : TreeOf(node, member, ar, lt) =>
              TreeOf(WithDirectory(a, path).node, WithDirectory(a, path).member, ar, lt)
         /\ WalkedIn(WithDirectory(a, path).member, a, path)[Len(path)] = dir
         /\ dir \in DOMAIN WithDirectory(a, path).node /\ dir \in Node
         /\ WithDirectory(a, path).node[dir] = "D"
         /\ \A x \in DOMAIN node : /\ x \in DOMAIN WithDirectory(a, path).node
                                   /\ WithDirectory(a, path).node[x] = node[x]
         /\ \A x \in DOMAIN member : /\ x \in DOMAIN WithDirectory(a, path).member
                                     /\ WithDirectory(a, path).member[x] = member[x]
         /\ \A x \in DOMAIN WithDirectory(a, path).member :
              WithDirectory(a, path).member[x].parent = dir => x \in DOMAIN member
<1> DEFINE p == InsertionPoint(a, path)
           at == Depth(a, path)
           new == NewNodes(path, at)
           nd2 == WithDirectory(a, path).node
           mb2 == WithDirectory(a, path).member
<1>0. /\ at \in 0 .. Len(path) /\ Len(path) \in Nat /\ p \in DOMAIN node
      /\ p = WalkedIn(member, a, path)[at]
      /\ at < Len(path) => Child(p, path[at + 1]) = NotFound
      /\ Missing(a, path) = Len(path) - at
  BY DepthIs, PathIs
<1>1. Fresh \in Nat \ {0} /\ DOMAIN node \subseteq Node
  BY FreshIs, MemberIsTable DEF RowsInv, TypeOK
<1>2. WithDirectory(a, path).made = Fresh + Missing(a, path) - 1
  BY DEF WithDirectory
<1>3. new = Fresh .. Fresh + Missing(a, path) - 1
  BY <1>0, <1>1 DEF NewNodes
<1>4. nd2 = With(node, [n \in new |-> "D"]) /\ mb2 = Chain(p, path, at)
  BY <1>3 DEF WithDirectory
<1> HIDE DEF p, at, nd2, mb2, new
<1>5. FitsAt(p, path, at)
  BY <1>0, <1>1, <1>2 DEF FitsAt, p
<1>6. /\ DOMAIN nd2 = DOMAIN node \cup new
      /\ \A x \in new : nd2[x] = "D"
      /\ nd2 \in [DOMAIN nd2 -> {nd2[x] : x \in DOMAIN nd2}]
      /\ \A x \in DOMAIN nd2 \ new : nd2[x] = node[x]
  BY <1>4 DEF With
<1>7. IsChain(mb2, new, p, path, at)
  BY <1>4, <1>5, ChainIs DEF new
<1>8. \A x \in DOMAIN node : nd2[x] = node[x] /\ node[x] \in {"D", "F"}
  BY <1>6, <1>7 DEF IsChain, RowsInv, TypeOK
<1>9. nd2 \in [DOMAIN nd2 -> {"D", "F"}]
  BY <1>6, <1>8
<1>10. GrownBy(node, member, nd2, mb2, new, p)
  BY <1>4, <1>5, <1>6, <1>8, <1>9, ChainGrows DEF new
<1>11. RowsOf(nd2, mb2)
  BY <1>10, RowsAre, GrownRows
<1>18. ASSUME NEW ar, NEW lt, TreeOf(node, member, ar, lt) PROVE TreeOf(nd2, mb2, ar, lt)
  BY <1>6, <1>10, <1>18, GrownDirs
<1>12. WalkedIn(mb2, a, path)[Len(path)] = dir
  <2>1. /\ at = Len(path) => WalkedIn(mb2, a, path)[Len(path)] = p
        /\ at < Len(path) => WalkedIn(mb2, a, path)[Len(path)] = Fresh + Len(path) - at - 1
    BY <1>0, <1>4, <1>5, ChainWalk
  <2> QED
    BY <1>0, <1>1, <1>2, <2>1 DEF p
<1>13. dir \in DOMAIN nd2 /\ dir \in Node /\ nd2[dir] = "D"
  <2>1. CASE Missing(a, path) = 0
    BY <1>0, <1>1, <1>6, <1>8, <2>1 DEF p
  <2>2. CASE Missing(a, path) # 0
    <3>1. dir \in new
      BY <1>0, <1>1, <1>2, <1>3, <2>2
    <3> QED
      BY <1>6, <1>7, <3>1 DEF IsChain
  <2> QED
    BY <2>1, <2>2
<1>14. \A x \in DOMAIN node : x \in DOMAIN nd2 /\ nd2[x] = node[x]
  BY <1>6, <1>8
<1>15. \A x \in DOMAIN member : x \in DOMAIN mb2 /\ mb2[x] = member[x]
  BY <1>7 DEF IsChain
<1>16. ASSUME NEW x \in new PROVE mb2[x].parent # dir
  <2>1. x \in Int /\ Fresh <= x /\ x <= Fresh + Missing(a, path) - 1 /\ Missing(a, path) \in Nat
    BY <1>0, <1>1, <1>3
  <2>2. dir = Fresh + Missing(a, path) - 1 /\ dir \in new
    BY <1>0, <1>1, <1>2, <1>3, <2>1
  <2>3. CASE x = Fresh
    BY <1>0, <1>7, <2>2, <2>3 DEF IsChain
  <2>4. CASE x # Fresh
    <3>1. mb2[x].parent = x - 1
      BY <1>7, <2>4 DEF IsChain
    <3> QED
      BY <1>1, <2>1, <2>2, <3>1
  <2> QED
    BY <2>3, <2>4
<1>17. \A x \in DOMAIN mb2 : mb2[x].parent = dir => x \in DOMAIN member
  BY <1>7, <1>16 DEF IsChain
<1> QED
  BY <1>11, <1>12, <1>13, <1>14, <1>15, <1>17, <1>18 DEF nd2, mb2

(* Where the rows of directories and of placed imports stay, these stay.   *)
LEMMA StillPlaced ==
  ASSUME Kept, UNCHANGED <<artifact, imports, late>>,
         \A x \in DOMAIN member : x \in DOMAIN member' /\ member'[x] = member[x],
         \A x \in DOMAIN node : x \in DOMAIN node' /\ node'[x] = node[x],
         RowsOf(node', member'),
         \A ar, lt : TreeOf(node, member, ar, lt) => TreeOf(node', member', ar, lt)
  PROVE  Kept'
<1>1. Types'
  BY DEF Kept, Types
<1>2. OneSlot'
  BY DEF Kept, OneSlot
<1>3. ASSUME ~ Strayed'
      PROVE  TreeOf(node', member', Roots', late') /\ Unqueued' /\ ImportsPlaced'
  <2>0. ~ Strayed /\ TreeOf(node, member, Roots, late) /\ Unqueued /\ ImportsPlaced
    BY <1>3 DEF Strayed, Kept, Placed
  <2>1. Roots' = Roots
    BY DEF Roots
  <2>2. \A n \in DOMAIN artifact : n \in DOMAIN member /\ member'[n] = member[n]
    BY <2>0, RootIs
  <2>3. Unqueued'
    BY <2>0, <2>2 DEF Unqueued, QueuedIn
  <2>4. ImportsPlaced'
    BY <2>0, <2>2 DEF ImportsPlaced
  <2> QED
    BY <2>0, <2>1, <2>3, <2>4
<1> QED
  BY <1>1, <1>2, <1>3 DEF Kept, Placed

LEMMA MakeDirectoryKeeps ==
  ASSUME TreeInv, NEW a \in Anchor, NEW path \in Path, NEW recursive \in BOOLEAN,
         MakeDirectory(a, path, recursive)
  PROVE  TreeInv'
<1>0. Kept /\ RowsInv /\ a \in Node
  BY IsKept, AnchorAssumption
<1>1. UNCHANGED <<artifact, imports, late>> /\ ROOT \in Node
  BY WellKnownAre DEF MakeDirectory
<1>2. ASSUME UNCHANGED <<node, member>> PROVE Kept'
  BY <1>0, <1>1, <1>2 DEF Kept, Types, OneSlot, Placed, Strayed, Roots, Unqueued, ImportsPlaced
<1>3. CASE Outcome(a, path, recursive) = Failed
  <2>1. made' = Nothing /\ UNCHANGED <<node, member>>
    BY <1>3, NotANode DEF MakeDirectory
  <2> QED
    BY <1>2, <2>1, QuietStep
<1>4. CASE Outcome(a, path, recursive) \notin {Failed, NotFound}
  <2> DEFINE outcome == Outcome(a, path, recursive)
  <2>1. /\ made' = [anchor |-> a, path |-> path, made |-> outcome]
        /\ node' = node /\ member' = member
    BY <1>4 DEF MakeDirectory
  <2>2. /\ outcome = InsertionPoint(a, path) /\ Missing(a, path) = 0
        /\ node[InsertionPoint(a, path)] = "D" /\ a \in DOMAIN node
    BY <1>4 DEF Outcome
  <2>3. /\ InsertionPoint(a, path) \in Node
        /\ InsertionPoint(a, path) = WalkedIn(member, a, path)[Depth(a, path)]
        /\ Missing(a, path) = Len(path) - Depth(a, path)
        /\ Depth(a, path) \in 0 .. Len(path) /\ Len(path) \in Nat
        /\ Walked(a, path) = WalkedIn(member, a, path)
    BY <1>0, <2>2, DepthIs, PathIs DEF RowsInv, TypeOK
  <2> HIDE DEF outcome
  <2>4. MadeTyped'
    BY <1>0, <2>1, <2>2, <2>3 DEF MadeTyped
  <2>5. FoundAsMade'
    <3>1. Depth(a, path) = Len(path)
      BY <2>2, <2>3
    <3>2. Find(a, path) = outcome /\ node[outcome] = "D"
      BY <2>2, <2>3, <3>1 DEF Find
    <3>3. Find(a, path)' = Find(a, path)
      BY <2>1 DEF Find, Walked
    <3> QED
      BY <2>1, <3>2, <3>3 DEF FoundAsMade, Find, Walked
  <2> QED
    BY <1>2, <2>1, <2>4, <2>5, TreeStep
<1>5. CASE Outcome(a, path, recursive) = NotFound
  <2> DEFINE with == WithDirectory(a, path)
  <2>0. a \in DOMAIN node
    BY <1>5, NotANode DEF Outcome
  <2>1. /\ with.made <= MaxNode /\ node' = with.node /\ member' = with.member
        /\ made' = [anchor |-> a, path |-> path, made |-> with.made]
    BY <1>5 DEF MakeDirectory
  <2>2. InsertionPoint(a, path) # NotFound
    BY <1>0, <2>0, DepthIs
  <2>3. node[InsertionPoint(a, path)] = "D" /\ Missing(a, path) # 0
    BY <1>5, <2>2, NotANode DEF Outcome
  <2>4. /\ RowsOf(with.node, with.member)
        /\ \A ar, lt : TreeOf(node, member, ar, lt) => TreeOf(with.node, with.member, ar, lt)
        /\ WalkedIn(with.member, a, path)[Len(path)] = with.made
        /\ with.node[with.made] = "D" /\ with.made \in Node
        /\ \A x \in DOMAIN node : x \in DOMAIN with.node /\ with.node[x] = node[x]
        /\ \A x \in DOMAIN member : x \in DOMAIN with.member /\ with.member[x] = member[x]
    BY <1>0, <2>0, <2>1, <2>3, DirectoryMade
  <2> HIDE DEF with
  <2>5. Kept'
    BY <1>0, <1>1, <2>1, <2>4, StillPlaced
  <2>6. MadeTyped'
    BY <1>0, <2>1, <2>4 DEF MadeTyped
  <2>7. FoundAsMade'
    <3>1. Find(a, path)' = with.made
      BY <2>0, <2>1, <2>4 DEF Find, Walked
    <3> QED
      BY <2>1, <2>4, <3>1 DEF FoundAsMade, Find, Walked
  <2> QED
    BY <2>5, <2>6, <2>7, TreeStep
<1> QED
  BY <1>3, <1>4, <1>5

LEMMA CreatePlaceholderKeeps ==
  ASSUME TreeInv, NEW i \in Import, NEW name \in Name, CreatePlaceholder(i, name)
  PROVE  TreeInv'
<1> DEFINE path == <<name>>
           new == NewNodes(path, 0)
<1>0. /\ Kept /\ RowsInv /\ RowsOf(node, member) /\ Types /\ OneSlot
      /\ DOMAIN member = DOMAIN node \ {ROOT} /\ node \in [DOMAIN node -> {"D", "F"}]
      /\ TMP_IMPORT \in DOMAIN node /\ node[TMP_IMPORT] = "D" /\ ROOT \in DOMAIN node
  BY IsKept DEF Kept, RowsOf, WellKnown
<1>1. Fresh \in Nat \ {0} /\ \A x \in DOMAIN node : x < Fresh
  BY <1>0, FreshIs DEF RowsInv
<1>2. path \in Path /\ Len(path) = 1 /\ path[1] = name
  <2>1. path \in [1 .. 1 -> Name] /\ 1 \in 1 .. MaxDepth
    BY BoundAssumption
  <2> QED
    BY <2>1 DEF Path
<1>3. new = {Fresh}
  BY <1>1, <1>2 DEF NewNodes
<1>4. FitsAt(TMP_IMPORT, path, 0)
  BY <1>0, <1>1, <1>2 DEF FitsAt, CreatePlaceholder
<1>5. /\ node' = With(node, [n \in {Fresh} |-> "D"])
      /\ artifact' = With(artifact, [n \in {Fresh} |-> <<>>])
      /\ member' = Chain(TMP_IMPORT, path, 0) /\ made' = Nothing
      /\ imports' = [imports EXCEPT ![i] = [node |-> Fresh, stage |-> "waiting", own |-> TRUE]]
      /\ late' = late /\ Fresh <= MaxNode /\ imports[i] = NoImport
  BY DEF CreatePlaceholder
<1> HIDE DEF path, new
<1>6. /\ DOMAIN node' = DOMAIN node \cup new /\ node'[Fresh] = "D"
      /\ \A x \in DOMAIN node' \ {Fresh} : node'[x] = node[x]
      /\ node' \in [DOMAIN node' -> {node'[x] : x \in DOMAIN node'}]
      /\ DOMAIN artifact' = DOMAIN artifact \cup {Fresh} /\ artifact'[Fresh] = <<>>
      /\ \A x \in DOMAIN artifact' \ {Fresh} : artifact'[x] = artifact[x]
      /\ artifact' \in [DOMAIN artifact' -> {artifact'[x] : x \in DOMAIN artifact'}]
  BY <1>3, <1>5 DEF With
<1>7. IsChain(member', new, TMP_IMPORT, path, 0)
  BY <1>0, <1>4, <1>5, ChainIs DEF new
<1>8. /\ \A x \in DOMAIN node : node'[x] = node[x]
      /\ \A x \in new : node'[x] = "D"
      /\ node' \in [DOMAIN node' -> {"D", "F"}]
  BY <1>0, <1>1, <1>3, <1>6
<1>9. GrownBy(node, member, node', member', new, TMP_IMPORT)
  BY <1>0, <1>4, <1>5, <1>6, <1>8, ChainGrows DEF new
<1>r. RowsOf(node', member')
  BY <1>0, <1>9, GrownRows
<1>m. /\ \A x \in DOMAIN member : x \in DOMAIN member' /\ member'[x] = member[x]
      /\ Fresh \in DOMAIN member' /\ member'[Fresh].parent = TMP_IMPORT
      /\ Fresh \notin WellKnown /\ Fresh # ROOT
  BY <1>3, <1>7, WellKnownAre DEF IsChain
<1>t. Types'
  <2>1. Fresh \in 1 .. MaxNode
    BY <1>1, <1>5, BoundAssumption
  <2>2. DOMAIN artifact' \subseteq 1 .. MaxNode /\ artifact' \in [DOMAIN artifact' -> Path \cup {<<>>}]
    BY <1>0, <1>6, <2>1 DEF Types
  <2>3. imports' \in [Import -> {NoImport} \cup
                    [node : 1 .. MaxNode, stage : {"waiting", "filled"}, own : BOOLEAN]]
    BY <1>0, <1>5, <2>1 DEF Types
  <2>4. late' \subseteq (DOMAIN node' \ WellKnown) \cup {ROOT}
    BY <1>0, <1>5, <1>6 DEF Types
  <2> QED
    BY <2>2, <2>3, <2>4 DEF Types
<1>i. /\ imports'[i] = [node |-> Fresh, stage |-> "waiting", own |-> TRUE]
      /\ \A j \in Import \ {i} : imports'[j] = imports[j]
  BY <1>0, <1>5 DEF Types
<1>s. OneSlot'
  <2>1. imports'[i].stage = "waiting"
    BY <1>i
  <2>2. \A j \in Import : imports'[j].stage = "filled" => j # i /\ imports[j].stage = "filled"
    BY <1>i, <2>1
  <2> QED
    BY <1>0, <1>6, <1>8, <1>i, <2>2 DEF OneSlot
<1>p. ASSUME ~ Strayed'
      PROVE  TreeOf(node', member', Roots', late') /\ Unqueued' /\ ImportsPlaced'
  <2>0. ~ Strayed /\ TreeOf(node, member, Roots, late) /\ Unqueued /\ ImportsPlaced
    BY <1>0, <1>5, <1>p DEF Strayed, Kept, Placed
  <2>1. /\ \A n \in DOMAIN artifact \cup late : n \in DOMAIN node /\ n \in DOMAIN member /\ n # Fresh
        /\ Fresh \notin DOMAIN artifact \cup late
    BY <1>0, <1>1, <2>0, RootIs
  <2>2. /\ DOMAIN Roots' = DOMAIN Roots \cup {Fresh}
        /\ \A n \in DOMAIN Roots : Roots'[n] = Roots[n]
        /\ Roots'[Fresh] = <<>>
    <3>1. /\ DOMAIN Roots' = DOMAIN artifact' \cup late'
          /\ \A n \in DOMAIN Roots' : Roots'[n] = IF n \in DOMAIN artifact' THEN artifact'[n] ELSE <<>>
          /\ DOMAIN Roots = DOMAIN artifact \cup late
          /\ \A n \in DOMAIN Roots : Roots[n] = IF n \in DOMAIN artifact THEN artifact[n] ELSE <<>>
      BY DEF Roots
    <3> QED
      BY <1>5, <1>6, <2>1, <3>1
  <2>3. TreeOf(node', member', Roots', late)
    <3>1. \A n \in DOMAIN Roots' \ DOMAIN Roots :
            n \in new /\ Roots'[n] = <<>> /\ member'[n].parent = TMP_IMPORT
      BY <1>3, <1>m, <2>2
    <3> QED
      BY <1>8, <1>9, <2>0, <2>2, <3>1, GrownDirs
  <2>4. Unqueued'
    <3>1. ~ QueuedIn(member', Fresh)
      BY <1>m, WellKnownAre DEF QueuedIn
    <3>2. \A n \in DOMAIN artifact : ~ QueuedIn(member', n)
      BY <1>m, <2>0, <2>1 DEF Unqueued, QueuedIn
    <3> QED
      BY <1>6, <3>1, <3>2 DEF Unqueued
  <2>5. ImportsPlaced'
    <3>1. /\ imports'[i].node = Fresh /\ imports'[i].stage = "waiting" /\ imports'[i].own
      BY <1>i
    <3>2. \A j \in Import \ {i} : imports'[j].own =>
            /\ imports[j].own /\ imports'[j].node = imports[j].node
            /\ imports[j].node \in DOMAIN artifact /\ imports[j].node # Fresh
            /\ imports[j].node \in DOMAIN member
      BY <1>i, <2>0, <2>1 DEF ImportsPlaced
    <3>3. ASSUME NEW j \in Import, imports'[j].own
          PROVE  LET n == imports'[j].node IN
                 /\ n \in DOMAIN artifact'
                 /\ \A k \in Import : imports'[k].own /\ imports'[k].node = n => k = j
                 /\ n \notin late' => /\ member'[n].parent = TMP_IMPORT
                                      /\ (imports'[j].stage = "waiting") <=> (artifact'[n] = <<>>)
      <4>1. CASE j = i
        BY <1>6, <1>m, <3>1, <3>2, <4>1
      <4>2. CASE j # i
        <5>1. imports'[j] = imports[j] /\ artifact'[imports[j].node] = artifact[imports[j].node]
              /\ member'[imports[j].node] = member[imports[j].node]
          BY <1>6, <1>i, <1>m, <3>2, <3>3, <4>2
        <5>2. \A k \in Import : imports'[k].own /\ imports'[k].node = imports[j].node => k = j
          BY <1>i, <2>0, <3>1, <3>2, <3>3, <4>2 DEF ImportsPlaced
        <5>3. imports[j].node \notin late =>
                /\ member[imports[j].node].parent = TMP_IMPORT
                /\ (imports[j].stage = "waiting") <=> (artifact[imports[j].node] = <<>>)
          BY <2>0, <3>2, <3>3, <4>2 DEF ImportsPlaced
        <5> QED
          BY <1>5, <1>6, <3>2, <3>3, <4>2, <5>1, <5>2, <5>3
      <4> QED
        BY <4>1, <4>2
    <3> QED
      BY <3>3 DEF ImportsPlaced
  <2> QED
    BY <1>5, <2>3, <2>4, <2>5
<1>k. Kept'
  BY <1>r, <1>t, <1>s, <1>p DEF Kept, Placed
<1> QED
  BY <1>5, <1>k, QuietStep

LEMMA InsertTreeKeeps ==
  ASSUME TreeInv, NEW i \in Import, NEW path \in Path, InsertTree(i, path)
  PROVE  TreeInv'
<1> DEFINE n == imports[i].node
           new == NewNodes(path, 0)
           last == Fresh + Len(path) - 1
<1>0. /\ Kept /\ RowsInv /\ RowsOf(node, member) /\ Types /\ OneSlot
      /\ DOMAIN member = DOMAIN node \ {ROOT} /\ node \in [DOMAIN node -> {"D", "F"}]
      /\ n \in DOMAIN node /\ node[n] = "D" /\ ROOT \in DOMAIN node
      /\ imports[i].stage = "waiting" /\ SlotFree
  BY IsKept DEF Kept, RowsOf, WellKnown, InsertTree
<1>1. Fresh \in Nat \ {0} /\ \A x \in DOMAIN node : x < Fresh
  BY <1>0, FreshIs DEF RowsInv
<1>2. Len(path) \in Nat \ {0} /\ Head(path) = path[1]
  BY PathIs
<1>3. new = Fresh .. last /\ last \in new
  BY <1>1, <1>2 DEF NewNodes
<1>4. FitsAt(n, path, 0)
  BY <1>0, <1>1, <1>2 DEF FitsAt, InsertTree
<1>5. /\ node' = With(node, [m \in new |-> IF m = last THEN "F" ELSE "D"])
      /\ artifact' = [m \in DOMAIN artifact |-> IF m = n THEN path ELSE artifact[m]]
      /\ member' = Chain(n, path, 0) /\ made' = Nothing
      /\ imports' = [imports EXCEPT ![i].stage = "filled"]
      /\ late' = Marked(i)
  BY <1>3 DEF InsertTree
<1>w. WalkedIn(member, n, path)[0] = n
  BY <1>2, WalkDef
<1>l. last = Fresh + Len(path) - 0 - 1 /\ 0 < Len(path) /\ last \in Int
  BY <1>1, <1>2
<1>g. /\ imports[i] # NoImport
      /\ imports[i] \in [node : 1 .. MaxNode, stage : {"waiting", "filled"}, own : BOOLEAN]
      /\ n \notin WellKnown /\ imports[i].own \in BOOLEAN
  <2>1. imports[i] # NoImport
    BY <1>0, ImportIs
  <2> QED
    BY <1>0, <2>1, ImportIs
<1>k. /\ late' \subseteq (DOMAIN node \ WellKnown) \cup {ROOT} /\ late \subseteq late'
      /\ ~ Strayed' =>
           /\ ~ Strayed /\ IsTop(member, Roots, n)
           /\ imports[i].own => late' = late /\ n \in DOMAIN artifact
           /\ ~imports[i].own => late' = late \cup {n}
  BY <1>0, <1>5, <1>g, MarkIs DEF Strayed
<1> HIDE DEF new, last, n
<1>6. /\ DOMAIN node' = DOMAIN node \cup new
      /\ \A x \in new : node'[x] = IF x = last THEN "F" ELSE "D"
      /\ \A x \in DOMAIN node' \ new : node'[x] = node[x]
      /\ node' \in [DOMAIN node' -> {node'[x] : x \in DOMAIN node'}]
  BY <1>5 DEF With
<1>7. IsChain(member', new, n, path, 0)
  BY <1>0, <1>4, <1>5, ChainIs DEF new
<1>8. /\ \A x \in DOMAIN node : node'[x] = node[x]
      /\ node' \in [DOMAIN node' -> {"D", "F"}]
      /\ \A x \in new : node'[x] = "F" <=> x = last
  BY <1>0, <1>6, <1>7 DEF IsChain
<1>9. \A x \in new : x + 1 \in new => node'[x] = "D"
  BY <1>1, <1>3, <1>6, <1>l
<1>10. GrownBy(node, member, node', member', new, n)
  BY <1>0, <1>4, <1>5, <1>6, <1>8, <1>9, ChainGrows DEF new
<1>11. WalkedIn(member', n, path)[Len(path)] = last
  BY <1>0, <1>4, <1>5, <1>w, <1>l, ChainWalk
<1>r. RowsOf(node', member')
  BY <1>0, <1>10, GrownRows
<1>m. \A x \in DOMAIN member : x \in DOMAIN member' /\ member'[x] = member[x]
  BY <1>7 DEF IsChain
<1>a. /\ DOMAIN artifact' = DOMAIN artifact
      /\ \A x \in DOMAIN artifact \ {n} : artifact'[x] = artifact[x]
      /\ n \in DOMAIN artifact => artifact'[n] = path
      /\ path # <<>>
  BY <1>2, <1>5
<1>i. /\ imports'[i].node = n /\ imports'[i].stage = "filled" /\ imports'[i].own = imports[i].own
      /\ imports'[i] \in [node : 1 .. MaxNode, stage : {"waiting", "filled"}, own : BOOLEAN]
      /\ \A j \in Import \ {i} : imports'[j] = imports[j]
  BY <1>0, <1>5, <1>g DEF Types, n
<1>t. Types'
  <2>1. artifact' \in [DOMAIN artifact' -> Path \cup {<<>>}] /\ DOMAIN artifact' \subseteq 1 .. MaxNode
    BY <1>0, <1>5, <1>a DEF Types
  <2>2. imports' \in [Import -> {NoImport} \cup
                    [node : 1 .. MaxNode, stage : {"waiting", "filled"}, own : BOOLEAN]]
    BY <1>0, <1>5, <1>i DEF Types
  <2>3. late' \subseteq (DOMAIN node' \ WellKnown) \cup {ROOT}
    BY <1>6, <1>k
  <2> QED
    BY <2>1, <2>2, <2>3 DEF Types
<1>s. OneSlot'
  <2>1. \A j \in Import : imports'[j].stage = "filled" => j = i
    BY <1>0, <1>i DEF SlotFree
  <2> QED
    BY <1>0, <1>6, <1>8, <1>i, <2>1 DEF OneSlot
<1>p. ASSUME ~ Strayed'
      PROVE  TreeOf(node', member', Roots', late') /\ Unqueued' /\ ImportsPlaced'
  <2>0. ~ Strayed /\ TreeOf(node, member, Roots, late) /\ Unqueued /\ ImportsPlaced
    BY <1>0, <1>k, <1>p DEF Kept, Placed
  <2>1. \A x \in DOMAIN artifact \cup late : x \in DOMAIN member
    BY <1>0, <2>0, RootIs
  <2>2. \A x \in DOMAIN artifact : x \in DOMAIN member' /\ member'[x] = member[x]
    BY <1>m, <2>1
  <2>3. /\ DOMAIN Roots' = DOMAIN artifact \cup late'
        /\ \A x \in DOMAIN Roots' : Roots'[x] = IF x \in DOMAIN artifact THEN artifact'[x] ELSE <<>>
        /\ DOMAIN Roots = DOMAIN artifact \cup late
        /\ \A x \in DOMAIN Roots : Roots[x] = IF x \in DOMAIN artifact THEN artifact[x] ELSE <<>>
    BY <1>a DEF Roots
  <2>4. /\ \A x \in late' \ {n} : x \in late
        /\ n \in DOMAIN artifact \cup late'
        /\ n \notin late' => imports[i].own /\ n \in DOMAIN artifact /\ n \notin late
    BY <1>g, <1>k, <1>p
  <2>5. n \notin late' => artifact[n] = <<>>
    BY <1>0, <2>0, <2>4 DEF ImportsPlaced, n
  <2>6. FilledTo(Roots, late, Roots', late', n, path)
    <3>1. DOMAIN Roots' = DOMAIN Roots \cup {n}
      BY <1>k, <2>3, <2>4
    <3>2. \A x \in DOMAIN Roots \ {n} : Roots'[x] = Roots[x] /\ (x \in late <=> x \in late')
      BY <1>a, <1>k, <2>3, <2>4
    <3>3. Roots'[n] \in {path, <<>>}
      BY <1>a, <2>3, <2>4
    <3>4. n \notin late' => /\ n \in DOMAIN Roots /\ n \notin late
                            /\ Roots[n] = <<>> /\ Roots'[n] = path
      BY <1>a, <2>3, <2>4, <2>5
    <3> QED
      BY <3>1, <3>2, <3>3, <3>4 DEF FilledTo
  <2>7. AddsFile(node', member', new, n, path, last)
    BY <1>3, <1>8, <1>11 DEF AddsFile
  <2>8. TreeOf(node', member', Roots', late')
    BY <1>0, <1>10, <1>k, <1>p, <2>0, <2>6, <2>7, GrownTree
  <2>9. Unqueued'
    BY <1>a, <2>0, <2>1, <2>2 DEF Unqueued, QueuedIn
  <2>10. ASSUME NEW j \in Import, imports'[j].own
         PROVE  LET m == imports'[j].node IN
                /\ m \in DOMAIN artifact'
                /\ \A k \in Import : imports'[k].own /\ imports'[k].node = m => k = j
                /\ m \notin late' => /\ member'[m].parent = TMP_IMPORT
                                     /\ (imports'[j].stage = "waiting") <=> (artifact'[m] = <<>>)
    <3>0. /\ imports'[j].node = imports[j].node /\ imports[j].own
          /\ imports[j].node \in DOMAIN artifact
          /\ \A k \in Import : imports[k].own /\ imports[k].node = imports[j].node => k = j
          /\ \A k \in Import : /\ imports'[k].own = imports[k].own
                               /\ imports'[k].node = imports[k].node
      BY <1>i, <2>0, <2>10 DEF ImportsPlaced, n
    <3>1. imports[j].node \notin late =>
            /\ member[imports[j].node].parent = TMP_IMPORT
            /\ (imports[j].stage = "waiting") <=> (artifact[imports[j].node] = <<>>)
      BY <2>0, <3>0 DEF ImportsPlaced
    <3>2. CASE j = i
      <4>1. imports[j].node = n
        BY <3>2 DEF n
      <4> QED
        BY <1>a, <1>i, <1>k, <2>2, <3>0, <3>1, <3>2, <4>1
    <3>3. CASE j # i /\ imports[j].node = n
      <4>1. ~ imports[i].own
        BY <3>0, <3>3 DEF n
      <4>2. n \in late'
        BY <1>k, <1>p, <4>1
      <4> QED
        BY <1>a, <3>0, <3>3, <4>2
    <3>4. CASE imports[j].node # n
      <4>1. j # i
        BY <3>4 DEF n
      <4>2. imports'[j] = imports[j]
        BY <1>i, <4>1
      <4>3. artifact'[imports[j].node] = artifact[imports[j].node]
        BY <1>a, <3>0, <3>4
      <4> QED
        BY <1>a, <1>k, <2>2, <3>0, <3>1, <4>2, <4>3
    <3> QED
      BY <3>2, <3>3, <3>4
  <2>11. ImportsPlaced'
    BY <2>10 DEF ImportsPlaced
  <2> QED
    BY <2>8, <2>9, <2>11
<1>q. Kept'
  BY <1>r, <1>t, <1>s, <1>p DEF Kept, Placed
<1> QED
  BY <1>5, <1>q, QuietStep

LEMMA AbandonImportKeeps ==
  ASSUME TreeInv, NEW i \in Import, AbandonImport(i)
  PROVE  TreeInv'
<1>0. Kept
  BY IsKept
<1>1. /\ imports' = [imports EXCEPT ![i] = NoImport] /\ made' = Nothing
      /\ node' = node /\ member' = member /\ artifact' = artifact /\ late' = late
  BY DEF AbandonImport
<1>2. /\ imports'[i] = NoImport /\ \A j \in Import \ {i} : imports'[j] = imports[j]
      /\ NoImport.stage = "none" /\ NoImport.own = FALSE
  BY <1>0, <1>1 DEF Kept, Types, NoImport
<1>3. Types'
  BY <1>0, <1>1 DEF Kept, Types
<1>4. OneSlot'
  <2>1. \A j \in Import : imports'[j].stage = "filled" => imports'[j] = imports[j]
    BY <1>2
  <2> QED
    BY <1>0, <1>1, <2>1 DEF Kept, OneSlot
<1>5. Placed'
  <2>1. \A j \in Import : imports'[j].own => imports'[j] = imports[j]
    BY <1>2
  <2>2. ImportsPlaced => ImportsPlaced'
    BY <1>1, <2>1 DEF ImportsPlaced
  <2> QED
    BY <1>0, <1>1, <2>2 DEF Kept, Placed, Strayed, Unqueued, Roots
<1>6. Kept'
  BY <1>0, <1>1, <1>3, <1>4, <1>5 DEF Kept
<1> QED
  BY <1>1, <1>6, QuietStep

LEMMA DeleteArtifactKeeps ==
  ASSUME TreeInv, NEW n \in Node, DeleteArtifact(n)
  PROVE  TreeInv'
<1>0. /\ Kept /\ RowsOf(node, member) /\ Types /\ OneSlot /\ Table(member)
      /\ CLEANUP_QUEUE \in DOMAIN node /\ node[CLEANUP_QUEUE] = "D" /\ CLEANUP_QUEUE \in Node
  BY IsKept, WellKnownAre DEF Kept, RowsOf, WellKnown
<1>1. /\ n \in DOMAIN artifact /\ node' = node /\ made' = Nothing /\ late' = late
      /\ artifact' = [m \in DOMAIN artifact \ {n} |-> artifact[m]]
      /\ member' = [m \in DOMAIN member |->
                      IF m = n THEN [member[m] EXCEPT !.parent = CLEANUP_QUEUE] ELSE member[m]]
      /\ n \in DOMAIN member => Child(CLEANUP_QUEUE, member[n].name) \in {NotFound, n}
      /\ imports' = [i \in Import |-> IF imports[i].node = n
                                      THEN [imports[i] EXCEPT !.own = FALSE] ELSE imports[i]]
  BY DEF DeleteArtifact, Disowned
<1>n. n \in 1 .. MaxNode /\ n \notin WellKnown /\ n # NotFound
  BY <1>0, <1>1, WellKnownAre, NotANode DEF Types
<1>m. /\ DOMAIN member' = DOMAIN member /\ \A m \in DOMAIN member \ {n} : member'[m] = member[m]
      /\ member' \in [DOMAIN member -> {member'[m] : m \in DOMAIN member}]
      /\ n \in DOMAIN member => member'[n] = [parent |-> CLEANUP_QUEUE, name |-> member[n].name]
  <2>1. n \in DOMAIN member => member[n] \in [parent : Node, name : Name \cup WellKnown]
    BY <1>0 DEF Table
  <2> QED
    BY <1>1, <2>1
<1>r. n \in DOMAIN member => MovedRows(node, member, member', n, CLEANUP_QUEUE)
  <2> SUFFICES ASSUME n \in DOMAIN member PROVE MovedRows(node, member, member', n, CLEANUP_QUEUE)
    OBVIOUS
  <2>1. member[n].name \in Name \cup WellKnown
    BY <1>0 DEF Table
  <2>2. ASSUME NEW m \in DOMAIN member \ {n}, member[m] = member'[n] PROVE FALSE
    <3>1. member[m] = [parent |-> CLEANUP_QUEUE, name |-> member[n].name]
      BY <1>m, <2>2
    <3>2. Child(CLEANUP_QUEUE, member[n].name) = m
      BY <1>0, <3>1, ChildIs DEF Child
    <3>3. m \in Node
      BY <1>0 DEF RowsOf
    <3> QED
      BY <1>1, <3>2, <3>3, NotANode
  <2>3. /\ member'[n] \in [parent : Node, name : Name \cup WellKnown]
        /\ member'[n].parent = CLEANUP_QUEUE
    BY <1>0, <1>m, <2>1
  <2> QED
    BY <1>0, <1>n, <1>m, <2>2, <2>3 DEF MovedRows
<1>2. RowsOf(node', member')
  <2>1. CASE n \in DOMAIN member
    BY <1>0, <1>1, <1>r, <2>1, RowsMoved
  <2>2. CASE n \notin DOMAIN member
    <3>1. member \in [DOMAIN member -> [parent : Node, name : Name \cup WellKnown]]
      BY <1>0 DEF Table
    <3>2. \A m \in DOMAIN member : member'[m] = member[m]
      BY <1>m, <2>2
    <3>3. member' = member
      BY <1>m, <3>1, <3>2
    <3> QED
      BY <1>0, <1>1, <3>3
  <2> QED
    BY <2>1, <2>2
<1>i. ASSUME NEW i \in Import
      PROVE  /\ imports'[i].node = imports[i].node /\ imports'[i].stage = imports[i].stage
             /\ imports'[i] \in {NoImport} \cup
                  [node : 1 .. MaxNode, stage : {"waiting", "filled"}, own : BOOLEAN]
             /\ imports'[i].own => imports[i].own /\ imports[i].node # n
  <2>1. CASE imports[i] = NoImport
    <3>1. imports[i].node = NotFound
      BY <1>0, <2>1, ImportIs
    <3>2. imports'[i] = imports[i]
      BY <1>1, <1>n, <3>1
    <3> QED
      BY <1>n, <2>1, <3>1, <3>2
  <2>2. CASE imports[i] # NoImport
    <3>1. imports[i] \in [node : 1 .. MaxNode, stage : {"waiting", "filled"}, own : BOOLEAN]
      BY <1>0, <2>2, ImportIs
    <3>2. imports'[i] = IF imports[i].node = n
                        THEN [imports[i] EXCEPT !.own = FALSE] ELSE imports[i]
      BY <1>1
    <3> QED
      BY <3>1, <3>2
  <2> QED
    BY <2>1, <2>2
<1>t. Types'
  <2>1. DOMAIN artifact' \subseteq 1 .. MaxNode /\ artifact' \in [DOMAIN artifact' -> Path \cup {<<>>}]
    BY <1>0, <1>1 DEF Types
  <2>2. imports' \in [Import -> {NoImport} \cup
                    [node : 1 .. MaxNode, stage : {"waiting", "filled"}, own : BOOLEAN]]
    BY <1>1, <1>i
  <2> QED
    BY <1>0, <1>1, <2>1, <2>2 DEF Types
<1>s. OneSlot'
  BY <1>0, <1>1, <1>i DEF OneSlot
<1>p. ASSUME ~ Strayed'
      PROVE  TreeOf(node', member', Roots', late') /\ Unqueued' /\ ImportsPlaced'
  <2>0. ~ Strayed /\ TreeOf(node, member, Roots, late) /\ Unqueued /\ ImportsPlaced
    BY <1>0, <1>1, <1>p DEF Strayed, Kept, Placed
  <2>1. \A m \in DOMAIN artifact : m \in DOMAIN member /\ node[m] = "D" /\ IsTop(member, Roots, m)
    BY <1>0, <2>0, RootIs
  <2>2. /\ DOMAIN Roots' = DOMAIN artifact' \cup late
        /\ \A m \in DOMAIN Roots' : Roots'[m] = IF m \in DOMAIN artifact' THEN artifact'[m] ELSE <<>>
        /\ DOMAIN Roots = DOMAIN artifact \cup late
        /\ \A m \in DOMAIN Roots : Roots[m] = IF m \in DOMAIN artifact THEN artifact[m] ELSE <<>>
        /\ DOMAIN artifact' = DOMAIN artifact \ {n}
        /\ \A m \in DOMAIN artifact' : artifact'[m] = artifact[m]
    BY <1>1 DEF Roots
  <2>3. MovedTo(node, member, Roots, late, member', Roots', late', n, CLEANUP_QUEUE)
    <3>1. DOMAIN Roots' \subseteq DOMAIN Roots /\ DOMAIN Roots \subseteq DOMAIN Roots' \cup {n}
      BY <2>2
    <3>2. \A m \in DOMAIN Roots' \ {n} : Roots'[m] = Roots[m]
      BY <2>2
    <3>3. n \in DOMAIN Roots' => Roots'[n] = <<>> /\ n \in late'
      BY <1>1, <2>2
    <3> QED
      BY <1>1, <2>1, <3>1, <3>2, <3>3 DEF MovedTo
  <2>4. TreeOf(node', member', Roots', late')
    BY <1>1, <1>r, <2>0, <2>1, <2>3, Moved
  <2>5. Unqueued'
    BY <1>m, <2>0, <2>1, <2>2 DEF Unqueued, QueuedIn
  <2>6. ASSUME NEW j \in Import, imports'[j].own
        PROVE  LET m == imports'[j].node IN
               /\ m \in DOMAIN artifact'
               /\ \A k \in Import : imports'[k].own /\ imports'[k].node = m => k = j
               /\ m \notin late' => /\ member'[m].parent = TMP_IMPORT
                                    /\ (imports'[j].stage = "waiting") <=> (artifact'[m] = <<>>)
    <3>1. imports'[j].node = imports[j].node /\ imports[j].own /\ imports[j].node # n
      BY <1>i, <2>6
    <3>2. /\ imports[j].node \in DOMAIN artifact
          /\ \A k \in Import : imports[k].own /\ imports[k].node = imports[j].node => k = j
          /\ imports[j].node \notin late =>
               /\ member[imports[j].node].parent = TMP_IMPORT
               /\ (imports[j].stage = "waiting") <=> (artifact[imports[j].node] = <<>>)
      BY <2>0, <3>1 DEF ImportsPlaced
    <3>3. \A k \in Import : imports'[k].own /\ imports'[k].node = imports[j].node => k = j
      BY <1>i, <3>2
    <3>4. member'[imports[j].node] = member[imports[j].node]
      BY <1>m, <2>1, <3>1, <3>2
    <3>5. imports[j].node \in DOMAIN artifact' /\ artifact'[imports[j].node] = artifact[imports[j].node]
      BY <2>2, <3>1, <3>2
    <3>6. imports'[j].stage = imports[j].stage
      BY <1>i
    <3> QED
      BY <1>1, <3>1, <3>2, <3>3, <3>4, <3>5, <3>6
  <2>7. ImportsPlaced'
    BY <2>6 DEF ImportsPlaced
  <2> QED
    BY <2>4, <2>5, <2>7
<1>k. Kept'
  BY <1>2, <1>t, <1>s, <1>p DEF Kept, Placed
<1> QED
  BY <1>1, <1>k, QuietStep

(* What the cleanup of a tree removes, even if one has strayed. *)
LEMMA TreeRemoved ==
  ASSUME TreeInv, NEW n \in Node, DeleteTree(n)
  PROVE  /\ CutRows(node, member, node', member', n) /\ n \notin WellKnown
         /\ DOMAIN node' = DOMAIN node \ BelowIn(member, n)
         /\ RowsOf(node', member')
<1>0. /\ Kept /\ RowsOf(node, member) /\ Table(member) /\ Types
      /\ DOMAIN member = DOMAIN node \ {ROOT} /\ ROOT \in DOMAIN node /\ ROOT \in WellKnown
  BY IsKept DEF Kept, RowsOf, WellKnown
<1>1. /\ ToCleanUp(n)
      /\ member' = [m \in DOMAIN member \ BelowIn(member, n) |-> member[m]]
      /\ node' = [m \in (DOMAIN node \cap DOMAIN member') \cup {ROOT} |-> node[m]]
  BY DEF DeleteTree, Below
<1>2. CutRows(node, member, node', member', n)
  BY <1>0, <1>1 DEF CutRows
<1>3. n \notin WellKnown
  <2>1. CASE QueuedIn(member, n)
    BY <1>0, <2>1, QueuedIs
  <2>2. CASE n \in late
    BY <1>0, <1>1, <2>2 DEF Types, ToCleanUp
  <2> QED
    BY <1>1, <2>1, <2>2 DEF ToCleanUp, InQueue, QueuedIn
<1>4. RowsOf(node', member')
  BY <1>0, <1>2, <1>3, RowsCut
<1>5. ROOT \notin BelowIn(member, n)
  BY <1>0, <1>3, WellKnownApart
<1>6. DOMAIN node' = DOMAIN node \ BelowIn(member, n)
  BY <1>0, <1>2, <1>5 DEF CutRows
<1> QED
  BY <1>2, <1>3, <1>4, <1>6

LEMMA DeleteTreeKeeps ==
  ASSUME TreeInv, NEW n \in Node, DeleteTree(n)
  PROVE  TreeInv'
<1>0. /\ Kept /\ RowsOf(node, member) /\ Table(member) /\ Types /\ OneSlot
      /\ ROOT \in DOMAIN node /\ ROOT \in WellKnown
  BY IsKept DEF Kept, RowsOf, WellKnown
<1>1. /\ ToCleanUp(n) /\ SlotFree /\ made' = Nothing /\ late' = late \cap DOMAIN node'
      /\ artifact' = artifact /\ imports' = imports
  BY DEF DeleteTree
<1>2. /\ CutRows(node, member, node', member', n) /\ n \notin WellKnown
      /\ DOMAIN node' = DOMAIN node \ BelowIn(member, n)
      /\ RowsOf(node', member')
  BY TreeRemoved
<1>3. n \in BelowIn(member, n) /\ BelowIn(member, n) \cap WellKnown = {}
  BY <1>0, <1>2, WellKnownApart, BelowIs
<1>t. Types'
  BY <1>0, <1>1 DEF Types
<1>s. OneSlot'
  BY <1>0, <1>1 DEF OneSlot, SlotFree
<1>p. ASSUME ~ Strayed'
      PROVE  TreeOf(node', member', Roots', late') /\ Unqueued' /\ ImportsPlaced'
  <2>0. ~ Strayed /\ TreeOf(node, member, Roots, late) /\ Unqueued /\ ImportsPlaced
    BY <1>0, <1>1, <1>2, <1>3, <1>p DEF Strayed, Kept, Placed
  <2>1. IsTop(member, Roots, n) /\ n \notin DOMAIN artifact
    BY <1>1, <2>0, RootsAre DEF ToCleanUp, InQueue, QueuedIn, Unqueued, IsTop
  <2>2. \A m \in DOMAIN artifact \cup late :
          m # n => m \in DOMAIN node' /\ m \in DOMAIN member' /\ member'[m] = member[m]
    <3> SUFFICES ASSUME NEW m \in DOMAIN artifact \cup late, m # n
                 PROVE  m \in DOMAIN node' /\ m \in DOMAIN member' /\ member'[m] = member[m]
      OBVIOUS
    <3>1. IsTop(member, Roots, m) /\ m \in DOMAIN node /\ m \in DOMAIN member
      BY <1>0, <2>0, RootIs
    <3>2. PlacedIn(node, member, Roots)
      BY <2>0 DEF TreeOf
    <3>3. m \notin BelowIn(member, n)
      BY <1>0, <2>1, <3>1, <3>2, TopsApart
    <3> QED
      BY <1>2, <3>1, <3>3 DEF CutRows
  <2>3. CutTo(Roots, late, Roots', late', n)
    <3>1. /\ DOMAIN Roots' = DOMAIN artifact \cup late'
          /\ \A m \in DOMAIN Roots' : Roots'[m] = IF m \in DOMAIN artifact THEN artifact[m] ELSE <<>>
          /\ DOMAIN Roots = DOMAIN artifact \cup late
          /\ \A m \in DOMAIN Roots : Roots[m] = IF m \in DOMAIN artifact THEN artifact[m] ELSE <<>>
      BY <1>1 DEF Roots
    <3>2. late' = late \ {n}
      BY <1>1, <1>2, <1>3, <2>2
    <3> QED
      BY <2>1, <3>1, <3>2 DEF CutTo
  <2>4. TreeOf(node', member', Roots', late')
    BY <1>2, <2>0, <2>1, <2>3, CutOff
  <2>5. \A m \in DOMAIN artifact : m \in DOMAIN node' /\ m \in DOMAIN member' /\ member'[m] = member[m]
    BY <2>1, <2>2
  <2>6. Unqueued'
    BY <1>0, <1>1, <2>0, <2>5, RootIs DEF Unqueued, QueuedIn
  <2>7. ImportsPlaced'
    BY <1>1, <2>0, <2>5 DEF ImportsPlaced
  <2> QED
    BY <2>4, <2>6, <2>7
<1>k. Kept'
  BY <1>2, <1>t, <1>s, <1>p DEF Kept, Placed
<1> QED
  BY <1>1, <1>k, QuietStep

LEMMA ReplacePlaceholderKeeps ==
  ASSUME TreeInv, NEW i \in Import, NEW path \in Path, NEW name \in Name,
         ReplacePlaceholder(i, path, name)
  PROVE  TreeInv'
<1> DEFINE n == imports[i].node
           outcome == Outcome(ARTIFACTS, path, TRUE)
           with == WithDirectory(ARTIFACTS, path)
           dir == IF outcome = NotFound THEN with.made ELSE outcome
           row == [parent |-> dir, name |-> name]
<1>0. /\ Kept /\ RowsInv /\ RowsOf(node, member) /\ Types /\ OneSlot /\ Table(member)
      /\ DOMAIN member = DOMAIN node \ {ROOT} /\ DOMAIN node \subseteq Node
      /\ ARTIFACTS \in DOMAIN node /\ ROOT \in WellKnown
  BY IsKept DEF Kept, RowsOf, WellKnown
<1>1. /\ imports[i].stage = "filled" /\ Len(path) = 2
      /\ outcome # Failed /\ dir <= MaxNode /\ Child(dir, name) \in {NotFound, n}
      /\ node' = with.node /\ member' = [with.member EXCEPT ![n] = row]
      /\ made' = Nothing /\ artifact' = artifact
      /\ imports' = [imports EXCEPT ![i] = NoImport] /\ late' = Marked(i)
  BY DEF ReplacePlaceholder
<1>n. n \in DOMAIN node /\ node[n] = "D" /\ \A j \in Import : imports[j].stage = "filled" => j = i
  BY <1>0, <1>1 DEF OneSlot
<1>g. imports[i] # NoImport /\ n \notin WellKnown /\ n # NotFound /\ imports[i].own \in BOOLEAN
  <2>1. imports[i] # NoImport
    BY <1>0, <1>1, ImportIs
  <2> QED
    BY <1>0, <1>n, <2>1, ImportIs, NotANode
<1>k. /\ late' \subseteq (DOMAIN node \ WellKnown) \cup {ROOT} /\ late \subseteq late'
      /\ ~ Strayed' =>
           /\ ~ Strayed /\ IsTop(member, Roots, n)
           /\ imports[i].own => late' = late /\ n \in DOMAIN artifact
           /\ ~imports[i].own => late' = late \cup {n}
  BY <1>0, <1>1, <1>g, <1>n, MarkIs DEF Strayed
<1>2. /\ node[InsertionPoint(ARTIFACTS, path)] = "D"
      /\ outcome = IF Missing(ARTIFACTS, path) = 0 THEN InsertionPoint(ARTIFACTS, path) ELSE NotFound
  BY <1>0, <1>1 DEF Outcome
<1>3. /\ InsertionPoint(ARTIFACTS, path) # NotFound
      /\ dir = IF Missing(ARTIFACTS, path) = 0 THEN InsertionPoint(ARTIFACTS, path) ELSE with.made
  BY <1>0, <1>2, DepthIs
<1>4. Missing(ARTIFACTS, path) # 0 => with.made <= MaxNode
  BY <1>1, <1>3
<1> HIDE DEF outcome, dir, n
<1>5. /\ RowsOf(with.node, with.member)
      /\ \A ar, lt : TreeOf(node, member, ar, lt) => TreeOf(with.node, with.member, ar, lt)
      /\ WalkedIn(with.member, ARTIFACTS, path)[Len(path)] = dir
      /\ dir \in DOMAIN with.node /\ dir \in Node /\ with.node[dir] = "D"
      /\ \A x \in DOMAIN node : x \in DOMAIN with.node /\ with.node[x] = node[x]
      /\ \A x \in DOMAIN member : x \in DOMAIN with.member /\ with.member[x] = member[x]
      /\ \A x \in DOMAIN with.member : with.member[x].parent = dir => x \in DOMAIN member
  BY <1>0, <1>2, <1>3, <1>4, DirectoryMade
<1> DEFINE nd == with.node
           mb == with.member
           v == WalkedIn(mb, ARTIFACTS, path)
<1> HIDE DEF with
<1>6. Table(mb) /\ n \in DOMAIN member /\ n \in DOMAIN mb /\ mb[n] = member[n] /\ nd[n] = "D"
  <2>1. n \in DOMAIN member
    BY <1>0, <1>g, <1>n
  <2>2. Table(mb)
    BY <1>5 DEF RowsOf
  <2>3. n \in DOMAIN mb /\ mb[n] = member[n] /\ nd[n] = "D"
    BY <1>5, <1>n, <2>1
  <2> QED
    BY <2>1, <2>2, <2>3
<1>7. Len(path) = 2 /\ v[2] = dir /\ dir # NotFound
  BY <1>1, <1>5, NotANode
<1>8. v[0] = ARTIFACTS /\ v[1] # NotFound
  <2>1. Len(path) \in Nat /\ Len(path) \in 0 .. Len(path) /\ 1 \in 0 .. Len(path)
    BY <1>7
  <2>2. Table(mb) /\ v[Len(path)] # NotFound
    BY <1>6, <1>7
  <2>3. v[0] = ARTIFACTS
    BY <2>1, WalkDef
  <2>4. \A k \in 0 .. Len(path) : v[k] # NotFound
    BY <2>1, <2>2, WalkPasses
  <2> QED
    BY <2>1, <2>3, <2>4
<1>9. dir \in DOMAIN mb /\ mb[dir].parent \in DOMAIN mb /\ mb[mb[dir].parent].parent = ARTIFACTS
  <2>1. mb[v[2]] = [parent |-> v[2 - 1], name |-> path[2]] /\ v[2] \in DOMAIN mb
    BY <1>6, <1>7, WalkUp
  <2>2. mb[v[1]] = [parent |-> v[1 - 1], name |-> path[1]] /\ v[1] \in DOMAIN mb
    BY <1>6, <1>7, <1>8, WalkUp
  <2> QED
    BY <1>7, <1>8, <2>1, <2>2
<1>10. \A x \in DOMAIN mb \ {n} : mb[x] # row
  <2> SUFFICES ASSUME NEW x \in DOMAIN mb \ {n}, mb[x] = row PROVE FALSE
    OBVIOUS
  <2>1. x \in DOMAIN member /\ member[x] = [parent |-> dir, name |-> name]
    BY <1>5
  <2>2. Child(dir, name) = x
    BY <1>0, <2>1, ChildIs DEF Child
  <2>3. x # NotFound
    BY <1>0, <2>1, NotANode
  <2> QED
    BY <1>1, <2>2, <2>3
<1>11. /\ DOMAIN member' = DOMAIN mb /\ member'[n] = row
       /\ \A x \in DOMAIN mb \ {n} : member'[x] = mb[x]
       /\ member' \in [DOMAIN mb -> {member'[x] : x \in DOMAIN mb}]
  <2>1. mb \in [DOMAIN mb -> {mb[x] : x \in DOMAIN mb}] /\ member' = [mb EXCEPT ![n] = row]
    BY <1>1, <1>6 DEF Table
  <2> HIDE DEF mb, row
  <2> QED
    BY <1>6, <2>1
<1>12. MovedRows(nd, mb, member', n, dir)
  <2>1. row \in [parent : Node, name : Name \cup WellKnown] /\ row.parent = dir
    BY <1>5
  <2>2. dir \in DOMAIN nd /\ nd[dir] = "D"
    BY <1>5
  <2> HIDE DEF mb, nd, row
  <2> QED
    BY <1>6, <1>g, <1>10, <1>11, <2>1, <2>2 DEF MovedRows
<1>r. RowsOf(node', member')
  BY <1>1, <1>5, <1>12, RowsMoved
<1>i. /\ imports'[i] = NoImport /\ \A j \in Import \ {i} : imports'[j] = imports[j]
      /\ NoImport.stage = "none" /\ NoImport.own = FALSE
  BY <1>0, <1>1 DEF Types, NoImport
<1>t. Types'
  <2>1. late' \subseteq (DOMAIN node' \ WellKnown) \cup {ROOT}
    BY <1>1, <1>5, <1>k
  <2> QED
    BY <1>0, <1>1, <2>1 DEF Types
<1>s. OneSlot'
  <2>1. \A j \in Import : imports'[j].stage # "filled"
    BY <1>n, <1>i
  <2> QED
    BY <2>1 DEF OneSlot
<1>p. ASSUME ~ Strayed'
      PROVE  TreeOf(node', member', Roots', late') /\ Unqueued' /\ ImportsPlaced'
  <2>0. ~ Strayed /\ TreeOf(node, member, Roots, late) /\ Unqueued /\ ImportsPlaced
    BY <1>0, <1>k, <1>p DEF Kept, Placed
  <2>1. TreeOf(nd, mb, Roots, late)
    BY <1>5, <2>0
  <2>2. IsTop(mb, Roots, n)
    BY <1>6, <1>k, <1>p DEF IsTop, QueuedIn
  <2>3. /\ DOMAIN Roots' = DOMAIN artifact \cup late'
        /\ \A m \in DOMAIN Roots' : Roots'[m] = IF m \in DOMAIN artifact THEN artifact[m] ELSE <<>>
        /\ DOMAIN Roots = DOMAIN artifact \cup late
        /\ \A m \in DOMAIN Roots : Roots[m] = IF m \in DOMAIN artifact THEN artifact[m] ELSE <<>>
    BY <1>1 DEF Roots
  <2>4. /\ \A m \in late' \ {n} : m \in late
        /\ n \in DOMAIN artifact \cup late'
        /\ n \in late => n \in late'
        /\ n \notin DOMAIN artifact => n \in late'
    BY <1>g, <1>k, <1>p
  <2>5. MovedTo(nd, mb, Roots, late, member', Roots', late', n, dir)
    <3>1. /\ DOMAIN Roots' \subseteq DOMAIN Roots \cup {n}
          /\ DOMAIN Roots \subseteq DOMAIN Roots' \cup {n} /\ n \in DOMAIN Roots'
      BY <1>k, <2>3, <2>4
    <3>2. \A m \in DOMAIN Roots' \ {n} : Roots'[m] = Roots[m] /\ (m \in late <=> m \in late')
      BY <1>k, <2>3, <2>4
    <3>3. \/ n \in DOMAIN Roots /\ Roots'[n] = Roots[n] /\ (n \in late => n \in late')
          \/ Roots'[n] = <<>> /\ n \in late'
      BY <2>3, <2>4
    <3> HIDE DEF mb, nd
    <3> QED
      BY <1>6, <1>9, <2>2, <3>1, <3>2, <3>3 DEF MovedTo
  <2>6. TreeOf(node', member', Roots', late')
    <3>1. TreeOf(nd, member', Roots', late')
      BY <1>12, <2>1, <2>5, Moved
    <3> QED
      BY <1>1, <3>1
  <2>7. \A m \in DOMAIN artifact \ {n} : m \in DOMAIN member /\ member'[m] = member[m]
    BY <1>0, <1>5, <1>11, <2>0, RootIs
  <2>8. Unqueued'
    <3>1. dir # CLEANUP_QUEUE
      <4>1. mb[CLEANUP_QUEUE].parent = ROOT /\ ROOT \notin DOMAIN mb
        BY <1>5, WellKnownAre DEF RowsOf
      <4> QED
        BY <1>9, <4>1
    <3>2. \A m \in DOMAIN artifact \ {n} : ~ QueuedIn(member', m)
      BY <2>0, <2>7 DEF Unqueued, QueuedIn
    <3>3. ~ QueuedIn(member', n)
      BY <1>11, <3>1 DEF QueuedIn
    <3> QED
      BY <1>1, <3>2, <3>3 DEF Unqueued
  <2>9. ASSUME NEW j \in Import, imports'[j].own
        PROVE  LET m == imports'[j].node IN
               /\ m \in DOMAIN artifact'
               /\ \A k \in Import : imports'[k].own /\ imports'[k].node = m => k = j
               /\ m \notin late' => /\ member'[m].parent = TMP_IMPORT
                                    /\ (imports'[j].stage = "waiting") <=> (artifact'[m] = <<>>)
    <3>1. j # i /\ imports'[j] = imports[j]
      BY <1>i, <2>9
    <3>2. /\ imports[j].node \in DOMAIN artifact
          /\ \A k \in Import : imports[k].own /\ imports[k].node = imports[j].node => k = j
          /\ imports[j].node \notin late =>
               /\ member[imports[j].node].parent = TMP_IMPORT
               /\ (imports[j].stage = "waiting") <=> (artifact[imports[j].node] = <<>>)
      BY <2>0, <2>9, <3>1 DEF ImportsPlaced
    <3>3. \A k \in Import : imports'[k].own => imports'[k] = imports[k]
      BY <1>i
    <3>4. CASE imports[j].node = n
      <4>1. n \in late'
        BY <1>g, <1>k, <1>p, <2>9, <3>1, <3>2, <3>4 DEF n
      <4> QED
        BY <1>1, <3>1, <3>2, <3>3, <3>4, <4>1
    <3>5. CASE imports[j].node # n
      <4>1. member'[imports[j].node] = member[imports[j].node]
        BY <2>7, <3>2, <3>5
      <4> QED
        BY <1>1, <1>k, <3>1, <3>2, <3>3, <4>1
    <3> QED
      BY <3>4, <3>5
  <2>10. ImportsPlaced'
    BY <2>9 DEF ImportsPlaced
  <2> QED
    BY <2>6, <2>8, <2>10
<1>q. Kept'
  BY <1>r, <1>t, <1>s, <1>p DEF Kept, Placed
<1> QED
  BY <1>1, <1>q, QuietStep

(* The tree of the well known directories. *)
LEMMA InitIsTree == Init => TreeInv
<1> SUFFICES ASSUME Init PROVE Kept /\ made = Nothing
  BY QuietIs
<1>1. /\ node = [n \in WellKnown |-> "D"] /\ member = WellKnownMember
      /\ artifact = <<>> /\ made = Nothing
      /\ imports = [i \in Import |-> NoImport] /\ late = {}
  BY DEF Init
<1>2. /\ DOMAIN node = WellKnown /\ DOMAIN member = WellKnown \ {ROOT}
      /\ \A n \in WellKnown : node[n] = "D"
      /\ \A n \in DOMAIN member : member[n] = [parent |-> IF n = TMP_IMPORT THEN TMP ELSE ROOT, name |-> n]
  BY <1>1 DEF WellKnownMember
<1>3. {ROOT, TMP} \subseteq WellKnown /\ WellKnown \subseteq Node
  BY WellKnownAre
<1>4. \A n \in DOMAIN member :
        member[n] \in [parent : Node, name : Name \cup WellKnown] /\ member[n].name = n
        /\ member[n].parent \in WellKnown
  BY <1>2, <1>3
<1>5. Table(member)
  <2>1. member \in [DOMAIN member -> [parent : Node, name : Name \cup WellKnown]]
    BY <1>1, <1>2, <1>4 DEF WellKnownMember
  <2> QED
    BY <1>2, <1>3, <1>4, <2>1 DEF Table
<1>6. BelowIn(member, ROOT) = DOMAIN node
  <2>1. ROOT \in BelowIn(member, ROOT) /\ BelowIn(member, ROOT) \subseteq {ROOT} \cup DOMAIN member
    BY <1>5, BelowIs
  <2>2. \A n \in DOMAIN member : member[n].parent \in BelowIn(member, ROOT) => n \in BelowIn(member, ROOT)
    BY <1>5, BelowIs DEF Closed
  <2>3. \A n \in DOMAIN member \ {TMP_IMPORT} : n \in BelowIn(member, ROOT)
    BY <1>2, <2>1, <2>2
  <2>4. TMP_IMPORT \in DOMAIN member /\ member[TMP_IMPORT].parent = TMP
        /\ TMP \in DOMAIN member \ {TMP_IMPORT}
    <3>1. {TMP, TMP_IMPORT} \subseteq WellKnown \ {ROOT} /\ TMP # TMP_IMPORT
      BY DEF WellKnown, ROOT, TMP, TMP_IMPORT
    <3> QED
      BY <1>2, <3>1
  <2>5. TMP_IMPORT \in BelowIn(member, ROOT)
    BY <2>2, <2>3, <2>4
  <2> QED
    BY <1>2, <1>3, <2>1, <2>3, <2>5
<1>7. RowsOf(node, member)
  <2>1. node \in [DOMAIN node -> {"D", "F"}]
    BY <1>1
  <2>2. \A n \in DOMAIN member : member[n].parent \in DOMAIN node /\ node[member[n].parent] = "D"
    BY <1>2, <1>4
  <2> QED
    BY <1>1, <1>2, <1>3, <1>5, <2>1, <2>2 DEF RowsOf
<1>8. DOMAIN artifact = {} /\ artifact \in [{} -> Path \cup {<<>>}] /\ DOMAIN Roots = {}
  BY <1>1 DEF Roots
<1>9. TreeOf(node, member, Roots, late)
  <2>1. ShapeOf(node, member) /\ PlacedIn(node, member, Roots)
    BY <1>6, <1>7, <1>8 DEF ShapeOf, PlacedIn
  <2>2. OwnedIn(node, member, Roots, late)
    BY <1>2, <1>8 DEF OwnedIn
  <2> QED
    BY <2>1, <2>2 DEF TreeOf
<1>10. \A i \in Import : imports[i] = NoImport /\ NoImport.stage = "none" /\ NoImport.own = FALSE
  BY <1>1 DEF NoImport
<1>11. Types /\ OneSlot
  BY <1>1, <1>8, <1>10 DEF Types, OneSlot
<1>12. Unqueued /\ ImportsPlaced
  BY <1>8, <1>10 DEF Unqueued, ImportsPlaced
<1> QED
  BY <1>1, <1>7, <1>9, <1>11, <1>12 DEF Kept, Placed

(* Each of the operations on the tree keeps it one, with the artifacts and *)
(* their files where they are: TreeInv is inductive.                       *)
LEMMA TreeInvKept ==
  ASSUME TreeInv, [Next]_vars
  PROVE  TreeInv'
<1>1. ASSUME NEW a \in Anchor, NEW path \in Path, NEW recursive \in BOOLEAN,
             MakeDirectory(a, path, recursive)
      PROVE  TreeInv'
  BY <1>1, MakeDirectoryKeeps
<1>2. ASSUME NEW i \in Import, NEW name \in Name, CreatePlaceholder(i, name) PROVE TreeInv'
  BY <1>2, CreatePlaceholderKeeps
<1>3. ASSUME NEW i \in Import, NEW path \in Path, InsertTree(i, path) PROVE TreeInv'
  BY <1>3, InsertTreeKeeps
<1>4. ASSUME NEW i \in Import, NEW path \in Path, NEW name \in Name, ReplacePlaceholder(i, path, name)
      PROVE  TreeInv'
  BY <1>4, ReplacePlaceholderKeeps
<1>5. ASSUME NEW i \in Import, AbandonImport(i) PROVE TreeInv'
  BY <1>5, AbandonImportKeeps
<1>6. ASSUME NEW n \in Node, DeleteArtifact(n) PROVE TreeInv'
  BY <1>6, DeleteArtifactKeeps
<1>7. ASSUME NEW n \in Node, DeleteTree(n) PROVE TreeInv'
  BY <1>7, DeleteTreeKeeps
<1>8. CASE UNCHANGED vars
  BY <1>8 DEF vars, TreeInv, TypeOK, RowsFit, WellKnownKept, OneSlot, FoundAsMade, Strayed,
     OneTree, ArtifactsPlaced, ImportsPlaced, FilesOwned, Find, Walked, Below, ToCleanUp,
     InQueue, InVersion, FilesBelow
<1> QED
  BY <1>1, <1>2, <1>3, <1>4, <1>5, <1>6, <1>7, <1>8 DEF Next

(* The rows of the node tables fit each other and the well known           *)
(* directories stay; and as long as no late import has strayed they are a  *)
(* tree from the root, in which the artifacts and their files are where    *)
(* they belong, and every file is below an artifact or to be cleaned up.   *)
THEOREM TreeInvHolds == Spec => []TreeInv
<1>1. Init => TreeInv
  BY InitIsTree
<1>2. TreeInv /\ [Next]_vars => TreeInv'
  BY TreeInvKept
<1> QED
  BY <1>1, <1>2, PTL DEF Spec

(* What is imported into an artifact stays there. *)
LEMMA ArtifactsKept == TreeInv => ArtifactsAreKept
<1> SUFFICES ASSUME TreeInv, ~ Strayed, NEW n \in DOMAIN artifact
             PROVE  /\ n \in Below(TMP_IMPORT) \cup Below(ARTIFACTS)
                    /\ artifact[n] # <<>> =>
                         Find(n, artifact[n]) # NotFound /\ node[Find(n, artifact[n])] = "F"
  BY DEF ArtifactsAreKept
<1>1. /\ TreeOf(node, member, Roots, late) /\ Unqueued /\ Table(member) /\ Kept
      /\ n \in DOMAIN Roots /\ Roots[n] = artifact[n]
  BY IsKept, RootsAre DEF Kept, Placed, RowsOf
<1>2. n \in DOMAIN member /\ n \in DOMAIN node
  BY <1>1, RootIs
<1>3. member[n].parent = TMP_IMPORT \/ VersionIn(member, n)
  BY <1>1 DEF TreeOf, PlacedIn, Unqueued
<1>4. \A d : /\ d \in Below(d)
             /\ \A x \in DOMAIN member : member[x].parent \in Below(d) => x \in Below(d)
  BY <1>1, BelowIs DEF Below, Closed
<1>5. n \in Below(TMP_IMPORT) \cup Below(ARTIFACTS)
  <2>1. CASE member[n].parent = TMP_IMPORT
    BY <1>2, <1>4, <2>1
  <2>2. CASE VersionIn(member, n)
    <3>1. PICK dir \in DOMAIN member, above \in DOMAIN member :
            member[n].parent = dir /\ member[dir].parent = above /\ member[above].parent = ARTIFACTS
      BY <2>2 DEF VersionIn
    <3>2. above \in Below(ARTIFACTS)
      BY <1>4, <3>1
    <3>3. dir \in Below(ARTIFACTS)
      BY <1>4, <3>1, <3>2
    <3> QED
      BY <1>2, <1>4, <3>1, <3>3
  <2> QED
    BY <1>3, <2>1, <2>2
<1>6. Find(n, artifact[n]) = FileAt(member, Roots, n)
  BY <1>1, <1>2 DEF Find, Walked, FileAt
<1>7. artifact[n] # <<>> => FileAt(member, Roots, n) # NotFound /\ node[FileAt(member, Roots, n)] = "F"
  BY <1>1, FileOf
<1> QED
  BY <1>5, <1>6, <1>7

(* An artifact is found with what has been imported into it, whatever is   *)
(* made, moved and cleaned up around it, unless a late import has strayed. *)
THEOREM ArtifactsAlwaysKept == Spec => []ArtifactsAreKept
BY TreeInvHolds, ArtifactsKept, PTL

(* What dbfsMakeDirectoryNode returns is what the lookup of its path finds. *)
THEOREM MadeIsFound == Spec => []FoundAsMade
<1>1. TreeInv => FoundAsMade
  BY DEF TreeInv
<1> QED
  BY <1>1, TreeInvHolds, PTL

-----------------------------------------------------------------------------
(* The requests and the content. *)
FileNodes == {n \in DOMAIN node : node[n] = "F"}

LEMMA DirectoriesAdded ==
  ASSUME RowsInv, NEW last \in Int, node' = With(node, [n \in Fresh .. last |-> "D"])
  PROVE  FileNodes' = FileNodes
<1>1. ROOT \in DOMAIN node
  BY MemberIsTable
<1>2. \A n \in Fresh .. last : n \notin DOMAIN node
  BY <1>1, FreshIs DEF RowsInv
<1>3. /\ DOMAIN node' = DOMAIN node \cup (Fresh .. last)
      /\ \A n \in Fresh .. last : node'[n] = "D"
      /\ \A n \in DOMAIN node : node'[n] = node[n]
  BY <1>2 DEF With
<1> QED
  BY <1>3 DEF FileNodes

(* The operations but the import and the cleanup neither add nor remove    *)
(* files.                                                                  *)
LEMMA ArrangeFiles ==
  ASSUME RowsInv, Arrange
  PROVE  FileNodes' = FileNodes
<1>0. ROOT \in DOMAIN node /\ DOMAIN node \subseteq Node /\ ARTIFACTS \in DOMAIN node
  BY MemberIsTable DEF RowsInv, TypeOK, WellKnownKept, WellKnown
<1>1. Fresh \in Int
  BY <1>0, FreshIs DEF RowsInv
<1>2. ASSUME NEW a \in DOMAIN node, NEW path \in Path, node' = WithDirectory(a, path).node
      PROVE  FileNodes' = FileNodes
  <2>1. Missing(a, path) \in Int
    BY DepthIs, PathIs
  <2>2. node' = With(node, [n \in Fresh .. Fresh + Missing(a, path) - 1 |-> "D"])
    BY <1>2 DEF WithDirectory
  <2>3. Fresh + Missing(a, path) - 1 \in Int
    BY <1>1, <2>1
  <2> QED
    BY <2>2, <2>3, DirectoriesAdded
<1>3. ASSUME node' = node PROVE FileNodes' = FileNodes
  BY <1>3 DEF FileNodes
<1>4. ASSUME NEW a \in Anchor, NEW path \in Path, NEW recursive \in BOOLEAN,
             MakeDirectory(a, path, recursive)
      PROVE  FileNodes' = FileNodes
  <2>1. CASE Outcome(a, path, recursive) # NotFound
    BY <1>3, <1>4, <2>1 DEF MakeDirectory
  <2>2. CASE Outcome(a, path, recursive) = NotFound
    <3>1. a \in DOMAIN node
      BY <2>2, NotANode DEF Outcome
    <3>2. node' = WithDirectory(a, path).node
      BY <1>4, <2>2 DEF MakeDirectory
    <3> QED
      BY <1>2, <3>1, <3>2
  <2> QED
    BY <2>1, <2>2
<1>5. ASSUME NEW i \in Import, NEW name \in Name, CreatePlaceholder(i, name) PROVE FileNodes' = FileNodes
  <2>1. node' = With(node, [n \in Fresh .. Fresh |-> "D"])
    <3>1. {Fresh} = Fresh .. Fresh
      BY <1>1
    <3>2. node' = With(node, [n \in {Fresh} |-> "D"])
      BY <1>5 DEF CreatePlaceholder
    <3> QED
      BY <3>1, <3>2
  <2> QED
    BY <1>1, <2>1, DirectoriesAdded
<1>6. ASSUME NEW i \in Import, NEW path \in Path, NEW name \in Name, ReplacePlaceholder(i, path, name)
      PROVE  FileNodes' = FileNodes
  <2>1. node' = WithDirectory(ARTIFACTS, path).node
    BY <1>6 DEF ReplacePlaceholder
  <2> QED
    BY <1>0, <1>2, <2>1
<1>7. ASSUME NEW n \in Node, DeleteArtifact(n) PROVE FileNodes' = FileNodes
  BY <1>3, <1>7 DEF DeleteArtifact
<1>8. ASSUME NEW i \in Import, AbandonImport(i) PROVE FileNodes' = FileNodes
  BY <1>3, <1>8 DEF AbandonImport
<1> QED
  BY <1>4, <1>5, <1>6, <1>7, <1>8 DEF Arrange

Stati == {0, 200, 500}

Requests == [phase : {"idle", "reading", "answered"}, status : Stati,
             file : Node \cup {NotFound}, hash : SUBSET Hash, deleted : BOOLEAN]

(* The tables and the content fit each other. *)
Fitting == /\ hash \in [FileNodes -> Hash] /\ content \subseteq Hash
           /\ Referenced \subseteq content

LEMMA FittingIs == PlayTypeOK /\ ContentKept => Fitting /\ request \in Requests
BY DEF PlayTypeOK, ContentKept, Fitting, FileNodes, Requests, Stati

(* A request under way goes on, and may be marked; an answer is forgotten. *)
GoesOn(gone) ==
  /\ request' \in Requests
  /\ request.phase = "reading" =>
       /\ request'.phase = "reading" /\ request'.file = request.file
       /\ request'.hash = request.hash /\ request'.status = request.status
       /\ request.deleted \/ gone <=> request'.deleted
  /\ request.phase # "reading" => request'.phase = "idle" /\ request'.status = 0

LEMMA GoingOn ==
  ASSUME request \in Requests, NEW gone \in BOOLEAN
  PROVE  /\ request' = [OnTheWay EXCEPT !.deleted = @ \/ gone] => GoesOn(gone)
         /\ request' = OnTheWay => GoesOn(FALSE)
<1>1. OnTheWay \in Requests
  BY DEF OnTheWay, Idle, Requests, Stati
<1>2. ASSUME request' = [OnTheWay EXCEPT !.deleted = @ \/ gone] PROVE GoesOn(gone)
  <2>1. request' \in Requests
    BY <1>1, <1>2 DEF Requests
  <2> QED
    BY <1>2, <2>1 DEF GoesOn, OnTheWay, Idle, Requests, Stati
<1>3. ASSUME request' = OnTheWay PROVE GoesOn(FALSE)
  BY <1>1, <1>3 DEF GoesOn, OnTheWay, Idle, Requests, Stati
<1> QED
  BY <1>2, <1>3

(* A request under way keeps its file, unless it is said that it has been  *)
(* deleted.                                                                *)
LEMMA RequestKept ==
  ASSUME ContentKept, ServedWhileKept, Fitting', NEW gone \in BOOLEAN, GoesOn(gone),
         \A f \in DOMAIN hash : request.file = f /\ ~ gone => f \in DOMAIN hash' /\ hash'[f] = hash[f]
  PROVE  PlayTypeOK' /\ ContentKept' /\ ServedWhileKept'
<1>1. PlayTypeOK' /\ Referenced' \subseteq content'
  BY DEF PlayTypeOK, FileNodes, Fitting, GoesOn, Requests, Stati
<1>2. CASE request.phase = "reading"
  <2>1. ServedWhileKept'
    BY <1>2 DEF ServedWhileKept, GoesOn
  <2>2. ~ request'.deleted => request'.file \in DOMAIN hash' /\ request'.hash = {hash'[request'.file]}
    BY <1>2 DEF ContentKept, GoesOn
  <2> QED
    BY <1>1, <2>1, <2>2 DEF ContentKept
<1>3. CASE request.phase # "reading"
  BY <1>1, <1>3 DEF ContentKept, ServedWhileKept, GoesOn
<1> QED
  BY <1>2, <1>3

(* Every step of a window or of the content leaves the tree, or is one of  *)
(* its operations.                                                         *)
LEMMA PlayStepsAre == [PlayNext]_playVars => [Next]_vars
BY DEF PlayNext, playVars, vars, Handle, FetchBlob, ImportFile, Purge, ImportTree, CleanUp,
       Arrange, Next

AnswerOf(r, s, q) ==
  q \in Requests /\ q.phase = "answered" /\ q.status = s /\ q.deleted = r.deleted

LEMMA AnsweredIs ==
  ASSUME NEW r \in Requests, NEW s \in Stati
  PROVE  AnswerOf(r, s, [r EXCEPT !.phase = "answered", !.status = s])
<1> DEFINE Phases == {"idle", "reading", "answered"}
           Nodes  == Node \cup {NotFound}
           answered == "answered"
<1>1. answered \in Phases /\ s \in Stati
  OBVIOUS
<1>2. Requests = [phase : Phases, status : Stati, file : Nodes, hash : SUBSET Hash, deleted : BOOLEAN]
  BY DEF Requests
<1> HIDE DEF Phases, Nodes, answered
<1>3. r \in [phase : Phases, status : Stati, file : Nodes, hash : SUBSET Hash, deleted : BOOLEAN]
  BY <1>2
<1>4. /\ [r EXCEPT !.phase = answered, !.status = s] \in Requests
      /\ [r EXCEPT !.phase = answered, !.status = s].phase = answered
      /\ [r EXCEPT !.phase = answered, !.status = s].status = s
      /\ [r EXCEPT !.phase = answered, !.status = s].deleted = r.deleted
  BY <1>1, <1>2, <1>3
<1> QED
  BY <1>4 DEF answered, AnswerOf

LEMMA PlayKept ==
  ASSUME PlayInv, [PlayNext]_playVars
  PROVE  PlayTypeOK' /\ ContentKept' /\ ServedWhileKept'
<1> USE DEF PlayInv
<1>0. /\ hash \in [FileNodes -> Hash] /\ content \subseteq Hash /\ Referenced \subseteq content
      /\ DOMAIN node \subseteq Node /\ request \in Requests /\ RowsInv
  BY FittingIs, IsKept DEF Fitting, RowsInv, TypeOK
<1>g. request' = OnTheWay => GoesOn(FALSE)
  BY <1>0, GoingOn
<1>f. ASSUME hash' = hash, content' = content, node' = node PROVE Fitting'
  BY <1>0, <1>f DEF Fitting, FileNodes, Referenced
<1>1. ASSUME NEW asked \in Asked, Handle(asked)
      PROVE  PlayTypeOK' /\ ContentKept' /\ ServedWhileKept'
  <2> DEFINE file == Resolve(asked.version, asked.resource)
  <2>0. hash' = hash /\ content' = content /\ node' = node
    BY <1>1 DEF Handle, vars
  <2>1. file # NotFound => file \in DOMAIN hash /\ file \in Node /\ hash[file] \in Hash
    BY <1>0 DEF Resolve, FileNodes
  <2>2. \/ request' = Idle
        \/ /\ request' = [Idle EXCEPT !.phase = "reading", !.file = file, !.hash = {hash[file]}]
           /\ file # NotFound
    BY <1>1 DEF Handle
  <2> HIDE DEF file
  <2>4. Fitting'
    BY <1>f, <2>0
  <2>5. CASE request' = Idle
    <3>1. request' \in Requests /\ request'.phase = "idle" /\ request'.status # 500
      BY <2>5 DEF Idle, Requests, Stati
    <3> QED
      BY <2>4, <3>1 DEF Fitting, FileNodes, Requests, Stati, PlayTypeOK, ContentKept, ServedWhileKept
  <2>6. CASE request' = [Idle EXCEPT !.phase = "reading", !.file = file, !.hash = {hash[file]}]
             /\ file # NotFound
    <3>0. request' = [phase |-> "reading", status |-> 0, file |-> file, hash |-> {hash[file]},
                      deleted |-> FALSE]
      BY <2>6 DEF Idle
    <3>a. {hash[file]} \in SUBSET Hash /\ file \in Node \cup {NotFound}
      BY <2>1, <2>6
    <3>b. request' \in Requests
      BY <3>0, <3>a DEF Requests, Stati
    <3>1. /\ request' \in Requests /\ request'.status # 500
          /\ request'.file = file /\ request'.hash = {hash[file]}
      BY <3>0, <3>b
    <3> QED
      BY <2>0, <2>1, <2>4, <2>6, <3>1 DEF Fitting, FileNodes, Requests, Stati, PlayTypeOK, ContentKept, ServedWhileKept
  <2> QED
    BY <2>2, <2>5, <2>6
<1>2. ASSUME FetchBlob PROVE PlayTypeOK' /\ ContentKept' /\ ServedWhileKept'
  <2>1. /\ hash' = hash /\ content' = content /\ node' = node /\ request.phase = "reading"
        /\ request' = [request EXCEPT !.phase = "answered",
                         !.status = IF request.hash \subseteq content THEN 200 ELSE 500]
    BY <1>2 DEF FetchBlob, vars
  <2>2. /\ request' \in Requests
        /\ request'.phase = "answered" /\ request'.deleted = request.deleted
        /\ request'.status = 500 => ~ (request.hash \subseteq content)
    <3> DEFINE s == IF request.hash \subseteq content THEN 200 ELSE 500
    <3>1. s \in {0, 200, 500} /\ (s = 500 => ~ (request.hash \subseteq content))
      OBVIOUS
    <3> DEFINE q == [request EXCEPT !.phase = "answered", !.status = s]
    <3>2. request' = q
      BY <2>1
    <3> HIDE DEF s
    <3>3. AnswerOf(request, s, q)
      <4>1. \A r \in Requests : \A st \in Stati :
              AnswerOf(r, st, [r EXCEPT !.phase = "answered", !.status = st])
        BY AnsweredIs
      <4>2. request \in Requests /\ s \in Stati
        BY <1>0, <3>1 DEF Stati
      <4> QED
        BY <4>1, <4>2
    <3> HIDE DEF q
    <3> QED
      BY <3>1, <3>2, <3>3 DEF AnswerOf
  <2>3. ~ request.deleted => request.hash \subseteq content
    <3> SUFFICES ASSUME ~ request.deleted PROVE request.hash \subseteq content
      OBVIOUS
    <3>1. request.file \in DOMAIN hash /\ request.hash = {hash[request.file]}
      BY <2>1 DEF ContentKept
    <3> QED
      BY <1>0, <3>1 DEF Referenced
  <2>4. Fitting'
    BY <1>f, <2>1
  <2>5. PlayTypeOK' /\ ContentKept'
    BY <2>2, <2>4 DEF Fitting, FileNodes, Requests, Stati, PlayTypeOK, ContentKept
  <2>6. ServedWhileKept'
    BY <2>2, <2>3 DEF ServedWhileKept
  <2> QED
    BY <2>5, <2>6
<1>3. ASSUME NEW h \in Hash, ImportFile(h) PROVE PlayTypeOK' /\ ContentKept' /\ ServedWhileKept'
  <2>1. /\ hash' = hash /\ node' = node /\ content' = content \cup {h} /\ request' = OnTheWay
    BY <1>3 DEF ImportFile, vars
  <2>2. Fitting'
    BY <1>0, <2>1 DEF Fitting, FileNodes, Referenced
  <2> QED
    BY <1>g, <2>1, <2>2, RequestKept
<1>4. ASSUME NEW i \in Import, NEW path \in Path, NEW h \in Hash, ImportTree(i, path, h)
      PROVE  PlayTypeOK' /\ ContentKept' /\ ServedWhileKept'
  <2> DEFINE last == Fresh + Len(path) - 1
  <2>1. /\ node' = With(node, [m \in Fresh .. last |-> IF m = last THEN "F" ELSE "D"])
        /\ hash' = With(hash, [file \in {last} |-> h])
        /\ h \in content /\ content' = content /\ request' = OnTheWay
    BY <1>4 DEF ImportTree, InsertTree
  <2>2. Fresh \in Nat \ {0} /\ \A x \in DOMAIN node : x < Fresh
    BY <1>0, FreshIs, MemberIsTable DEF RowsInv
  <2>3. last \in Fresh .. last /\ \A x \in Fresh .. last : x \notin DOMAIN node
    BY <2>2, PathIs
  <2> HIDE DEF last
  <2>4. /\ DOMAIN node' = DOMAIN node \cup (Fresh .. last)
        /\ \A x \in Fresh .. last : node'[x] = IF x = last THEN "F" ELSE "D"
        /\ \A x \in DOMAIN node : node'[x] = node[x]
    BY <2>1, <2>3 DEF With
  <2>5. FileNodes' = FileNodes \cup {last} /\ last \notin FileNodes
    BY <2>3, <2>4 DEF FileNodes
  <2>6. /\ DOMAIN hash' = DOMAIN hash \cup {last} /\ hash'[last] = h
        /\ \A x \in DOMAIN hash : hash'[x] = hash[x]
        /\ hash' \in [DOMAIN hash' -> {hash'[x] : x \in DOMAIN hash'}]
    BY <1>0, <2>1, <2>5 DEF With
  <2>7. hash' \in [FileNodes' -> Hash]
    BY <1>0, <2>5, <2>6
  <2>8. Fitting'
    BY <1>0, <2>1, <2>6, <2>7 DEF Fitting, Referenced
  <2> QED
    BY <1>g, <2>1, <2>6, <2>8, RequestKept
<1>5. ASSUME NEW G \in SUBSET Hash, Purge(G) PROVE PlayTypeOK' /\ ContentKept' /\ ServedWhileKept'
  <2>1. /\ hash' = hash /\ node' = node /\ content' = content \ G /\ request' = OnTheWay
        /\ G \cap Referenced = {}
    BY <1>5 DEF Purge, vars
  <2>2. Fitting'
    BY <1>0, <2>1 DEF Fitting, FileNodes, Referenced
  <2> QED
    BY <1>g, <2>1, <2>2, RequestKept
<1>6. ASSUME NEW n \in Node, CleanUp(n) PROVE PlayTypeOK' /\ ContentKept' /\ ServedWhileKept'
  <2> DEFINE gone == request.file \in DOMAIN hash \ DOMAIN node'
  <2>1. /\ hash' = [file \in DOMAIN hash \cap DOMAIN node' |-> hash[file]]
        /\ request' = [OnTheWay EXCEPT !.deleted = @ \/ gone]
        /\ content' = content /\ DeleteTree(n)
    BY <1>6 DEF CleanUp
  <2>2. /\ DOMAIN node' \subseteq DOMAIN node /\ \A x \in DOMAIN node' : node'[x] = node[x]
    <3>1. ROOT \in DOMAIN node
      BY <1>0, MemberIsTable
    <3>2. node' = [m \in (DOMAIN node \cap DOMAIN member') \cup {ROOT} |-> node[m]]
      BY <2>1 DEF DeleteTree
    <3> QED
      BY <3>1, <3>2
  <2>3. FileNodes' = FileNodes \cap DOMAIN node'
    BY <2>2 DEF FileNodes
  <2>4. Fitting'
    BY <1>0, <2>1, <2>3 DEF Fitting, Referenced
  <2>5. \A f \in DOMAIN hash : request.file = f /\ ~ gone => f \in DOMAIN hash' /\ hash'[f] = hash[f]
    BY <2>1
  <2>6. gone \in BOOLEAN
    OBVIOUS
  <2> HIDE DEF gone
  <2>7. GoesOn(gone)
    BY <1>0, <2>1, <2>6, GoingOn
  <2> QED
    BY <2>4, <2>5, <2>6, <2>7, RequestKept
<1>7. ASSUME Arrange PROVE PlayTypeOK' /\ ContentKept' /\ ServedWhileKept'
  <2>1. hash' = hash /\ content' = content /\ request' = OnTheWay
    BY <1>7 DEF Arrange
  <2>2. FileNodes' = FileNodes
    BY <1>0, <1>7, ArrangeFiles
  <2>3. Fitting'
    BY <1>0, <2>1, <2>2 DEF Fitting, Referenced
  <2> QED
    BY <1>g, <2>1, <2>3, RequestKept
<1>8. CASE UNCHANGED playVars
  BY <1>8 DEF playVars, vars, PlayTypeOK, ContentKept, Referenced, ServedWhileKept
<1> QED
  BY <1>1, <1>2, <1>3, <1>4, <1>5, <1>6, <1>7, <1>8 DEF PlayNext

(* The tables keep TreeInv, every file has a hash whose content is there,  *)
(* and a request reads what its file refers to, whatever late imports do.  *)
THEOREM PlayInvHolds == PlaySpec => []PlayInv
<1>1. PlayInit => PlayInv
  <2> SUFFICES ASSUME PlayInit PROVE PlayInv
    OBVIOUS
  <2>1. TreeInv
    BY InitIsTree DEF PlayInit
  <2>2. /\ {n \in DOMAIN node : node[n] = "F"} = {} /\ hash = <<>> /\ content = {}
        /\ request = Idle
    BY DEF PlayInit, Init
  <2>3. hash \in [{} -> Hash] /\ DOMAIN hash = {}
    BY <2>2
  <2>4. PlayTypeOK /\ ContentKept /\ ServedWhileKept
    BY <2>2, <2>3 DEF PlayTypeOK, ContentKept, ServedWhileKept, Referenced, Idle
  <2> QED
    BY <2>1, <2>4 DEF PlayInv
<1>2. PlayInv /\ [PlayNext]_playVars => PlayInv'
  <2> SUFFICES ASSUME PlayInv, [PlayNext]_playVars PROVE PlayInv'
    OBVIOUS
  <2>1. TreeInv'
    BY PlayStepsAre, TreeInvKept DEF PlayInv
  <2> QED
    BY <2>1, PlayKept DEF PlayInv
<1> QED
  BY <1>1, <1>2, PTL DEF PlaySpec

(* A request is answered with the content of its file as long as the tree  *)
(* of the file has not been cleaned up.                                    *)
THEOREM ServedAlways == PlaySpec => []ServedWhileKept
<1>1. PlayInv => ServedWhileKept
  BY DEF PlayInv
<1> QED
  BY <1>1, PlayInvHolds, PTL

-----------------------------------------------------------------------------
(* What the content store is asked for, and relied upon for. *)
LEMMA RefsAre ==
  ASSUME PlayInv
  PROVE  /\ DOMAIN hash \subseteq Files
         /\ Store!Referenced = Referenced
<1>1. DOMAIN hash \subseteq Files
  BY WellKnownAre DEF PlayInv, PlayTypeOK, TreeInv, TypeOK, WellKnownKept, Files
<1> QED
  BY <1>1 DEF Store!Referenced, Referenced, Refs

LEMMA RefsKept ==
  ASSUME hash' = hash
  PROVE  Refs' = Refs
BY DEF Refs

(* The import of a tree attaches its file. *)
LEMMA ImportAttaches ==
  ASSUME PlayInv, NEW i \in Import, NEW path \in Path, NEW h \in Hash, ImportTree(i, path, h)
  PROVE  Store!Attach(Fresh + Len(path) - 1, {h}) /\ Fresh + Len(path) - 1 \in Files
<1> DEFINE last == Fresh + Len(path) - 1
<1>1. /\ h \in content /\ content' = content /\ last <= MaxNode
      /\ hash' = With(hash, [file \in {last} |-> h])
  BY DEF ImportTree, InsertTree
<1>2. last \in Files
  <2>1. Fresh \in Nat \ {0} /\ Len(path) \in Nat \ {0} /\ MaxNode \in Nat
    BY IsKept, FreshIs, MemberIsTable, PathIs, BoundAssumption DEF PlayInv, RowsInv
  <2> QED
    BY <1>1, <2>1 DEF Files
<1> HIDE DEF last
<1>3. /\ DOMAIN hash' = DOMAIN hash \cup {last} /\ hash'[last] = h
      /\ \A file \in DOMAIN hash \ {last} : hash'[file] = hash[file]
  BY <1>1 DEF With
<1>4. Refs' = [Refs EXCEPT ![last] = {h}]
  BY <1>2, <1>3 DEF Refs
<1>5. Store!Attach(last, {h})
  BY <1>1, <1>4 DEF Store!Attach
<1> QED
  BY <1>2, <1>5 DEF last

(* A cleanup detaches the files of the tree. *)
LEMMA CleanUpDetaches ==
  ASSUME PlayInv, NEW n \in Node, CleanUp(n)
  PROVE  \E I \in SUBSET Files : Store!Detach(I)
<1> DEFINE gone == Below(n) \cap Files
<1>0. /\ TreeInv /\ hash \in [FileNodes -> Hash] /\ DeleteTree(n) /\ content' = content
      /\ hash' = [file \in DOMAIN hash \cap DOMAIN node' |-> hash[file]]
  BY DEF PlayInv, PlayTypeOK, FileNodes, CleanUp
<1>1. DOMAIN node' = DOMAIN node \ Below(n)
  BY <1>0, TreeRemoved DEF Below
<1>2. DOMAIN hash \subseteq DOMAIN node /\ DOMAIN hash \subseteq Files
  BY <1>0, RefsAre DEF FileNodes
<1>3. /\ DOMAIN hash' = DOMAIN hash \ gone
      /\ \A file \in DOMAIN hash' : hash'[file] = hash[file]
  BY <1>0, <1>1, <1>2
<1> HIDE DEF gone
<1>4. Refs' = [file \in Files |-> IF file \in gone THEN {} ELSE Refs[file]]
  BY <1>3 DEF Refs
<1>5. Store!Detach(gone)
  BY <1>0, <1>4 DEF Store!Detach
<1>6. gone \in SUBSET Files
  BY DEF gone
<1> QED
  BY <1>5, <1>6

LEMMA PlayUsesStore ==
  ASSUME PlayInv, [PlayNext]_playVars
  PROVE  [Store!Next]_Store!vars
<1>1. ASSUME NEW asked \in Asked, Handle(asked) PROVE UNCHANGED Store!vars
  BY <1>1, RefsKept DEF Handle, Store!vars
<1>2. ASSUME FetchBlob PROVE UNCHANGED Store!vars
  BY <1>2, RefsKept DEF FetchBlob, Store!vars
<1>3. ASSUME NEW h \in Hash, ImportFile(h) PROVE Store!Next
  <2>1. Store!Put(h)
    BY <1>3, RefsKept DEF ImportFile, Store!Put
  <2> QED
    BY <2>1 DEF Store!Next
<1>4. ASSUME NEW i \in Import, NEW path \in Path, NEW h \in Hash, ImportTree(i, path, h)
      PROVE  Store!Next
  <2>1. {h} \in SUBSET Hash
    OBVIOUS
  <2> QED
    BY <1>4, <2>1, ImportAttaches DEF Store!Next
<1>5. ASSUME NEW G \in SUBSET Hash, Purge(G) PROVE Store!Next
  <2>1. Store!Collect(G)
    BY <1>5, RefsKept, RefsAre DEF Purge, Store!Collect
  <2> QED
    BY <2>1 DEF Store!Next
<1>6. ASSUME NEW n \in Node, CleanUp(n) PROVE [Store!Next]_Store!vars
  BY <1>6, CleanUpDetaches DEF Store!Next
<1>7. ASSUME Arrange PROVE UNCHANGED Store!vars
  BY <1>7, RefsKept DEF Arrange, Store!vars
<1>8. ASSUME UNCHANGED playVars PROVE UNCHANGED Store!vars
  BY <1>8, RefsKept DEF playVars, Store!vars
<1> QED
  BY <1>1, <1>2, <1>3, <1>4, <1>5, <1>6, <1>7, <1>8 DEF PlayNext

(* The tree uses the content store as ContentStore promises it works:      *)
(* trees are attached to content that is there, and nothing is collected   *)
(* that a tree refers to, whatever late imports do.                        *)
THEOREM PlayUsesContentStore == PlaySpec => UsesContentStore
<1>1. PlayInit => Store!Init
  <2> SUFFICES ASSUME PlayInit PROVE Store!Init
    OBVIOUS
  <2>1. hash = <<>> /\ content = {}
    BY DEF PlayInit
  <2>2. DOMAIN hash = {}
    BY <2>1
  <2> QED
    BY <2>1, <2>2 DEF Store!Init, Refs
<1>2. PlayInv /\ [PlayNext]_playVars => [Store!Next]_Store!vars
  BY PlayUsesStore
<1> QED
  BY <1>1, <1>2, PlayInvHolds, PTL DEF PlaySpec, UsesContentStore, Store!Spec

-----------------------------------------------------------------------------
(* The paths of requests. *)

(* Normalising a path gives a sequence of its segments. *)
LEMMA StepIs ==
  ASSUME NEW before \in Seq(Segment), NEW segment \in Segment, NEW absolute
  PROVE  Step(before, segment, absolute) \in Seq(Segment)
<1>1. Append(before, segment) \in Seq(Segment)
  OBVIOUS
<1>2. SubSeq(before, 1, Len(before) - 1) \in Seq(Segment)
  OBVIOUS
<1>3. Append(before, Up) \in Seq(Segment)
  BY DEF Segment
<1> QED
  BY <1>1, <1>2, <1>3 DEF Step

(* The recursion over the first n segments. *)
IsJoin(segments, n, h) ==
  h = [k \in 0 .. n |->
         IF k = 0 THEN <<>> ELSE Step(h[k - 1], segments[k], IsAbsolute(segments))]

(* It defines a function. *)
LEMMA JoinExists ==
  ASSUME NEW segments, NEW n \in Nat
  PROVE  \E h : IsJoin(segments, n, h)
<1> DEFINE Is(h, j) == IsJoin(segments, j, h)
           Next1(x, j) == Step(x, segments[j], IsAbsolute(segments))
           T == {j \in 0 .. n : \E h : Is(h, j)}
<1>1. 0 \in T
  <2>1. Is([k \in 0 .. 0 |-> <<>>], 0)
    BY DEF IsJoin
  <2> HIDE DEF Is
  <2> QED
    BY <2>1
<1>2. ASSUME NEW j \in 0 .. n - 1, j \in T PROVE j + 1 \in T
  <2>1. PICK h : Is(h, j)
    BY <1>2
  <2> DEFINE g == [k \in 0 .. j + 1 |-> IF k = j + 1 THEN Next1(h[j], j + 1) ELSE h[k]]
  <2> HIDE DEF Next1
  <2>2. \A k \in 0 .. j : g[k] = h[k]
    OBVIOUS
  <2>3. \A k \in 0 .. j + 1 : g[k] = IF k = 0 THEN <<>> ELSE Next1(g[k - 1], k)
    <3> SUFFICES ASSUME NEW k \in 0 .. j + 1
                 PROVE  g[k] = IF k = 0 THEN <<>> ELSE Next1(g[k - 1], k)
      OBVIOUS
    <3>1. CASE k = j + 1
      BY <3>1, <2>2
    <3>2. CASE k \in 0 .. j
      <4>1. g[k] = h[k] /\ (k # 0 => g[k - 1] = h[k - 1])
        BY <2>2, <3>2
      <4>2. h[k] = IF k = 0 THEN <<>> ELSE Next1(h[k - 1], k)
        BY <2>1, <3>2 DEF IsJoin, Next1
      <4> QED
        BY <4>1, <4>2
    <3> QED
      BY <3>1, <3>2
  <2>4. Is(g, j + 1)
    BY <2>3 DEF IsJoin, Next1
  <2> HIDE DEF Is, g
  <2> QED
    BY <2>4
<1>3. T = 0 .. n
  <2> HIDE DEF T
  <2> QED
    BY <1>1, <1>2, Steps, T \in SUBSET (0 .. n) DEF T
<1> QED
  BY <1>3

LEMMA NormalizedIs ==
  ASSUME NEW segments \in Seq(Segment)
  PROVE  Normalized(segments) \in Seq(Segment)
<1> DEFINE n == Len(segments)
           joined[k \in 0 .. n] ==
             IF k = 0 THEN <<>> ELSE Step(joined[k - 1], segments[k], IsAbsolute(segments))
           T == {k \in 0 .. n : joined[k] \in Seq(Segment)}
<1>0. n \in Nat
  OBVIOUS
<1>1. PICK h : IsJoin(segments, n, h)
  BY <1>0, JoinExists
<1>2. joined = [k \in 0 .. n |->
        IF k = 0 THEN <<>> ELSE Step(joined[k - 1], segments[k], IsAbsolute(segments))]
  BY <1>1 DEF IsJoin
<1>3. Normalized(segments) =
        IF joined[n] = <<>> /\ ~IsAbsolute(segments) THEN <<Dot>> ELSE joined[n]
  BY DEF Normalized
<1> HIDE DEF joined
<1>4. 0 \in T
  BY <1>2
<1>5. ASSUME NEW k \in 0 .. n - 1, k \in T PROVE k + 1 \in T
  <2>1. k + 1 \in 0 .. n /\ k + 1 # 0 /\ (k + 1) - 1 = k /\ segments[k + 1] \in Segment
    OBVIOUS
  <2>2. joined[k + 1] = Step(joined[k], segments[k + 1], IsAbsolute(segments))
    BY <1>2, <2>1
  <2>3. joined[k + 1] \in Seq(Segment)
    BY <1>5, <2>1, <2>2, StepIs
  <2> QED
    BY <2>1, <2>3
<1>6. T = 0 .. n
  <2>1. T \in SUBSET (0 .. n) /\ n \in Nat
    OBVIOUS
  <2> HIDE DEF T, n
  <2> QED
    BY <1>4, <1>5, <2>1, Steps
<1>7. joined[n] \in Seq(Segment) /\ <<Dot>> \in Seq(Segment)
  BY <1>6 DEF Segment
<1> QED
  BY <1>3, <1>7

(* What can be asked for: a version and the segments of a path. *)
LEMMA AskableIs ==
  ASSUME NEW q \in Askable
  PROVE  q.version \in Segment /\ q.version # Empty /\ q.resource \in Seq(Segment)
<1>1. PICK pathname \in Pathname : q = ParsePathname(pathname)
  BY DEF Askable, Asked
<1>2. PICK k \in 1 .. MaxSegments : pathname \in [1 .. k -> Segment]
  BY DEF Pathname
<1>3. k \in Nat /\ MaxSegments \in Nat /\ Index \in Segment
  BY SegmentAssumption DEF Segment
<1>4. pathname \in Seq(Segment) /\ Len(pathname) = k
  BY <1>2, <1>3
<1>5. Completed(pathname) \in Seq(Segment) /\ Len(Completed(pathname)) = k
  BY <1>2, <1>3, <1>4 DEF Completed
<1>6. CASE Len(pathname) = 1 \/ pathname = <<Empty, Empty>>
  BY <1>1, <1>6 DEF Askable, ParsePathname, Refused
<1>7. CASE ~(Len(pathname) = 1 \/ pathname = <<Empty, Empty>>)
  <2> DEFINE resource == Normalized(Tail(Completed(pathname)))
  <2>1. Tail(Completed(pathname)) \in Seq(Segment)
    BY <1>3, <1>4, <1>5, <1>7
  <2>2. resource \in Seq(Segment)
    BY <2>1, NormalizedIs
  <2>3. CASE resource # <<>> /\ Head(resource) = Up
    BY <1>1, <1>7, <2>3 DEF Askable, ParsePathname, Refused
  <2>4. CASE ~(resource # <<>> /\ Head(resource) = Up)
    <3>1. q = [status |-> 200, version |-> Head(pathname), resource |-> resource]
      BY <1>1, <1>7, <2>4 DEF ParsePathname
    <3>2. Head(pathname) \in Segment
      BY <1>3, <1>4
    <3> QED
      BY <2>2, <3>1, <3>2 DEF Askable
  <2> QED
    BY <2>3, <2>4
<1> QED
  BY <1>6, <1>7

(* The path of a resource below the artifacts. *)
LEMMA VirtualPathIs ==
  ASSUME NEW version \in Segment, version # Empty, NEW resource \in Seq(Segment)
  PROVE  LET path == VirtualPath(version, resource)
         IN /\ Len(path) = Len(resource) + 3
            /\ path[1] = Game /\ path[2] = version /\ path[3] = Html
            /\ \A k \in 1 .. Len(resource) : path[k + 3] = resource[k]
<1> DEFINE path == <<Game, version, Html>> \o resource
<1>1. <<Game, version, Html>> \in Seq(Segment) /\ Len(<<Game, version, Html>>) = 3
  BY SegmentAssumption DEF Segment
<1>2. VirtualPath(version, resource) = path
  BY DEF VirtualPath
<1>3. Len(path) = Len(resource) + 3
  BY <1>1
<1>4. path[1] = Game /\ path[2] = version /\ path[3] = Html
  BY <1>1
<1>5. \A k \in 1 .. Len(resource) : path[k + 3] = resource[k]
  BY <1>1
<1> QED
  BY <1>2, <1>3, <1>4, <1>5

(* Two walks that end in the same node, the one not longer than the other, *)
(* agree from there upwards.                                               *)
LEMMA WalksBack ==
  ASSUME NEW m, Table(m), NEW start, NEW p, Len(p) \in Nat, NEW q, Len(q) \in Nat,
         Len(p) <= Len(q), WalkedIn(m, start, p)[Len(p)] # NotFound,
         WalkedIn(m, start, q)[Len(q)] = WalkedIn(m, start, p)[Len(p)]
  PROVE  /\ WalkedIn(m, start, q)[Len(q) - Len(p)] = start
         /\ \A j \in 0 .. Len(p) - 1 : p[Len(p) - j] = q[Len(q) - j]
<1> DEFINE v == WalkedIn(m, start, p)
           w == WalkedIn(m, start, q)
           K == Len(p)
           L == Len(q)
           T == {j \in 0 .. K : v[K - j] = w[L - j]}
<1>0. /\ v[0] = start
      /\ \A k \in 0 .. K : v[k] # NotFound
      /\ \A k \in 0 .. L : w[k] # NotFound
  BY WalkDef, WalkPasses
<1>a. \A k \in 1 .. K : v[k] \in DOMAIN m /\ m[v[k]] = [parent |-> v[k - 1], name |-> p[k]]
  <2> SUFFICES ASSUME NEW k \in 1 .. K
               PROVE  v[k] \in DOMAIN m /\ m[v[k]] = [parent |-> v[k - 1], name |-> p[k]]
    OBVIOUS
  <2> QED
    BY <1>0, WalkUp
<1>b. \A k \in 1 .. L : w[k] \in DOMAIN m /\ m[w[k]] = [parent |-> w[k - 1], name |-> q[k]]
  <2> SUFFICES ASSUME NEW k \in 1 .. L
               PROVE  w[k] \in DOMAIN m /\ m[w[k]] = [parent |-> w[k - 1], name |-> q[k]]
    OBVIOUS
  <2> QED
    BY <1>0, WalkUp
<1>c. v[K] = w[L] /\ K \in Nat /\ L \in Nat /\ K <= L
  OBVIOUS
<1> HIDE DEF v, w, K, L
<1>1. 0 \in T
  BY <1>c
<1>2. ASSUME NEW j \in 0 .. K - 1, v[K - j] = w[L - j]
      PROVE  v[K - (j + 1)] = w[L - (j + 1)] /\ p[K - j] = q[L - j]
  <2>1. /\ K - j \in 1 .. K /\ L - j \in 1 .. L
        /\ (K - j) - 1 = K - (j + 1) /\ (L - j) - 1 = L - (j + 1)
    BY <1>c
  <2>2. m[v[K - j]] = [parent |-> v[K - (j + 1)], name |-> p[K - j]]
    BY <1>a, <2>1
  <2>3. m[v[K - j]] = [parent |-> w[L - (j + 1)], name |-> q[L - j]]
    BY <1>b, <1>2, <2>1
  <2> QED
    BY <2>2, <2>3
<1>3. T = 0 .. K
  <2>1. T \in SUBSET (0 .. K)
    OBVIOUS
  <2>2. ASSUME NEW j \in 0 .. K - 1, j \in T PROVE j + 1 \in T
    BY <1>2, <1>c, <2>2
  <2> HIDE DEF T
  <2> QED
    BY <1>1, <1>c, <2>1, <2>2, Steps
<1>4. w[L - K] = start
  <2>1. K \in 0 .. K /\ K - K = 0
    BY <1>c
  <2> HIDE DEF T
  <2>2. K \in T
    BY <1>3, <2>1
  <2> QED
    BY <1>0, <2>1, <2>2 DEF T
<1>5. ASSUME NEW j \in 0 .. K - 1 PROVE p[K - j] = q[L - j]
  <2>1. j \in 0 .. K
    BY <1>c
  <2> HIDE DEF T
  <2>2. j \in T
    BY <1>3, <2>1
  <2>3. v[K - j] = w[L - j]
    BY <2>2 DEF T
  <2> QED
    BY <1>2, <2>3
<1> QED
  BY <1>4, <1>5 DEF v, w, K, L

(* A walk does not come back to where it starts. *)
LEMMA StartOnce ==
  ASSUME NEW nd, NEW mb, ShapeOf(nd, mb), NEW start \in DOMAIN mb,
         NEW path, Len(path) \in Nat, NEW k \in 1 .. Len(path),
         WalkedIn(mb, start, path)[k] = start
  PROVE  FALSE
<1> DEFINE w == WalkedIn(mb, start, path)
<1>t. Table(mb)
  BY DEF ShapeOf, RowsOf
<1>0. w[k] # NotFound
  BY <1>t, NotANode DEF Table
<1>a. Len(path) \in Nat
  OBVIOUS
<1>1. mb[w[k]] = [parent |-> w[k - 1], name |-> path[k]]
  <2>1. \A j \in 1 .. Len(path) :
          w[j] # NotFound => mb[w[j]] = [parent |-> w[j - 1], name |-> path[j]]
    BY <1>t, <1>a, WalkUp
  <2> QED
    BY <1>0, <2>1
<1>2. k \in 0 .. Len(path) /\ k - 1 \in 0 .. k
  OBVIOUS
<1>3. w[k - 1] \in BelowIn(mb, start)
  BY <1>t, <1>0, <1>2, WalkBelow
<1> HIDE DEF w
<1>4. mb[start].parent = w[k - 1]
  BY <1>1 DEF w
<1> QED
  BY <1>3, <1>4, NoCycle

(* There is one path to a node. *)
LEMMA OnePath ==
  ASSUME NEW nd, NEW mb, ShapeOf(nd, mb), NEW start \in DOMAIN mb,
         NEW p, Len(p) \in Nat, NEW q, Len(q) \in Nat,
         WalkedIn(mb, start, p)[Len(p)] # NotFound,
         WalkedIn(mb, start, q)[Len(q)] = WalkedIn(mb, start, p)[Len(p)]
  PROVE  Len(p) = Len(q) /\ \A k \in 1 .. Len(p) : p[k] = q[k]
<1>0. Table(mb)
  BY DEF ShapeOf, RowsOf
<1>1. ASSUME NEW path, Len(path) \in Nat, NEW k \in 1 .. Len(path),
             WalkedIn(mb, start, path)[k] = start
      PROVE  FALSE
  BY <1>1, StartOnce
<1>2. CASE Len(p) <= Len(q)
  <2>1. /\ WalkedIn(mb, start, q)[Len(q) - Len(p)] = start
        /\ \A j \in 0 .. Len(p) - 1 : p[Len(p) - j] = q[Len(q) - j]
    BY <1>0, <1>2, WalksBack
  <2>2. Len(p) = Len(q)
    <3> SUFFICES ASSUME Len(q) - Len(p) \in 1 .. Len(q) PROVE FALSE
      BY <1>2
    <3> QED
      BY <1>1, <2>1
  <2>3. ASSUME NEW k \in 1 .. Len(p) PROVE p[k] = q[k]
    <3>1. Len(p) - k \in 0 .. Len(p) - 1 /\ Len(p) - (Len(p) - k) = k
      BY <2>3
    <3> QED
      BY <2>1, <2>2, <3>1
  <2> QED
    BY <2>2, <2>3
<1>3. CASE Len(q) <= Len(p)
  <2>1. /\ WalkedIn(mb, start, p)[Len(p) - Len(q)] = start
        /\ \A j \in 0 .. Len(q) - 1 : q[Len(q) - j] = p[Len(p) - j]
    BY <1>0, <1>3, WalksBack
  <2>2. Len(p) = Len(q)
    <3> SUFFICES ASSUME Len(p) - Len(q) \in 1 .. Len(p) PROVE FALSE
      BY <1>3
    <3> QED
      BY <1>1, <2>1
  <2>3. ASSUME NEW k \in 1 .. Len(p) PROVE p[k] = q[k]
    <3>1. Len(p) - k \in 0 .. Len(p) - 1 /\ Len(p) - (Len(p) - k) = k
      BY <2>3
    <3> QED
      BY <2>1, <2>2, <3>1
  <2> QED
    BY <2>2, <2>3
<1> QED
  BY <1>2, <1>3

(* The path of r in n, which is in the directories dir and above of the    *)
(* artifacts.                                                              *)
Extends(mb, n, dir, above, r, path) ==
  /\ {n, dir, above} \subseteq DOMAIN mb
  /\ mb[n].parent = dir /\ mb[dir].parent = above /\ mb[above].parent = ARTIFACTS
  /\ Len(r) \in Nat /\ WalkedIn(mb, n, r)[Len(r)] # NotFound
  /\ Len(path) = Len(r) + 3
  /\ path[1] = mb[above].name /\ path[2] = mb[dir].name /\ path[3] = mb[n].name
  /\ \A k \in 1 .. Len(r) : path[k + 3] = r[k]

(* It leads there from the artifacts. *)
LEMMA WalkToFile ==
  ASSUME NEW mb, Table(mb), NEW n, NEW dir, NEW above, NEW r, NEW path,
         Extends(mb, n, dir, above, r, path)
  PROVE  WalkedIn(mb, ARTIFACTS, path)[Len(path)] = WalkedIn(mb, n, r)[Len(r)]
<1> DEFINE u == WalkedIn(mb, n, r)
           v == [k \in 0 .. Len(path) |->
                   IF k = 0 THEN ARTIFACTS ELSE IF k = 1 THEN above
                   ELSE IF k = 2 THEN dir ELSE u[k - 3]]
<1>0. /\ mb[n].parent = dir /\ mb[dir].parent = above /\ mb[above].parent = ARTIFACTS
      /\ {n, dir, above} \subseteq DOMAIN mb /\ Len(path) = Len(r) + 3
      /\ path[1] = mb[above].name /\ path[2] = mb[dir].name /\ path[3] = mb[n].name
      /\ \A k \in 1 .. Len(r) : path[k + 3] = r[k]
  BY DEF Extends
<1>a. Len(r) \in Nat /\ u[Len(r)] # NotFound
  BY DEF Extends
<1>1. u[0] = n
  BY <1>a, WalkDef
<1>2. \A k \in 1 .. Len(r) : u[k] \in DOMAIN mb /\ mb[u[k]] = [parent |-> u[k - 1], name |-> r[k]]
  <2> SUFFICES ASSUME NEW k \in 1 .. Len(r)
               PROVE  u[k] \in DOMAIN mb /\ mb[u[k]] = [parent |-> u[k - 1], name |-> r[k]]
    OBVIOUS
  <2>1. u[k] # NotFound
    BY <1>a, WalkPasses
  <2> QED
    BY <1>a, <2>1, WalkUp
<1>3. \A x \in DOMAIN mb : mb[x] = [parent |-> mb[x].parent, name |-> mb[x].name]
  BY DEF Table
<1> HIDE DEF u
<1>4. ASSUME NEW k \in 1 .. Len(path)
      PROVE  v[k] \in DOMAIN mb /\ mb[v[k]] = [parent |-> v[k - 1], name |-> path[k]]
  <2>1. CASE k = 1
    BY <1>0, <1>3, <2>1
  <2>2. CASE k = 2
    BY <1>0, <1>3, <2>2
  <2>3. CASE k = 3
    BY <1>0, <1>1, <1>3, <2>3
  <2>4. CASE k > 3
    <3>1. k - 3 \in 1 .. Len(r) /\ (k - 3) + 3 = k
      BY <1>0, <1>a, <2>4
    <3>2. v[k] = u[k - 3] /\ v[k - 1] = u[(k - 3) - 1]
      BY <1>0, <1>1, <1>a, <2>4
    <3> QED
      BY <1>0, <1>2, <3>1, <3>2
  <2> QED
    BY <1>0, <1>a, <2>1, <2>2, <2>3, <2>4
<1>5. Len(path) \in Nat /\ Len(path) \in 0 .. Len(path) /\ v[0] = ARTIFACTS
  BY <1>0, <1>a
<1>6. v[Len(path)] = u[Len(r)]
  BY <1>0, <1>1, <1>a
<1> HIDE DEF v
<1>7. \A k \in 0 .. Len(path) : WalkedIn(mb, ARTIFACTS, path)[k] = v[k]
  BY <1>4, <1>5, WalkIs
<1> QED
  BY <1>5, <1>6, <1>7 DEF u

(* What is below the directory of the artifacts is in an artifact or a     *)
(* late node, and only in a late one can it be anything but its file.      *)
LEMMA OwnerIs ==
  ASSUME NEW nd, NEW mb, NEW ar, NEW lt, TreeOf(nd, mb, ar, lt),
         NEW file \in DOMAIN nd, nd[file] = "F", file \in BelowIn(mb, ARTIFACTS)
  PROVE  \E n \in DOMAIN ar :
           /\ VersionIn(mb, n) /\ file \in BelowIn(mb, n) /\ ARTIFACTS \notin BelowIn(mb, n)
           /\ n \notin lt => ar[n] # <<>> /\ file = FileAt(mb, ar, n)
<1>0. ShapeOf(nd, mb) /\ RowsOf(nd, mb) /\ PlacedIn(nd, mb, ar) /\ OwnedIn(nd, mb, ar, lt)
  BY DEF TreeOf, ShapeOf
<1>1. PICK n : IsTop(mb, ar, n) /\ file \in BelowIn(mb, n)
  BY <1>0 DEF OwnedIn
<1>2. /\ Table(mb) /\ ROOT \notin DOMAIN mb /\ ARTIFACTS \in WellKnown
      /\ ARTIFACTS \in DOMAIN mb /\ mb[ARTIFACTS].parent = ROOT
      /\ mb[TMP_IMPORT].parent = TMP /\ mb[TMP].parent = ROOT /\ mb[CLEANUP_QUEUE].parent = ROOT
      /\ ARTIFACTS \notin {TMP, TMP_IMPORT, CLEANUP_QUEUE, ROOT}
  BY <1>0, WellKnownAre DEF RowsOf
<1>3. ROOT \notin BelowIn(mb, ARTIFACTS)
  BY <1>0, <1>2, NoCycle
<1>4. n \notin WellKnown /\ ARTIFACTS \notin BelowIn(mb, n)
  BY <1>0, <1>1, <1>2, TopIs, WellKnownApart
<1>5. n \in BelowIn(mb, ARTIFACTS)
  BY <1>1, <1>2, <1>4, BelowApart
<1>6. mb[n].parent \in BelowIn(mb, ARTIFACTS)
  BY <1>2, <1>4, <1>5, ParentBelow
<1>7. CLEANUP_QUEUE \notin BelowIn(mb, ARTIFACTS) /\ TMP \notin BelowIn(mb, ARTIFACTS)
  BY <1>2, <1>3, ParentBelow
<1>8. TMP_IMPORT \notin BelowIn(mb, ARTIFACTS)
  BY <1>2, <1>7, ParentBelow
<1>9. VersionIn(mb, n) /\ n \in DOMAIN ar
  <2>1. mb[n].parent \notin {TMP_IMPORT, CLEANUP_QUEUE}
    BY <1>6, <1>7, <1>8
  <2> QED
    BY <1>0, <1>1, <2>1, TopIs DEF IsTop, QueuedIn
<1>10. file \in FilesIn(nd, mb, n)
  BY <1>1 DEF FilesIn
<1> QED
  BY <1>0, <1>1, <1>4, <1>9, <1>10 DEF OwnedIn

(* A node in the directory dir of a version, in that of a game, which is   *)
(* above; and what a walk from the artifacts along path finds below it.    *)
LeadsBelow(mb, path, n, dir, above) ==
  /\ {dir, above} \subseteq DOMAIN mb
  /\ mb[n].parent = dir /\ mb[dir].parent = above /\ mb[above].parent = ARTIFACTS
  /\ ARTIFACTS \notin BelowIn(mb, n)
  /\ Len(path) \in Nat
  /\ WalkedIn(mb, ARTIFACTS, path)[Len(path)] # NotFound
  /\ WalkedIn(mb, ARTIFACTS, path)[Len(path)] \in BelowIn(mb, n)

(* A walk from the artifacts to what is below a node in the directory of a *)
(* version passes this node after three segments.                          *)
LEMMA WalkPassesTop ==
  ASSUME NEW nd, NEW mb, ShapeOf(nd, mb), NEW path, NEW n, NEW dir, NEW above,
         LeadsBelow(mb, path, n, dir, above)
  PROVE  /\ Len(path) >= 3
         /\ mb[above].name = path[1] /\ mb[dir].name = path[2] /\ mb[n].name = path[3]
<1> DEFINE v == WalkedIn(mb, ARTIFACTS, path)
           T == {k \in 0 .. Len(path) : v[k] \in BelowIn(mb, n)}
<1>a. /\ mb[n].parent = dir /\ mb[dir].parent = above /\ mb[above].parent = ARTIFACTS
      /\ {dir, above} \subseteq DOMAIN mb /\ ARTIFACTS \notin BelowIn(mb, n)
      /\ Len(path) \in Nat
  BY DEF LeadsBelow
<1>e. v[Len(path)] \in BelowIn(mb, n) /\ v[Len(path)] # NotFound
  BY DEF LeadsBelow
<1>0. /\ Table(mb) /\ ROOT \notin DOMAIN mb /\ ARTIFACTS \in DOMAIN mb
      /\ mb[ARTIFACTS].parent = ROOT /\ ARTIFACTS # ROOT
  BY WellKnownAre DEF ShapeOf, RowsOf
<1>1. Len(path) \in 0 .. Len(path)
  BY <1>a
<1>2. v[0] = ARTIFACTS
  BY <1>a, WalkDef
<1>3. \A k \in 0 .. Len(path) : v[k] # NotFound
  BY <1>0, <1>1, <1>a, <1>e, WalkPasses
<1>4. ASSUME NEW k \in 1 .. Len(path)
      PROVE  v[k] \in DOMAIN mb /\ mb[v[k]].parent = v[k - 1] /\ mb[v[k]].name = path[k]
  <2>1. v[k] # NotFound
    BY <1>3
  <2>2. v[k] \in DOMAIN mb /\ mb[v[k]] = [parent |-> v[k - 1], name |-> path[k]]
    BY <1>0, <1>a, <2>1, WalkUp
  <2> QED
    BY <2>2
<1>5. ASSUME NEW k \in 1 .. Len(path), v[k] = ARTIFACTS PROVE FALSE
  BY <1>0, <1>5, <1>a, StartOnce
<1> HIDE DEF v
<1>6. PICK k \in 1 .. Len(path) : v[k] \in BelowIn(mb, n) /\ v[k - 1] \notin BelowIn(mb, n)
  <2>1. T \in SUBSET Nat /\ T # {}
    BY <1>1, <1>e
  <2> HIDE DEF T
  <2>2. PICK k \in T : \A j \in T : k <= j
    BY <2>1, LeastOf
  <2>3. k \in 0 .. Len(path) /\ v[k] \in BelowIn(mb, n)
    BY <2>2 DEF T
  <2>4. k # 0
    BY <1>2, <1>a, <2>3
  <2>5. k \in 1 .. Len(path) /\ k - 1 \in 0 .. Len(path) /\ ~ (k <= k - 1)
    BY <1>a, <2>3, <2>4
  <2>6. k - 1 \notin T
    BY <2>2, <2>5
  <2> QED
    BY <2>3, <2>5, <2>6 DEF T
<1>7. v[k] = n /\ v[k - 1] = dir /\ mb[n].name = path[k]
  BY <1>0, <1>4, <1>6, <1>a, ParentBelow
<1>8. k - 1 \in 1 .. Len(path) /\ v[k - 2] = above /\ mb[dir].name = path[k - 1]
  <2>1. k - 1 # 0
    BY <1>0, <1>2, <1>7, <1>a
  <2>2. k - 1 \in 1 .. Len(path) /\ (k - 1) - 1 = k - 2
    BY <1>a, <2>1
  <2> QED
    BY <1>4, <1>7, <1>a, <2>2
<1>9. k - 2 \in 1 .. Len(path) /\ v[k - 3] = ARTIFACTS /\ mb[above].name = path[k - 2]
  <2>1. k - 2 # 0
    BY <1>0, <1>2, <1>8, <1>a
  <2>2. k - 2 \in 1 .. Len(path) /\ (k - 2) - 1 = k - 3
    BY <1>8, <1>a, <2>1
  <2> QED
    BY <1>4, <1>8, <1>a, <2>2
<1>10. k = 3
  <2> SUFFICES ASSUME k # 3 PROVE FALSE
    OBVIOUS
  <2>1. k - 3 \in 1 .. Len(path)
    BY <1>9, <1>a
  <2> QED
    BY <1>5, <1>9, <2>1
<1> QED
  BY <1>7, <1>8, <1>9, <1>10

(* The path of a request that finds a file, and the file. *)
LEMMA FoundIs ==
  ASSUME PlayInv, ~ Strayed, NEW q \in Askable, NEW file, NEW path,
         file = Resolve(q.version, q.resource), file # NotFound,
         path = VirtualPath(q.version, q.resource)
  PROVE  /\ file = WalkedIn(member, ARTIFACTS, path)[Len(path)]
         /\ file \in DOMAIN node /\ node[file] = "F" /\ file \in BelowIn(member, ARTIFACTS)
         /\ Len(path) \in Nat
<1>1. /\ RowsInv /\ Table(member) /\ ARTIFACTS \in DOMAIN node
  BY IsKept, MemberIsTable DEF PlayInv, RowsInv, WellKnownKept, WellKnown
<1>2. Len(path) \in Nat /\ Len(path) \in 0 .. Len(path)
  <2>1. Len(q.resource) \in Nat /\ Len(path) = Len(q.resource) + 3
    BY AskableIs, VirtualPathIs
  <2> QED
    BY <2>1
<1>3. file = WalkedIn(member, ARTIFACTS, path)[Len(path)] /\ file \in DOMAIN hash
  BY <1>1 DEF Resolve, Find, Walked
<1>4. file \in {x \in DOMAIN node : node[x] = "F"}
  BY <1>3 DEF PlayInv, PlayTypeOK
<1>5. file \in BelowIn(member, ARTIFACTS)
  BY <1>1, <1>2, <1>3, WalkBelow
<1> QED
  BY <1>2, <1>3, <1>4, <1>5

(* The tree of the variables. *)
LEMMA TreeNow ==
  ASSUME PlayInv, ~ Strayed
  PROVE  /\ TreeOf(node, member, Roots, late) /\ Unqueued /\ ShapeOf(node, member)
         /\ RowsOf(node, member) /\ Table(member)
         /\ ARTIFACTS \in DOMAIN member /\ ARTIFACTS \in DOMAIN node
<1>1. TreeOf(node, member, Roots, late) /\ Unqueued
  BY IsKept DEF PlayInv, Kept, Placed
<1>2. ShapeOf(node, member) /\ RowsOf(node, member) /\ Table(member)
  BY <1>1 DEF TreeOf, ShapeOf, RowsOf
<1> QED
  BY <1>1, <1>2, WellKnownAre DEF RowsOf

(* Whose directory is in a version, where the path of a request leads.     *)
LEMMA AtIs ==
  ASSUME Table(member), NEW n, NEW version,
         NEW dir \in DOMAIN member, NEW above \in DOMAIN member,
         member[n].parent = dir, member[dir].parent = above, member[above].parent = ARTIFACTS,
         member[above].name = Game, member[dir].name = version, member[n].name = Html
  PROVE  IsAt(n, version)
<1>1. member[above] \in [parent : Node, name : Name \cup WellKnown]
  BY DEF Table
<1>2. member[above] = [parent |-> ARTIFACTS, name |-> Game]
  BY <1>1
<1> QED
  BY <1>2 DEF IsAt

(* The file at the path of a request in an artifact has been imported at   *)
(* its resource.                                                           *)
LEMMA PathOf ==
  ASSUME PlayInv, ~ Strayed, NEW q \in Askable, NEW n \in DOMAIN Roots,
         NEW dir \in DOMAIN member, NEW above \in DOMAIN member,
         member[n].parent = dir, member[dir].parent = above, member[above].parent = ARTIFACTS,
         Roots[n] # <<>>,
         Resolve(q.version, q.resource) = FileAt(member, Roots, n)
  PROVE  Roots[n] = q.resource
<1> DEFINE path == VirtualPath(q.version, q.resource)
           file == Resolve(q.version, q.resource)
<1>1. /\ TreeOf(node, member, Roots, late) /\ ShapeOf(node, member) /\ Table(member)
      /\ ARTIFACTS \in DOMAIN member
  BY TreeNow
<1>2. q.resource \in Seq(Segment) /\ Len(q.resource) \in Nat
  BY AskableIs
<1>3. /\ Len(path) = Len(q.resource) + 3
      /\ path[1] = Game /\ path[2] = q.version /\ path[3] = Html
      /\ \A k \in 1 .. Len(q.resource) : path[k + 3] = q.resource[k]
  BY AskableIs, VirtualPathIs
<1>4. n \in DOMAIN member /\ Roots[n] \in Path /\ FileAt(member, Roots, n) # NotFound
  BY <1>1, FileOf
<1>5. file = WalkedIn(member, ARTIFACTS, path)[Len(path)]
  BY <1>4, FoundIs
<1> DEFINE of == Roots[n]
<1>6. /\ of \in Seq(Name) /\ Len(of) \in Nat /\ DOMAIN of = 1 .. Len(of)
  BY <1>4, PathIs
<1>7. FileAt(member, Roots, n) = WalkedIn(member, n, of)[Len(of)]
  BY DEF FileAt
<1>8. file = FileAt(member, Roots, n) /\ file # NotFound
  BY <1>4
<1> HIDE DEF path, file, of
<1> DEFINE names == <<member[above].name, member[dir].name, member[n].name>>
           from == [k \in 1 .. Len(of) + 3 |-> IF k <= 3 THEN names[k] ELSE of[k - 3]]
<1>12. /\ Len(from) = Len(of) + 3
       /\ from[1] = member[above].name /\ from[2] = member[dir].name /\ from[3] = member[n].name
       /\ \A k \in 1 .. Len(of) : from[k + 3] = of[k]
  BY <1>6
<1> HIDE DEF from
<1>13. WalkedIn(member, ARTIFACTS, from)[Len(from)] = file
  <2>1. Extends(member, n, dir, above, of, from)
    BY <1>4, <1>6, <1>7, <1>8, <1>12 DEF Extends
  <2>2. WalkedIn(member, ARTIFACTS, from)[Len(from)] = WalkedIn(member, n, of)[Len(of)]
    BY <1>1, <2>1, WalkToFile
  <2> QED
    BY <1>7, <1>8, <2>2
<1>14. Len(path) = Len(from) /\ \A k \in 1 .. Len(path) : path[k] = from[k]
  <2>1. Len(from) \in Nat /\ Len(path) \in Nat
    BY <1>2, <1>3, <1>6, <1>12
  <2>2. /\ WalkedIn(member, ARTIFACTS, path)[Len(path)] # NotFound
        /\ WalkedIn(member, ARTIFACTS, from)[Len(from)] = WalkedIn(member, ARTIFACTS, path)[Len(path)]
    BY <1>5, <1>8, <1>13
  <2> QED
    BY <1>1, <2>1, <2>2, OnePath
<1>15. Len(of) = Len(q.resource)
  BY <1>2, <1>3, <1>6, <1>12, <1>14
<1>16. ASSUME NEW k \in 1 .. Len(q.resource) PROVE of[k] = q.resource[k]
  <2>1. k + 3 \in 1 .. Len(path) /\ k \in 1 .. Len(of)
    BY <1>2, <1>3, <1>15
  <2> QED
    BY <1>3, <1>12, <1>14, <2>1
<1>17. DOMAIN q.resource = 1 .. Len(q.resource)
  BY <1>2
<1>18. /\ q.resource = [k \in 1 .. Len(q.resource) |-> q.resource[k]]
       /\ of = [k \in 1 .. Len(of) |-> of[k]]
  BY <1>2, <1>6, <1>17
<1>19. of = q.resource
  BY <1>15, <1>16, <1>18
<1> QED
  BY <1>19 DEF of

(* A file that a request finds is the one imported at this path into the   *)
(* html artifact of the version, or in a late node that is there.          *)
LEMMA FoundWasImported ==
  ASSUME PlayInv, ~ Strayed, NEW q \in Askable, Resolve(q.version, q.resource) # NotFound
  PROVE  \E n \in DOMAIN artifact \cup late :
           /\ IsAt(n, q.version) /\ Resolve(q.version, q.resource) \in Below(n)
           /\ n \notin late => /\ n \in DOMAIN artifact
                               /\ artifact[n] = q.resource /\ artifact[n] # <<>>
<1> DEFINE path == VirtualPath(q.version, q.resource)
           file == Resolve(q.version, q.resource)
<1>1. /\ TreeOf(node, member, Roots, late) /\ ShapeOf(node, member) /\ Table(member)
  BY TreeNow
<1>2. /\ file = WalkedIn(member, ARTIFACTS, path)[Len(path)] /\ file # NotFound
      /\ file \in DOMAIN node /\ node[file] = "F" /\ file \in BelowIn(member, ARTIFACTS)
      /\ Len(path) \in Nat
  BY FoundIs
<1>3. path[1] = Game /\ path[2] = q.version /\ path[3] = Html
  BY AskableIs, VirtualPathIs
<1> HIDE DEF path, file
<1>4. PICK n \in DOMAIN Roots :
        /\ VersionIn(member, n) /\ file \in BelowIn(member, n) /\ ARTIFACTS \notin BelowIn(member, n)
        /\ n \notin late => Roots[n] # <<>> /\ file = FileAt(member, Roots, n)
  BY <1>1, <1>2, OwnerIs
<1>5. PICK dir \in DOMAIN member, above \in DOMAIN member :
        member[n].parent = dir /\ member[dir].parent = above /\ member[above].parent = ARTIFACTS
  BY <1>4 DEF VersionIn
<1>6. member[above].name = Game /\ member[dir].name = q.version /\ member[n].name = Html
  <2>1. LeadsBelow(member, path, n, dir, above)
    BY <1>2, <1>4, <1>5 DEF LeadsBelow
  <2>2. member[above].name = path[1] /\ member[dir].name = path[2] /\ member[n].name = path[3]
    BY <1>1, <2>1, WalkPassesTop
  <2> QED
    BY <1>3, <2>2
<1>7. IsAt(n, q.version)
  BY <1>1, <1>5, <1>6, AtIs
<1>8. ASSUME n \notin late
      PROVE  n \in DOMAIN artifact /\ artifact[n] = q.resource /\ artifact[n] # <<>>
  <2>1. n \in DOMAIN artifact /\ Roots[n] = artifact[n]
    BY <1>8, RootsAre
  <2>2. Roots[n] = q.resource
    BY <1>4, <1>5, <1>8, PathOf DEF file
  <2> QED
    BY <1>4, <1>8, <2>1, <2>2
<1>9. n \in DOMAIN artifact \cup late
  BY RootsAre
<1> QED
  BY <1>4, <1>7, <1>8, <1>9 DEF Below, file

(* What has been imported is found. *)
LEMMA ImportedIsFound ==
  ASSUME PlayInv, ~ Strayed, NEW q \in Askable, NEW n \in DOMAIN artifact,
         artifact[n] = q.resource, artifact[n] # <<>>, IsAt(n, q.version)
  PROVE  Resolve(q.version, q.resource) \in Below(n)
<1> DEFINE path == VirtualPath(q.version, q.resource)
           file == FileAt(member, Roots, n)
<1>0. n \in DOMAIN Roots /\ Roots[n] = artifact[n]
  BY RootsAre
<1>1. /\ TreeOf(node, member, Roots, late) /\ RowsOf(node, member) /\ Table(member)
      /\ ARTIFACTS \in DOMAIN node
  BY TreeNow
<1>2. /\ n \in DOMAIN member /\ Len(artifact[n]) \in Nat
      /\ file # NotFound /\ file \in BelowIn(member, n) /\ node[file] = "F"
      /\ file = WalkedIn(member, n, artifact[n])[Len(artifact[n])]
  BY <1>0, <1>1, FileOf DEF FileAt
<1>3. /\ Len(path) = Len(q.resource) + 3
      /\ path[1] = Game /\ path[2] = q.version /\ path[3] = Html
      /\ \A k \in 1 .. Len(q.resource) : path[k + 3] = q.resource[k]
  BY AskableIs, VirtualPathIs
<1> HIDE DEF path, file
<1>4. PICK dir \in DOMAIN member, above \in DOMAIN member :
        /\ member[n].parent = dir /\ member[dir].parent = above
        /\ member[above] = [parent |-> ARTIFACTS, name |-> Game]
        /\ member[n].name = Html /\ member[dir].name = q.version
  BY DEF IsAt
<1>5. WalkedIn(member, ARTIFACTS, path)[Len(path)] = file
  <2>1. Extends(member, n, dir, above, artifact[n], path)
    BY <1>2, <1>3, <1>4 DEF Extends
  <2> QED
    BY <1>1, <1>2, <2>1, WalkToFile
<1>6. file \in DOMAIN hash
  <2>1. file \in DOMAIN node
    BY <1>1, <1>2, BelowIs DEF RowsOf
  <2> QED
    BY <1>2, <2>1 DEF PlayInv, PlayTypeOK
<1>7. Find(ARTIFACTS, path) = file
  BY <1>1, <1>5 DEF Find, Walked
<1>8. Resolve(q.version, q.resource) = file
  BY <1>6, <1>7 DEF Resolve, path
<1> QED
  BY <1>2, <1>8 DEF Below

(* For any tree and any path of a URL, as long as no late import has       *)
(* strayed: a file that has been imported at this path into the html       *)
(* artifact of the version is found, and what is found is such a file, or  *)
(* in a node there that a late import has filled or moved.                 *)
THEOREM FoundIsAlwaysImported == PlaySpec => []FoundIsImported
<1>1. PlayInv => FoundIsImported
  BY FoundWasImported, ImportedIsFound DEF FoundIsImported
<1> QED
  BY <1>1, PlayInvHolds, PTL
=============================================================================
