----------------------------- MODULE GraphTables -----------------------------
(***************************************************************************)
(* The tables of positions and of moves between them:                      *)
(* graph/transposition_node.py and graph/route_edge.py.  Each user keeps   *)
(* both and merges those of others.                                        *)
(*                                                                         *)
(* A position text is an identity (variant and the four fields that count) *)
(* with a clock; the snapshot that is stored has clock 0.  Records lie in  *)
(* buckets by a digest that an oracle computes: the digest may collide,    *)
(* and the oracle may fail at any call, which refuses the operation.       *)
(***************************************************************************)
EXTENDS Integers, FiniteSets, FiniteSetsExt, FiniteSetTheorems,
        WellFoundedInduction, TLAPS

CONSTANTS
    Users,
    Identities,  \* positions up to the clocks
    Clocks,      \* clocks a text may carry, 0 is the snapshot's
    Moves,       \* moves of a legal shape
    Digest(_),   \* the oracle: digest of an identity
    MaxAdded     \* bound of the model: insertions

TablesConstants == 0 \in Clocks /\ MaxAdded \in Nat

VARIABLES
    nodes,   \* NodeTable of each user: digest -> set of records
    edges,   \* EdgeTable of each user: <<digest, move>> -> set of records
    met,     \* history: identities each user inserted or merged
    added    \* insertions so far

tableVars == <<nodes, edges, met, added>>

Texts == [identity : Identities, clock : Clocks]
Snapshot(text) == [text EXCEPT !.clock = 0]

Empty == [k \in {} |-> {}]
Bucket(table, key) == IF key \in DOMAIN table THEN table[key] ELSE {}
Records(table) == UNION {table[k] : k \in DOMAIN table}
Filed(table, key, rec) ==
    [k \in DOMAIN table \union {key} |->
        IF k = key THEN Bucket(table, key) \union {rec} ELSE table[k]]

-----------------------------------------------------------------------------
\* graph/transposition_node.py

\* _make_record: the digest is taken of the text as it came.
NodeRecord(text) ==
    [digest |-> Digest(text.identity), snapshot |-> Snapshot(text)]

\* validate_record
NodeOK(rec) ==
    /\ rec.snapshot.clock = 0
    /\ rec.digest = Digest(rec.snapshot.identity)

\* NodeTable.insert: the record of the identity that is in its bucket, or a
\* new one.
WithNode(table, text) ==
    LET rec == NodeRecord(text)
    IN  IF \E old \in Bucket(table, rec.digest) :
              old.snapshot.identity = text.identity
        THEN table ELSE Filed(table, rec.digest, rec)

\* NodeTable.merge into a staged copy.
WithNodes(table, source) ==
    FoldSet(LAMBDA rec, t: WithNode(t, rec.snapshot), table, Records(source))

-----------------------------------------------------------------------------
\* graph/route_edge.py

EdgeRecord(move, from, to) ==
    [move |-> move, from |-> Snapshot(from), to |-> Snapshot(to)]
EdgeKey(rec) == <<Digest(rec.from.identity), rec.move>>

\* validate_record, each end through the node validator.
EdgeOK(rec) ==
    /\ NodeOK(NodeRecord(rec.from)) /\ rec.from = Snapshot(rec.from)
    /\ NodeOK(NodeRecord(rec.to)) /\ rec.to = Snapshot(rec.to)

BadClashDigest(table, rec) ==
    \E old \in Bucket(table, EdgeKey(rec)) :
        old.from = rec.from
        /\ Digest(old.to.identity) # Digest(rec.to.identity)

\* conflicting_edge: the same move from the same position ends elsewhere.
Clash(table, rec) ==
    \E old \in Bucket(table, EdgeKey(rec)) :
        old.from = rec.from /\ old.to # rec.to

\* EdgeTable.insert, of a record that clashes with none.
WithEdge(table, rec) == Filed(table, EdgeKey(rec), rec)

\* EdgeTable.merge: the source's records one by one; FALSE if one clashes.
\* A source without clashes of its own clashes in no order or in every one.
Mergeable(table, source) == \A rec \in Records(source) : ~Clash(table, rec)
WithEdges(table, source) ==
    FoldSet(LAMBDA rec, t: WithEdge(t, rec), table, Records(source))

-----------------------------------------------------------------------------
TablesInit ==
    /\ nodes = [u \in Users |-> Empty] /\ edges = [u \in Users |-> Empty]
    /\ met = [u \in Users |-> {}] /\ added = 0

Counted == added < MaxAdded /\ added' = added + 1

InsertNode(u, text) ==
    /\ Counted
    /\ nodes' = [nodes EXCEPT ![u] = WithNode(@, text)]
    /\ met' = [met EXCEPT ![u] = @ \union {text.identity}]
    /\ UNCHANGED edges

InsertEdge(u, move, from, to) ==
    /\ Counted
    /\ LET rec == EdgeRecord(move, from, to)
       IN  IF Clash(edges[u], rec) THEN UNCHANGED edges
           ELSE edges' = [edges EXCEPT ![u] = WithEdge(@, rec)]
    /\ UNCHANGED <<nodes, met>>

\* One record the oracle fails on, or one that is not valid, and the staged
\* copy is dropped.
MergeNodes(u, w) ==
    /\ u # w
    /\ \A rec \in Records(nodes[w]) : NodeOK(rec)
    /\ nodes' = [nodes EXCEPT ![u] = WithNodes(@, nodes[w])]
    /\ met' = [met EXCEPT ![u] = @ \union met[w]]
    /\ UNCHANGED <<edges, added>>

MergeEdges(u, w) ==
    /\ u # w
    /\ \A rec \in Records(edges[w]) : EdgeOK(rec)
    /\ Mergeable(edges[u], edges[w])
    /\ edges' = [edges EXCEPT ![u] = WithEdges(@, edges[w])]
    /\ UNCHANGED <<nodes, met, added>>

TablesNext == \E u \in Users :
    \/ \E text \in Texts : InsertNode(u, text)
    \/ \E move \in Moves, from \in Texts, to \in Texts :
          InsertEdge(u, move, from, to)
    \/ \E w \in Users : MergeNodes(u, w) \/ MergeEdges(u, w)

TablesSpec == TablesInit /\ [][TablesNext]_tableVars
-----------------------------------------------------------------------------
\* A transposition is one node: whatever clocks a position arrived with, and
\* whatever shares its bucket, each position a user met is in the table once
\* and none is lost to a collision (NodeTable.insert and merge).
OneNodeEach ==
    \A u \in Users : \A i \in Identities :
        Cardinality({rec \in Records(nodes[u]) : rec.snapshot.identity = i}) =
            (IF i \in met[u] THEN 1 ELSE 0)

\* A move from a position leads to one position, in every table, whatever was
\* merged from whom (conflicting_edge).
MovesDeterministic ==
    \A u \in Users : \A a, b \in Records(edges[u]) :
        a.from = b.from /\ a.move = b.move => a.to = b.to

\* Merging tables gives the same table from either side, or is refused from
\* both (merge).
EitherWayAlike ==
    \A u, w \in Users :
        /\ WithNodes(nodes[u], nodes[w]) = WithNodes(nodes[w], nodes[u])
        /\ Mergeable(edges[u], edges[w]) = Mergeable(edges[w], edges[u])
        /\ Mergeable(edges[u], edges[w]) =>
              WithEdges(edges[u], edges[w]) = WithEdges(edges[w], edges[u])

\* A table takes every edge that contradicts none of its own, also one whose
\* digest is another's (EdgeTable.insert).
NothingRefusedUnduly ==
    \A u, w \in Users : (\A a \in Records(edges[u]), b \in Records(edges[w]) :
            a.from = b.from /\ a.move = b.move => a.to = b.to)
        => Mergeable(edges[u], edges[w])

\* Under colliding digests a position has one node and a move one target, tables
\* agree in whatever order they are merged and are refused for a cause only.
TablesAgree == OneNodeEach /\ MovesDeterministic /\ EitherWayAlike /\ NothingRefusedUnduly

-----------------------------------------------------------------------------
(***************************************************************************)
(* Proofs.  A table is no more than a set of records, filed by their keys: *)
(* to insert and to merge is to take unions, whatever keys coincide.       *)
(***************************************************************************)

\* The table that files a set of records, each under its key.
FiledBy(key, R) == [k \in {key[r] : r \in R} |-> {r \in R : key[r] = k}]

LEMMA NothingFiled == ASSUME NEW key PROVE Empty = FiledBy(key, {})
BY DEF Empty, FiledBy

LEMMA RecordsFiled ==
    ASSUME NEW key, NEW R
    PROVE  Records(FiledBy(key, R)) = R
<1> DEFINE T == FiledBy(key, R)
<1>1. \A k \in DOMAIN T : T[k] = {r \in R : key[r] = k}
  BY DEF FiledBy
<1>2. \A r \in R : key[r] \in DOMAIN T
  BY DEF FiledBy
<1> HIDE DEF T
<1>3. \A r : r \in UNION {T[k] : k \in DOMAIN T} <=> r \in R
  BY <1>1, <1>2
<1>4. QED
  BY <1>3 DEF Records, T

LEMMA BucketFiled ==
    ASSUME NEW key, NEW R, NEW k
    PROVE  Bucket(FiledBy(key, R), k) = {r \in R : key[r] = k}
BY DEF Bucket, FiledBy

\* To file one more record is to have filed one more.
LEMMA OneMoreFiled ==
    ASSUME NEW key, NEW R, NEW x
    PROVE  Filed(FiledBy(key, R), key[x], x) = FiledBy(key, R \cup {x})
<1> DEFINE T == FiledBy(key, R)
           more == R \cup {x}
           keys == {key[r] : r \in more}
<1>1. DOMAIN T \cup {key[x]} = keys
  BY DEF FiledBy
<1>2. ASSUME NEW k \in keys
      PROVE  (IF k = key[x] THEN Bucket(T, k) \cup {x} ELSE T[k])
                = {r \in more : key[r] = k}
  <2>1. CASE k = key[x]
    BY <2>1, BucketFiled
  <2>2. CASE k # key[x]
    <3>1. k \in {key[r] : r \in R}
      BY <1>2, <2>2
    <3>2. T[k] = {r \in R : key[r] = k}
      BY <3>1 DEF FiledBy
    <3>3. QED
      BY <2>2, <3>2
  <2>3. QED
    BY <2>1, <2>2
<1>3. Filed(T, key[x], x) =
         [k \in keys |-> IF k = key[x] THEN Bucket(T, k) \cup {x} ELSE T[k]]
  BY <1>1 DEF Filed
<1>4. FiledBy(key, more) = [k \in keys |-> {r \in more : key[r] = k}]
  BY DEF FiledBy
<1> HIDE DEF T, keys, more
<1>5. Filed(T, key[x], x) = FiledBy(key, more)
  BY <1>2, <1>3, <1>4
<1>6. QED
  BY <1>5 DEF T, more

\* Induction over the subsets of a finite set in the order a fold takes them.
LEMMA SubsetsUp ==
    ASSUME NEW S, IsFiniteSet(S), NEW Good, {} \in Good,
           \A s \in SUBSET S : s # {} /\ s \ {CHOOSE y \in s : TRUE} \in Good => s \in Good
    PROVE  S \in Good
<1> DEFINE Bad == {s \in SUBSET S : s \notin Good}
<1>1. SUFFICES ASSUME Bad # {}
               PROVE  FALSE
  OBVIOUS
<1>2. \A s \in SUBSET S : s \in FiniteSubsetsOf(S)
  BY FS_Subset DEF FiniteSubsetsOf
<1>3. Bad \subseteq FiniteSubsetsOf(S)
  BY <1>2
<1>4. IsWellFoundedOn(StrictSubsetOrdering(S), FiniteSubsetsOf(S))
  BY FS_StrictSubsetOrderingWellFounded
<1>5. PICK x \in Bad : \A y \in Bad : <<y, x>> \notin StrictSubsetOrdering(S)
  <2> HIDE DEF Bad
  <2>1. QED
    BY <1>1, <1>3, <1>4, WFMin
<1> DEFINE c == CHOOSE y \in x : TRUE
           y == x \ {c}
<1>6. x \in SUBSET S /\ x # {} /\ x \notin Good
  BY <1>5
<1>7. c \in x /\ y \in SUBSET S /\ y \subseteq x /\ y # x
  BY <1>6
<1>8. y \notin Good
  BY <1>6
<1>9. y \in Bad
  BY <1>7, <1>8
<1> HIDE DEF c, y, Bad
<1>10. <<y, x>> \in StrictSubsetOrdering(S)
  BY <1>6, <1>7 DEF StrictSubsetOrdering
<1>11. QED
  BY <1>5, <1>9, <1>10

-----------------------------------------------------------------------------
\* The nodes: of every position one record, whatever the clocks.

NodeOf(i) == [digest |-> Digest(i), snapshot |-> [identity |-> i, clock |-> 0]]
NodesOf(I) == {NodeOf(i) : i \in I}
NodeKey == [rec \in NodesOf(Identities) |-> rec.digest]
NodesTable(I) == FiledBy(NodeKey, NodesOf(I))

LEMMA NodeOfText ==
    ASSUME NEW text \in Texts
    PROVE  NodeRecord(text) = NodeOf(text.identity) /\ text.identity \in Identities
BY DEF NodeRecord, NodeOf, Snapshot, Texts

LEMMA NodeFields ==
    ASSUME NEW i
    PROVE  /\ NodeOf(i).digest = Digest(i)
           /\ NodeOf(i).snapshot.identity = i /\ NodeOf(i).snapshot.clock = 0
           /\ NodeRecord(NodeOf(i).snapshot) = NodeOf(i)
BY DEF NodeOf, NodeRecord, Snapshot

\* An insertion adds the record of the position, or finds it there.
LEMMA NodeAdded ==
    ASSUME NEW I \in SUBSET Identities, NEW text, NEW i \in Identities,
           NodeRecord(text) = NodeOf(i), text.identity = i
    PROVE  WithNode(NodesTable(I), text) = NodesTable(I \cup {i})
<1> DEFINE T == NodesTable(I)
           rec == NodeOf(i)
<1>1. rec.digest = Digest(i) /\ NodeKey[rec] = rec.digest
  BY NodeFields DEF NodeKey, NodesOf
<1>2. Bucket(T, rec.digest) = {r \in NodesOf(I) : NodeKey[r] = rec.digest}
  BY BucketFiled DEF NodesTable
<1>3. NodesOf(I \cup {i}) = NodesOf(I) \cup {rec}
  BY DEF NodesOf
<1>4. (\E old \in Bucket(T, rec.digest) : old.snapshot.identity = i) <=> i \in I
  <2>1. ASSUME NEW old \in Bucket(T, rec.digest), old.snapshot.identity = i
        PROVE  i \in I
    BY <1>2, <2>1, NodeFields DEF NodesOf
  <2>2. ASSUME i \in I
        PROVE  rec \in Bucket(T, rec.digest) /\ rec.snapshot.identity = i
    BY <1>1, <1>2, <2>2, NodeFields DEF NodesOf
  <2>3. QED
    BY <2>1, <2>2
<1>5. WithNode(T, text) = IF i \in I THEN T ELSE Filed(T, rec.digest, rec)
  BY <1>4 DEF WithNode
<1>6. Filed(T, rec.digest, rec) = NodesTable(I \cup {i})
  <2>1. Filed(FiledBy(NodeKey, NodesOf(I)), NodeKey[rec], rec)
           = FiledBy(NodeKey, NodesOf(I) \cup {rec})
    BY OneMoreFiled
  <2>2. QED
    BY <1>1, <1>3, <2>1 DEF NodesTable
<1>7. i \in I => T = NodesTable(I \cup {i})
  <2>1. i \in I => I \cup {i} = I
    OBVIOUS
  <2>2. QED
    BY <2>1
<1>8. QED
  BY <1>5, <1>6, <1>7

\* A merge of nodes is a union, in whatever order the source's records come.
LEMMA NodesMerged ==
    ASSUME NEW I \in SUBSET Identities, NEW J \in SUBSET Identities, IsFiniteSet(J)
    PROVE  WithNodes(NodesTable(I), NodesTable(J)) = NodesTable(I \cup J)
<1> DEFINE S == NodesOf(J)
           T == NodesTable(I)
           Step(g, s) == IF s = {} THEN T
                         ELSE LET x == CHOOSE y \in s : TRUE
                              IN  WithNode(g[s \ {x}], x.snapshot)
           Fold(g) == g = [s \in SUBSET S |-> Step(g, s)]
           Met(s) == {i \in J : NodeOf(i) \in s}
           merged == [s \in SUBSET S |-> NodesTable(I \cup Met(s))]
<1>1. IsFiniteSet(S)
  <2> DEFINE f == [i \in J |-> NodeOf(i)]
  <2>1. f \in Surjection(J, S)
    BY DEF Surjection, NodesOf
  <2>2. QED
    BY <2>1, FS_Surjection
<1>2. ASSUME NEW s \in SUBSET S, s # {}
      PROVE  LET x == CHOOSE y \in s : TRUE
             IN  /\ s \ {x} \in SUBSET S
                 /\ WithNode(NodesTable(I \cup Met(s \ {x})), x.snapshot)
                       = NodesTable(I \cup Met(s))
  <2> DEFINE x == CHOOSE y \in s : TRUE
             i == x.snapshot.identity
  <2>1. x \in s /\ x \in S
    BY <1>2
  <2>2. i \in J /\ x = NodeOf(i) /\ NodeRecord(x.snapshot) = NodeOf(i)
    <3>1. PICK j \in J : x = NodeOf(j)
      BY <2>1 DEF NodesOf
    <3>2. QED
      BY <3>1, NodeFields
  <2> HIDE DEF x
  <2>3. \A j, k : NodeOf(j) = NodeOf(k) => j = k
    BY NodeFields
  <2>4. Met(s) = Met(s \ {x}) \cup {i}
    <3> HIDE DEF i
    <3>1. QED
      BY <2>1, <2>2, <2>3
  <2>5. I \cup Met(s \ {x}) \in SUBSET Identities /\ i \in Identities
    BY <2>2
  <2>6. (I \cup Met(s \ {x})) \cup {i} = I \cup Met(s)
    BY <2>4
  <2> HIDE DEF Met
  <2>7. WithNode(NodesTable(I \cup Met(s \ {x})), x.snapshot)
           = NodesTable((I \cup Met(s \ {x})) \cup {i})
    BY <2>2, <2>5, NodeAdded
  <2>8. QED
    BY <2>6, <2>7 DEF x
<1>3. Met({}) = {} /\ Met(S) = J
  BY DEF NodesOf
<1>4. Fold(merged)
  <2>1. ASSUME NEW s \in SUBSET S
        PROVE  Step(merged, s) = NodesTable(I \cup Met(s))
    <3>1. CASE s = {}
      BY <1>3, <3>1
    <3>2. CASE s # {}
      <4> DEFINE x == CHOOSE y \in s : TRUE
      <4>1. s \ {x} \in SUBSET S
        OBVIOUS
      <4>2. merged[s \ {x}] = NodesTable(I \cup Met(s \ {x}))
        BY <4>1
      <4>3. QED
        BY <1>2, <3>2, <4>2
    <3>3. QED
      BY <3>1, <3>2
  <2>2. QED
    BY <2>1
<1>5. ASSUME NEW g, Fold(g)
      PROVE  g[S] = NodesTable(I \cup J)
  <2> DEFINE Good == {s \in SUBSET S : g[s] = NodesTable(I \cup Met(s))}
  <2>1. \A s \in SUBSET S : g[s] = Step(g, s)
    BY <1>5
  <2>2. {} \in Good
    BY <1>3, <2>1
  <2>3. \A s \in SUBSET S : s # {} /\ s \ {CHOOSE y \in s : TRUE} \in Good => s \in Good
    BY <1>2, <2>1
  <2>4. S \in Good
    <3> HIDE DEF Good
    <3>1. QED
      BY <1>1, <2>2, <2>3, SubsetsUp
  <2>5. QED
    BY <1>3, <2>4
<1>6. Fold(CHOOSE g : Fold(g))
  <2> HIDE DEF Fold
  <2>1. QED
    BY <1>4
<1>7. Records(NodesTable(J)) = S
  BY RecordsFiled DEF NodesTable
<1>8. WithNodes(T, NodesTable(J)) = (CHOOSE g : Fold(g))[S]
  BY <1>7 DEF WithNodes, FoldSet, MapThenFoldSet
<1>9. QED
  BY <1>5, <1>6, <1>8

-----------------------------------------------------------------------------
\* The edges: records that differ in no more than where they lead clash.

Snapshots == {text \in Texts : text.clock = 0}
AllEdges == [move : Moves, from : Snapshots, to : Snapshots]
EdgesKey == [rec \in AllEdges |-> EdgeKey(rec)]
EdgesTable(R) == FiledBy(EdgesKey, R)

Contradicts(a, b) == a.from = b.from /\ a.move = b.move /\ a.to # b.to

LEMMA EdgeAdded ==
    ASSUME NEW R \in SUBSET AllEdges, NEW rec \in AllEdges
    PROVE  WithEdge(EdgesTable(R), rec) = EdgesTable(R \cup {rec})
<1>1. EdgesKey[rec] = EdgeKey(rec)
  BY DEF EdgesKey
<1>2. Filed(FiledBy(EdgesKey, R), EdgesKey[rec], rec) = FiledBy(EdgesKey, R \cup {rec})
  BY OneMoreFiled
<1>3. QED
  BY <1>1, <1>2 DEF WithEdge, EdgesTable

LEMMA EdgesMerged ==
    ASSUME NEW R \in SUBSET AllEdges, NEW S \in SUBSET AllEdges, IsFiniteSet(S)
    PROVE  WithEdges(EdgesTable(R), EdgesTable(S)) = EdgesTable(R \cup S)
<1> DEFINE T == EdgesTable(R)
           Step(g, s) == IF s = {} THEN T
                         ELSE LET x == CHOOSE y \in s : TRUE
                              IN  WithEdge(g[s \ {x}], x)
           Fold(g) == g = [s \in SUBSET S |-> Step(g, s)]
           merged == [s \in SUBSET S |-> EdgesTable(R \cup s)]
<1>1. ASSUME NEW s \in SUBSET S, s # {}
      PROVE  LET x == CHOOSE y \in s : TRUE
             IN  /\ s \ {x} \in SUBSET S
                 /\ WithEdge(EdgesTable(R \cup (s \ {x})), x) = EdgesTable(R \cup s)
  <2> DEFINE x == CHOOSE y \in s : TRUE
  <2>1. x \in s /\ x \in AllEdges
    BY <1>1
  <2> HIDE DEF x
  <2>2. R \cup (s \ {x}) \in SUBSET AllEdges
    OBVIOUS
  <2>3. (R \cup (s \ {x})) \cup {x} = R \cup s
    BY <2>1
  <2>4. WithEdge(EdgesTable(R \cup (s \ {x})), x) = EdgesTable((R \cup (s \ {x})) \cup {x})
    BY <2>1, <2>2, EdgeAdded
  <2>5. QED
    BY <2>3, <2>4 DEF x
<1>2. Fold(merged)
  <2>1. ASSUME NEW s \in SUBSET S
        PROVE  Step(merged, s) = EdgesTable(R \cup s)
    <3>1. CASE s = {}
      <4>1. R \cup s = R
        BY <3>1
      <4>2. QED
        BY <3>1, <4>1
    <3>2. CASE s # {}
      <4> DEFINE x == CHOOSE y \in s : TRUE
      <4>1. s \ {x} \in SUBSET S
        OBVIOUS
      <4>2. merged[s \ {x}] = EdgesTable(R \cup (s \ {x}))
        BY <4>1
      <4>3. QED
        BY <1>1, <3>2, <4>2
    <3>3. QED
      BY <3>1, <3>2
  <2>2. QED
    BY <2>1
<1>3. ASSUME NEW g, Fold(g)
      PROVE  g[S] = EdgesTable(R \cup S)
  <2> DEFINE Good == {s \in SUBSET S : g[s] = EdgesTable(R \cup s)}
  <2>1. \A s \in SUBSET S : g[s] = Step(g, s)
    BY <1>3
  <2>2. {} \in Good
    <3>1. R \cup {} = R
      OBVIOUS
    <3>2. QED
      BY <2>1, <3>1
  <2>3. \A s \in SUBSET S : s # {} /\ s \ {CHOOSE y \in s : TRUE} \in Good => s \in Good
    BY <1>1, <2>1
  <2>4. S \in Good
    <3> HIDE DEF Good
    <3>1. QED
      BY <2>2, <2>3, SubsetsUp
  <2>5. QED
    BY <2>4
<1>4. Fold(CHOOSE g : Fold(g))
  <2> HIDE DEF Fold
  <2>1. QED
    BY <1>2
<1>5. Records(EdgesTable(S)) = S
  BY RecordsFiled DEF EdgesTable
<1>6. WithEdges(T, EdgesTable(S)) = (CHOOSE g : Fold(g))[S]
  BY <1>5 DEF WithEdges, FoldSet, MapThenFoldSet
<1>7. QED
  BY <1>3, <1>4, <1>6

\* The bucket a record is looked up in holds all records it could contradict.
LEMMA ClashIsContradiction ==
    ASSUME NEW R \in SUBSET AllEdges, NEW rec \in AllEdges
    PROVE  Clash(EdgesTable(R), rec) <=> \E old \in R : Contradicts(old, rec)
<1>1. Bucket(EdgesTable(R), EdgeKey(rec)) = {r \in R : EdgesKey[r] = EdgeKey(rec)}
  BY BucketFiled DEF EdgesTable
<1>2. \A old \in R : EdgesKey[old] = EdgeKey(old)
  BY DEF EdgesKey
<1>3. \A old \in R : EdgeKey(old) = EdgeKey(rec) => old.move = rec.move
  BY DEF EdgeKey
<1>4. \A old \in R : old.from = rec.from /\ old.move = rec.move => EdgeKey(old) = EdgeKey(rec)
  BY DEF EdgeKey
<1>5. QED
  BY <1>1, <1>2, <1>3, <1>4 DEF Clash, Contradicts

\* Two tables merge exactly if no record of one contradicts one of the other.
LEMMA MergeableIsConsistent ==
    ASSUME NEW R \in SUBSET AllEdges, NEW S \in SUBSET AllEdges
    PROVE  Mergeable(EdgesTable(R), EdgesTable(S))
              <=> \A a \in R, b \in S : ~ Contradicts(a, b)
<1>1. Records(EdgesTable(S)) = S
  BY RecordsFiled DEF EdgesTable
<1>2. QED
  BY <1>1, ClashIsContradiction DEF Mergeable

LEMMA EdgeOfTexts ==
    ASSUME 0 \in Clocks, NEW move \in Moves, NEW from \in Texts, NEW to \in Texts
    PROVE  EdgeRecord(move, from, to) \in AllEdges
<1>1. Snapshot(from) \in Snapshots /\ Snapshot(to) \in Snapshots
  BY DEF Snapshot, Snapshots, Texts
<1>2. QED
  BY <1>1 DEF EdgeRecord, AllEdges

-----------------------------------------------------------------------------
\* The inductive invariant: a user's nodes are those of the positions met, and the
\* edges are filed by their keys and contradict none of each other.

NodesInv ==
    /\ met \in [Users -> SUBSET Identities]
    /\ \A u \in Users : IsFiniteSet(met[u])
    /\ nodes = [u \in Users |-> NodesTable(met[u])]

Consistent(R) ==
    /\ R \in SUBSET AllEdges /\ IsFiniteSet(R)
    /\ \A a, b \in R : ~ Contradicts(a, b)

EdgesInv ==
    /\ edges = [u \in Users |-> edges[u]]
    /\ \A u \in Users :
          Consistent(Records(edges[u])) /\ edges[u] = EdgesTable(Records(edges[u]))

LEMMA InitTables == TablesInit => NodesInv /\ EdgesInv
<1> SUFFICES ASSUME TablesInit PROVE NodesInv /\ EdgesInv
  OBVIOUS
<1>1. NodesOf({}) = {} /\ IsFiniteSet({})
  BY FS_EmptySet DEF NodesOf
<1>2. Empty = NodesTable({}) /\ Empty = EdgesTable({})
  BY <1>1, NothingFiled DEF NodesTable, EdgesTable
<1>3. Records(Empty) = {}
  BY <1>2, RecordsFiled DEF EdgesTable
<1>4. NodesInv
  BY <1>1, <1>2 DEF TablesInit, NodesInv
<1>5. Consistent({})
  BY <1>1 DEF Consistent
<1>6. EdgesInv
  BY <1>2, <1>3, <1>5 DEF TablesInit, EdgesInv
<1>7. QED
  BY <1>4, <1>6

\* A user who meets more positions.
LEMMA MetMore ==
    ASSUME NodesInv, NEW u \in Users, NEW J \in SUBSET Identities, IsFiniteSet(J),
           nodes' = [nodes EXCEPT ![u] = NodesTable(met[u] \cup J)],
           met' = [met EXCEPT ![u] = @ \cup J]
    PROVE  NodesInv'
<1>1. IsFiniteSet(met[u] \cup J)
  BY FS_Union DEF NodesInv
<1>2. met[u] \cup J \in SUBSET Identities
  BY DEF NodesInv
<1>3. QED
  BY <1>1, <1>2 DEF NodesInv

LEMMA InsertNodeKeeps ==
    ASSUME NodesInv, NEW u \in Users, NEW text \in Texts, InsertNode(u, text)
    PROVE  NodesInv'
<1> DEFINE i == text.identity
<1>1. NodeRecord(text) = NodeOf(i) /\ i \in Identities
  BY NodeOfText
<1>2. met[u] \in SUBSET Identities /\ nodes[u] = NodesTable(met[u])
  BY DEF NodesInv
<1>3. WithNode(nodes[u], text) = NodesTable(met[u] \cup {i})
  BY <1>1, <1>2, NodeAdded
<1>4. /\ nodes' = [nodes EXCEPT ![u] = NodesTable(met[u] \cup {i})]
      /\ met' = [met EXCEPT ![u] = @ \cup {i}]
  BY <1>3 DEF InsertNode
<1>5. {i} \in SUBSET Identities /\ IsFiniteSet({i})
  BY <1>1, FS_Singleton
<1> HIDE DEF i
<1>6. QED
  BY <1>4, <1>5, MetMore

LEMMA MergeNodesKeeps ==
    ASSUME NodesInv, NEW u \in Users, NEW w \in Users, MergeNodes(u, w)
    PROVE  NodesInv'
<1>1. /\ met[u] \in SUBSET Identities /\ nodes[u] = NodesTable(met[u])
      /\ met[w] \in SUBSET Identities /\ nodes[w] = NodesTable(met[w])
      /\ IsFiniteSet(met[w])
  BY DEF NodesInv
<1>2. WithNodes(nodes[u], nodes[w]) = NodesTable(met[u] \cup met[w])
  BY <1>1, NodesMerged
<1>3. /\ nodes' = [nodes EXCEPT ![u] = NodesTable(met[u] \cup met[w])]
      /\ met' = [met EXCEPT ![u] = @ \cup met[w]]
  BY <1>2 DEF MergeNodes
<1>4. QED
  BY <1>1, <1>3, MetMore

\* A user whose edges become those of a consistent set.
LEMMA EdgesReplaced ==
    ASSUME EdgesInv, NEW u \in Users, NEW R, Consistent(R),
           edges' = [edges EXCEPT ![u] = EdgesTable(R)]
    PROVE  EdgesInv'
<1>1. Records(EdgesTable(R)) = R
  BY RecordsFiled DEF EdgesTable
<1>2. ASSUME NEW v \in Users
      PROVE  /\ Consistent(Records(edges'[v]))
             /\ edges'[v] = EdgesTable(Records(edges'[v]))
  <2>1. CASE v = u
    BY <1>1, <2>1 DEF EdgesInv
  <2>2. CASE v # u
    BY <2>2 DEF EdgesInv
  <2>3. QED
    BY <2>1, <2>2
<1>3. edges' = [v \in Users |-> edges'[v]]
  BY DEF EdgesInv
<1>4. QED
  BY <1>2, <1>3 DEF EdgesInv

LEMMA InsertEdgeKeeps ==
    ASSUME TablesConstants, EdgesInv, NEW u \in Users,
           NEW move \in Moves, NEW from \in Texts, NEW to \in Texts,
           InsertEdge(u, move, from, to)
    PROVE  EdgesInv'
<1> DEFINE rec == EdgeRecord(move, from, to)
           R == Records(edges[u])
<1>1. rec \in AllEdges
  BY EdgeOfTexts DEF TablesConstants
<1>2. Consistent(R) /\ edges[u] = EdgesTable(R)
  BY DEF EdgesInv
<1>3. R \in SUBSET AllEdges
  BY <1>2 DEF Consistent
<1>4. CASE Clash(edges[u], rec)
  <2>1. edges' = edges
    BY <1>4 DEF InsertEdge
  <2>2. QED
    BY <2>1 DEF EdgesInv
<1>5. CASE ~ Clash(edges[u], rec)
  <2>1. edges' = [edges EXCEPT ![u] = WithEdge(edges[u], rec)]
    BY <1>5 DEF InsertEdge
  <2> HIDE DEF rec, R
  <2>2. \A old \in R : ~ Contradicts(old, rec)
    BY <1>1, <1>2, <1>3, <1>5, ClashIsContradiction
  <2>3. Consistent(R \cup {rec})
    <3>1. IsFiniteSet(R \cup {rec})
      BY <1>2, FS_AddElement DEF Consistent
    <3>2. QED
      BY <1>1, <1>2, <2>2, <3>1 DEF Consistent, Contradicts
  <2>4. edges' = [edges EXCEPT ![u] = EdgesTable(R \cup {rec})]
    BY <1>1, <1>2, <1>3, <2>1, EdgeAdded
  <2>5. QED
    BY <2>3, <2>4, EdgesReplaced
<1>6. QED
  BY <1>4, <1>5

LEMMA MergeEdgesKeeps ==
    ASSUME EdgesInv, NEW u \in Users, NEW w \in Users, MergeEdges(u, w)
    PROVE  EdgesInv'
<1> DEFINE R == Records(edges[u])
           S == Records(edges[w])
<1>1. /\ Consistent(R) /\ edges[u] = EdgesTable(R)
      /\ Consistent(S) /\ edges[w] = EdgesTable(S)
  BY DEF EdgesInv
<1>2. /\ Mergeable(edges[u], edges[w])
      /\ edges' = [edges EXCEPT ![u] = WithEdges(edges[u], edges[w])]
  BY DEF MergeEdges
<1> HIDE DEF R, S
<1>3. R \in SUBSET AllEdges /\ S \in SUBSET AllEdges /\ IsFiniteSet(R) /\ IsFiniteSet(S)
  BY <1>1 DEF Consistent
<1>4. \A a \in R, b \in S : ~ Contradicts(a, b)
  BY <1>1, <1>2, <1>3, MergeableIsConsistent
<1>5. Consistent(R \cup S)
  <2>1. IsFiniteSet(R \cup S)
    BY <1>3, FS_Union
  <2>2. QED
    BY <1>1, <1>3, <1>4, <2>1 DEF Consistent, Contradicts
<1>6. edges' = [edges EXCEPT ![u] = EdgesTable(R \cup S)]
  BY <1>1, <1>2, <1>3, EdgesMerged
<1>7. QED
  BY <1>5, <1>6, EdgesReplaced

LEMMA NextTables ==
    ASSUME TablesConstants, NodesInv, EdgesInv, [TablesNext]_tableVars
    PROVE  NodesInv' /\ EdgesInv'
<1>1. nodes' = nodes /\ met' = met => NodesInv'
  BY DEF NodesInv
<1>2. edges' = edges => EdgesInv'
  BY DEF EdgesInv
<1>3. ASSUME NEW u \in Users, NEW text \in Texts, InsertNode(u, text)
      PROVE  NodesInv' /\ EdgesInv'
  BY <1>2, <1>3, InsertNodeKeeps DEF InsertNode
<1>4. ASSUME NEW u \in Users, NEW move \in Moves, NEW from \in Texts, NEW to \in Texts,
             InsertEdge(u, move, from, to)
      PROVE  NodesInv' /\ EdgesInv'
  BY <1>1, <1>4, InsertEdgeKeeps DEF InsertEdge
<1>5. ASSUME NEW u \in Users, NEW w \in Users, MergeNodes(u, w)
      PROVE  NodesInv' /\ EdgesInv'
  BY <1>2, <1>5, MergeNodesKeeps DEF MergeNodes
<1>6. ASSUME NEW u \in Users, NEW w \in Users, MergeEdges(u, w)
      PROVE  NodesInv' /\ EdgesInv'
  BY <1>1, <1>6, MergeEdgesKeeps DEF MergeEdges
<1>7. CASE UNCHANGED tableVars
  BY <1>1, <1>2, <1>7 DEF tableVars
<1>8. QED
  BY <1>3, <1>4, <1>5, <1>6, <1>7 DEF TablesNext

\* Whatever digests collide, whoever inserts and merges what in whatever order: each
\* position met has one node, a move from a position leads to one position, two
\* tables merge into one and the same from either side, and a merge is refused only
\* for a contradiction (transposition_node.py, route_edge.py).
THEOREM TablesStayEqual == ASSUME TablesConstants PROVE TablesSpec => []TablesAgree
<1>1. ASSUME NodesInv, EdgesInv
      PROVE  TablesAgree
  <2>1. ASSUME NEW u \in Users
        PROVE  /\ met[u] \in SUBSET Identities /\ IsFiniteSet(met[u])
               /\ nodes[u] = NodesTable(met[u])
               /\ Records(edges[u]) \in SUBSET AllEdges /\ IsFiniteSet(Records(edges[u]))
               /\ edges[u] = EdgesTable(Records(edges[u]))
    BY <1>1 DEF NodesInv, EdgesInv, Consistent
  <2>2. OneNodeEach
    <3>1. ASSUME NEW u \in Users, NEW i \in Identities
          PROVE  Cardinality({rec \in Records(nodes[u]) : rec.snapshot.identity = i})
                    = IF i \in met[u] THEN 1 ELSE 0
      <4>1. Records(nodes[u]) = NodesOf(met[u])
        BY <2>1, RecordsFiled DEF NodesTable
      <4>2. {rec \in NodesOf(met[u]) : rec.snapshot.identity = i}
               = IF i \in met[u] THEN {NodeOf(i)} ELSE {}
        BY NodeFields DEF NodesOf
      <4>3. QED
        BY <4>1, <4>2, FS_Singleton, FS_EmptySet
    <3>2. QED
      BY <3>1 DEF OneNodeEach
  <2>3. MovesDeterministic
    BY <1>1 DEF EdgesInv, Consistent, Contradicts, MovesDeterministic
  <2>4. ASSUME NEW u \in Users, NEW w \in Users
        PROVE  /\ WithNodes(nodes[u], nodes[w]) = NodesTable(met[u] \cup met[w])
               /\ WithEdges(edges[u], edges[w])
                     = EdgesTable(Records(edges[u]) \cup Records(edges[w]))
               /\ Mergeable(edges[u], edges[w])
                     <=> \A a \in Records(edges[u]), b \in Records(edges[w]) :
                            ~ Contradicts(a, b)
    <3>1. WithNodes(nodes[u], nodes[w]) = NodesTable(met[u] \cup met[w])
      BY <2>1, NodesMerged
    <3>2. WithEdges(edges[u], edges[w])
             = EdgesTable(Records(edges[u]) \cup Records(edges[w]))
      BY <2>1, EdgesMerged
    <3>3. Mergeable(edges[u], edges[w])
             <=> \A a \in Records(edges[u]), b \in Records(edges[w]) : ~ Contradicts(a, b)
      BY <2>1, MergeableIsConsistent
    <3>4. QED
      BY <3>1, <3>2, <3>3
  <2>5. EitherWayAlike
    <3>1. ASSUME NEW u \in Users, NEW w \in Users
          PROVE  /\ WithNodes(nodes[u], nodes[w]) = WithNodes(nodes[w], nodes[u])
                 /\ Mergeable(edges[u], edges[w]) = Mergeable(edges[w], edges[u])
                 /\ WithEdges(edges[u], edges[w]) = WithEdges(edges[w], edges[u])
      <4>1. /\ met[u] \cup met[w] = met[w] \cup met[u]
            /\ Records(edges[u]) \cup Records(edges[w])
                  = Records(edges[w]) \cup Records(edges[u])
        OBVIOUS
      <4>2. /\ WithNodes(nodes[u], nodes[w]) = WithNodes(nodes[w], nodes[u])
            /\ WithEdges(edges[u], edges[w]) = WithEdges(edges[w], edges[u])
        BY <2>4, <4>1
      <4>3. Mergeable(edges[u], edges[w]) <=> Mergeable(edges[w], edges[u])
        <5>1. \A a, b : Contradicts(a, b) <=> Contradicts(b, a)
          BY DEF Contradicts
        <5>2. QED
          BY <2>4, <5>1
      <4>4. Mergeable(edges[u], edges[w]) \in BOOLEAN /\ Mergeable(edges[w], edges[u]) \in BOOLEAN
        BY DEF Mergeable
      <4>5. QED
        BY <4>2, <4>3, <4>4
    <3>2. QED
      BY <3>1 DEF EitherWayAlike
  <2>6. NothingRefusedUnduly
    <3>1. ASSUME NEW u \in Users, NEW w \in Users,
                 \A a \in Records(edges[u]), b \in Records(edges[w]) :
                    a.from = b.from /\ a.move = b.move => a.to = b.to
          PROVE  Mergeable(edges[u], edges[w])
      <4>1. \A a \in Records(edges[u]), b \in Records(edges[w]) : ~ Contradicts(a, b)
        BY <3>1 DEF Contradicts
      <4>2. QED
        BY <2>4, <4>1
    <3>2. QED
      BY <3>1 DEF NothingRefusedUnduly
  <2>7. QED
    BY <2>2, <2>3, <2>5, <2>6 DEF TablesAgree
<1>2. TablesSpec => [](NodesInv /\ EdgesInv)
  BY InitTables, NextTables, PTL DEF TablesSpec
<1>3. QED
  BY <1>1, <1>2, PTL
=============================================================================
