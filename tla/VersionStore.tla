---------------------------- MODULE VersionStore ----------------------------
(***************************************************************************)
(* The stores of graph versions (graph/version_store.py) of several users: *)
(* records are inserted into one store and stores are merged into others.  *)
(* A record's identifier is the address of its parents and graph digest;   *)
(* its time and label are not part of the address.                         *)
(***************************************************************************)
EXTENDS Integers, FiniteSets, FiniteSetTheorems, TLAPS

CONSTANTS
    Stores,         \* VersionStore instances
    Digests,        \* graph digests
    Times,          \* created_at, ordered as their texts are
    Labels,         \* labels
    Address(_, _),  \* version_id: the hash of parents and digest
    MaxInserts      \* bound of the model: inserts into the stores

StoreConstants == Times \subseteq Nat /\ MaxInserts \in Nat

VARIABLES
    records,  \* _records of each store: identifier -> record
    inserts   \* inserts made

storeVars == <<records, inserts>>

NoRecords == [v \in {} |-> 0]
Ids(store) == DOMAIN store
Roots(store) == {v \in Ids(store) : store[v].parents = {}}

\* make_record; the parents are a set, which the code keeps sorted.
Record(parents, digest, at, label) ==
    [id |-> Address(parents, digest), parents |-> parents, digest |-> digest,
     at |-> at, label |-> label]

Put(store, r) ==
    [v \in Ids(store) \union {r.id} |-> IF v = r.id THEN r ELSE store[v]]

BadInsertedKept(store, r) ==
    IF r.id \in Ids(store) THEN [ok |-> TRUE, store |-> store]
    ELSE IF r.parents = {} /\ Roots(store) # {} THEN [ok |-> FALSE, store |-> store]
    ELSE IF r.parents # {} /\ \E p \in r.parents :
                p \notin Ids(store) \/ r.at < store[p].at
    THEN [ok |-> FALSE, store |-> store]
    ELSE [ok |-> TRUE, store |-> Put(store, r)]

BadInsertedOver(store, r) ==
    IF r.parents = {} /\ Roots(store) \ {r.id} # {}
    THEN [ok |-> FALSE, store |-> store]
    ELSE IF r.parents # {} /\ \E p \in r.parents :
                p \notin Ids(store) \/ r.at < store[p].at
    THEN [ok |-> FALSE, store |-> store]
    ELSE [ok |-> TRUE, store |-> Put(store, r)]

\* insert: the record that is there, the record added, or a refusal
\* (conflicting_version, root_violation, unknown_parent, nonmonotonic_version).
Inserted(store, r) ==
    IF r.id \in Ids(store) THEN [ok |-> store[r.id] = r, store |-> store]
    ELSE IF r.parents = {} /\ Roots(store) # {} THEN [ok |-> FALSE, store |-> store]
    ELSE IF r.parents # {} /\ \E p \in r.parents :
                p \notin Ids(store) \/ r.at < store[p].at
    THEN [ok |-> FALSE, store |-> store]
    ELSE [ok |-> TRUE, store |-> Put(store, r)]

\* The order of the identifiers, any total one.
First(rs) == CHOOSE r \in rs : TRUE

\* merge: of the records of other that are still pending, one whose parents are
\* there goes in next; a refusal ends the merge.
Absorb(at, other) ==
    LET ready == {v \in at.pending : other[v].parents \subseteq Ids(at.store)}
        v == First(IF ready = {} THEN at.pending ELSE ready)
        next == Inserted(at.store, other[v])
    IN  IF at.ok
        THEN [ok |-> next.ok, store |-> next.store, pending |-> at.pending \ {v}]
        ELSE at

\* What is staged is committed as a whole or not at all.
Merged(store, other) ==
    LET at[n \in 0 .. Cardinality(Ids(other))] ==
          IF n = 0 THEN [ok |-> TRUE, store |-> store, pending |-> Ids(other)]
          ELSE Absorb(at[n - 1], other)
        end == at[Cardinality(Ids(other))]
    IN  [ok |-> end.ok, store |-> IF end.ok THEN end.store ELSE store]

StoreInit == records = [s \in Stores |-> NoRecords] /\ inserts = 0

Insert(s, r) ==
    /\ inserts < MaxInserts /\ inserts' = inserts + 1
    /\ records' = [records EXCEPT ![s] = Inserted(@, r).store]

Merge(s, t) ==
    /\ s # t
    /\ records' = [records EXCEPT ![s] = Merged(@, records[t]).store]
    /\ UNCHANGED inserts

StoreNext == \E s \in Stores :
    \/ \E digest \in Digests, at \in Times, label \in Labels :
        \/ Insert(s, Record({}, digest, at, label))
        \/ \E parents \in (SUBSET Ids(records[s])) \ {{}} :
              Insert(s, Record(parents, digest, at, label))
    \/ \E t \in Stores : Merge(s, t)

StoreSpec == StoreInit /\ [][StoreNext]_storeVars
-----------------------------------------------------------------------------
\* Every store holds one lineage: a single root, every parent present and not
\* younger than its child, so that no version is its own ancestor (insert and
\* merge).
OneLineage ==
    \A s \in Stores : LET store == records[s] IN
        /\ Cardinality(Roots(store)) = IF store = NoRecords THEN 0 ELSE 1
        /\ \A v \in Ids(store) :
            /\ store[v].id = v
            /\ \A p \in store[v].parents :
                  p \in Ids(store) /\ store[p].at <= store[v].at
        /\ \A group \in SUBSET Ids(store) : group # {} =>
              \E v \in group : store[v].parents \intersect group = {}

\* A version once stored is never changed or lost, whatever is inserted or
\* merged (conflicting_version fails closed).
NeverOverwritten ==
    [][\A s \in Stores : \A v \in Ids(records[s]) :
          v \in Ids(records'[s]) /\ records'[s][v] = records[s][v]]_storeVars

\* Merging is commutative and associative, refusals included: the stores that
\* a group of users ends with do not depend on who merges with whom first.
MergesAgree ==
    \A s, t, u \in Stores :
        LET st == Merged(records[s], records[t])
            ts == Merged(records[t], records[s])
            tu == Merged(records[t], records[u])
        IN  /\ st.ok = ts.ok
            /\ st.ok => st.store = ts.store
            /\ st.ok /\ tu.ok =>
                  LET left == Merged(st.store, records[u])
                      right == Merged(records[s], tu.store)
                  IN  left.ok = right.ok /\ (left.ok => left.store = right.store)

\* Whatever is inserted and in whatever order stores are merged, each is one
\* lineage from its root and they end alike.
VersionsAgree == OneLineage /\ MergesAgree

-----------------------------------------------------------------------------
\* The proofs.

\* What OneLineage says of one store, and what it needs.
Lineage(store) ==
    /\ store = [v \in Ids(store) |-> store[v]]
    /\ IsFiniteSet(Ids(store))
    /\ Ids(store) # {} => Roots(store) # {}
    /\ \A v, w \in Roots(store) : v = w
    /\ \A v \in Ids(store) :
          /\ store[v].id = v /\ store[v].at \in Nat
          /\ \A p \in store[v].parents : p \in Ids(store) /\ store[p].at <= store[v].at
    /\ \A group \in SUBSET Ids(store) : group # {} =>
          \E v \in group : store[v].parents \intersect group = {}

\* A record that is new to a store goes in.
Insertable(store, r) ==
    IF r.parents = {} THEN Roots(store) = {}
    ELSE \A p \in r.parents : p \in Ids(store) /\ ~ (r.at < store[p].at)

LEMMA InsertedIs ==
    ASSUME NEW store, NEW r
    PROVE  /\ Inserted(store, r).ok \in BOOLEAN
           /\ Inserted(store, r).ok <=>
                IF r.id \in Ids(store) THEN store[r.id] = r ELSE Insertable(store, r)
           /\ Inserted(store, r).store =
                IF r.id \notin Ids(store) /\ Insertable(store, r) THEN Put(store, r) ELSE store
<1> USE DEF Inserted, Insertable
<1>1. CASE r.id \in Ids(store)
  BY <1>1
<1>2. CASE r.id \notin Ids(store) /\ r.parents = {}
  BY <1>2
<1>3. CASE r.id \notin Ids(store) /\ r.parents # {}
  BY <1>3
<1>4. QED
  BY <1>1, <1>2, <1>3

\* A record that is put on top of its parents leaves one lineage behind.
LEMMA PutKeeps ==
    ASSUME NEW store, Lineage(store), NEW r, r.at \in Nat, r.id \notin Ids(store),
           Insertable(store, r)
    PROVE  /\ Lineage(Put(store, r))
           /\ Ids(Put(store, r)) = Ids(store) \union {r.id}
           /\ \A v \in Ids(store) : Put(store, r)[v] = store[v]
           /\ Put(store, r)[r.id] = r
<1> DEFINE grown == Put(store, r)
<1>1. /\ grown = [v \in Ids(grown) |-> grown[v]]
      /\ Ids(grown) = Ids(store) \union {r.id}
      /\ \A v \in Ids(store) : grown[v] = store[v]
      /\ grown[r.id] = r
  BY DEF Put, Ids
<1> HIDE DEF grown
<1>2. IsFiniteSet(Ids(grown))
  BY <1>1, FS_AddElement DEF Lineage
<1>3. \A p \in r.parents : p \in Ids(store) /\ store[p].at <= r.at
  BY DEF Insertable, Lineage
<1>4. Roots(grown) = IF r.parents = {} THEN Roots(store) \union {r.id} ELSE Roots(store)
  BY <1>1 DEF Roots
<1>5. (Ids(grown) # {} => Roots(grown) # {}) /\ \A v, w \in Roots(grown) : v = w
  <2>1. CASE r.parents = {}
    BY <1>4, <2>1 DEF Insertable
  <2>2. CASE r.parents # {}
    BY <1>3, <1>4, <2>2 DEF Lineage
  <2>3. QED
    BY <2>1, <2>2
<1>6. ASSUME NEW v \in Ids(grown)
      PROVE  /\ grown[v].id = v /\ grown[v].at \in Nat
             /\ \A p \in grown[v].parents : p \in Ids(grown) /\ grown[p].at <= grown[v].at
  <2>1. CASE v = r.id
    BY <1>1, <1>3, <2>1
  <2>2. CASE v \in Ids(store)
    <3>1. /\ store[v].id = v /\ store[v].at \in Nat
          /\ \A p \in store[v].parents : p \in Ids(store) /\ store[p].at <= store[v].at
      BY <2>2 DEF Lineage
    <3>2. QED
      BY <1>1, <2>2, <3>1
  <2>3. QED
    BY <1>1, <2>1, <2>2
<1>7. ASSUME NEW group \in SUBSET Ids(grown), group # {}
      PROVE  \E v \in group : grown[v].parents \intersect group = {}
  <2> DEFINE rest == group \ {r.id}
  <2>1. CASE rest = {}
    <3>1. group = {r.id}
      BY <1>7, <2>1
    <3>2. r.id \notin r.parents
      BY <1>3
    <3>3. QED
      BY <1>1, <3>1, <3>2
  <2>2. CASE rest # {}
    <3>1. rest \in SUBSET Ids(store)
      BY <1>1
    <3>2. PICK v \in rest : store[v].parents \intersect rest = {}
      <4> HIDE DEF rest
      <4>1. QED
        BY <2>2, <3>1 DEF Lineage
    <3>3. r.id \notin store[v].parents /\ v \in group /\ grown[v] = store[v]
      BY <1>1, <3>1, <3>2 DEF Lineage
    <3>4. store[v].parents \intersect group = {}
      BY <3>2, <3>3
    <3>5. QED
      BY <3>3, <3>4
  <2>3. QED
    BY <2>1, <2>2
<1>8. Lineage(grown)
  BY <1>1, <1>2, <1>5, <1>6, <1>7 DEF Lineage
<1>9. QED
  BY <1>1, <1>8 DEF grown

LEMMA InsertedKeeps ==
    ASSUME NEW store, Lineage(store), NEW r, r.at \in Nat
    PROVE  /\ Lineage(Inserted(store, r).store)
           /\ \A v \in Ids(store) :
                 /\ v \in Ids(Inserted(store, r).store)
                 /\ Inserted(store, r).store[v] = store[v]
<1>1. CASE r.id \notin Ids(store) /\ Insertable(store, r)
  BY <1>1, InsertedIs, PutKeeps
<1>2. CASE ~ (r.id \notin Ids(store) /\ Insertable(store, r))
  BY <1>2, InsertedIs
<1>3. QED
  BY <1>1, <1>2

-----------------------------------------------------------------------------
\* When stores merge: they agree on the versions they share and on the root.
Compatible(s, t) ==
    /\ \A v \in Ids(s) \intersect Ids(t) : s[v] = t[v]
    /\ \A v \in Roots(s), w \in Roots(t) : v = w

Union(s, t) ==
    [v \in Ids(s) \union Ids(t) |-> IF v \in Ids(s) THEN s[v] ELSE t[v]]

\* How far a merge has come: what is not pending any more is in the staged store.
Going(store, other, at) ==
    /\ at.pending \subseteq Ids(other)
    /\ Lineage(at.store)
    /\ Ids(at.store) = Ids(store) \union (Ids(other) \ at.pending)
    /\ \A v \in Ids(store) : at.store[v] = store[v]
    /\ \A v \in Ids(other) \ at.pending : at.store[v] = other[v]

\* Among the records that are pending there is one whose parents are not, for no
\* version is its own ancestor.
LEMMA SomeReady ==
    ASSUME NEW store, NEW other, NEW at, Lineage(other), Going(store, other, at),
           at.pending # {}
    PROVE  \E v \in at.pending : other[v].parents \subseteq Ids(at.store)
<1>1. at.pending \in SUBSET Ids(other)
  BY DEF Going
<1>2. PICK v \in at.pending : other[v].parents \intersect at.pending = {}
  BY <1>1 DEF Lineage
<1>3. other[v].parents \subseteq Ids(other)
  BY <1>1, <1>2 DEF Lineage
<1>4. QED
  BY <1>2, <1>3 DEF Going

\* A step of a merge takes a record in, or finds that the stores do not agree.
LEMMA AbsorbGoes ==
    ASSUME NEW store, NEW other, NEW at, Lineage(store), Lineage(other),
           Going(store, other, at), at.ok = TRUE, at.pending # {}
    PROVE  LET next == Absorb(at, other)
           IN  \/ /\ next.ok = TRUE /\ Going(store, other, next)
                  /\ \E v \in at.pending : next.pending = at.pending \ {v}
               \/ next.ok = FALSE /\ ~ Compatible(store, other)
<1> DEFINE ready == {v \in at.pending : other[v].parents \subseteq Ids(at.store)}
           u == First(IF ready = {} THEN at.pending ELSE ready)
           r == other[u]
           ins == Inserted(at.store, r)
<1>1. ready # {}
  BY SomeReady
<1>2. u \in ready
  BY <1>1 DEF First
<1> DEFINE next == Absorb(at, other)
<1>3. next.ok = ins.ok /\ next.store = ins.store /\ next.pending = at.pending \ {u}
  BY DEF Absorb
<1> HIDE DEF u, ready, ins, next
<1>4. /\ u \in at.pending /\ u \in Ids(other) /\ r.id = u /\ r.at \in Nat
      /\ r.parents \subseteq Ids(at.store)
      /\ \A p \in r.parents : p \in Ids(other) /\ other[p].at <= r.at
  BY <1>2 DEF ready, Going, Lineage
<1>5. Lineage(at.store) /\ Ids(at.store) = Ids(store) \union (Ids(other) \ at.pending)
      /\ (\A v \in Ids(store) : at.store[v] = store[v])
      /\ (\A v \in Ids(other) \ at.pending : at.store[v] = other[v])
      /\ at.pending \subseteq Ids(other)
  BY DEF Going
<1>6. CASE u \in Ids(at.store)
  <2>1. u \in Ids(store) /\ at.store[u] = store[u]
    BY <1>4, <1>5, <1>6
  <2>2. ins.store = at.store /\ ins.ok \in BOOLEAN /\ (ins.ok <=> store[u] = other[u])
    BY <1>4, <1>6, <2>1, InsertedIs DEF ins
  <2>3. CASE store[u] = other[u]
    <3>1. ins.ok = TRUE
      BY <2>2, <2>3
    <3>2. next.store = at.store /\ next.pending = at.pending \ {u}
      BY <1>3, <2>2
    <3>3. Going(store, other, next)
      BY <1>4, <1>5, <2>1, <2>3, <3>2 DEF Going
    <3>4. QED
      BY <1>3, <1>4, <3>1, <3>3 DEF next
  <2>4. CASE store[u] # other[u]
    <3>1. ins.ok = FALSE
      BY <2>2, <2>4
    <3>2. ~ Compatible(store, other)
      BY <1>4, <2>1, <2>4 DEF Compatible
    <3>3. QED
      BY <1>3, <3>1, <3>2 DEF next
  <2>5. QED
    BY <2>3, <2>4
<1>7. CASE u \notin Ids(at.store) /\ Insertable(at.store, r)
  <2>1. ins.ok \in BOOLEAN /\ ins.ok /\ ins.store = Put(at.store, r)
    BY <1>4, <1>7, InsertedIs DEF ins
  <2>2. /\ Lineage(ins.store) /\ Ids(ins.store) = Ids(at.store) \union {u}
        /\ \A v \in Ids(at.store) : ins.store[v] = at.store[v]
        /\ ins.store[u] = r
    BY <1>4, <1>5, <1>7, <2>1, PutKeeps
  <2>3. Going(store, other, next)
    BY <1>3, <1>4, <1>5, <2>2 DEF Going
  <2>4. ins.ok = TRUE
    BY <2>1
  <2>5. QED
    BY <1>3, <1>4, <2>3, <2>4 DEF next
<1>8. CASE u \notin Ids(at.store) /\ ~ Insertable(at.store, r)
  <2>1. ins.ok \in BOOLEAN /\ ~ ins.ok
    BY <1>4, <1>8, InsertedIs DEF ins
  <2>2. ASSUME Compatible(store, other) PROVE FALSE
    <3>1. \A p \in Ids(at.store) \intersect Ids(other) : at.store[p] = other[p]
      BY <1>5, <2>2 DEF Compatible
    <3>2. CASE r.parents = {}
      <4>1. PICK x \in Roots(at.store) : TRUE
        BY <1>8, <3>2 DEF Insertable
      <4>2. u \in Roots(other)
        BY <1>4, <3>2 DEF Roots
      <4>3. x \in Roots(store) \/ x \in Roots(other)
        BY <1>5, <4>1 DEF Roots
      <4>4. x = u
        BY <2>2, <4>2, <4>3 DEF Compatible, Lineage
      <4>5. QED
        BY <1>8, <4>1, <4>4 DEF Roots
    <3>3. CASE r.parents # {}
      <4>1. \A p \in r.parents : p \in Ids(at.store) /\ at.store[p] = other[p]
                                 /\ other[p].at \in Nat
        BY <1>4, <3>1 DEF Lineage
      <4>2. QED
        BY <1>4, <1>8, <3>3, <4>1 DEF Insertable
    <3>4. QED
      BY <3>2, <3>3
  <2>3. ins.ok = FALSE
    BY <2>1
  <2>4. QED
    BY <1>3, <2>2, <2>3 DEF next
<1>9. QED
  BY <1>6, <1>7, <1>8

-----------------------------------------------------------------------------
\* What a merge computes.  Every nonempty set of naturals has a least element;
\* what holds all along a merge is proved at a smallest counterexample.
LEMMA LeastNatural ==
    ASSUME NEW T \in SUBSET Nat, T # {}
    PROVE  \E m \in T : \A n \in T : m <= n
<1> DEFINE Below == {0 .. n : n \in T}
<1>1. \A n \in T : 0 .. n \in FiniteSubsetsOf(Nat)
  BY FS_Interval DEF FiniteSubsetsOf
<1>2. Below \subseteq FiniteSubsetsOf(Nat) /\ Below # {}
  BY <1>1
<1>3. IsWellFoundedOn(StrictSubsetOrdering(Nat), FiniteSubsetsOf(Nat))
  BY FS_StrictSubsetOrderingWellFounded
<1>4. PICK x \in Below : \A y \in Below : <<y, x>> \notin StrictSubsetOrdering(Nat)
  <2> HIDE DEF Below
  <2>1. QED
    BY <1>2, <1>3, WFMin
<1>5. PICK m \in T : x = 0 .. m
  BY <1>4
<1>6. ASSUME NEW n \in T, n < m
      PROVE  FALSE
  <2> DEFINE a == 0 .. n
             b == 0 .. m
  <2>1. a \in Below /\ a \subseteq b /\ a # b /\ a \in SUBSET Nat /\ b \in SUBSET Nat
    <3>1. m \notin 0 .. n /\ m \in 0 .. m
      BY <1>6
    <3>2. QED
      BY <1>6, <3>1
  <2> HIDE DEF a, b
  <2>2. <<a, b>> \in StrictSubsetOrdering(Nat)
    BY <2>1 DEF StrictSubsetOrdering
  <2>3. QED
    BY <1>4, <1>5, <2>1, <2>2 DEF b
<1>7. QED
  BY <1>6

Begin(store, other) == [ok |-> TRUE, store |-> store, pending |-> Ids(other)]

\* The first n steps of a merge.
Steps(store, other, n, at) ==
    /\ at = [m \in 0 .. n |-> at[m]]
    /\ at[0] = Begin(store, other)
    /\ \A m \in 1 .. n : at[m] = Absorb(at[m - 1], other)

LEMMA StepsExist ==
    ASSUME NEW store, NEW other, NEW N \in Nat
    PROVE  \E at : Steps(store, other, N, at)
<1> DEFINE Stuck == {n \in 0 .. N : ~ \E at : Steps(store, other, n, at)}
<1>1. SUFFICES ASSUME Stuck # {} PROVE FALSE
  OBVIOUS
<1>2. PICK n \in Stuck : \A m \in Stuck : n <= m
  <2>1. Stuck \in SUBSET Nat
    OBVIOUS
  <2> HIDE DEF Stuck
  <2>2. QED
    BY <1>1, <2>1, LeastNatural
<1>3. n \in 0 .. N /\ ~ \E at : Steps(store, other, n, at)
  BY <1>2
<1>4. n # 0
  <2>1. ASSUME n = 0
        PROVE  Steps(store, other, n, [m \in 0 .. 0 |-> Begin(store, other)])
    BY <2>1 DEF Steps
  <2>2. QED
    BY <1>3, <2>1
<1>5. n - 1 \in 0 .. N /\ n \in 1 .. N /\ ~ (n <= n - 1)
  BY <1>3, <1>4
<1>6. PICK at : Steps(store, other, n - 1, at)
  BY <1>2, <1>5
<1> DEFINE last == Absorb(at[n - 1], other)
           more == [m \in 0 .. n |-> IF m = n THEN last ELSE at[m]]
<1> HIDE DEF last
<1>7. more = [m \in 0 .. n |-> more[m]] /\ more[0] = Begin(store, other)
  BY <1>5, <1>6 DEF Steps
<1>8. ASSUME NEW m \in 1 .. n PROVE more[m] = Absorb(more[m - 1], other)
  <2>1. m - 1 \in 0 .. n /\ m - 1 # n /\ m \in 0 .. n
    BY <1>5
  <2>2. more[m - 1] = at[m - 1]
    BY <2>1
  <2>3. CASE m = n
    <3>1. more[m] = last
      BY <2>1, <2>3
    <3>2. QED
      BY <2>2, <2>3, <3>1 DEF last
  <2>4. CASE m # n
    <3>1. m \in 1 .. n - 1
      BY <1>5, <2>4
    <3>2. more[m] = at[m]
      BY <2>1, <2>4
    <3>3. QED
      BY <1>6, <2>2, <3>1, <3>2 DEF Steps
  <2>5. QED
    BY <2>3, <2>4
<1>9. Steps(store, other, n, more)
  <2> HIDE DEF more
  <2>1. QED
    BY <1>7, <1>8 DEF Steps
<1>10. QED
  BY <1>3, <1>9

LEMMA MergeSteps ==
    ASSUME NEW store, NEW other, Cardinality(Ids(other)) \in Nat
    PROVE  \E at : /\ Steps(store, other, Cardinality(Ids(other)), at)
                   /\ Merged(store, other) =
                        [ok |-> at[Cardinality(Ids(other))].ok,
                         store |-> IF at[Cardinality(Ids(other))].ok
                                   THEN at[Cardinality(Ids(other))].store ELSE store]
<1> DEFINE N == Cardinality(Ids(other))
           body(f) == [n \in 0 .. N |->
               IF n = 0 THEN [ok |-> TRUE, store |-> store, pending |-> Ids(other)]
               ELSE Absorb(f[n - 1], other)]
<1>1. PICK f : Steps(store, other, N, f)
  BY StepsExist
<1>2. f = body(f)
  <2>1. \A n \in 0 .. N : n = 0 \/ n \in 1 .. N
    OBVIOUS
  <2>2. \A n \in 0 .. N : f[n] = body(f)[n]
    BY <1>1, <2>1 DEF Steps, Begin
  <2>3. f = [n \in 0 .. N |-> f[n]]
    BY <1>1 DEF Steps
  <2>4. QED
    BY <2>2, <2>3
<1> DEFINE at == CHOOSE h : h = body(h)
<1>3. at = body(at)
  <2> HIDE DEF body
  <2>1. QED
    BY <1>2
<1>4. Merged(store, other) =
        [ok |-> at[N].ok, store |-> IF at[N].ok THEN at[N].store ELSE store]
  BY DEF Merged
<1> HIDE DEF at
<1>5. Steps(store, other, N, at)
  <2>1. \A n \in 1 .. N : n \in 0 .. N /\ n # 0
    OBVIOUS
  <2>2. DOMAIN body(at) = 0 .. N /\ body(at)[0] = Begin(store, other)
        /\ \A n \in 1 .. N : body(at)[n] = Absorb(at[n - 1], other)
    BY <2>1 DEF Begin
  <2>3. body(at) = [n \in 0 .. N |-> body(at)[n]]
    OBVIOUS
  <2> HIDE DEF body
  <2>4. QED
    BY <1>3, <2>2, <2>3 DEF Steps
<1>6. QED
  BY <1>4, <1>5

\* All along: the merge is under way, or it has found that the stores disagree.
LEMMA MergeGoes ==
    ASSUME NEW store, NEW other, Lineage(store), Lineage(other), NEW N \in Nat,
           N = Cardinality(Ids(other)), NEW at, Steps(store, other, N, at)
    PROVE  \A n \in 0 .. N :
              \/ /\ at[n].ok = TRUE /\ Going(store, other, at[n])
                 /\ Cardinality(at[n].pending) = N - n
              \/ at[n].ok = FALSE /\ ~ Compatible(store, other)
<1> DEFINE HoldsAt(n) ==
              \/ /\ at[n].ok = TRUE /\ Going(store, other, at[n])
                 /\ Cardinality(at[n].pending) = N - n
              \/ at[n].ok = FALSE /\ ~ Compatible(store, other)
           Wrong == {n \in 0 .. N : ~ HoldsAt(n)}
<1>1. SUFFICES ASSUME Wrong # {} PROVE FALSE
  OBVIOUS
<1>2. PICK n \in Wrong : \A m \in Wrong : n <= m
  <2>1. Wrong \in SUBSET Nat
    OBVIOUS
  <2> HIDE DEF Wrong
  <2>2. QED
    BY <1>1, <2>1, LeastNatural
<1>3. n \in 0 .. N /\ ~ HoldsAt(n)
  BY <1>2
<1>4. n # 0
  <2>1. at[0] = Begin(store, other)
    BY DEF Steps
  <2>2. at[0].ok = TRUE /\ at[0].store = store /\ at[0].pending = Ids(other)
    BY <2>1 DEF Begin
  <2>3. Going(store, other, at[0])
    BY <2>2 DEF Going
  <2>4. HoldsAt(0)
    BY <2>2, <2>3
  <2>5. QED
    BY <1>3, <2>4
<1>5. n - 1 \in 0 .. N /\ n \in 1 .. N /\ ~ (n <= n - 1)
  BY <1>3, <1>4
<1>6. HoldsAt(n - 1)
  <2> HIDE DEF HoldsAt
  <2>1. QED
    BY <1>2, <1>5
<1>7. at[n] = Absorb(at[n - 1], other)
  BY <1>5 DEF Steps
<1>8. CASE at[n - 1].ok = FALSE /\ ~ Compatible(store, other)
  <2>1. at[n] = at[n - 1]
    BY <1>7, <1>8 DEF Absorb
  <2>2. QED
    BY <1>3, <1>8, <2>1
<1>9. CASE at[n - 1].ok = TRUE /\ Going(store, other, at[n - 1])
           /\ Cardinality(at[n - 1].pending) = N - (n - 1)
  <2>1. at[n - 1].pending # {}
    <3>1. at[n - 1].pending = {} => Cardinality(at[n - 1].pending) = 0
      BY FS_EmptySet
    <3>2. Cardinality(at[n - 1].pending) # 0
      BY <1>5, <1>9
    <3>3. QED
      BY <3>1, <3>2
  <2>2. IsFiniteSet(at[n - 1].pending)
    BY <1>9, FS_Subset DEF Going, Lineage
  <2>3. \/ /\ at[n].ok = TRUE /\ Going(store, other, at[n])
           /\ \E v \in at[n - 1].pending : at[n].pending = at[n - 1].pending \ {v}
        \/ at[n].ok = FALSE /\ ~ Compatible(store, other)
    BY <1>7, <1>9, <2>1, AbsorbGoes
  <2>4. ASSUME NEW v \in at[n - 1].pending, at[n].pending = at[n - 1].pending \ {v}
        PROVE  Cardinality(at[n].pending) = N - n
    <3>1. Cardinality(at[n].pending) = Cardinality(at[n - 1].pending) - 1
      <4>1. Cardinality(at[n - 1].pending \ {v}) = Cardinality(at[n - 1].pending) - 1
        BY <2>2, FS_RemoveElement
      <4>2. QED
        BY ONLY <2>4, <4>1
    <3>2. QED
      BY <1>5, <1>9, <3>1
  <2>5. QED
    BY <1>3, <2>3, <2>4
<1>10. QED
  BY <1>6, <1>8, <1>9

\* A merge succeeds exactly if the stores agree, and then it is their union.
LEMMA MergedIs ==
    ASSUME NEW s, NEW t, Lineage(s), Lineage(t)
    PROVE  /\ Merged(s, t).ok \in BOOLEAN
           /\ Merged(s, t).ok <=> Compatible(s, t)
           /\ Merged(s, t).store = IF Compatible(s, t) THEN Union(s, t) ELSE s
           /\ Lineage(Merged(s, t).store)
<1> DEFINE N == Cardinality(Ids(t))
<1>1. N \in Nat
  BY FS_CardinalityType DEF Lineage
<1>2. PICK at : /\ Steps(s, t, N, at)
                /\ Merged(s, t) = [ok |-> at[N].ok, store |-> IF at[N].ok THEN at[N].store ELSE s]
  BY <1>1, MergeSteps
<1>3. \/ /\ at[N].ok = TRUE /\ Going(s, t, at[N]) /\ Cardinality(at[N].pending) = N - N
      \/ at[N].ok = FALSE /\ ~ Compatible(s, t)
  <2>1. \A n \in 0 .. N :
              \/ /\ at[n].ok = TRUE /\ Going(s, t, at[n]) /\ Cardinality(at[n].pending) = N - n
              \/ at[n].ok = FALSE /\ ~ Compatible(s, t)
    <3> HIDE DEF N
    <3>1. N = Cardinality(Ids(t))
      BY DEF N
    <3>2. QED
      BY <1>1, <1>2, <3>1, MergeGoes
  <2>2. N \in 0 .. N
    BY <1>1
  <2> HIDE DEF N
  <2>3. QED
    BY <2>1, <2>2
<1>4. Merged(s, t).ok = at[N].ok /\ Merged(s, t).store = IF at[N].ok THEN at[N].store ELSE s
  BY <1>2
<1> DEFINE end == at[N]
<1> HIDE DEF end, N
<1>5. CASE end.ok = FALSE /\ ~ Compatible(s, t)
  BY <1>4, <1>5 DEF end
<1>6. CASE end.ok = TRUE /\ Going(s, t, end) /\ Cardinality(end.pending) = N - N
  <2>1. end.pending = {}
    <3>1. IsFiniteSet(end.pending)
      BY <1>6, FS_Subset DEF Going, Lineage
    <3>2. Cardinality(end.pending) = 0
      BY <1>1, <1>6
    <3>3. QED
      BY <3>1, <3>2, FS_EmptySet
  <2>2. /\ Lineage(end.store)
        /\ Ids(end.store) = Ids(s) \union Ids(t)
        /\ \A v \in Ids(s) : end.store[v] = s[v]
        /\ \A v \in Ids(t) : end.store[v] = t[v]
    BY <1>6, <2>1 DEF Going
  <2>3. end.store = Union(s, t)
    <3>1. \A v \in Ids(s) \union Ids(t) : end.store[v] = IF v \in Ids(s) THEN s[v] ELSE t[v]
      BY <2>2
    <3>2. end.store = [v \in Ids(s) \union Ids(t) |-> end.store[v]]
      BY <2>2 DEF Lineage
    <3>3. QED
      BY <3>1, <3>2 DEF Union
  <2>4. Compatible(s, t)
    <3>1. \A v \in Ids(s) \intersect Ids(t) : s[v] = t[v]
      BY ONLY <2>2
    <3>2. Roots(s) \subseteq Roots(end.store) /\ Roots(t) \subseteq Roots(end.store)
      BY <2>2 DEF Roots
    <3>3. QED
      BY <2>2, <3>1, <3>2 DEF Compatible, Lineage
  <2>5. Merged(s, t).ok = TRUE /\ Merged(s, t).store = end.store
    BY <1>4, <1>6 DEF end
  <2>6. QED
    BY <2>2, <2>3, <2>4, <2>5
<1>7. QED
  BY <1>3, <1>5, <1>6 DEF end

-----------------------------------------------------------------------------
\* The algebra of unions.
LEMMA UnionIs ==
    ASSUME NEW a, NEW b, Compatible(a, b)
    PROVE  /\ Ids(Union(a, b)) = Ids(a) \union Ids(b)
           /\ \A v \in Ids(a) : Union(a, b)[v] = a[v]
           /\ \A v \in Ids(b) : Union(a, b)[v] = b[v]
           /\ Roots(Union(a, b)) = Roots(a) \union Roots(b)
           /\ Compatible(b, a) /\ Union(a, b) = Union(b, a)
<1>1. Ids(Union(a, b)) = Ids(a) \union Ids(b)
  BY DEF Union, Ids
<1>2. \A v \in Ids(a) : Union(a, b)[v] = a[v]
  BY DEF Union
<1>3. \A v \in Ids(b) : Union(a, b)[v] = b[v]
  BY DEF Union, Compatible
<1>4. Roots(Union(a, b)) = Roots(a) \union Roots(b)
  BY <1>1, <1>2, <1>3 DEF Roots
<1>5. Compatible(b, a)
  BY DEF Compatible
<1>6. Union(a, b) = Union(b, a)
  <2>1. \A v \in Ids(a) \union Ids(b) :
           (IF v \in Ids(a) THEN a[v] ELSE b[v]) = (IF v \in Ids(b) THEN b[v] ELSE a[v])
    BY DEF Compatible
  <2>2. QED
    BY <2>1 DEF Union
<1>7. QED
  BY <1>1, <1>2, <1>3, <1>4, <1>5, <1>6

LEMMA UnionsAgree ==
    ASSUME NEW a, NEW b, NEW c, Compatible(a, b), Compatible(b, c)
    PROVE  /\ Compatible(Union(a, b), c) <=> Compatible(a, c)
           /\ Compatible(a, Union(b, c)) <=> Compatible(a, c)
           /\ Compatible(a, c) => Union(Union(a, b), c) = Union(a, Union(b, c))
<1>1. Compatible(Union(a, b), c) <=> Compatible(a, c)
  BY UnionIs DEF Compatible
<1>2. Compatible(a, Union(b, c)) <=> Compatible(a, c)
  BY UnionIs DEF Compatible
<1>3. ASSUME Compatible(a, c)
      PROVE  Union(Union(a, b), c) = Union(a, Union(b, c))
  <2>1. Ids(Union(a, b)) = Ids(a) \union Ids(b) /\ Ids(Union(b, c)) = Ids(b) \union Ids(c)
    BY UnionIs
  <2>2. \A v \in Ids(a) \union Ids(b) \union Ids(c) :
           (IF v \in Ids(a) \union Ids(b) THEN Union(a, b)[v] ELSE c[v])
             = (IF v \in Ids(a) THEN a[v] ELSE Union(b, c)[v])
    BY UnionIs
  <2>3. Union(Union(a, b), c) =
          [v \in Ids(a) \union Ids(b) \union Ids(c) |->
             IF v \in Ids(a) \union Ids(b) THEN Union(a, b)[v] ELSE c[v]]
    BY <2>1 DEF Union
  <2>4. Union(a, Union(b, c)) =
          [v \in Ids(a) \union (Ids(b) \union Ids(c)) |->
             IF v \in Ids(a) THEN a[v] ELSE Union(b, c)[v]]
    BY <2>1 DEF Union
  <2>5. Ids(a) \union (Ids(b) \union Ids(c)) = Ids(a) \union Ids(b) \union Ids(c)
    OBVIOUS
  <2>6. QED
    BY <2>2, <2>3, <2>4, <2>5
<1>4. QED
  BY <1>1, <1>2, <1>3

-----------------------------------------------------------------------------
\* Every store holds one lineage.
StoreInv ==
    /\ records = [s \in Stores |-> records[s]]
    /\ \A s \in Stores : Lineage(records[s])

LEMMA InitStoreInv == StoreInit => StoreInv
<1>1. Lineage(NoRecords)
  BY FS_EmptySet DEF NoRecords, Lineage, Ids, Roots
<1>2. QED
  BY <1>1 DEF StoreInit, StoreInv

\* What a step makes of a store is again a lineage and holds all that it held.
Grown(old, now) ==
    Lineage(now) /\ \A v \in Ids(old) : v \in Ids(now) /\ now[v] = old[v]

LEMMA InsertGrows ==
    ASSUME StoreInv, NEW s \in Stores, NEW r, r.at \in Nat, Insert(s, r)
    PROVE  /\ records' = [records EXCEPT ![s] = records'[s]]
           /\ Grown(records[s], records'[s])
<1>1. records' = [records EXCEPT ![s] = Inserted(records[s], r).store]
  BY DEF Insert
<1>2. records'[s] = Inserted(records[s], r).store
  BY <1>1 DEF StoreInv
<1>3. QED
  BY <1>1, <1>2, InsertedKeeps DEF StoreInv, Grown

LEMMA MergeGrows ==
    ASSUME StoreInv, NEW s \in Stores, NEW t \in Stores, Merge(s, t)
    PROVE  /\ records' = [records EXCEPT ![s] = records'[s]]
           /\ Grown(records[s], records'[s])
<1>1. records' = [records EXCEPT ![s] = Merged(records[s], records[t]).store]
  BY DEF Merge
<1>2. records'[s] = Merged(records[s], records[t]).store
  BY <1>1 DEF StoreInv
<1>3. Lineage(records[s]) /\ Lineage(records[t])
  BY DEF StoreInv
<1>4. Grown(records[s], records'[s])
  BY <1>2, <1>3, MergedIs, UnionIs DEF Grown
<1>5. QED
  BY <1>1, <1>2, <1>4

LEMMA StoresGrow ==
    ASSUME StoreConstants, StoreInv, [StoreNext]_storeVars
    PROVE  \/ records' = records
           \/ \E s \in Stores : /\ records' = [records EXCEPT ![s] = records'[s]]
                                /\ Grown(records[s], records'[s])
<1>1. ASSUME NEW s \in Stores, NEW digest \in Digests, NEW at \in Times, NEW label \in Labels,
             NEW parents, Insert(s, Record(parents, digest, at, label))
      PROVE  /\ records' = [records EXCEPT ![s] = records'[s]]
             /\ Grown(records[s], records'[s])
  <2>1. Record(parents, digest, at, label).at \in Nat
    BY DEF StoreConstants, Record
  <2>2. QED
    BY <1>1, <2>1, InsertGrows
<1>2. QED
  BY <1>1, MergeGrows DEF StoreNext, storeVars

LEMMA NextStoreInv ==
    ASSUME StoreConstants, StoreInv, [StoreNext]_storeVars
    PROVE  /\ StoreInv'
           /\ \A s \in Stores : \A v \in Ids(records[s]) :
                 v \in Ids(records'[s]) /\ records'[s][v] = records[s][v]
<1>1. CASE records' = records
  BY <1>1 DEF StoreInv
<1>2. ASSUME NEW s \in Stores, records' = [records EXCEPT ![s] = records'[s]],
             Grown(records[s], records'[s])
      PROVE  /\ StoreInv'
             /\ \A t \in Stores : \A v \in Ids(records[t]) :
                   v \in Ids(records'[t]) /\ records'[t][v] = records[t][v]
  <2>1. \A t \in Stores : t = s \/ records'[t] = records[t]
    BY <1>2 DEF StoreInv
  <2>2. records' = [t \in Stores |-> records'[t]]
    BY <1>2 DEF StoreInv
  <2>3. \A t \in Stores : Lineage(records'[t])
    BY <1>2, <2>1 DEF Grown, StoreInv
  <2>4. QED
    BY <1>2, <2>1, <2>2, <2>3 DEF Grown, StoreInv
<1>3. QED
  BY <1>1, <1>2, StoresGrow

LEMMA MergeLaws ==
    ASSUME NEW a, NEW b, NEW c, Lineage(a), Lineage(b), Lineage(c)
    PROVE  /\ Merged(a, b).ok = Merged(b, a).ok
           /\ Merged(a, b).ok => Merged(a, b).store = Merged(b, a).store
           /\ Merged(a, b).ok /\ Merged(b, c).ok =>
                 /\ Merged(Merged(a, b).store, c).ok = Merged(a, Merged(b, c).store).ok
                 /\ Merged(Merged(a, b).store, c).ok =>
                      Merged(Merged(a, b).store, c).store = Merged(a, Merged(b, c).store).store
<1>1. Compatible(a, b) <=> Compatible(b, a)
  BY UnionIs
<1>2. /\ Merged(a, b).ok \in BOOLEAN /\ Merged(b, a).ok \in BOOLEAN
      /\ (Merged(a, b).ok <=> Compatible(a, b)) /\ (Merged(b, a).ok <=> Compatible(b, a))
  BY MergedIs
<1>3. Merged(a, b).ok = Merged(b, a).ok
  BY <1>1, <1>2
<1>4. ASSUME Merged(a, b).ok PROVE Merged(a, b).store = Merged(b, a).store
  <2>1. Compatible(a, b) /\ Compatible(b, a)
    BY <1>1, <1>2, <1>4
  <2>2. Merged(a, b).store = Union(a, b) /\ Merged(b, a).store = Union(b, a)
    BY <2>1, MergedIs
  <2>3. QED
    BY <2>1, <2>2, UnionIs
<1>5. ASSUME Merged(a, b).ok, Merged(b, c).ok
      PROVE  /\ Merged(Merged(a, b).store, c).ok = Merged(a, Merged(b, c).store).ok
             /\ Merged(Merged(a, b).store, c).ok =>
                  Merged(Merged(a, b).store, c).store = Merged(a, Merged(b, c).store).store
  <2>1. Compatible(a, b) /\ Compatible(b, c)
    BY <1>5, MergedIs
  <2> DEFINE ab == Union(a, b)
             bc == Union(b, c)
  <2>2. Merged(a, b).store = ab /\ Merged(b, c).store = bc /\ Lineage(ab) /\ Lineage(bc)
    BY <2>1, MergedIs
  <2>3. (Compatible(ab, c) <=> Compatible(a, c)) /\ (Compatible(a, bc) <=> Compatible(a, c))
        /\ (Compatible(a, c) => Union(ab, c) = Union(a, bc))
    BY <2>1, UnionsAgree
  <2> HIDE DEF ab, bc
  <2>4. /\ Merged(ab, c).ok \in BOOLEAN /\ Merged(a, bc).ok \in BOOLEAN
        /\ (Merged(ab, c).ok <=> Compatible(ab, c)) /\ (Merged(a, bc).ok <=> Compatible(a, bc))
        /\ (Compatible(ab, c) => Merged(ab, c).store = Union(ab, c))
        /\ (Compatible(a, bc) => Merged(a, bc).store = Union(a, bc))
    BY <2>2, MergedIs
  <2>5. Merged(ab, c).ok = Merged(a, bc).ok
    BY <2>3, <2>4
  <2>6. Merged(ab, c).ok => Merged(ab, c).store = Merged(a, bc).store
    BY <2>3, <2>4
  <2>7. QED
    BY <2>2, <2>5, <2>6
<1>6. QED
  BY <1>3, <1>4, <1>5

\* However addresses collide, every store is one lineage from one root, and users
\* who merge their stores in different orders end with the same one or are refused
\* alike.
THEOREM StoresConverge ==
    ASSUME StoreConstants PROVE StoreSpec => []VersionsAgree
<1>1. StoreInv => OneLineage
  <2> SUFFICES ASSUME StoreInv, NEW s \in Stores
               PROVE  LET store == records[s] IN
                      /\ Cardinality(Roots(store)) = IF store = NoRecords THEN 0 ELSE 1
                      /\ \A v \in Ids(store) :
                          /\ store[v].id = v
                          /\ \A p \in store[v].parents :
                                p \in Ids(store) /\ store[p].at <= store[v].at
                      /\ \A group \in SUBSET Ids(store) : group # {} =>
                            \E v \in group : store[v].parents \intersect group = {}
    BY DEF OneLineage
  <2> DEFINE store == records[s]
  <2>1. Lineage(store)
    BY DEF StoreInv
  <2> HIDE DEF store
  <2>2. Cardinality(Roots(store)) = IF store = NoRecords THEN 0 ELSE 1
    <3>1. CASE store = NoRecords
      <4>1. Roots(store) = {}
        BY <3>1 DEF NoRecords, Roots, Ids
      <4>2. QED
        BY <3>1, <4>1, FS_EmptySet
    <3>2. CASE store # NoRecords
      <4>1. Ids(store) # {}
        BY <2>1, <3>2 DEF NoRecords, Lineage
      <4>2. PICK v : v \in Roots(store)
        BY <2>1, <4>1 DEF Lineage
      <4>3. Roots(store) = {v}
        BY <2>1, <4>2 DEF Lineage
      <4>4. QED
        BY <3>2, <4>3, FS_Singleton
    <3>3. QED
      BY <3>1, <3>2
  <2>3. QED
    BY <2>1, <2>2 DEF store, Lineage
<1>2. StoreInv => MergesAgree
  BY MergeLaws DEF StoreInv, MergesAgree
<1>3. StoreInv /\ [StoreNext]_storeVars => StoreInv'
  BY NextStoreInv
<1>4. QED
  BY <1>1, <1>2, <1>3, InitStoreInv, PTL DEF StoreSpec, VersionsAgree

\* No insert and no merge changes or drops a version that a store has.
THEOREM VersionsStay == ASSUME StoreConstants PROVE StoreSpec => NeverOverwritten
<1>1. StoreInv /\ [StoreNext]_storeVars =>
         StoreInv' /\ [\A s \in Stores : \A v \in Ids(records[s]) :
                         v \in Ids(records'[s]) /\ records'[s][v] = records[s][v]]_storeVars
  BY NextStoreInv
<1>2. QED
  BY <1>1, InitStoreInv, PTL DEF StoreSpec, NeverOverwritten

=============================================================================
