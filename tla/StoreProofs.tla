------------------------------ MODULE StoreProofs ------------------------------
(***************************************************************************)
(* Proofs about StoreLog for every set of records, every length of the log *)
(* and every set of faults, about StoreIdempotency for every set of keys,  *)
(* StoreSnapshots for every number of copies and any liar, StoreMigration  *)
(* for every registry of schemas, and Tracers for every number of calls.   *)
(*                                                                         *)
(* An entry is sound if it rederives after the entry in front of it; a     *)
(* prefix replays if all its entries are sound, and every step of the log  *)
(* is known by what it does to the soundness of single entries.  In a log  *)
(* that replays an entry's id spells all operations up to that entry,      *)
(* which is why a receipt that names an id names a whole history.          *)
(***************************************************************************)
EXTENDS StoreIdempotency, StoreSnapshots, StoreMigration, Tracers,
        FiniteSetTheorems, SequenceTheorems, TLAPS

Links == {"put", "delete"} \X (Records \cup {OtherText})
Chains == Seq(Links)
Entries == [op : Ops \cup Wreckage, id : Chains, prior : Chains]

\* Every nonempty set of naturals has a least element: what the searches below
\* are proved by, as a smallest counterexample.
LEMMA LeastNatural ==
    ASSUME NEW T \in SUBSET Nat, T # {}
    PROVE  \E m \in T : \A n \in T : m <= n
<1> DEFINE Below == {0 .. n : n \in T}
<1>1. \A n \in T : 0 .. n \in FiniteSubsetsOf(Nat)
  BY FS_Interval DEF FiniteSubsetsOf
<1>2. Below \subseteq FiniteSubsetsOf(Nat) /\ Below # {}
  BY <1>1
<1>3. IsWellFoundedOn(StrictSubsetOrdering(Nat), FiniteSubsetsOf(Nat))
  BY FS_StrictSubsetOrderingWellFounded
<1>4. PICK x \in Below : \A y \in Below : <<y, x>> \notin StrictSubsetOrdering(Nat)
  <2> HIDE DEF Below
  <2>1. QED
    BY <1>2, <1>3, WFMin
<1>5. PICK m \in T : x = 0 .. m
  BY <1>4
<1>6. ASSUME NEW n \in T, n < m
      PROVE  FALSE
  <2> DEFINE a == 0 .. n
             b == 0 .. m
  <2>1. a \in Below /\ a \subseteq b /\ a # b /\ a \in SUBSET Nat /\ b \in SUBSET Nat
    <3>1. m \notin 0 .. n /\ m \in 0 .. m
      BY <1>6
    <3>2. QED
      BY <1>6, <3>1
  <2> HIDE DEF a, b
  <2>2. <<a, b>> \in StrictSubsetOrdering(Nat)
    BY <2>1 DEF StrictSubsetOrdering
  <2>3. QED
    BY <1>4, <1>5, <2>1, <2>2 DEF b
<1>7. QED
  BY <1>6

-----------------------------------------------------------------------------
\* Prefixes.

LEMMA CutProperties ==
    ASSUME NEW l \in Seq(Entries), NEW n \in 0 .. Len(l)
    PROVE  /\ Cut(l, n) \in Seq(Entries)
           /\ Len(Cut(l, n)) = n
           /\ \A i \in 1 .. n : Cut(l, n)[i] = l[i]
<1>1. \A i \in 1 .. n : l[i] \in Entries
  BY ElementOfSeq
<1>2. QED
  BY <1>1 DEF Cut

LEMMA CutOfCut ==
    ASSUME NEW l \in Seq(Entries), NEW n \in 0 .. Len(l), NEW m \in 0 .. n
    PROVE  Cut(Cut(l, n), m) = Cut(l, m)
<1>1. /\ Cut(l, n) \in Seq(Entries) /\ Len(Cut(l, n)) = n
      /\ \A i \in 1 .. n : Cut(l, n)[i] = l[i]
  BY CutProperties
<1>2. /\ Cut(Cut(l, n), m) \in Seq(Entries) /\ Len(Cut(Cut(l, n), m)) = m
      /\ \A i \in 1 .. m : Cut(Cut(l, n), m)[i] = l[i]
  <2>1. m \in 0 .. Len(Cut(l, n))
    BY <1>1
  <2>2. QED
    BY <1>1, <2>1, CutProperties
<1>3. /\ Cut(l, m) \in Seq(Entries) /\ Len(Cut(l, m)) = m
      /\ \A i \in 1 .. m : Cut(l, m)[i] = l[i]
  <2>1. m \in 0 .. Len(l)
    OBVIOUS
  <2>2. QED
    BY <2>1, CutProperties
<1>4. QED
  BY <1>2, <1>3, SeqEqual

LEMMA CutWhole ==
    ASSUME NEW l \in Seq(Entries)
    PROVE  Cut(l, Len(l)) = l
BY SubSeqFull DEF Cut

LEMMA TipProperties ==
    ASSUME NEW l \in Seq(Entries)
    PROVE  Tip(l) = IF Len(l) = 0 THEN Genesis ELSE l[Len(l)].id
BY EmptySeq DEF Tip, Last

\* The entry at place i rederives after the one in front of it.
Sound(l, i) ==
    Rederives(l[i], l[i].op.rec, IF i = 1 THEN Genesis ELSE l[i - 1].id)

LEMMA PrefixReplays ==
    ASSUME NEW l \in Seq(Entries), NEW n \in 0 .. Len(l)
    PROVE  Replays(Cut(l, n)) <=> \A i \in 1 .. n : Sound(l, i)
<1> DEFINE c == Cut(l, n)
<1>1. /\ c \in Seq(Entries)
      /\ Len(c) = n
      /\ \A i \in 1 .. n : c[i] = l[i]
  BY CutProperties
<1>2. DOMAIN c = 1 .. n
  BY <1>1
<1>3. ASSUME NEW i \in 1 .. n
      PROVE  Tip(Cut(c, i - 1)) = IF i = 1 THEN Genesis ELSE l[i - 1].id
  <2>1. i - 1 \in 0 .. n /\ i - 1 \in 0 .. Len(l)
    OBVIOUS
  <2>2. /\ Cut(l, i - 1) \in Seq(Entries)
        /\ Len(Cut(l, i - 1)) = i - 1
        /\ \A j \in 1 .. i - 1 : Cut(l, i - 1)[j] = l[j]
    BY <2>1, CutProperties
  <2>3. Cut(c, i - 1) = Cut(l, i - 1)
    BY <2>1, CutOfCut
  <2>4. QED
    BY <2>2, <2>3, TipProperties
<1>4. \A i \in 1 .. n : Rederives(c[i], c[i].op.rec, Tip(Cut(c, i - 1))) <=> Sound(l, i)
  BY <1>1, <1>3 DEF Sound
<1> HIDE DEF c
<1>5. Replays(c) <=> \A i \in 1 .. n : Sound(l, i)
  BY <1>2, <1>4 DEF Replays
<1>6. QED
  BY <1>5 DEF c

LEMMA WholeReplays ==
    ASSUME NEW l \in Seq(Entries)
    PROVE  Replays(l) <=> \A i \in 1 .. Len(l) : Sound(l, i)
<1>1. Len(l) \in 0 .. Len(l)
  OBVIOUS
<1>2. QED
  BY <1>1, PrefixReplays, CutWhole

-----------------------------------------------------------------------------
\* The two searches.

\* The valid prefix ends in front of the first entry that is not sound.
LEMMA ValidFound ==
    ASSUME NEW l \in Seq(Entries)
    PROVE  /\ ValidLength(l) \in 0 .. Len(l)
           /\ \A n \in 0 .. Len(l) : Replays(Cut(l, n)) <=> n <= ValidLength(l)
<1> DEFINE Fit(k) == /\ Replays(Cut(l, k))
                     /\ \A n \in k + 1 .. Len(l) : ~ Replays(Cut(l, n))
           Odds == {i \in 1 .. Len(l) : ~ Sound(l, i)}
<1>1. \E k \in 0 .. Len(l) : Fit(k)
  <2>1. CASE Odds = {}
    <3>1. Replays(Cut(l, Len(l)))
      BY <2>1, WholeReplays, CutWhole
    <3>2. \A n \in Len(l) + 1 .. Len(l) : FALSE
      OBVIOUS
    <3>3. QED
      BY <3>1, <3>2
  <2>2. CASE Odds # {}
    <3>1. Odds \in SUBSET Nat
      OBVIOUS
    <3>2. PICK m \in Odds : \A n \in Odds : m <= n
      <4> HIDE DEF Odds
      <4>1. QED
        BY <2>2, <3>1, LeastNatural
    <3>3. m - 1 \in 0 .. Len(l) /\ ~ Sound(l, m) /\ m \in 1 .. Len(l)
      BY <3>2
    <3>4. \A i \in 1 .. m - 1 : Sound(l, i)
      BY <3>2, <3>3
    <3>5. Replays(Cut(l, m - 1))
      BY <3>3, <3>4, PrefixReplays
    <3>6. ASSUME NEW n \in (m - 1) + 1 .. Len(l)
          PROVE  ~ Replays(Cut(l, n))
      <4>1. n \in 0 .. Len(l) /\ m \in 1 .. n
        BY <3>3
      <4>2. QED
        BY <3>3, <4>1, PrefixReplays
    <3>7. QED
      BY <3>3, <3>5, <3>6
  <2>3. QED
    BY <2>1, <2>2
<1>2. ValidLength(l) \in 0 .. Len(l) /\ Fit(ValidLength(l))
  <2>1. ValidLength(l) = CHOOSE k \in 0 .. Len(l) : Fit(k)
    BY DEF ValidLength
  <2> HIDE DEF Fit
  <2>2. QED
    BY <1>1, <2>1
<1> DEFINE v == ValidLength(l)
<1>3. \A i \in 1 .. v : Sound(l, i)
  BY <1>2, PrefixReplays
<1>4. ASSUME NEW n \in 0 .. Len(l)
      PROVE  Replays(Cut(l, n)) <=> n <= v
  <2>1. CASE n <= v
    <3>1. \A i \in 1 .. n : Sound(l, i)
      BY <1>2, <1>3, <2>1
    <3>2. QED
      BY <2>1, <3>1, PrefixReplays
  <2>2. CASE ~ (n <= v)
    <3>1. n \in v + 1 .. Len(l)
      BY <1>2, <2>2
    <3>2. QED
      BY <1>2, <2>2, <3>1
  <2>3. QED
    BY <2>1, <2>2
<1>5. QED
  BY <1>2, <1>4

LEMMA ValidSound ==
    ASSUME NEW l \in Seq(Entries)
    PROVE  /\ \A i \in 1 .. ValidLength(l) : Sound(l, i)
           /\ ValidLength(l) < Len(l) => ~ Sound(l, ValidLength(l) + 1)
<1> DEFINE v == ValidLength(l)
<1>1. v \in 0 .. Len(l) /\ \A n \in 0 .. Len(l) : Replays(Cut(l, n)) <=> n <= v
  BY ValidFound
<1> HIDE DEF v
<1>2. \A i \in 1 .. v : Sound(l, i)
  BY <1>1, PrefixReplays
<1>3. ASSUME v < Len(l), Sound(l, v + 1)
      PROVE  FALSE
  <2>1. v + 1 \in 0 .. Len(l) /\ ~ (v + 1 <= v)
    BY <1>1, <1>3
  <2>2. \A i \in 1 .. v + 1 : i \in 1 .. v \/ i = v + 1
    BY <1>1
  <2>3. Replays(Cut(l, v + 1))
    BY <1>2, <1>3, <2>1, <2>2, PrefixReplays
  <2>4. QED
    BY <1>1, <2>1, <2>3
<1>4. QED
  BY <1>2, <1>3 DEF v

\* The valid length is known by the soundness of single entries.
LEMMA ValidIs ==
    ASSUME NEW l \in Seq(Entries), NEW k \in 0 .. Len(l),
           \A i \in 1 .. k : Sound(l, i),
           k < Len(l) => ~ Sound(l, k + 1)
    PROVE  ValidLength(l) = k
<1> DEFINE v == ValidLength(l)
<1>1. v \in 0 .. Len(l) /\ \A i \in 1 .. v : Sound(l, i)
  BY ValidFound, ValidSound
<1>2. v < Len(l) => ~ Sound(l, v + 1)
  BY ValidSound
<1> HIDE DEF v
<1>3. ~ (v < k)
  <2>1. v < k => v + 1 \in 1 .. k /\ v < Len(l)
    BY <1>1
  <2>2. QED
    BY <1>2, <2>1
<1>4. ~ (k < v)
  <2>1. k < v => k + 1 \in 1 .. v /\ k < Len(l)
    BY <1>1
  <2>2. QED
    BY <1>1, <2>1
<1>5. v = k
  BY <1>1, <1>3, <1>4
<1>6. QED
  BY <1>5 DEF v

LEMMA ReplaysIffValid ==
    ASSUME NEW l \in Seq(Entries)
    PROVE  Replays(l) <=> ValidLength(l) = Len(l)
<1>1. Len(l) \in 0 .. Len(l)
  OBVIOUS
<1>2. Replays(l) <=> Len(l) <= ValidLength(l)
  BY <1>1, ValidFound, CutWhole
<1>3. QED
  BY <1>2, ValidFound

\* The search downwards and the binary search find the same prefix.
LEMMA BinaryFound ==
    ASSUME NEW l \in Seq(Entries)
    PROVE  BinaryLength(l) = ValidLength(l)
<1> DEFINE N == Len(l)
           V == ValidLength(l)
           Mid(s) == (s[1] + s[2]) \div 2
           Pairs == (0 .. N) \X (0 .. N)
           Search(f) == f = [s \in Pairs |->
               IF s[2] - s[1] <= 1 THEN s[1]
               ELSE IF Replays(Cut(l, Mid(s))) THEN f[<<Mid(s), s[2]>>]
                                               ELSE f[<<s[1], Mid(s)>>]]
           Found(a, b) == IF b - a <= 1 \/ V <= a THEN a
                          ELSE IF b <= V THEN b - 1 ELSE V
           found == [s \in Pairs |-> Found(s[1], s[2])]
<1>1. N \in Nat /\ V \in 0 .. N
  BY ValidFound
<1>2. \A n \in 0 .. N : Replays(Cut(l, n)) <=> n <= V
  BY ValidFound
<1>3. ASSUME NEW a \in 0 .. N, NEW b \in 0 .. N, b - a > 1
      PROVE  LET m == (a + b) \div 2
             IN /\ m \in 0 .. N /\ a < m /\ m < b
                /\ Found(a, b) = IF m <= V THEN Found(m, b) ELSE Found(a, m)
  <2> DEFINE m == (a + b) \div 2
  <2>1. m \in 0 .. N /\ a < m /\ m < b
    BY <1>1, <1>3
  <2> HIDE DEF m
  <2>2. Found(a, b) = IF m <= V THEN Found(m, b) ELSE Found(a, m)
    BY <1>1, <1>3, <2>1
  <2>3. QED
    BY <2>1, <2>2 DEF m
<1> HIDE DEF Found
<1>4. Search(found)
  <2>1. ASSUME NEW a \in 0 .. N, NEW b \in 0 .. N
        PROVE  Found(a, b) =
                 IF b - a <= 1 THEN a
                 ELSE IF Replays(Cut(l, (a + b) \div 2))
                      THEN found[<<(a + b) \div 2, b>>]
                      ELSE found[<<a, (a + b) \div 2>>]
    <3>1. CASE b - a <= 1
      BY <3>1 DEF Found
    <3>2. CASE ~ (b - a <= 1)
      <4> DEFINE m == (a + b) \div 2
      <4>1. /\ m \in 0 .. N
            /\ Found(a, b) = IF m <= V THEN Found(m, b) ELSE Found(a, m)
        BY <1>1, <1>3, <3>2
      <4> HIDE DEF m
      <4>2. <<m, b>> \in Pairs /\ <<a, m>> \in Pairs
        BY <4>1
      <4>3. found[<<m, b>>] = Found(m, b) /\ found[<<a, m>>] = Found(a, m)
        BY <4>2
      <4>4. QED
        BY <1>2, <3>2, <4>1, <4>3 DEF m
    <3>3. QED
      BY <3>1, <3>2
  <2>2. \A s \in Pairs : s[1] \in 0 .. N /\ s[2] \in 0 .. N /\ s = <<s[1], s[2]>>
    OBVIOUS
  <2> HIDE DEF found
  <2>3. found = [s \in Pairs |->
               IF s[2] - s[1] <= 1 THEN s[1]
               ELSE IF Replays(Cut(l, Mid(s))) THEN found[<<Mid(s), s[2]>>]
                                               ELSE found[<<s[1], Mid(s)>>]]
    BY <2>1, <2>2 DEF found
  <2>4. QED
    BY <2>3
<1>5. ASSUME NEW f, Search(f)
      PROVE  \A s \in Pairs : f[s] = Found(s[1], s[2])
  <2> DEFINE Wrong == {s \in Pairs : f[s] # Found(s[1], s[2])}
             Widths == {s[2] - s[1] : s \in Wrong}
  <2>1. \A s \in Pairs :
           f[s] = IF s[2] - s[1] <= 1 THEN s[1]
                  ELSE IF Replays(Cut(l, Mid(s))) THEN f[<<Mid(s), s[2]>>]
                                                  ELSE f[<<s[1], Mid(s)>>]
    BY <1>5
  <2>2. \A s \in Wrong : s[1] \in 0 .. N /\ s[2] \in 0 .. N /\ s[2] - s[1] > 1
    <3>1. \A s \in Pairs : s[1] \in 0 .. N /\ s[2] \in 0 .. N
      OBVIOUS
    <3>2. \A s \in Pairs : s[2] - s[1] <= 1 => f[s] = Found(s[1], s[2])
      BY <2>1 DEF Found
    <3>3. QED
      BY <1>1, <3>1, <3>2
  <2>3. Widths \in SUBSET Nat
    BY <1>1, <2>2
  <2>4. SUFFICES ASSUME Wrong # {}
                 PROVE  FALSE
    OBVIOUS
  <2>5. PICK w \in Widths : \A n \in Widths : w <= n
    <3>1. Widths # {}
      BY <2>4
    <3> HIDE DEF Widths
    <3>2. QED
      BY <2>3, <3>1, LeastNatural
  <2>6. PICK s \in Wrong : w = s[2] - s[1]
    BY <2>5
  <2> DEFINE a == s[1]
             b == s[2]
             m == (a + b) \div 2
  <2>7. s \in Pairs /\ a \in 0 .. N /\ b \in 0 .. N /\ b - a > 1
    BY <2>2
  <2>8. /\ m \in 0 .. N /\ a < m /\ m < b
        /\ Found(a, b) = IF m <= V THEN Found(m, b) ELSE Found(a, m)
    BY <1>3, <2>7
  <2>9. f[s] = IF m <= V THEN f[<<m, b>>] ELSE f[<<a, m>>]
    <3>1. f[s] = IF Replays(Cut(l, m)) THEN f[<<m, b>>] ELSE f[<<a, m>>]
      <4>1. f[s] = IF b - a <= 1 THEN a
                   ELSE IF Replays(Cut(l, m)) THEN f[<<m, b>>] ELSE f[<<a, m>>]
        BY <2>1, <2>7, Zenon
      <4>2. ~ (b - a <= 1)
        <5> HIDE DEF a, b
        <5>1. QED
          BY <1>1, <2>7
      <4>3. QED
        BY <4>1, <4>2, Zenon
    <3>2. Replays(Cut(l, m)) <=> m <= V
      BY <1>2, <2>8
    <3>3. QED
      BY <3>1, <3>2
  <2>10. f[s] # Found(a, b)
    OBVIOUS
  <2> HIDE DEF Wrong, Widths
  <2>11. ASSUME NEW p \in Pairs, p[2] - p[1] < w
         PROVE  f[p] = Found(p[1], p[2])
    <3>1. p \in Wrong => p[2] - p[1] \in Widths
      BY DEF Widths
    <3>2. p \in Wrong => p[2] - p[1] \in Nat /\ w \in Nat
      BY <2>3, <2>5, <3>1
    <3>3. p \notin Wrong
      BY <2>5, <2>11, <3>1, <3>2
    <3>4. QED
      BY <3>3 DEF Wrong
  <2>12. w = b - a
    BY <2>6
  <2> HIDE DEF a, b, m
  <2>13. /\ <<m, b>> \in Pairs /\ <<m, b>>[1] = m /\ <<m, b>>[2] = b
         /\ <<a, m>> \in Pairs /\ <<a, m>>[1] = a /\ <<a, m>>[2] = m
    BY <2>7, <2>8
  <2>14. b - m < w /\ m - a < w
    BY <1>1, <2>7, <2>8, <2>12
  <2>15. f[<<m, b>>] = Found(m, b) /\ f[<<a, m>>] = Found(a, m)
    BY <2>11, <2>13, <2>14
  <2>16. QED
    BY <2>8, <2>9, <2>10, <2>15
<1> DEFINE search == CHOOSE f : Search(f)
<1>6. Search(search)
  <2> HIDE DEF Search
  <2>1. QED
    BY <1>4
<1>7. N >= 0 /\ <<0, N>> \in Pairs /\ <<0, N>>[1] = 0 /\ <<0, N>>[2] = N
  BY <1>1
<1>8. search[<<0, N>>] = Found(0, N)
  <2> HIDE DEF Search, search
  <2>1. QED
    BY <1>5, <1>6, <1>7
<1>9. BinaryLength(l) = IF Replays(l) THEN N ELSE search[<<0, N>>]
  BY DEF BinaryLength
<1>10. Replays(l) <=> V = N
  BY ReplaysIffValid
<1>11. V # N => Found(0, N) = V
  BY <1>1 DEF Found
<1>12. QED
  BY <1>8, <1>9, <1>10, <1>11

-----------------------------------------------------------------------------
\* What the steps of the log do to it.

LEMMA CutValid ==
    ASSUME NEW l \in Seq(Entries), NEW n \in 0 .. Len(l)
    PROVE  ValidLength(Cut(l, n)) = IF n <= ValidLength(l) THEN n ELSE ValidLength(l)
<1> DEFINE c == Cut(l, n)
           v == ValidLength(l)
           k == IF n <= v THEN n ELSE v
<1>1. c \in Seq(Entries) /\ Len(c) = n /\ \A i \in 1 .. n : c[i] = l[i]
  BY CutProperties
<1>2. \A i \in 1 .. n : Sound(c, i) <=> Sound(l, i)
  BY <1>1 DEF Sound
<1>3. /\ v \in 0 .. Len(l) /\ \A i \in 1 .. v : Sound(l, i)
      /\ v < Len(l) => ~ Sound(l, v + 1)
  BY ValidFound, ValidSound
<1> HIDE DEF c, v
<1>4. k \in 0 .. Len(c) /\ k <= v
  BY <1>1, <1>3
<1>5. \A i \in 1 .. k : Sound(c, i)
  BY <1>1, <1>2, <1>3, <1>4
<1>6. k < Len(c) => ~ Sound(c, k + 1)
  BY <1>1, <1>2, <1>3
<1> HIDE DEF k
<1>7. ValidLength(c) = k
  BY <1>1, <1>4, <1>5, <1>6, ValidIs
<1>8. QED
  BY <1>7 DEF c, k, v

LEMMA GrowValid ==
    ASSUME NEW l \in Seq(Entries), NEW e \in Entries,
           NEW honest, honest = Rederives(e, e.op.rec, Tip(l)),
           honest => Replays(l)
    PROVE  ValidLength(Append(l, e)) =
             IF honest THEN Len(l) + 1 ELSE ValidLength(l)
<1> DEFINE g == Append(l, e)
           n == Len(l)
           v == ValidLength(l)
           k == IF honest THEN n + 1 ELSE v
<1>1. g \in Seq(Entries) /\ Len(g) = n + 1 /\ g[n + 1] = e
      /\ n \in Nat /\ \A i \in 1 .. n : g[i] = l[i]
  OBVIOUS
<1>2. \A i \in 1 .. n : Sound(g, i) <=> Sound(l, i)
  BY <1>1 DEF Sound
<1>3. Sound(g, n + 1) <=> honest
  <2>1. Tip(l) = IF n + 1 = 1 THEN Genesis ELSE g[n].id
    BY <1>1, TipProperties
  <2>2. QED
    BY <1>1, <2>1 DEF Sound
<1>4. /\ v \in 0 .. n /\ \A i \in 1 .. v : Sound(l, i)
      /\ v < n => ~ Sound(l, v + 1)
      /\ honest => v = n
  BY ValidFound, ValidSound, ReplaysIffValid
<1> HIDE DEF g, v, n
<1>5. \A i \in 1 .. n + 1 : i \in 1 .. n \/ i = n + 1
  BY <1>1
<1>6. k \in 0 .. Len(g) /\ \A i \in 1 .. k : Sound(g, i)
  BY <1>1, <1>2, <1>3, <1>4, <1>5
<1>7. k < Len(g) => ~ Sound(g, k + 1)
  <2>1. CASE v = n
    BY <1>1, <1>3, <2>1
  <2>2. CASE v < n
    BY <1>1, <1>2, <1>4, <2>2
  <2>3. QED
    BY <1>1, <1>4, <2>1, <2>2
<1> HIDE DEF k
<1>8. ValidLength(g) = k
  BY <1>1, <1>6, <1>7, ValidIs
<1>9. QED
  BY <1>8 DEF g, k, v, n

\* A damaged entry is never sound again: no damage is the operation it replaces,
\* and no honest canonicalizer returns the other text.
Damaged(l, i, what) == [l EXCEPT ![i].op = what]

LEMMA DamageValid ==
    ASSUME LogConstants, NEW l \in Seq(Entries), NEW i \in 1 .. Len(l),
           NEW what \in Ops \cup Wreckage,
           l[i].op \in Ops,
           \E text \in {l[i].op.rec, OtherText} : Rederives(l[i], text, l[i].prior),
           what # l[i].op,
           NEW d, d = Damaged(l, i, what)
    PROVE  /\ d \in Seq(Entries)
           /\ Len(d) = Len(l)
           /\ \A j \in 1 .. Len(l) : /\ d[j].id = l[j].id
                                     /\ j # i => d[j] = l[j]
                                     /\ j = i => d[j].op = what
           /\ ValidLength(d) =
                IF i <= ValidLength(l) THEN i - 1 ELSE ValidLength(l)
<1>0. PICK text \in {l[i].op.rec, OtherText} : Rederives(l[i], text, l[i].prior)
  OBVIOUS
<1> DEFINE e == [l[i] EXCEPT !.op = what]
           n == Len(l)
           v == ValidLength(l)
           k == IF i <= v THEN i - 1 ELSE v
<1>1. l[i] \in Entries
  BY ElementOfSeq
<1>2. e \in Entries /\ e.op = what /\ e.id = l[i].id /\ e.prior = l[i].prior
  BY <1>1 DEF Entries
<1>3. d = [l EXCEPT ![i] = e]
  BY DEF Damaged
<1>4. /\ d \in Seq(Entries) /\ Len(d) = n /\ n \in Nat
      /\ \A j \in 1 .. n : d[j] = IF j = i THEN e ELSE l[j]
  BY <1>2, <1>3, ExceptSeq
<1>5. \A j \in 1 .. n : d[j].id = l[j].id
  BY <1>2, <1>4
<1>6. ASSUME NEW tip PROVE ~ Rederives(e, e.op.rec, tip)
  <2> SUFFICES ASSUME Rederives(e, e.op.rec, tip)
               PROVE  FALSE
    OBVIOUS
  <2>1. /\ what \in Ops /\ tip = l[i].prior
        /\ l[i].id = Append(tip, <<what.kind, what.rec>>)
    BY <1>2 DEF Rederives, Derive
  <2>2. l[i].id = Append(tip, <<l[i].op.kind, text>>)
    BY <1>0, <2>1 DEF Rederives, Derive
  <2>3. tip \in Chains
    BY <1>1, <2>1 DEF Entries
  <2>4. <<what.kind, what.rec>> = <<l[i].op.kind, text>>
    <3> DEFINE x == <<what.kind, what.rec>>
               y == <<l[i].op.kind, text>>
    <3>1. tip \in Seq(Links) /\ Append(tip, x) = Append(tip, y)
      BY <2>1, <2>2, <2>3 DEF Chains
    <3> HIDE DEF x, y
    <3>2. /\ Append(tip, x)[Len(tip) + 1] = x
          /\ Append(tip, y)[Len(tip) + 1] = y
      BY <3>1
    <3>3. x = y
      BY <3>1, <3>2
    <3>4. QED
      BY <3>3 DEF x, y
  <2>5. what.rec \in Records /\ what.rec = text /\ what.kind = l[i].op.kind
    BY <2>1, <2>4 DEF Ops
  <2>6. what.rec = l[i].op.rec
    BY <2>5 DEF LogConstants
  <2>7. what = l[i].op
    BY <2>1, <2>5, <2>6 DEF Ops
  <2>8. QED
    BY <2>7
<1>7. ~ Sound(d, i)
  BY <1>4, <1>6 DEF Sound
<1>8. \A j \in 1 .. n : j # i => (Sound(d, j) <=> Sound(l, j))
  <2>1. ASSUME NEW j \in 1 .. n, j # i
        PROVE  Sound(d, j) <=> Sound(l, j)
    <3>1. j = 1 \/ (j # 1 /\ j - 1 \in 1 .. n)
      OBVIOUS
    <3>2. d[j] = l[j] /\ (j = 1 \/ d[j - 1].id = l[j - 1].id)
      BY <1>4, <1>5, <2>1, <3>1
    <3>3. QED
      BY <3>1, <3>2 DEF Sound
  <2>2. QED
    BY <2>1
<1>9. /\ v \in 0 .. n /\ \A j \in 1 .. v : Sound(l, j)
      /\ v < n => ~ Sound(l, v + 1)
  BY ValidFound, ValidSound
<1>10. i \in 1 .. n
  OBVIOUS
<1> HIDE DEF e, v, n
<1>11. k \in 0 .. Len(d) /\ \A j \in 1 .. k : j \in 1 .. v /\ j # i /\ j \in 1 .. n
  BY <1>4, <1>9, <1>10
<1>12. \A j \in 1 .. k : Sound(d, j)
  BY <1>8, <1>9, <1>11
<1>13. k < Len(d) => ~ Sound(d, k + 1)
  <2>1. CASE i <= v
    BY <1>7, <1>10, <2>1
  <2>2. CASE ~ (i <= v)
    <3>1. v < n => v + 1 \in 1 .. n
      BY <1>4, <1>9
    <3>2. QED
      BY <1>4, <1>7, <1>8, <1>9, <2>2, <3>1
  <2>3. QED
    BY <2>1, <2>2
<1> HIDE DEF k
<1>14. ValidLength(d) = k
  BY <1>4, <1>11, <1>12, <1>13, ValidIs
<1>15. QED
  BY <1>2, <1>3, <1>4, <1>5, <1>14 DEF k, v, n

-----------------------------------------------------------------------------
\* What the log says.

Read(l) == OpsOf(Cut(l, ValidLength(l)))

LEMMA ReadProperties ==
    ASSUME NEW l \in Seq(Entries)
    PROVE  /\ Read(l) \in Seq(Ops)
           /\ Len(Read(l)) = ValidLength(l)
           /\ \A i \in 1 .. ValidLength(l) : Read(l)[i] = l[i].op
<1> DEFINE v == ValidLength(l)
           c == Cut(l, v)
<1>1. v \in 0 .. Len(l) /\ \A i \in 1 .. v : Sound(l, i)
  BY ValidFound, ValidSound
<1>2. c \in Seq(Entries) /\ Len(c) = v /\ \A i \in 1 .. v : c[i] = l[i]
  BY <1>1, CutProperties
<1>3. \A i \in 1 .. v : l[i].op \in Ops
  BY <1>1 DEF Sound, Rederives
<1> HIDE DEF v
<1>4. Read(l) = [i \in 1 .. v |-> c[i].op]
  <2>1. DOMAIN c = 1 .. v
    BY <1>2
  <2>2. QED
    BY <2>1 DEF Read, OpsOf, v
<1>5. \A i \in 1 .. v : c[i].op = l[i].op /\ c[i].op \in Ops
  BY <1>2, <1>3
<1> HIDE DEF c
<1>6. Read(l) \in [1 .. v -> Ops] /\ \A i \in 1 .. v : Read(l)[i] = l[i].op
  BY <1>4, <1>5
<1> HIDE DEF Ops
<1>7. QED
  BY <1>1, <1>6 DEF v

LEMMA ReadCut ==
    ASSUME NEW l \in Seq(Entries), NEW m \in Seq(Entries),
           ValidLength(m) <= ValidLength(l),
           \A i \in 1 .. ValidLength(m) : m[i].op = l[i].op
    PROVE  Read(m) = SubSeq(Read(l), 1, ValidLength(m))
<1> DEFINE n == ValidLength(m)
           c == SubSeq(Read(l), 1, n)
<1>1. /\ Read(l) \in Seq(Ops) /\ Len(Read(l)) = ValidLength(l)
      /\ \A i \in 1 .. ValidLength(l) : Read(l)[i] = l[i].op
  BY ReadProperties
<1>2. /\ Read(m) \in Seq(Ops) /\ Len(Read(m)) = n
      /\ \A i \in 1 .. n : Read(m)[i] = m[i].op
  BY ReadProperties
<1>3. n \in 0 .. ValidLength(l) /\ ValidLength(l) \in Nat
  BY ValidFound
<1> HIDE DEF n
<1>4. \A i \in 1 .. n : Read(l)[i] \in Ops
  BY <1>1, <1>3
<1>5. c \in Seq(Ops) /\ Len(c) = n /\ \A i \in 1 .. n : c[i] = Read(l)[i]
  <2> HIDE DEF Ops
  <2>1. QED
    BY <1>1, <1>3, <1>4
<1> HIDE DEF c
<1>6. Read(m) = c
  <2>1. \A i \in 1 .. n : Read(m)[i] = c[i]
    <3>1. ASSUME NEW i \in 1 .. n
          PROVE  Read(m)[i] = c[i]
      <4>1. i \in 1 .. ValidLength(m) /\ i \in 1 .. ValidLength(l)
        BY <1>3 DEF n
      <4>2. Read(m)[i] = m[i].op /\ Read(l)[i] = l[i].op /\ c[i] = Read(l)[i]
        BY <1>1, <1>2, <1>5, <4>1
      <4>3. QED
        BY <4>1, <4>2
    <3>2. QED
      BY <3>1
  <2>2. QED
    BY <1>2, <1>5, <2>1, SeqEqual
<1>7. QED
  BY <1>6 DEF c, n

LEMMA ReadGrown ==
    ASSUME NEW l \in Seq(Entries), NEW e \in Entries, e.op \in Ops,
           ValidLength(l) = Len(l),
           ValidLength(Append(l, e)) = Len(l) + 1
    PROVE  Read(Append(l, e)) = Append(Read(l), e.op)
<1> DEFINE g == Append(l, e)
           n == Len(l)
<1>1. g \in Seq(Entries) /\ n \in Nat /\ g[n + 1] = e /\ \A i \in 1 .. n : g[i] = l[i]
  OBVIOUS
<1>2. /\ Read(l) \in Seq(Ops) /\ Len(Read(l)) = n
      /\ \A i \in 1 .. n : Read(l)[i] = l[i].op
  BY ReadProperties
<1>3. /\ Read(g) \in Seq(Ops) /\ Len(Read(g)) = n + 1
      /\ \A i \in 1 .. n + 1 : Read(g)[i] = g[i].op
  BY <1>1, ReadProperties
<1> HIDE DEF g, n
<1> DEFINE r == Append(Read(l), e.op)
<1>4. /\ r \in Seq(Ops) /\ Len(r) = n + 1 /\ r[n + 1] = e.op
      /\ \A i \in 1 .. n : r[i] = Read(l)[i]
  BY <1>1, <1>2
<1> HIDE DEF r
<1>5. \A i \in 1 .. n + 1 : i \in 1 .. n \/ i = n + 1
  BY <1>1
<1>6. \A i \in 1 .. n + 1 : Read(g)[i] = r[i]
  BY <1>1, <1>2, <1>3, <1>4, <1>5, SMTT(60)
<1>7. Read(g) = r
  BY <1>3, <1>4, <1>6, SeqEqual
<1>8. QED
  BY <1>7 DEF g, r

-----------------------------------------------------------------------------
\* The inductive invariant.

LogShape ==
    /\ log \in Seq(Entries)
    /\ \A i \in 1 .. Len(log) : Len(log[i].id) = i
    /\ acked \in Seq(Ops)
    /\ Len(acked) <= Len(log)
    /\ Len(log) <= MaxLog

LogInv == LogShape /\ AckedIntact

\* The two ways in which what the log says moves.
Grows == \E op \in Ops : Visible' = Append(Visible, op)
Shrinks ==
    /\ ValidLength(log') <= ValidLength(log)
    /\ \A i \in 1 .. ValidLength(log') : log'[i].op = log[i].op

\* A cut that takes what is durable along with it.
LEMMA CutStep ==
    ASSUME LogConstants, LogInv, NEW n \in 0 .. Len(log), log' = Cut(log, n),
           acked' = IF n < Len(acked) THEN Cut(acked, n) ELSE acked
    PROVE  /\ LogInv'
           /\ Shrinks
           /\ ValidLength(log') =
                IF n <= ValidLength(log) THEN n ELSE ValidLength(log)
<1> USE DEF LogInv, LogShape
<1>1. log' \in Seq(Entries) /\ Len(log') = n /\ \A i \in 1 .. n : log'[i] = log[i]
  BY CutProperties
<1>2. ValidLength(log') = IF n <= ValidLength(log) THEN n ELSE ValidLength(log)
  BY CutValid
<1>3. ValidLength(log) \in 0 .. Len(log) /\ ValidLength(log') \in 0 .. n
  BY <1>1, ValidFound
<1>4. /\ acked' \in Seq(Ops) /\ Len(acked') <= n /\ Len(acked') <= Len(acked)
      /\ \A i \in 1 .. Len(acked') : acked'[i] = acked[i]
  <2>1. \A i \in 1 .. Len(acked) : acked[i] \in Ops
    BY ElementOfSeq
  <2>2. CASE n < Len(acked)
    <3> HIDE DEF Ops
    <3>1. QED
      BY <2>1, <2>2 DEF Cut
  <2>3. CASE ~ (n < Len(acked))
    BY <2>3
  <2>4. QED
    BY <2>2, <2>3
<1>5. Shrinks
  BY <1>1, <1>2, <1>3 DEF Shrinks
<1>6. LogShape'
  <2>1. \A i \in 1 .. Len(log') : Len(log'[i].id) = i
    BY <1>1
  <2>2. Len(log') <= MaxLog
    BY <1>1 DEF LogConstants
  <2>3. QED
    BY <1>1, <1>4, <2>1, <2>2
<1>7. AckedIntact'
  BY <1>1, <1>3, <1>4, <1>5 DEF AckedIntact, Shrinks
<1>8. QED
  BY <1>2, <1>5, <1>6, <1>7

LEMMA DamageStep ==
    ASSUME LogConstants, LogInv, NEW i \in 1 .. Len(log),
           NEW what \in Ops \cup Wreckage, Damage(i, what), acked' = acked
    PROVE  /\ LogInv'
           /\ Shrinks
           /\ ValidLength(log') =
                IF i <= ValidLength(log) THEN i - 1 ELSE ValidLength(log)
<1> USE DEF LogInv, LogShape
<1>1. \E text \in {log[i].op.rec, OtherText} : Rederives(log[i], text, log[i].prior)
  BY DEF Damage
<1>2. /\ log[i].op \in Ops /\ what # log[i].op
      /\ log' = [log EXCEPT ![i].op = what]
  BY DEF Damage
<1>3. /\ log' \in Seq(Entries)
      /\ Len(log') = Len(log)
      /\ \A j \in 1 .. Len(log) : /\ log'[j].id = log[j].id
                                  /\ j # i => log'[j] = log[j]
                                  /\ j = i => log'[j].op = what
      /\ ValidLength(log') =
           IF i <= ValidLength(log) THEN i - 1 ELSE ValidLength(log)
  <2>1. log \in Seq(Entries)
    OBVIOUS
  <2>2. log' = Damaged(log, i, what)
    BY <1>2 DEF Damaged
  <2>3. log[i].op \in Ops /\ what # log[i].op
    BY <1>2
  <2> HIDE DEF LogInv, LogShape
  <2>4. QED
    BY LogConstants, <1>1, <2>1, <2>2, <2>3, DamageValid
<1>4. ValidLength(log) \in 0 .. Len(log)
  BY ValidFound
<1>5. /\ ValidLength(log') \in 0 .. ValidLength(log)
      /\ \A j \in 1 .. ValidLength(log') : j # i /\ j \in 1 .. Len(log)
  BY <1>3, <1>4
<1>6. Shrinks
  BY <1>3, <1>4, <1>5 DEF Shrinks
<1>7. LogShape'
  BY <1>3
<1>8. AckedIntact'
  BY <1>3, <1>4, <1>5, <1>6 DEF AckedIntact, Shrinks
<1>9. QED
  BY <1>3, <1>6, <1>7, <1>8

\* An append under an honest canonicalizer is one more operation of what the log
\* says; under a lying one the log says what it said before.
LEMMA AppendStep ==
    ASSUME LogConstants, LogInv, NEW op \in Ops, NEW text \in {op.rec, OtherText},
           NEW durable \in BOOLEAN, AppendEntry(op, text, durable)
    PROVE  /\ LogInv'
           /\ Grows \/ Shrinks
           /\ Len(acked) <= Len(acked')
           /\ Replays(log') => Replays(log)
           /\ IF text = op.rec THEN ValidLength(log') = Len(log')
                               ELSE "lie" \in Faults
           /\ Len(log') = Len(log) + 1
           /\ log'[Len(log) + 1].op = op
           /\ \A i \in 1 .. Len(log) : log'[i] = log[i]
<1> USE DEF LogInv, LogShape
<1> DEFINE e == Entry(op, text, Tip(log))
           n == Len(log)
           v == ValidLength(log)
           honest == text = op.rec
<1>1. /\ n \in Nat /\ n < MaxLog /\ log' = Append(log, e)
      /\ IF honest THEN Replays(log) ELSE "lie" \in Faults /\ Accepted(log)
      /\ acked' = IF durable THEN OpsOf(log') ELSE acked
  BY DEF AppendEntry
<1>2. Tip(log) \in Chains /\ Len(Tip(log)) = n
  <2>1. Tip(log) = IF n = 0 THEN Genesis ELSE log[n].id
    BY TipProperties
  <2>2. CASE n = 0
    BY <2>1, <2>2 DEF Genesis, Chains
  <2>3. CASE n # 0
    <3>1. n \in 1 .. n /\ log[n] \in Entries
      BY <1>1, <2>3, ElementOfSeq
    <3>2. QED
      BY <2>1, <2>3, <3>1 DEF Entries
  <2>4. QED
    BY <2>2, <2>3
<1>3. /\ e \in Entries /\ e.op = op /\ e.prior = Tip(log)
      /\ e.id = Append(Tip(log), <<op.kind, text>>)
      /\ Len(e.id) = n + 1
  <2> DEFINE x == <<op.kind, text>>
  <2>1. x \in Links
    BY DEF Links, Ops
  <2> HIDE DEF x
  <2>2. Append(Tip(log), x) \in Chains /\ Len(Append(Tip(log), x)) = n + 1
    <3> DEFINE t == Tip(log)
    <3>1. t \in Seq(Links) /\ Len(t) = n
      BY <1>2 DEF Chains
    <3> HIDE DEF t, n, LogInv, LogShape
    <3>2. Append(t, x) \in Seq(Links) /\ Len(Append(t, x)) = n + 1
      BY <2>1, <3>1
    <3>3. QED
      BY <3>2 DEF t, Chains
  <2>3. e = [op |-> op, id |-> Append(Tip(log), x), prior |-> Tip(log)]
    BY DEF Entry, Derive, x
  <2>4. QED
    BY <1>2, <2>2, <2>3 DEF Entries, x
<1>4. honest <=> Rederives(e, e.op.rec, Tip(log))
  <2>1. Rederives(e, e.op.rec, Tip(log)) <=> e.id = Append(Tip(log), <<op.kind, op.rec>>)
    BY <1>3 DEF Rederives, Derive
  <2>2. e.id[n + 1] = <<op.kind, text>>
    BY <1>2, <1>3 DEF Chains
  <2>3. Append(Tip(log), <<op.kind, op.rec>>)[n + 1] = <<op.kind, op.rec>>
    <3> DEFINE t == Tip(log)
               x == <<op.kind, op.rec>>
    <3>1. x \in Links /\ t \in Seq(Links) /\ Len(t) = n
      BY <1>2 DEF Chains, Links, Ops
    <3> HIDE DEF t, x, n, LogInv, LogShape
    <3>2. Append(t, x)[n + 1] = x
      BY <3>1, AppendProperties
    <3>3. QED
      BY <3>2 DEF t, x
  <2>4. <<op.kind, op.rec>> = <<op.kind, text>> => op.rec = text
    OBVIOUS
  <2>5. QED
    BY <1>3, <2>1, <2>2, <2>3, <2>4
<1> HIDE DEF e
<1>5. /\ log' \in Seq(Entries) /\ Len(log') = n + 1 /\ log'[n + 1] = e
      /\ \A i \in 1 .. n : log'[i] = log[i]
  BY <1>1, <1>3
<1>6. ValidLength(log') = IF honest THEN n + 1 ELSE v
  <2> HIDE DEF LogInv, LogShape
  <2>1. log \in Seq(Entries)
    BY DEF LogInv, LogShape
  <2>2. honest => Replays(log)
    BY <1>1
  <2> HIDE DEF honest
  <2>3. ValidLength(Append(log, e)) = IF honest THEN Len(log) + 1 ELSE ValidLength(log)
    BY <1>3, <1>4, <2>1, <2>2, GrowValid
  <2>4. QED
    BY <1>1, <2>3
<1>7. v \in 0 .. n /\ (Replays(log) <=> v = n)
  BY ValidFound, ReplaysIffValid
<1>8. Replays(log') <=> ValidLength(log') = n + 1
  BY <1>5, ReplaysIffValid
<1>9. \A i \in 1 .. n + 1 : i \in 1 .. n \/ i = n + 1
  BY <1>1
<1>10. Grows \/ Shrinks
  <2>1. CASE honest
    <3>1. Visible = Read(log) /\ Visible' = Read(log')
      BY DEF Visible, Read
    <3>2. Read(log') = Append(Read(log), op)
      <4>1. v = n /\ ValidLength(log') = n + 1
        BY <1>1, <1>6, <1>7, <2>1
      <4>2. QED
        BY <1>1, <1>3, <4>1, ReadGrown
    <3>3. QED
      BY <3>1, <3>2 DEF Grows
  <2>2. CASE ~ honest
    BY <1>5, <1>6, <1>7, <2>2 DEF Shrinks
  <2>3. QED
    BY <2>1, <2>2
<1>11. \A i \in 1 .. n + 1 : log'[i].op \in Ops \/ ~ durable
  <2>1. \A i \in 1 .. n : log[i].op \in Ops
    <3>1. DOMAIN log = 1 .. n
      OBVIOUS
    <3>2. CASE honest
      BY <1>1, <3>1, <3>2 DEF Replays, Rederives
    <3>3. CASE ~ honest
      BY <1>1, <3>1, <3>3 DEF Accepted, Rederives
    <3>4. QED
      BY <3>2, <3>3
  <2>2. QED
    BY <1>3, <1>5, <1>9, <2>1
<1>12. /\ acked' \in Seq(Ops) /\ Len(acked') <= n + 1 /\ Len(acked) <= Len(acked')
       /\ \A i \in 1 .. Len(acked') :
             acked'[i] = log'[i].op \/ (~ durable /\ acked'[i] = acked[i])
  <2>1. CASE durable
    <3>1. acked' = [i \in 1 .. n + 1 |-> log'[i].op]
      BY <1>1, <1>5, <2>1 DEF OpsOf
    <3> DEFINE O(i) == log'[i].op
    <3>2. \A i \in 1 .. n + 1 : O(i) \in Ops
      BY <1>11, <2>1
    <3>3. acked' = [i \in 1 .. n + 1 |-> O(i)]
      BY <3>1
    <3> HIDE DEF O, Ops
    <3>4. acked' \in [1 .. n + 1 -> Ops] /\ \A i \in 1 .. n + 1 : acked'[i] = O(i)
      BY <3>2, <3>3
    <3>5. acked' \in Seq(Ops) /\ Len(acked') = n + 1
      BY <1>1, <3>4
    <3>6. Len(acked) <= n + 1
      BY <1>1
    <3>7. QED
      BY <1>1, <3>4, <3>5, <3>6 DEF O
  <2>2. CASE ~ durable
    <3>1. acked' = acked
      BY <1>1, <2>2
    <3>2. Len(acked) <= n + 1 /\ Len(acked) <= Len(acked)
      BY <1>1
    <3>3. QED
      BY <2>2, <3>1, <3>2
  <2>3. QED
    BY <2>1, <2>2
<1>13. LogShape'
  <2>1. \A i \in 1 .. n + 1 : Len(log'[i].id) = i
    BY <1>3, <1>5, <1>9
  <2>2. n + 1 <= MaxLog
    BY <1>1 DEF LogConstants
  <2>3. QED
    BY <1>5, <1>12, <2>1, <2>2
<1>14. AckedIntact'
  <2>1. SUFFICES ASSUME NEW i \in 1 .. Len(acked'), i <= ValidLength(log')
                 PROVE  log'[i].op = acked'[i]
    BY DEF AckedIntact
  <2>2. CASE acked'[i] = log'[i].op
    BY <2>2
  <2>3. CASE ~ durable /\ acked'[i] = acked[i]
    <3>1. acked' = acked
      BY <1>1, <2>3
    <3>2. i \in 1 .. n /\ log'[i] = log[i] /\ i <= v
      <4>1. i \in 1 .. n
        BY <3>1
      <4>2. QED
        BY <1>1, <1>5, <1>6, <1>7, <2>1, <4>1
    <3>3. QED
      BY <2>1, <3>1, <3>2 DEF AckedIntact
  <2>4. QED
    BY <1>12, <2>2, <2>3
<1>15. QED
  <2>1. /\ Replays(log') => Replays(log)
        /\ IF honest THEN ValidLength(log') = Len(log') ELSE "lie" \in Faults
    BY <1>1, <1>5, <1>6, <1>7, <1>8
  <2>2. LogInv'
    BY <1>13, <1>14
  <2>3. /\ Len(log') = Len(log) + 1 /\ log'[Len(log) + 1].op = op
        /\ \A i \in 1 .. Len(log) : log'[i] = log[i]
    BY <1>3, <1>5
  <2> HIDE DEF LogInv
  <2>4. QED
    BY <1>10, <1>12, <2>1, <2>2, <2>3

\* Every step keeps the invariant, and moves what the log says in one of the two
\* ways.
LEMMA LogStep ==
    ASSUME LogConstants, LogInv, [LogNext]_vars
    PROVE  LogInv' /\ (Grows \/ Shrinks)
<1>1. log \in Seq(Entries) /\ acked \in Seq(Ops) /\ Len(acked) <= Len(log)
  BY DEF LogInv, LogShape
<1>2. ValidLength(log) \in 0 .. Len(log) /\ BinaryLength(log) = ValidLength(log)
  BY <1>1, ValidFound, BinaryFound
<1>3. ASSUME NEW op \in Ops, NEW text \in Records \cup {OtherText},
             NEW durable \in BOOLEAN,
             text \in {op.rec, OtherText}, AppendEntry(op, text, durable)
      PROVE  LogInv' /\ (Grows \/ Shrinks)
  BY <1>3, LogConstants, AppendStep
<1>4. CASE Resume
  <2>1. /\ log' = Cut(log, ValidLength(log)) /\ acked' = acked
        /\ ~ (ValidLength(log) < Len(acked))
    BY <1>1, <1>2, <1>4 DEF Resume
  <2>2. QED
    BY <1>2, <2>1, LogConstants, CutStep
<1>5. ASSUME NEW max_loss \in 1 .. MaxLog, Scan(max_loss)
      PROVE  LogInv' /\ (Grows \/ Shrinks)
  <2>1. /\ log' = Cut(log, ValidLength(log))
        /\ acked' = IF ValidLength(log) < Len(acked)
                    THEN Cut(acked, ValidLength(log)) ELSE acked
    BY <1>2, <1>5 DEF Scan
  <2>2. QED
    BY <1>2, <2>1, LogConstants, CutStep
<1>6. ASSUME NEW target \in 0 .. Len(log), Rollback(target)
      PROVE  LogInv' /\ (Grows \/ Shrinks)
  BY <1>6, LogConstants, CutStep DEF Rollback
<1>7. ASSUME NEW i \in 1 .. Len(log), NEW what \in Ops \cup Wreckage,
             Damage(i, what), acked' = acked
      PROVE  LogInv' /\ (Grows \/ Shrinks)
  BY <1>7, LogConstants, DamageStep
<1>8. CASE Fault
  <2>1. acked' = acked
    BY <1>8 DEF Fault
  <2>2. ASSUME NEW n \in Len(acked) .. Len(log) - 1, log' = Cut(log, n)
        PROVE  LogInv' /\ (Grows \/ Shrinks)
    <3>1. n \in 0 .. Len(log) /\ ~ (n < Len(acked))
      BY <1>1
    <3>2. QED
      BY <2>1, <2>2, <3>1, LogConstants, CutStep
  <2>3. ASSUME NEW i \in Len(acked) + 1 .. Len(log), NEW what \in {Garbled, Odd},
               Damage(i, what)
        PROVE  LogInv' /\ (Grows \/ Shrinks)
    <3>1. i \in 1 .. Len(log) /\ what \in Ops \cup Wreckage
      BY <1>1 DEF Wreckage
    <3>2. QED
      BY <1>7, <2>1, <2>3, <3>1
  <2>4. ASSUME NEW i \in DOMAIN log, NEW what \in Ops \cup Wreckage, Damage(i, what)
        PROVE  LogInv' /\ (Grows \/ Shrinks)
    BY <1>1, <1>7, <2>1, <2>4
  <2>5. QED
    BY <1>8, <2>2, <2>3, <2>4 DEF Fault, Crash, Rot
<1>9. CASE UNCHANGED vars
  <2>1. log' = log /\ acked' = acked
    BY <1>9 DEF vars
  <2>2. LogInv'
    <3>1. LogShape'
      BY <2>1 DEF LogInv, LogShape
    <3>2. AckedIntact'
      BY <2>1 DEF LogInv, AckedIntact
    <3>3. QED
      BY <3>1, <3>2 DEF LogInv
  <2>3. Shrinks
    BY <1>2, <2>1 DEF Shrinks
  <2>4. QED
    BY <2>2, <2>3
<1>10. QED
  BY <1>3, <1>4, <1>5, <1>6, <1>8, <1>9 DEF LogNext

LEMMA LogInvariance == ASSUME LogConstants PROVE LogSpec => []LogInv
<1>1. LogInit => LogInv
  BY EmptySeq DEF LogInit, LogInv, LogShape, AckedIntact, LogConstants
<1>2. LogInv /\ [LogNext]_vars => LogInv'
  BY LogConstants, LogStep
<1>3. QED
  BY <1>1, <1>2, PTL DEF LogSpec

-----------------------------------------------------------------------------
\* Under any crashes, rot and lies the log keeps its shape, and no durable
\* operation is answered with another one (wal.py, crash_resume.py,
\* corruption.py).
THEOREM LogStaysIntact == ASSUME LogConstants PROVE LogSpec => []LogIntact
<1>1. LogInv => LogTypeOK
  <2> SUFFICES ASSUME LogInv
               PROVE  LogTypeOK
    OBVIOUS
  <2>1. log \in Seq(Entries) /\ \A i \in 1 .. Len(log) : log[i] \in Entries
    BY ElementOfSeq DEF LogInv, LogShape
  <2>2. \A i \in 1 .. Len(log) : log[i].op \in Ops \cup Wreckage
    BY <2>1 DEF Entries
  <2>3. DOMAIN log = 1 .. Len(log)
    BY <2>1
  <2>4. QED
    BY <2>2, <2>3 DEF LogInv, LogShape, LogTypeOK
<1>2. LogInv => LogIntact
  BY <1>1 DEF LogInv, LogIntact
<1>3. QED
  BY <1>2, LogInvariance, PTL

\* Whatever is damaged, lied about or repaired, what the log says is one history
\* of operations that grows at its end or is cut: StoreLog implements
\* VersionedLog.
THEOREM ImplementsVersionedLog == ASSUME LogConstants PROVE LogSpec => Versioned
<1>1. LogInit => Visible = <<>>
  <2> SUFFICES ASSUME LogInit
               PROVE  Visible = <<>>
    OBVIOUS
  <2>1. log \in Seq(Entries) /\ Len(log) = 0
    BY DEF LogInit
  <2>2. Visible \in Seq(Ops) /\ Len(Visible) = 0
    <3>1. Visible = Read(log)
      BY DEF Visible, Read
    <3>2. ValidLength(log) = 0
      <4>1. ValidLength(log) \in 0 .. Len(log)
        BY <2>1, ValidFound
      <4>2. QED
        BY <2>1, <4>1
    <3>3. QED
      BY <2>1, <3>1, <3>2, ReadProperties
  <2>3. QED
    BY <2>2, EmptySeq, SeqEqual
<1>2. ASSUME LogInv, [LogNext]_vars
      PROVE  [History!Next]_Visible
  <2>1. LogInv' /\ (Grows \/ Shrinks)
    BY <1>2, LogConstants, LogStep
  <2>2. log \in Seq(Entries) /\ log' \in Seq(Entries)
    BY <1>2, <2>1 DEF LogInv, LogShape
  <2>3. Visible = Read(log) /\ Visible' = Read(log')
    BY DEF Visible, Read
  <2>4. CASE Grows
    BY <2>4 DEF Grows, History!Next, History!Commit
  <2>5. CASE Shrinks
    <3> DEFINE n == ValidLength(log')
    <3>1. Visible' = SubSeq(Visible, 1, n)
      BY <2>2, <2>3, <2>5, ReadCut DEF Shrinks
    <3>2. Visible \in Seq(Ops) /\ Len(Visible) = ValidLength(log)
      BY <2>2, <2>3, ReadProperties
    <3>3. n \in 0 .. ValidLength(log) /\ ValidLength(log) \in Nat
      BY <2>2, <2>5, ValidFound DEF Shrinks
    <3> HIDE DEF n
    <3>4. CASE n = Len(Visible)
      BY <3>1, <3>2, <3>4, SubSeqFull
    <3>5. CASE n # Len(Visible)
      <4>1. n \in 0 .. Len(Visible) - 1
        BY <3>2, <3>3, <3>5
      <4>2. QED
        BY <3>1, <4>1 DEF History!Next, History!CutTo
    <3>6. QED
      BY <3>4, <3>5
  <2>6. QED
    BY <2>1, <2>4, <2>5
<1>3. QED
  <2>1. LogInit => History!Init
    BY <1>1 DEF History!Init
  <2>2. LogInv /\ [LogNext]_vars => [History!Next]_Visible
    BY <1>2
  <2>3. QED
    BY <2>1, <2>2, LogInvariance, PTL DEF LogSpec, Versioned, History!Spec

-----------------------------------------------------------------------------
\* Crashes only: what is durable replays.

Crashing == Faults \subseteq {"crash"}

DurableInv == LogInv /\ Len(acked) <= ValidLength(log)

LEMMA DurableStep ==
    ASSUME LogConstants, Crashing, DurableInv, [LogNext]_vars
    PROVE  /\ DurableInv'
           /\ Len(acked') < Len(acked) => Replays(log)
<1> DEFINE Safe == /\ Len(acked') <= ValidLength(log')
                   /\ Len(acked') < Len(acked) => Replays(log)
<1>1. /\ LogInv /\ log \in Seq(Entries) /\ acked \in Seq(Ops)
      /\ Len(acked) <= ValidLength(log)
  BY DEF DurableInv, LogInv, LogShape
<1>2. /\ ValidLength(log) \in 0 .. Len(log) /\ BinaryLength(log) = ValidLength(log)
      /\ Replays(log) <=> ValidLength(log) = Len(log)
  BY <1>1, ValidFound, BinaryFound, ReplaysIffValid
<1>3. LogInv' /\ acked' \in Seq(Ops) /\ Len(acked') <= Len(log') /\ log' \in Seq(Entries)
  BY <1>1, LogConstants, LogStep DEF LogInv, LogShape
<1>4. SUFFICES Safe
  BY <1>3 DEF DurableInv
<1>5. ASSUME NEW op \in Ops, NEW text \in Records \cup {OtherText},
             NEW durable \in BOOLEAN,
             text \in {op.rec, OtherText}, AppendEntry(op, text, durable)
      PROVE  Safe
  <2>1. "lie" \notin Faults
    BY DEF Crashing
  <2>2. ValidLength(log') = Len(log') /\ Len(acked) <= Len(acked')
    BY <1>1, <1>5, <2>1, LogConstants, AppendStep
  <2>3. QED
    BY <1>1, <1>3, <2>2
<1>6. ASSUME NEW n \in 0 .. Len(log), log' = Cut(log, n), Len(acked) <= n,
             acked' = acked
      PROVE  Safe
  <2>1. ValidLength(log') = IF n <= ValidLength(log) THEN n ELSE ValidLength(log)
    BY <1>1, <1>6, CutValid
  <2>2. QED
    BY <1>1, <1>2, <1>6, <2>1
<1>7. CASE Resume
  BY <1>1, <1>2, <1>6, <1>7 DEF Resume
<1>8. ASSUME NEW max_loss \in 1 .. MaxLog, Scan(max_loss)
      PROVE  Safe
  <2>1. log' = Cut(log, ValidLength(log)) /\ acked' = acked
    BY <1>1, <1>2, <1>8 DEF Scan
  <2>2. QED
    BY <1>1, <1>2, <1>6, <2>1
<1>9. ASSUME NEW target \in 0 .. Len(log), Rollback(target)
      PROVE  Safe
  <2>1. /\ Replays(log) /\ log' = Cut(log, target)
        /\ acked' = IF target < Len(acked) THEN Cut(acked, target) ELSE acked
    BY <1>9 DEF Rollback
  <2>2. ValidLength(log') = target
    <3>1. ValidLength(log') =
            IF target <= ValidLength(log) THEN target ELSE ValidLength(log)
      BY <1>1, <2>1, CutValid
    <3>2. QED
      BY <1>2, <2>1, <3>1
  <2>3. Len(log') = target
    BY <1>1, <2>1, CutProperties
  <2>4. QED
    BY <1>3, <2>1, <2>2, <2>3
<1>10. CASE Fault
  <2>1. acked' = acked /\ "rot" \notin Faults
    BY <1>10 DEF Fault, Crashing
  <2>2. ASSUME NEW n \in Len(acked) .. Len(log) - 1, log' = Cut(log, n)
        PROVE  Safe
    <3>1. n \in 0 .. Len(log) /\ Len(acked) <= n
      BY <1>1
    <3>2. QED
      BY <1>6, <2>1, <2>2, <3>1
  <2>3. ASSUME NEW i \in Len(acked) + 1 .. Len(log), NEW what \in {Garbled, Odd},
               Damage(i, what)
        PROVE  Safe
    <3>1. i \in 1 .. Len(log) /\ what \in Ops \cup Wreckage /\ Len(acked) <= i - 1
      BY <1>1 DEF Wreckage
    <3>2. ValidLength(log') =
            IF i <= ValidLength(log) THEN i - 1 ELSE ValidLength(log)
      BY <1>1, <2>1, <2>3, <3>1, LogConstants, DamageStep
    <3>3. QED
      BY <1>1, <1>2, <2>1, <3>1, <3>2
  <2>4. QED
    BY <1>10, <2>1, <2>2, <2>3 DEF Fault, Crash, Rot
<1>11. CASE UNCHANGED vars
  BY <1>1, <1>11 DEF vars
<1>12. QED
  <2> HIDE DEF Safe
  <2>1. QED
    BY <1>5, <1>7, <1>8, <1>9, <1>10, <1>11 DEF LogNext

LEMMA DurableInvariance ==
    ASSUME LogConstants, Crashing PROVE LogSpec => []DurableInv
<1>1. LogInit => DurableInv
  <2> SUFFICES ASSUME LogInit
               PROVE  DurableInv
    OBVIOUS
  <2>1. LogInv
    BY LogConstants, EmptySeq
       DEF LogInit, LogInv, LogShape, AckedIntact, LogConstants
  <2>2. log \in Seq(Entries) /\ Len(log) = 0 /\ Len(acked) = 0
    BY DEF LogInit
  <2>3. ValidLength(log) \in 0 .. Len(log)
    BY <2>2, ValidFound
  <2>4. QED
    BY <2>1, <2>2, <2>3 DEF DurableInv
<1>2. DurableInv /\ [LogNext]_vars => DurableInv'
  BY LogConstants, Crashing, DurableStep
<1>3. QED
  BY <1>1, <1>2, PTL DEF LogSpec

\* As long as only crashes happen nothing but a rollback takes a durable
\* operation away: the corruption scan, which knows no checkpoint, does not
\* (corruption.py).
THEOREM DurableStays ==
    ASSUME LogConstants, Crashing PROVE LogSpec => DurableKept
<1> DEFINE A == Len(acked') < Len(acked) => Replays(log)
<1>1. DurableInv /\ [LogNext]_vars => [A]_vars
  BY LogConstants, Crashing, DurableStep
<1>2. QED
  BY <1>1, DurableInvariance, PTL DEF LogSpec, DurableKept

\* A repair, the resume's search downwards or the scan's binary search, leaves
\* exactly the longest prefix that replays.  A crash may by itself leave a log
\* that replays, so it is left out here.
THEOREM RepairsAreExact ==
    ASSUME LogConstants, "crash" \notin Faults PROVE LogSpec => RepairExact
<1> DEFINE Exact == \E k \in 0 .. Len(log) :
                       /\ log' = Cut(log, k)
                       /\ \A n \in k + 1 .. Len(log) : ~ Replays(Cut(log, n))
           A == ~ Replays(log) /\ Replays(log') => Exact
<1>1. ASSUME LogInv, [LogNext]_vars, ~ Replays(log), Replays(log')
      PROVE  Exact
  <2>1. log \in Seq(Entries)
    BY <1>1 DEF LogInv, LogShape
  <2>2. /\ ValidLength(log) \in 0 .. Len(log) /\ BinaryLength(log) = ValidLength(log)
        /\ Replays(log) <=> ValidLength(log) = Len(log)
        /\ \A n \in 0 .. Len(log) : Replays(Cut(log, n)) <=> n <= ValidLength(log)
    BY <2>1, ValidFound, BinaryFound, ReplaysIffValid
  <2>3. log' = Cut(log, ValidLength(log)) => Exact
    <3>1. \A n \in ValidLength(log) + 1 .. Len(log) :
             n \in 0 .. Len(log) /\ ~ (n <= ValidLength(log))
      BY <2>2
    <3>2. QED
      BY <2>2, <3>1
  <2> HIDE DEF Exact
  <2>4. ASSUME NEW op \in Ops, NEW text \in Records \cup {OtherText},
               NEW durable \in BOOLEAN,
               text \in {op.rec, OtherText}, AppendEntry(op, text, durable)
        PROVE  FALSE
    BY <1>1, <2>4, LogConstants, AppendStep
  <2>5. CASE Resume
    BY <2>3, <2>5 DEF Resume
  <2>6. ASSUME NEW max_loss \in 1 .. MaxLog, Scan(max_loss)
        PROVE  Exact
    BY <2>2, <2>3, <2>6 DEF Scan
  <2>7. ASSUME NEW target \in 0 .. Len(log), Rollback(target)
        PROVE  FALSE
    BY <1>1, <2>7 DEF Rollback
  <2>8. CASE Fault
    <3>1. PICK i \in DOMAIN log, what \in Ops \cup Wreckage : Damage(i, what)
      BY <2>8 DEF Fault, Crash, Rot
    <3>2. i \in 1 .. Len(log) /\ acked' = acked
      BY <2>1, <2>8 DEF Fault
    <3>3. /\ LogInv'
          /\ ValidLength(log') =
               IF i <= ValidLength(log) THEN i - 1 ELSE ValidLength(log)
      BY <1>1, <3>1, <3>2, LogConstants, DamageStep
    <3>4. log' \in Seq(Entries) /\ Len(log') = Len(log)
      <4>1. log' = [log EXCEPT ![i].op = what]
        BY <3>1 DEF Damage
      <4>2. QED
        BY <2>1, <3>3, <4>1 DEF LogInv, LogShape
    <3>5. Replays(log') <=> ValidLength(log') = Len(log')
      BY <3>4, ReplaysIffValid
    <3>6. QED
      BY <1>1, <2>2, <3>2, <3>3, <3>4, <3>5
  <2>9. CASE UNCHANGED vars
    BY <1>1, <2>9 DEF vars
  <2>10. QED
    BY <1>1, <2>4, <2>5, <2>6, <2>7, <2>8, <2>9 DEF LogNext
<1>2. LogInv /\ [LogNext]_vars => [A]_vars
  BY <1>1
<1>3. QED
  BY <1>2, LogInvariance, PTL DEF LogSpec, RepairExact

-----------------------------------------------------------------------------
\* The fold of replay and the last writer of each identity.

Touching(ops, n, id) == {i \in 1 .. n : Identity[ops[i].rec] = id}
LastOp(ops, n, id) ==
    CHOOSE i \in Touching(ops, n, id) : \A j \in Touching(ops, n, id) : j <= i
Live(ops, n) ==
    {id \in {Identity[r] : r \in Records} :
       Touching(ops, n, id) # {} /\ ops[LastOp(ops, n, id)].kind = "put"}
LastWritten(ops, n) == [id \in Live(ops, n) |-> ops[LastOp(ops, n, id)].rec]

\* One operation more changes the last writer of its own identity.
LEMMA OneMore ==
    ASSUME NEW ops \in Seq(Ops), NEW n \in 1 .. Len(ops)
    PROVE  LastWritten(ops, n) = Apply(LastWritten(ops, n - 1), ops[n])
<1> DEFINE own == Identity[ops[n].rec]
           All == {Identity[r] : r \in Records}
<1>1. ops[n] \in Ops /\ own \in All
  <2>1. ops[n] \in Ops
    BY ElementOfSeq
  <2>2. QED
    BY <2>1 DEF Ops
<1>2. n \in 1 .. n /\ \A i \in 1 .. n : i \in 1 .. n - 1 \/ i = n
  OBVIOUS
<1>3. \A i \in 1 .. n - 1 : i \in 1 .. n /\ i # n
  OBVIOUS
<1>4. n \in Touching(ops, n, own) /\ \A j \in Touching(ops, n, own) : j <= n
  BY <1>2 DEF Touching
<1>5. LastOp(ops, n, own) = n
  <2>1. \A i \in Touching(ops, n, own) :
           (\A j \in Touching(ops, n, own) : j <= i) => i = n
    <3>1. \A i \in Touching(ops, n, own) : i \in 1 .. n
      BY DEF Touching
    <3>2. QED
      BY <1>4, <3>1
  <2>2. QED
    BY <1>4, <2>1 DEF LastOp
<1>6. \A id : id # own => Touching(ops, n, id) = Touching(ops, n - 1, id)
  BY <1>2, <1>3 DEF Touching
<1>7. \A id : id # own => LastOp(ops, n, id) = LastOp(ops, n - 1, id)
  BY <1>6 DEF LastOp
<1>8. \A id \in All : id # own => (id \in Live(ops, n) <=> id \in Live(ops, n - 1))
  BY <1>6, <1>7 DEF Live
<1>9. own \in Live(ops, n) <=> ops[n].kind = "put"
  BY <1>1, <1>4, <1>5 DEF Live
<1> DEFINE before == LastWritten(ops, n - 1)
<1>10. /\ DOMAIN before = Live(ops, n - 1)
       /\ \A id \in Live(ops, n - 1) : before[id] = ops[LastOp(ops, n - 1, id)].rec
  BY DEF LastWritten
<1>11. Live(ops, n) \subseteq All /\ Live(ops, n - 1) \subseteq All
  BY DEF Live
<1>12. CASE ops[n].kind = "put"
  <2>1. Live(ops, n) = Live(ops, n - 1) \cup {own}
    BY <1>1, <1>8, <1>9, <1>11, <1>12
  <2>2. \A id \in Live(ops, n) :
           ops[LastOp(ops, n, id)].rec = IF id = own THEN ops[n].rec ELSE before[id]
    BY <1>5, <1>7, <1>10, <2>1
  <2>3. Apply(before, ops[n]) =
          [id \in Live(ops, n) |-> IF id = own THEN ops[n].rec ELSE before[id]]
    <3> HIDE DEF before
    <3>1. QED
      BY <1>10, <1>12, <2>1 DEF Apply
  <2>4. QED
    BY <2>2, <2>3, ZenonT(60) DEF LastWritten
<1>13. CASE ops[n].kind # "put"
  <2>1. Live(ops, n) = Live(ops, n - 1) \ {own}
    BY <1>1, <1>8, <1>9, <1>11, <1>13
  <2>2. \A id \in Live(ops, n) : ops[LastOp(ops, n, id)].rec = before[id]
    BY <1>7, <1>10, <2>1
  <2>3. Apply(before, ops[n]) = [id \in Live(ops, n) |-> before[id]]
    <3> HIDE DEF before
    <3>1. QED
      BY <1>10, <1>13, <2>1 DEF Apply
  <2>4. QED
    BY <2>2, <2>3 DEF LastWritten
<1>14. QED
  BY <1>12, <1>13

\* The fold is the last writer, by induction over the operations applied.
LEMMA FoldIsLastWriter ==
    ASSUME NEW ops \in Seq(Ops)
    PROVE  StateOf(ops) = LastWritten(ops, Len(ops))
<1> DEFINE N == Len(ops)
           Fold(f) == f = [n \in 0 .. N |->
               IF n = 0 THEN [i \in {} |-> 0] ELSE Apply(f[n - 1], ops[n])]
           written == [n \in 0 .. N |-> LastWritten(ops, n)]
<1>1. N \in Nat
  OBVIOUS
<1>2. LastWritten(ops, 0) = [i \in {} |-> 0]
  <2>1. Live(ops, 0) = {}
    BY DEF Live, Touching
  <2>2. QED
    BY <2>1 DEF LastWritten
<1>3. \A n \in 0 .. N : n = 0 \/ (n \in 1 .. N /\ n - 1 \in 0 .. N)
  BY <1>1
<1>4. Fold(written)
  <2>1. \A n \in 0 .. N : LastWritten(ops, n) =
           IF n = 0 THEN [i \in {} |-> 0] ELSE Apply(written[n - 1], ops[n])
    <3>1. ASSUME NEW n \in 1 .. N
          PROVE  LastWritten(ops, n) = Apply(written[n - 1], ops[n])
      <4>1. n - 1 \in 0 .. N
        BY <1>1
      <4>2. written[n - 1] = LastWritten(ops, n - 1)
        BY <4>1
      <4>3. QED
        BY <4>2, OneMore
    <3>2. QED
      BY <1>2, <1>3, <3>1
  <2>2. QED
    BY <2>1
<1>5. ASSUME NEW f, Fold(f)
      PROVE  \A n \in 0 .. N : f[n] = LastWritten(ops, n)
  <2> DEFINE Wrong == {n \in 0 .. N : f[n] # LastWritten(ops, n)}
  <2>1. \A n \in 0 .. N :
           f[n] = IF n = 0 THEN [i \in {} |-> 0] ELSE Apply(f[n - 1], ops[n])
    BY <1>5
  <2>2. SUFFICES ASSUME Wrong # {}
                 PROVE  FALSE
    OBVIOUS
  <2>3. Wrong \in SUBSET Nat
    BY <1>1
  <2>4. PICK m \in Wrong : \A n \in Wrong : m <= n
    <3> HIDE DEF Wrong
    <3>1. QED
      BY <2>2, <2>3, LeastNatural
  <2>5. m \in 0 .. N /\ f[m] # LastWritten(ops, m)
    BY <2>4
  <2>6. m # 0
    BY <1>2, <2>1, <2>5
  <2>7. m \in 1 .. N /\ m - 1 \in 0 .. N
    BY <1>3, <2>5, <2>6
  <2>8. f[m - 1] = LastWritten(ops, m - 1)
    <3>1. m - 1 \in Wrong => m <= m - 1
      <4> HIDE DEF Wrong
      <4>1. QED
        BY <2>4
    <3>2. m - 1 \notin Wrong
      BY <2>7, <3>1
    <3>3. QED
      BY <2>7, <3>2
  <2>9. f[m] = Apply(f[m - 1], ops[m])
    BY <2>1, <2>5, <2>6
  <2>10. QED
    BY <2>5, <2>7, <2>8, <2>9, OneMore
<1> DEFINE after == CHOOSE f : Fold(f)
<1>6. Fold(after)
  <2> HIDE DEF Fold
  <2>1. QED
    BY <1>4
<1>7. after[N] = LastWritten(ops, N)
  <2> HIDE DEF Fold, after
  <2>1. QED
    BY <1>1, <1>5, <1>6
<1>8. StateOf(ops) = after[N]
  BY DEF StateOf
<1>9. QED
  BY <1>7, <1>8

\* As long as only crashes happen a reader gets everything that is durable, in
\* order, and of what the log says the last writer's state (wal.py replay,
\* crash_resume.py).
THEOREM ReadersGetDurable ==
    ASSUME LogConstants, Crashing PROVE LogSpec => []DurableReads
<1>1. ASSUME DurableInv
      PROVE  DurableReads
  <2>1. /\ log \in Seq(Entries) /\ acked \in Seq(Ops)
        /\ Len(acked) <= ValidLength(log) /\ AckedIntact
    BY <1>1 DEF DurableInv, LogInv, LogShape
  <2>2. Visible = Read(log)
    BY DEF Visible, Read
  <2>3. /\ Visible \in Seq(Ops) /\ Len(Visible) = ValidLength(log)
        /\ \A i \in 1 .. ValidLength(log) : Visible[i] = log[i].op
    BY <2>1, <2>2, ReadProperties
  <2>4. Durable
    <3> DEFINE n == Len(acked)
               p == SubSeq(Visible, 1, n)
    <3>1. \A i \in 1 .. n : i \in 1 .. Len(Visible)
      BY <2>1, <2>3
    <3>2. \A i \in 1 .. n : Visible[i] \in Ops /\ Visible[i] = acked[i]
      <4>1. \A i \in 1 .. n : Visible[i] \in Ops
        BY <2>3, <3>1, ElementOfSeq
      <4>2. \A i \in 1 .. n : Visible[i] = acked[i]
        BY <2>1, <2>3, <3>1 DEF AckedIntact
      <4>3. QED
        BY <4>1, <4>2
    <3> HIDE DEF Ops
    <3>3. p \in Seq(Ops) /\ Len(p) = n /\ \A i \in 1 .. n : p[i] = acked[i]
      BY <2>1, <3>2
    <3> HIDE DEF p
    <3>4. p = acked
      BY <2>1, <3>3, SeqEqual
    <3>5. SubSeq(acked, 1, Len(acked)) = acked
      BY <2>1, SubSeqFull
    <3>6. QED
      BY <2>1, <2>3, <3>4, <3>5 DEF Durable, IsPrefix, p
  <2>5. LastWriterState
    <3>1. StateOf(Visible) = LastWritten(Visible, Len(Visible))
      BY <2>3, FoldIsLastWriter
    <3>2. DOMAIN Visible = 1 .. Len(Visible)
      BY <2>3
    <3> HIDE DEF Visible
    <3>3. QED
      BY <3>1, <3>2, SMTT(120) DEF LastWriterState, LastWritten, Live, LastOp, Touching
  <2>6. QED
    BY <2>4, <2>5 DEF DurableReads
<1>2. QED
  BY <1>1, DurableInvariance, PTL

-----------------------------------------------------------------------------
\* Keyed appends.

Link(op) == <<op.kind, op.rec>>

\* Where the log replays, an id spells the operations up to its entry.
LEMMA IdsSpellOps ==
    ASSUME NEW l \in Seq(Entries), Replays(l)
    PROVE  \A n \in 1 .. Len(l) :
             /\ l[n].op \in Ops
             /\ Len(l[n].id) = n
             /\ \A j \in 1 .. n : l[n].id[j] = Link(l[j].op)
<1> DEFINE Spelt(n) == Len(l[n].id) = n /\ \A j \in 1 .. n : l[n].id[j] = Link(l[j].op)
           Wrong == {n \in 1 .. Len(l) : ~ Spelt(n)}
<1>1. Len(l) \in Nat /\ Len(l) \in 0 .. Len(l)
  OBVIOUS
<1>2. \A n \in 1 .. Len(l) : Sound(l, n)
  BY <1>1, WholeReplays
<1>3. \A n \in 1 .. Len(l) : l[n] \in Entries /\ l[n].op \in Ops
  BY <1>2, ElementOfSeq DEF Sound, Rederives
<1>4. SUFFICES ASSUME Wrong # {}
               PROVE  FALSE
  BY <1>3
<1>5. PICK m \in Wrong : \A n \in Wrong : m <= n
  <2>1. Wrong \in SUBSET Nat
    BY <1>1
  <2> HIDE DEF Wrong
  <2>2. QED
    BY <1>4, <2>1, LeastNatural
<1>6. m \in 1 .. Len(l) /\ ~ Spelt(m)
  BY <1>5
<1> DEFINE before == IF m = 1 THEN Genesis ELSE l[m - 1].id
<1>7. l[m].id = Append(before, Link(l[m].op))
  BY <1>2, <1>6 DEF Sound, Rederives, Derive, Link
<1>8. /\ before \in Seq(Links) /\ Len(before) = m - 1
      /\ \A j \in 1 .. m - 1 : before[j] = Link(l[j].op)
  <2>1. CASE m = 1
    BY <2>1 DEF Genesis
  <2>2. CASE m # 1
    <3>1. m - 1 \in 1 .. Len(l) /\ ~ (m <= m - 1)
      BY <1>1, <1>6, <2>2
    <3>2. Spelt(m - 1)
      BY <1>5, <3>1
    <3>3. l[m - 1].id \in Seq(Links)
      BY <1>3, <3>1 DEF Entries, Chains
    <3>4. QED
      BY <2>2, <3>2, <3>3
  <2>3. QED
    BY <2>1, <2>2
<1> HIDE DEF before
<1>9. Link(l[m].op) \in Links
  BY <1>3, <1>6 DEF Link, Links, Ops
<1>10. /\ Len(l[m].id) = m
       /\ \A j \in 1 .. m - 1 : l[m].id[j] = before[j]
       /\ l[m].id[m] = Link(l[m].op)
  <2>1. (m - 1) + 1 = m
    BY <1>6
  <2>2. QED
    BY <1>7, <1>8, <1>9, <2>1, AppendProperties
<1>11. \A j \in 1 .. m : j \in 1 .. m - 1 \/ j = m
  BY <1>6
<1>12. Spelt(m)
  BY <1>8, <1>10, <1>11
<1>13. QED
  BY <1>6, <1>12

\* A receipt stands for the history its key was committed with.
StandsFor(r, history) ==
    /\ history \in Seq(Ops) /\ history # <<>>
    /\ r.sequence = Len(history)
    /\ r.fingerprint = history[Len(history)]
    /\ Len(r.entry) = Len(history)
    /\ \A j \in 1 .. Len(history) : r.entry[j] = Link(history[j])

Receipts == [key : IdemKeys, fingerprint : Ops, entry : Chains, sequence : Nat]

IdemInv ==
    /\ LogInv
    /\ Replays(log)
    /\ ledger \in Seq(Receipts)
    /\ origin \in [IdemKeys -> Seq(Ops)]
    /\ undone \subseteq IdemKeys
    /\ \A i \in 1 .. Len(ledger) : StandsFor(ledger[i], origin[ledger[i].key])
    /\ \A key \in IdemKeys : origin[key] # <<>> => Stored(key) # {}
    /\ LedgerFollows

LEMMA OpsOfProperties ==
    ASSUME NEW l \in Seq(Entries), Replays(l)
    PROVE  /\ OpsOf(l) \in Seq(Ops)
           /\ Len(OpsOf(l)) = Len(l)
           /\ \A i \in 1 .. Len(l) : OpsOf(l)[i] = l[i].op
<1> DEFINE O(i) == l[i].op
<1>1. Len(l) \in Nat /\ DOMAIN l = 1 .. Len(l)
  OBVIOUS
<1>2. \A i \in 1 .. Len(l) : O(i) \in Ops
  BY IdsSpellOps
<1>3. OpsOf(l) = [i \in 1 .. Len(l) |-> O(i)]
  BY <1>1 DEF OpsOf
<1> HIDE DEF O, Ops
<1>4. OpsOf(l) \in [1 .. Len(l) -> Ops] /\ \A i \in 1 .. Len(l) : OpsOf(l)[i] = O(i)
  BY <1>2, <1>3
<1>5. OpsOf(l) \in Seq(Ops) /\ Len(OpsOf(l)) = Len(l)
  BY <1>1, <1>4
<1>6. QED
  BY <1>4, <1>5 DEF O

\* A valid receipt names a history the log still begins with.
LEMMA ReceiptTellsHistory ==
    ASSUME NEW l \in Seq(Entries), Replays(l), NEW r, NEW history,
           StandsFor(r, history), r.sequence <= Len(l),
           l[r.sequence].id = r.entry
    PROVE  IsPrefix(history, OpsOf(l))
<1> DEFINE n == Len(history)
           ops == OpsOf(l)
<1>1. history \in Seq(Ops) /\ n \in Nat /\ n # 0 /\ r.sequence = n
  BY EmptySeq DEF StandsFor
<1>2. ops \in Seq(Ops) /\ Len(ops) = Len(l) /\ \A i \in 1 .. Len(l) : ops[i] = l[i].op
  BY OpsOfProperties
<1>3. n \in 1 .. Len(l)
  BY <1>1
<1>4. \A j \in 1 .. n : Link(l[j].op) = Link(history[j])
  <2>1. \A j \in 1 .. n : l[n].id[j] = Link(l[j].op)
    BY <1>3, IdsSpellOps
  <2>2. l[n].id = r.entry
    BY <1>1
  <2>3. \A j \in 1 .. n : r.entry[j] = Link(history[j])
    BY DEF StandsFor
  <2>4. QED
    BY <2>1, <2>2, <2>3
<1>5. ASSUME NEW j \in 1 .. n
      PROVE  ops[j] = history[j]
  <2>1. j \in 1 .. Len(l)
    BY <1>3
  <2>2. l[j].op \in Ops /\ history[j] \in Ops
    BY <1>1, <2>1, IdsSpellOps, ElementOfSeq
  <2>3. l[j].op.kind = history[j].kind /\ l[j].op.rec = history[j].rec
    <3>1. <<l[j].op.kind, l[j].op.rec>> = <<history[j].kind, history[j].rec>>
      BY <1>4 DEF Link
    <3>2. QED
      BY <3>1
  <2>4. l[j].op = history[j]
    BY <2>2, <2>3 DEF Ops
  <2>5. QED
    BY <1>2, <2>1, <2>4
<1>6. SubSeq(history, 1, n) = history
  BY <1>1, SubSeqFull
<1>7. SubSeq(ops, 1, n) = history
  <2> DEFINE c == SubSeq(ops, 1, n)
  <2>1. \A i \in 1 .. n : ops[i] \in Ops
    BY <1>2, <1>3, ElementOfSeq
  <2>2. c \in Seq(Ops) /\ Len(c) = n /\ \A i \in 1 .. n : c[i] = ops[i]
    <3> HIDE DEF ops, n, Ops
    <3>1. QED
      BY <1>1, <2>1
  <2> HIDE DEF c, ops, n, Ops
  <2>3. \A i \in 1 .. n : c[i] = history[i]
    BY <1>5, <2>2
  <2>4. Len(c) = Len(history)
    BY <2>2 DEF n
  <2>5. c = history
    BY <1>1, <2>2, <2>3, <2>4, SeqEqual
  <2>6. QED
    BY <2>5 DEF c
<1>8. Len(history) <= Len(ops)
  BY <1>2, <1>3
<1>9. QED
  BY <1>6, <1>7, <1>8 DEF IsPrefix

\* A receipt's place is the place of an entry, and stays so under more entries.
LEMMA ReceiptsFollow ==
    ASSUME NEW l \in Seq(Entries), NEW g \in Seq(Entries),
           NEW stored \in Seq(Receipts), LedgerValid(stored, l),
           \A i \in 1 .. Len(stored) :
              stored[i].sequence # 0 /\ stored[i].sequence <= Len(g),
           \A i \in 1 .. Len(l) : i <= Len(g) => g[i] = l[i]
    PROVE  LedgerValid(stored, g)
<1>1. DOMAIN stored = 1 .. Len(stored) /\ Len(l) \in Nat /\ Len(g) \in Nat
  OBVIOUS
<1>2. \A i \in 1 .. Len(stored) : stored[i].sequence \in Nat
  <2>1. \A i \in 1 .. Len(stored) : stored[i] \in Receipts
    BY ElementOfSeq
  <2>2. \A r \in Receipts : r.sequence \in Nat
    BY DEF Receipts
  <2>3. QED
    BY <2>1, <2>2
<1>3. \A i \in 1 .. Len(stored) :
        /\ stored[i].sequence \in 1 .. Len(l)
        /\ g[stored[i].sequence] = l[stored[i].sequence]
  <2>1. SUFFICES ASSUME NEW i \in 1 .. Len(stored)
                 PROVE  /\ stored[i].sequence \in 1 .. Len(l)
                        /\ g[stored[i].sequence] = l[stored[i].sequence]
    OBVIOUS
  <2>2. stored[i].sequence <= Len(l)
    BY <1>1 DEF LedgerValid
  <2> DEFINE k == stored[i].sequence
  <2>3. k \in Nat /\ k # 0 /\ k <= Len(l) /\ k <= Len(g)
    BY <1>2, <2>2
  <2> HIDE DEF k
  <2>4. k \in 1 .. Len(l) /\ g[k] = l[k]
    BY <1>1, <2>3
  <2>5. QED
    BY <2>4 DEF k
<1>4. QED
  BY <1>1, <1>3 DEF LedgerValid

\* The entry of a key that was not seen, and its receipt.
LEMMA ReceiptAdded ==
    ASSUME NEW g \in Seq(Entries), Len(g) # 0,
           NEW stored \in Seq(Receipts), LedgerValid(stored, g),
           \A i \in 1 .. Len(stored) : stored[i].sequence < Len(g),
           NEW r \in Receipts,
           \A i \in 1 .. Len(stored) : stored[i].key # r.key,
           r.sequence = Len(g), r.entry = g[Len(g)].id,
           r.fingerprint = g[Len(g)].op
    PROVE  LedgerValid(Append(stored, r), g)
<1> DEFINE m == Len(stored)
           after == Append(stored, r)
<1>1. /\ after \in Seq(Receipts) /\ Len(after) = m + 1 /\ m \in Nat
      /\ after[m + 1] = r
      /\ \A i \in 1 .. m : after[i] = stored[i]
  BY AppendProperties
<1>2. DOMAIN after = 1 .. m + 1 /\ DOMAIN stored = 1 .. m
  BY <1>1
<1>3. \A i \in 1 .. m + 1 : i \in 1 .. m \/ i = m + 1
  BY <1>1
<1>4. \A i \in 1 .. m : after[i].key # r.key /\ after[i].sequence < Len(g)
  BY <1>1
<1>5. Len(g) \in Nat /\ after[m + 1].key = r.key /\ after[m + 1].sequence = Len(g)
  BY <1>1
<1>6. \A i, j \in 1 .. m :
        /\ after[i].key = after[j].key => i = j
        /\ i < j => after[i].sequence < after[j].sequence
  BY <1>1, <1>2 DEF LedgerValid
<1>7. \A i \in 1 .. m :
        /\ after[i].sequence <= Len(g)
        /\ g[after[i].sequence].id = after[i].entry
        /\ g[after[i].sequence].op = after[i].fingerprint
  BY <1>1, <1>2 DEF LedgerValid
<1>8. /\ after[m + 1].sequence <= Len(g)
      /\ g[after[m + 1].sequence].id = after[m + 1].entry
      /\ g[after[m + 1].sequence].op = after[m + 1].fingerprint
  BY <1>1
<1> HIDE DEF after, m
<1>9. \A i, j \in 1 .. m + 1 :
        /\ after[i].key = after[j].key => i = j
        /\ i < j => after[i].sequence < after[j].sequence
  <2>1. SUFFICES ASSUME NEW i \in 1 .. m + 1, NEW j \in 1 .. m + 1
                 PROVE  /\ after[i].key = after[j].key => i = j
                        /\ i < j => after[i].sequence < after[j].sequence
    OBVIOUS
  <2>2. CASE i \in 1 .. m /\ j \in 1 .. m
    BY <1>6, <2>2
  <2>3. CASE i \in 1 .. m /\ j = m + 1
    BY <1>4, <1>5, <2>3
  <2>4. CASE i = m + 1 /\ j \in 1 .. m
    BY <1>1, <1>4, <1>5, <2>4
  <2>5. CASE i = m + 1 /\ j = m + 1
    BY <1>1, <2>5
  <2>6. QED
    BY <1>3, <2>2, <2>3, <2>4, <2>5
<1>10. \A i \in 1 .. m + 1 :
        /\ after[i].sequence <= Len(g)
        /\ g[after[i].sequence].id = after[i].entry
        /\ g[after[i].sequence].op = after[i].fingerprint
  BY <1>3, <1>7, <1>8
<1>11. LedgerValid(after, g)
  BY <1>2, <1>9, <1>10 DEF LedgerValid
<1>12. QED
  BY <1>11 DEF after

\* An append behind the ledger's back or through it: the log as the ledger sees
\* it afterwards.
LEMMA LogGrown ==
    ASSUME LogConstants, IdemInv, NEW op \in Ops, AppendEntry(op, op.rec, FALSE)
    PROVE  /\ LogInv' /\ Replays(log') /\ log' \in Seq(Entries)
           /\ Len(log) \in Nat /\ Len(log') = Len(log) + 1
           /\ log'[Len(log')].op = op
           /\ \A i \in 1 .. Len(log) : log'[i] = log[i]
<1>1. LogInv /\ op.rec \in {op.rec, OtherText} /\ FALSE \in BOOLEAN
  BY DEF IdemInv
<1>2. /\ LogInv' /\ ValidLength(log') = Len(log')
      /\ Len(log') = Len(log) + 1 /\ log'[Len(log) + 1].op = op
      /\ \A i \in 1 .. Len(log) : log'[i] = log[i]
  <2> DEFINE text == op.rec
             durable == FALSE
  <2>1. text \in {op.rec, OtherText} /\ durable \in BOOLEAN
    OBVIOUS
  <2>2. AppendEntry(op, text, durable)
    OBVIOUS
  <2> HIDE DEF text, durable
  <2>3. /\ LogInv' /\ (text = op.rec => ValidLength(log') = Len(log'))
        /\ Len(log') = Len(log) + 1 /\ log'[Len(log) + 1].op = op
        /\ \A i \in 1 .. Len(log) : log'[i] = log[i]
    BY LogConstants, <1>1, <2>1, <2>2, AppendStep
  <2>4. QED
    BY <2>3 DEF text
<1>3. log \in Seq(Entries) /\ log' \in Seq(Entries)
  BY <1>1, <1>2 DEF LogInv, LogShape
<1>4. Replays(log')
  BY <1>2, <1>3, ReplaysIffValid
<1>5. QED
  BY <1>2, <1>3, <1>4

\* The log changed, the receipts did not.
LEMMA ReceiptsStay ==
    ASSUME IdemInv, LogInv', Replays(log'),
           ledger' = ledger, origin' = origin,
           undone' \subseteq IdemKeys, LedgerFollows'
    PROVE  IdemInv'
<1>2. \A key \in IdemKeys : Stored(key)' = Stored(key)
  BY DEF Stored
<1>3. \A i \in 1 .. Len(ledger') : StandsFor(ledger'[i], origin'[ledger'[i].key])
  BY DEF IdemInv
<1>4. \A key \in IdemKeys : origin'[key] # <<>> => Stored(key)' # {}
  BY <1>2 DEF IdemInv
<1>5. ledger' \in Seq(Receipts) /\ origin' \in [IdemKeys -> Seq(Ops)]
  BY DEF IdemInv
<1>6. QED
  BY <1>3, <1>4, <1>5 DEF IdemInv

\* A receipt names a place, that of the last operation of its history.
LEMMA ReceiptPlaces ==
    ASSUME IdemInv, NEW i \in 1 .. Len(ledger)
    PROVE  /\ ledger[i].key \in IdemKeys
           /\ ledger[i].sequence = Len(origin[ledger[i].key])
           /\ ledger[i].sequence \in Nat /\ ledger[i].sequence # 0
<1>1. ledger[i] \in Receipts
  BY ElementOfSeq DEF IdemInv
<1>2. StandsFor(ledger[i], origin[ledger[i].key])
  BY DEF IdemInv
<1>3. ledger[i].key \in IdemKeys /\ ledger[i].sequence \in Nat
  BY <1>1 DEF Receipts
<1>4. QED
  <2> DEFINE h == origin[ledger[i].key]
  <2>1. h \in Seq(Ops) /\ h # <<>> /\ ledger[i].sequence = Len(h)
    BY <1>2 DEF StandsFor
  <2> HIDE DEF h
  <2>2. Len(h) # 0
    BY <2>1, EmptySeq
  <2>3. QED
    BY <1>3, <2>1, <2>2 DEF h

LEMMA AppendBareKeeps ==
    ASSUME LogConstants, IdemInv, NEW op \in Ops, AppendBare(op)
    PROVE  IdemInv'
<1>1. AppendEntry(op, op.rec, FALSE)
      /\ ledger' = ledger /\ origin' = origin /\ undone' = undone
  BY DEF AppendBare
<1>2. /\ LogInv' /\ Replays(log') /\ log' \in Seq(Entries)
      /\ Len(log) \in Nat /\ Len(log') = Len(log) + 1
      /\ \A i \in 1 .. Len(log) : log'[i] = log[i]
  BY <1>1, LogConstants, LogGrown
<1>3. log \in Seq(Entries) /\ ledger \in Seq(Receipts) /\ undone \subseteq IdemKeys
  BY DEF IdemInv, LogInv, LogShape
<1>4. LedgerFollows'
  <2>1. SUFFICES ASSUME undone = {}
                 PROVE  LedgerValid(ledger, log')
    BY <1>1 DEF LedgerFollows
  <2>2. LedgerValid(ledger, log)
    BY <2>1 DEF IdemInv, LedgerFollows
  <2>3. \A i \in 1 .. Len(ledger) :
          ledger[i].sequence # 0 /\ ledger[i].sequence <= Len(log')
    <3>1. SUFFICES ASSUME NEW i \in 1 .. Len(ledger)
                   PROVE  ledger[i].sequence # 0 /\ ledger[i].sequence <= Len(log')
      OBVIOUS
    <3>2. ledger[i].sequence <= Len(log)
      BY <1>3, <2>2 DEF LedgerValid
    <3>3. ledger[i].sequence # 0 /\ ledger[i].sequence \in Nat
      BY ReceiptPlaces
    <3>4. QED
      BY <1>2, <3>2, <3>3
  <2>4. QED
    BY <1>2, <1>3, <2>2, <2>3, ReceiptsFollow
<1>5. QED
  BY <1>1, <1>2, <1>3, <1>4, ReceiptsStay

LEMMA RollbackBareKeeps ==
    ASSUME LogConstants, IdemInv, NEW target \in 0 .. Len(log), RollbackBare(target)
    PROVE  IdemInv'
<1>1. /\ Rollback(target) /\ ledger' = ledger /\ origin' = origin
      /\ undone' = undone \cup {key \in IdemKeys : Len(origin[key]) > target}
  BY DEF RollbackBare
<1>2. LogInv /\ log \in Seq(Entries) /\ Replays(log) /\ ledger \in Seq(Receipts)
      /\ undone \subseteq IdemKeys /\ Len(log) \in Nat
  BY DEF IdemInv, LogInv, LogShape
<1>3. log' = Cut(log, target)
      /\ acked' = IF target < Len(acked) THEN Cut(acked, target) ELSE acked
  BY <1>1 DEF Rollback
<1>4. LogInv'
  BY <1>2, <1>3, LogConstants, CutStep
<1>5. /\ log' \in Seq(Entries) /\ Len(log') = target
      /\ \A i \in 1 .. target : log'[i] = log[i]
  BY <1>2, <1>3, CutProperties
<1>6. Replays(log')
  <2>1. \A i \in 1 .. Len(log) : Sound(log, i)
    BY <1>2, WholeReplays
  <2>2. \A i \in 1 .. target : Sound(log, i)
    BY <1>2, <2>1
  <2>3. QED
    BY <1>2, <1>3, <2>2, PrefixReplays
<1>7. LedgerFollows'
  <2>1. SUFFICES ASSUME undone' = {}
                 PROVE  LedgerValid(ledger, log')
    BY <1>1 DEF LedgerFollows
  <2>2. LedgerValid(ledger, log)
    BY <1>1, <2>1 DEF IdemInv, LedgerFollows
  <2>3. \A i \in 1 .. Len(ledger) :
          ledger[i].sequence # 0 /\ ledger[i].sequence <= Len(log')
    <3>1. SUFFICES ASSUME NEW i \in 1 .. Len(ledger)
                   PROVE  ledger[i].sequence # 0 /\ ledger[i].sequence <= Len(log')
      OBVIOUS
    <3> DEFINE key == ledger[i].key
    <3>2. key \in IdemKeys /\ ledger[i].sequence = Len(origin[key])
          /\ ledger[i].sequence \in Nat /\ ledger[i].sequence # 0
      BY ReceiptPlaces
    <3>3. ~ (Len(origin[key]) > target)
      BY <1>1, <2>1, <3>2
    <3>4. QED
      BY <1>5, <3>2, <3>3
  <2>4. \A i \in 1 .. Len(log) : i <= Len(log') => log'[i] = log[i]
    BY <1>5
  <2>5. QED
    BY <1>2, <1>5, <2>2, <2>3, <2>4, ReceiptsFollow
<1>8. undone' \subseteq IdemKeys
  BY <1>1, <1>2
<1>9. QED
  BY <1>1, <1>4, <1>6, <1>7, <1>8, ReceiptsStay

LEMMA ApplyNewKeeps ==
    ASSUME LogConstants, IdemInv, NEW key \in IdemKeys, NEW op \in Ops,
           NEW token, ApplyNew(key, op, token)
    PROVE  IdemInv' /\ origin[key] = <<>>
<1> DEFINE r == [key |-> key, fingerprint |-> op,
                 entry |-> Tip(log'), sequence |-> Len(log')]
           n == Len(log')
           m == Len(ledger)
<1>1. /\ AppendEntry(op, op.rec, FALSE)
      /\ LedgerValid(ledger, log) /\ Stored(key) = {}
      /\ ledger' = Append(ledger, r)
      /\ origin' = [origin EXCEPT ![key] = OpsOf(log')]
      /\ undone' = undone
  BY DEF ApplyNew
<1>2. /\ LogInv' /\ Replays(log') /\ log' \in Seq(Entries)
      /\ Len(log) \in Nat /\ n = Len(log) + 1
      /\ log'[n].op = op
      /\ \A i \in 1 .. Len(log) : log'[i] = log[i]
  BY <1>1, LogConstants, LogGrown
<1>3. /\ log \in Seq(Entries) /\ ledger \in Seq(Receipts) /\ undone \subseteq IdemKeys
      /\ origin \in [IdemKeys -> Seq(Ops)]
      /\ \A k \in IdemKeys : origin[k] # <<>> => Stored(k) # {}
      /\ DOMAIN ledger = 1 .. m
  BY DEF IdemInv, LogInv, LogShape
<1>4. n \in Nat /\ n # 0 /\ n \in 1 .. n
  BY <1>2
<1>5. Tip(log') = log'[n].id
  BY <1>2, <1>4, TipProperties
<1>6. r \in Receipts
  <2>1. log'[n] \in Entries
    BY <1>2, <1>4, ElementOfSeq
  <2>2. Tip(log') \in Chains
    BY <1>5, <2>1 DEF Entries
  <2>3. QED
    BY <1>4, <2>2 DEF Receipts
<1>7. OpsOf(log') \in Seq(Ops) /\ Len(OpsOf(log')) = n
      /\ \A i \in 1 .. n : OpsOf(log')[i] = log'[i].op
  BY <1>2, OpsOfProperties
<1>8. StandsFor(r, OpsOf(log'))
  <2>1. /\ Len(log'[n].id) = n
        /\ \A j \in 1 .. n : log'[n].id[j] = Link(log'[j].op)
    BY <1>2, <1>4, IdsSpellOps
  <2>2. OpsOf(log') # <<>>
    BY <1>4, <1>7, EmptySeq
  <2>3. OpsOf(log')[n] = op
    BY <1>2, <1>4, <1>7
  <2>4. \A j \in 1 .. n : log'[n].id[j] = Link(OpsOf(log')[j])
    BY <1>7, <2>1
  <2>5. r.entry = log'[n].id /\ r.sequence = n /\ r.fingerprint = op
    BY <1>5
  <2> HIDE DEF r, n
  <2>6. QED
    BY <1>7, <2>1, <2>2, <2>3, <2>4, <2>5 DEF StandsFor
<1>9. r.key = key /\ r.fingerprint = op /\ r.entry = log'[n].id /\ r.sequence = n
  BY <1>5
<1> HIDE DEF r
<1>10. /\ ledger' \in Seq(Receipts) /\ Len(ledger') = m + 1 /\ m \in Nat
       /\ ledger'[m + 1] = r
       /\ \A i \in 1 .. m : ledger'[i] = ledger[i]
  BY <1>1, <1>3, <1>6, AppendProperties
<1>11. /\ origin' \in [IdemKeys -> Seq(Ops)]
       /\ origin'[key] = OpsOf(log')
       /\ \A k \in IdemKeys : k # key => origin'[k] = origin[k]
  BY <1>1, <1>3, <1>7
<1>12. \A i \in 1 .. m : ledger[i].key # key
  BY <1>1, <1>3 DEF Stored
<1>13. \A i \in 1 .. m :
         /\ ledger[i].key \in IdemKeys
         /\ StandsFor(ledger[i], origin[ledger[i].key])
         /\ ledger[i].sequence # 0 /\ ledger[i].sequence \in Nat
         /\ ledger[i].sequence <= Len(log)
  <2>1. \A i \in 1 .. m : ledger[i].sequence <= Len(log)
    BY <1>1, <1>3 DEF LedgerValid
  <2>2. QED
    BY <2>1, ReceiptPlaces DEF IdemInv
<1>14. \A i \in 1 .. m + 1 : i \in 1 .. m \/ i = m + 1
  BY <1>10
<1>15. \A i \in 1 .. Len(ledger') : StandsFor(ledger'[i], origin'[ledger'[i].key])
  <2>1. \A i \in 1 .. m : StandsFor(ledger'[i], origin'[ledger'[i].key])
    BY <1>10, <1>11, <1>12, <1>13
  <2>2. StandsFor(ledger'[m + 1], origin'[ledger'[m + 1].key])
    BY <1>8, <1>9, <1>10, <1>11
  <2>3. QED
    BY <1>10, <1>14, <2>1, <2>2
<1>16. \A k \in IdemKeys : origin'[k] # <<>> => Stored(k)' # {}
  <2>1. DOMAIN ledger' = 1 .. m + 1
    BY <1>10
  <2>2. m + 1 \in 1 .. m + 1 /\ \A i \in 1 .. m : i \in 1 .. m + 1
    BY <1>10
  <2>3. Stored(key)' # {}
    BY <1>9, <1>10, <2>1, <2>2 DEF Stored
  <2>4. \A k \in IdemKeys : Stored(k) \subseteq Stored(k)'
    BY <1>3, <1>10, <2>1, <2>2 DEF Stored
  <2>5. QED
    BY <1>3, <1>11, <2>3, <2>4
<1>17. LedgerValid(ledger', log')
  <2>1. \A i \in 1 .. m :
          ledger[i].sequence # 0 /\ ledger[i].sequence <= n /\ ledger[i].sequence < n
    BY <1>2, <1>13
  <2>2. \A i \in 1 .. Len(log) : i <= Len(log') => log'[i] = log[i]
    BY <1>2
  <2>3. LedgerValid(ledger, log')
    BY <1>1, <1>2, <1>3, <2>1, <2>2, ReceiptsFollow
  <2>4. LedgerValid(Append(ledger, r), log')
    BY <1>2, <1>3, <1>4, <1>6, <1>9, <1>12, <2>1, <2>3, ReceiptAdded
  <2>5. QED
    BY <1>1, <2>4
<1>18. LedgerFollows' /\ undone' \subseteq IdemKeys
  BY <1>1, <1>3, <1>17 DEF LedgerFollows
<1>19. origin[key] = <<>>
  BY <1>1, <1>3
<1>20. QED
  BY <1>2, <1>10, <1>11, <1>15, <1>16, <1>18, <1>19 DEF IdemInv

\* Every step of the keyed log keeps the invariant and what a key was committed
\* with.
KeysKept == \A key \in IdemKeys : origin[key] # <<>> => origin'[key] = origin[key]

LEMMA IdemStep ==
    ASSUME LogConstants, IdemInv, [IdemNext]_idemVars
    PROVE  IdemInv' /\ KeysKept
<1>1. ASSUME NEW key \in IdemKeys, NEW op \in Ops, NEW token, ApplyNew(key, op, token)
      PROVE  IdemInv' /\ KeysKept
  <2>1. IdemInv' /\ origin[key] = <<>>
    BY <1>1, LogConstants, ApplyNewKeeps
  <2>2. origin \in [IdemKeys -> Seq(Ops)]
    BY DEF IdemInv
  <2>3. \A k \in IdemKeys : k # key => origin'[k] = origin[k]
    BY <1>1, <2>2 DEF ApplyNew
  <2>4. QED
    BY <2>1, <2>3 DEF KeysKept
<1>2. CASE UNCHANGED idemVars
  <2>1. UNCHANGED <<log, acked, ledger, origin, undone>>
    BY <1>2 DEF idemVars
  <2>2. LogInv'
    BY <2>1 DEF IdemInv, LogInv, LogShape, AckedIntact
  <2>3. Replays(log') /\ undone' \subseteq IdemKeys /\ LedgerFollows'
    BY <2>1 DEF IdemInv, LedgerFollows
  <2>4. QED
    BY <2>1, <2>2, <2>3, ReceiptsStay DEF KeysKept
<1>3. ASSUME NEW key \in IdemKeys, NEW op \in Ops, NEW token, Replay(key, op, token)
      PROVE  IdemInv' /\ KeysKept
  BY <1>2, <1>3 DEF Replay
<1>4. ASSUME NEW op \in Ops, AppendBare(op)
      PROVE  IdemInv' /\ KeysKept
  <2>1. IdemInv'
    BY <1>4, LogConstants, AppendBareKeeps
  <2>2. KeysKept
    BY <1>4 DEF AppendBare, KeysKept
  <2>3. QED
    BY <2>1, <2>2
<1>5. ASSUME NEW target \in 0 .. Len(log), RollbackBare(target)
      PROVE  IdemInv' /\ KeysKept
  <2>1. IdemInv'
    BY <1>5, LogConstants, RollbackBareKeeps
  <2>2. KeysKept
    BY <1>5 DEF RollbackBare, KeysKept
  <2>3. QED
    BY <2>1, <2>2
<1>6. QED
  BY <1>1, <1>2, <1>3, <1>4, <1>5 DEF IdemNext

LEMMA IdemInvariance == ASSUME LogConstants PROVE IdemSpec => []IdemInv
<1>1. IdemInit => IdemInv
  <2>1. SUFFICES ASSUME IdemInit PROVE IdemInv
    OBVIOUS
  <2>2. log = <<>> /\ acked = <<>> /\ ledger = <<>> /\ undone = {}
        /\ origin = [key \in IdemKeys |-> <<>>]
    BY <2>1 DEF IdemInit, LogInit
  <2>3. LogInv
    BY <2>2, EmptySeq DEF LogInv, LogShape, AckedIntact, LogConstants
  <2>4. DOMAIN log = {} /\ DOMAIN ledger = {} /\ Len(ledger) = 0
    BY <2>2, EmptySeq
  <2>5. Replays(log) /\ LedgerValid(ledger, log)
    BY <2>4 DEF Replays, LedgerValid
  <2>6. ledger \in Seq(Receipts) /\ origin \in [IdemKeys -> Seq(Ops)]
    BY <2>2, EmptySeq
  <2>7. \A key \in IdemKeys : origin[key] = <<>>
    BY <2>2
  <2>8. \A i \in 1 .. Len(ledger) : FALSE
    BY <2>4
  <2>9. QED
    BY <2>2, <2>3, <2>5, <2>6, <2>7, <2>8 DEF IdemInv, LedgerFollows
<1>2. IdemInv /\ [IdemNext]_idemVars => IdemInv'
  BY LogConstants, IdemStep
<1>3. QED
  BY <1>1, <1>2, PTL DEF IdemSpec

\* StoreIdempotency's KeyedTrue: the ledger stays valid until a rollback reaches
\* one of its receipts, and while it is valid the log begins with the very
\* history each key was committed with.
THEOREM KeyedStaysTrue == ASSUME LogConstants PROVE IdemSpec => []KeyedTrue
<1>1. IdemInv => KeyedTrue
  <2>1. SUFFICES ASSUME IdemInv, LedgerValid(ledger, log), NEW key \in IdemKeys
                 PROVE  IsPrefix(origin[key], OpsOf(log))
    BY DEF KeyedTrue, AnswersTrue, IdemInv
  <2>2. log \in Seq(Entries) /\ Replays(log) /\ ledger \in Seq(Receipts)
        /\ origin \in [IdemKeys -> Seq(Ops)] /\ DOMAIN ledger = 1 .. Len(ledger)
    BY <2>1 DEF IdemInv, LogInv, LogShape
  <2>3. OpsOf(log) \in Seq(Ops)
    BY <2>2, OpsOfProperties
  <2>4. CASE origin[key] = <<>>
    <3> DEFINE ops == OpsOf(log)
    <3>1. SubSeq(ops, 1, 0) = <<>> /\ Len(ops) \in Nat
      BY <2>3
    <3>2. QED
      BY <2>4, <3>1 DEF IsPrefix
  <2>5. CASE origin[key] # <<>>
    <3>1. PICK i \in 1 .. Len(ledger) : ledger[i].key = key
      BY <2>1, <2>2, <2>5 DEF IdemInv, Stored
    <3>2. StandsFor(ledger[i], origin[key])
      BY <2>1, <3>1 DEF IdemInv
    <3>3. /\ ledger[i].sequence <= Len(log)
          /\ log[ledger[i].sequence].id = ledger[i].entry
      BY <2>1, <2>2 DEF LedgerValid
    <3>4. QED
      BY <2>2, <3>2, <3>3, ReceiptTellsHistory
  <2>6. QED
    BY <2>4, <2>5
<1>2. QED
  BY <1>1, IdemInvariance, PTL

\* StoreIdempotency's CommittedOnce, a part of NothingRewritten: no append, replay
\* or rollback ever lets a key be committed a second time.
THEOREM KeysStayCommitted == ASSUME LogConstants PROVE IdemSpec => CommittedOnce
<1>1. IdemInv /\ [IdemNext]_idemVars => [KeysKept]_idemVars
  BY LogConstants, IdemStep
<1>2. QED
  BY <1>1, IdemInvariance, PTL DEF IdemSpec, CommittedOnce, KeysKept

-----------------------------------------------------------------------------
\* The copies.

\* The head of a log that holds these operations and replays.
ChainOf(ops) == [i \in 1 .. Len(ops) |-> Link(ops[i])]

\* A head names the operations.
LEMMA ChainTells ==
    ASSUME NEW ops \in Seq(Ops), NEW others \in Seq(Ops),
           ChainOf(ops) = ChainOf(others)
    PROVE  ops = others
<1>1. Len(ops) \in Nat /\ Len(others) \in Nat
  OBVIOUS
<1>2. 1 .. Len(ops) = 1 .. Len(others)
  <2>1. DOMAIN ChainOf(ops) = 1 .. Len(ops) /\ DOMAIN ChainOf(others) = 1 .. Len(others)
    BY DEF ChainOf
  <2>2. QED
    BY <2>1
<1>3. Len(ops) = Len(others)
  <2>1. ~ (Len(ops) < Len(others))
    <3>1. Len(ops) < Len(others) => Len(others) \in 1 .. Len(others)
                                    /\ Len(others) \notin 1 .. Len(ops)
      BY <1>1
    <3>2. QED
      BY <1>2, <3>1
  <2>2. ~ (Len(others) < Len(ops))
    <3>1. Len(others) < Len(ops) => Len(ops) \in 1 .. Len(ops)
                                    /\ Len(ops) \notin 1 .. Len(others)
      BY <1>1
    <3>2. QED
      BY <1>2, <3>1
  <2>3. QED
    BY <1>1, <2>1, <2>2
<1>4. ASSUME NEW i \in 1 .. Len(ops)
      PROVE  ops[i] = others[i]
  <2>1. ChainOf(ops)[i] = Link(ops[i]) /\ ChainOf(others)[i] = Link(others[i])
    BY <1>3 DEF ChainOf
  <2>2. <<ops[i].kind, ops[i].rec>> = <<others[i].kind, others[i].rec>>
    BY <2>1 DEF Link
  <2>3. ops[i].kind = others[i].kind /\ ops[i].rec = others[i].rec
    BY <2>2
  <2>4. ops[i] \in Ops /\ others[i] \in Ops
    BY <1>3, ElementOfSeq
  <2>5. ops[i] = [kind |-> ops[i].kind, rec |-> ops[i].rec]
    BY <2>4 DEF Ops
  <2>6. others[i] = [kind |-> others[i].kind, rec |-> others[i].rec]
    BY <2>4 DEF Ops
  <2>7. QED
    BY <2>3, <2>5, <2>6
<1>5. QED
  <2> HIDE DEF Ops
  <2>1. QED
    BY <1>3, <1>4, SeqEqual

LEMMA TipIsChain ==
    ASSUME NEW l \in Seq(Entries), Replays(l)
    PROVE  Tip(l) = ChainOf(OpsOf(l))
<1> DEFINE n == Len(l)
           ops == OpsOf(l)
<1>1. n \in Nat
  OBVIOUS
<1>2. ops \in Seq(Ops) /\ Len(ops) = n /\ \A i \in 1 .. n : ops[i] = l[i].op
  BY OpsOfProperties
<1>3. Tip(l) = IF n = 0 THEN Genesis ELSE l[n].id
  BY TipProperties
<1> HIDE DEF ops
<1>4. CASE n = 0
  <2>1. ChainOf(ops) = [i \in 1 .. 0 |-> Link(ops[i])]
    BY <1>2, <1>4 DEF ChainOf
  <2>2. ChainOf(ops) \in Seq(Links) /\ Len(ChainOf(ops)) = 0
    BY <2>1
  <2>3. QED
    BY <1>3, <1>4, <2>2, EmptySeq DEF Genesis, ops
<1>5. CASE n # 0
  <2> DEFINE chain == l[n].id
  <2>1. n \in 1 .. n
    BY <1>1, <1>5
  <2>2. Len(chain) = n /\ \A j \in 1 .. n : chain[j] = Link(l[j].op)
    BY <2>1, IdsSpellOps
  <2>3. chain \in Seq(Links)
    <3>1. l[n] \in Entries
      BY <2>1, ElementOfSeq
    <3>2. QED
      BY <3>1 DEF Entries, Chains
  <2> HIDE DEF chain
  <2>4. chain = [j \in 1 .. n |-> chain[j]]
    <3> HIDE DEF Links
    <3>1. QED
      BY <2>2, <2>3
  <2>5. ChainOf(ops) = [i \in 1 .. n |-> Link(ops[i])]
    BY <1>2 DEF ChainOf
  <2>6. \A i \in 1 .. n : chain[i] = Link(ops[i])
    BY <1>2, <2>2
  <2>7. chain = ChainOf(ops)
    BY <2>4, <2>5, <2>6
  <2>8. QED
    BY <1>3, <1>5, <2>7 DEF chain, ops
<1>6. QED
  BY <1>4, <1>5

\* What is filed under its own identity.
Filed(s) ==
    /\ DOMAIN s \subseteq Identities
    /\ s = [i \in DOMAIN s |-> s[i]]
    /\ \A i \in DOMAIN s : s[i] \in Records /\ Identity[s[i]] = i

LEMMA StatesFiled == \A s : s \in States <=> Filed(s)
<1>1. ASSUME NEW s \in States
      PROVE  Filed(s)
  <2>1. PICK D \in SUBSET Identities : s \in [D -> Records] /\ \A i \in D : Identity[s[i]] = i
    BY DEF States
  <2>2. DOMAIN s = D
    BY <2>1
  <2>3. s = [i \in D |-> s[i]] /\ \A i \in D : s[i] \in Records
    BY <2>1
  <2>4. QED
    BY <2>1, <2>2, <2>3 DEF Filed
<1>2. ASSUME NEW s, Filed(s)
      PROVE  s \in States
  <2> DEFINE D == DOMAIN s
  <2>1. D \in SUBSET Identities /\ s \in [D -> Records] /\ \A i \in D : Identity[s[i]] = i
    BY <1>2 DEF Filed
  <2> HIDE DEF D
  <2>2. s \in {t \in [D -> Records] : \A i \in D : Identity[t[i]] = i}
    BY <2>1
  <2>3. QED
    BY <2>1, <2>2 DEF States
<1>3. QED
  BY <1>1, <1>2

\* An operation changes at most one record of a state.
LEMMA ApplyFiles ==
    ASSUME NEW s \in States, IsFiniteSet(DOMAIN s), NEW op \in Ops
    PROVE  /\ Apply(s, op) \in States
           /\ IsFiniteSet(DOMAIN Apply(s, op))
           /\ Cardinality(DOMAIN Apply(s, op)) <= Cardinality(DOMAIN s) + 1
<1> DEFINE id == Identity[op.rec]
           D == DOMAIN s
           t == Apply(s, op)
<1>1. Filed(s)
  BY StatesFiled
<1>2. op.rec \in Records /\ id \in Identities
  BY DEF Ops, Identities
<1>3. Cardinality(D) \in Nat
  BY FS_CardinalityType
<1>4. CASE op.kind = "put"
  <2>1. t = [i \in D \cup {id} |-> IF i = id THEN op.rec ELSE s[i]]
    BY <1>4 DEF Apply
  <2>2. DOMAIN t = D \cup {id}
    BY <2>1
  <2>3. Filed(t)
    <3>1. \A i \in D \cup {id} : t[i] \in Records /\ Identity[t[i]] = i
      BY <1>1, <1>2, <2>1 DEF Filed
    <3>2. t = [i \in DOMAIN t |-> t[i]]
      BY <2>1
    <3>3. D \cup {id} \subseteq Identities
      BY <1>1, <1>2 DEF Filed
    <3> HIDE DEF t
    <3>4. QED
      BY <2>2, <3>1, <3>2, <3>3 DEF Filed
  <2> HIDE DEF D, id, t
  <2>4. /\ IsFiniteSet(D \cup {id})
        /\ Cardinality(D \cup {id}) = IF id \in D THEN Cardinality(D) ELSE Cardinality(D) + 1
    BY FS_AddElement DEF D
  <2>5. QED
    BY <1>3, <2>2, <2>3, <2>4, StatesFiled DEF D, t
<1>5. CASE op.kind # "put"
  <2>1. t = [i \in D \ {id} |-> s[i]]
    BY <1>5 DEF Apply
  <2>2. DOMAIN t = D \ {id}
    BY <2>1
  <2>3. Filed(t)
    <3>1. \A i \in D \ {id} : t[i] \in Records /\ Identity[t[i]] = i
      BY <1>1, <2>1 DEF Filed
    <3>2. t = [i \in DOMAIN t |-> t[i]]
      BY <2>1
    <3>3. D \ {id} \subseteq Identities
      BY <1>1 DEF Filed
    <3> HIDE DEF t
    <3>4. QED
      BY <2>2, <3>1, <3>2, <3>3 DEF Filed
  <2> HIDE DEF D, id, t
  <2>4. /\ IsFiniteSet(D \ {id})
        /\ Cardinality(D \ {id}) = IF id \in D THEN Cardinality(D) - 1 ELSE Cardinality(D)
    BY FS_RemoveElement DEF D
  <2>5. QED
    BY <1>3, <2>2, <2>3, <2>4, StatesFiled DEF D, t
<1>6. QED
  BY <1>4, <1>5

\* What a history leaves is filed, and has no more records than operations.
LEMMA StateFiled ==
    ASSUME NEW ops \in Seq(Ops)
    PROVE  /\ StateOf(ops) \in States
           /\ Cardinality(DOMAIN StateOf(ops)) \in 0 .. Len(ops)
<1> DEFINE N == Len(ops)
           S(n) == LastWritten(ops, n)
           Fine(n) == /\ S(n) \in States /\ IsFiniteSet(DOMAIN S(n))
                      /\ Cardinality(DOMAIN S(n)) \in 0 .. n
           Wrong == {n \in 0 .. N : ~ Fine(n)}
<1>1. N \in Nat /\ N \in 0 .. N
  OBVIOUS
<1>2. Fine(0)
  <2>1. Live(ops, 0) = {}
    BY DEF Live, Touching
  <2>2. S(0) = [id \in {} |-> 0]
    BY <2>1 DEF LastWritten
  <2>3. DOMAIN S(0) = {}
    BY <2>2
  <2>4. Filed(S(0))
    BY <2>2, <2>3 DEF Filed
  <2>5. IsFiniteSet({}) /\ Cardinality({}) = 0
    BY FS_EmptySet
  <2>6. S(0) \in States
    BY <2>4, StatesFiled
  <2> HIDE DEF S
  <2>7. QED
    BY <2>3, <2>5, <2>6
<1>3. ASSUME NEW m \in 1 .. N, Fine(m - 1)
      PROVE  Fine(m)
  <2>1. S(m) = Apply(S(m - 1), ops[m])
    BY OneMore
  <2>2. ops[m] \in Ops
    BY ElementOfSeq
  <2> HIDE DEF S, Ops
  <2>3. /\ S(m) \in States /\ IsFiniteSet(DOMAIN S(m))
        /\ Cardinality(DOMAIN S(m)) <= Cardinality(DOMAIN S(m - 1)) + 1
    BY <1>3, <2>1, <2>2, ApplyFiles
  <2>4. Cardinality(DOMAIN S(m)) \in Nat
    BY <2>3, FS_CardinalityType
  <2>5. m \in Nat /\ Cardinality(DOMAIN S(m - 1)) \in 0 .. m - 1
    BY <1>1, <1>3
  <2>6. Cardinality(DOMAIN S(m)) \in 0 .. m
    BY <2>3, <2>4, <2>5
  <2>7. QED
    BY <2>3, <2>6
<1> HIDE DEF Fine
<1>4. Wrong = {}
  <2>1. SUFFICES ASSUME Wrong # {}
                 PROVE  FALSE
    OBVIOUS
  <2>2. Wrong \in SUBSET Nat
    BY <1>1
  <2>3. PICK m \in Wrong : \A n \in Wrong : m <= n
    <3> HIDE DEF Wrong
    <3>1. QED
      BY <2>1, <2>2, LeastNatural
  <2>4. m \in 0 .. N /\ ~ Fine(m)
    BY <2>3
  <2>5. m \in 1 .. N /\ m - 1 \in 0 .. N /\ ~ (m <= m - 1)
    <3>1. m # 0
      BY <1>2, <2>4
    <3>2. QED
      BY <1>1, <2>4, <3>1
  <2>6. Fine(m - 1)
    BY <2>3, <2>5
  <2>7. QED
    BY <1>3, <2>4, <2>5, <2>6
<1>5. Fine(N)
  BY <1>1, <1>4
<1>6. QED
  BY <1>5, FoldIsLastWriter DEF Fine

LEMMA NothingWritten == EmptyState \in States /\ <<>> \in Seq(Ops) /\ ChainOf(<<>>) = Genesis
<1>1. <<>> \in Seq(Ops) /\ Len(<<>>) = 0
  BY EmptySeq
<1>2. EmptyState \in States
  BY <1>1, StateFiled DEF EmptyState
<1>3. ChainOf(<<>>) \in Seq(Links) /\ Len(ChainOf(<<>>)) = 0
  BY <1>1 DEF ChainOf
<1>4. QED
  BY <1>1, <1>2, <1>3, EmptySeq DEF Genesis

\* What is issued is about the history ops.
CopyOf(c, ops) ==
    /\ ops \in Seq(Ops)
    /\ Len(ops) <= MaxLog
    /\ c.head = ChainOf(ops)
    /\ c.sid = StateOf(ops)
    /\ \/ /\ c.kind = "backup"
          /\ c.count = Len(ops)
          /\ c.bundle \in Texts
          /\ c.id = Digest(c.head, c.sid, c.count, c.bundle)
       \/ /\ c.kind = "export"
          /\ c.count = Cardinality(DOMAIN c.sid)
          /\ c.bundle = Canonical(c.sid)

SnapshotInv ==
    /\ LogInv
    /\ \A c \in issued : \E ops : CopyOf(c, ops)

\* The history and the state of a log that replays.
LEMMA LogTold ==
    ASSUME LogInv, Replays(log)
    PROVE  /\ OpsOf(log) \in Seq(Ops)
           /\ Len(OpsOf(log)) = Len(log) /\ Len(log) <= MaxLog
           /\ Tip(log) = ChainOf(OpsOf(log))
           /\ StateOf(OpsOf(log)) \in States
<1>1. log \in Seq(Entries) /\ Len(log) <= MaxLog
  BY DEF LogInv, LogShape
<1>2. OpsOf(log) \in Seq(Ops) /\ Len(OpsOf(log)) = Len(log)
  BY <1>1, OpsOfProperties
<1>3. Tip(log) = ChainOf(OpsOf(log))
  BY <1>1, TipIsChain
<1>4. StateOf(OpsOf(log)) \in States
  BY <1>2, StateFiled
<1>5. QED
  BY <1>1, <1>2, <1>3, <1>4

LEMMA RenderingsAreTexts ==
    ASSUME NEW state \in States, NEW who
    PROVE  Renderings(state, who) \subseteq Texts
<1>1. Canonical(state) \in Texts /\ Canonical(EmptyState) \in Texts
      /\ [canonical |-> FALSE, reads |-> state] \in Texts
  BY NothingWritten DEF Canonical, Texts
<1>2. QED
  BY <1>1 DEF Renderings

LEMMA BackupCopies ==
    ASSUME SnapshotInv, NEW bundle \in Texts, Backup(bundle)
    PROVE  SnapshotInv'
<1> DEFINE ops == OpsOf(log)
           state == StateOf(ops)
           c == [kind |-> "backup", id |-> Digest(Tip(log), state, Len(log), bundle),
                 head |-> Tip(log), sid |-> state, count |-> Len(log), bundle |-> bundle]
<1>1. LogInv /\ Replays(log) /\ log' = log /\ acked' = acked
  BY DEF SnapshotInv, Backup
<1>2. issued' = issued \union {c}
  BY DEF Backup, Receipt
<1>3. /\ ops \in Seq(Ops) /\ Len(ops) = Len(log) /\ Len(log) <= MaxLog
      /\ Tip(log) = ChainOf(ops)
  BY <1>1, LogTold
<1>4. CopyOf(c, ops)
  BY <1>3 DEF CopyOf
<1> HIDE DEF c, ops
<1>5. \A d \in issued' : \E o : CopyOf(d, o)
  BY <1>2, <1>4 DEF SnapshotInv
<1>6. LogInv'
  BY <1>1 DEF LogInv, LogShape, AckedIntact
<1>7. QED
  BY <1>5, <1>6 DEF SnapshotInv

LEMMA ExportCopies ==
    ASSUME SnapshotInv, NEW document \in Texts, Export(document)
    PROVE  SnapshotInv'
<1> DEFINE ops == OpsOf(log)
           state == StateOf(ops)
           c == [kind |-> "export", head |-> Tip(log), sid |-> state,
                 count |-> Cardinality(DOMAIN state), bundle |-> document]
<1>1. LogInv /\ Replays(log) /\ log' = log /\ acked' = acked /\ document = Canonical(state)
  BY DEF SnapshotInv, Export
<1>2. issued' = issued \union {c}
  BY DEF Export
<1>3. /\ ops \in Seq(Ops) /\ Len(ops) = Len(log) /\ Len(log) <= MaxLog
      /\ Tip(log) = ChainOf(ops)
  BY <1>1, LogTold
<1>4. CopyOf(c, ops)
  BY <1>1, <1>3 DEF CopyOf
<1> HIDE DEF c, ops
<1>5. \A d \in issued' : \E o : CopyOf(d, o)
  BY <1>2, <1>4 DEF SnapshotInv
<1>6. LogInv'
  BY <1>1 DEF LogInv, LogShape, AckedIntact
<1>7. QED
  BY <1>5, <1>6 DEF SnapshotInv

LEMMA LogStepsAreSteps == LogSteps => LogNext
<1>1. ASSUME NEW op \in Ops, AppendEntry(op, op.rec, FALSE)
      PROVE  LogNext
  <2>1. op.rec \in Records \cup {OtherText} /\ op.rec \in {op.rec, OtherText}
        /\ FALSE \in BOOLEAN
    BY DEF Ops
  <2>2. QED
    BY <1>1, <2>1 DEF LogNext
<1>2. QED
  BY <1>1 DEF LogSteps, LogNext

LEMMA SnapshotInvariance == ASSUME LogConstants PROVE SnapshotSpec => []SnapshotInv
<1>1. SnapshotInit => SnapshotInv
  BY EmptySeq DEF SnapshotInit, SnapshotInv, LogInit, LogInv, LogShape, AckedIntact,
                  LogConstants
<1>2. ASSUME SnapshotInv, [SnapshotNext]_snapshotVars
      PROVE  SnapshotInv'
  <2>1. CASE LogSteps /\ UNCHANGED issued
    <3>1. LogInv'
      BY <1>2, <2>1, LogConstants, LogStepsAreSteps, LogStep DEF SnapshotInv
    <3>2. QED
      BY <1>2, <2>1, <3>1 DEF SnapshotInv
  <2>2. ASSUME NEW text \in Texts, Backup(text) \/ Export(text)
        PROVE  SnapshotInv'
    BY <1>2, <2>2, BackupCopies, ExportCopies
  <2>3. CASE UNCHANGED snapshotVars
    BY <1>2, <2>3 DEF snapshotVars, SnapshotInv, LogInv, LogShape, AckedIntact
  <2>4. QED
    BY <1>2, <2>1, <2>2, <2>3 DEF SnapshotNext
<1>3. QED
  BY <1>1, <1>2, PTL DEF SnapshotSpec

\* A receipt on the shelf, and what its fields are worth.
LEMMA ReceiptKept ==
    ASSUME LogConstants, SnapshotInv, NEW kept \in KeptReceipts
    PROVE  /\ kept = Receipt(kept.head, kept.sid, kept.count, kept.bundle)
           /\ kept.sid \in States
           /\ Verifies(kept)
<1>1. PICK c \in issued : /\ c.kind = "backup"
                          /\ kept = [id |-> c.id, head |-> c.head, sid |-> c.sid,
                                     count |-> c.count, bundle |-> c.bundle]
  BY DEF KeptReceipts
<1>2. PICK ops : CopyOf(c, ops)
  BY DEF SnapshotInv
<1>3. ops \in Seq(Ops) /\ c.head = ChainOf(ops) /\ c.sid = StateOf(ops)
      /\ c.count = Len(ops) /\ c.id = Digest(c.head, c.sid, c.count, c.bundle)
  BY <1>1, <1>2 DEF CopyOf
<1>4. /\ kept.id = c.id /\ kept.head = c.head /\ kept.sid = c.sid
      /\ kept.count = c.count /\ kept.bundle = c.bundle
  BY <1>1
<1>5. kept = Receipt(kept.head, kept.sid, kept.count, kept.bundle)
  BY <1>1, <1>3, <1>4 DEF Receipt
<1>6. c.sid \in States
  BY <1>3, StateFiled
<1>7. c.count = 0 => c.head = Genesis /\ c.sid = EmptyState
  <2>1. c.count = 0 => ops = <<>>
    BY <1>3, EmptySeq
  <2>2. QED
    BY <1>3, <2>1, NothingWritten DEF EmptyState
<1>8. c.count > 0 => c.head # Genesis
  <2>1. SUFFICES ASSUME c.count > 0, c.head = Genesis
                 PROVE  FALSE
    OBVIOUS
  <2>2. ops = <<>>
    BY <1>3, <2>1, NothingWritten, ChainTells
  <2>3. QED
    BY <1>3, <2>1, <2>2, EmptySeq
<1>9. QED
  BY <1>3, <1>4, <1>5, <1>6, <1>7, <1>8 DEF Verifies

\* A receipt with one field changed has not the id it was given.
LEMMA RottedIsRefused ==
    ASSUME NEW kept, kept = Receipt(kept.head, kept.sid, kept.count, kept.bundle),
           NEW receipt \in Rotted(kept), Verifies(receipt)
    PROVE  receipt = kept
<1> DEFINE h == kept.head
           s == kept.sid
           n == kept.count
           b == kept.bundle
<1>1. kept = [id |-> <<h, s, n, b>>, head |-> h, sid |-> s, count |-> n, bundle |-> b]
  BY DEF Receipt, Digest
<1> HIDE DEF h, s, n, b
<1>2. receipt.id = <<receipt.head, receipt.sid, receipt.count, receipt.bundle>>
  BY DEF Verifies, Digest
<1>3. ASSUME NEW t, receipt = [kept EXCEPT !.sid = t]
      PROVE  receipt = kept
  <2>1. receipt = [id |-> <<h, s, n, b>>, head |-> h, sid |-> t, count |-> n, bundle |-> b]
    BY <1>1, <1>3
  <2>2. <<h, s, n, b>> = <<h, t, n, b>>
    BY <1>2, <2>1
  <2>3. s = t
    BY <2>2
  <2>4. QED
    BY <1>1, <2>1, <2>3
<1>4. ASSUME NEW t, receipt = [kept EXCEPT !.bundle = t]
      PROVE  receipt = kept
  <2>1. receipt = [id |-> <<h, s, n, b>>, head |-> h, sid |-> s, count |-> n, bundle |-> t]
    BY <1>1, <1>4
  <2>2. <<h, s, n, b>> = <<h, s, n, t>>
    BY <1>2, <2>1
  <2>3. b = t
    BY <2>2
  <2>4. QED
    BY <1>1, <2>1, <2>3
<1>5. ASSUME NEW t, receipt = [kept EXCEPT !.count = t]
      PROVE  receipt = kept
  <2>1. receipt = [id |-> <<h, s, n, b>>, head |-> h, sid |-> s, count |-> t, bundle |-> b]
    BY <1>1, <1>5
  <2>2. <<h, s, n, b>> = <<h, s, t, b>>
    BY <1>2, <2>1
  <2>3. n = t
    BY <2>2
  <2>4. QED
    BY <1>1, <2>1, <2>3
<1>6. ASSUME NEW t, receipt = [kept EXCEPT !.head = t]
      PROVE  receipt = kept
  <2>1. receipt = [id |-> <<h, s, n, b>>, head |-> t, sid |-> s, count |-> n, bundle |-> b]
    BY <1>1, <1>6
  <2>2. <<h, s, n, b>> = <<t, s, n, b>>
    BY <1>2, <2>1
  <2>3. h = t
    BY <2>2
  <2>4. QED
    BY <1>1, <2>1, <2>3
<1>7. QED
  BY <1>3, <1>4, <1>5, <1>6 DEF Rotted

\* StoreSnapshots's StatesSurvive: whatever was issued of a log that is appended
\* to, damaged and repaired meanwhile tells a state the log had at that head, the
\* same one for every copy of that head; a receipt restores to that state, a
\* rotted one to none (backup.py, restore.py, export.py).
THEOREM CopiesSurvive == ASSUME LogConstants PROVE SnapshotSpec => []StatesSurvive
<1>1. ASSUME SnapshotInv
      PROVE  StatesSurvive
  <2>1. CopiesTypeOK
    <3>1. SUFFICES ASSUME NEW c \in issued
                   PROVE  c.sid \in States /\ c.bundle \in Texts /\ c.count <= MaxLog
      BY DEF CopiesTypeOK
    <3>2. PICK ops : CopyOf(c, ops)
      BY <1>1 DEF SnapshotInv
    <3>3. ops \in Seq(Ops) /\ Len(ops) <= MaxLog /\ c.sid = StateOf(ops)
      BY <3>2 DEF CopyOf
    <3>4. c.sid \in States /\ Cardinality(DOMAIN c.sid) \in 0 .. Len(ops)
      BY <3>3, StateFiled
    <3>5. Canonical(c.sid) \in Texts
      BY <3>4 DEF Canonical, Texts
    <3>6. Cardinality(DOMAIN c.sid) <= MaxLog /\ Len(ops) \in Nat /\ MaxLog \in Nat
      BY <3>3, <3>4, LogConstants DEF LogConstants
    <3>7. QED
      BY <3>2, <3>3, <3>4, <3>5, <3>6 DEF CopyOf
  <2>2. DocumentsTrue
    <3>1. SUFFICES ASSUME NEW c \in issued, c.kind = "export"
                   PROVE  c.bundle = Canonical(c.sid)
      BY DEF DocumentsTrue
    <3>2. QED
      BY <1>1, <3>1 DEF SnapshotInv, CopyOf
  <2>3. OneStatePerHead
    <3>1. SUFFICES ASSUME NEW c \in issued, NEW d \in issued, c.head = d.head
                   PROVE  c.sid = d.sid
      BY DEF OneStatePerHead
    <3>2. PICK ops : CopyOf(c, ops)
      BY <1>1 DEF SnapshotInv
    <3>3. PICK others : CopyOf(d, others)
      BY <1>1 DEF SnapshotInv
    <3>4. ops = others
      BY <3>1, <3>2, <3>3, ChainTells DEF CopyOf
    <3>5. QED
      BY <3>2, <3>3, <3>4 DEF CopyOf
  <2>4. Restorable
    <3>1. SUFFICES ASSUME NEW kept \in KeptReceipts, kept.bundle = Canonical(kept.sid)
                   PROVE  Restores(kept, kept.sid)
      BY DEF Restorable
    <3>2. QED
      BY <1>1, <3>1, LogConstants, ReceiptKept DEF Restores
  <2>5. RestoredAsTaken
    <3>1. SUFFICES ASSUME NEW kept \in KeptReceipts
                   PROVE
        /\ \A parsed \in States \union Misfiled :
              Restores(kept, parsed) => parsed = kept.sid
        /\ \A receipt \in Rotted(kept) \ {kept} : ~ Verifies(receipt)
        /\ \A receipt \in Forged(kept) :
              receipt.count = 0 /\ Restores(receipt, receipt.sid) =>
                  receipt.sid = EmptyState
      BY DEF RestoredAsTaken
    <3>2. ASSUME NEW receipt \in Rotted(kept) \ {kept}, Verifies(receipt)
          PROVE  FALSE
      BY <1>1, <3>2, LogConstants, ReceiptKept, RottedIsRefused
    <3>3. ASSUME NEW receipt \in Forged(kept), receipt.count = 0,
                 Restores(receipt, receipt.sid)
          PROVE  receipt.sid = EmptyState
      BY <3>3 DEF Restores, Verifies
    <3>4. QED
      BY <3>2, <3>3 DEF Restores
  <2>6. QED
    BY <2>1, <2>2, <2>3, <2>4, <2>5 DEF StatesSurvive
<1>2. QED
  BY <1>1, SnapshotInvariance, PTL

-----------------------------------------------------------------------------
\* The migration.

\* A migration under way: what it froze is a valid source of the step asked for,
\* and what is staged so far is of the frozen records, under digests of the target.
UnderWay ==
    /\ frozen.source \in SchemaStates
    /\ <<frozen.request.from, frozen.request.to>> \in Steps
    /\ Valid(frozen.source, frozen.request.from)
    /\ frozen.request.source_id = frozen.source
    /\ staged \in SchemaStates
    /\ DOMAIN staged \subseteq DOMAIN frozen.source
    /\ \A k \in DOMAIN staged : staged[k].snap = frozen.source[k].snap

MigrationInv ==
    /\ phase \in {"idle", "oracle"}
    /\ phase = "idle" => source \in SchemaStates
    /\ \A r \in receipts : r.state \in SchemaStates
    /\ phase = "oracle" => UnderWay
    /\ MigrationTypeOK
    /\ IdentitiesKept

LEMMA SchemaStateIs ==
    \A s : s \in SchemaStates <=>
             /\ DOMAIN s \subseteq Keys
             /\ s = [k \in DOMAIN s |-> s[k]]
             /\ \A k \in DOMAIN s : s[k] \in Record
<1>1. ASSUME NEW s \in SchemaStates
      PROVE  /\ DOMAIN s \subseteq Keys
             /\ s = [k \in DOMAIN s |-> s[k]]
             /\ \A k \in DOMAIN s : s[k] \in Record
  <2>1. PICK D \in SUBSET Keys : s \in [D -> Record]
    BY DEF SchemaStates
  <2>2. DOMAIN s = D /\ s = [k \in D |-> s[k]] /\ \A k \in D : s[k] \in Record
    BY <2>1
  <2>3. QED
    BY <2>2
<1>2. ASSUME NEW s, DOMAIN s \subseteq Keys, s = [k \in DOMAIN s |-> s[k]],
             \A k \in DOMAIN s : s[k] \in Record
      PROVE  s \in SchemaStates
  <2> DEFINE D == DOMAIN s
  <2>1. D \in SUBSET Keys /\ s \in [D -> Record]
    BY <1>2
  <2> HIDE DEF D
  <2>2. QED
    BY <2>1 DEF SchemaStates
<1>3. QED
  BY <1>1, <1>2

\* A refused or broken-off call, a request and a result taken over.
LEMMA MigrationBegins ==
    ASSUME MigrationConstants, MigrationInv, Migrate
    PROVE  MigrationInv'
<1>1. phase = "idle" /\ source \in SchemaStates /\ source' = source /\ receipts' = receipts
  BY DEF Migrate, MigrationInv
<1>2. CASE Refusal(request, source) # "none"
  BY <1>1, <1>2 DEF Migrate, MigrationInv, MigrationTypeOK, IdentitiesKept, Valid
<1>3. CASE Refusal(request, source) = "none"
  <2>1. /\ phase' = "oracle" /\ frozen' = [request |-> request, source |-> source]
        /\ staged' = [k \in {} |-> Nothing]
    BY <1>3 DEF Migrate
  <2>2. /\ <<request.from, request.to>> \in Steps
        /\ Valid(source, request.from)
        /\ request.source_id = source
    BY <1>3 DEF Refusal
  <2>3. frozen'.source = source /\ frozen'.request = request
    BY <2>1
  <2>4. DOMAIN staged' = {}
    BY <2>1
  <2>5. staged' \in SchemaStates
    <3>1. staged' = [k \in DOMAIN staged' |-> staged'[k]]
      BY <2>1
    <3>2. QED
      BY <2>4, <3>1, SchemaStateIs
  <2>6. Valid(frozen'.source, frozen'.request.from)
    BY <2>2, <2>3
  <2>7. UnderWay'
    BY <1>1, <2>2, <2>3, <2>4, <2>5, <2>6 DEF UnderWay, Valid
  <2>8. MigrationTypeOK' /\ IdentitiesKept'
    BY <1>1, <2>1 DEF MigrationInv, MigrationTypeOK, IdentitiesKept, Valid
  <2>9. QED
    BY <1>1, <2>1, <2>7, <2>8 DEF MigrationInv
<1>4. QED
  BY <1>2, <1>3

\* One more record is staged, whatever the oracle does to the source meanwhile.
LEMMA RecordStaged ==
    ASSUME MigrationConstants, MigrationInv, NEW k \in Keys, NEW d \in Digests, Call(k, d)
    PROVE  MigrationInv'
<1>1. /\ phase = "oracle" /\ phase' = "oracle" /\ frozen' = frozen /\ receipts' = receipts
      /\ k \in DOMAIN frozen.source
      /\ staged' = [l \in DOMAIN staged \union {k} |->
            IF l = k THEN [frozen.source[k] EXCEPT !.digest = d] ELSE staged[l]]
  BY DEF Call
<1>2. UnderWay
  BY <1>1 DEF MigrationInv
<1> DEFINE r == [frozen.source[k] EXCEPT !.digest = d]
<1>3. r \in Record /\ r.snap = frozen.source[k].snap
  <2>1. frozen.source[k] \in Record
    BY <1>1, <1>2, SchemaStateIs DEF UnderWay
  <2>2. QED
    BY <2>1 DEF Record
<1> HIDE DEF r
<1>4. /\ DOMAIN staged' = DOMAIN staged \union {k}
      /\ staged' = [l \in DOMAIN staged' |-> staged'[l]]
      /\ \A l \in DOMAIN staged' : staged'[l] = IF l = k THEN r ELSE staged[l]
  BY <1>1 DEF r
<1>5. staged' \in SchemaStates
  <2>1. DOMAIN staged \subseteq Keys /\ \A l \in DOMAIN staged : staged[l] \in Record
    BY <1>2, SchemaStateIs DEF UnderWay
  <2>2. DOMAIN staged' \subseteq Keys /\ \A l \in DOMAIN staged' : staged'[l] \in Record
    BY <1>3, <1>4, <2>1
  <2>3. QED
    BY <1>4, <2>2, SchemaStateIs
<1>6. \A l \in DOMAIN staged' : staged'[l].snap = frozen.source[l].snap
  BY <1>2, <1>3, <1>4 DEF UnderWay
<1>7. UnderWay'
  BY <1>1, <1>2, <1>4, <1>5, <1>6 DEF UnderWay, Valid
<1>8. MigrationTypeOK' /\ IdentitiesKept'
  BY <1>1 DEF MigrationInv, MigrationTypeOK, IdentitiesKept, Valid
<1>9. QED
  BY <1>1, <1>7, <1>8 DEF MigrationInv

\* The source is put back as it was frozen.
LEMMA SourcePutBack ==
    ASSUME MigrationConstants, UnderWay, PutBack
    PROVE  source' \in SchemaStates /\ \E schema \in Schemas : Valid(source', schema)
<1>1. source' = frozen.source /\ frozen.request.from \in Schemas
  BY DEF PutBack, UnderWay, MigrationConstants
<1>2. QED
  BY <1>1 DEF UnderWay

LEMMA MigrationEnds ==
    ASSUME MigrationConstants, MigrationInv, Diverges \/ Commit
    PROVE  MigrationInv'
<1>1. phase = "oracle" /\ phase' = "idle" /\ PutBack
  BY DEF Diverges, Commit
<1>2. UnderWay
  BY <1>1 DEF MigrationInv
<1>3. source' \in SchemaStates /\ \E schema \in Schemas : Valid(source', schema)
  BY <1>1, <1>2, SourcePutBack
<1>4. CASE Diverges
  <2>1. receipts' = receipts
    BY <1>4 DEF Diverges
  <2>2. QED
    BY <1>1, <1>3, <2>1 DEF MigrationInv, MigrationTypeOK, IdentitiesKept, Valid
<1>5. CASE Commit
  <2> DEFINE r == [from |-> frozen.request.from, to |-> frozen.request.to,
                   source_id |-> frozen.request.source_id, target_id |-> staged,
                   state |-> staged]
  <2>1. receipts' = receipts \union {r}
    BY <1>5 DEF Commit
  <2>2. /\ r.from = frozen.request.from /\ r.to = frozen.request.to
        /\ r.source_id = frozen.source /\ r.state = staged
    BY <1>2 DEF UnderWay
  <2> HIDE DEF r
  <2>3. r.state \in SchemaStates /\ <<r.from, r.to>> \in Steps
    BY <1>2, <2>2 DEF UnderWay
  <2>4. /\ DOMAIN r.state = DOMAIN r.source_id
        /\ Valid(r.source_id, r.from) /\ Valid(r.state, r.to)
        /\ \A k \in DOMAIN r.state : r.state[k].snap = r.source_id[k].snap
    BY <1>2, <1>5, <2>2 DEF UnderWay, Commit
  <2>5. \A q \in receipts' : q.state \in SchemaStates /\ <<q.from, q.to>> \in Steps
    BY <2>1, <2>3 DEF MigrationInv, MigrationTypeOK
  <2>6. IdentitiesKept'
    BY <2>1, <2>4 DEF MigrationInv, IdentitiesKept, Valid
  <2>7. MigrationTypeOK'
    BY <1>3, <2>5 DEF MigrationTypeOK, Valid
  <2>8. QED
    BY <1>1, <1>3, <2>5, <2>6, <2>7 DEF MigrationInv
<1>6. QED
  BY <1>4, <1>5

LEMMA MigrationInvariance ==
    ASSUME MigrationConstants PROVE MigrationSpec => []MigrationInv
<1>1. ASSUME MigrationInit
      PROVE  MigrationInv
  BY <1>1 DEF MigrationInit, MigrationInv, MigrationTypeOK, IdentitiesKept
<1>2. ASSUME MigrationInv, [MigrationNext]_migrationVars
      PROVE  MigrationInv'
  <2>1. ASSUME NEW r, Prepare(r)
        PROVE  MigrationInv'
    BY <1>2, <2>1 DEF Prepare, MigrationInv, MigrationTypeOK, IdentitiesKept, Valid
  <2>2. ASSUME NEW receipt \in receipts, Adopt(receipt)
        PROVE  MigrationInv'
    <3>1. /\ phase = "idle" /\ phase' = phase /\ receipts' = receipts
          /\ source' = receipt.state
      BY <2>2 DEF Adopt
    <3>2. receipt.state \in SchemaStates /\ Valid(receipt.state, receipt.to)
          /\ receipt.to \in Schemas
      BY <1>2, <2>2, MigrationConstants DEF MigrationInv, MigrationTypeOK,
         IdentitiesKept, MigrationConstants
    <3>3. \E schema \in Schemas : Valid(source', schema)
      BY <3>1, <3>2
    <3>4. MigrationTypeOK' /\ IdentitiesKept'
      BY <1>2, <3>1, <3>3 DEF MigrationInv, MigrationTypeOK, IdentitiesKept, Valid
    <3>5. QED
      BY <1>2, <3>1, <3>2, <3>4 DEF MigrationInv
  <2>3. CASE UNCHANGED migrationVars
    BY <1>2, <2>3 DEF migrationVars, MigrationInv, MigrationTypeOK, IdentitiesKept,
       UnderWay, Valid
  <2>4. QED
    BY <1>2, <2>1, <2>2, <2>3, MigrationConstants, MigrationBegins, RecordStaged,
       MigrationEnds DEF MigrationNext
<1>3. QED
  BY <1>1, <1>2, PTL DEF MigrationSpec

\* StoreMigration's invariants, a part of NothingRewritten: a migration hands out
\* the source record for record, though its oracle rewrites the source while it is
\* asked about it, and what it handed out is no source of its step again
\* (MigrationEngine.migrate).
THEOREM MigrationsAreSound ==
    ASSUME MigrationConstants PROVE MigrationSpec => []MigrationSound
<1>1. ASSUME MigrationInv
      PROVE  MigrationSound
  <2>1. ASSUME NEW q \in receipts, NEW r \in receipts, q.from = r.from,
               NEW k \in DOMAIN q.state, r.source_id = q.state
        PROVE  FALSE
    <3>1. q.state[k].digest \in Grammar[q.to] /\ q.state[k].digest \in Grammar[q.from]
      BY <1>1, <2>1 DEF MigrationInv, IdentitiesKept, Valid
    <3>2. <<q.from, q.to>> \in Steps
      BY <1>1 DEF MigrationInv, MigrationTypeOK
    <3>3. Grammar[q.from] \intersect Grammar[q.to] = {}
      <4>1. \A step \in Steps : Grammar[step[1]] \intersect Grammar[step[2]] = {}
        BY MigrationConstants DEF MigrationConstants
      <4>2. QED
        BY <3>2, <4>1
    <3>4. QED
      BY <3>1, <3>3
  <2>2. NotAppliedTwice
    BY <2>1 DEF NotAppliedTwice
  <2>3. QED
    BY <1>1, <2>2 DEF MigrationSound, MigrationInv
<1>2. QED
  BY <1>1, MigrationInvariance, PTL

\* StoreMigration's SourceUntouched, a part of NothingRewritten: a migration that
\* ends, with a result or without, has put the caller's state and request back.
THEOREM SourceStaysUntouched == MigrationSpec => SourceUntouched
<1>1. [MigrationNext]_migrationVars =>
        [phase = "oracle" /\ phase' = "idle" =>
           source' = frozen.source /\ request' = frozen.request]_migrationVars
  BY DEF MigrationNext, Prepare, Adopt, Migrate, Call, Diverges, Commit, PutBack,
     migrationVars
<1>2. QED
  BY <1>1, PTL DEF MigrationSpec, SourceUntouched

-----------------------------------------------------------------------------
(***************************************************************************)
(* Traces (Tracers).  Overlapping calls end in any order and a failed      *)
(* write loses rows, so what the numbers say is kept only while neither    *)
(* has happened.                                                           *)
(***************************************************************************)

OpNames == UNION {t.ops : t \in Tracers}
Calls == [op : OpNames, seq : Nat]
Rows == [seq : Nat, op : OpNames, outcome : Outcomes \cup {"record_degraded"}]
        \cup {Mark}
Answers == [op : OpNames, engine : Outcomes \cup {"uncalled"}, given : Outcomes]

TracersTypeOK ==
    /\ tracer \in Tracers
    /\ container \in {"list", "other"}
    /\ rows \in Seq(Rows)
    /\ inflight \in [DOMAIN inflight -> Calls]
    /\ delivered \in Seq(Answers)
    /\ overlapped \in BOOLEAN
    /\ lost \in BOOLEAN

\* What is no list holds no row, and got there by losing them.
ListOrLost == container # "list" => rows = <<>> /\ lost

\* A number taken early is the place of the row to come, as long as the only
\* call in flight is the one it was taken for.
SeqAwaitsRow ==
    ~ (overlapped \/ lost) =>
        \A c, d \in DOMAIN inflight : c = d /\ inflight[c].seq = Len(rows)

TracersInv ==
    /\ TracersTypeOK
    /\ ListOrLost
    /\ SeqAwaitsRow
    /\ TraceTrue

LEMMA StartsTrue == TracersInit => TracersInv
  <1> SUFFICES ASSUME TracersInit PROVE TracersInv
    OBVIOUS
  <1>1. rows = <<>> /\ delivered = <<>> /\ DOMAIN inflight = {}
    BY DEF TracersInit
  <1>2. TracersTypeOK
    <2>1. inflight \in [DOMAIN inflight -> Calls]
      BY <1>1 DEF TracersInit
    <2>2. <<>> \in Seq(Rows) /\ <<>> \in Seq(Answers)
      OBVIOUS
    <2>3. QED
      BY <1>1, <2>1, <2>2 DEF TracersInit, TracersTypeOK
  <1>3. ListOrLost /\ SeqAwaitsRow
    BY <1>1 DEF TracersInit, ListOrLost, SeqAwaitsRow
  <1>4. TraceTrue
    BY <1>1 DEF TraceTrue, Neutral, RowPerCall, NumberedByPlace
  <1>5. QED
    BY <1>2, <1>3, <1>4 DEF TracersInv

\* What counts as the rows so far are always the rows.
LEMMA KeptIsRows ==
  ASSUME TracersInv
  PROVE  Kept = rows /\ Seq0 = Len(rows) /\ Len(rows) \in Nat /\ Len(delivered) \in Nat
  <1>1. rows \in Seq(Rows) /\ delivered \in Seq(Answers) /\ container \in {"list", "other"}
    BY DEF TracersInv, TracersTypeOK
  <1>2. container # "list" => rows = <<>>
    BY DEF TracersInv, ListOrLost
  <1>3. Len(rows) \in Nat /\ Len(delivered) \in Nat
    BY <1>1
  <1>4. QED
    BY <1>2, <1>3 DEF Kept, Seq0

LEMMA BeginKeeps ==
  ASSUME TracersInv, NEW op \in tracer.ops, Begin(op)
  PROVE  TracersInv'
  <1> DEFINE c == CHOOSE n \in 1 .. MaxTraced : n \notin DOMAIN inflight
  <1>1. /\ inflight' = [d \in DOMAIN inflight \union {c} |->
               IF d = c THEN [op |-> op, seq |-> Seq0] ELSE inflight[d]]
        /\ overlapped' = (overlapped \/ inflight # [d \in {} |-> 0])
        /\ UNCHANGED <<tracer, container, rows, delivered, lost>>
    BY DEF Begin
  <1> HIDE DEF c
  <1>2. Seq0 = Len(rows) /\ Len(rows) \in Nat
    BY KeptIsRows
  <1>3. TracersTypeOK'
    <2>1. TracersTypeOK
      BY DEF TracersInv
    <2>2. op \in OpNames
      BY <2>1 DEF TracersTypeOK, OpNames
    <2>3. [op |-> op, seq |-> Seq0] \in Calls
      BY <2>2, <1>2 DEF Calls
    <2>4. inflight' \in [DOMAIN inflight' -> Calls]
      BY <1>1, <2>1, <2>3 DEF TracersTypeOK
    <2>5. overlapped' \in BOOLEAN
      BY <1>1, <2>1 DEF TracersTypeOK
    <2>6. QED
      BY <1>1, <2>1, <2>4, <2>5 DEF TracersTypeOK
  <1>4. ListOrLost'
    BY <1>1 DEF TracersInv, ListOrLost
  <1>5. SeqAwaitsRow'
    <2>1. SUFFICES ASSUME ~ (overlapped' \/ lost') PROVE
            \A e, d \in DOMAIN inflight' : e = d /\ inflight'[e].seq = Len(rows')
      BY DEF SeqAwaitsRow
    <2>2. inflight = [d \in {} |-> 0]
      BY <1>1, <2>1
    <2>3. DOMAIN inflight' = {c} /\ inflight'[c] = [op |-> op, seq |-> Seq0]
      BY <1>1, <2>2
    <2>4. QED
      BY <1>1, <1>2, <2>3
  <1>6. TraceTrue'
    BY <1>1 DEF TracersInv, TraceTrue, Neutral, RowPerCall, NumberedByPlace
  <1>7. QED
    BY <1>3, <1>4, <1>5, <1>6 DEF TracersInv

LEMMA BeginFailsKeeps ==
  ASSUME TracersInv, NEW op \in tracer.ops, BeginFails(op)
  PROVE  TracersInv'
  <1> DEFINE d == [op |-> op, engine |-> "uncalled", given |-> "crash"]
  <1>1. /\ tracer.style = "plain" /\ container # "list"
        /\ delivered' = Append(delivered, d)
        /\ UNCHANGED <<tracer, container, rows, inflight, overlapped, lost>>
    BY DEF BeginFails
  <1>2. TracersTypeOK /\ ListOrLost /\ SeqAwaitsRow /\ TraceTrue
    BY DEF TracersInv
  <1>3. lost
    BY <1>1, <1>2 DEF ListOrLost
  <1>4. TracersTypeOK'
    <2>1. op \in OpNames
      BY <1>2 DEF TracersTypeOK, OpNames
    <2>2. d \in Answers
      BY <2>1 DEF Answers, Outcomes
    <2> HIDE DEF d
    <2>3. delivered' \in Seq(Answers)
      BY <1>1, <1>2, <2>2, AppendProperties DEF TracersTypeOK
    <2>4. QED
      BY <1>1, <1>2, <2>3 DEF TracersTypeOK
  <1>5. ListOrLost' /\ SeqAwaitsRow'
    BY <1>1, <1>2 DEF ListOrLost, SeqAwaitsRow
  <1>6. TraceTrue'
    BY <1>1, <1>2, <1>3 DEF TraceTrue, Neutral, RowPerCall, NumberedByPlace
  <1>7. QED
    BY <1>4, <1>5, <1>6 DEF TracersInv

LEMMA TamperKeeps == TracersInv /\ Tamper => TracersInv'
  <1> SUFFICES ASSUME TracersInv, Tamper PROVE TracersInv'
    OBVIOUS
  <1>1. /\ container' = "other" /\ rows' = <<>> /\ lost' = TRUE
        /\ UNCHANGED <<tracer, inflight, delivered, overlapped>>
    BY DEF Tamper
  <1>2. TracersTypeOK /\ TraceTrue
    BY DEF TracersInv
  <1>3. TracersTypeOK'
    <2>1. rows' \in Seq(Rows) /\ lost' \in BOOLEAN /\ container' \in {"list", "other"}
      BY <1>1
    <2>2. QED
      BY <1>1, <1>2, <2>1 DEF TracersTypeOK
  <1>4. ListOrLost' /\ SeqAwaitsRow'
    BY <1>1 DEF ListOrLost, SeqAwaitsRow
  <1>5. Neutral'
    BY <1>1, <1>2 DEF TraceTrue, Neutral
  <1>6. RowPerCall' /\ NumberedByPlace'
    <2>1. DOMAIN rows' = {}
      BY <1>1
    <2>2. QED
      BY <1>1, <2>1 DEF RowPerCall, NumberedByPlace
  <1>7. QED
    BY <1>3, <1>4, <1>5, <1>6 DEF TracersInv, TraceTrue

\* A call in flight ends: it leaves the calls in flight, and its number is the
\* place of the row to come if no other call and no loss came between.
LEMMA LeavesFlight ==
  ASSUME TracersInv, NEW c \in DOMAIN inflight,
         inflight' = [d \in DOMAIN inflight \ {c} |-> inflight[d]],
         overlapped' = overlapped, lost' \in {lost, TRUE}
  PROVE  /\ inflight' \in [DOMAIN inflight' -> Calls]
         /\ inflight[c].op \in OpNames /\ inflight[c].seq \in Nat
         /\ ~ (overlapped \/ lost) => inflight[c].seq = Len(rows)
         /\ SeqAwaitsRow'
  <1>1. inflight \in [DOMAIN inflight -> Calls]
    BY DEF TracersInv, TracersTypeOK
  <1>2. inflight[c] \in Calls
    BY <1>1
  <1>3. inflight' \in [DOMAIN inflight' -> Calls]
    BY <1>1
  <1>4. ~ (overlapped \/ lost) => DOMAIN inflight = {c} /\ inflight[c].seq = Len(rows)
    BY DEF TracersInv, SeqAwaitsRow
  <1>5. SeqAwaitsRow'
    <2>1. SUFFICES ASSUME ~ (overlapped' \/ lost') PROVE DOMAIN inflight' = {}
      BY DEF SeqAwaitsRow
    <2>2. ~ (overlapped \/ lost)
      BY <2>1
    <2>3. QED
      BY <1>4, <2>2
  <1>6. QED
    BY <1>2, <1>3, <1>4, <1>5 DEF Calls

\* One more answer: the types, and what the caller was given.
LEMMA OneMoreAnswer ==
  ASSUME TracersInv, NEW op \in OpNames,
         NEW engine \in Outcomes, NEW given \in Outcomes,
         delivered' = Append(delivered, [op |-> op, engine |-> engine, given |-> given]),
         tracer' = tracer, lost' \in {lost, TRUE},
         tracer.style # "plain" \/ ~ lost' => given = engine
  PROVE  /\ delivered' \in Seq(Answers)
         /\ Len(delivered') = Len(delivered) + 1
         /\ \A i \in 1 .. Len(delivered) : delivered'[i] = delivered[i]
         /\ delivered'[Len(delivered) + 1] = [op |-> op, engine |-> engine, given |-> given]
         /\ Neutral'
  <1> DEFINE d == [op |-> op, engine |-> engine, given |-> given]
  <1>1. d \in Answers /\ d.given = given /\ d.engine = engine
    BY DEF Answers
  <1>2. delivered \in Seq(Answers) /\ Len(delivered) \in Nat
    BY DEF TracersInv, TracersTypeOK
  <1>3. delivered' = Append(delivered, d)
    OBVIOUS
  <1> HIDE DEF d
  <1>4. /\ delivered' \in Seq(Answers)
        /\ Len(delivered') = Len(delivered) + 1
        /\ \A i \in 1 .. Len(delivered) : delivered'[i] = delivered[i]
        /\ delivered'[Len(delivered) + 1] = d
    BY <1>1, <1>2, <1>3, AppendProperties
  <1>5. Neutral'
    <2>1. SUFFICES ASSUME NEW i \in DOMAIN delivered', tracer'.style # "plain" \/ ~ lost'
                   PROVE  delivered'[i].given = delivered'[i].engine
      BY DEF Neutral
    <2>2. DOMAIN delivered' = 1 .. Len(delivered) + 1 /\ DOMAIN delivered = 1 .. Len(delivered)
      BY <1>2, <1>4
    <2>3. CASE i \in 1 .. Len(delivered)
      <3>1. ~ lost' => ~ lost
        OBVIOUS
      <3>2. delivered[i].given = delivered[i].engine
        BY <2>1, <2>2, <2>3, <3>1 DEF TracersInv, TraceTrue, Neutral
      <3>3. QED
        BY <1>4, <2>3, <3>2
    <2>4. CASE i = Len(delivered) + 1
      BY <1>1, <1>4, <2>1, <2>4
    <2>5. QED
      BY <1>2, <2>2, <2>3, <2>4
  <1>6. QED
    BY <1>4, <1>5 DEF d

\* One more row for one more answer.
LEMMA OneMoreRow ==
  ASSUME TracersInv, NEW seq \in Nat, NEW op \in OpNames,
         NEW outcome \in Outcomes, NEW told \in {outcome, "record_degraded"},
         rows' = Append(rows, Row(seq, op, told)),
         delivered' = Append(delivered, [op |-> op, engine |-> outcome, given |-> outcome]),
         container' = "list", tracer' = tracer,
         overlapped' = overlapped, lost' = lost,
         tracer.style = "late" \/ ~ (overlapped \/ lost) => seq = Len(rows)
  PROVE  /\ rows' \in Seq(Rows) /\ delivered' \in Seq(Answers)
         /\ ListOrLost' /\ TraceTrue'
  <1> DEFINE r == Row(seq, op, told)
  <1>1. /\ r \in Rows /\ r.seq = seq /\ r.op = op
        /\ r.outcome \in {outcome, "record_degraded"}
    BY DEF Rows, Row
  <1>2. rows' = Append(rows, r)
    OBVIOUS
  <1> HIDE DEF r
  <1>3. rows \in Seq(Rows) /\ Len(rows) \in Nat /\ Len(delivered) \in Nat
    BY KeptIsRows DEF TracersInv, TracersTypeOK
  <1>4. /\ rows' \in Seq(Rows)
        /\ Len(rows') = Len(rows) + 1
        /\ \A i \in 1 .. Len(rows) : rows'[i] = rows[i]
        /\ rows'[Len(rows) + 1] = r
    BY <1>1, <1>2, <1>3, AppendProperties
  <1>5. DOMAIN rows' = 1 .. Len(rows) + 1 /\ DOMAIN rows = 1 .. Len(rows)
    BY <1>3, <1>4
  <1>6. 1 .. Len(rows) + 1 = (1 .. Len(rows)) \cup {Len(rows) + 1}
    <2>1. \A n \in Nat : 1 .. n + 1 = (1 .. n) \cup {n + 1}
      OBVIOUS
    <2>2. QED
      BY <1>3, <2>1
  <1>7. /\ delivered' \in Seq(Answers)
        /\ Len(delivered') = Len(delivered) + 1
        /\ \A i \in 1 .. Len(delivered) : delivered'[i] = delivered[i]
        /\ delivered'[Len(delivered) + 1] = [op |-> op, engine |-> outcome, given |-> outcome]
        /\ Neutral'
    BY OneMoreAnswer
  <1>8. RowPerCall'
    <2>1. SUFFICES ASSUME ~ lost'
                   PROVE  /\ Len(rows') = Len(delivered')
                          /\ \A i \in DOMAIN rows' :
                                /\ rows'[i].op = delivered'[i].op
                                /\ rows'[i].outcome \in {delivered'[i].engine, "record_degraded"}
      BY DEF RowPerCall
    <2>2. /\ Len(rows) = Len(delivered)
          /\ \A i \in 1 .. Len(rows) :
                /\ rows[i].op = delivered[i].op
                /\ rows[i].outcome \in {delivered[i].engine, "record_degraded"}
      BY <1>5, <2>1 DEF TracersInv, TraceTrue, RowPerCall
    <2>3. ASSUME NEW i \in 1 .. Len(rows) + 1
          PROVE  /\ rows'[i].op = delivered'[i].op
                 /\ rows'[i].outcome \in {delivered'[i].engine, "record_degraded"}
      <3>1. CASE i \in 1 .. Len(rows)
        BY <1>4, <1>7, <2>2, <3>1
      <3>2. CASE i = Len(rows) + 1
        BY <1>1, <1>4, <1>7, <2>2, <3>2
      <3>3. QED
        BY <1>6, <3>1, <3>2
    <2>4. QED
      BY <1>4, <1>5, <1>7, <2>2, <2>3
  <1>9. NumberedByPlace'
    <2>1. SUFFICES ASSUME tracer.style = "late" \/ ~ (overlapped \/ lost),
                          NEW i \in DOMAIN rows'
                   PROVE  rows'[i].seq = i - 1
      BY DEF NumberedByPlace
    <2>2. CASE i \in 1 .. Len(rows)
      <3>1. rows[i].seq = i - 1
        BY <1>5, <2>1, <2>2 DEF TracersInv, TraceTrue, NumberedByPlace
      <3>2. QED
        BY <1>4, <2>2, <3>1
    <2>3. CASE i = Len(rows) + 1
      BY <1>1, <1>3, <1>4, <2>1, <2>3
    <2>4. QED
      BY <1>5, <1>6, <2>1, <2>2, <2>3
  <1>10. QED
    BY <1>4, <1>7, <1>8, <1>9 DEF TraceTrue, ListOrLost

LEMMA EndKeeps ==
  ASSUME TracersInv, NEW c \in DOMAIN inflight, NEW outcome \in Outcomes,
         End(c, outcome)
  PROVE  TracersInv'
  <1> DEFINE call == inflight[c]
             seq == IF tracer.style = "late" THEN Len(Kept) ELSE call.seq
  <1>1. Kept = rows /\ Len(rows) \in Nat
    BY KeptIsRows
  <1>2. /\ rows' = Append(rows, Row(seq, call.op, outcome)) /\ container' = "list"
        /\ delivered' = Append(delivered,
               [op |-> call.op, engine |-> outcome, given |-> outcome])
        /\ inflight' = [d \in DOMAIN inflight \ {c} |-> inflight[d]]
        /\ tracer' = tracer /\ overlapped' = overlapped /\ lost' = lost
    BY <1>1 DEF End
  <1>3. /\ inflight' \in [DOMAIN inflight' -> Calls]
        /\ call.op \in OpNames /\ call.seq \in Nat
        /\ ~ (overlapped \/ lost) => call.seq = Len(rows)
        /\ SeqAwaitsRow'
    BY <1>2, LeavesFlight
  <1>4. /\ seq \in Nat
        /\ tracer.style = "late" \/ ~ (overlapped \/ lost) => seq = Len(rows)
    BY <1>1, <1>3
  <1> HIDE DEF call, seq
  <1>5. /\ rows' \in Seq(Rows) /\ delivered' \in Seq(Answers)
        /\ ListOrLost' /\ TraceTrue'
    BY <1>2, <1>3, <1>4, OneMoreRow
  <1>6. TracersTypeOK'
    BY <1>2, <1>3, <1>5 DEF TracersInv, TracersTypeOK
  <1>7. QED
    BY <1>3, <1>5, <1>6 DEF TracersInv

LEMMA EndDegradedKeeps ==
  ASSUME TracersInv, NEW c \in DOMAIN inflight, NEW outcome \in Outcomes,
         EndDegraded(c, outcome)
  PROVE  TracersInv'
  <1> DEFINE call == inflight[c]
  <1>1. /\ tracer.style = "plain" /\ container' = "list"
        /\ rows' = Append(rows, Row(call.seq, call.op, "record_degraded"))
        /\ delivered' = Append(delivered,
               [op |-> call.op, engine |-> outcome, given |-> outcome])
        /\ inflight' = [d \in DOMAIN inflight \ {c} |-> inflight[d]]
        /\ tracer' = tracer /\ overlapped' = overlapped /\ lost' = lost
    BY DEF EndDegraded
  <1>2. /\ inflight' \in [DOMAIN inflight' -> Calls]
        /\ call.op \in OpNames /\ call.seq \in Nat
        /\ ~ (overlapped \/ lost) => call.seq = Len(rows)
        /\ SeqAwaitsRow'
    BY <1>1, LeavesFlight
  <1>3. tracer.style = "late" \/ ~ (overlapped \/ lost) => call.seq = Len(rows)
    BY <1>1, <1>2
  <1> HIDE DEF call
  <1>4. /\ rows' \in Seq(Rows) /\ delivered' \in Seq(Answers)
        /\ ListOrLost' /\ TraceTrue'
    BY <1>1, <1>2, <1>3, OneMoreRow
  <1>5. TracersTypeOK'
    BY <1>1, <1>2, <1>4 DEF TracersInv, TracersTypeOK
  <1>6. QED
    BY <1>2, <1>4, <1>5 DEF TracersInv

\* A call whose row is lost: late, the rows stay; early, they are begun anew with
\* the mark; plain, the caller is given the failure.
LEMMA RowLostKeeps ==
  ASSUME TracersInv, NEW c \in DOMAIN inflight, NEW outcome \in Outcomes,
         EndFails(c, outcome) \/ EndReplaced(c, outcome)
  PROVE  TracersInv'
  <1> DEFINE call == inflight[c]
             given == IF tracer.style = "plain" THEN "crash" ELSE outcome
  <1>1. /\ lost' = TRUE /\ tracer' = tracer /\ overlapped' = overlapped
        /\ delivered' = Append(delivered,
               [op |-> call.op, engine |-> outcome, given |-> given])
        /\ inflight' = [d \in DOMAIN inflight \ {c} |-> inflight[d]]
    BY DEF EndFails, EndReplaced
  <1>2. /\ rows' = rows \/ (rows' = <<Mark>> /\ tracer.style # "late")
        /\ container' \in {container, "list"}
    BY KeptIsRows DEF EndFails, EndReplaced
  <1>3. /\ inflight' \in [DOMAIN inflight' -> Calls]
        /\ call.op \in OpNames
        /\ SeqAwaitsRow'
    BY <1>1, LeavesFlight
  <1>4. given \in Outcomes /\ (tracer.style # "plain" \/ ~ lost' => given = outcome)
    BY <1>1 DEF Outcomes
  <1> HIDE DEF call, given
  <1>5. delivered' \in Seq(Answers) /\ Neutral'
    BY <1>1, <1>3, <1>4, OneMoreAnswer
  <1>6. rows' \in Seq(Rows)
    <2>1. rows \in Seq(Rows)
      BY DEF TracersInv, TracersTypeOK
    <2>2. Mark \in Rows
      BY DEF Rows
    <2>3. <<Mark>> \in Seq(Rows)
      BY <2>2
    <2>4. QED
      BY <1>2, <2>1, <2>3
  <1>7. TracersTypeOK'
    <2>1. container' \in {"list", "other"} /\ lost' \in BOOLEAN
      BY <1>1, <1>2 DEF TracersInv, TracersTypeOK
    <2>2. QED
      BY <1>1, <1>3, <1>5, <1>6, <2>1 DEF TracersInv, TracersTypeOK
  <1>8. ListOrLost'
    <2>1. CASE container' = "list"
      BY <2>1 DEF ListOrLost
    <2>2. CASE container' # "list"
      <3>1. container' = container /\ rows = <<>>
        BY <1>2, <2>2 DEF TracersInv, ListOrLost
      <3>2. rows' = rows
        BY <2>2 DEF EndFails, EndReplaced
      <3>3. QED
        BY <1>1, <3>1, <3>2 DEF ListOrLost
    <2>3. QED
      BY <2>1, <2>2
  <1>9. RowPerCall' /\ NumberedByPlace'
    <2>1. RowPerCall'
      BY <1>1 DEF RowPerCall
    <2>2. tracer.style = "late" => rows' = rows
      BY <1>2
    <2>3. NumberedByPlace'
      BY <1>1, <2>2 DEF TracersInv, TraceTrue, NumberedByPlace
    <2>4. QED
      BY <2>1, <2>3
  <1>10. QED
    BY <1>3, <1>5, <1>7, <1>8, <1>9 DEF TracersInv, TraceTrue

\* Every trace of every wrapper is true (TraceTrue), however calls overlap,
\* whatever fails, whoever replaces the list and however many calls there are.
THEOREM TracesAreTrue == TracersSpec => []TraceTrue
  <1>1. TracersInit => TracersInv
    BY StartsTrue
  <1>2. TracersInv /\ [TracersNext]_tracerVars => TracersInv'
    <2> SUFFICES ASSUME TracersInv, [TracersNext]_tracerVars PROVE TracersInv'
      OBVIOUS
    <2>1. ASSUME NEW op \in tracer.ops, Begin(op) \/ BeginFails(op) PROVE TracersInv'
      BY <2>1, BeginKeeps, BeginFailsKeeps
    <2>2. ASSUME NEW c \in DOMAIN inflight, NEW outcome \in Outcomes,
                 \/ End(c, outcome) \/ EndFails(c, outcome)
                 \/ EndDegraded(c, outcome) \/ EndReplaced(c, outcome)
          PROVE  TracersInv'
      BY <2>2, EndKeeps, EndDegradedKeeps, RowLostKeeps
    <2>3. CASE Tamper
      BY <2>3, TamperKeeps
    <2>4. CASE UNCHANGED tracerVars
      <3>1. UNCHANGED <<tracer, container, rows, inflight, delivered, overlapped, lost>>
        BY <2>4 DEF tracerVars
      <3>2. TracersTypeOK' /\ ListOrLost' /\ SeqAwaitsRow'
        BY <3>1 DEF TracersInv, TracersTypeOK, ListOrLost, SeqAwaitsRow
      <3>3. TraceTrue'
        BY <3>1 DEF TracersInv, TraceTrue, Neutral, RowPerCall, NumberedByPlace
      <3>4. QED
        BY <3>2, <3>3 DEF TracersInv
    <2>5. QED
      BY <2>1, <2>2, <2>3, <2>4 DEF TracersNext
  <1>3. TracersInv => TraceTrue
    BY DEF TracersInv
  <1>4. QED
    BY <1>1, <1>2, <1>3, PTL DEF TracersSpec
=============================================================================
