------------------------- MODULE ControlPlaneProofs --------------------------
(***************************************************************************)
(* Proofs about the services behind the control plane.  EventLedger, for   *)
(* every set of publishers, of batches and of error codes and any number   *)
(* of calls: OutboxWhole, on disk and in memory, and, on disk, that the    *)
(* outbox implements EventStream.  IdentityAdmission, for any callers,     *)
(* attempts, capacities, windows and clocks: AdmissionExact; its invariant *)
(* says of every bucket what its counter is worth (Tallied), and of the    *)
(* one open transaction that what it is about to commit was counted from   *)
(* the committed counters.  ControlPlaneClient and its server, for any     *)
(* accounts, attempts, lifetimes and units and any number of calls:        *)
(* SessionSound and EffectsOnce; the invariant (ClientInv) says what the   *)
(* server may have on record of a call the client still waits for.         *)
(* ControlPlaneErrors, for payloads of any size and depth: PayloadsSound.  *)
(* ControlPlaneVersioning, for any contracts, edits and number of          *)
(* releases: VersionsSound.                                                *)
(***************************************************************************)
EXTENDS EventLedger, IdentityAdmission, ControlPlaneClient,
        ControlPlaneErrors, ControlPlaneVersioning, FiniteSetTheorems,
        SequenceTheorems, WellFoundedInduction, TLAPS

-----------------------------------------------------------------------------
(***************************************************************************)
(* The event ledger.                                                       *)
(***************************************************************************)


Events == UNION {Range(batch) : batch \in Proposals}
Rows == Seq(Events)

\* Each id once; every envelope valid; every event of a batch, as it was sent.
Distinct(rows) == \A i, j \in DOMAIN rows : rows[i].id = rows[j].id => i = j
AllValid(rows) == \A i \in DOMAIN rows : Verdict(rows[i]) = "ok"
Holds(rows, batch) ==
    \A k \in DOMAIN batch : \E i \in DOMAIN rows : rows[i] = batch[k]

\* A batch that publish has let through.
Staged(batch) ==
    /\ batch \in Proposals
    /\ AllValid(batch)
    /\ ~Stream!Contradicts(batch, batch)

Phases == {"idle", "asking", "reading", "writing", "committed"}
PublishCalls ==
    [phase : Phases, hydrates : BOOLEAN, batch : Proposals \cup {<<>>},
     todo : Rows, work : Rows]

\* What a call of publish knows, beside the rows of the outbox.
Publishing(c, rows) ==
    /\ c.phase \in {"asking", "reading"} =>
          Staged(c.batch) /\ c.todo = Stream!New(<<>>, c.batch)
    /\ c.phase = "reading" => c.work = rows
    /\ c.phase = "writing" =>
          /\ Staged(c.batch)
          /\ ~Stream!Contradicts(rows, c.batch)
          /\ c.work \o c.todo = rows \o Stream!New(rows, c.batch)
    /\ c.phase = "committed" => Staged(c.batch) /\ Holds(rows, c.batch)

\* What a hydration knows, beside the list that is given back.
Hydrating(c, list, alive) ==
    /\ InMemory
    /\ c.phase # "reading"
    /\ c.phase = "asking" => c.todo = list
    /\ c.phase = "writing" => c.work \o c.todo = list
    /\ c.phase \in {"asking", "writing"} <=> ~alive /\ c.phase # "idle"

CallOK(c, rows, list, alive) ==
    /\ c \in PublishCalls
    /\ IF c.hydrates THEN Hydrating(c, list, alive)
       ELSE Publishing(c, rows) /\ (~alive => c.phase = "idle")

Inside == {"reading", "writing"}
Endings ==
    {"none", "unknown", "committed", "publication_failure",
     "duplicate_conflict", "malformed_event", "unknown_name",
     "unsupported_version"}

\* The rows, and what they are to readers and to publishers that have an answer.
FileInv ==
    /\ outbox \in Rows /\ Distinct(outbox) /\ AllValid(outbox)
    /\ kept \in Rows /\ Distinct(kept) /\ AllValid(kept)
    /\ rotten \subseteq DOMAIN outbox
    /\ up \in BOOLEAN
    /\ up => IsPrefix(kept, outbox)
    /\ ~up => InMemory /\ outbox = <<>>
    /\ acked \subseteq Proposals
    /\ \A batch \in acked : Holds(IF up THEN outbox ELSE kept, batch)

\* The calls, and which of them holds the file.
CallsInv ==
    /\ DOMAIN call = Publishers
    /\ \A p \in Publishers : CallOK(call[p], outbox, kept, up)
    /\ \A p \in Publishers : call[p].phase \in Inside <=> holder = p
    /\ holder \in Publishers \cup {NoOne}

LedgerInv ==
    /\ FileInv
    /\ CallsInv
    /\ answer \in [Publishers -> Endings]

-----------------------------------------------------------------------------
\* Every nonempty set of naturals has a least element; proofs by induction below
\* look at a smallest counterexample.
LEMMA LeastNatural ==
    ASSUME NEW T \in SUBSET Nat, T # {}
    PROVE  \E m \in T : \A n \in T : m <= n
<1> DEFINE Below == {0 .. n : n \in T}
<1>1. \A n \in T : 0 .. n \in FiniteSubsetsOf(Nat)
  BY FS_Interval DEF FiniteSubsetsOf
<1>2. Below \subseteq FiniteSubsetsOf(Nat) /\ Below # {}
  BY <1>1
<1>3. IsWellFoundedOn(StrictSubsetOrdering(Nat), FiniteSubsetsOf(Nat))
  BY FS_StrictSubsetOrderingWellFounded
<1>4. PICK x \in Below : \A y \in Below : <<y, x>> \notin StrictSubsetOrdering(Nat)
  <2> HIDE DEF Below
  <2>1. QED
    BY <1>2, <1>3, WFMin
<1>5. PICK m \in T : x = 0 .. m
  BY <1>4
<1>6. ASSUME NEW n \in T, n < m
      PROVE  FALSE
  <2> DEFINE a == 0 .. n
             b == 0 .. m
  <2>1. a \in Below /\ a \subseteq b /\ a # b /\ a \in SUBSET Nat /\ b \in SUBSET Nat
    <3>1. m \notin 0 .. n /\ m \in 0 .. m
      BY <1>6
    <3>2. QED
      BY <1>6, <3>1
  <2> HIDE DEF a, b
  <2>2. <<a, b>> \in StrictSubsetOrdering(Nat)
    BY <2>1 DEF StrictSubsetOrdering
  <2>3. QED
    BY <1>4, <1>5, <2>1, <2>2 DEF b
<1>7. QED
  BY <1>6

\* The functions that start at x and take the step g for each element of s: a
\* function on 0 .. Len(s) is given by where it starts and by one step.
Runs(S, x, g, s) ==
    {f \in [0 .. Len(s) -> S] :
        f[0] = x /\ \A n \in 1 .. Len(s) : f[n] = g[<<f[n - 1], s[n]>>]}

LEMMA StepByStep ==
    ASSUME NEW S, NEW E, NEW x \in S, NEW g \in [S \X E -> S], NEW s \in Seq(E)
    PROVE  Runs(S, x, g, s) # {}
<1> DEFINE Run(n) == {f \in [0 .. n -> S] :
               f[0] = x /\ \A m \in 1 .. n : f[m] = g[<<f[m - 1], s[m]>>]}
           Stuck == {n \in 0 .. Len(s) : Run(n) = {}}
<1>1. Len(s) \in Nat
  OBVIOUS
<1>2. SUFFICES ASSUME Stuck # {}
               PROVE  FALSE
  <2>1. ASSUME Stuck = {}
        PROVE  Run(Len(s)) # {}
    BY <1>1, <2>1
  <2>2. Run(Len(s)) = Runs(S, x, g, s)
    BY DEF Runs
  <2>3. QED
    BY <2>1, <2>2
<1>3. PICK n \in Stuck : \A m \in Stuck : n <= m
  <2>1. Stuck \in SUBSET Nat
    BY <1>1
  <2> HIDE DEF Stuck
  <2>2. QED
    BY <1>2, <2>1, LeastNatural
<1>4. n \in 0 .. Len(s) /\ Run(n) = {}
  BY <1>3
<1>5. n # 0
  <2>1. ASSUME n = 0
        PROVE  [m \in 0 .. 0 |-> x] \in Run(n)
    BY <2>1
  <2>2. QED
    BY <1>4, <2>1
<1>6. n - 1 \in 0 .. Len(s) /\ n \in 1 .. Len(s)
  BY <1>1, <1>4, <1>5
<1>7. Run(n - 1) # {}
  <2>1. n - 1 \in Stuck => n <= n - 1
    BY <1>3
  <2>2. n - 1 \notin Stuck
    BY <1>6, <2>1
  <2>3. QED
    BY <1>6, <2>2
<1>8. PICK f \in Run(n - 1) : TRUE
  BY <1>7
<1>9. /\ f \in [0 .. n - 1 -> S] /\ f[0] = x
      /\ \A m \in 1 .. n - 1 : f[m] = g[<<f[m - 1], s[m]>>]
  BY <1>8
<1> DEFINE last == g[<<f[n - 1], s[n]>>]
           h == [m \in 0 .. n |-> IF m = n THEN last ELSE f[m]]
<1>10. last \in S
  <2>1. s[n] \in E /\ f[n - 1] \in S
    BY <1>6, <1>9, ElementOfSeq
  <2>2. QED
    BY <2>1
<1> HIDE DEF last
<1>11. \A m \in 0 .. n : m = n \/ m \in 0 .. n - 1
  BY <1>4
<1>12. h \in [0 .. n -> S]
  BY <1>9, <1>10, <1>11
<1>13. h[0] = x
  BY <1>6, <1>9
<1>14. ASSUME NEW m \in 1 .. n
       PROVE  h[m] = g[<<h[m - 1], s[m]>>]
  <2>1. m - 1 \in 0 .. n - 1 /\ m - 1 # n /\ m - 1 \in 0 .. n /\ m \in 0 .. n
    BY <1>6
  <2>2. h[m - 1] = f[m - 1]
    BY <2>1
  <2>3. CASE m = n
    <3>1. h[m] = last
      BY <2>1, <2>3
    <3>2. QED
      BY <2>2, <2>3, <3>1 DEF last
  <2>4. CASE m # n
    <3>1. m \in 1 .. n - 1
      BY <1>6, <2>4
    <3>2. h[m] = f[m]
      BY <2>1, <2>4
    <3>3. QED
      BY <1>9, <2>2, <3>1, <3>2
  <2>5. QED
    BY <2>3, <2>4
<1>15. h \in Run(n)
  <2> HIDE DEF h
  <2>1. QED
    BY <1>12, <1>13, <1>14
<1>16. QED
  BY <1>4, <1>15

-----------------------------------------------------------------------------
\* What New computes.

\* How New proceeds over a batch.
Adds(rows, batch, f) ==
    /\ f \in [0 .. Len(batch) -> Rows]
    /\ f[0] = <<>>
    /\ \A n \in 1 .. Len(batch) :
          f[n] = IF Stream!Knows(rows, batch[n]) \/ Stream!Knows(f[n - 1], batch[n])
                 THEN f[n - 1]
                 ELSE Append(f[n - 1], batch[n])

LEMMA NewAdds ==
    ASSUME NEW rows, NEW batch \in Rows
    PROVE  \E f : Adds(rows, batch, f) /\ Stream!New(rows, batch) = f[Len(batch)]
<1> DEFINE N == Len(batch)
           body(f) == [n \in 0 .. N |->
               IF n = 0 THEN <<>>
               ELSE IF Stream!Knows(rows, batch[n]) \/ Stream!Knows(f[n - 1], batch[n])
               THEN f[n - 1]
               ELSE Append(f[n - 1], batch[n])]
           g == [w \in Rows \X Events |->
               IF Stream!Knows(rows, w[2]) \/ Stream!Knows(w[1], w[2])
               THEN w[1] ELSE Append(w[1], w[2])]
<1>1. N \in Nat /\ <<>> \in Rows /\ batch \in Seq(Events)
  BY DEF Rows
<1>2. g \in [Rows \X Events -> Rows]
  <2>1. \A s \in Rows, e \in Events : Append(s, e) \in Rows
    BY AppendProperties DEF Rows
  <2>2. QED
    BY <2>1
<1>3. PICK f \in [0 .. N -> Rows] :
          f[0] = <<>> /\ \A n \in 1 .. N : f[n] = g[<<f[n - 1], batch[n]>>]
  <2>1. batch \in Seq(Events) /\ <<>> \in Rows
    BY <1>1
  <2> HIDE DEF g, N
  <2>2. Runs(Rows, <<>>, g, batch) # {}
    BY <1>2, <2>1, StepByStep
  <2>3. QED
    BY <2>2 DEF N, Runs
<1>4. \A n \in 1 .. N : batch[n] \in Events /\ n - 1 \in 0 .. N
  BY <1>1, ElementOfSeq
<1>5. \A n \in 1 .. N :
         f[n] = IF Stream!Knows(rows, batch[n]) \/ Stream!Knows(f[n - 1], batch[n])
                THEN f[n - 1]
                ELSE Append(f[n - 1], batch[n])
  BY <1>3, <1>4
<1>6. \A n \in 0 .. N : n = 0 \/ n \in 1 .. N
  BY <1>1
<1>7. f = body(f)
  <2> HIDE DEF g
  <2>1. \A n \in 0 .. N : f[n] = body(f)[n]
    BY <1>3, <1>5, <1>6
  <2>2. QED
    BY <1>3, <2>1
<1> DEFINE chosen == CHOOSE h : h = body(h)
<1>8. chosen = body(chosen)
  <2> HIDE DEF body
  <2>1. QED
    BY <1>7
<1>9. Stream!New(rows, batch) = chosen[N]
  BY DEF Stream!New
<1> HIDE DEF chosen
<1>10. /\ DOMAIN chosen = 0 .. N /\ chosen[0] = <<>>
       /\ \A n \in 1 .. N : n \in 0 .. N /\ n # 0
       /\ \A n \in 0 .. N : chosen[n] = body(chosen)[n]
  <2>1. DOMAIN body(chosen) = 0 .. N /\ body(chosen)[0] = <<>>
    BY <1>1
  <2>2. \A n \in 1 .. N : n \in 0 .. N /\ n # 0
    BY <1>1
  <2>3. \A n \in 0 .. N : chosen[n] = body(chosen)[n]
    <3> HIDE DEF body
    <3>1. QED
      BY <1>8
  <2>4. QED
    BY <1>8, <2>1, <2>2, <2>3
<1>11. \A n \in 1 .. N :
          chosen[n] =
            IF Stream!Knows(rows, batch[n]) \/ Stream!Knows(chosen[n - 1], batch[n])
            THEN chosen[n - 1]
            ELSE Append(chosen[n - 1], batch[n])
  BY <1>10
<1>12. \A n \in 0 .. N : chosen[n] \in Rows
  <2> DEFINE Wrong == {n \in 0 .. N : chosen[n] \notin Rows}
  <2>1. SUFFICES ASSUME Wrong # {}
                 PROVE  FALSE
    OBVIOUS
  <2>2. PICK m \in Wrong : \A n \in Wrong : m <= n
    <3>1. Wrong \in SUBSET Nat
      BY <1>1
    <3> HIDE DEF Wrong
    <3>2. QED
      BY <2>1, <3>1, LeastNatural
  <2>3. m \in 1 .. N /\ chosen[m] \notin Rows
    BY <1>1, <1>6, <1>10, <2>2
  <2>4. m - 1 \in 0 .. N /\ m \in Nat
    BY <1>1, <2>3
  <2>5. chosen[m - 1] \in Rows
    <3>1. m - 1 \in Wrong => m <= m - 1
      BY <2>2
    <3>2. QED
      BY <2>4, <3>1
  <2>6. Append(chosen[m - 1], batch[m]) \in Rows
    BY <1>4, <2>3, <2>5, AppendProperties DEF Rows
  <2>7. QED
    BY <1>11, <2>3, <2>5, <2>6
<1>13. Adds(rows, batch, chosen)
  <2>1. chosen \in [0 .. N -> Rows]
    <3>1. body(chosen) \in [0 .. N -> Rows]
      <4>1. \A n \in 0 .. N :
               (IF n = 0 THEN <<>>
                ELSE IF Stream!Knows(rows, batch[n]) \/ Stream!Knows(chosen[n - 1], batch[n])
                THEN chosen[n - 1]
                ELSE Append(chosen[n - 1], batch[n])) \in Rows
        BY <1>1, <1>6, <1>11, <1>12
      <4>2. QED
        BY <4>1
    <3>2. QED
      BY <1>8, <3>1
  <2>2. QED
    BY <1>10, <1>11, <2>1 DEF Adds
<1>14. QED
  BY <1>9, <1>13

\* New goes on from where it was: the last event of a batch is the only one that
\* is judged anew.
LEMMA NewOneMore ==
    ASSUME NEW rows, NEW batch \in Rows, NEW e \in Events
    PROVE  /\ Stream!New(rows, batch) \in Rows
           /\ Stream!New(rows, Append(batch, e)) =
                IF Stream!Knows(rows, e) \/ Stream!Knows(Stream!New(rows, batch), e)
                THEN Stream!New(rows, batch)
                ELSE Append(Stream!New(rows, batch), e)
<1> DEFINE N == Len(batch)
           more == Append(batch, e)
<1>1. N \in Nat /\ batch \in Seq(Events)
  BY DEF Rows
<1>2. /\ more \in Rows /\ Len(more) = N + 1
      /\ \A n \in 1 .. N : more[n] = batch[n]
      /\ more[N + 1] = e
  BY <1>1, AppendProperties DEF Rows
<1> HIDE DEF more
<1>3. PICK f : Adds(rows, batch, f) /\ Stream!New(rows, batch) = f[N]
  BY NewAdds
<1>4. PICK h : Adds(rows, more, h) /\ Stream!New(rows, more) = h[N + 1]
  BY <1>2, NewAdds
<1>5. \A n \in 0 .. N : f[n] = h[n]
  <2> DEFINE Wrong == {n \in 0 .. N : f[n] # h[n]}
  <2>1. SUFFICES ASSUME Wrong # {}
                 PROVE  FALSE
    OBVIOUS
  <2>2. PICK m \in Wrong : \A n \in Wrong : m <= n
    <3>1. Wrong \in SUBSET Nat
      BY <1>1
    <3> HIDE DEF Wrong
    <3>2. QED
      BY <2>1, <3>1, LeastNatural
  <2>3. m \in 0 .. N /\ f[m] # h[m]
    BY <2>2
  <2>4. m # 0
    BY <1>3, <1>4, <2>3 DEF Adds
  <2>5. m \in 1 .. N /\ m - 1 \in 0 .. N /\ m \in 1 .. N + 1
    BY <1>1, <2>3, <2>4
  <2>6. f[m - 1] = h[m - 1]
    <3>1. m - 1 \in Wrong => m <= m - 1
      BY <2>2
    <3>2. QED
      BY <2>5, <3>1
  <2>7. f[m] = IF Stream!Knows(rows, batch[m]) \/ Stream!Knows(f[m - 1], batch[m])
               THEN f[m - 1] ELSE Append(f[m - 1], batch[m])
    BY <1>3, <2>5 DEF Adds
  <2>8. h[m] = IF Stream!Knows(rows, more[m]) \/ Stream!Knows(h[m - 1], more[m])
               THEN h[m - 1] ELSE Append(h[m - 1], more[m])
    BY <1>2, <1>4, <2>5 DEF Adds
  <2>9. QED
    BY <1>2, <2>3, <2>5, <2>6, <2>7, <2>8
<1>6. f[N] \in Rows /\ f[N] = h[N]
  BY <1>1, <1>3, <1>5 DEF Adds
<1>7. h[N + 1] = IF Stream!Knows(rows, more[N + 1]) \/ Stream!Knows(h[N], more[N + 1])
                 THEN h[N] ELSE Append(h[N], more[N + 1])
  <2>1. N + 1 \in 1 .. Len(more) /\ (N + 1) - 1 = N
    BY <1>1, <1>2
  <2>2. QED
    BY <1>4, <2>1 DEF Adds
<1>8. QED
  BY <1>2, <1>3, <1>4, <1>6, <1>7 DEF more

LEMMA NewNothing ==
    ASSUME NEW rows
    PROVE  Stream!New(rows, <<>>) = <<>>
<1>1. <<>> \in Rows /\ Len(<<>>) = 0
  BY DEF Rows
<1>2. PICK f : Adds(rows, <<>>, f) /\ Stream!New(rows, <<>>) = f[Len(<<>>)]
  BY <1>1, NewAdds
<1>3. QED
  BY <1>1, <1>2 DEF Adds

\* What holds of no rows, and of one row more whenever it holds of some, holds of
\* all rows.
LEMMA RowsGrow ==
    ASSUME NEW T \in SUBSET Rows, <<>> \in T,
           \A s \in T, e \in Events : Append(s, e) \in T
    PROVE  T = Rows
<1> DEFINE Short == {Len(s) : s \in Rows \ T}
<1>1. SUFFICES ASSUME Short # {}
               PROVE  FALSE
  OBVIOUS
<1>2. \A s \in Rows : Len(s) \in Nat
  BY DEF Rows
<1>3. PICK n \in Short : \A m \in Short : n <= m
  <2>1. Short \in SUBSET Nat
    BY <1>2
  <2> HIDE DEF Short
  <2>2. QED
    BY <1>1, <2>1, LeastNatural
<1>4. PICK s \in Rows \ T : n = Len(s)
  BY <1>3
<1>5. s # <<>> /\ s \in Seq(Events)
  BY <1>4 DEF Rows
<1>6. PICK t \in Seq(Events), e \in Events : s = Append(t, e)
  BY <1>5, SequenceEmptyOrAppend
<1>7. Len(s) = Len(t) + 1 /\ Len(t) \in Nat
  BY <1>6, AppendProperties
<1>8. t \in T
  <2>1. t \in Rows
    BY DEF Rows
  <2>2. t \notin T => Len(t) \in Short
    BY <2>1
  <2>3. QED
    BY <1>3, <1>4, <1>7, <2>2
<1>9. QED
  BY <1>4, <1>6, <1>8

LEMMA OneMoreRow ==
    ASSUME NEW s \in Rows, NEW e \in Events
    PROVE  /\ Append(s, e) \in Rows
           /\ Len(s) \in Nat /\ DOMAIN s = 1 .. Len(s)
           /\ DOMAIN Append(s, e) = DOMAIN s \cup {Len(s) + 1}
           /\ Len(s) + 1 \notin DOMAIN s
           /\ \A i \in DOMAIN s : Append(s, e)[i] = s[i]
           /\ Append(s, e)[Len(s) + 1] = e
<1>1. s \in Seq(Events)
  BY DEF Rows
<1>2. /\ Append(s, e) \in Seq(Events)
      /\ Len(Append(s, e)) = Len(s) + 1
      /\ \A i \in 1 .. Len(s) : Append(s, e)[i] = s[i]
      /\ Append(s, e)[Len(s) + 1] = e
  BY <1>1, AppendProperties
<1>3. Len(s) \in Nat /\ DOMAIN s = 1 .. Len(s)
  BY <1>1
<1>4. DOMAIN Append(s, e) = 1 .. Len(s) + 1
  BY <1>2
<1>5. 1 .. Len(s) + 1 = (1 .. Len(s)) \cup {Len(s) + 1} /\ Len(s) + 1 \notin 1 .. Len(s)
  <2>1. \A n \in Nat : 1 .. n + 1 = (1 .. n) \cup {n + 1} /\ n + 1 \notin 1 .. n
    OBVIOUS
  <2>2. QED
    BY <1>3, <2>1
<1>6. QED
  BY <1>2, <1>3, <1>4, <1>5 DEF Rows

\* New takes from the batch, once for each id, what rows does not know, and
\* nothing of the batch is unknown after it.
Exact(rows, batch, new) ==
    /\ new \in Rows
    /\ Distinct(new)
    /\ \A i \in DOMAIN new : ~Stream!Knows(rows, new[i])
    /\ \A i \in DOMAIN new : \E k \in DOMAIN batch : new[i] = batch[k]
    /\ \A k \in DOMAIN batch :
          Stream!Knows(rows, batch[k]) \/ Stream!Knows(new, batch[k])

LEMMA NewExact ==
    ASSUME NEW rows, NEW batch \in Rows
    PROVE  Exact(rows, batch, Stream!New(rows, batch))
<1> DEFINE T == {s \in Rows : Exact(rows, s, Stream!New(rows, s))}
<1>1. <<>> \in T
  <2>1. <<>> \in Rows /\ DOMAIN <<>> = {}
    BY DEF Rows
  <2>2. Stream!New(rows, <<>>) = <<>>
    BY NewNothing
  <2>3. QED
    BY <2>1, <2>2 DEF Exact, Distinct
<1>2. ASSUME NEW s \in T, NEW e \in Events
      PROVE  Append(s, e) \in T
  <2> DEFINE old == Stream!New(rows, s)
             more == Append(s, e)
             new == Stream!New(rows, more)
  <2>1. s \in Rows /\ Exact(rows, s, old)
    OBVIOUS
  <2>2. /\ more \in Rows
        /\ DOMAIN more = DOMAIN s \cup {Len(s) + 1}
        /\ \A i \in DOMAIN s : more[i] = s[i]
        /\ more[Len(s) + 1] = e
    BY <2>1, OneMoreRow
  <2>3. new = IF Stream!Knows(rows, e) \/ Stream!Knows(old, e) THEN old ELSE Append(old, e)
    BY <2>1, NewOneMore
  <2>4. old \in Rows
    BY <2>1 DEF Exact
  <2> HIDE DEF T, old, more, new
  <2> SUFFICES Exact(rows, more, new)
    BY <2>2 DEF T, new, more
  <2>5. CASE Stream!Knows(rows, e) \/ Stream!Knows(old, e)
    <3>1. new = old
      BY <2>3, <2>5
    <3>2. \A i \in DOMAIN old : \E k \in DOMAIN more : old[i] = more[k]
      BY <2>1, <2>2 DEF Exact
    <3>3. ASSUME NEW k \in DOMAIN more
          PROVE  Stream!Knows(rows, more[k]) \/ Stream!Knows(old, more[k])
      <4>1. k \in DOMAIN s => Stream!Knows(rows, s[k]) \/ Stream!Knows(old, s[k])
        BY <2>1 DEF Exact
      <4>2. QED
        BY <2>2, <2>5, <4>1
    <3>4. QED
      BY <2>1, <3>1, <3>2, <3>3 DEF Exact
  <2>6. CASE ~(Stream!Knows(rows, e) \/ Stream!Knows(old, e))
    <3>1. /\ new \in Rows
          /\ DOMAIN new = DOMAIN old \cup {Len(old) + 1}
          /\ \A i \in DOMAIN old : new[i] = old[i]
          /\ new[Len(old) + 1] = e
      BY <2>3, <2>4, <2>6, OneMoreRow, SMTT(60)
    <3>2. \A i \in DOMAIN old : old[i].id # e.id
      BY <2>6 DEF Stream!Knows
    <3>3. Distinct(new)
      BY <2>1, <3>1, <3>2 DEF Exact, Distinct
    <3>4. \A i \in DOMAIN new : ~Stream!Knows(rows, new[i])
      BY <2>1, <2>6, <3>1 DEF Exact
    <3>5. \A i \in DOMAIN new : \E k \in DOMAIN more : new[i] = more[k]
      BY <2>1, <2>2, <3>1 DEF Exact
    <3>6. Stream!Knows(new, e) /\ \A x : Stream!Knows(old, x) => Stream!Knows(new, x)
      BY <3>1 DEF Stream!Knows
    <3>7. ASSUME NEW k \in DOMAIN more
          PROVE  Stream!Knows(rows, more[k]) \/ Stream!Knows(new, more[k])
      <4>1. k \in DOMAIN s => Stream!Knows(rows, s[k]) \/ Stream!Knows(old, s[k])
        BY <2>1 DEF Exact
      <4>2. QED
        BY <2>2, <3>6, <4>1
    <3>8. QED
      BY <3>1, <3>3, <3>4, <3>5, <3>7 DEF Exact
  <2>7. QED
    BY <2>5, <2>6
<1>3. T = Rows
  <2>1. T \in SUBSET Rows
    OBVIOUS
  <2> HIDE DEF T
  <2>2. QED
    BY <1>1, <1>2, <2>1, RowsGrow
<1>4. QED
  BY <1>3

\* A batch without its repetitions adds what the batch adds.
LEMMA NewOfNew ==
    ASSUME NEW rows, NEW batch \in Rows
    PROVE  Stream!New(rows, Stream!New(<<>>, batch)) = Stream!New(rows, batch)
<1> DEFINE Once(s) == Stream!New(<<>>, s)
           T == {s \in Rows : Stream!New(rows, Once(s)) = Stream!New(rows, s)}
<1>1. <<>> \in T
  <2>1. <<>> \in Rows
    BY DEF Rows
  <2>2. QED
    BY <2>1, NewNothing
<1>2. ASSUME NEW s \in T, NEW e \in Events
      PROVE  Append(s, e) \in T
  <2> DEFINE once == Once(s)
  <2>1. s \in Rows /\ Stream!New(rows, once) = Stream!New(rows, s)
    OBVIOUS
  <2>2. Exact(<<>>, s, once) /\ once \in Rows
    BY <2>1, NewExact, NewOneMore
  <2>3. \A x : ~Stream!Knows(<<>>, x)
    BY DEF Stream!Knows
  <2>4. Stream!New(<<>>, Append(s, e)) =
          IF Stream!Knows(once, e) THEN once ELSE Append(once, e)
    BY <2>1, <2>3, NewOneMore
  <2>5. Stream!New(rows, Append(s, e)) =
          IF Stream!Knows(rows, e) \/ Stream!Knows(Stream!New(rows, s), e)
          THEN Stream!New(rows, s) ELSE Append(Stream!New(rows, s), e)
    BY <2>1, NewOneMore
  <2>6. Append(s, e) \in Rows
    BY <2>1, OneMoreRow
  <2> HIDE DEF once, T
  <2>7. CASE Stream!Knows(once, e)
    <3>1. PICK i \in DOMAIN once : once[i].id = e.id
      BY <2>7 DEF Stream!Knows
    <3>2. PICK k \in DOMAIN s : once[i] = s[k]
      BY <2>2 DEF Exact
    <3>3. Exact(rows, s, Stream!New(rows, s))
      BY <2>1, NewExact
    <3>4. Stream!Knows(rows, s[k]) \/ Stream!Knows(Stream!New(rows, s), s[k])
      BY <3>3 DEF Exact
    <3>5. Stream!Knows(rows, e) \/ Stream!Knows(Stream!New(rows, s), e)
      BY <3>1, <3>2, <3>4 DEF Stream!Knows
    <3>6. Stream!New(<<>>, Append(s, e)) = once /\ Stream!New(rows, Append(s, e)) = Stream!New(rows, s)
      BY <2>4, <2>5, <2>7, <3>5
    <3>7. QED
      BY <2>1, <2>6, <3>6 DEF T
  <2>8. CASE ~Stream!Knows(once, e)
    <3>1. Stream!New(rows, Append(once, e)) =
            IF Stream!Knows(rows, e) \/ Stream!Knows(Stream!New(rows, once), e)
            THEN Stream!New(rows, once) ELSE Append(Stream!New(rows, once), e)
      BY <2>2, NewOneMore
    <3>2. Stream!New(<<>>, Append(s, e)) = Append(once, e)
      BY <2>4, <2>8
    <3>3. QED
      BY <2>1, <2>5, <2>6, <3>1, <3>2 DEF T
  <2>9. QED
    BY <2>7, <2>8
<1>3. T = Rows
  <2>1. T \in SUBSET Rows
    OBVIOUS
  <2> HIDE DEF T
  <2>2. QED
    BY <1>1, <1>2, <2>1, RowsGrow
<1>4. QED
  BY <1>3

-----------------------------------------------------------------------------
\* Batches and prefixes.

LEMMA ProposalsAreRows == ASSUME LedgerConstants PROVE Proposals \subseteq Rows
<1> SUFFICES ASSUME NEW batch \in Proposals
             PROVE  batch \in Rows
  OBVIOUS
<1>1. batch \in Seq(Range(batch))
  BY LedgerConstants DEF LedgerConstants
<1>2. Range(batch) \subseteq Events
  BY DEF Events
<1>3. QED
  BY <1>1, <1>2, SeqMonotonic DEF Rows

LEMMA PrefixIs ==
    ASSUME NEW s \in Rows, NEW t \in Rows
    PROVE  IsPrefix(s, t) <=> Len(s) <= Len(t) /\ \A i \in 1 .. Len(s) : s[i] = t[i]
<1>1. s \in Seq(Events) /\ t \in Seq(Events) /\ Len(s) \in Nat /\ Len(t) \in Nat
  BY DEF Rows
<1>2. SubSeq(s, 1, Len(s)) = s
  BY <1>1, SubSeqFull
<1>3. ASSUME Len(s) <= Len(t)
      PROVE  SubSeq(t, 1, Len(s)) = s <=> \A i \in 1 .. Len(s) : s[i] = t[i]
  <2> DEFINE c == SubSeq(t, 1, Len(s))
  <2>1. \A i \in 1 .. Len(s) : t[i] \in Events
    BY <1>1, <1>3, ElementOfSeq
  <2>2. /\ c \in Seq(Events)
        /\ Len(c) = Len(s)
        /\ \A i \in 1 .. Len(s) : c[i] = t[i]
    BY <1>1, <2>1
  <2> HIDE DEF c
  <2>3. (\A i \in 1 .. Len(s) : s[i] = t[i]) => c = s
    BY <1>1, <2>2, SeqEqual
  <2>4. c = s => \A i \in 1 .. Len(s) : s[i] = t[i]
    BY <2>2
  <2>5. QED
    BY <2>3, <2>4 DEF c
<1>4. QED
  BY <1>2, <1>3 DEF IsPrefix

LEMMA PrefixSelf ==
    ASSUME NEW s \in Rows
    PROVE  IsPrefix(s, s) /\ IsPrefix(<<>>, s)
<1>1. <<>> \in Rows /\ Len(<<>>) = 0 /\ Len(s) \in Nat
  BY DEF Rows
<1>2. QED
  BY <1>1, PrefixIs

LEMMA Refusals ==
    ASSUME NEW batch \in Rows
    PROVE  /\ FirstRefusal(batch) = "ok" => AllValid(batch)
           /\ FirstRefusal(batch) # "ok" => FirstRefusal(batch) \in Endings
<1> DEFINE bad == {i \in DOMAIN batch : Verdict(batch[i]) # "ok"}
           first == CHOOSE i \in bad : \A j \in bad : i <= j
<1>1. \A e : Verdict(e) \in {"ok", "unsupported_version", "unknown_name", "malformed_event"}
  BY DEF Verdict
<1>2. ASSUME bad # {}
      PROVE  first \in bad
  <2>1. bad \in SUBSET Nat
    <3>1. DOMAIN batch = 1 .. Len(batch)
      BY DEF Rows
    <3>2. QED
      BY <3>1
  <2> HIDE DEF bad
  <2>2. \E i \in bad : \A j \in bad : i <= j
    BY <1>2, <2>1, LeastNatural
  <2>3. QED
    BY <2>2
<1>3. FirstRefusal(batch) = IF bad = {} THEN "ok" ELSE Verdict(batch[first])
  BY DEF FirstRefusal
<1> HIDE DEF first
<1>4. QED
  BY <1>1, <1>2, <1>3 DEF AllValid, Endings

\* A staged batch contradicts rows if it does so without its repetitions.
LEMMA OnceContradicts ==
    ASSUME LedgerConstants, NEW batch, Staged(batch), NEW rows,
           ~Stream!Contradicts(rows, Stream!New(<<>>, batch))
    PROVE  ~Stream!Contradicts(rows, batch)
<1> DEFINE once == Stream!New(<<>>, batch)
<1>1. batch \in Rows
  BY LedgerConstants, ProposalsAreRows DEF Staged
<1>2. Exact(<<>>, batch, once)
  BY <1>1, NewExact
<1> HIDE DEF once
<1>3. SUFFICES ASSUME NEW i \in DOMAIN rows, NEW j \in DOMAIN batch,
                      rows[i].id = batch[j].id
               PROVE  rows[i] = batch[j]
  BY DEF Stream!Contradicts
<1>4. Stream!Knows(once, batch[j])
  BY <1>2 DEF Exact, Stream!Knows
<1>5. PICK m \in DOMAIN once : once[m].id = batch[j].id
  BY <1>4 DEF Stream!Knows
<1>6. PICK k \in DOMAIN batch : once[m] = batch[k]
  BY <1>2 DEF Exact
<1>7. batch[k] = batch[j]
  BY <1>5, <1>6 DEF Staged, Stream!Contradicts
<1>8. rows[i] = once[m]
  BY <1>3, <1>5 DEF Stream!Contradicts, once
<1>9. QED
  BY <1>6, <1>7, <1>8

\* What a committed batch makes of the rows.
LEMMA ExtendKeeps ==
    ASSUME LedgerConstants, NEW rows \in Rows, Distinct(rows), AllValid(rows),
           NEW batch, Staged(batch), ~Stream!Contradicts(rows, batch)
    PROVE  LET more == rows \o Stream!New(rows, batch)
           IN  /\ more \in Rows
               /\ Distinct(more)
               /\ AllValid(more)
               /\ Holds(more, batch)
               /\ DOMAIN rows \subseteq DOMAIN more
               /\ \A b : Holds(rows, b) => Holds(more, b)
               /\ \A s \in Rows : IsPrefix(s, rows) => IsPrefix(s, more)
<1> DEFINE new == Stream!New(rows, batch)
           more == rows \o new
           n == Len(rows)
<1>1. batch \in Rows
  BY LedgerConstants, ProposalsAreRows DEF Staged
<1>2. Exact(rows, batch, new)
  BY <1>1, NewExact
<1>3. new \in Rows
  BY <1>2 DEF Exact
<1> HIDE DEF new
<1>4. /\ more \in Seq(Events) /\ Len(more) = n + Len(new)
      /\ \A i \in 1 .. n + Len(new) : more[i] = IF i <= n THEN rows[i] ELSE new[i - n]
  BY <1>3, ConcatProperties DEF Rows
<1>5. /\ n \in Nat /\ Len(new) \in Nat
      /\ DOMAIN rows = 1 .. n /\ DOMAIN new = 1 .. Len(new)
      /\ DOMAIN more = 1 .. n + Len(new)
  BY <1>3, <1>4 DEF Rows
<1> HIDE DEF more, n
<1>6. \A i \in DOMAIN rows : i \in DOMAIN more /\ more[i] = rows[i]
  BY <1>4, <1>5
<1>7. \A i \in DOMAIN new : n + i \in DOMAIN more /\ more[n + i] = new[i]
  BY <1>4, <1>5
<1>8. \A i \in DOMAIN more :
         \/ i \in DOMAIN rows /\ more[i] = rows[i]
         \/ i - n \in DOMAIN new /\ more[i] = new[i - n] /\ i = n + (i - n)
  BY <1>4, <1>5
<1>9. Distinct(more)
  <2>1. SUFFICES ASSUME NEW i \in DOMAIN more, NEW j \in DOMAIN more,
                        more[i].id = more[j].id
                 PROVE  i = j
    BY DEF Distinct
  <2>2. CASE i \in DOMAIN rows /\ j \in DOMAIN rows
    BY <1>6, <2>1, <2>2 DEF Distinct
  <2>3. CASE i \in DOMAIN rows /\ j \notin DOMAIN rows
    <3>1. j - n \in DOMAIN new /\ more[j] = new[j - n]
      BY <1>8, <2>3
    <3>2. ~Stream!Knows(rows, new[j - n])
      BY <1>2, <3>1 DEF Exact
    <3>3. QED
      BY <1>6, <2>1, <2>3, <3>1, <3>2 DEF Stream!Knows
  <2>4. CASE i \notin DOMAIN rows /\ j \in DOMAIN rows
    <3>1. i - n \in DOMAIN new /\ more[i] = new[i - n]
      BY <1>8, <2>4
    <3>2. ~Stream!Knows(rows, new[i - n])
      BY <1>2, <3>1 DEF Exact
    <3>3. QED
      BY <1>6, <2>1, <2>4, <3>1, <3>2 DEF Stream!Knows
  <2>5. CASE i \notin DOMAIN rows /\ j \notin DOMAIN rows
    <3>1. /\ i - n \in DOMAIN new /\ more[i] = new[i - n] /\ i = n + (i - n)
          /\ j - n \in DOMAIN new /\ more[j] = new[j - n] /\ j = n + (j - n)
      BY <1>8, <2>5
    <3>2. i - n = j - n
      BY <1>2, <2>1, <3>1 DEF Exact, Distinct
    <3>3. QED
      BY <3>1, <3>2
  <2>6. QED
    BY <2>2, <2>3, <2>4, <2>5
<1>10. AllValid(more)
  <2>1. \A i \in DOMAIN new : Verdict(new[i]) = "ok"
    <3>1. AllValid(batch)
      BY DEF Staged
    <3>2. \A i \in DOMAIN new : \E k \in DOMAIN batch : new[i] = batch[k]
      BY <1>2 DEF Exact
    <3>3. QED
      BY <3>1, <3>2 DEF AllValid
  <2>2. QED
    BY <1>8, <2>1 DEF AllValid
<1>11. Holds(more, batch)
  <2>1. SUFFICES ASSUME NEW k \in DOMAIN batch
                 PROVE  \E i \in DOMAIN more : more[i] = batch[k]
    BY DEF Holds
  <2>2. CASE Stream!Knows(rows, batch[k])
    <3>1. PICK i \in DOMAIN rows : rows[i].id = batch[k].id
      BY <2>2 DEF Stream!Knows
    <3>2. rows[i] = batch[k]
      BY <3>1 DEF Stream!Contradicts
    <3>3. QED
      BY <1>6, <3>2
  <2>3. CASE Stream!Knows(new, batch[k])
    <3>1. PICK i \in DOMAIN new : new[i].id = batch[k].id
      BY <2>3 DEF Stream!Knows
    <3>2. PICK j \in DOMAIN batch : new[i] = batch[j]
      BY <1>2 DEF Exact
    <3>3. batch[j] = batch[k]
      BY <3>1, <3>2 DEF Staged, Stream!Contradicts
    <3>4. QED
      BY <1>7, <3>2, <3>3
  <2>4. QED
    BY <1>2, <2>2, <2>3 DEF Exact
<1>12. \A b : Holds(rows, b) => Holds(more, b)
  BY <1>6 DEF Holds
<1>13. ASSUME NEW s \in Rows, IsPrefix(s, rows)
       PROVE  IsPrefix(s, more)
  <2>1. more \in Rows
    BY <1>4 DEF Rows
  <2>2. Len(s) <= n /\ \A i \in 1 .. Len(s) : s[i] = rows[i]
    BY <1>13, PrefixIs DEF n
  <2>3. Len(s) \in Nat
    BY DEF Rows
  <2>4. Len(s) <= Len(more)
    BY <1>4, <1>5, <2>2, <2>3
  <2>5. \A i \in 1 .. Len(s) : i \in DOMAIN rows
    BY <1>5, <2>2, <2>3
  <2>6. QED
    BY <1>6, <2>1, <2>2, <2>4, <2>5, PrefixIs
<1>14. QED
  BY <1>4, <1>6, <1>9, <1>10, <1>11, <1>12, <1>13 DEF more, new, Rows

\* A row less to write, a row more written.
LEMMA HeadMoves ==
    ASSUME NEW s \in Rows, NEW t \in Rows, t # <<>>
    PROVE  /\ Head(t) \in Events /\ Tail(t) \in Rows /\ Append(s, Head(t)) \in Rows
           /\ Append(s, Head(t)) \o Tail(t) = s \o t
<1>1. s \in Seq(Events) /\ t \in Seq(Events)
  BY DEF Rows
<1>2. /\ Head(t) \in Events /\ Tail(t) \in Seq(Events)
      /\ Len(Tail(t)) = Len(t) - 1
      /\ \A i \in 1 .. Len(Tail(t)) : Tail(t)[i] = t[i + 1]
      /\ Head(t) = t[1]
  BY <1>1, HeadTailProperties
<1> DEFINE a == Append(s, Head(t))
           b == Tail(t)
<1>3. /\ a \in Seq(Events) /\ Len(a) = Len(s) + 1
      /\ \A i \in 1 .. Len(s) : a[i] = s[i]
      /\ a[Len(s) + 1] = t[1]
  BY <1>1, <1>2, AppendProperties
<1> HIDE DEF a, b
<1>4. /\ Len(s) \in Nat /\ Len(t) \in Nat /\ Len(t) # 0
      /\ b \in Seq(Events) /\ Len(b) = Len(t) - 1
      /\ \A i \in 1 .. Len(b) : b[i] = t[i + 1]
  BY <1>1, <1>2, EmptySeq DEF b
<1>5. /\ a \o b \in Seq(Events) /\ Len(a \o b) = Len(a) + Len(b)
      /\ \A i \in 1 .. Len(a) + Len(b) :
            (a \o b)[i] = IF i <= Len(a) THEN a[i] ELSE b[i - Len(a)]
  BY <1>3, <1>4, ConcatProperties
<1>6. /\ s \o t \in Seq(Events) /\ Len(s \o t) = Len(s) + Len(t)
      /\ \A i \in 1 .. Len(s) + Len(t) :
            (s \o t)[i] = IF i <= Len(s) THEN s[i] ELSE t[i - Len(s)]
  BY <1>1, ConcatProperties
<1>7. Len(a \o b) = Len(s \o t)
  BY <1>3, <1>4, <1>5, <1>6
<1>8. ASSUME NEW i \in 1 .. Len(a \o b)
      PROVE  (a \o b)[i] = (s \o t)[i]
  <2>1. i \in 1 .. Len(a) + Len(b) /\ i \in 1 .. Len(s) + Len(t)
    BY <1>5, <1>6, <1>7
  <2>2. CASE i <= Len(s)
    <3>1. i \in 1 .. Len(s) /\ i <= Len(a)
      BY <1>3, <1>4, <2>1, <2>2
    <3>2. QED
      BY <1>3, <1>5, <1>6, <2>1, <2>2, <3>1
  <2>3. CASE i = Len(s) + 1
    <3>1. i <= Len(a) /\ ~(i <= Len(s)) /\ i - Len(s) = 1
      BY <1>3, <1>4, <2>3
    <3>2. QED
      BY <1>3, <1>5, <1>6, <2>1, <2>3, <3>1
  <2>4. CASE i > Len(s) + 1
    <3>1. /\ ~(i <= Len(a)) /\ ~(i <= Len(s))
          /\ i - Len(a) \in 1 .. Len(b) /\ (i - Len(a)) + 1 = i - Len(s)
      BY <1>3, <1>4, <2>1, <2>4
    <3>2. QED
      BY <1>4, <1>5, <1>6, <2>1, <3>1
  <2>5. QED
    BY <1>4, <2>1, <2>2, <2>3, <2>4, SMTT(60)
<1>9. a \o b = s \o t
  BY <1>5, <1>6, <1>7, <1>8, SeqEqual
<1>10. QED
  BY <1>2, <1>3, <1>9 DEF a, b, Rows

-----------------------------------------------------------------------------
\* The steps.

LEMMA IdleOK ==
    ASSUME NEW rows, NEW list, NEW alive
    PROVE  CallOK(Idle, rows, list, alive) /\ Idle.phase \notin Inside
<1>1. Idle \in PublishCalls
  BY DEF Idle, PublishCalls, Phases, Rows
<1>2. Idle.phase = "idle" /\ Idle.hydrates = FALSE
  BY DEF Idle
<1>3. Publishing(Idle, rows)
  BY <1>2 DEF Publishing
<1>4. QED
  BY <1>1, <1>2, <1>3 DEF CallOK, Inside

LEMMA LedgerStarts == ASSUME LedgerConstants PROVE LedgerInit => LedgerInv
<1> SUFFICES ASSUME LedgerInit
             PROVE  LedgerInv
  OBVIOUS
<1>1. outbox = <<>> /\ kept = <<>> /\ <<>> \in Rows /\ DOMAIN <<>> = {}
  BY DEF LedgerInit, Rows
<1>2. FileInv
  <2>1. IsPrefix(kept, outbox)
    BY <1>1, PrefixSelf
  <2>2. QED
    BY <1>1, <2>1 DEF FileInv, LedgerInit, Distinct, AllValid
<1>3. CallsInv
  <2>1. \A p \in Publishers : call[p] = Idle
    BY DEF LedgerInit
  <2>2. \A p \in Publishers : holder # p
    BY LedgerConstants DEF LedgerConstants, LedgerInit
  <2>3. QED
    BY <2>1, <2>2, IdleOK DEF CallsInv, LedgerInit
<1>4. answer \in [Publishers -> Endings]
  BY DEF LedgerInit, Endings
<1>5. QED
  BY <1>2, <1>3, <1>4 DEF LedgerInv

\* A call that ends leaves the other calls as they are and lets go of the file.
LEMMA EndsKeepsCalls ==
    ASSUME LedgerConstants, CallsInv, answer \in [Publishers -> Endings],
           NEW p \in Publishers, NEW how \in Endings, Ends(p, how),
           \A q \in Publishers \ {p} : CallOK(call[q], outbox', kept', up')
    PROVE  CallsInv' /\ answer' \in [Publishers -> Endings]
<1>1. /\ DOMAIN call' = Publishers
      /\ call'[p] = Idle
      /\ \A q \in Publishers \ {p} : call'[q] = call[q]
  BY DEF Ends, CallsInv
<1>2. \A q \in Publishers : CallOK(call'[q], outbox', kept', up')
  BY <1>1, IdleOK
<1>3. \A q \in Publishers : call[q].phase \in Inside <=> holder = q
  BY DEF CallsInv
<1>4. holder' = IF holder = p THEN NoOne ELSE holder
  BY DEF Ends
<1>5. ASSUME NEW q \in Publishers
      PROVE  call'[q].phase \in Inside <=> holder' = q
  <2>1. q # NoOne /\ p # NoOne
    BY LedgerConstants DEF LedgerConstants
  <2>2. CASE q = p
    BY <1>1, <1>4, <2>1, <2>2, IdleOK
  <2>3. CASE q # p
    BY <1>1, <1>3, <1>4, <2>1, <2>3
  <2>4. QED
    BY <2>2, <2>3
<1>6. holder' \in Publishers \cup {NoOne}
  BY <1>4 DEF CallsInv
<1>7. answer' \in [Publishers -> Endings]
  BY DEF Ends
<1>8. QED
  BY <1>1, <1>2, <1>5, <1>6, <1>7 DEF CallsInv

LEMMA EndsKeeps ==
    ASSUME LedgerConstants, LedgerInv, NEW p \in Publishers, NEW how \in Endings,
           Ends(p, how), UNCHANGED <<outbox, rotten, acked, kept, up>>
    PROVE  LedgerInv'
<1>1. \A q \in Publishers : CallOK(call[q], outbox', kept', up')
  BY DEF LedgerInv, CallsInv
<1>2. CallsInv' /\ answer' \in [Publishers -> Endings]
  BY <1>1, EndsKeepsCalls DEF LedgerInv
<1>3. FileInv'
  BY DEF LedgerInv, FileInv
<1>4. QED
  BY <1>2, <1>3 DEF LedgerInv

\* A call that goes on.
LEMMA MoveKeeps ==
    ASSUME LedgerConstants, LedgerInv, NEW p \in Publishers,
           DOMAIN call' = Publishers,
           \A q \in Publishers \ {p} : call'[q] = call[q],
           CallOK(call'[p], outbox, kept, up),
           holder' \in {holder, p},
           holder' = p \/ call'[p].phase \notin Inside,
           holder = holder' \/ holder = NoOne,
           holder' = p => call'[p].phase \in Inside,
           UNCHANGED <<outbox, rotten, acked, kept, up, answer>>
    PROVE  LedgerInv'
<1>1. FileInv' /\ answer' \in [Publishers -> Endings]
  BY DEF LedgerInv, FileInv
<1>2. \A q \in Publishers : CallOK(call'[q], outbox', kept', up')
  BY DEF LedgerInv, CallsInv
<1>3. ASSUME NEW q \in Publishers
      PROVE  call'[q].phase \in Inside <=> holder' = q
  <2>1. CASE q = p
    BY <2>1
  <2>2. CASE q # p
    <3>1. call'[q].phase \in Inside <=> holder = q
      BY <2>2 DEF LedgerInv, CallsInv
    <3>2. q # NoOne
      BY LedgerConstants DEF LedgerConstants
    <3>3. QED
      BY <2>2, <3>1, <3>2
  <2>3. QED
    BY <2>1, <2>2
<1>4. holder' \in Publishers \cup {NoOne}
  BY DEF LedgerInv, CallsInv
<1>5. QED
  BY <1>1, <1>2, <1>3, <1>4 DEF LedgerInv, CallsInv

LEMMA PublishKeeps ==
    ASSUME LedgerConstants, LedgerInv, NEW p \in Publishers,
           NEW batch \in Proposals, Publish(p, batch)
    PROVE  LedgerInv'
<1>1. batch \in Rows
  BY LedgerConstants, ProposalsAreRows
<1>2. call[p].phase = "idle" /\ up /\ UNCHANGED <<outbox, rotten, acked, kept, up>>
  BY DEF Publish
<1>3. CASE FirstRefusal(batch) # "ok"
  <2>1. Ends(p, FirstRefusal(batch)) /\ FirstRefusal(batch) \in Endings
    BY <1>1, <1>3, Refusals DEF Publish
  <2>2. QED
    BY <1>2, <2>1, EndsKeeps
<1>4. CASE FirstRefusal(batch) = "ok" /\ Stream!Contradicts(batch, batch)
  <2>1. Ends(p, "duplicate_conflict") /\ "duplicate_conflict" \in Endings
    BY <1>4 DEF Publish, Endings
  <2>2. QED
    BY <1>2, <2>1, EndsKeeps
<1>5. CASE FirstRefusal(batch) = "ok" /\ ~Stream!Contradicts(batch, batch)
  <2> DEFINE todo == Stream!New(<<>>, batch)
             c == [Idle EXCEPT !.phase = "asking", !.batch = batch, !.todo = todo]
  <2>1. Staged(batch)
    BY <1>1, <1>5, Refusals DEF Staged
  <2>2. todo \in Rows
    BY <1>1, NewExact DEF Exact
  <2>3. call' = [call EXCEPT ![p] = c] /\ UNCHANGED <<holder, answer>>
    BY <1>5 DEF Publish
  <2> HIDE DEF todo
  <2>4. Idle \in PublishCalls /\ Idle.hydrates = FALSE
    BY IdleOK DEF CallOK, Idle
  <2>5. /\ c \in PublishCalls /\ c.phase = "asking" /\ c.hydrates = FALSE
        /\ c.batch = batch /\ c.todo = todo
    BY <2>2, <2>4 DEF PublishCalls, Phases
  <2> HIDE DEF c
  <2>6. Publishing(c, outbox)
    BY <2>1, <2>5 DEF Publishing, todo
  <2>7. CallOK(c, outbox, kept, up)
    BY <1>2, <2>5, <2>6 DEF CallOK
  <2>8. /\ DOMAIN call' = Publishers /\ call'[p] = c
        /\ \A q \in Publishers \ {p} : call'[q] = call[q]
    BY <2>3 DEF LedgerInv, CallsInv
  <2>9. holder # p /\ c.phase \notin Inside
    BY <1>2, <2>5 DEF LedgerInv, CallsInv, Inside
  <2>10. QED
    BY <1>2, <2>3, <2>7, <2>8, <2>9, MoveKeeps
<1>6. QED
  BY <1>3, <1>4, <1>5

LEMMA HydrateKeeps ==
    ASSUME LedgerConstants, LedgerInv, NEW p \in Publishers, Hydrate(p)
    PROVE  LedgerInv'
<1> DEFINE c == [Idle EXCEPT !.phase = "asking", !.hydrates = TRUE, !.todo = kept]
<1>1. /\ InMemory /\ ~up /\ call[p].phase = "idle"
      /\ call' = [call EXCEPT ![p] = c]
      /\ UNCHANGED <<outbox, rotten, holder, answer, acked, kept, up>>
  BY DEF Hydrate
<1>2. Idle \in PublishCalls /\ kept \in Rows
  BY IdleOK DEF CallOK, LedgerInv, FileInv
<1>3. /\ c \in PublishCalls /\ c.phase = "asking" /\ c.hydrates = TRUE
      /\ c.todo = kept
  BY <1>2 DEF PublishCalls, Phases
<1> HIDE DEF c
<1>4. CallOK(c, outbox, kept, up)
  BY <1>1, <1>3 DEF CallOK, Hydrating
<1>5. /\ DOMAIN call' = Publishers /\ call'[p] = c
      /\ \A q \in Publishers \ {p} : call'[q] = call[q]
  BY <1>1 DEF LedgerInv, CallsInv
<1>6. holder # p /\ c.phase \notin Inside
  BY <1>1, <1>3 DEF LedgerInv, CallsInv, Inside
<1>7. QED
  BY <1>1, <1>4, <1>5, <1>6, MoveKeeps

\* A call that changes some of its fields.
LEMMA FieldsOf ==
    ASSUME LedgerInv, NEW p \in Publishers
    PROVE  /\ DOMAIN call = Publishers
           /\ call[p] \in PublishCalls
           /\ CallOK(call[p], outbox, kept, up)
           /\ call[p].phase \in Inside <=> holder = p
BY DEF LedgerInv, CallsInv, CallOK

LEMMA BeginKeeps ==
    ASSUME LedgerConstants, LedgerInv, NEW p \in Publishers, Begin(p)
    PROVE  LedgerInv'
<1> DEFINE o == call[p]
           next == IF o.hydrates THEN "writing" ELSE "reading"
           rows == IF o.hydrates THEN <<>> ELSE outbox
           c == [o EXCEPT !.phase = next, !.work = rows]
<1>1. o.phase = "asking" /\ holder = NoOne /\ holder' = p
      /\ UNCHANGED <<outbox, rotten, answer, acked, kept, up>>
  BY DEF Begin
<1>2. o \in PublishCalls /\ CallOK(o, outbox, kept, up) /\ DOMAIN call = Publishers
  BY FieldsOf
<1>3. call' = [call EXCEPT ![p].phase = next, ![p].work = rows]
  BY DEF Begin
<1> HIDE DEF next, rows
<1>4. /\ DOMAIN call' = Publishers /\ call'[p] = c
      /\ \A q \in Publishers \ {p} : call'[q] = call[q]
  BY <1>2, <1>3
<1> HIDE DEF o
<1>5. next \in {"reading", "writing"} /\ rows \in Rows
  BY DEF next, rows, Rows, LedgerInv, FileInv
<1>6. /\ c \in PublishCalls
      /\ c.phase = next /\ c.work = rows /\ c.todo = o.todo
      /\ c.batch = o.batch /\ c.hydrates = o.hydrates
  BY <1>2, <1>5 DEF PublishCalls, Phases
<1> HIDE DEF c
<1>7. CallOK(c, outbox, kept, up)
  <2>1. CASE o.hydrates
    <3>1. Hydrating(o, kept, up)
      BY <1>2, <2>1 DEF CallOK
    <3>2. c.phase = "writing" /\ c.work = <<>> /\ c.todo = kept
      BY <1>1, <1>6, <2>1, <3>1 DEF next, rows, Hydrating
    <3>3. c.work \o c.todo = kept
      <4>1. kept \in Seq(Events)
        BY DEF LedgerInv, FileInv, Rows
      <4>2. QED
        BY <3>2, <4>1, ConcatEmptySeq
    <3>4. Hydrating(c, kept, up)
      BY <1>1, <3>1, <3>2, <3>3 DEF Hydrating
    <3>5. QED
      BY <1>6, <2>1, <3>4 DEF CallOK
  <2>2. CASE ~o.hydrates
    <3>1. Publishing(o, outbox) /\ up
      BY <1>1, <1>2, <2>2 DEF CallOK
    <3>2. c.phase = "reading" /\ c.work = outbox
      BY <1>6, <2>2 DEF next, rows
    <3>3. Publishing(c, outbox)
      BY <1>1, <1>6, <3>1, <3>2 DEF Publishing
    <3>4. QED
      BY <1>6, <2>2, <3>1, <3>3 DEF CallOK
  <2>3. QED
    BY <2>1, <2>2
<1>8. c.phase \in Inside
  BY <1>5, <1>6 DEF Inside
<1>9. QED
  BY <1>1, <1>4, <1>7, <1>8, MoveKeeps

LEMMA CheckKeeps ==
    ASSUME LedgerConstants, LedgerInv, NEW p \in Publishers, Check(p)
    PROVE  LedgerInv'
<1> DEFINE o == call[p]
           new == Stream!New(o.work, o.todo)
           c == [o EXCEPT !.phase = "writing", !.todo = new]
<1>1. o.phase = "reading" /\ UNCHANGED <<outbox, rotten, acked, kept, up>>
  BY DEF Check
<1>2. /\ o \in PublishCalls /\ CallOK(o, outbox, kept, up)
      /\ DOMAIN call = Publishers /\ holder = p
  BY <1>1, FieldsOf DEF Inside
<1>3. CASE rotten # {} \/ Stream!Contradicts(o.work, o.todo)
  <2>1. PICK how \in {"publication_failure", "duplicate_conflict"} : Ends(p, how)
    BY <1>3 DEF Check
  <2>2. how \in Endings
    BY DEF Endings
  <2>3. QED
    BY <1>1, <2>1, <2>2, EndsKeeps
<1>4. CASE ~(rotten # {} \/ Stream!Contradicts(o.work, o.todo))
  <2>1. call' = [call EXCEPT ![p].phase = "writing", ![p].todo = Stream!New(call[p].work, @)]
        /\ UNCHANGED <<holder, answer>>
    BY <1>4 DEF Check
  <2>2. /\ DOMAIN call' = Publishers /\ call'[p] = c
        /\ \A q \in Publishers \ {p} : call'[q] = call[q]
    BY <1>2, <2>1
  <2>3. ~o.hydrates
    BY <1>1, <1>2 DEF CallOK, Hydrating
  <2>4. Staged(o.batch) /\ o.todo = Stream!New(<<>>, o.batch) /\ o.work = outbox /\ up
    BY <1>1, <1>2, <2>3 DEF CallOK, Publishing
  <2>5. o.batch \in Rows
    BY <2>4, LedgerConstants, ProposalsAreRows DEF Staged
  <2>6. new = Stream!New(outbox, o.batch)
    BY <2>4, <2>5, NewOfNew
  <2>7. ~Stream!Contradicts(outbox, o.batch)
    BY <1>4, <2>4, LedgerConstants, OnceContradicts
  <2>8. new \in Rows
    BY <2>5, <2>6, NewExact DEF Exact
  <2> HIDE DEF o, new
  <2>9. /\ c \in PublishCalls
        /\ c.phase = "writing" /\ c.work = outbox /\ c.todo = new
        /\ c.batch = o.batch /\ c.hydrates = o.hydrates
    BY <1>2, <2>4, <2>8 DEF PublishCalls, Phases
  <2> HIDE DEF c
  <2>10. Publishing(c, outbox)
    BY <2>4, <2>6, <2>7, <2>9 DEF Publishing
  <2>11. CallOK(c, outbox, kept, up)
    BY <2>3, <2>4, <2>9, <2>10 DEF CallOK
  <2>12. c.phase \in Inside
    BY <2>9 DEF Inside
  <2>13. QED
    BY <1>1, <1>2, <2>1, <2>2, <2>11, <2>12, MoveKeeps
<1>5. QED
  BY <1>3, <1>4

LEMMA InsertKeeps ==
    ASSUME LedgerConstants, LedgerInv, NEW p \in Publishers, Insert(p)
    PROVE  LedgerInv'
<1> DEFINE o == call[p]
           row == Head(o.todo)
           c == [o EXCEPT !.work = Append(o.work, row), !.todo = Tail(o.todo)]
<1>1. o.phase = "writing" /\ o.todo # <<>> /\ UNCHANGED <<outbox, rotten, acked, kept, up>>
  BY DEF Insert
<1>2. /\ o \in PublishCalls /\ CallOK(o, outbox, kept, up)
      /\ DOMAIN call = Publishers /\ holder = p
  BY <1>1, FieldsOf DEF Inside
<1>3. CASE Stream!Knows(o.work, row)
  <2>1. Ends(p, "publication_failure") /\ "publication_failure" \in Endings
    BY <1>3 DEF Insert, Endings
  <2>2. QED
    BY <1>1, <2>1, EndsKeeps
<1>4. CASE ~Stream!Knows(o.work, row)
  <2>1. call' = [call EXCEPT ![p].work = Append(@, Head(call[p].todo)),
                             ![p].todo = Tail(@)]
        /\ UNCHANGED <<holder, answer>>
    BY <1>4 DEF Insert
  <2>2. o.work \in Rows /\ o.todo \in Rows
    BY <1>2 DEF PublishCalls
  <2>3. /\ DOMAIN call' = Publishers /\ call'[p] = c
        /\ \A q \in Publishers \ {p} : call'[q] = call[q]
    BY <1>2, <2>1 DEF PublishCalls
  <2>4. /\ Tail(o.todo) \in Rows /\ Append(o.work, row) \in Rows
        /\ Append(o.work, row) \o Tail(o.todo) = o.work \o o.todo
    BY <1>1, <2>2, HeadMoves
  <2> HIDE DEF o, row
  <2>5. /\ c \in PublishCalls
        /\ c.phase = "writing" /\ c.work \o c.todo = o.work \o o.todo
        /\ c.batch = o.batch /\ c.hydrates = o.hydrates
    BY <1>1, <1>2, <2>4 DEF PublishCalls
  <2> HIDE DEF c
  <2>6. CallOK(c, outbox, kept, up)
    BY <1>1, <1>2, <2>5 DEF CallOK, Publishing, Hydrating
  <2>7. c.phase \in Inside
    BY <2>5 DEF Inside
  <2>8. QED
    BY <1>1, <1>2, <2>1, <2>3, <2>6, <2>7, MoveKeeps
<1>5. QED
  BY <1>3, <1>4

\* A call outside a transaction is not disturbed by rows that are added.
LEMMA OthersKeep ==
    ASSUME NEW c, NEW rows, NEW more, NEW list,
           CallOK(c, rows, list, TRUE), c.phase \notin Inside,
           \A b : Holds(rows, b) => Holds(more, b)
    PROVE  CallOK(c, more, list, TRUE)
BY DEF CallOK, Publishing, Hydrating, Inside

LEMMA CommitKeeps ==
    ASSUME LedgerConstants, LedgerInv, NEW p \in Publishers, Commit(p)
    PROVE  LedgerInv'
<1> DEFINE o == call[p]
           c == [o EXCEPT !.phase = "committed"]
<1>1. /\ o.phase = "writing" /\ o.todo = <<>>
      /\ outbox' = o.work
      /\ rotten' = IF o.hydrates THEN {} ELSE rotten
      /\ call' = [call EXCEPT ![p].phase = "committed"]
      /\ holder' = NoOne /\ up' = TRUE
      /\ UNCHANGED <<answer, acked, kept>>
  BY DEF Commit
<1>2. /\ o \in PublishCalls /\ CallOK(o, outbox, kept, up)
      /\ DOMAIN call = Publishers /\ holder = p
  BY <1>1, FieldsOf DEF Inside
<1>3. /\ DOMAIN call' = Publishers /\ call'[p] = c
      /\ \A q \in Publishers \ {p} : call'[q] = call[q]
  BY <1>1, <1>2
<1>4. o.work \o o.todo = o.work
  <2>1. o.work \in Seq(Events)
    BY <1>2 DEF PublishCalls, Rows
  <2>2. QED
    BY <1>1, <2>1, ConcatEmptySeq
<1> HIDE DEF o
<1>5. /\ c \in PublishCalls /\ c.phase = "committed"
      /\ c.batch = o.batch /\ c.hydrates = o.hydrates
  BY <1>2 DEF PublishCalls, Phases
<1> HIDE DEF c
<1>6. /\ holder' \in Publishers \cup {NoOne}
      /\ \A q \in Publishers : call'[q].phase \in Inside <=> holder' = q
  <2>1. \A q \in Publishers : q # NoOne
    BY LedgerConstants DEF LedgerConstants
  <2>2. \A q \in Publishers \ {p} : call[q].phase \notin Inside
    BY <1>2 DEF LedgerInv, CallsInv
  <2>3. QED
    BY <1>1, <1>3, <1>5, <2>1, <2>2 DEF Inside
<1>7. FileInv
  BY DEF LedgerInv
<1>8. CASE o.hydrates
  <2>1. InMemory /\ ~up /\ outbox' = kept
    BY <1>1, <1>2, <1>4, <1>8 DEF CallOK, Hydrating
  <2>2. FileInv'
    <3>1. IsPrefix(kept, kept) /\ kept' = kept /\ acked' = acked
      BY <1>1, <1>7, PrefixSelf DEF FileInv
    <3>2. QED
      BY <1>1, <1>7, <1>8, <2>1, <3>1 DEF FileInv
  <2>3. CallOK(c, outbox', kept', up')
    BY <1>1, <1>5, <1>8, <2>1 DEF CallOK, Hydrating
  <2>4. \A q \in Publishers : q = p
    BY <2>1, LedgerConstants DEF LedgerConstants
  <2>5. QED
    BY <1>1, <1>3, <1>6, <2>2, <2>3, <2>4 DEF LedgerInv, CallsInv
<1>9. CASE ~o.hydrates
  <2>1. /\ Staged(o.batch) /\ ~Stream!Contradicts(outbox, o.batch) /\ up
        /\ outbox' = outbox \o Stream!New(outbox, o.batch)
    BY <1>1, <1>2, <1>4, <1>9 DEF CallOK, Publishing
  <2>2. outbox \in Rows /\ Distinct(outbox) /\ AllValid(outbox)
    BY <1>7 DEF FileInv
  <2>3. /\ outbox' \in Rows /\ Distinct(outbox') /\ AllValid(outbox')
        /\ Holds(outbox', o.batch)
        /\ DOMAIN outbox \subseteq DOMAIN outbox'
        /\ \A b : Holds(outbox, b) => Holds(outbox', b)
        /\ \A s \in Rows : IsPrefix(s, outbox) => IsPrefix(s, outbox')
    BY <2>1, <2>2, LedgerConstants, ExtendKeeps
  <2>4. FileInv'
    <3>1. rotten' = rotten /\ kept' = kept /\ acked' = acked /\ up'
      BY <1>1, <1>9
    <3>2. QED
      BY <1>7, <2>1, <2>3, <3>1 DEF FileInv
  <2>5. CallOK(c, outbox', kept', up')
    BY <1>1, <1>5, <1>9, <2>1, <2>3 DEF CallOK, Publishing
  <2>6. ASSUME NEW q \in Publishers \ {p}
        PROVE  CallOK(call'[q], outbox', kept', up')
    <3>1. CallOK(call[q], outbox, kept, TRUE) /\ call[q].phase \notin Inside
      BY <1>2, <2>1 DEF LedgerInv, CallsInv, FileInv
    <3>2. CallOK(call[q], outbox', kept, TRUE)
      BY <2>3, <3>1, OthersKeep
    <3>3. QED
      BY <1>1, <1>3, <3>2
  <2>7. \A q \in Publishers : CallOK(call'[q], outbox', kept', up')
    BY <1>3, <2>5, <2>6
  <2>8. QED
    BY <1>1, <1>3, <1>6, <2>4, <2>7 DEF LedgerInv, CallsInv
<1>10. QED
  BY <1>8, <1>9

LEMMA ReturnKeeps ==
    ASSUME LedgerConstants, LedgerInv, NEW p \in Publishers, Return(p)
    PROVE  LedgerInv'
<1> DEFINE o == call[p]
<1>1. /\ o.phase = "committed" /\ Ends(p, "committed")
      /\ acked' = IF o.hydrates THEN acked ELSE acked \cup {o.batch}
      /\ UNCHANGED <<outbox, rotten, kept, up>>
  BY DEF Return
<1>2. CallOK(o, outbox, kept, up)
  BY FieldsOf
<1> HIDE DEF o
<1>3. ~o.hydrates => up /\ o.batch \in Proposals /\ Holds(outbox, o.batch)
  BY <1>1, <1>2 DEF CallOK, Publishing, Staged
<1>4. FileInv'
  BY <1>1, <1>3 DEF LedgerInv, FileInv
<1>5. "committed" \in Endings /\ \A q \in Publishers : CallOK(call[q], outbox', kept', up')
  BY <1>1 DEF LedgerInv, CallsInv, Endings
<1>6. CallsInv' /\ answer' \in [Publishers -> Endings]
  BY <1>1, <1>5, LedgerConstants, EndsKeepsCalls DEF LedgerInv
<1>7. QED
  BY <1>4, <1>6 DEF LedgerInv

LEMMA ReadEventsKeeps ==
    ASSUME LedgerInv, NEW p \in Publishers, ReadEvents(p)
    PROVE  LedgerInv'
<1>1. up /\ kept' = outbox /\ UNCHANGED <<outbox, rotten, holder, call, answer, acked, up>>
  BY DEF ReadEvents
<1>2. FileInv'
  <2>1. IsPrefix(outbox, outbox)
    BY PrefixSelf DEF LedgerInv, FileInv
  <2>2. QED
    BY <1>1, <2>1 DEF LedgerInv, FileInv
<1>3. ASSUME NEW q \in Publishers
      PROVE  CallOK(call'[q], outbox', kept', up')
  <2>1. CallOK(call[q], outbox, kept, up)
    BY FieldsOf
  <2>2. CallOK(call[q], outbox, outbox, up)
    BY <1>1, <2>1 DEF CallOK, Hydrating
  <2>3. QED
    BY <1>1, <2>2
<1>4. QED
  BY <1>1, <1>2, <1>3 DEF LedgerInv, CallsInv

LEMMA CrashKeeps ==
    ASSUME LedgerConstants, LedgerInv, NEW p \in Publishers, Crash(p)
    PROVE  LedgerInv'
<1>1. up /\ Ends(p, "unknown") /\ kept' = kept /\ "unknown" \in Endings
  BY DEF Crash, Endings
<1>2. CASE ~InMemory
  <2>1. UNCHANGED <<outbox, rotten, acked, kept, up>>
    BY <1>1, <1>2 DEF Crash
  <2>2. QED
    BY <1>1, <2>1, LedgerConstants, EndsKeeps
<1>3. CASE InMemory
  <2>1. /\ outbox' = <<>> /\ rotten' = {} /\ up' = FALSE
        /\ acked' = {b \in acked : \A i \in DOMAIN b : Stream!Knows(kept, b[i])}
    BY <1>3 DEF Crash
  <2>2. \A q \in Publishers : q = p
    BY <1>3, LedgerConstants DEF LedgerConstants
  <2>3. CallsInv' /\ answer' \in [Publishers -> Endings]
    BY <1>1, <2>2, LedgerConstants, EndsKeepsCalls DEF LedgerInv
  <2>4. /\ kept \in Rows /\ outbox \in Rows /\ Distinct(outbox)
        /\ IsPrefix(kept, outbox) /\ \A b \in acked : Holds(outbox, b)
    BY <1>1 DEF LedgerInv, FileInv
  <2>5. \A i \in DOMAIN kept : i \in DOMAIN outbox /\ kept[i] = outbox[i]
    <3>1. /\ Len(kept) <= Len(outbox) /\ \A i \in 1 .. Len(kept) : kept[i] = outbox[i]
      BY <2>4, PrefixIs
    <3>2. /\ Len(kept) \in Nat /\ Len(outbox) \in Nat
          /\ DOMAIN kept = 1 .. Len(kept) /\ DOMAIN outbox = 1 .. Len(outbox)
      BY <2>4 DEF Rows
    <3>3. QED
      BY <3>1, <3>2
  <2>6. ASSUME NEW b \in acked'
        PROVE  Holds(kept, b)
    <3>1. SUFFICES ASSUME NEW k \in DOMAIN b
                   PROVE  \E i \in DOMAIN kept : kept[i] = b[k]
      BY DEF Holds
    <3>2. PICK i \in DOMAIN kept : kept[i].id = b[k].id
      BY <2>1 DEF Stream!Knows
    <3>3. PICK j \in DOMAIN outbox : outbox[j] = b[k]
      BY <2>1, <2>4 DEF Holds
    <3>4. i = j
      BY <2>4, <2>5, <3>2, <3>3 DEF Distinct
    <3>5. QED
      BY <2>5, <3>3, <3>4
  <2>7. FileInv'
    <3>1. /\ <<>> \in Rows /\ Distinct(<<>>) /\ AllValid(<<>>)
          /\ acked' \subseteq acked
      BY <2>1 DEF Distinct, AllValid, Rows
    <3>2. QED
      BY <1>1, <1>3, <2>1, <2>6, <3>1 DEF LedgerInv, FileInv
  <2>8. QED
    BY <2>3, <2>7 DEF LedgerInv
<1>4. QED
  BY <1>2, <1>3

LEMMA RotKeeps ==
    ASSUME LedgerInv, NEW i \in DOMAIN outbox, Rot(i)
    PROVE  LedgerInv'
BY DEF Rot, LedgerInv, FileInv, CallsInv

LEMMA LedgerStep ==
    ASSUME LedgerConstants
    PROVE  LedgerInv /\ [LedgerNext]_ledgerVars => LedgerInv'
<1> SUFFICES ASSUME LedgerInv, [LedgerNext]_ledgerVars
             PROVE  LedgerInv'
  OBVIOUS
<1>1. ASSUME NEW p \in Publishers, NEW batch \in Proposals, Publish(p, batch)
      PROVE  LedgerInv'
  BY <1>1, LedgerConstants, PublishKeeps
<1>2. ASSUME NEW p \in Publishers, Busy(p) \/ Fail(p)
      PROVE  LedgerInv'
  <2>1. /\ Ends(p, "publication_failure") /\ "publication_failure" \in Endings
        /\ UNCHANGED <<outbox, rotten, acked, kept, up>>
    BY <1>2 DEF Busy, Fail, Endings
  <2>2. QED
    BY <2>1, LedgerConstants, EndsKeeps
<1>3. ASSUME NEW p \in Publishers,
             Hydrate(p) \/ Begin(p) \/ Check(p) \/ Insert(p) \/ Commit(p)
      PROVE  LedgerInv'
  BY <1>3, LedgerConstants, HydrateKeeps, BeginKeeps, CheckKeeps, InsertKeeps, CommitKeeps
<1>4. ASSUME NEW p \in Publishers, Return(p) \/ ReadEvents(p) \/ Crash(p)
      PROVE  LedgerInv'
  BY <1>4, LedgerConstants, ReturnKeeps, ReadEventsKeeps, CrashKeeps
<1>5. ASSUME NEW i \in DOMAIN outbox, Rot(i)
      PROVE  LedgerInv'
  BY <1>5, RotKeeps
<1>6. CASE UNCHANGED ledgerVars
  BY <1>6 DEF ledgerVars, LedgerInv, FileInv, CallsInv
<1>7. QED
  BY <1>1, <1>2, <1>3, <1>4, <1>5, <1>6 DEF LedgerNext

LEMMA LedgerInvariance == ASSUME LedgerConstants PROVE LedgerSpec => []LedgerInv
<1>1. LedgerInit => LedgerInv
  BY LedgerConstants, LedgerStarts
<1>2. LedgerInv /\ [LedgerNext]_ledgerVars => LedgerInv'
  BY LedgerConstants, LedgerStep
<1>3. QED
  BY <1>1, <1>2, PTL DEF LedgerSpec

-----------------------------------------------------------------------------
\* A batch whose publish returned a count is there as a whole, what a reader has
\* read stays, every row is valid and one call at a time is inside a transaction
\* (OutboxWhole; Ledger.publish, Ledger.events).
THEOREM OutboxStaysWhole == ASSUME LedgerConstants PROVE LedgerSpec => []OutboxWhole
<1>1. LedgerInv => OutboxWhole
  <2> SUFFICES ASSUME LedgerInv
               PROVE  OutboxWhole
    OBVIOUS
  <2>1. LedgerTypeOK
    <3>1. {p \in Publishers : call[p].phase \in {"reading", "writing"}} =
             (IF holder = NoOne THEN {} ELSE {holder})
      <4>1. \A p \in Publishers : call[p].phase \in {"reading", "writing"} <=> holder = p
        BY DEF LedgerInv, CallsInv, Inside
      <4>2. holder \in Publishers \cup {NoOne} /\ \A p \in Publishers : p # NoOne
        BY LedgerConstants DEF LedgerInv, CallsInv, LedgerConstants
      <4>3. QED
        BY <4>1, <4>2
    <3>2. QED
      BY <3>1 DEF LedgerInv, FileInv, AllValid, Endings, LedgerTypeOK
  <2>2. AckedWhole
    BY DEF LedgerInv, FileInv, Holds, AckedWhole
  <2>3. ReadStays
    BY DEF LedgerInv, FileInv, ReadStays
  <2>4. QED
    BY <2>1, <2>2, <2>3 DEF OutboxWhole
<1>2. QED
  BY <1>1, LedgerConstants, LedgerInvariance, PTL

\* On disk the outbox is the promised stream: it is empty at first, a COMMIT of
\* publish appends one staged batch and nothing else changes it, neither a crash
\* nor a rollback nor another publisher (StreamPromise; Ledger.publish).
THEOREM ImplementsStream ==
    ASSUME LedgerConstants, InMemory = FALSE
    PROVE  LedgerSpec => StreamPromise
<1>1. LedgerInit => Stream!StreamInit
  BY DEF LedgerInit, Stream!StreamInit
<1>2. LedgerInv /\ [LedgerNext]_ledgerVars => [Stream!StreamNext]_outbox
  <2> SUFFICES ASSUME LedgerInv, [LedgerNext]_ledgerVars
               PROVE  [Stream!StreamNext]_outbox
    OBVIOUS
  <2>1. ASSUME NEW p \in Publishers, Commit(p)
        PROVE  Stream!StreamNext
    <3> DEFINE o == call[p]
    <3>1. o.phase = "writing" /\ o.todo = <<>> /\ outbox' = o.work
      BY <2>1 DEF Commit
    <3>2. o \in PublishCalls /\ CallOK(o, outbox, kept, up)
      BY FieldsOf
    <3> HIDE DEF o
    <3>3. /\ Staged(o.batch) /\ ~Stream!Contradicts(outbox, o.batch)
          /\ o.work \o o.todo = outbox \o Stream!New(outbox, o.batch)
      BY <3>1, <3>2 DEF CallOK, Hydrating, Publishing
    <3>4. o.work \o o.todo = o.work
      <4>1. o.work \in Seq(Events)
        BY <3>2 DEF PublishCalls, Rows
      <4>2. QED
        BY <3>1, <4>1, ConcatEmptySeq
    <3>5. Stream!Extend(o.batch) /\ o.batch \in Proposals
      BY <3>1, <3>3, <3>4 DEF Staged, Stream!Extend
    <3>6. QED
      BY <3>5 DEF Stream!StreamNext
  <2>2. ASSUME NEW p \in Publishers, Crash(p)
        PROVE  UNCHANGED outbox
    BY <2>2 DEF Crash
  <2>3. ASSUME NEW p \in Publishers, NEW batch \in Proposals, Publish(p, batch)
        PROVE  UNCHANGED outbox
    BY <2>3 DEF Publish
  <2>4. ASSUME NEW p \in Publishers,
               \/ Hydrate(p) \/ Begin(p) \/ Busy(p) \/ Check(p) \/ Insert(p)
               \/ Fail(p) \/ Return(p) \/ ReadEvents(p)
        PROVE  UNCHANGED outbox
    BY <2>4 DEF Hydrate, Begin, Busy, Check, Insert, Fail, Return, ReadEvents
  <2>5. ASSUME NEW i \in DOMAIN outbox, Rot(i)
        PROVE  UNCHANGED outbox
    BY <2>5 DEF Rot
  <2>6. CASE UNCHANGED ledgerVars
    BY <2>6 DEF ledgerVars
  <2>7. QED
    BY <2>1, <2>2, <2>3, <2>4, <2>5, <2>6 DEF LedgerNext
<1>3. QED
  BY <1>1, <1>2, LedgerConstants, LedgerInvariance, PTL
     DEF LedgerSpec, StreamPromise, Stream!StreamSpec

-----------------------------------------------------------------------------
(***************************************************************************)
(* The admission.                                                          *)
(***************************************************************************)


Effects == [attempt : Attempts, at : Nat]
Buckets == {Bucket(a, scope) : a \in Attempts, scope \in Scopes}

\* The effects among H that fall into a bucket and a window.
Within(H, b, scope, slot) ==
    {e \in H : Bucket(e.attempt, scope) = b /\ Slot(e.at, scope) = slot}

\* The counter counts the effects in its window, no effect is in a later one, and
\* no window holds too many.
Tallied(S, H, b, scope) ==
    /\ b \notin DOMAIN S => \A n \in Int : Within(H, b, scope, n) = {}
    /\ b \in DOMAIN S =>
         /\ S[b].slot \in Int
         /\ S[b].count = Cardinality(Within(H, b, scope, S[b].slot))
         /\ \A n \in Int : n > S[b].slot => Within(H, b, scope, n) = {}
    /\ \A n \in Int : Cardinality(Within(H, b, scope, n)) <= Capacity[scope]

Ledger(S, H) ==
    /\ DOMAIN S \subseteq Buckets
    /\ \A a \in Attempts, scope \in Scopes : Tallied(S, H, Bucket(a, scope), scope)

TxShape ==
    /\ tx = [c \in Callers |-> tx[c]]
    /\ \A c \in Callers :
          tx[c] = [attempt |-> tx[c].attempt, state |-> tx[c].state,
                   at |-> tx[c].at, answer |-> tx[c].answer]

AdmissionShape ==
    /\ now \in Nat
    /\ history \in SUBSET Effects /\ IsFiniteSet(history)
    /\ done = {e.attempt : e \in history}
    /\ TxShape
    /\ \A c \in Callers : Open(c) => tx[c].attempt \in Attempts /\ tx[c].at \in Nat

OneOpen == \A c, d \in Callers : Open(c) /\ Open(d) => c = d

OpenCounted ==
    \A c \in Callers : Open(c) =>
        /\ tx[c].answer = "none" => tx[c].state = store
        /\ tx[c].answer = "admit" =>
             /\ tx[c].state = Counted(store, tx[c].attempt, tx[c].at)
             /\ Decide(store, tx[c].attempt, tx[c].at) = "admit"
             /\ \A d \in done : d.key # tx[c].attempt.key

AdmissionInv ==
    /\ AdmissionShape
    /\ OneOpen
    /\ OpenCounted
    /\ Ledger(store, history)
    /\ EffectOnce

-----------------------------------------------------------------------------
LEMMA BucketScope ==
    ASSUME NEW a, NEW b, NEW s \in Scopes, NEW r \in Scopes, Bucket(a, s) = Bucket(b, r)
    PROVE  s = r
BY DEF Bucket

LEMMA SlotType ==
    ASSUME AdmissionConstants, NEW t \in Nat, NEW scope \in Scopes
    PROVE  Slot(t, scope) \in Int
<1> DEFINE w == Window[scope]
<1>1. w \in Nat \ {0}
  BY DEF AdmissionConstants
<1> HIDE DEF w
<1>2. t \div w \in Int
  BY <1>1
<1>3. QED
  BY <1>2 DEF Slot, w

\* What deciding for a bucket tells about it: its counter is of this window or an
\* earlier one, and there is room.
LEMMA RoomLeft ==
    ASSUME AdmissionConstants,
           NEW S, NEW H \in SUBSET Effects, IsFiniteSet(H), Ledger(S, H),
           NEW a \in Attempts, NEW t \in Nat, Decide(S, a, t) = "admit",
           NEW scope \in Scopes
    PROVE  LET b == Bucket(a, scope)
           IN /\ Count(S, a, scope, t) = Cardinality(Within(H, b, scope, Slot(t, scope)))
              /\ Count(S, a, scope, t) < Capacity[scope]
              /\ \A n \in Int : n > Slot(t, scope) => Within(H, b, scope, n) = {}
<1> DEFINE b == Bucket(a, scope)
           n == Slot(t, scope)
           held == Held(S, a, scope, t)
<1>1. n \in Int
  BY SlotType
<1>2. ~ Ahead(S, a, scope, t) /\ ~ (Count(S, a, scope, t) >= Capacity[scope])
  BY DEF Decide, Scopes
<1>3. Tallied(S, H, b, scope)
  BY DEF Ledger
<1>4. ~ (held.slot > n)
  BY <1>2 DEF Ahead
<1>5. Capacity[scope] \in Nat
  BY DEF AdmissionConstants
<1>6. Count(S, a, scope, t) = IF held.slot = n THEN held.count ELSE 0
  BY DEF Count
<1>7. Cardinality({}) = 0
  BY FS_EmptySet
<1>8. \A m : IsFiniteSet(Within(H, b, scope, m)) /\ Cardinality(Within(H, b, scope, m)) \in Nat
  <2>1. \A m : Within(H, b, scope, m) \subseteq H
    BY DEF Within
  <2>2. QED
    BY <2>1, FS_Subset, FS_CardinalityType
<1>9. CASE b \notin DOMAIN S
  <2>1. held = [slot |-> n, count |-> 0]
    BY <1>9 DEF Held
  <2>2. \A m \in Int : Within(H, b, scope, m) = {}
    BY <1>3, <1>9 DEF Tallied
  <2>3. Count(S, a, scope, t) = 0
    BY <1>6, <2>1
  <2> HIDE DEF n, b, held
  <2>4. QED
    BY <1>1, <1>2, <1>5, <1>7, <2>2, <2>3 DEF n, b
<1>10. CASE b \in DOMAIN S
  <2>1. held = S[b]
    BY <1>10 DEF Held
  <2>2. /\ held.slot \in Int
        /\ held.count = Cardinality(Within(H, b, scope, held.slot))
        /\ \A m \in Int : m > held.slot => Within(H, b, scope, m) = {}
    BY <1>3, <1>10, <2>1 DEF Tallied
  <2> HIDE DEF n, b, held
  <2>3. Count(S, a, scope, t) = Cardinality(Within(H, b, scope, n))
    <3>1. CASE held.slot = n
      BY <1>6, <2>2, <3>1
    <3>2. CASE held.slot # n
      <4>1. n > held.slot
        BY <1>1, <1>4, <2>2, <3>2
      <4>2. QED
        BY <1>1, <1>6, <1>7, <2>2, <3>2, <4>1
    <3>3. QED
      BY <3>1, <3>2
  <2>4. Count(S, a, scope, t) < Capacity[scope]
    BY <1>2, <1>5, <1>8, <2>3
  <2>5. \A m \in Int : m > n => Within(H, b, scope, m) = {}
    BY <1>1, <1>4, <2>2
  <2>6. QED
    BY <2>3, <2>4, <2>5 DEF b, n
<1>11. QED
  BY <1>9, <1>10

\* One more effect, counted in its own two buckets, keeps every tally.
LEMMA OneMoreEffect ==
    ASSUME AdmissionConstants,
           NEW S, NEW H \in SUBSET Effects, IsFiniteSet(H), Ledger(S, H),
           NEW a \in Attempts, NEW t \in Nat, Decide(S, a, t) = "admit",
           NEW e, e = [attempt |-> a, at |-> t], e \notin H
    PROVE  Ledger(Counted(S, a, t), H \cup {e})
<1> DEFINE C == Counted(S, a, t)
           G == H \cup {e}
           Own == {Bucket(a, scope) : scope \in Scopes}
<1>1. DOMAIN C = DOMAIN S \cup Own
  BY DEF Counted
<1>2. ASSUME NEW b \in DOMAIN S \cup Own, b \notin Own
      PROVE  C[b] = S[b]
  BY <1>2 DEF Counted
<1>3. ASSUME NEW scope \in Scopes
      PROVE  C[Bucket(a, scope)] =
               [slot |-> Slot(t, scope), count |-> Count(S, a, scope, t) + 1]
  <2> DEFINE b == Bucket(a, scope)
  <2>1. b \in DOMAIN S \cup Own /\ \E s \in Scopes : b = Bucket(a, s)
    OBVIOUS
  <2>2. (CHOOSE s \in Scopes : b = Bucket(a, s)) = scope
    BY <2>1, BucketScope
  <2> HIDE DEF b
  <2>3. QED
    BY <2>1, <2>2 DEF Counted, b
<1>4. DOMAIN C \subseteq Buckets
  BY <1>1 DEF Ledger, Buckets
<1> HIDE DEF C
<1>5. \A s \in Scopes : Capacity[s] \in Nat
  BY DEF AdmissionConstants
<1>6. \A b, scope, m : /\ IsFiniteSet(Within(H, b, scope, m))
                       /\ Cardinality(Within(H, b, scope, m)) \in Nat
  <2>1. \A b, scope, m : Within(H, b, scope, m) \subseteq H
    BY DEF Within
  <2>2. QED
    BY <2>1, FS_Subset, FS_CardinalityType
<1>7. \A b, scope, m : Within(G, b, scope, m) =
         IF Bucket(a, scope) = b /\ Slot(t, scope) = m
         THEN Within(H, b, scope, m) \cup {e} ELSE Within(H, b, scope, m)
  BY DEF Within
<1>8. ASSUME NEW scope \in Scopes
      PROVE  Tallied(C, G, Bucket(a, scope), scope)
  <2> DEFINE b == Bucket(a, scope)
             n == Slot(t, scope)
             W == Within(H, b, scope, n)
  <2>1. n \in Int
    BY SlotType
  <2>2. /\ Count(S, a, scope, t) = Cardinality(W)
        /\ Count(S, a, scope, t) < Capacity[scope]
        /\ \A m \in Int : m > n => Within(H, b, scope, m) = {}
    BY RoomLeft
  <2>3. Within(G, b, scope, n) = W \cup {e}
        /\ \A m : m # n => Within(G, b, scope, m) = Within(H, b, scope, m)
    BY <1>7
  <2>4. Cardinality(W \cup {e}) = Cardinality(W) + 1
    <3>1. IsFiniteSet(W)
      BY <1>6
    <3>2. e \notin W
      BY DEF Within
    <3> HIDE DEF W
    <3>3. QED
      BY <3>1, <3>2, FS_AddElement
  <2>5. Cardinality(W) \in Nat
    BY <1>6
  <2>6. Tallied(S, H, b, scope)
    BY DEF Ledger
  <2>7. b \in DOMAIN C /\ C[b] = [slot |-> n, count |-> Cardinality(W) + 1]
    BY <1>1, <1>3, <2>2
  <2> HIDE DEF b, n, W
  <2>8. \A m \in Int : Cardinality(Within(G, b, scope, m)) <= Capacity[scope]
    <3>1. ASSUME NEW m \in Int
          PROVE  Cardinality(Within(G, b, scope, m)) <= Capacity[scope]
      <4>1. CASE m = n
        <5>1. Cardinality(W) + 1 <= Capacity[scope]
          BY <1>5, <2>2, <2>5
        <5>2. QED
          BY <2>3, <2>4, <4>1, <5>1
      <4>2. CASE m # n
        BY <2>3, <2>6, <4>2 DEF Tallied
      <4>3. QED
        BY <4>1, <4>2
    <3>2. QED
      BY <3>1
  <2>9. \A m \in Int : m > n => Within(G, b, scope, m) = {}
    <3>1. \A m \in Int : m > n => m # n
      BY <2>1
    <3>2. QED
      BY <2>2, <2>3, <3>1
  <2>10. C[b].slot = n /\ C[b].count = Cardinality(Within(G, b, scope, n))
    BY <2>3, <2>4, <2>7, SMTT(60)
  <2> HIDE DEF G
  <2>11. Tallied(C, G, b, scope)
    BY <2>1, <2>7, <2>8, <2>9, <2>10 DEF Tallied
  <2>12. QED
    BY <2>11 DEF b
<1>9. ASSUME NEW x \in Attempts, NEW scope \in Scopes
      PROVE  Tallied(C, G, Bucket(x, scope), scope)
  <2> DEFINE b == Bucket(x, scope)
  <2>1. CASE b = Bucket(a, scope)
    BY <1>8, <2>1
  <2>2. CASE b # Bucket(a, scope)
    <3>1. b \notin Own
      BY <2>2, BucketScope
    <3>2. Tallied(S, H, b, scope)
      BY DEF Ledger
    <3>3. \A m : Within(G, b, scope, m) = Within(H, b, scope, m)
      BY <1>7, <2>2, ZenonT(60)
    <3> HIDE DEF b, Own
    <3>4. b \in DOMAIN C <=> b \in DOMAIN S
      BY <1>1, <3>1
    <3>5. b \in DOMAIN S => C[b] = S[b]
      BY <1>2, <3>1
    <3>6. Tallied(C, G, b, scope)
      BY <3>2, <3>3, <3>4, <3>5 DEF Tallied
    <3>7. QED
      BY <3>6 DEF b
  <2>3. QED
    BY <2>1, <2>2
<1>10. QED
  BY <1>4, <1>9 DEF Ledger, C

-----------------------------------------------------------------------------
\* A step that writes one transaction.
Written(c, r) == /\ tx'[c] = r
                 /\ \A d \in Callers : d # c => tx'[d] = tx[d]

LEMMA OneTransaction ==
    ASSUME TxShape, NEW c \in Callers, NEW A, NEW S, NEW T, NEW R,
           tx' = [tx EXCEPT ![c] = [attempt |-> A, state |-> S, at |-> T, answer |-> R]]
    PROVE  /\ TxShape'
           /\ Written(c, [attempt |-> A, state |-> S, at |-> T, answer |-> R])
<1> DEFINE r == [attempt |-> A, state |-> S, at |-> T, answer |-> R]
<1>1. r = [attempt |-> r.attempt, state |-> r.state, at |-> r.at, answer |-> r.answer]
  OBVIOUS
<1>2. tx' = [tx EXCEPT ![c] = r]
  OBVIOUS
<1> HIDE DEF r
<1>3. tx' = [d \in Callers |-> IF d = c THEN r ELSE tx[d]]
  BY <1>2 DEF TxShape
<1>4. \A d \in Callers : tx'[d] = IF d = c THEN r ELSE tx[d]
  BY <1>3
<1>5. tx' = [d \in Callers |-> tx'[d]]
  BY <1>3
<1>6. TxShape'
  BY <1>1, <1>4, <1>5 DEF TxShape
<1>7. QED
  BY <1>4, <1>6 DEF Written, r

LEMMA BeginStep ==
    ASSUME AdmissionConstants, AdmissionInv,
           NEW c \in Callers, NEW a \in Attempts, BeginAttempt(c, a)
    PROVE  AdmissionInv'
<1> USE DEF AdmissionInv, AdmissionShape
<1>1. /\ TxShape'
      /\ Written(c, [attempt |-> a, state |-> store, at |-> now, answer |-> "none"])
      /\ UNCHANGED <<store, done, now, history>>
      /\ \A d \in Callers : ~ Open(d)
  BY OneTransaction DEF BeginAttempt
<1>2. \A d \in Callers : Open(d)' => d = c
  BY <1>1 DEF Open, Written
<1>3. /\ tx'[c].attempt = a /\ tx'[c].state = store
      /\ tx'[c].at = now /\ tx'[c].answer = "none"
  BY <1>1 DEF Written
<1>4. AdmissionShape'
  BY <1>1, <1>2, <1>3
<1>5. OneOpen'
  BY <1>2 DEF OneOpen
<1>6. OpenCounted'
  BY <1>1, <1>2, <1>3 DEF OpenCounted
<1>7. Ledger(store, history)' /\ EffectOnce'
  BY <1>1 DEF EffectOnce
<1>8. QED
  BY <1>4, <1>5, <1>6, <1>7

LEMMA DecidedStep ==
    ASSUME AdmissionConstants, AdmissionInv, NEW c \in Callers, Decided(c)
    PROVE  AdmissionInv'
<1> USE DEF AdmissionInv, AdmissionShape
<1> DEFINE a == tx[c].attempt
           t == tx[c].at
           verdict == Decide(store, a, t)
<1>1. /\ Open(c) /\ tx[c].answer = "none" /\ tx[c].state = store
      /\ UNCHANGED <<store, done, now, history>>
  BY DEF Decided, OpenCounted
<1>2. PICK S, R :
        /\ tx' = [tx EXCEPT ![c] = [attempt |-> a, state |-> S, at |-> t, answer |-> R]]
        /\ R # "none"
        /\ R = "admit" => /\ S = Counted(store, a, t)
                          /\ verdict = "admit"
                          /\ \A d \in done : d.key # a.key
  <2>1. tx[c] = [attempt |-> a, state |-> store, at |-> t, answer |-> "none"]
    BY <1>1 DEF TxShape
  <2>2. CASE Prior(c) # {}
    <3> DEFINE R == IF \E d \in Prior(c) : d.body = tx[c].attempt.body
                    THEN "replay" ELSE "idempotency_conflict"
    <3>1. tx' = [tx EXCEPT ![c].answer = R]
      BY <2>2 DEF Decided
    <3>2. R # "none" /\ R # "admit"
      OBVIOUS
    <3> HIDE DEF R
    <3>3. [tx[c] EXCEPT !.answer = R] =
            [attempt |-> a, state |-> store, at |-> t, answer |-> R]
      BY <2>1
    <3>4. tx' = [tx EXCEPT ![c] = [attempt |-> a, state |-> store, at |-> t, answer |-> R]]
      BY <3>1, <3>3
    <3>5. QED
      BY <3>2, <3>4
  <2>3. CASE Prior(c) = {}
    <3> DEFINE S == IF verdict = "admit" THEN Counted(store, a, t) ELSE store
               r == [tx[c] EXCEPT !.answer = verdict]
    <3>1. tx' = [tx EXCEPT ![c] = [r EXCEPT !.state = S]]
      BY <1>1, <2>3 DEF Decided
    <3>2. \A d \in done : d.key # a.key
      BY <2>3 DEF Prior
    <3>3. verdict # "none"
      BY DEF Decide
    <3>4. verdict = "admit" => S = Counted(store, a, t)
      OBVIOUS
    <3> HIDE DEF S, verdict, a, t
    <3>5. r = [attempt |-> a, state |-> store, at |-> t, answer |-> verdict]
      BY <2>1
    <3> HIDE DEF r
    <3>6. [r EXCEPT !.state = S] =
            [attempt |-> a, state |-> S, at |-> t, answer |-> verdict]
      BY <3>5
    <3>7. tx' = [tx EXCEPT ![c] =
                   [attempt |-> a, state |-> S, at |-> t, answer |-> verdict]]
      BY <3>1, <3>6
    <3>8. QED
      BY <3>2, <3>3, <3>4, <3>7 DEF a, t, verdict
  <2>4. QED
    BY <2>2, <2>3
<1>3. /\ TxShape'
      /\ Written(c, [attempt |-> a, state |-> S, at |-> t, answer |-> R])
  BY <1>2, OneTransaction
<1>4. /\ tx'[c].attempt = a /\ tx'[c].state = S
      /\ tx'[c].at = t /\ tx'[c].answer = R
  BY <1>3 DEF Written
<1>5. \A d \in Callers : d # c => tx'[d] = tx[d]
  BY <1>3 DEF Written
<1>6. \A d \in Callers : Open(d)' <=> Open(d)
  BY <1>4, <1>5 DEF Open
<1>7. AdmissionShape'
  BY <1>1, <1>3, <1>4, <1>5, <1>6
<1>8. OneOpen'
  BY <1>6 DEF OneOpen
<1>9. OpenCounted'
  <2>1. \A d \in Callers : Open(d)' => d = c
    BY <1>1, <1>6 DEF OneOpen
  <2>2. QED
    BY <1>1, <1>2, <1>4, <2>1 DEF OpenCounted
<1>10. Ledger(store, history)' /\ EffectOnce'
  BY <1>1 DEF EffectOnce
<1>11. QED
  BY <1>7, <1>8, <1>9, <1>10

LEMMA RefusedStep ==
    ASSUME AdmissionConstants, AdmissionInv, NEW c \in Callers, Refused(c)
    PROVE  AdmissionInv'
<1> USE DEF AdmissionInv, AdmissionShape
<1>1. /\ TxShape'
      /\ Written(c, NoTx)
      /\ UNCHANGED <<store, done, now, history>>
  BY OneTransaction DEF Refused, NoTx
<1>2. \A d \in Callers : Open(d)' => d # c /\ Open(d) /\ tx'[d] = tx[d]
  BY <1>1 DEF Open, Written, NoTx
<1>3. AdmissionShape'
  BY <1>1, <1>2
<1>4. OneOpen'
  BY <1>2 DEF OneOpen
<1>5. OpenCounted'
  BY <1>1, <1>2 DEF OpenCounted
<1>6. Ledger(store, history)' /\ EffectOnce'
  BY <1>1 DEF EffectOnce
<1>7. QED
  BY <1>3, <1>4, <1>5, <1>6

LEMMA CommitStep ==
    ASSUME AdmissionConstants, AdmissionInv, NEW c \in Callers, CommitAttempt(c)
    PROVE  AdmissionInv'
<1> USE DEF AdmissionInv, AdmissionShape
<1> DEFINE a == tx[c].attempt
           t == tx[c].at
           e == [attempt |-> a, at |-> t]
<1>1. /\ Open(c) /\ a \in Attempts /\ t \in Nat
      /\ store' = Counted(store, a, t) /\ Decide(store, a, t) = "admit"
      /\ \A d \in done : d.key # a.key
      /\ done' = done \cup {a} /\ history' = history \cup {e} /\ now' = now
  BY DEF CommitAttempt, OpenCounted
<1>2. TxShape' /\ Written(c, NoTx)
  BY OneTransaction DEF CommitAttempt, NoTx
<1>3. \A d \in Callers : ~ Open(d)'
  <2>1. \A d \in Callers : d # c => ~ Open(d)
    BY <1>1 DEF OneOpen
  <2>2. QED
    BY <1>2, <2>1 DEF Open, Written, NoTx
<1>4. e \in Effects /\ e.attempt = a /\ e.at = t
  BY <1>1 DEF Effects
<1>5. \A x \in history : x.attempt \in done
  OBVIOUS
<1> HIDE DEF e
<1>6. \A x \in history : x.attempt.key # a.key
  BY <1>1, <1>5
<1>7. e \notin history
  BY <1>4, <1>6
<1>8. AdmissionShape'
  <2>1. IsFiniteSet(history')
    BY <1>1, FS_AddElement
  <2>2. done' = {x.attempt : x \in history'}
    BY <1>1, <1>4
  <2>3. QED
    BY <1>1, <1>2, <1>3, <1>4, <2>1, <2>2
<1>9. OneOpen' /\ OpenCounted'
  BY <1>3 DEF OneOpen, OpenCounted
<1>10. Ledger(store, history)'
  <2>1. Ledger(Counted(store, a, t), history \cup {e})
    BY <1>1, <1>7, OneMoreEffect DEF e
  <2>2. QED
    BY <1>1, <2>1
<1>11. EffectOnce'
  BY <1>1, <1>4, <1>6 DEF EffectOnce
<1>12. QED
  BY <1>8, <1>9, <1>10, <1>11

LEMMA AdmissionInvariance ==
    ASSUME AdmissionConstants PROVE AdmissionSpec => []AdmissionInv
<1>1. ASSUME AdmissionInit
      PROVE  AdmissionInv
  <2>1. /\ store = [b \in {} |-> 0] /\ done = {} /\ now = 0 /\ history = {}
        /\ tx = [c \in Callers |-> NoTx]
    BY <1>1 DEF AdmissionInit
  <2>2. \A c \in Callers : tx[c] = NoTx /\ ~ Open(c)
    BY <2>1 DEF Open, NoTx
  <2>3. TxShape
    <3>1. tx = [c \in Callers |-> tx[c]]
      BY <2>1
    <3>2. \A c \in Callers : tx[c] = [attempt |-> tx[c].attempt, state |-> tx[c].state,
                                      at |-> tx[c].at, answer |-> tx[c].answer]
      BY <2>2 DEF NoTx
    <3>3. QED
      BY <3>1, <3>2 DEF TxShape
  <2>4. AdmissionShape
    BY <2>1, <2>2, <2>3, FS_EmptySet DEF AdmissionShape
  <2>5. OneOpen /\ OpenCounted /\ EffectOnce
    BY <2>1, <2>2 DEF OneOpen, OpenCounted, EffectOnce
  <2>6. Ledger(store, history)
    <3>1. DOMAIN store = {}
      BY <2>1
    <3>2. \A b, scope, n : Within(history, b, scope, n) = {}
      BY <2>1 DEF Within
    <3>3. \A scope \in Scopes : 0 <= Capacity[scope]
      BY DEF AdmissionConstants
    <3>4. Cardinality({}) = 0
      BY FS_EmptySet
    <3>5. \A b, scope : scope \in Scopes => Tallied(store, history, b, scope)
      BY <3>1, <3>2, <3>3, <3>4 DEF Tallied
    <3>6. QED
      BY <3>1, <3>5 DEF Ledger
  <2>7. QED
    BY <2>4, <2>5, <2>6 DEF AdmissionInv
<1>2. ASSUME AdmissionInv, [AdmissionNext]_admissionVars
      PROVE  AdmissionInv'
  <2>1. ASSUME NEW t \in 0 .. MaxTime, SetClock(t)
        PROVE  AdmissionInv'
    <3>1. t \in Nat /\ now' = t /\ UNCHANGED <<store, done, tx, history>>
      BY <2>1 DEF SetClock
    <3>2. AdmissionShape'
      BY <1>2, <3>1 DEF AdmissionInv, AdmissionShape, TxShape, Open
    <3>3. OneOpen' /\ OpenCounted' /\ Ledger(store, history)' /\ EffectOnce'
      BY <1>2, <3>1 DEF AdmissionInv, OneOpen, OpenCounted, EffectOnce, Open
    <3>4. QED
      BY <3>2, <3>3 DEF AdmissionInv
  <2>2. CASE UNCHANGED admissionVars
    <3>1. UNCHANGED <<store, done, now, tx, history>>
      BY <2>2 DEF admissionVars
    <3>2. AdmissionShape'
      BY <1>2, <3>1 DEF AdmissionInv, AdmissionShape, TxShape, Open
    <3>3. OneOpen' /\ OpenCounted' /\ Ledger(store, history)' /\ EffectOnce'
      BY <1>2, <3>1 DEF AdmissionInv, OneOpen, OpenCounted, EffectOnce, Open
    <3>4. QED
      BY <3>2, <3>3 DEF AdmissionInv
  <2>3. QED
    BY <1>2, <2>1, <2>2, AdmissionConstants, BeginStep, DecidedStep, CommitStep,
       RefusedStep DEF AdmissionNext
<1>3. QED
  BY <1>1, <1>2, PTL DEF AdmissionSpec

\* For any capacities, windows and clocks, however callers race, fail and retry:
\* no window sees more effects than its capacity, every counter is the number of
\* effects in its window, and an attempt takes effect once (decide, in the
\* transaction its contract asks for).
THEOREM AdmissionIsExact ==
    ASSUME AdmissionConstants PROVE AdmissionSpec => []AdmissionExact
<1>1. ASSUME AdmissionInv
      PROVE  AdmissionExact
  <2>1. history \in SUBSET Effects /\ Ledger(store, history) /\ EffectOnce
    BY <1>1 DEF AdmissionInv, AdmissionShape
  <2>2. ASSUME NEW a \in Attempts, NEW scope \in Scopes, NEW n
        PROVE  InBucket(Bucket(a, scope), n) =
                 Within(history, Bucket(a, scope), scope, n)
    <3>1. \A x : \A s \in Scopes : Bucket(a, scope) = Bucket(x, s) => s = scope
      BY BucketScope
    <3>2. QED
      BY <3>1 DEF InBucket, Within
  <2>3. LimitHeld
    <3>1. ASSUME NEW e \in history, NEW scope \in Scopes
          PROVE  Cardinality(InBucket(Bucket(e.attempt, scope), Slot(e.at, scope)))
                   <= Capacity[scope]
      <4>1. e.attempt \in Attempts /\ e.at \in Nat
        BY <2>1 DEF Effects
      <4>2. Slot(e.at, scope) \in Int
        BY <4>1, AdmissionConstants, SlotType
      <4>3. QED
        BY <2>1, <2>2, <4>1, <4>2 DEF Ledger, Tallied
    <3>2. QED
      BY <3>1 DEF LimitHeld
  <2>4. CountsExact
    <3>1. ASSUME NEW b \in DOMAIN store
          PROVE  store[b].count = Cardinality(InBucket(b, store[b].slot))
      <4>1. PICK a \in Attempts, scope \in Scopes : b = Bucket(a, scope)
        BY <2>1 DEF Ledger, Buckets
      <4>2. Tallied(store, history, b, scope)
        BY <2>1, <4>1 DEF Ledger
      <4>3. QED
        BY <2>2, <4>1, <4>2 DEF Tallied
    <3>2. QED
      BY <3>1 DEF CountsExact
  <2>5. QED
    BY <2>1, <2>3, <2>4 DEF AdmissionExact
<1>2. QED
  BY <1>1, AdmissionInvariance, PTL

-----------------------------------------------------------------------------
(***************************************************************************)
(* The client and its server.  What the server knows is told of a state s  *)
(* of it, so that the same is said before and after it has handled the     *)
(* request on top of the stack, while the client still waits.              *)
(***************************************************************************)
Fields == {"accounts", "tokens", "minted", "idempotency", "reservations", "reserved",
           "units", "keys", "registered_keys", "committed", "refunded", "effects"}
ServerShape(s) == s = [f \in Fields |-> s[f]]

Tokens == [account : Accounts, expires : Nat]
TokensOK(s) ==
    /\ s.minted \in Nat
    /\ s.accounts \subseteq Accounts
    /\ DOMAIN s.tokens \subseteq 1 .. s.minted
    /\ \A t \in DOMAIN s.tokens : s.tokens[t] \in Tokens

\* No reservation is held and committed, and no unit is made or lost.
UnitsOK(s) ==
    /\ s.reserved \in Nat /\ s.registered_keys \in Nat /\ s.units \in Int
    /\ DOMAIN s.reservations \subseteq 1 .. s.reserved
    /\ s.committed \subseteq 1 .. s.reserved
    /\ DOMAIN s.reservations \intersect s.committed = {}
    /\ s.units + Need * (Cardinality(DOMAIN s.reservations) + Cardinality(s.committed)) = Units

ServerOK(s) == ServerShape(s) /\ TokensOK(s) /\ UnitsOK(s)

\* The key a scope ends with.
KeyOf(scope) == scope[Len(scope)]

\* A call that has not been sent: one that waits for a refresh, or for its preflight.
Unsent(n) == n < Len(stack) \/ stack[n].pc = "preflight"

\* What is on record at the server is of calls that were sent, and each took
\* effect once.
CallsKnown(s) ==
    /\ \A scope \in DOMAIN s.idempotency :
          /\ KeyOf(scope) \in 1 .. started
          /\ \A n \in DOMAIN stack : Unsent(n) => stack[n].id # KeyOf(scope)
    /\ \A id \in DOMAIN s.effects :
          /\ s.effects[id] = 1
          /\ id \in 1 .. started
          /\ \A n \in DOMAIN stack : Unsent(n) => stack[n].id # id

\* What a success of an operation hands out.
HandedOut(s, op, out) ==
    /\ op \in Public \union {"refresh"} =>
          /\ out.token \in 1 .. s.minted /\ out.account \in Accounts
          /\ out.expires \in Nat
          /\ out.token \in DOMAIN s.tokens => s.tokens[out.token] =
                [account |-> out.account, expires |-> out.expires]
    /\ op = "refresh" => out.account = account
    /\ op = "entitlements" => out.owner = account
    /\ op = "reserve" => out.rid \in 1 .. s.reserved

\* A request whose record the server can find, its credential being known.
Found(s, frame) ==
    /\ Mutating(frame.op)
    /\ frame.op \in Public \union SelfDestructive \/ token \in DOMAIN s.tokens
    /\ Scope(s, Request(frame)) \in DOMAIN s.idempotency

\* The call on top: if it took effect its record is found, and if its record is
\* of a success it took effect.
TopKnown(s) == (stack # <<>> /\ Top.pc = "send") =>
    /\ Top.id \in DOMAIN s.effects => Found(s, Top)
    /\ Found(s, Top) /\ s.idempotency[Scope(s, Request(Top))].code = "ok" =>
          /\ Top.id \in DOMAIN s.effects
          /\ HandedOut(s, Top.op, s.idempotency[Scope(s, Request(Top))].payload)

\* The session: the server may have revoked the token, and knows it otherwise.
Agreed(s) ==
    /\ token # None => token \in 1 .. s.minted
    /\ token \in DOMAIN s.tokens => token # None
          /\ s.tokens[token].account = account /\ expires <= s.tokens[token].expires
    /\ DOMAIN reservations \subseteq 1 .. s.reserved

Told(s) == \A n \in DOMAIN events :
    /\ events[n].id \in executed
    /\ events[n].outcome = "succeeded" /\ Mutating(events[n].op)
         => events[n].id \in DOMAIN s.effects \/ events[n].op = "release"
    /\ \A m \in DOMAIN events : events[m].id = events[n].id => m = n

\* What holds of a state s of the server while the client is as it is.
Seen(s) == ServerOK(s) /\ CallsKnown(s) /\ TopKnown(s) /\ Agreed(s) /\ Told(s)

Bodied == Accounts \union Nat \union {None}
Frames == [op : Operations, body : Bodied, id : Nat, pc : {"preflight", "send"},
           attempt : 0 .. MaxAttempts - 1]
EventRows == [id : Nat, op : Operations, outcome : {"succeeded", "failed"}]

StackOK ==
    /\ stack \in Seq(Frames) /\ Len(stack) <= 2
    /\ \A n \in DOMAIN stack :
          /\ stack[n].id \in 1 .. started /\ stack[n].id \notin executed
          /\ stack[n].op \in Public => stack[n].body \in Accounts
    /\ Len(stack) = 2 =>
          /\ stack[2].op = "refresh" /\ stack[1].pc = "send" /\ stack[1].id # stack[2].id

SessionOK ==
    /\ clock \in Nat /\ started \in Nat /\ expires \in Nat
    /\ account \in Accounts \union {None}
    /\ cache # {} => token # None /\ \A e \in cache : e.owner = account
    /\ executed \subseteq 1 .. started
    /\ events \in Seq(EventRows)

ClientInv == StackOK /\ SessionOK /\ Seen(srv)

\* What an operation makes of the server, beside the record of its outcome.
Moves(s, t) ==
    /\ ServerOK(t) /\ t.idempotency = s.idempotency /\ t.effects = s.effects
    /\ s.minted <= t.minted /\ s.reserved <= t.reserved
    /\ \A k \in DOMAIN t.tokens :
          (k \in DOMAIN s.tokens /\ t.tokens[k] = s.tokens[k]) \/ k \notin 1 .. s.minted

\* An operation that revokes no token.
Grows(s, t) == Moves(s, t) /\ DOMAIN s.tokens \subseteq DOMAIN t.tokens

\* What an operation hands out for an account, in its own state.
Gives(op, who, reply) ==
    /\ op \in Public \union {"refresh"} =>
          /\ reply.payload.token \in 1 .. reply.srv.minted /\ reply.payload.account \in Accounts
          /\ reply.payload.expires \in Nat
          /\ reply.payload.token \in DOMAIN reply.srv.tokens =>
                reply.srv.tokens[reply.payload.token] =
                    [account |-> reply.payload.account, expires |-> reply.payload.expires]
    /\ op = "refresh" => reply.payload.account = who
    /\ op = "entitlements" => reply.payload.owner = who
    /\ op = "reserve" => reply.payload.rid \in 1 .. reply.srv.reserved

ReplyFields == {"srv", "code", "retryable", "payload"}
ReplyShape(reply) == reply = [f \in ReplyFields |-> reply[f]]

LEMMA FiniteTo ==
    ASSUME NEW n \in Nat, NEW S, S \subseteq 1 .. n
    PROVE  IsFiniteSet(S) /\ Cardinality(S) \in Nat
<1>1. IsFiniteSet(1 .. n)
  BY FS_Interval
<1>2. S \in SUBSET (1 .. n)
  OBVIOUS
<1>3. IsFiniteSet(S)
  BY <1>1, <1>2, FS_Subset
<1>4. QED
  BY <1>3, FS_CardinalityType

\* Units are told of the tables they are in.
LEMMA UnitsKept ==
    ASSUME NEW s, NEW t, UnitsOK(s), t.reserved = s.reserved, t.units = s.units,
           t.registered_keys = s.registered_keys, t.reservations = s.reservations,
           t.committed = s.committed
    PROVE  UnitsOK(t)
BY DEF UnitsOK

\* Units, with one reservation more or fewer.
LEMMA UnitsMove ==
    ASSUME ServerConstants, NEW a \in Nat, NEW b \in Nat, NEW units \in Int,
           units + Need * (a + b) = Units
    PROVE  /\ (units - Need) + Need * ((a + 1) + b) = Units
           /\ (units + Need) + Need * ((a - 1) + b) = Units
<1>1. Need \in Int /\ Units \in Int
  BY DEF ServerConstants
<1>2. Need * ((a + 1) + b) = Need * (a + b) + Need /\ Need * ((a - 1) + b) = Need * (a + b) - Need
  BY <1>1, SMT
<1>3. Need * (a + b) \in Int
  BY <1>1
<1>4. QED
  BY <1>1, <1>2, <1>3

LEMMA Same == ASSUME NEW s, ServerOK(s) PROVE Grows(s, s)
BY DEF Grows, Moves, ServerOK, TokensOK, UnitsOK

LEMMA OkReply ==
    ASSUME NEW s, NEW out
    PROVE  ReplyShape(Ok(s, out)) /\ Ok(s, out).srv = s /\ Ok(s, out).code = "ok"
           /\ Ok(s, out).payload = out
BY DEF Ok, ReplyShape, ReplyFields

LEMMA MintMoves ==
    ASSUME ServerConstants, NEW s, ServerOK(s), NEW who \in Accounts, NEW at \in Nat
    PROVE  /\ ReplyShape(Mint(s, who, at)) /\ Grows(s, Mint(s, who, at).srv)
           /\ Gives("register", who, Mint(s, who, at))
           /\ Mint(s, who, at).payload.account = who
<1> DEFINE key == s.minted + 1
           end == at + TokenTTL
           row == [account |-> who, expires |-> end]
           out == [account |-> who, token |-> key, expires |-> end]
           table == Put(s.tokens, key, row)
           t == [s EXCEPT !.minted = key, !.tokens = table]
<1>1. s.minted \in Nat /\ key \in Nat /\ end \in Nat
  BY DEF ServerOK, TokensOK, ServerConstants
<1>2. Mint(s, who, at) = Ok(t, out)
  BY DEF Mint
<1>3. row \in Tokens /\ out.token = key /\ out.account = who /\ out.expires = end
  BY <1>1 DEF Tokens
<1>4. DOMAIN table = DOMAIN s.tokens \union {key} /\ table[key] = row
      /\ \A k \in DOMAIN s.tokens : k # key => table[k] = s.tokens[k]
  BY DEF Put
<1> HIDE DEF table, row, end, out
<1>0. ServerShape(t) /\ t.minted = key /\ t.tokens = table /\ t.accounts = s.accounts
      /\ t.idempotency = s.idempotency /\ t.effects = s.effects /\ t.reserved = s.reserved
      /\ t.units = s.units /\ t.registered_keys = s.registered_keys
      /\ t.reservations = s.reservations /\ t.committed = s.committed
  BY DEF ServerOK, ServerShape, Fields
<1> HIDE DEF t
<1>5. ServerShape(t) /\ t.minted = key /\ t.tokens = table /\ t.accounts = s.accounts
      /\ t.idempotency = s.idempotency /\ t.effects = s.effects /\ UnitsOK(t)
      /\ t.reserved = s.reserved
  BY <1>0, UnitsKept DEF ServerOK
<1>6. DOMAIN s.tokens \subseteq 1 .. s.minted /\ s.minted <= key /\ key \in 1 .. key
      /\ 1 .. s.minted \subseteq 1 .. key /\ key \notin 1 .. s.minted
      /\ \A k \in DOMAIN s.tokens : s.tokens[k] \in Tokens
  BY <1>1 DEF ServerOK, TokensOK
<1>7. TokensOK(t)
  BY <1>1, <1>3, <1>4, <1>5, <1>6 DEF TokensOK, ServerOK
<1>8. s.reserved <= t.reserved
  BY <1>5 DEF ServerOK, UnitsOK
<1>9. Grows(s, t)
  BY <1>4, <1>5, <1>6, <1>7, <1>8 DEF Grows, Moves, ServerOK
<1>10. out.token \in 1 .. t.minted /\ out.account \in Accounts /\ out.expires \in Nat
      /\ t.tokens[out.token] = [account |-> out.account, expires |-> out.expires]
  BY <1>1, <1>3, <1>4, <1>5, <1>6 DEF row
<1>11. ReplyShape(Ok(t, out)) /\ Ok(t, out).srv = t /\ Ok(t, out).payload = out
  BY OkReply
<1> HIDE DEF key
<1>12. Gives("register", who, Ok(t, out))
  BY <1>10, <1>11 DEF Gives
<1>13. QED
  BY <1>2, <1>3, <1>9, <1>11, <1>12

LEMMA RegisterMoves ==
    ASSUME ServerConstants, NEW s, ServerOK(s), NEW who \in Accounts, NEW at \in Nat
    PROVE  /\ ReplyShape(Register(s, who, at)) /\ Grows(s, Register(s, who, at).srv)
           /\ Register(s, who, at).code = "ok" => Gives("register", who, Register(s, who, at))
<1>1. CASE who \in s.accounts
  <2>1. Register(s, who, at) = Err(s, "conflict", FALSE)
    BY <1>1 DEF Register
  <2>2. Err(s, "conflict", FALSE).srv = s /\ Err(s, "conflict", FALSE).code # "ok"
        /\ ReplyShape(Err(s, "conflict", FALSE))
    BY DEF Err, ReplyShape, ReplyFields
  <2>3. QED
    BY <2>1, <2>2, Same
<1>2. CASE who \notin s.accounts
  <2> DEFINE t == [s EXCEPT !.accounts = @ \union {who}]
  <2>1. Register(s, who, at) = Mint(t, who, at)
    BY <1>2 DEF Register
  <2>2. ServerShape(t) /\ t.accounts = s.accounts \union {who} /\ t.tokens = s.tokens
        /\ t.minted = s.minted /\ t.idempotency = s.idempotency /\ t.effects = s.effects
        /\ t.reserved = s.reserved /\ UnitsOK(t)
    <3>1. ServerShape(t) /\ t.accounts = s.accounts \union {who} /\ t.tokens = s.tokens
          /\ t.minted = s.minted /\ t.idempotency = s.idempotency /\ t.effects = s.effects
          /\ t.reserved = s.reserved /\ t.units = s.units
          /\ t.registered_keys = s.registered_keys /\ t.reservations = s.reservations
          /\ t.committed = s.committed
      BY DEF ServerOK, ServerShape, Fields
    <3> HIDE DEF t
    <3>2. QED
      BY <3>1, UnitsKept DEF ServerOK
  <2> HIDE DEF t
  <2>3. ServerOK(t)
    BY <2>2 DEF ServerOK, TokensOK
  <2>4. Grows(t, Mint(t, who, at).srv) /\ ReplyShape(Mint(t, who, at))
        /\ Gives("register", who, Mint(t, who, at))
    BY <2>3, MintMoves
  <2>5. Grows(s, Mint(t, who, at).srv)
    BY <2>2, <2>4 DEF Grows, Moves
  <2>6. QED
    BY <2>1, <2>4, <2>5
<1>3. QED
  BY <1>1, <1>2

LEMMA LoginMoves ==
    ASSUME ServerConstants, NEW s, ServerOK(s), NEW who \in Accounts, NEW at \in Nat
    PROVE  /\ ReplyShape(Login(s, who, at)) /\ Grows(s, Login(s, who, at).srv)
           /\ Login(s, who, at).code = "ok" => Gives("register", who, Login(s, who, at))
<1>1. CASE who \in s.accounts
  BY <1>1, MintMoves DEF Login
<1>2. CASE who \notin s.accounts
  <2>1. Login(s, who, at) = Err(s, "auth_invalid", FALSE)
    BY <1>2 DEF Login
  <2>2. Err(s, "auth_invalid", FALSE).srv = s /\ Err(s, "auth_invalid", FALSE).code # "ok"
        /\ ReplyShape(Err(s, "auth_invalid", FALSE))
    BY DEF Err, ReplyShape, ReplyFields
  <2>3. QED
    BY <2>1, <2>2, Same
<1>3. QED
  BY <1>1, <1>2

\* An operation that only takes tokens or accounts away.
LEMMA TakeAway ==
    ASSUME NEW s, ServerOK(s), NEW T \in SUBSET DOMAIN s.tokens, NEW A \in SUBSET s.accounts
    PROVE  Moves(s, [s EXCEPT !.accounts = A, !.tokens = Restrict(@, T)])
<1> DEFINE table == Restrict(s.tokens, T)
           t == [s EXCEPT !.accounts = A, !.tokens = table]
<1>1. DOMAIN table = T /\ \A k \in T : table[k] = s.tokens[k]
  BY DEF Restrict
<1> HIDE DEF table
<1>0. ServerShape(t) /\ t.accounts = A /\ t.tokens = table /\ t.minted = s.minted
      /\ t.idempotency = s.idempotency /\ t.effects = s.effects
      /\ t.reserved = s.reserved /\ t.units = s.units
      /\ t.registered_keys = s.registered_keys /\ t.reservations = s.reservations
      /\ t.committed = s.committed
  BY DEF ServerOK, ServerShape, Fields
<1>6. t = [s EXCEPT !.accounts = A, !.tokens = Restrict(@, T)]
  BY DEF t, table
<1> HIDE DEF t
<1>2. ServerShape(t) /\ t.accounts = A /\ t.tokens = table /\ t.minted = s.minted
      /\ t.idempotency = s.idempotency /\ t.effects = s.effects
      /\ t.reserved = s.reserved /\ UnitsOK(t)
  BY <1>0, UnitsKept DEF ServerOK
<1>3. ServerOK(t)
  BY <1>1, <1>2 DEF ServerOK, TokensOK
<1>4. s.minted <= t.minted /\ s.reserved <= t.reserved
  BY <1>2 DEF ServerOK, TokensOK, UnitsOK
<1>5. Moves(s, t)
  BY <1>1, <1>2, <1>3, <1>4 DEF Moves
<1>7. QED
  BY <1>5, <1>6

LEMMA LogoutMoves ==
    ASSUME NEW s, ServerOK(s), NEW key
    PROVE  ReplyShape(Logout(s, key)) /\ Moves(s, Logout(s, key).srv)
<1> DEFINE T == DOMAIN s.tokens \ {key}
           A == s.accounts
           t == [s EXCEPT !.tokens = Restrict(@, T)]
<1>1. Logout(s, key) = Ok(t, None)
  BY DEF Logout, Without
<1>2. t = [s EXCEPT !.accounts = A, !.tokens = Restrict(@, T)]
  BY DEF ServerOK, ServerShape, Fields
<1>3. T \in SUBSET DOMAIN s.tokens /\ A \in SUBSET s.accounts
  OBVIOUS
<1> HIDE DEF T, A
<1>4. Moves(s, t)
  BY <1>2, <1>3, TakeAway
<1> HIDE DEF t
<1>5. QED
  BY <1>1, <1>4, OkReply

LEMMA DeleteAccountMoves ==
    ASSUME NEW s, ServerOK(s), NEW who
    PROVE  ReplyShape(DeleteAccount(s, who)) /\ Moves(s, DeleteAccount(s, who).srv)
<1> DEFINE T == {t \in DOMAIN s.tokens : s.tokens[t].account # who}
           A == s.accounts \ {who}
           next == [s EXCEPT !.accounts = A, !.tokens = Restrict(@, T)]
<1>1. DeleteAccount(s, who) = Ok(next, None)
  BY DEF DeleteAccount
<1>2. T \in SUBSET DOMAIN s.tokens /\ A \in SUBSET s.accounts
  OBVIOUS
<1> HIDE DEF T, A
<1>3. Moves(s, next)
  BY <1>2, TakeAway
<1> HIDE DEF next
<1>4. QED
  BY <1>1, <1>3, OkReply

LEMMA ReserveMoves ==
    ASSUME ServerConstants, NEW s, ServerOK(s), NEW at \in Nat, NEW who
    PROVE  /\ ReplyShape(Reserve(s, at)) /\ Grows(s, Reserve(s, at).srv)
           /\ Reserve(s, at).code = "ok" => Gives("reserve", who, Reserve(s, at))
<1>1. CASE Need > s.units
  <2>1. Reserve(s, at) = Err(s, "quota_exhausted", TRUE)
    BY <1>1 DEF Reserve
  <2>2. Err(s, "quota_exhausted", TRUE).srv = s /\ Err(s, "quota_exhausted", TRUE).code # "ok"
        /\ ReplyShape(Err(s, "quota_exhausted", TRUE))
    BY DEF Err, ReplyShape, ReplyFields
  <2>3. QED
    BY <2>1, <2>2, Same
<1>2. CASE ~ (Need > s.units)
  <2> DEFINE rid == s.reserved + 1
             left == s.units - Need
             table == Put(s.reservations, rid, at + HoldTTL)
             out == [rid |-> rid, expires |-> at + HoldTTL]
             t == [s EXCEPT !.units = left, !.reserved = rid, !.reservations = table]
  <2>1. Reserve(s, at) = Ok(t, out)
    BY <1>2 DEF Reserve
  <2>2. out.rid = rid
    OBVIOUS
  <2>3. DOMAIN table = DOMAIN s.reservations \union {rid}
    BY DEF Put
  <2>4. s.reserved \in Nat /\ rid \in Nat /\ rid \in 1 .. rid /\ rid \notin 1 .. s.reserved
        /\ 1 .. s.reserved \subseteq 1 .. rid /\ s.reserved <= rid
        /\ s.units \in Int /\ left \in Int
    BY DEF ServerOK, UnitsOK, ServerConstants
  <2>5. IsFiniteSet(DOMAIN s.reservations) /\ Cardinality(DOMAIN s.reservations) \in Nat
        /\ Cardinality(s.committed) \in Nat
    BY <2>4, FiniteTo DEF ServerOK, UnitsOK
  <2>6. rid \notin DOMAIN s.reservations /\ rid \notin s.committed
    BY <2>4 DEF ServerOK, UnitsOK
  <2>7. Cardinality(DOMAIN table) = Cardinality(DOMAIN s.reservations) + 1
    BY <2>3, <2>5, <2>6, FS_AddElement
  <2>8. s.units + Need * (Cardinality(DOMAIN s.reservations) + Cardinality(s.committed)) = Units
    BY DEF ServerOK, UnitsOK
  <2>9. left + Need * ((Cardinality(DOMAIN s.reservations) + 1) + Cardinality(s.committed)) = Units
    BY <2>4, <2>5, <2>8, UnitsMove
  <2> HIDE DEF table, out
  <2>10. ServerShape(t) /\ t.minted = s.minted /\ t.tokens = s.tokens /\ t.accounts = s.accounts
        /\ t.idempotency = s.idempotency /\ t.effects = s.effects /\ t.reserved = rid
        /\ t.units = left /\ t.registered_keys = s.registered_keys
        /\ t.reservations = table /\ t.committed = s.committed
    BY DEF ServerOK, ServerShape, Fields
  <2> HIDE DEF t, rid, left
  <2>11. TokensOK(t)
    BY <2>10 DEF ServerOK, TokensOK
  <2>12. DOMAIN t.reservations \subseteq 1 .. t.reserved /\ t.committed \subseteq 1 .. t.reserved
        /\ DOMAIN t.reservations \intersect t.committed = {}
    BY <2>3, <2>4, <2>6, <2>10 DEF ServerOK, UnitsOK
  <2>13. t.units + Need * (Cardinality(DOMAIN t.reservations) + Cardinality(t.committed)) = Units
    BY <2>7, <2>9, <2>10
  <2>14. UnitsOK(t)
    BY <2>4, <2>10, <2>12, <2>13 DEF ServerOK, UnitsOK
  <2>15. s.minted <= t.minted
    BY <2>10 DEF ServerOK, TokensOK
  <2>16. Grows(s, t)
    BY <2>4, <2>10, <2>11, <2>14, <2>15 DEF Grows, Moves, ServerOK
  <2>17. Ok(t, out).srv = t /\ Ok(t, out).payload = out /\ ReplyShape(Ok(t, out))
    BY OkReply
  <2>18. Gives("reserve", who, Ok(t, out))
    BY <2>2, <2>4, <2>10, <2>17 DEF Gives, Public
  <2>19. QED
    BY <2>1, <2>16, <2>17, <2>18
<1>3. QED
  BY <1>1, <1>2

\* A reservation that ends: its units are free again, or committed.
LEMMA EndsHold ==
    ASSUME ServerConstants, NEW s, ServerOK(s), NEW rid \in DOMAIN s.reservations,
           NEW t, ServerShape(t), t.minted = s.minted, t.tokens = s.tokens,
           t.accounts = s.accounts, t.idempotency = s.idempotency, t.effects = s.effects,
           t.reserved = s.reserved, t.registered_keys = s.registered_keys,
           DOMAIN t.reservations = DOMAIN s.reservations \ {rid},
           \/ t.units = s.units + Need /\ t.committed = s.committed
           \/ t.units = s.units /\ t.committed = s.committed \union {rid}
    PROVE  Grows(s, t)
<1>1. s.reserved \in Nat /\ s.units \in Int /\ Need \in Int /\ s.minted \in Nat
      /\ rid \in 1 .. s.reserved
      /\ rid \notin s.committed /\ DOMAIN s.reservations \subseteq 1 .. s.reserved
      /\ s.committed \subseteq 1 .. s.reserved
      /\ DOMAIN s.reservations \intersect s.committed = {}
      /\ s.registered_keys \in Nat
  BY DEF ServerOK, UnitsOK, TokensOK, ServerConstants
<1>2. IsFiniteSet(DOMAIN s.reservations) /\ Cardinality(DOMAIN s.reservations) \in Nat
      /\ IsFiniteSet(s.committed) /\ Cardinality(s.committed) \in Nat
  BY <1>1, FiniteTo
<1>3. Cardinality(DOMAIN t.reservations) = Cardinality(DOMAIN s.reservations) - 1
  BY <1>2, FS_RemoveElement
<1>4. Cardinality(s.committed \union {rid}) = Cardinality(s.committed) + 1
  BY <1>1, <1>2, FS_AddElement
<1>5. s.units + Need * (Cardinality(DOMAIN s.reservations) + Cardinality(s.committed)) = Units
  BY DEF ServerOK, UnitsOK
<1>6. (s.units + Need) + Need * ((Cardinality(DOMAIN s.reservations) - 1) + Cardinality(s.committed)) = Units
  BY <1>1, <1>2, <1>5, UnitsMove
<1>7. (Cardinality(DOMAIN s.reservations) - 1) + (Cardinality(s.committed) + 1)
        = Cardinality(DOMAIN s.reservations) + Cardinality(s.committed)
  BY <1>2
<1>8. t.units + Need * (Cardinality(DOMAIN t.reservations) + Cardinality(t.committed)) = Units
  <2>1. CASE t.units = s.units + Need /\ t.committed = s.committed
    BY <2>1, <1>3, <1>6
  <2>2. CASE t.units = s.units /\ t.committed = s.committed \union {rid}
    BY <2>2, <1>3, <1>4, <1>5, <1>7
  <2>3. QED
    BY <2>1, <2>2
<1>9. t.committed \subseteq 1 .. t.reserved /\ t.units \in Int
      /\ DOMAIN t.reservations \subseteq 1 .. t.reserved
      /\ DOMAIN t.reservations \intersect t.committed = {}
  BY <1>1
<1>10. UnitsOK(t)
  BY <1>1, <1>8, <1>9 DEF UnitsOK
<1>11. TokensOK(t)
  BY DEF ServerOK, TokensOK
<1>12. s.minted <= t.minted /\ s.reserved <= t.reserved
  BY <1>1
<1>13. QED
  BY <1>10, <1>11, <1>12 DEF Grows, Moves, ServerOK

LEMMA CommitMoves ==
    ASSUME ServerConstants, NEW s, ServerOK(s), NEW rid, NEW at \in Nat
    PROVE  ReplyShape(CommitUnits(s, rid, at)) /\ Grows(s, CommitUnits(s, rid, at).srv)
<1>1. CASE rid \notin DOMAIN s.reservations
  <2>1. CommitUnits(s, rid, at) = Err(s, "not_found", FALSE)
    BY <1>1 DEF CommitUnits
  <2>2. QED
    <3>1. Err(s, "not_found", FALSE).srv = s /\ ReplyShape(Err(s, "not_found", FALSE))
      BY DEF Err, ReplyShape, ReplyFields
    <3>2. QED
      BY <2>1, <3>1, Same
<1>2. CASE rid \in DOMAIN s.reservations /\ at > s.reservations[rid]
  <2> DEFINE table == Without(s.reservations, rid)
             t == [[s EXCEPT !.reservations = table]
                     EXCEPT !.units = @ + Need, !.refunded = @ \union {rid}]
  <2>1. CommitUnits(s, rid, at) = Err(t, "quota_reservation_expired", TRUE)
    BY <1>2 DEF CommitUnits
  <2>2. DOMAIN table = DOMAIN s.reservations \ {rid}
    BY DEF Without, Restrict
  <2> HIDE DEF table
  <2>3. ServerShape(t) /\ t.minted = s.minted /\ t.tokens = s.tokens /\ t.accounts = s.accounts
        /\ t.idempotency = s.idempotency /\ t.effects = s.effects /\ t.reserved = s.reserved
        /\ t.units = s.units + Need /\ t.registered_keys = s.registered_keys
        /\ t.reservations = table /\ t.committed = s.committed
    BY DEF ServerOK, ServerShape, Fields
  <2> HIDE DEF t
  <2>4. Grows(s, t)
    BY <1>2, <2>2, <2>3, EndsHold
  <2>5. Err(t, "quota_reservation_expired", TRUE).srv = t
        /\ ReplyShape(Err(t, "quota_reservation_expired", TRUE))
    BY DEF Err, ReplyShape, ReplyFields
  <2>6. QED
    BY <2>1, <2>4, <2>5
<1>3. CASE rid \in DOMAIN s.reservations /\ ~ (at > s.reservations[rid])
  <2> DEFINE table == Without(s.reservations, rid)
             t == [[s EXCEPT !.reservations = table] EXCEPT !.committed = @ \union {rid}]
  <2>1. CommitUnits(s, rid, at) = Ok(t, None)
    BY <1>3 DEF CommitUnits
  <2>2. DOMAIN table = DOMAIN s.reservations \ {rid}
    BY DEF Without, Restrict
  <2> HIDE DEF table
  <2>3. ServerShape(t) /\ t.minted = s.minted /\ t.tokens = s.tokens /\ t.accounts = s.accounts
        /\ t.idempotency = s.idempotency /\ t.effects = s.effects /\ t.reserved = s.reserved
        /\ t.units = s.units /\ t.registered_keys = s.registered_keys
        /\ t.reservations = table /\ t.committed = s.committed \union {rid}
    BY DEF ServerOK, ServerShape, Fields
  <2> HIDE DEF t
  <2>4. Grows(s, t)
    BY <1>3, <2>2, <2>3, EndsHold
  <2>5. QED
    BY <2>1, <2>4, OkReply
<1>4. QED
  BY <1>1, <1>2, <1>3

LEMMA ReleaseMoves ==
    ASSUME ServerConstants, NEW s, ServerOK(s), NEW rid
    PROVE  ReplyShape(ReleaseUnits(s, rid)) /\ Grows(s, ReleaseUnits(s, rid).srv)
<1>1. CASE rid \notin DOMAIN s.reservations
  <2>1. ReleaseUnits(s, rid) = Err(s, "not_found", FALSE)
    BY <1>1 DEF ReleaseUnits
  <2>2. Err(s, "not_found", FALSE).srv = s /\ ReplyShape(Err(s, "not_found", FALSE))
    BY DEF Err, ReplyShape, ReplyFields
  <2>3. QED
    BY <2>1, <2>2, Same
<1>2. CASE rid \in DOMAIN s.reservations
  <2> DEFINE table == Without(s.reservations, rid)
             t == [s EXCEPT !.reservations = table, !.units = @ + Need,
                            !.refunded = @ \union {rid}]
  <2>1. ReleaseUnits(s, rid) = Ok(t, None)
    BY <1>2 DEF ReleaseUnits
  <2>2. DOMAIN table = DOMAIN s.reservations \ {rid}
    BY DEF Without, Restrict
  <2> HIDE DEF table
  <2>3. ServerShape(t) /\ t.minted = s.minted /\ t.tokens = s.tokens /\ t.accounts = s.accounts
        /\ t.idempotency = s.idempotency /\ t.effects = s.effects /\ t.reserved = s.reserved
        /\ t.units = s.units + Need /\ t.registered_keys = s.registered_keys
        /\ t.reservations = table /\ t.committed = s.committed
    BY DEF ServerOK, ServerShape, Fields
  <2> HIDE DEF t
  <2>4. Grows(s, t)
    BY <1>2, <2>2, <2>3, EndsHold
  <2>5. QED
    BY <2>1, <2>4, OkReply
<1>3. QED
  BY <1>1, <1>2

\* Keys are the server's alone.
LEMMA KeysMove ==
    ASSUME NEW s, ServerOK(s), NEW K, NEW n \in Nat
    PROVE  Grows(s, [s EXCEPT !.keys = K, !.registered_keys = n])
<1> DEFINE t == [s EXCEPT !.keys = K, !.registered_keys = n]
<1>1. ServerShape(t) /\ t.minted = s.minted /\ t.tokens = s.tokens /\ t.accounts = s.accounts
      /\ t.idempotency = s.idempotency /\ t.effects = s.effects /\ t.reserved = s.reserved
      /\ t.units = s.units /\ t.registered_keys = n
      /\ t.reservations = s.reservations /\ t.committed = s.committed
  BY DEF ServerOK, ServerShape, Fields
<1> HIDE DEF t
<1>2. ServerOK(t)
  BY <1>1 DEF ServerOK, UnitsOK, TokensOK
<1>3. s.minted <= t.minted /\ s.reserved <= t.reserved
  BY <1>1 DEF ServerOK, UnitsOK, TokensOK
<1>4. Grows(s, t)
  BY <1>1, <1>2, <1>3 DEF Grows, Moves
<1>5. QED
  BY <1>4 DEF t

LEMMA RegisterKeyMoves ==
    ASSUME NEW s, ServerOK(s)
    PROVE  ReplyShape(RegisterKey(s)) /\ Grows(s, RegisterKey(s).srv)
<1> DEFINE ref == s.registered_keys + 1
           K == s.keys \union {ref}
           t == [s EXCEPT !.keys = K, !.registered_keys = ref]
<1>1. RegisterKey(s) = Ok(t, ref)
  BY DEF RegisterKey
<1>2. ref \in Nat
  BY DEF ServerOK, UnitsOK
<1> HIDE DEF ref, K
<1>3. Grows(s, t)
  BY <1>2, KeysMove
<1> HIDE DEF t
<1>4. QED
  BY <1>1, <1>3, OkReply

LEMMA RevokeKeyMoves ==
    ASSUME NEW s, ServerOK(s), NEW ref
    PROVE  ReplyShape(RevokeKey(s, ref)) /\ Grows(s, RevokeKey(s, ref).srv)
<1>1. CASE ref \notin s.keys
  <2>1. RevokeKey(s, ref) = Err(s, "not_found", FALSE)
    BY <1>1 DEF RevokeKey
  <2>2. Err(s, "not_found", FALSE).srv = s /\ ReplyShape(Err(s, "not_found", FALSE))
    BY DEF Err, ReplyShape, ReplyFields
  <2>3. QED
    BY <2>1, <2>2, Same
<1>2. CASE ref \in s.keys
  <2> DEFINE n == s.registered_keys
             K == s.keys \ {ref}
             t == [s EXCEPT !.keys = K]
  <2>1. RevokeKey(s, ref) = Ok(t, None)
    BY <1>2 DEF RevokeKey
  <2>2. n \in Nat /\ t = [s EXCEPT !.keys = K, !.registered_keys = n]
    BY DEF ServerOK, UnitsOK, ServerShape, Fields
  <2> HIDE DEF n, K
  <2>3. Grows(s, t)
    BY <2>2, KeysMove
  <2> HIDE DEF t
  <2>4. QED
    BY <2>1, <2>3, OkReply
<1>3. QED
  BY <1>1, <1>2

\* Only the two operations that destroy the session revoke a token.
Steps(op, s, t) ==
    Moves(s, t) /\ (op \notin SelfDestructive => DOMAIN s.tokens \subseteq DOMAIN t.tokens)

\* What the dispatch on the operation's name makes of the server and answers.
LEMMA LogicMoves ==
    ASSUME ServerConstants, NEW s, ServerOK(s), NEW req, NEW who, NEW at \in Nat,
           req.op \in Operations, req.op \in Public => req.body \in Accounts,
           req.op \notin Public => who \in Accounts
    PROVE  /\ ReplyShape(Logic(s, req, who, at))
           /\ Steps(req.op, s, Logic(s, req, who, at).srv)
           /\ Logic(s, req, who, at).code = "ok" => Gives(req.op, who, Logic(s, req, who, at))
           /\ req.op \in ReadOnly => Logic(s, req, who, at).srv = s
<1> DEFINE reply == Logic(s, req, who, at)
<1> SUFFICES /\ ReplyShape(reply) /\ Steps(req.op, s, reply.srv)
             /\ reply.code = "ok" => Gives(req.op, who, reply)
             /\ req.op \in ReadOnly => reply.srv = s
  OBVIOUS
<1>1. CASE req.op = "register"
  <2>1. reply = Register(s, req.body, at)
    BY <1>1 DEF Logic
  <2> HIDE DEF reply
  <2>2. req.body \in Accounts
    BY <1>1 DEF Public
  <2>3. ReplyShape(reply) /\ Grows(s, reply.srv)
        /\ (reply.code = "ok" => Gives("register", req.body, reply))
    BY <2>1, <2>2, RegisterMoves
  <2>4. QED
    BY <1>1, <2>3 DEF Steps, Grows, Gives, Public, ReadOnly, SelfDestructive
<1>2. CASE req.op = "login"
  <2>1. reply = Login(s, req.body, at)
    BY <1>2 DEF Logic
  <2> HIDE DEF reply
  <2>2. req.body \in Accounts
    BY <1>2 DEF Public
  <2>3. ReplyShape(reply) /\ Grows(s, reply.srv)
        /\ (reply.code = "ok" => Gives("register", req.body, reply))
    BY <2>1, <2>2, LoginMoves
  <2>4. QED
    BY <1>2, <2>3 DEF Steps, Grows, Gives, Public, ReadOnly, SelfDestructive
<1>3. CASE req.op = "refresh"
  <2>1. reply = Mint(s, who, at)
    BY <1>3 DEF Logic
  <2> HIDE DEF reply
  <2>2. who \in Accounts
    BY <1>3 DEF Public
  <2>3. ReplyShape(reply) /\ Grows(s, reply.srv) /\ Gives("register", who, reply)
        /\ reply.payload.account = who
    BY <2>1, <2>2, MintMoves
  <2>4. QED
    BY <1>3, <2>3 DEF Steps, Grows, Gives, Public, ReadOnly, SelfDestructive
<1>4. CASE req.op = "logout"
  <2>1. reply = Logout(s, req.token)
    BY <1>4 DEF Logic
  <2> HIDE DEF reply
  <2>2. ReplyShape(reply) /\ Moves(s, reply.srv)
    BY <2>1, LogoutMoves
  <2>3. QED
    BY <1>4, <2>2 DEF Steps, Grows, Gives, Public, ReadOnly, SelfDestructive
<1>5. CASE req.op = "delete_account"
  <2>1. reply = DeleteAccount(s, who)
    BY <1>5 DEF Logic
  <2> HIDE DEF reply
  <2>2. ReplyShape(reply) /\ Moves(s, reply.srv)
    BY <2>1, DeleteAccountMoves
  <2>3. QED
    BY <1>5, <2>2 DEF Steps, Grows, Gives, Public, ReadOnly, SelfDestructive
<1>6. CASE req.op = "entitlements"
  <2>1. reply = Ok(s, [owner |-> who])
    BY <1>6 DEF Logic
  <2> HIDE DEF reply
  <2>2. reply.srv = s /\ ReplyShape(reply) /\ reply.payload.owner = who
    BY <2>1, OkReply
  <2>3. QED
    BY <1>6, <2>2, Same DEF Steps, Grows, Gives, Public, ReadOnly, SelfDestructive
<1>7. CASE req.op = "reserve"
  <2>1. reply = Reserve(s, at)
    BY <1>7 DEF Logic
  <2> HIDE DEF reply
  <2>2. ReplyShape(reply) /\ Grows(s, reply.srv)
        /\ (reply.code = "ok" => Gives("reserve", who, reply))
    BY <2>1, ReserveMoves
  <2>3. QED
    BY <1>7, <2>2 DEF Steps, Grows, Gives, Public, ReadOnly, SelfDestructive
<1>8. CASE req.op = "commit"
  <2>1. reply = CommitUnits(s, req.body, at)
    BY <1>8 DEF Logic
  <2> HIDE DEF reply
  <2>2. ReplyShape(reply) /\ Grows(s, reply.srv)
    BY <2>1, CommitMoves
  <2>3. QED
    BY <1>8, <2>2 DEF Steps, Grows, Gives, Public, ReadOnly, SelfDestructive
<1>9. CASE req.op = "release"
  <2>1. reply = ReleaseUnits(s, req.body)
    BY <1>9 DEF Logic
  <2> HIDE DEF reply
  <2>2. ReplyShape(reply) /\ Grows(s, reply.srv)
    BY <2>1, ReleaseMoves
  <2>3. QED
    BY <1>9, <2>2 DEF Steps, Grows, Gives, Public, ReadOnly, SelfDestructive
<1>10. CASE req.op = "checkout"
  <2>1. reply = Ok(s, at)
    BY <1>10 DEF Logic
  <2> HIDE DEF reply
  <2>2. reply.srv = s /\ ReplyShape(reply)
    BY <2>1, OkReply
  <2>3. QED
    BY <1>10, <2>2, Same DEF Steps, Grows, Gives, Public, ReadOnly, SelfDestructive
<1>11. CASE req.op = "subscription"
  <2>1. reply = Err(s, "not_found", FALSE)
    BY <1>11 DEF Logic
  <2> HIDE DEF reply
  <2>2. reply.srv = s /\ ReplyShape(reply)
    <3>1. Err(s, "not_found", FALSE).srv = s /\ ReplyShape(Err(s, "not_found", FALSE))
      BY DEF Err, ReplyShape, ReplyFields
    <3>2. QED
      BY <2>1, <3>1
  <2>3. QED
    BY <1>11, <2>2, Same DEF Steps, Grows, Gives, Public, ReadOnly, SelfDestructive
<1>12. CASE req.op = "register_key"
  <2>1. reply = RegisterKey(s)
    BY <1>12 DEF Logic
  <2> HIDE DEF reply
  <2>2. ReplyShape(reply) /\ Grows(s, reply.srv)
    BY <2>1, RegisterKeyMoves
  <2>3. QED
    BY <1>12, <2>2 DEF Steps, Grows, Gives, Public, ReadOnly, SelfDestructive
<1>13. CASE req.op = "revoke_key"
  <2>1. reply = RevokeKey(s, req.body)
    BY <1>13 DEF Logic
  <2> HIDE DEF reply
  <2>2. ReplyShape(reply) /\ Grows(s, reply.srv)
    BY <2>1, RevokeKeyMoves
  <2>3. QED
    BY <1>13, <2>2 DEF Steps, Grows, Gives, Public, ReadOnly, SelfDestructive
<1>14. CASE req.op = "route"
  <2>1. reply = Ok(s, IF s.keys = {} THEN None ELSE Cardinality(s.keys))
    BY <1>14 DEF Logic, Route
  <2> HIDE DEF reply
  <2>2. reply.srv = s /\ ReplyShape(reply)
    BY <2>1, OkReply
  <2>3. QED
    BY <1>14, <2>2, Same DEF Steps, Grows, Gives, Public, ReadOnly, SelfDestructive
<1>15. QED
  BY <1>1, <1>2, <1>3, <1>4, <1>5, <1>6, <1>7, <1>8, <1>9, <1>10, <1>11, <1>12, <1>13, <1>14 DEF Operations, Public, SelfDestructive, ReadOnly

\* A credential the server knows, or none that it needs.
Known(s, q) == q.op \in Public \union SelfDestructive \/ q.token \in DOMAIN s.tokens

\* The four ways a request is handled: refused and without a trace; answered from
\* the state alone; answered from the record of its key; or performed, and recorded.
Denied(s, r) == r.srv = s /\ r.code # "ok"
Read(s, q, r) ==
    /\ r.srv = s /\ ~ Mutating(q.op) /\ q.token \in DOMAIN s.tokens
    /\ r.code = "ok" => Gives(q.op, s.tokens[q.token].account, r)
Repeated(s, q, r) ==
    /\ r.srv = s /\ Mutating(q.op) /\ Known(s, q) /\ Scope(s, q) \in DOMAIN s.idempotency
    /\ r.code = "ok" => s.idempotency[Scope(s, q)].code = "ok"
                        /\ r.payload = s.idempotency[Scope(s, q)].payload
Performed(s, q, r) ==
    /\ Mutating(q.op) /\ Known(s, q) /\ Scope(s, q) \notin DOMAIN s.idempotency
    /\ ServerOK(r.srv)
    /\ s.minted <= r.srv.minted /\ s.reserved <= r.srv.reserved
    /\ \A k \in DOMAIN r.srv.tokens :
          (k \in DOMAIN s.tokens /\ r.srv.tokens[k] = s.tokens[k]) \/ k \notin 1 .. s.minted
    /\ q.op \notin SelfDestructive => DOMAIN s.tokens \subseteq DOMAIN r.srv.tokens
    /\ DOMAIN r.srv.idempotency = DOMAIN s.idempotency \union {Scope(s, q)}
    /\ r.srv.idempotency[Scope(s, q)].code = "ok" =>
          r.code = "ok" /\ r.srv.idempotency[Scope(s, q)].payload = r.payload
    /\ r.code # "ok" => r.srv.effects = s.effects
    /\ r.code = "ok" =>
          /\ DOMAIN r.srv.effects = DOMAIN s.effects \union {q.id}
          /\ \A id \in DOMAIN s.effects : id # q.id => r.srv.effects[id] = s.effects[id]
          /\ q.id \notin DOMAIN s.effects => r.srv.effects[q.id] = 1
    /\ r.code = "ok" => \E who :
          Gives(q.op, who, r) /\ (q.op \notin Public => who = s.tokens[q.token].account)

LEMMA ReplayIs ==
    ASSUME NEW s, NEW q, Mutating(q.op), Known(s, q), Scope(s, q) \in DOMAIN s.idempotency
    PROVE  Denied(s, Replayed(s, Scope(s, q), q)) \/ Repeated(s, q, Replayed(s, Scope(s, q), q))
<1> DEFINE sc == Scope(s, q)
           prior == s.idempotency[sc]
<1>1. CASE prior.body # q.body
  <2>1. Replayed(s, sc, q) = Err(s, "idempotency_conflict", FALSE)
    BY <1>1 DEF Replayed
  <2>2. Err(s, "idempotency_conflict", FALSE).srv = s
        /\ Err(s, "idempotency_conflict", FALSE).code # "ok"
    BY DEF Err
  <2>3. QED
    BY <2>1, <2>2 DEF Denied
<1>2. CASE prior.body = q.body
  <2>1. Replayed(s, sc, q).srv = s /\ Replayed(s, sc, q).code = prior.code
        /\ Replayed(s, sc, q).payload = prior.payload
    BY <1>2 DEF Replayed
  <2>2. QED
    BY <2>1 DEF Repeated
<1>3. QED
  BY <1>1, <1>2

\* The record of an outcome leaves the rest of the server as it is.
LEMMA RecordedIs ==
    ASSUME NEW r, ReplyShape(r), ServerOK(r.srv), NEW sc, NEW q
    PROVE  LET t == Recorded(r, sc, q)
           IN  /\ t.code = r.code /\ t.payload = r.payload
               /\ ServerOK(t.srv) /\ t.srv.minted = r.srv.minted /\ t.srv.tokens = r.srv.tokens
               /\ t.srv.reserved = r.srv.reserved
               /\ DOMAIN t.srv.idempotency = DOMAIN r.srv.idempotency \union {sc}
               /\ t.srv.idempotency[sc].code = r.code
               /\ t.srv.idempotency[sc].payload = r.payload
               /\ r.code # "ok" => t.srv.effects = r.srv.effects
               /\ r.code = "ok" => t.srv.effects =
                     Put(r.srv.effects, q.id, 1 + IF q.id \in DOMAIN r.srv.effects
                                                  THEN r.srv.effects[q.id] ELSE 0)
<1> DEFINE row == [body |-> q.body, code |-> r.code, retryable |-> r.retryable,
                   payload |-> r.payload]
           log == Put(r.srv.idempotency, sc, row)
           eff == IF r.code = "ok"
                  THEN Put(r.srv.effects, q.id, 1 + IF q.id \in DOMAIN r.srv.effects
                                                    THEN r.srv.effects[q.id] ELSE 0)
                  ELSE r.srv.effects
           u == [[r.srv EXCEPT !.idempotency = log] EXCEPT !.effects = eff]
           t == Recorded(r, sc, q)
<1>1. row.code = r.code /\ row.payload = r.payload
  OBVIOUS
<1>2. DOMAIN log = DOMAIN r.srv.idempotency \union {sc} /\ log[sc] = row
  BY DEF Put
<1>3. t = [[r EXCEPT !.srv.idempotency = log] EXCEPT !.srv.effects = eff]
  BY DEF Recorded, ReplyShape, ReplyFields
<1> HIDE DEF row, log, t
<1>4. r.code # "ok" => eff = r.srv.effects
  OBVIOUS
<1>5. r.code = "ok" => eff = Put(r.srv.effects, q.id, 1 + IF q.id \in DOMAIN r.srv.effects
                                                          THEN r.srv.effects[q.id] ELSE 0)
  OBVIOUS
<1> HIDE DEF eff
<1>6. t.srv = u /\ t.code = r.code /\ t.payload = r.payload
  BY <1>3 DEF ReplyShape, ReplyFields, ServerOK, ServerShape, Fields
<1>7. ServerShape(u) /\ u.minted = r.srv.minted /\ u.tokens = r.srv.tokens
      /\ u.reserved = r.srv.reserved /\ u.accounts = r.srv.accounts
      /\ u.units = r.srv.units /\ u.registered_keys = r.srv.registered_keys
      /\ u.reservations = r.srv.reservations /\ u.committed = r.srv.committed
      /\ u.idempotency = log /\ u.effects = eff
  BY DEF ServerOK, ServerShape, Fields
<1> HIDE DEF u
<1>8. UnitsOK(u) /\ TokensOK(u)
  <2>1. UnitsOK(u)
    BY <1>7, UnitsKept DEF ServerOK
  <2>2. TokensOK(u)
    BY <1>7 DEF ServerOK, TokensOK
  <2>3. QED
    BY <2>1, <2>2
<1>9. QED
  BY <1>1, <1>2, <1>4, <1>5, <1>6, <1>7, <1>8 DEF t, ServerOK

LEMMA HandleMoves ==
    ASSUME ServerConstants, NEW s, ServerOK(s), NEW q, NEW at \in Nat,
           q.op \in Operations, q.op \in Public => q.body \in Accounts
    PROVE  LET r == Handle(s, q, at)
           IN  Denied(s, r) \/ Read(s, q, r) \/ Repeated(s, q, r) \/ Performed(s, q, r)
<1> DEFINE r == Handle(s, q, at)
           sc == Scope(s, q)
           who == IF q.op \in Public THEN None ELSE s.tokens[q.token].account
           result == Logic(s, q, who, at)
<1> SUFFICES Denied(s, r) \/ Read(s, q, r) \/ Repeated(s, q, r) \/ Performed(s, q, r)
  OBVIOUS
<1>1. CASE q.op \in SelfDestructive /\ sc \in DOMAIN s.idempotency
  <2>1. r = Replayed(s, sc, q)
    BY <1>1 DEF Handle
  <2>2. Mutating(q.op) /\ Known(s, q)
    BY <1>1 DEF Mutating, Known, SelfDestructive, ReadOnly
  <2>3. QED
    BY <1>1, <2>1, <2>2, ReplayIs
<1>2. CASE ~ (q.op \in SelfDestructive /\ sc \in DOMAIN s.idempotency)
            /\ q.op \notin Public /\ Bearer(s, q.token, at) # "ok"
  <2>1. r = Err(s, IF Bearer(s, q.token, at) = "expired" THEN "auth_expired"
                                                       ELSE "auth_invalid", FALSE)
    BY <1>2 DEF Handle
  <2>2. r.srv = s /\ r.code # "ok"
    BY <2>1 DEF Err
  <2>3. QED
    BY <2>2 DEF Denied
<1>3. CASE ~ (q.op \in SelfDestructive /\ sc \in DOMAIN s.idempotency)
            /\ (q.op \in Public \/ Bearer(s, q.token, at) = "ok")
  <2>1. q.op \notin Public => q.token \in DOMAIN s.tokens
    BY <1>3 DEF Bearer
  <2>2. q.op \notin Public => who \in Accounts
    BY <2>1 DEF ServerOK, TokensOK, Tokens
  <2>3. ReplyShape(result) /\ Steps(q.op, s, result.srv)
        /\ (result.code = "ok" => Gives(q.op, who, result)) /\ (q.op \in ReadOnly => result.srv = s)
    BY <2>2, LogicMoves
  <2>4. CASE ~ Mutating(q.op)
    <3>1. r = result
      BY <1>3, <2>4 DEF Handle
    <3>2. q.op \in ReadOnly /\ q.op \notin Public
      BY <2>4 DEF Mutating, ReadOnly, Public
    <3>3. who = s.tokens[q.token].account
      BY <3>2
    <3> HIDE DEF r, who, result
    <3>4. QED
      BY <2>1, <2>3, <2>4, <3>1, <3>2, <3>3 DEF Read
  <2>5. CASE Mutating(q.op) /\ sc \in DOMAIN s.idempotency
    <3>1. r = Replayed(s, sc, q)
      BY <1>3, <2>5 DEF Handle
    <3>2. Known(s, q)
      BY <2>1 DEF Known
    <3>3. QED
      BY <2>5, <3>1, <3>2, ReplayIs
  <2>6. CASE Mutating(q.op) /\ sc \notin DOMAIN s.idempotency
    <3>1. r = Recorded(result, sc, q)
      BY <1>3, <2>6 DEF Handle
    <3>2. Known(s, q)
      BY <2>1 DEF Known
    <3>3. q.op \notin Public => who = s.tokens[q.token].account
      OBVIOUS
    <3> HIDE DEF r, who, result, sc
    <3>4. ServerOK(result.srv) /\ result.srv.idempotency = s.idempotency
          /\ result.srv.effects = s.effects
      BY <2>3 DEF Steps, Moves
    <3>5. /\ r.code = result.code /\ r.payload = result.payload
          /\ ServerOK(r.srv) /\ r.srv.minted = result.srv.minted /\ r.srv.tokens = result.srv.tokens
          /\ r.srv.reserved = result.srv.reserved
          /\ DOMAIN r.srv.idempotency = DOMAIN s.idempotency \union {sc}
          /\ r.srv.idempotency[sc].code = r.code
          /\ r.srv.idempotency[sc].payload = r.payload
          /\ r.code # "ok" => r.srv.effects = s.effects
          /\ r.code = "ok" => r.srv.effects =
                Put(s.effects, q.id, 1 + IF q.id \in DOMAIN s.effects
                                         THEN s.effects[q.id] ELSE 0)
      BY <2>3, <3>1, <3>4, RecordedIs
    <3>6. r.code = "ok" =>
            /\ DOMAIN r.srv.effects = DOMAIN s.effects \union {q.id}
            /\ \A id \in DOMAIN s.effects : id # q.id => r.srv.effects[id] = s.effects[id]
            /\ q.id \notin DOMAIN s.effects => r.srv.effects[q.id] = 1
      BY <3>5 DEF Put
    <3>7. r.code = "ok" => Gives(q.op, who, r)
      BY <2>3, <3>5 DEF Gives
    <3>8. s.minted <= r.srv.minted /\ s.reserved <= r.srv.reserved
          /\ (\A k \in DOMAIN r.srv.tokens :
                (k \in DOMAIN s.tokens /\ r.srv.tokens[k] = s.tokens[k]) \/ k \notin 1 .. s.minted)
          /\ (q.op \notin SelfDestructive => DOMAIN s.tokens \subseteq DOMAIN r.srv.tokens)
      BY <2>3, <3>5 DEF Steps, Moves
    <3>9. Performed(s, q, r)
      BY <2>6, <3>2, <3>3, <3>5, <3>6, <3>7, <3>8 DEF Performed, sc
    <3>10. QED
      BY <3>9
  <2>7. QED
    BY <2>4, <2>5, <2>6
<1>4. QED
  BY <1>1, <1>2, <1>3

-----------------------------------------------------------------------------
(***************************************************************************)
(* The client's side.                                                      *)
(***************************************************************************)

LEMMA ScopeKey ==
    ASSUME NEW s, NEW q
    PROVE  KeyOf(Scope(s, q)) = q.key
<1>1. CASE q.op \in SelfDestructive
  <2> DEFINE sc == <<"cred", q.token, q.op, q.key>>
  <2>1. Scope(s, q) = sc
    BY <1>1 DEF Scope
  <2>2. Len(sc) = 4 /\ sc[4] = q.key
    OBVIOUS
  <2>3. QED
    BY <2>1, <2>2 DEF KeyOf
<1>2. CASE q.op \notin SelfDestructive /\ q.op \in Public
  <2> DEFINE sc == <<"public", q.op, q.key>>
  <2>1. Scope(s, q) = sc
    BY <1>2 DEF Scope
  <2>2. Len(sc) = 3 /\ sc[3] = q.key
    OBVIOUS
  <2>3. QED
    BY <2>1, <2>2 DEF KeyOf
<1>3. CASE q.op \notin SelfDestructive /\ q.op \notin Public
  <2> DEFINE sc == <<s.tokens[q.token].account, q.op, q.key>>
  <2>1. Scope(s, q) = sc
    BY <1>3 DEF Scope
  <2>2. Len(sc) = 3 /\ sc[3] = q.key
    OBVIOUS
  <2>3. QED
    BY <2>1, <2>2 DEF KeyOf
<1>4. QED
  BY <1>1, <1>2, <1>3

\* The token the server goes by is found in the same row as long as it is there.
LEMMA ScopeStays ==
    ASSUME NEW s, NEW t, NEW q,
           q.op \in Public \union SelfDestructive \/ t.tokens[q.token] = s.tokens[q.token]
    PROVE  Scope(t, q) = Scope(s, q)
BY DEF Scope

LEMMA RequestIs ==
    ASSUME NEW frame
    PROVE  /\ Request(frame).op = frame.op /\ Request(frame).body = frame.body
           /\ Request(frame).id = frame.id
           /\ frame.op \notin Public => Request(frame).token = token
           /\ Mutating(frame.op) => Request(frame).key = frame.id
BY DEF Request

\* What a reply r to the call on top says.
Truth(r) == r.code = "ok" =>
    /\ Mutating(Top.op) => Top.id \in DOMAIN r.srv.effects
    /\ HandedOut(r.srv, Top.op, r.payload)
    /\ Top.op = "entitlements" => token # None

Sending == stack # <<>> /\ Top.pc = "send"

LEMMA TopIs ==
    ASSUME StackOK, stack # <<>>
    PROVE  /\ Top \in Frames /\ Len(stack) \in DOMAIN stack /\ Len(stack) \in 1 .. 2
           /\ Top.id \in 1 .. started /\ Top.id \notin executed
           /\ Top.op \in Public => Top.body \in Accounts
           /\ Sending => \A n \in DOMAIN stack : Unsent(n) => stack[n].id # Top.id
<1>1. Len(stack) \in Nat /\ Len(stack) # 0 /\ DOMAIN stack = 1 .. Len(stack) /\ Len(stack) <= 2
  BY DEF StackOK
<1>2. Len(stack) \in 1 .. 2 /\ Len(stack) \in DOMAIN stack
  BY <1>1
<1>3. Top \in Frames
  BY <1>2, ElementOfSeq DEF Top, StackOK
<1>4. Top.id \in 1 .. started /\ Top.id \notin executed /\ (Top.op \in Public => Top.body \in Accounts)
  BY <1>2 DEF Top, StackOK
<1>5. ASSUME Sending, NEW n \in DOMAIN stack, Unsent(n)
      PROVE  stack[n].id # Top.id
  <2>1. n < Len(stack)
    <3>1. CASE n = Len(stack)
      BY <3>1, <1>5 DEF Sending, Unsent, Top
    <3>2. CASE n # Len(stack)
      BY <3>2, <1>1
    <3>3. QED
      BY <3>1, <3>2
  <2>2. n = 1 /\ Len(stack) = 2
    BY <2>1, <1>1, <1>2
  <2>3. QED
    BY <2>2 DEF Top, StackOK
<1>6. QED
  BY <1>2, <1>3, <1>4, <1>5

LEMMA HandedBy ==
    ASSUME NEW r, NEW op, NEW who, Gives(op, who, r), op \in {"refresh", "entitlements"} => who = account
    PROVE  HandedOut(r.srv, op, r.payload)
BY DEF Gives, HandedOut

LEMMA AfterHandle ==
    ASSUME ServerConstants, StackOK, SessionOK, Seen(srv), Sending
    PROVE  LET r == Handle(srv, Request(Top), clock) IN Seen(r.srv) /\ Truth(r)
<1> DEFINE q == Request(Top)
           r == Handle(srv, q, clock)
           sc == Scope(srv, q)
<1> SUFFICES Seen(r.srv) /\ Truth(r)
  OBVIOUS
<1>1. /\ Top \in Frames /\ Top.id \in 1 .. started /\ (Top.op \in Public => Top.body \in Accounts)
      /\ \A n \in DOMAIN stack : Unsent(n) => stack[n].id # Top.id
  BY TopIs DEF Sending
<1>2. q.op = Top.op /\ q.body = Top.body /\ q.id = Top.id
      /\ (Top.op \notin Public => q.token = token) /\ (Mutating(Top.op) => q.key = Top.id)
  BY RequestIs
<1>3. q.op \in Operations /\ (q.op \in Public => q.body \in Accounts)
  BY <1>1, <1>2 DEF Frames
<1>4. ServerOK(srv) /\ clock \in Nat
  BY DEF Seen, SessionOK
<1>5. Mutating(Top.op) => KeyOf(sc) = Top.id
  BY <1>2, ScopeKey
<1>6. token \in DOMAIN srv.tokens => srv.tokens[token].account = account
  BY DEF Seen, Agreed
<1>7. \A s : Found(s, Top) <=> Mutating(Top.op) /\ Known(s, q) /\ Scope(s, q) \in DOMAIN s.idempotency
  BY <1>2 DEF Found, Known, Public, SelfDestructive
<1> HIDE DEF q
<1>8. Denied(srv, r) \/ Read(srv, q, r) \/ Repeated(srv, q, r) \/ Performed(srv, q, r)
  BY <1>3, <1>4, HandleMoves
<1> HIDE DEF r
<1>9. CASE Denied(srv, r)
  BY <1>9 DEF Denied, Truth
<1>10. CASE Read(srv, q, r)
  <2>1. q.op \notin Public
    BY <1>10 DEF Read, Mutating, ReadOnly, Public
  <2>2. r.code = "ok" => Gives(Top.op, account, r)
    BY <1>2, <1>6, <1>10, <2>1 DEF Read
  <2>3. r.code = "ok" => HandedOut(r.srv, Top.op, r.payload)
    BY <2>2, HandedBy
  <2>4. token # None
    BY <1>2, <1>10, <2>1 DEF Read, Seen, Agreed
  <2>5. QED
    BY <1>2, <1>10, <2>3, <2>4 DEF Read, Truth
<1>11. CASE Repeated(srv, q, r)
  <2>1. r.srv = srv /\ Found(srv, Top)
    BY <1>2, <1>7, <1>11 DEF Repeated
  <2>2. r.code = "ok" => srv.idempotency[sc].code = "ok" /\ r.payload = srv.idempotency[sc].payload
    BY <1>11 DEF Repeated
  <2>3. r.code = "ok" => Top.id \in DOMAIN srv.effects /\ HandedOut(srv, Top.op, r.payload)
    BY <2>1, <2>2 DEF Seen, TopKnown, Sending, q
  <2>4. Top.op # "entitlements"
    BY <1>2, <1>11 DEF Repeated, Mutating, ReadOnly
  <2>5. QED
    BY <2>1, <2>3, <2>4 DEF Truth
<1>12. CASE Performed(srv, q, r)
  <2> DEFINE t == r.srv
  <2>1. Mutating(Top.op) /\ KeyOf(sc) = Top.id
    BY <1>2, <1>5, <1>12 DEF Performed
  <2>2. Top.id \notin DOMAIN srv.effects
    BY <1>7, <1>12 DEF Performed, Seen, TopKnown, Sending
  <2>3. r.code = "ok" => \E who : Gives(Top.op, who, r)
                            /\ (Top.op \notin Public => who = srv.tokens[token].account)
    BY <1>2, <1>12 DEF Performed
  <2>4. Top.op \notin Public \union SelfDestructive => token \in DOMAIN srv.tokens
    BY <1>2, <1>12 DEF Performed, Known
  <2>5. r.code = "ok" => HandedOut(t, Top.op, r.payload)
    <3>1. SUFFICES ASSUME r.code = "ok" PROVE HandedOut(t, Top.op, r.payload)
      OBVIOUS
    <3>2. PICK who : Gives(Top.op, who, r)
                     /\ (Top.op \notin Public => who = srv.tokens[token].account)
      BY <2>3, <3>1
    <3>3. Top.op \in {"refresh", "entitlements"} => who = account
      BY <1>6, <2>4, <3>2 DEF Public, SelfDestructive
    <3>4. QED
      BY <3>2, <3>3, HandedBy
  <2>6. DOMAIN t.effects \subseteq DOMAIN srv.effects \union {Top.id}
        /\ DOMAIN srv.effects \subseteq DOMAIN t.effects
        /\ (r.code = "ok" => Top.id \in DOMAIN t.effects)
        /\ (Top.id \in DOMAIN t.effects => r.code = "ok")
        /\ \A id \in DOMAIN t.effects : t.effects[id] = 1
    <3>1. \A id \in DOMAIN srv.effects : srv.effects[id] = 1
      BY DEF Seen, CallsKnown
    <3>2. QED
      BY <1>2, <1>12, <2>2, <3>1 DEF Performed
  <2>7. CallsKnown(t)
    <3>1. ASSUME NEW scope \in DOMAIN t.idempotency
          PROVE  KeyOf(scope) \in 1 .. started
                 /\ \A n \in DOMAIN stack : Unsent(n) => stack[n].id # KeyOf(scope)
      <4>1. CASE scope \in DOMAIN srv.idempotency
        BY <4>1 DEF Seen, CallsKnown
      <4>2. CASE scope = sc
        BY <4>2, <2>1, <1>1
      <4>3. QED
        BY <4>1, <4>2, <1>12 DEF Performed
    <3>2. ASSUME NEW id \in DOMAIN t.effects
          PROVE  t.effects[id] = 1 /\ id \in 1 .. started
                 /\ \A n \in DOMAIN stack : Unsent(n) => stack[n].id # id
      <4>1. CASE id \in DOMAIN srv.effects
        BY <4>1, <2>6 DEF Seen, CallsKnown
      <4>2. CASE id = Top.id
        BY <4>2, <2>6, <1>1
      <4>3. QED
        BY <4>1, <4>2, <2>6
    <3>3. QED
      BY <3>1, <3>2 DEF CallsKnown
  <2>8. token \in DOMAIN t.tokens =>
          token \in DOMAIN srv.tokens /\ t.tokens[token] = srv.tokens[token]
    <3>1. token \in DOMAIN t.tokens => token # None
      BY <1>12 DEF Performed, ServerOK, TokensOK, ServerConstants
    <3>2. token # None => token \in 1 .. srv.minted
      BY DEF Seen, Agreed
    <3>3. QED
      BY <1>12, <3>1, <3>2 DEF Performed
  <2>9. Agreed(t)
    <3>1. 1 .. srv.minted \subseteq 1 .. t.minted /\ 1 .. srv.reserved \subseteq 1 .. t.reserved
      BY <1>4, <1>12 DEF Performed, ServerOK, TokensOK, UnitsOK
    <3>2. QED
      BY <2>8, <3>1 DEF Seen, Agreed
  <2>10. TopKnown(t)
    <3>1. Top.id \in DOMAIN t.effects => Found(t, Top)
      <4>1. Known(t, q)
        BY <1>2, <2>4, <1>12 DEF Performed, Known, Public, SelfDestructive
      <4>2. Scope(t, q) = sc
        <5>1. q.op \in Public \union SelfDestructive \/ t.tokens[q.token] = srv.tokens[q.token]
          BY <1>2, <4>1, <2>8 DEF Known
        <5>2. QED
          BY <5>1, ScopeStays
      <4>3. QED
        BY <1>7, <1>12, <2>1, <4>1, <4>2 DEF Performed
    <3>2. ASSUME Found(t, Top), t.idempotency[Scope(t, q)].code = "ok"
          PROVE  Top.id \in DOMAIN t.effects /\ HandedOut(t, Top.op, t.idempotency[Scope(t, q)].payload)
      <4>1. q.op \in Public \union SelfDestructive \/ t.tokens[q.token] = srv.tokens[q.token]
        BY <1>2, <1>7, <3>2, <2>8 DEF Known
      <4>2. Scope(t, q) = sc
        BY <4>1, ScopeStays
      <4>3. r.code = "ok" /\ t.idempotency[sc].payload = r.payload
        BY <1>12, <3>2, <4>2 DEF Performed
      <4>4. QED
        BY <2>5, <2>6, <4>2, <4>3
    <3>3. QED
      BY <3>1, <3>2 DEF TopKnown, q
  <2>11. Told(t)
    BY <2>6 DEF Seen, Told
  <2>12. ServerOK(t)
    BY <1>12 DEF Performed
  <2>13. Top.op # "entitlements"
    BY <2>1 DEF Mutating, ReadOnly
  <2>14. QED
    BY <2>5, <2>6, <2>7, <2>9, <2>10, <2>11, <2>12, <2>13 DEF Seen, Truth
<1>13. QED
  BY <1>8, <1>9, <1>10, <1>11, <1>12

\* What an action makes of the session, of the events and of the stack.
Cleared == token' = None /\ expires' = 0 /\ cache' = {} /\ UNCHANGED <<account, reservations>>

Logs(row) ==
    /\ row \in EventRows /\ row.id \notin executed
    /\ row.outcome = "succeeded" /\ Mutating(row.op)
         => row.id \in DOMAIN srv'.effects \/ row.op = "release"
    /\ executed' = executed \union {row.id} /\ row.id \in 1 .. started'
    /\ events' = events \/ events' = Append(events, row)

\* The part of the session that is of the client alone, and the part that is
\* measured against the server.
Own ==
    /\ expires \in Nat /\ account \in Accounts \union {None}
    /\ cache # {} => token # None /\ \A e \in cache : e.owner = account
Record ==
    /\ clock \in Nat /\ started \in Nat
    /\ executed \subseteq 1 .. started
    /\ events \in Seq(EventRows)
Queue(s) == CallsKnown(s) /\ TopKnown(s)

LEMMA Parts ==
    /\ ClientInv <=> /\ StackOK /\ Own /\ Record
                     /\ ServerOK(srv) /\ Queue(srv) /\ Agreed(srv) /\ Told(srv)
    /\ ClientInv' <=> /\ StackOK' /\ Own' /\ Record'
                      /\ ServerOK(srv') /\ Queue(srv)' /\ Agreed(srv)' /\ Told(srv)'
BY DEF ClientInv, SessionOK, Own, Record, Seen, Queue

\* The events: an action that logs nothing, and one that logs a row.
LEMMA QuietKeeps ==
    ASSUME Record, Told(srv'), events' = events, executed' = executed,
           started' \in Nat, started <= started', clock' \in Nat
    PROVE  Record' /\ Told(srv)'
BY DEF Record, Told

LEMMA LogKeeps ==
    ASSUME Record, Told(srv'), NEW row, Logs(row),
           started' \in Nat, started <= started', clock' \in Nat
    PROVE  Record' /\ Told(srv)'
<1>1. executed' \subseteq 1 .. started'
  <2>1. 1 .. started \subseteq 1 .. started'
    BY DEF Record
  <2>2. QED
    BY <2>1 DEF Record, Logs
<1>2. CASE events' = events
  BY <1>1, <1>2 DEF Record, Told, Logs
<1>3. CASE events' = Append(events, row)
  <2>1. events' \in Seq(EventRows)
    BY <1>3 DEF Record, Logs
  <2>2. /\ Len(events) \in Nat /\ DOMAIN events = 1 .. Len(events)
        /\ DOMAIN events' = 1 .. Len(events) + 1
        /\ events'[Len(events) + 1] = row
        /\ \A n \in DOMAIN events : events'[n] = events[n]
    BY <1>3, AppendProperties DEF Record, Logs
  <2>3. \A n \in DOMAIN events' : n \in DOMAIN events \/ n = Len(events) + 1
    BY <2>2
  <2>4. \A n \in DOMAIN events : events[n].id \in executed /\ events[n].id # row.id
    BY DEF Told, Logs
  <2>5. executed \subseteq executed' /\ row.id \in executed'
    BY DEF Logs
  <2>6. ASSUME NEW n \in DOMAIN events'
        PROVE  /\ events'[n].id \in executed'
               /\ events'[n].outcome = "succeeded" /\ Mutating(events'[n].op)
                    => events'[n].id \in DOMAIN srv'.effects \/ events'[n].op = "release"
               /\ \A m \in DOMAIN events' : events'[m].id = events'[n].id => m = n
    <3>1. CASE n = Len(events) + 1
      BY <3>1, <2>2, <2>3, <2>4, <2>5 DEF Logs
    <3>2. CASE n \in DOMAIN events
      BY <3>2, <2>2, <2>3, <2>4, <2>5 DEF Told
    <3>3. QED
      BY <2>3, <3>1, <3>2
  <2>7. Told(srv)'
    BY <2>6 DEF Told
  <2>8. QED
    BY <1>1, <2>1, <2>7 DEF Record
<1>4. QED
  BY <1>2, <1>3 DEF Logs

\* The session: as it was, cleared, or as a success leaves it.
LEMMA SameSession ==
    ASSUME Own, Agreed(srv'), UNCHANGED session
    PROVE  Own' /\ Agreed(srv)'
BY DEF Own, Agreed, session

LEMMA ClearedSession ==
    ASSUME ServerConstants, Own, Agreed(srv'), ServerOK(srv'), Cleared
    PROVE  Own' /\ Agreed(srv)'
<1>1. None \notin DOMAIN srv'.tokens
  BY DEF ServerOK, TokensOK, ServerConstants
<1>2. QED
  BY <1>1 DEF Own, Agreed, Cleared

LEMMA SuccessSession ==
    ASSUME ServerConstants, Own, Agreed(srv'), ServerOK(srv'), NEW op, NEW body, NEW out,
           AfterSuccess(op, body, out), HandedOut(srv', op, out),
           op = "entitlements" => token # None
    PROVE  Own' /\ Agreed(srv)'
<1>1. None \notin DOMAIN srv'.tokens /\ None \notin 1 .. srv'.minted
  BY DEF ServerOK, TokensOK, ServerConstants
<1>2. CASE op \in Public
  <2>1. account' = out.account /\ token' = out.token /\ expires' = out.expires /\ cache' = {}
        /\ reservations' = reservations
    BY <1>2 DEF AfterSuccess, Public, SelfDestructive
  <2>2. out.token \in 1 .. srv'.minted /\ out.account \in Accounts /\ out.expires \in Nat
        /\ (out.token \in DOMAIN srv'.tokens =>
              srv'.tokens[out.token] = [account |-> out.account, expires |-> out.expires])
    BY <1>2 DEF HandedOut
  <2>3. token' \in DOMAIN srv'.tokens => token' # None /\ srv'.tokens[token'].account = account'
          /\ expires' <= srv'.tokens[token'].expires
    BY <1>1, <2>1, <2>2
  <2>4. QED
    BY <2>1, <2>2, <2>3 DEF Own, Agreed
<1>3. CASE op = "refresh"
  <2>1. token' = out.token /\ expires' = out.expires /\ UNCHANGED <<account, cache, reservations>>
    BY <1>3 DEF AfterSuccess, Public, SelfDestructive
  <2>2. out.token \in 1 .. srv'.minted /\ out.account \in Accounts /\ out.expires \in Nat
        /\ (out.token \in DOMAIN srv'.tokens =>
              srv'.tokens[out.token] = [account |-> out.account, expires |-> out.expires])
        /\ out.account = account
    BY <1>3 DEF HandedOut
  <2>3. token' # None
    BY <1>1, <2>1, <2>2
  <2>4. token' \in DOMAIN srv'.tokens => srv'.tokens[token'].account = account'
          /\ expires' <= srv'.tokens[token'].expires
    BY <1>1, <2>1, <2>2
  <2>5. QED
    BY <2>1, <2>2, <2>3, <2>4 DEF Own, Agreed
<1>4. CASE op \in SelfDestructive
  <2>1. token' = None /\ expires' = 0 /\ cache' = {} /\ account' = None /\ reservations' = <<>>
    BY <1>4 DEF AfterSuccess, ClearSession, Public, SelfDestructive
  <2>2. QED
    BY <1>1, <2>1 DEF Own, Agreed
<1>5. CASE op = "entitlements"
  <2>1. cache' = {[owner |-> out.owner, at |-> clock]}
        /\ UNCHANGED <<token, expires, account, reservations>>
    BY <1>5 DEF AfterSuccess, Public, SelfDestructive
  <2>2. out.owner = account /\ token # None
    BY <1>5 DEF HandedOut
  <2>3. QED
    BY <2>1, <2>2 DEF Own, Agreed
<1>6. CASE op = "reserve"
  <2>1. reservations' = Put(reservations, out.rid, out.expires)
        /\ UNCHANGED <<token, expires, account, cache>>
    BY <1>6 DEF AfterSuccess, Public, SelfDestructive
  <2>2. out.rid \in 1 .. srv'.reserved
    BY <1>6 DEF HandedOut
  <2>3. DOMAIN reservations' = DOMAIN reservations \union {out.rid}
    BY <2>1 DEF Put
  <2>4. QED
    BY <2>1, <2>2, <2>3 DEF Own, Agreed
<1>7. CASE op \in {"commit", "release"}
  <2>1. reservations' = Without(reservations, body) /\ UNCHANGED <<token, expires, account, cache>>
    BY <1>7 DEF AfterSuccess, Public, SelfDestructive
  <2>2. DOMAIN reservations' = DOMAIN reservations \ {body}
    BY <2>1 DEF Without, Restrict
  <2>3. QED
    BY <2>1, <2>2 DEF Own, Agreed
<1>8. CASE op \notin Public \union SelfDestructive \union {"refresh", "entitlements", "reserve", "commit", "release"}
  <2>1. UNCHANGED session
    BY <1>8 DEF AfterSuccess
  <2>2. QED
    BY <2>1, SameSession
<1>9. QED
  BY <1>2, <1>3, <1>4, <1>5, <1>6, <1>7, <1>8

\* The stack: at its end, and with no call on it that the server may know.
LEMMA EmptyStack ==
    ASSUME Queue(srv'), started' \in Nat, started \in Nat, started <= started', stack' = <<>>
    PROVE  StackOK' /\ Queue(srv)'
<1>1. DOMAIN stack' = {} /\ Len(stack') = 0 /\ stack' \in Seq(Frames)
  BY ONLY stack' = <<>>
<1>2. StackOK'
  BY <1>1 DEF StackOK
<1>3. CallsKnown(srv)'
  BY <1>1 DEF Queue, CallsKnown
<1>4. TopKnown(srv)'
  BY DEF TopKnown
<1>5. QED
  BY <1>2, <1>3, <1>4 DEF Queue

\* A call that was never sent is on top: the server knows nothing of it.
LEMMA FreshTop ==
    ASSUME CallsKnown(srv'),
           \E n \in DOMAIN stack : Unsent(n) /\ Top'.id = stack[n].id
    PROVE  TopKnown(srv)'
<1> DEFINE q == Request(Top)'
<1>0. PICK n \in DOMAIN stack : Unsent(n) /\ Top'.id = stack[n].id
  OBVIOUS
<1>1. Top'.id \notin DOMAIN srv'.effects
  BY <1>0 DEF CallsKnown
<1>2. \A scope \in DOMAIN srv'.idempotency : KeyOf(scope) # Top'.id
  BY <1>0 DEF CallsKnown
<1>3. Mutating(Top'.op) => q.key = Top'.id
  BY DEF Request
<1> HIDE DEF q
<1>4. Mutating(Top'.op) => Scope(srv', q) \notin DOMAIN srv'.idempotency
  BY <1>2, <1>3, ScopeKey
<1>5. Mutating(Top'.op) => Scope(srv', Request(Top)') \notin DOMAIN srv'.idempotency
  BY <1>4 DEF q
<1>6. ~ Found(srv, Top)'
  BY <1>5 DEF Found
<1>7. QED
  BY <1>1, <1>6 DEF TopKnown

\* Another attempt of the call on top.
Again(frames, n) == [frames EXCEPT ![n].attempt = @ + 1]
LEMMA AgainIs ==
    ASSUME NEW frames \in Seq(Frames), NEW n \in DOMAIN frames, frames[n].attempt + 1 < MaxAttempts,
           MaxAttempts \in Nat
    PROVE  LET more == Again(frames, n)
           IN  /\ more \in Seq(Frames) /\ Len(more) = Len(frames) /\ DOMAIN more = DOMAIN frames
               /\ \A m \in DOMAIN frames : more[m].op = frames[m].op /\ more[m].body = frames[m].body
                     /\ more[m].id = frames[m].id /\ more[m].pc = frames[m].pc
<1> DEFINE row == frames[n]
           next == row.attempt + 1
           new == [row EXCEPT !.attempt = next]
           more == Again(frames, n)
<1>1. row \in Frames
  BY ElementOfSeq
<1>6. next \in 0 .. MaxAttempts - 1
  <2>1. row.attempt \in 0 .. MaxAttempts - 1
    BY <1>1 DEF Frames
  <2>2. QED
    BY <2>1
<1>7. more = [frames EXCEPT ![n] = new]
  BY DEF Again
<1> HIDE DEF next
<1>2. new \in Frames /\ new.op = row.op /\ new.body = row.body /\ new.id = row.id /\ new.pc = row.pc
  BY <1>1, <1>6 DEF Frames
<1>3. more = [frames EXCEPT ![n] = new]
  BY <1>7
<1> HIDE DEF new, more
<1>4. more \in Seq(Frames) /\ Len(more) = Len(frames) /\ DOMAIN more = DOMAIN frames
      /\ more[n] = new /\ \A m \in DOMAIN frames : m # n => more[m] = frames[m]
  BY <1>2, <1>3, ExceptSeq
<1>5. QED
  BY <1>2, <1>4 DEF more, new, next

LEMMA RetryKeeps ==
    ASSUME ClientConstants, StackOK, Sending, Queue(srv'),
           Top.attempt + 1 < MaxAttempts, stack' = Again(stack, Len(stack)),
           UNCHANGED <<session, started, executed>>
    PROVE  StackOK' /\ Queue(srv)'
<1>1. Len(stack) \in DOMAIN stack /\ stack \in Seq(Frames) /\ MaxAttempts \in Nat
  BY TopIs DEF Sending, StackOK, ClientConstants
<1>2. /\ stack' \in Seq(Frames) /\ Len(stack') = Len(stack) /\ DOMAIN stack' = DOMAIN stack
      /\ \A m \in DOMAIN stack : stack'[m].op = stack[m].op /\ stack'[m].body = stack[m].body
            /\ stack'[m].id = stack[m].id /\ stack'[m].pc = stack[m].pc
  BY <1>1, AgainIs DEF Top
<1>3. stack' # <<>> /\ Top'.op = Top.op /\ Top'.id = Top.id /\ Top'.pc = "send" /\ Top'.body = Top.body
  BY <1>1, <1>2 DEF Top, Sending
<1>4. StackOK'
  BY <1>1, <1>2 DEF StackOK
<1>5. CallsKnown(srv)'
  BY <1>1, <1>2 DEF Queue, CallsKnown, Unsent
<1>6. Request(Top)' = Request(Top)
  BY <1>3 DEF Request, session
<1>7. TopKnown(srv')
  BY DEF Queue
<1>8. Found(srv, Top)' <=> Found(srv', Top)
  BY <1>3, <1>6 DEF Found, session
<1>9. \A op, out : HandedOut(srv, op, out)' <=> HandedOut(srv', op, out)
  BY DEF HandedOut, session
<1>10. TopKnown(srv)'
  BY <1>3, <1>6, <1>7, <1>8, <1>9 DEF TopKnown, Sending
<1>11. QED
  BY <1>4, <1>5, <1>10 DEF Queue

FailedRow(frame) == [id |-> frame.id, op |-> frame.op, outcome |-> "failed"]
SucceededRow(frame) == [id |-> frame.id, op |-> frame.op, outcome |-> "succeeded"]

\* The call on top ends, and every call with it.
LEMMA FailKeeps ==
    ASSUME ServerConstants, StackOK, Own, Record, ServerOK(srv'), Queue(srv'), Agreed(srv'),
           Told(srv'), Sending, NEW code, FailCall(code), UNCHANGED <<clock, started>>,
           UNCHANGED session \/ Cleared
    PROVE  ClientInv'
<1> DEFINE row == FailedRow(Top)
<1>1. Top \in Frames /\ Top.id \in 1 .. started /\ Top.id \notin executed
  BY TopIs DEF Sending
<1>2. row \in EventRows /\ row.id = Top.id /\ row.outcome = "failed"
  BY <1>1 DEF FailedRow, EventRows, Frames, Record
<1>3. events' = events \/ events' = Append(events, row)
  BY DEF FailCall, PublishEvent, FailedRow
<1>4. executed' = executed \union {Top.id} /\ stack' = <<>>
  BY DEF FailCall
<1> HIDE DEF row
<1>5. Logs(row)
  BY <1>1, <1>2, <1>3, <1>4 DEF Logs
<1>6. started' \in Nat /\ started \in Nat /\ started <= started' /\ clock' \in Nat
  BY DEF Record
<1>7. Record' /\ Told(srv)'
  BY <1>5, <1>6, LogKeeps
<1>8. Own' /\ Agreed(srv)'
  BY SameSession, ClearedSession
<1>9. StackOK' /\ Queue(srv)'
  BY <1>4, <1>6, EmptyStack
<1>10. QED
  BY <1>7, <1>8, <1>9, Parts

\* An attempt without an answer: another one, or the end.
LEMMA TryKeeps ==
    ASSUME ServerConstants, ClientConstants, StackOK, Own, Record, ServerOK(srv'), Queue(srv'),
           Agreed(srv'), Told(srv'), Sending, NEW code, TryAgain(code),
           UNCHANGED <<clock, started, session>>
    PROVE  ClientInv'
<1>1. CASE Top.attempt + 1 < MaxAttempts
  <2>1. stack' = Again(stack, Len(stack)) /\ UNCHANGED <<events, executed>>
    BY <1>1 DEF TryAgain, Again
  <2>2. StackOK' /\ Queue(srv)'
    BY <1>1, <2>1, RetryKeeps
  <2>3. started' \in Nat /\ started <= started' /\ clock' \in Nat
    BY DEF Record
  <2>4. Record' /\ Told(srv)'
    BY <2>1, <2>3, QuietKeeps
  <2>5. Own' /\ Agreed(srv)'
    BY SameSession
  <2>6. QED
    BY <2>2, <2>4, <2>5, Parts
<1>2. CASE ~ (Top.attempt + 1 < MaxAttempts)
  <2>1. FailCall(code)
    BY <1>2 DEF TryAgain
  <2>2. QED
    BY <2>1, FailKeeps
<1>3. QED
  BY <1>1, <1>2

\* A step of the transport: the server handles the request, or nothing reaches it.
LEMMA Delivered ==
    ASSUME ServerConstants, ClientInv, Sending,
           srv' = srv \/ srv' = Handle(srv, Request(Top), clock).srv
    PROVE  StackOK /\ Own /\ Record /\ ServerOK(srv') /\ Queue(srv') /\ Agreed(srv') /\ Told(srv')
<1>1. StackOK /\ SessionOK /\ Seen(srv) /\ Own /\ Record
  BY Parts DEF ClientInv
<1>2. Seen(Handle(srv, Request(Top), clock).srv)
  BY <1>1, AfterHandle
<1>3. Seen(srv')
  BY <1>1, <1>2
<1>4. QED
  BY <1>1, <1>3 DEF Seen, Queue

LEMMA UnansweredKeeps ==
    ASSUME ServerConstants, ClientConstants, ClientInv, Unanswered
    PROVE  ClientInv'
<1>1. Sending /\ TryAgain("unreachable") /\ UNCHANGED <<clock, started, session>>
      /\ (srv' = srv \/ srv' = Handle(srv, Request(Top), clock).srv)
  BY DEF Unanswered, Sending, AtRest
<1>2. StackOK /\ Own /\ Record /\ ServerOK(srv') /\ Queue(srv') /\ Agreed(srv') /\ Told(srv')
  BY <1>1, Delivered
<1>3. QED
  BY <1>1, <1>2, TryKeeps

LEMMA OverloadedKeeps ==
    ASSUME ServerConstants, ClientConstants, ClientInv, Overloaded
    PROVE  ClientInv'
<1>1. Sending /\ TryAgain("server_error") /\ UNCHANGED <<clock, started, session>> /\ srv' = srv
  BY DEF Overloaded, Sending, AtRest
<1>2. StackOK /\ Own /\ Record /\ ServerOK(srv') /\ Queue(srv') /\ Agreed(srv') /\ Told(srv')
  BY <1>1, Delivered
<1>3. QED
  BY <1>1, <1>2, TryKeeps

LEMMA GarbledKeeps ==
    ASSUME ServerConstants, ClientInv, Garbled
    PROVE  ClientInv'
<1>1. Sending /\ UNCHANGED <<clock, started, session>>
      /\ srv' = Handle(srv, Request(Top), clock).srv
      /\ (FailCall("garbled") \/ FailCall("malformed"))
  BY DEF Garbled, Sending, AtRest
<1>2. StackOK /\ Own /\ Record /\ ServerOK(srv') /\ Queue(srv') /\ Agreed(srv') /\ Told(srv')
  BY <1>1, Delivered
<1>3. UNCHANGED <<clock, started>> /\ UNCHANGED session
  BY <1>1
<1>4. ASSUME NEW code, FailCall(code) PROVE ClientInv'
  BY <1>1, <1>2, <1>3, <1>4, FailKeeps
<1>5. QED
  BY <1>1, <1>4

\* The call on top succeeded and the call below it goes on: nothing of it was sent.
LEMMA PopKeeps ==
    ASSUME StackOK, Queue(srv'), Len(stack) = 2, stack' = SubSeq(stack, 1, Len(stack) - 1),
           executed' = executed \union {Top.id}, UNCHANGED started
    PROVE  StackOK' /\ Queue(srv)'
<1>1. stack \in Seq(Frames) /\ DOMAIN stack = 1 .. 2 /\ Top = stack[2]
  BY DEF StackOK, Top
<1>2. stack' \in Seq(Frames) /\ Len(stack') = 1 /\ DOMAIN stack' = {1} /\ stack'[1] = stack[1]
  <2>1. stack' = SubSeq(stack, 1, 1)
    OBVIOUS
  <2>2. stack' \in Seq(Frames) /\ Len(stack') = 1 /\ stack'[1] = stack[1]
    BY <1>1, <2>1, SubSeqProperties
  <2>3. QED
    BY <2>2
<1>3. stack[1].pc = "send" /\ stack[1].id # Top.id
  BY <1>1 DEF StackOK
<1>4. StackOK'
  BY <1>1, <1>2, <1>3 DEF StackOK
<1>5. CallsKnown(srv)'
  BY <1>1, <1>2, <1>3 DEF Queue, CallsKnown, Unsent
<1>6. (\E n \in DOMAIN stack : Unsent(n) /\ Top'.id = stack[n].id) /\ CallsKnown(srv')
  BY <1>1, <1>2 DEF Unsent, Top, Queue
<1>7. TopKnown(srv)'
  BY <1>6, FreshTop
<1>8. QED
  BY <1>4, <1>5, <1>7 DEF Queue

LEMMA AnsweredKeeps ==
    ASSUME ServerConstants, ClientConstants, ClientInv, Answered
    PROVE  ClientInv'
<1> DEFINE r == Handle(srv, Request(Top), clock)
<1>1. Sending /\ UNCHANGED <<clock, started>> /\ srv' = r.srv
  BY DEF Answered, Sending, AtRest
<1>2. StackOK /\ Own /\ Record /\ ServerOK(srv') /\ Queue(srv') /\ Agreed(srv') /\ Told(srv')
  BY <1>1, Delivered
<1>3. Truth(r)
  BY <1>1, AfterHandle DEF ClientInv
<1>4. CASE r.code = "ok"
  <2> DEFINE row == SucceededRow(Top)
  <2>1. AfterSuccess(Top.op, Top.body, r.payload) /\ executed' = executed \union {Top.id}
    BY <1>4 DEF Answered, AuthCodes
  <2>2. \/ events' = Append(events, row) /\ stack' = SubSeq(stack, 1, Len(stack) - 1)
        \/ events' = events /\ stack' = <<>>
    BY <1>4 DEF Answered, SucceededRow, AuthCodes
  <2>3. HandedOut(srv', Top.op, r.payload) /\ (Top.op = "entitlements" => token # None)
        /\ (Mutating(Top.op) => Top.id \in DOMAIN srv'.effects)
    BY <1>1, <1>3, <1>4 DEF Truth
  <2> HIDE DEF r
  <2>4. Own' /\ Agreed(srv)'
    BY <1>2, <2>1, <2>3, SuccessSession
  <2>5. Top \in Frames /\ Top.id \in 1 .. started /\ Top.id \notin executed /\ Len(stack) \in 1 .. 2
    BY <1>1, <1>2, TopIs DEF Sending
  <2>6. row \in EventRows /\ row.id = Top.id /\ row.op = Top.op
    BY <1>2, <2>5 DEF SucceededRow, EventRows, Frames, Record
  <2> HIDE DEF row
  <2>7. Logs(row)
    BY <1>1, <2>1, <2>2, <2>3, <2>5, <2>6 DEF Logs
  <2>8. started' \in Nat /\ started \in Nat /\ started <= started' /\ clock' \in Nat
    BY <1>1, <1>2 DEF Record
  <2>9. Record' /\ Told(srv)'
    BY <1>2, <2>7, <2>8, LogKeeps
  <2>10. StackOK' /\ Queue(srv)'
    <3>1. CASE stack' = <<>>
      BY <1>2, <2>8, <3>1, EmptyStack
    <3>2. CASE stack' = SubSeq(stack, 1, Len(stack) - 1) /\ Len(stack) = 1
      <4>1. stack' = <<>>
        BY <1>2, <3>2 DEF StackOK
      <4>2. QED
        BY <3>1, <4>1
    <3>3. CASE stack' = SubSeq(stack, 1, Len(stack) - 1) /\ Len(stack) = 2
      BY <1>1, <1>2, <2>1, <3>3, PopKeeps
    <3>4. QED
      BY <2>2, <2>5, <3>1, <3>2, <3>3
  <2>11. QED
    BY <1>2, <2>4, <2>9, <2>10, Parts
<1>5. CASE r.code \in AuthCodes
  <2>1. Cleared /\ FailCall(r.code)
    BY <1>5 DEF Answered, AuthCodes, Cleared, ClearSession
  <2>2. QED
    BY <1>1, <1>2, <2>1, FailKeeps
<1>6. CASE r.code \notin AuthCodes \union {"ok"}
  <2>1. UNCHANGED session /\ (TryAgain(r.code) \/ FailCall(r.code))
    BY <1>6 DEF Answered, AuthCodes
  <2>2. CASE TryAgain(r.code)
    BY <1>1, <1>2, <2>1, <2>2, TryKeeps
  <2>3. CASE FailCall(r.code)
    BY <1>1, <1>2, <2>1, <2>3, FailKeeps
  <2>4. QED
    BY <2>1, <2>2, <2>3
<1>7. QED
  BY <1>4, <1>5, <1>6

\* What a preflight that refuses leaves: nothing was sent, nothing is logged.
LEMMA RefuseKeeps ==
    ASSUME ServerConstants, ClientInv, NEW code, Refuse(code), UNCHANGED <<clock, srv, started>>,
           UNCHANGED session \/ Cleared
    PROVE  ClientInv'
<1>1. Own /\ Record /\ ServerOK(srv') /\ Queue(srv') /\ Agreed(srv') /\ Told(srv')
  BY Parts
<1>2. stack' = <<>> /\ events' = events /\ executed' = executed
  BY DEF Refuse
<1>3. started' \in Nat /\ started \in Nat /\ started <= started' /\ clock' \in Nat
  BY <1>1 DEF Record
<1>4. Record' /\ Told(srv)'
  BY <1>1, <1>2, <1>3, QuietKeeps
<1>5. Own' /\ Agreed(srv)'
  BY <1>1, SameSession, ClearedSession
<1>6. StackOK' /\ Queue(srv)'
  BY <1>1, <1>2, <1>3, EmptyStack
<1>7. QED
  BY <1>1, <1>4, <1>5, <1>6, Parts

\* The call on top goes to the transport.
Sent(frames, n) == [frames EXCEPT ![n].pc = "send"]
LEMMA SentIs ==
    ASSUME NEW frames \in Seq(Frames), NEW n \in DOMAIN frames
    PROVE  LET sent == Sent(frames, n)
           IN  /\ sent \in Seq(Frames) /\ Len(sent) = Len(frames) /\ DOMAIN sent = DOMAIN frames
               /\ sent[n].pc = "send" /\ \A m \in DOMAIN frames : m # n => sent[m] = frames[m]
               /\ \A m \in DOMAIN frames : sent[m].op = frames[m].op /\ sent[m].body = frames[m].body
                     /\ sent[m].id = frames[m].id
<1> DEFINE row == frames[n]
           new == [row EXCEPT !.pc = "send"]
           sent == Sent(frames, n)
<1>1. row \in Frames
  BY ElementOfSeq
<1>2. new \in Frames /\ new.op = row.op /\ new.body = row.body /\ new.id = row.id /\ new.pc = "send"
  BY <1>1 DEF Frames
<1>3. sent = [frames EXCEPT ![n] = new]
  BY DEF Sent
<1> HIDE DEF new, sent
<1>4. sent \in Seq(Frames) /\ Len(sent) = Len(frames) /\ DOMAIN sent = DOMAIN frames
      /\ sent[n] = new /\ \A m \in DOMAIN frames : m # n => sent[m] = frames[m]
  BY <1>2, <1>3, ExceptSeq
<1>5. QED
  BY <1>2, <1>4 DEF sent

LEMMA SendKeeps ==
    ASSUME ClientInv, stack # <<>>, Top.pc = "preflight", stack' = Sent(stack, Len(stack)),
           UNCHANGED <<clock, srv, session, started, events, executed>>
    PROVE  ClientInv'
<1>1. StackOK /\ Own /\ Record /\ ServerOK(srv') /\ Queue(srv') /\ Agreed(srv') /\ Told(srv')
  BY Parts
<1>2. stack \in Seq(Frames) /\ Len(stack) \in DOMAIN stack /\ Len(stack) \in 1 .. 2
      /\ DOMAIN stack = 1 .. Len(stack)
  BY <1>1, TopIs DEF StackOK
<1>3. /\ stack' \in Seq(Frames) /\ Len(stack') = Len(stack) /\ DOMAIN stack' = DOMAIN stack
      /\ stack'[Len(stack)].pc = "send"
      /\ \A m \in DOMAIN stack : m # Len(stack) => stack'[m] = stack[m]
      /\ \A m \in DOMAIN stack : stack'[m].op = stack[m].op /\ stack'[m].body = stack[m].body
            /\ stack'[m].id = stack[m].id
  BY <1>2, SentIs
<1>4. StackOK'
  BY <1>1, <1>2, <1>3 DEF StackOK
<1>5. Unsent(Len(stack))
  BY DEF Unsent, Top
<1>6. \A n \in DOMAIN stack : Unsent(n)' => Unsent(n)
  BY <1>2, <1>3 DEF Unsent
<1>7. CallsKnown(srv)'
  BY <1>1, <1>3, <1>6 DEF Queue, CallsKnown
<1>8. Top'.id = stack[Len(stack)].id /\ CallsKnown(srv')
  BY <1>1, <1>2, <1>3 DEF Top, Queue
<1>9. TopKnown(srv)'
  <2>1. \E n \in DOMAIN stack : Unsent(n) /\ Top'.id = stack[n].id
    BY <1>2, <1>5, <1>8
  <2>2. QED
    BY <1>8, <2>1, FreshTop
<1>10. started' \in Nat /\ started <= started' /\ clock' \in Nat
  BY <1>1 DEF Record
<1>11. Record' /\ Told(srv)'
  BY <1>1, <1>10, QuietKeeps
<1>12. Own' /\ Agreed(srv)'
  BY <1>1, SameSession
<1>13. QED
  BY <1>1, <1>4, <1>7, <1>9, <1>11, <1>12, Parts DEF Queue

LEMMA FrameIs ==
    ASSUME ClientConstants, NEW op \in Operations, NEW body \in Bodied, NEW id \in Nat
    PROVE  /\ Frame(op, body, id) \in Frames /\ Frame(op, body, id).op = op
           /\ Frame(op, body, id).body = body /\ Frame(op, body, id).id = id
           /\ Frame(op, body, id).pc = "preflight"
<1>1. 0 \in 0 .. MaxAttempts - 1
  BY DEF ClientConstants
<1>2. QED
  BY <1>1 DEF Frame, Frames

\* A refresh is put on top of the call that needs it.
LEMMA NestKeeps ==
    ASSUME ServerConstants, ClientConstants, ClientInv, stack # <<>>, Top.pc = "preflight",
           Top.op # "refresh", started' = started + 1,
           stack' = <<[Top EXCEPT !.pc = "send"], Frame("refresh", None, started + 1)>>,
           UNCHANGED <<clock, srv, session, events, executed>>
    PROVE  ClientInv'
<1> DEFINE below == [Top EXCEPT !.pc = "send"]
           above == Frame("refresh", None, started + 1)
<1>1. StackOK /\ Own /\ Record /\ ServerOK(srv') /\ Queue(srv') /\ Agreed(srv') /\ Told(srv')
  BY Parts
<1>2. stack \in Seq(Frames) /\ Len(stack) \in DOMAIN stack /\ Len(stack) \in 1 .. 2 /\ Top \in Frames
      /\ Top.id \in 1 .. started /\ Top.id \notin executed /\ (Top.op \in Public => Top.body \in Accounts)
  BY <1>1, TopIs DEF StackOK
<1>3. Len(stack) = 1
  BY <1>1, <1>2 DEF StackOK, Top
<1>4. below \in Frames /\ below.op = Top.op /\ below.body = Top.body /\ below.id = Top.id
      /\ below.pc = "send"
  BY <1>2 DEF Frames
<1>5. started \in Nat /\ started + 1 \in Nat /\ started + 1 \in 1 .. started'
      /\ 1 .. started \subseteq 1 .. started' /\ started + 1 \notin 1 .. started
      /\ started <= started' /\ started' \in Nat /\ clock' \in Nat
  BY <1>1 DEF Record
<1>6. above \in Frames /\ above.op = "refresh" /\ above.id = started + 1 /\ above.pc = "preflight"
  <2>1. "refresh" \in Operations /\ None \in Bodied
    BY DEF Operations, Bodied
  <2>2. QED
    BY <1>5, <2>1, FrameIs
<1> HIDE DEF below, above
<1>7. stack' = <<below, above>>
  BY DEF below, above
<1>8. stack' \in Seq(Frames) /\ Len(stack') = 2 /\ DOMAIN stack' = {1, 2}
      /\ stack'[1] = below /\ stack'[2] = above
  BY <1>4, <1>6, <1>7
<1>9. started + 1 \notin executed /\ Top.id # started + 1
  BY <1>1, <1>2, <1>5 DEF Record
<1>10. StackOK'
  BY <1>2, <1>4, <1>5, <1>6, <1>8, <1>9 DEF StackOK, Public
<1>11. Unsent(Len(stack)) /\ Top = stack[Len(stack)]
  BY DEF Unsent, Top
<1>12. CallsKnown(srv')
  BY <1>1 DEF Queue
<1>13. ASSUME NEW id \in 1 .. started, \A n \in DOMAIN stack : Unsent(n) => stack[n].id # id
       PROVE  id \in 1 .. started' /\ \A n \in DOMAIN stack' : stack'[n].id # id
  BY <1>2, <1>4, <1>5, <1>6, <1>8, <1>11, <1>13
<1>14. CallsKnown(srv)'
  <2>1. ASSUME NEW scope \in DOMAIN srv'.idempotency
        PROVE  KeyOf(scope) \in 1 .. started' /\ \A n \in DOMAIN stack' : stack'[n].id # KeyOf(scope)
    BY <1>12, <1>13 DEF CallsKnown
  <2>2. ASSUME NEW id \in DOMAIN srv'.effects
        PROVE  srv'.effects[id] = 1 /\ id \in 1 .. started' /\ \A n \in DOMAIN stack' : stack'[n].id # id
    BY <1>12, <1>13 DEF CallsKnown
  <2>3. QED
    BY <2>1, <2>2 DEF CallsKnown
<1>15. TopKnown(srv)'
  BY <1>6, <1>8 DEF TopKnown, Top
<1>16. Record' /\ Told(srv)'
  BY <1>1, <1>5, QuietKeeps
<1>17. Own' /\ Agreed(srv)'
  BY <1>1, SameSession
<1>18. QED
  BY <1>1, <1>10, <1>14, <1>15, <1>16, <1>17, Parts DEF Queue

LEMMA PreflightKeeps ==
    ASSUME ServerConstants, ClientConstants, ClientInv, Preflight
    PROVE  ClientInv'
<1>1. stack # <<>> /\ Top.pc = "preflight" /\ UNCHANGED <<clock, srv>>
  BY DEF Preflight, AtRest
<1>2. CASE Top.op \notin Public /\ token = None
  <2>1. Refuse("auth_invalid") /\ UNCHANGED session /\ UNCHANGED <<clock, srv, started>>
    BY <1>2 DEF Preflight
  <2>2. QED
    BY <2>1, RefuseKeeps
<1>3. CASE ~ (Top.op \notin Public /\ token = None) /\ Top.op \notin Public /\ clock >= expires
  <2>1. Refuse("auth_expired") /\ Cleared /\ UNCHANGED <<clock, srv, started>>
    BY <1>3 DEF Preflight, Cleared, ClearSession
  <2>2. QED
    BY <2>1, RefuseKeeps
<1>4. CASE /\ ~ (Top.op \notin Public /\ token = None)
           /\ ~ (Top.op \notin Public /\ clock >= expires)
           /\ Top.op \notin Public \union {"refresh"} /\ clock >= expires - Skew
  <2>1. /\ started' = started + 1 /\ Top.op # "refresh"
        /\ stack' = <<[Top EXCEPT !.pc = "send"], Frame("refresh", None, started + 1)>>
        /\ UNCHANGED <<clock, srv, session, events, executed>>
    BY <1>4 DEF Preflight
  <2>2. QED
    BY <1>1, <2>1, NestKeeps
<1>5. CASE /\ ~ (Top.op \notin Public /\ token = None)
           /\ ~ (Top.op \notin Public /\ clock >= expires)
           /\ ~ (Top.op \notin Public \union {"refresh"} /\ clock >= expires - Skew)
  <2>1. stack' = Sent(stack, Len(stack))
        /\ UNCHANGED <<clock, srv, session, started, events, executed>>
    BY <1>5 DEF Preflight, Sent
  <2>2. QED
    BY <1>1, <2>1, SendKeeps
<1>6. QED
  BY <1>2, <1>3, <1>4, <1>5

\* What the application asks is well formed.
LEMMA BodyIs ==
    ASSUME ServerOK(srv), NEW op \in Operations, NEW body \in Bodies(op)
    PROVE  body \in Bodied /\ (op \in Public => body \in Accounts)
<1>1. CASE op \in Public
  BY <1>1 DEF Bodies, Bodied, Public
<1>2. CASE op \in {"commit", "release"}
  <2>1. body \in 1 .. srv.reserved
    BY <1>2 DEF Bodies, Public
  <2>2. QED
    BY <1>2, <2>1 DEF ServerOK, UnitsOK, Bodied, Public
<1>3. CASE op = "revoke_key"
  <2>1. body \in 1 .. srv.registered_keys
    BY <1>3 DEF Bodies, Public
  <2>2. QED
    BY <1>3, <2>1 DEF ServerOK, UnitsOK, Bodied, Public
<1>4. CASE op \notin Public \union {"commit", "release", "revoke_key"}
  BY <1>4 DEF Bodies, Bodied
<1>5. QED
  BY <1>1, <1>2, <1>3, <1>4

LEMMA CallKeeps ==
    ASSUME ServerConstants, ClientConstants, ClientInv, NEW op \in Ops, NEW body \in Bodies(op),
           Call(op, body)
    PROVE  ClientInv'
<1> DEFINE frame == Frame(op, body, started + 1)
           next == started + 1
<1>1. StackOK /\ Own /\ Record /\ ServerOK(srv') /\ Queue(srv') /\ Agreed(srv') /\ Told(srv')
  BY Parts DEF Call
<1>2. stack = <<>> /\ started' = next /\ clock' = clock /\ srv' = srv
  BY DEF Call, AtRest
<1>3. op \in Operations /\ body \in Bodied /\ (op \in Public => body \in Accounts)
  <2>1. op \in Operations /\ ServerOK(srv)
    BY Parts DEF ClientConstants
  <2>2. QED
    BY <2>1, BodyIs
<1>4. next \in Nat /\ next \in 1 .. started' /\ next \notin 1 .. started /\ started <= started'
      /\ 1 .. started \subseteq 1 .. started' /\ started' \in Nat /\ clock' \in Nat /\ started \in Nat
  BY <1>1, <1>2 DEF Record
<1>5. frame \in Frames /\ frame.op = op /\ frame.body = body /\ frame.id = next
      /\ frame.pc = "preflight"
  BY <1>3, <1>4, FrameIs
<1>6. next \notin executed
  BY <1>1, <1>4 DEF Record
<1> HIDE DEF frame, next
<1>7. CASE Shortcut(op, body)
  <2> DEFINE row == [id |-> frame.id, op |-> op,
                     outcome |-> IF op = "release" THEN "succeeded" ELSE "failed"]
  <2>1. /\ reservations' = Without(reservations, body)
        /\ UNCHANGED <<token, expires, account, cache, stack>>
        /\ executed' = executed \union {frame.id}
        /\ (events' = events \/ events' = Append(events, row))
    BY <1>7 DEF Call, frame
  <2>2. row \in EventRows /\ row.id = next /\ row.op = op /\ (row.outcome = "succeeded" => op = "release")
    BY <1>3, <1>4, <1>5 DEF EventRows
  <2> HIDE DEF row
  <2>3. Logs(row)
    BY <1>4, <1>5, <1>6, <2>1, <2>2 DEF Logs
  <2>4. Record' /\ Told(srv)'
    BY <1>1, <1>4, <2>3, LogKeeps
  <2>5. DOMAIN reservations' \subseteq DOMAIN reservations
    BY <2>1 DEF Without, Restrict
  <2>6. Own' /\ Agreed(srv)'
    BY <1>1, <2>1, <2>5 DEF Own, Agreed
  <2>7. StackOK' /\ Queue(srv)'
    BY <1>1, <1>2, <1>4, <2>1, EmptyStack
  <2>8. QED
    BY <1>1, <2>4, <2>6, <2>7, Parts
<1>8. CASE ~ Shortcut(op, body)
  <2>1. stack' = <<frame>> /\ UNCHANGED session /\ events' = events /\ executed' = executed
    BY <1>8 DEF Call, frame
  <2>2. stack' \in Seq(Frames) /\ Len(stack') = 1 /\ DOMAIN stack' = {1} /\ stack'[1] = frame
    BY <1>5, <2>1
  <2>3. StackOK'
    BY <1>3, <1>4, <1>5, <1>6, <2>1, <2>2 DEF StackOK
  <2>4. CallsKnown(srv)'
    <3>1. CallsKnown(srv')
      BY <1>1 DEF Queue
    <3>2. ASSUME NEW id \in 1 .. started
          PROVE  id \in 1 .. started' /\ \A n \in DOMAIN stack' : stack'[n].id # id
      BY <1>4, <1>5, <2>2
    <3>3. QED
      BY <3>1, <3>2 DEF CallsKnown
  <2>5. TopKnown(srv)'
    BY <1>5, <2>2 DEF TopKnown, Top
  <2>6. Record' /\ Told(srv)'
    BY <1>1, <1>4, <2>1, QuietKeeps
  <2>7. Own' /\ Agreed(srv)'
    BY <1>1, <2>1, SameSession
  <2>8. QED
    BY <1>1, <2>3, <2>4, <2>5, <2>6, <2>7, Parts DEF Queue
<1>9. QED
  BY <1>7, <1>8

LEMMA TickKeeps ==
    ASSUME ClientInv, Tick
    PROVE  ClientInv'
<1>1. clock' \in Nat /\ UNCHANGED <<srv, session, stack, started, events, executed, told>>
  BY DEF ClientInv, SessionOK, Tick
<1>2. UNCHANGED <<srv, token, expires, account, cache, reservations, stack, started, events, executed>>
  BY <1>1 DEF session
<1>3. StackOK' /\ SessionOK'
  BY <1>1, <1>2 DEF ClientInv, StackOK, SessionOK
<1>4. CallsKnown(srv)' /\ Agreed(srv)' /\ Told(srv)' /\ ServerOK(srv')
  BY <1>2 DEF ClientInv, Seen, CallsKnown, Unsent, Agreed, Told
<1>5. TopKnown(srv)'
  BY <1>2, ZenonT(60) DEF ClientInv, Seen, TopKnown, Found, HandedOut, Top, Request
<1>6. QED
  BY <1>3, <1>4, <1>5 DEF ClientInv, Seen

LEMMA StillKeeps ==
    ASSUME ClientInv, UNCHANGED clientVars
    PROVE  ClientInv'
<1>1. UNCHANGED <<clock, srv, token, expires, account, cache, reservations, stack, started, events, executed>>
  BY DEF clientVars, session
<1>2. StackOK' /\ SessionOK'
  BY <1>1 DEF ClientInv, StackOK, SessionOK
<1>3. CallsKnown(srv)' /\ Agreed(srv)' /\ Told(srv)' /\ ServerOK(srv')
  BY <1>1 DEF ClientInv, Seen, CallsKnown, Unsent, Agreed, Told
<1>4. TopKnown(srv)'
  BY <1>1, ZenonT(60) DEF ClientInv, Seen, TopKnown, Found, HandedOut, Top, Request
<1>5. QED
  BY <1>2, <1>3, <1>4 DEF ClientInv, Seen

LEMMA ClientStarts ==
    ASSUME ServerConstants, ClientInit
    PROVE  ClientInv
<1>1. /\ ServerShape(srv) /\ srv.accounts = Accounts /\ srv.tokens = <<>> /\ srv.minted = 0
      /\ srv.idempotency = <<>> /\ srv.reservations = <<>> /\ srv.reserved = 0
      /\ srv.units = Units /\ srv.registered_keys = 0 /\ srv.committed = {} /\ srv.effects = <<>>
  BY DEF ClientInit, EmptyServer, ServerShape, Fields
<1>2. DOMAIN <<>> = {}
  OBVIOUS
<1>3. TokensOK(srv)
  BY <1>1, <1>2 DEF TokensOK
<1>4. UnitsOK(srv)
  <2>1. Cardinality({}) = 0
    BY FS_EmptySet
  <2>2. Need * (0 + 0) = 0 /\ Units \in Int
    BY DEF ServerConstants
  <2>3. QED
    BY <1>1, <1>2, <2>1, <2>2 DEF UnitsOK
<1>5. CallsKnown(srv) /\ Agreed(srv)
  BY <1>1, <1>2 DEF CallsKnown, Agreed, ClientInit
<1>6. TopKnown(srv) /\ Told(srv)
  BY <1>2 DEF TopKnown, Told, ClientInit
<1>7. StackOK
  BY <1>2 DEF StackOK, ClientInit
<1>8. SessionOK
  BY DEF SessionOK, ClientInit
<1>9. QED
  BY <1>1, <1>3, <1>4, <1>5, <1>6, <1>7, <1>8 DEF ClientInv, Seen, ServerOK

LEMMA ClientStep ==
    ASSUME ServerConstants, ClientConstants, ClientInv, [ClientNext]_clientVars
    PROVE  ClientInv'
<1>1. ASSUME NEW op \in Ops, NEW body \in Bodies(op), Call(op, body) PROVE ClientInv'
  BY <1>1, CallKeeps
<1>2. CASE Preflight
  BY <1>2, PreflightKeeps
<1>3. CASE Unanswered
  BY <1>3, UnansweredKeeps
<1>4. CASE Overloaded
  BY <1>4, OverloadedKeeps
<1>5. CASE Garbled
  BY <1>5, GarbledKeeps
<1>6. CASE Answered
  BY <1>6, AnsweredKeeps
<1>7. CASE Tick
  BY <1>7, TickKeeps
<1>8. CASE UNCHANGED clientVars
  BY <1>8, StillKeeps
<1>9. QED
  BY <1>1, <1>2, <1>3, <1>4, <1>5, <1>6, <1>7, <1>8 DEF ClientNext

LEMMA ClientInvariance == ASSUME ServerConstants, ClientConstants PROVE ClientSpec => []ClientInv
<1>1. ClientInit => ClientInv
  BY ClientStarts
<1>2. ClientInv /\ [ClientNext]_clientVars => ClientInv'
  BY ClientStep
<1>3. QED
  BY <1>1, <1>2, PTL DEF ClientSpec

\* Client and server agree about the token, what is cached belongs to the
\* session, and the outcomes told happened, for any accounts, attempts, skews and
\* lifetimes, and however long the client is used.
THEOREM SessionStaysSound ==
    ASSUME ServerConstants, ClientConstants PROVE ClientSpec => []SessionSound
<1>1. ClientInv => SessionSound
  <2>1. SUFFICES ASSUME ClientInv PROVE SessionSound
    OBVIOUS
  <2>2. ClientTypeOK
    <3>1. token \in Nat \union {None}
      BY <2>1 DEF ClientInv, Seen, Agreed, ServerOK, TokensOK
    <3>2. ASSUME NEW n \in DOMAIN stack PROVE stack[n].attempt \in 0 .. (MaxAttempts - 1)
      <4>1. stack[n] \in Frames
        BY <2>1, ElementOfSeq DEF ClientInv, StackOK
      <4>2. QED
        BY <4>1 DEF Frames
    <3>3. QED
      BY <2>1, <3>1, <3>2 DEF ClientTypeOK, ClientInv, StackOK, SessionOK, Seen, Agreed
  <2>3. SessionAgrees
    BY <2>1 DEF SessionAgrees, ClientInv, Seen, Agreed
  <2>4. CacheOwned
    BY <2>1 DEF CacheOwned, ClientInv, SessionOK
  <2>5. EventTruth
    BY <2>1 DEF EventTruth, ClientInv, Seen, Told
  <2>6. QED
    BY <2>2, <2>3, <2>4, <2>5 DEF SessionSound
<1>2. QED
  BY <1>1, ClientInvariance, PTL

\* A call that is sent again after a lost reply takes effect once, and no unit of
\* quota is made or lost, for any number of calls and attempts and any units.
THEOREM EffectsHappenOnce ==
    ASSUME ServerConstants, ClientConstants PROVE ClientSpec => []EffectsOnce
<1>1. ClientInv => EffectsOnce
  BY DEF EffectsOnce, OneEffect, QuotaConserved, ClientInv, Seen, CallsKnown, ServerOK, UnitsOK
<1>2. QED
  BY <1>1, ClientInvariance, PTL

-----------------------------------------------------------------------------
(***************************************************************************)
(* The checks of payloads.  _value_ok walks a tree; by what the model says *)
(* ValueOK is a recursive function, so that there is one has to be proved  *)
(* first (WalkExists).  That the walk forgets nothing (WalkSound) is shown *)
(* at a refused value nearest to the root, and that it refuses nothing     *)
(* else (WalkComplete) at one farthest from it.                            *)
(***************************************************************************)

\* Every nonempty set of naturals has a least element.
LEMMA LeastNumber ==
    ASSUME NEW T \in SUBSET Nat, T # {}
    PROVE  \E m \in T : \A n \in T : m <= n
<1> DEFINE Below == {0 .. n : n \in T}
<1>1. \A n \in T : 0 .. n \in FiniteSubsetsOf(Nat)
  BY FS_Interval DEF FiniteSubsetsOf
<1>2. Below \subseteq FiniteSubsetsOf(Nat) /\ Below # {}
  BY <1>1
<1>3. IsWellFoundedOn(StrictSubsetOrdering(Nat), FiniteSubsetsOf(Nat))
  BY FS_StrictSubsetOrderingWellFounded
<1>4. PICK x \in Below : \A y \in Below : <<y, x>> \notin StrictSubsetOrdering(Nat)
  <2> HIDE DEF Below
  <2>1. QED
    BY <1>2, <1>3, WFMin
<1>5. PICK m \in T : x = 0 .. m
  BY <1>4
<1>6. ASSUME NEW n \in T, n < m
      PROVE  FALSE
  <2> DEFINE a == 0 .. n
             b == 0 .. m
  <2>1. a \in Below /\ a \subseteq b /\ a # b /\ a \in SUBSET Nat /\ b \in SUBSET Nat
    <3>1. m \notin 0 .. n /\ m \in 0 .. m
      BY <1>6
    <3>2. QED
      BY <1>6, <3>1
  <2> HIDE DEF a, b
  <2>2. <<a, b>> \in StrictSubsetOrdering(Nat)
    BY <2>1 DEF StrictSubsetOrdering
  <2>3. QED
    BY <1>4, <1>5, <2>1, <2>2 DEF b
<1>7. QED
  BY <1>6

KeyPaths == Seq(PathKeys)
Excused(path, declared) == IF path = <<>> THEN declared ELSE {}

\* One look at every value: what a walk takes for granted below it is f.
Looks(f, declared, isError) ==
    [path \in Nodes |->
        /\ NodeOK(path, Excused(path, declared), isError)
        /\ \A c \in Children(path) : f[c]]

\* The values at path and below it.
Below(path) == {q \in Nodes : Len(q) >= Len(path) /\ SubSeq(q, 1, Len(path)) = path}

LEMMA PathFacts ==
    ASSUME IsTree(payload), NEW p \in Nodes
    PROVE  /\ p \in KeyPaths /\ Len(p) \in Nat
           /\ SubSeq(p, 1, Len(p)) = p
           /\ p # <<>> => /\ Len(p) > 0 /\ Parent(p) \in Nodes
                          /\ Parent(p) \in KeyPaths
                          /\ Len(Parent(p)) = Len(p) - 1
                          /\ p \in Children(Parent(p))
           /\ \A c \in Children(p) : c \in Nodes /\ Len(c) = Len(p) + 1
           /\ IsFiniteSet(Children(p))
<1>1. p \in KeyPaths
  BY DEF IsTree, Nodes, KeyPaths
<1>2. SubSeq(p, 1, Len(p)) = p
  BY <1>1, SubSeqFull DEF KeyPaths
<1>3. p # <<>> => Len(p) > 0
  BY <1>1, EmptySeq DEF KeyPaths
<1>4. \A q \in Nodes : q # <<>> => /\ q \in KeyPaths /\ Len(q) > 0 /\ Parent(q) \in KeyPaths
                                   /\ Len(Parent(q)) = Len(q) - 1 /\ Parent(q) \in Nodes
  <2> TAKE q \in Nodes
  <2> HAVE q # <<>>
  <2>1. q \in KeyPaths
    BY DEF IsTree, Nodes, KeyPaths
  <2>2. Len(q) \in Nat \ {0}
    BY <2>1, EmptySeq DEF KeyPaths
  <2>3. Parent(q) \in KeyPaths /\ Len(Parent(q)) = Len(q) - 1
    <3>1. \A i \in 1 .. Len(q) - 1 : q[i] \in PathKeys
      BY <2>1, <2>2 DEF KeyPaths
    <3> DEFINE n == Len(q) - 1
    <3>2. n \in Nat
      BY <2>2
    <3> HIDE DEF n
    <3>3. /\ SubSeq(q, 1, n) \in KeyPaths
          /\ Len(SubSeq(q, 1, n)) = IF 1 <= n THEN n - 1 + 1 ELSE 0
      BY <3>1, <3>2, SubSeqProperties DEF KeyPaths, n
    <3>4. Len(SubSeq(q, 1, n)) = n
      BY <3>2, <3>3
    <3>5. QED
      BY <3>3, <3>4 DEF Parent, n
  <2>4. Len(q) - 1 \in 0..Len(q)
    BY <2>2
  <2>5. Parent(q) \in Nodes
    BY <2>4 DEF IsTree, Nodes, Parent
  <2>6. QED
    BY <2>1, <2>2, <2>3, <2>5
<1>5. \A c \in Children(p) : c \in Nodes /\ Len(c) = Len(p) + 1
  <2> TAKE c \in Children(p)
  <2>1. c \in Nodes /\ c # <<>> /\ Parent(c) = p
    BY DEF Children
  <2>2. Len(p) = Len(c) - 1 /\ c \in KeyPaths
    BY <1>4, <2>1
  <2>3. QED
    BY <2>1, <2>2 DEF KeyPaths
<1>6. IsFiniteSet(Children(p))
  BY FS_Subset DEF IsTree, Nodes, Children
<1>7. p # <<>> => p \in Children(Parent(p))
  BY DEF Children
<1>8. Len(p) \in Nat
  BY <1>1 DEF KeyPaths
<1>9. QED
  BY <1>1, <1>2, <1>3, <1>4, <1>5, <1>6, <1>7, <1>8

\* A value below another one is it or below one of its children.
LEMMA BelowIs ==
    ASSUME IsTree(payload), NEW p \in Nodes
    PROVE  \A q : q \in Below(p) <=> q = p \/ \E c \in Children(p) : q \in Below(c)
<1>1. p \in Below(p)
  BY PathFacts DEF Below
<1>2. ASSUME NEW c \in Children(p), NEW q \in Below(c)
      PROVE  q \in Below(p)
  <2>1. c \in Nodes /\ c \in KeyPaths /\ p \in KeyPaths /\ Len(c) = Len(p) + 1 /\ Parent(c) = p
    BY PathFacts DEF Children
  <2>2. q \in Nodes /\ q \in KeyPaths /\ Len(q) >= Len(c) /\ SubSeq(q, 1, Len(c)) = c
    BY PathFacts DEF Below
  <2>3. SubSeq(q, 1, Len(p)) \in KeyPaths /\ Len(SubSeq(q, 1, Len(p))) = Len(p)
    BY <2>1, <2>2 DEF KeyPaths
  <2>4. \A i \in 1..Len(p) : SubSeq(q, 1, Len(p))[i] = p[i]
    BY <2>1, <2>2 DEF KeyPaths, Parent
  <2>5. SubSeq(q, 1, Len(p)) = p
    BY <2>1, <2>3, <2>4, SeqEqual DEF KeyPaths
  <2>6. QED
    BY <2>1, <2>2, <2>5 DEF Below, KeyPaths
<1>3. ASSUME NEW q \in Below(p), q # p
      PROVE  \E c \in Children(p) : q \in Below(c)
  <2>1. p \in KeyPaths /\ q \in Nodes /\ q \in KeyPaths /\ Len(q) >= Len(p)
        /\ SubSeq(q, 1, Len(p)) = p /\ SubSeq(q, 1, Len(q)) = q
    BY PathFacts DEF Below
  <2>2. Len(p) \in Nat /\ Len(q) \in Nat /\ Len(q) > Len(p)
    BY <1>3, <2>1 DEF KeyPaths
  <2> DEFINE c == SubSeq(q, 1, Len(p) + 1)
  <2>3. c \in KeyPaths /\ Len(c) = Len(p) + 1
    BY <2>1, <2>2 DEF KeyPaths
  <2>4. c \in Nodes
    BY <2>1, <2>2 DEF IsTree, Nodes
  <2>5. Parent(c) \in KeyPaths /\ Len(Parent(c)) = Len(p)
    BY <2>2, <2>3 DEF Parent, KeyPaths
  <2>6. \A i \in 1..Len(p) : Parent(c)[i] = p[i]
    BY <2>1, <2>2, <2>3 DEF Parent, KeyPaths
  <2>7. Parent(c) = p
    BY <2>1, <2>5, <2>6, SeqEqual DEF KeyPaths
  <2>8. c # <<>>
    BY <2>2, <2>3
  <2>9. c \in Children(p) /\ q \in Below(c)
    BY <2>1, <2>2, <2>3, <2>4, <2>7, <2>8 DEF Children, Below
  <2>10. QED
    BY <2>9
<1>4. QED
  BY <1>1, <1>2, <1>3

\* There is a function that _value_ok computes: at each value, whether all that
\* stands at it and below it passes.
LEMMA WalkExists ==
    ASSUME IsTree(payload), NEW declared, NEW isError \in BOOLEAN
    PROVE  LET ok == ValueOK(declared, isError)
           IN  ok = Looks(ok, declared, isError)
<1> DEFINE Fine(q) == NodeOK(q, Excused(q, declared), isError)
           w == [path \in Nodes |-> \A q \in Below(path) : Fine(q)]
<1>1. \A p \in Nodes : w[p] = (Fine(p) /\ \A c \in Children(p) : w[c])
  <2> TAKE p \in Nodes
  <2> HIDE DEF Fine
  <2>1. \A c \in Children(p) : c \in Nodes
    BY PathFacts
  <2>2. QED
    BY <2>1, BelowIs
<1>2. w = Looks(w, declared, isError)
  <2> HIDE DEF Fine
  <2> DEFINE v == [path \in Nodes |-> Fine(path) /\ \A c \in Children(path) : w[c]]
  <2>1. w = v
    BY <1>1
  <2>2. QED
    BY <2>1 DEF Looks, Fine
<1> HIDE DEF w
<1>3. ValueOK(declared, isError) = CHOOSE ok : ok = Looks(ok, declared, isError)
  BY DEF ValueOK, Looks, Excused
<1>4. QED
  BY <1>2, <1>3

\* The walk forgets nothing.
LEMMA WalkSound ==
    ASSUME IsTree(payload), NEW declared, NEW isError \in BOOLEAN,
           ValueOK(declared, isError)[<<>>]
    PROVE  \A q \in Nodes : NodeOK(q, Excused(q, declared), isError)
<1> DEFINE ok == ValueOK(declared, isError)
<1>1. ok = Looks(ok, declared, isError)
  BY WalkExists
<1> HIDE DEF ok
<1>2. \A p \in Nodes : ok[p] =
         (/\ NodeOK(p, Excused(p, declared), isError)
          /\ \A c \in Children(p) : ok[c])
  BY <1>1 DEF Looks
<1> DEFINE Missed == {Len(q) : q \in {r \in Nodes : ~ok[r]}}
<1>3. ASSUME Missed # {} PROVE FALSE
  <2>1. Missed \subseteq Nat
    BY PathFacts
  <2>2. PICK m \in Missed : \A n \in Missed : m <= n
    BY <1>3, <2>1, LeastNumber
  <2>3. PICK q \in Nodes : ~ok[q] /\ m = Len(q)
    BY <2>2
  <2>4. q # <<>>
    BY <2>3 DEF ok
  <2>5. Parent(q) \in Nodes /\ Len(Parent(q)) < m /\ q \in Children(Parent(q))
    BY <2>3, <2>4, PathFacts
  <2>6. ~ok[Parent(q)]
    BY <1>2, <2>3, <2>5
  <2>7. Len(Parent(q)) \in Missed
    BY <2>5, <2>6
  <2>8. QED
    BY <2>1, <2>2, <2>5, <2>7
<1>4. \A q \in Nodes : ok[q]
  BY <1>3
<1>5. QED
  BY <1>2, <1>4

\* The walk refuses nothing else.
LEMMA WalkComplete ==
    ASSUME IsTree(payload), PayloadDepth \in Nat, NEW declared, NEW isError \in BOOLEAN,
           \A q \in Nodes : NodeOK(q, Excused(q, declared), isError)
    PROVE  ValueOK(declared, isError)[<<>>]
<1> DEFINE ok == ValueOK(declared, isError)
<1>1. ok = Looks(ok, declared, isError)
  BY WalkExists
<1> HIDE DEF ok
<1>2. \A p \in Nodes : ok[p] = \A c \in Children(p) : ok[c]
  BY <1>1 DEF Looks
<1> DEFINE Late == {PayloadDepth - Len(q) : q \in {r \in Nodes : ~ok[r]}}
<1>3. ASSUME Late # {} PROVE FALSE
  <2>1. \A q \in Nodes : Len(q) \in Nat /\ PayloadDepth - Len(q) \in Nat
    <3> TAKE q \in Nodes
    <3>1. Len(q) \in Nat /\ Len(q) <= PayloadDepth
      BY PathFacts DEF NodeOK
    <3>2. QED
      BY <3>1
  <2>2. Late \subseteq Nat
    BY <2>1
  <2>3. PICK m \in Late : \A n \in Late : m <= n
    BY <1>3, <2>2, LeastNumber
  <2>4. PICK q \in Nodes : ~ok[q] /\ m = PayloadDepth - Len(q)
    BY <2>3
  <2>5. PICK c \in Children(q) : ~ok[c]
    BY <1>2, <2>4
  <2>6. c \in Nodes /\ Len(c) = Len(q) + 1
    BY PathFacts
  <2>7. PayloadDepth - Len(c) \in Late /\ PayloadDepth - Len(c) < m
    BY <2>1, <2>4, <2>5, <2>6
  <2>8. m <= PayloadDepth - Len(c) /\ m \in Nat /\ PayloadDepth - Len(c) \in Nat
    BY <2>2, <2>3, <2>7
  <2>9. QED
    BY <2>7, <2>8
<1>4. <<>> \in Nodes
  BY DEF IsTree, Nodes
<1>5. QED
  BY <1>3, <1>4 DEF ok

\* A change leaves a payload a tree.
LEMMA StaysTree ==
    ASSUME ErrorsConstants, IsTree(payload), [PayloadNext]_payloadVars
    PROVE  IsTree(payload)'
<1>1. ASSUME NEW path \in Nodes, NEW what \in Leaves \union Containers,
             NEW key \in Keys \union {Item}, Add(path, key, what)
      PROVE  IsTree(payload)'
  <2> DEFINE new == Child(path, key)
             t == [p \in Nodes \union {new} |-> IF p \in Nodes THEN payload[p] ELSE what]
  <2>1. payload' = t /\ new \notin Nodes /\ payload[path] \in Containers
        /\ (payload[path] = "list" <=> key = Item)
    BY <1>1 DEF Add
  <2>2. path \in KeyPaths /\ Len(path) \in Nat
    BY PathFacts
  <2>3. new \in KeyPaths /\ Len(new) = Len(path) + 1 /\ new[Len(new)] = key
    <3>1. key \in PathKeys
      BY DEF PathKeys
    <3>2. QED
      BY <2>2, <3>1 DEF Child, KeyPaths
  <2>4. \A n \in 0..Len(path) : SubSeq(new, 1, n) = SubSeq(path, 1, n)
    <3> TAKE n \in 0..Len(path)
    <3>1. \A i \in 1..n : new[i] = path[i] /\ path[i] \in PathKeys
      BY <2>2 DEF Child, KeyPaths
    <3>2. /\ SubSeq(new, 1, n) \in KeyPaths /\ Len(SubSeq(new, 1, n)) = n
          /\ SubSeq(path, 1, n) \in KeyPaths /\ Len(SubSeq(path, 1, n)) = n
      BY <2>2, <3>1, SubSeqProperties DEF KeyPaths
    <3>3. \A i \in 1..n : SubSeq(new, 1, n)[i] = SubSeq(path, 1, n)[i]
      BY <2>2, <2>3, <3>1 DEF KeyPaths
    <3>4. QED
      BY <3>2, <3>3, SeqEqual DEF KeyPaths
  <2>5. SubSeq(path, 1, Len(path)) = path /\ SubSeq(new, 1, Len(new)) = new
    BY <2>2, <2>3, SubSeqFull DEF KeyPaths
  <2>6. Parent(new) = path
    BY <2>2, <2>3, <2>4, <2>5 DEF Parent
  <2> HIDE DEF new
  <2>7. DOMAIN t = Nodes \union {new} /\ \A p \in Nodes : t[p] = payload[p]
    OBVIOUS
  <2>8. t[new] = what
    BY <2>1
  <2> HIDE DEF t
  <2>9. IsFiniteSet(DOMAIN t) /\ <<>> \in DOMAIN t
    BY <2>7, FS_AddElement DEF IsTree, Nodes
  <2>10. ASSUME NEW p \in Nodes
         PROVE  /\ p \in Seq(PathKeys)
                /\ t[p] \in Leaves \union Containers
                /\ \A n \in 0..Len(p) : SubSeq(p, 1, n) \in DOMAIN t
                /\ p # <<>> =>
                    /\ t[Parent(p)] \in Containers
                    /\ t[Parent(p)] = "list" <=> LastKey(p) = Item
    <3>1. p # <<>> => Parent(p) \in Nodes
      BY PathFacts
    <3>2. QED
      BY <2>7, <3>1 DEF IsTree, Nodes
  <2>11. \A n \in 0..Len(new) : SubSeq(new, 1, n) \in DOMAIN t
    <3> TAKE n \in 0..Len(new)
    <3>1. CASE n = Len(new)
      BY <2>5, <2>7, <3>1
    <3>2. CASE n \in 0..Len(path)
      <4>1. SubSeq(path, 1, n) \in Nodes
        BY <3>2 DEF IsTree, Nodes
      <4>2. QED
        BY <2>4, <2>7, <3>2, <4>1
    <3>3. QED
      BY <2>2, <2>3, <3>1, <3>2
  <2>12. t[Parent(new)] \in Containers /\ (t[Parent(new)] = "list" <=> LastKey(new) = Item)
    BY <2>1, <2>3, <2>6, <2>7 DEF LastKey
  <2>13. QED
    BY <2>1, <2>3, <2>7, <2>8, <2>9, <2>10, <2>11, <2>12 DEF IsTree, KeyPaths
<1>2. ASSUME NEW path \in Nodes, NEW what \in Leaves \union Containers, Replace(path, what)
      PROVE  IsTree(payload)'
  <2>1. payload' = [payload EXCEPT ![path] = what] /\ payload[path] \notin Containers
    BY <1>2 DEF Replace
  <2>2. DOMAIN payload' = Nodes /\ payload'[path] = what
        /\ \A p \in Nodes : p # path => payload'[p] = payload[p]
    BY <2>1 DEF Nodes
  <2>3. ASSUME NEW p \in Nodes, p # <<>>
        PROVE  /\ payload'[Parent(p)] \in Containers
               /\ payload'[Parent(p)] = "list" <=> LastKey(p) = Item
    <3>1. Parent(p) \in Nodes /\ payload[Parent(p)] \in Containers
          /\ (payload[Parent(p)] = "list" <=> LastKey(p) = Item)
      BY <2>3, PathFacts DEF IsTree, Nodes
    <3>2. QED
      BY <2>1, <2>2, <3>1
  <2>4. QED
    BY <2>2, <2>3 DEF IsTree, Nodes
<1>3. CASE UNCHANGED payloadVars
  BY <1>3 DEF payloadVars, IsTree
<1>4. QED
  BY <1>1, <1>2, <1>3 DEF PayloadNext

LEMMA TreeInvariance == ASSUME ErrorsConstants PROVE PayloadSpec => []IsTree(payload)
<1>1. PayloadInit => IsTree(payload)
  BY DEF ErrorsConstants, PayloadInit
<1>2. IsTree(payload) /\ [PayloadNext]_payloadVars => IsTree(payload)'
  BY StaysTree
<1>3. QED
  BY <1>1, <1>2, PTL DEF PayloadSpec

\* What a payload that is let through has passed.
LEMMA AcceptedPasses ==
    ASSUME IsTree(payload), ErrorsConstants, NEW status \in Statuses, NEW op \in KnownOps,
           Accepted(status, op)
    PROVE  /\ status \in (200..299) \union (400..599)
           /\ \A q \in Nodes :
                 NodeOK(q, Excused(q, DeclaredFields(status, op)), status >= 400)
<1>1. /\ status \in (200..299) \union (400..599)
      /\ ValueOK(DeclaredFields(status, op), status >= 400)[<<>>]
  BY DEF Accepted, Classify
<1>2. (status >= 400) \in BOOLEAN
  OBVIOUS
<1>3. QED
  BY <1>1, <1>2, WalkSound

\* A key of the tree stands below an object or is the one of an element.
LEMMA KeysAreChecked ==
    ASSUME IsTree(payload), ErrorsConstants, NEW declared, NEW isError \in BOOLEAN,
           \A q \in Nodes : NodeOK(q, Excused(q, declared), isError),
           NEW p \in Nodes \ {<<>>}
    PROVE  LastKey(p) = Item \/ KeyOK(LastKey(p), Excused(Parent(p), declared), isError)
<1>1. /\ Parent(p) \in Nodes /\ p \in Children(Parent(p))
      /\ payload[Parent(p)] \in Containers
      /\ (payload[Parent(p)] = "list" <=> LastKey(p) = Item)
  BY PathFacts DEF IsTree, Nodes
<1>2. NodeOK(Parent(p), Excused(Parent(p), declared), isError)
  BY <1>1
<1>3. LastKey(p) # Item => payload[Parent(p)] = "dict"
  BY <1>1 DEF Containers
<1>4. QED
  BY <1>1, <1>2, <1>3 DEF NodeOK

LEMMA HiddenNowhere ==
    ASSUME IsTree(payload), ErrorsConstants
    PROVE  NothingHidden
<1> SUFFICES ASSUME NEW status \in Statuses, NEW op \in KnownOps, Accepted(status, op)
             PROVE  /\ \A path \in Nodes : payload[path] \notin {"surrogate", "placement"}
                    /\ \A path \in Nodes \ {<<>>} :
                         /\ LastKey(path) \notin ChessKeys
                         /\ LastKey(path) \in SecretKeys =>
                               Len(path) = 1 /\ status < 300 /\ op # "None"
                         /\ status >= 400 =>
                               LastKey(path) \notin RunKeys /\ payload[path] # "token run"
  BY DEF NothingHidden
<1> DEFINE declared == DeclaredFields(status, op)
           isError == status >= 400
<1>1. /\ status \in (200..299) \union (400..599)
      /\ \A q \in Nodes : NodeOK(q, Excused(q, declared), isError)
  BY AcceptedPasses
<1>2. isError \in BOOLEAN
  OBVIOUS
<1>3. declared # {} => status < 300 /\ op # "None"
  BY DEF DeclaredFields, ErrorsConstants
<1> HIDE DEF declared, isError
<1>4. ASSUME NEW q \in Nodes
      PROVE  /\ payload[q] \notin {"surrogate", "placement"}
             /\ isError => payload[q] # "token run"
  <2>1. payload[q] \in Leaves \union Containers
    BY DEF IsTree, Nodes
  <2>2. payload[q] \in {"surrogate", "placement", "token run"} =>
           payload[q] \in Texts \union Enum
    BY <2>1 DEF Leaves, Containers, Scalars
  <2>3. QED
    BY <1>1, <2>2 DEF NodeOK, TextOK
<1>5. ASSUME NEW p \in Nodes \ {<<>>}
      PROVE  /\ LastKey(p) \notin ChessKeys
             /\ LastKey(p) \in SecretKeys => Len(p) = 1 /\ declared # {}
             /\ isError => LastKey(p) \notin RunKeys
  <2>1. LastKey(p) = Item \/ KeyOK(LastKey(p), Excused(Parent(p), declared), isError)
    BY <1>1, <1>2, KeysAreChecked
  <2>2. Item \notin ChessKeys \union SecretKeys \union RunKeys
    BY DEF ErrorsConstants
  <2>3. Excused(Parent(p), declared) # {} => Parent(p) = <<>> /\ declared # {}
    BY DEF Excused
  <2>4. Len(Parent(p)) = Len(p) - 1 /\ Len(p) \in Nat
    BY PathFacts
  <2>5. Parent(p) = <<>> => Len(p) = 1
    BY <2>4
  <2>6. QED
    BY <2>1, <2>2, <2>3, <2>5 DEF KeyOK
<1>6. QED
  BY <1>3, <1>4, <1>5 DEF isError

LEMMA SuccessStatus ==
    ASSUME NEW status \in 200..299
    PROVE  status < 300 /\ status \in (200..299) \union (400..599) /\ ~(status >= 400)
OBVIOUS

LEMMA RefusalHasCause ==
    ASSUME IsTree(payload), ErrorsConstants
    PROVE  RefusedForCause
<1>0. SUFFICES ASSUME NEW op \in DOMAIN Declared,
                    NEW status \in Statuses, status \in 200..299,
                    ~Accepted(status, op), payload[<<>>] = "dict"
             PROVE  \E path \in Nodes :
                      \/ Len(path) > PayloadDepth \/ Cardinality(Children(path)) > MaxItems
                      \/ payload[path] \in {"surrogate", "placement", "nan", "other"}
                      \/ /\ path # <<>>
                         /\ \/ LastKey(path) \in ChessKeys
                            \/ /\ LastKey(path) \in SecretKeys
                               /\ path \notin {<<key>> : key \in Declared[op]}
  BY DEF RefusedForCause
<1>1. status < 300 /\ status \in (200..299) \union (400..599) /\ ~(status >= 400)
  BY <1>0, SuccessStatus
<1>2. DeclaredFields(status, op) = Declared[op] /\ (status >= 400) = FALSE
  BY <1>1 DEF DeclaredFields
<1>3. ~ValueOK(Declared[op], FALSE)[<<>>]
  <2>1. Classify(status, op) = <<"refused">>
    BY <1>0 DEF Accepted
  <2>2. <<"success">> # <<"refused">>
    OBVIOUS
  <2>3. QED
    BY <1>0, <1>1, <1>2, <2>1, <2>2 DEF Classify
<1>4. PICK q \in Nodes : ~NodeOK(q, Excused(q, Declared[op]), FALSE)
  BY <1>3, WalkComplete DEF ErrorsConstants
<1>5. Len(q) \in Nat /\ Cardinality(Children(q)) \in Nat
  BY PathFacts, FS_CardinalityType
<1>6. CASE \/ Len(q) > PayloadDepth \/ Cardinality(Children(q)) > MaxItems
           \/ payload[q] \in {"surrogate", "placement", "nan", "other"}
  BY <1>6
<1>7. CASE /\ Len(q) <= PayloadDepth /\ Cardinality(Children(q)) <= MaxItems
           /\ payload[q] \notin {"surrogate", "placement", "nan", "other"}
  <2>1. PICK c \in Children(q) : ~KeyOK(LastKey(c), Excused(q, Declared[op]), FALSE)
    BY <1>4, <1>7 DEF NodeOK, TextOK
  <2>2. c \in Nodes /\ c # <<>> /\ Parent(c) = q /\ Len(c) = Len(q) + 1
    BY PathFacts DEF Children
  <2>3. LastKey(c) \in ChessKeys
        \/ (LastKey(c) \in SecretKeys /\ LastKey(c) \notin Excused(q, Declared[op]))
    BY <2>1 DEF KeyOK
  <2>4. ASSUME NEW key \in Declared[op], c = <<key>>
        PROVE  LastKey(c) \in Excused(q, Declared[op])
    <3>1. Len(c) = 1
      BY <2>4
    <3>2. LastKey(c) = key
      BY <2>4, <3>1 DEF LastKey
    <3> DEFINE n == Len(q)
    <3>3. n \in Nat /\ 1 = n + 1
      BY <1>5, <2>2, <3>1
    <3> HIDE DEF n
    <3>4. n = 0
      BY <3>3
    <3>5. q = <<>>
      BY <3>4, PathFacts DEF n
    <3>6. QED
      BY <3>2, <3>5 DEF Excused
  <2>5. QED
    BY <2>2, <2>3, <2>4
<1>8. QED
  BY <1>5, <1>6, <1>7 DEF ErrorsConstants

\* No payload, however large and deep, is let through with chess content, a
\* placement or a secret at a place that does not declare it, and none is
\* refused as a success without a fault (PayloadsSound; classify, _value_ok).
THEOREM PayloadsStaySound == ASSUME ErrorsConstants PROVE PayloadSpec => []PayloadsSound
<1>1. IsTree(payload) => PayloadsSound
  BY HiddenNowhere, RefusalHasCause DEF PayloadsSound
<1>2. QED
  BY <1>1, TreeInvariance, ErrorsConstants, PTL

-----------------------------------------------------------------------------
(***************************************************************************)
(* Versions of the contract.  compare sees two neighbours; that what it    *)
(* demands of them holds of any two releases of a major version is an      *)
(* invariant (ReleasesInv), because additions add up (AdditiveIsOrder) and *)
(* major versions do not come back.                                        *)
(***************************************************************************)

\* What clients of the first contract may count on in the second.
Kept(old, new) == \A a \in DOMAIN old.ops : OpKept(old, new, a)

NotBefore(r, s) ==
    \/ r.doc.major < s.doc.major
    \/ r.doc.major = s.doc.major /\ r.minor <= s.minor

ReleasesInv ==
    /\ DOMAIN draft = {"major", "meta", "public", "readOnly", "ops"}
    /\ draft.major \in Majors /\ minor \in Nat
    /\ releases \in Seq({releases[i] : i \in DOMAIN releases})
    /\ \A i \in DOMAIN releases : releases[i].doc.major \in Majors /\ releases[i].minor \in Nat
    /\ \A i \in DOMAIN releases : \A j \in i..Len(releases) :
        /\ NotBefore(releases[i], releases[j])
        /\ releases[i].doc.major = releases[j].doc.major =>
              Kept(releases[i].doc, releases[j].doc)

LEMMA AdditiveIsOrder ==
    /\ \A f : AdditiveFields(f, f)
    /\ \A f, g, h : AdditiveFields(f, g) /\ AdditiveFields(g, h) => AdditiveFields(f, h)
<1>1. \A f : AdditiveFields(f, f)
  BY DEF AdditiveFields
<1>2. ASSUME NEW f, NEW g, NEW h, AdditiveFields(f, g), AdditiveFields(g, h)
      PROVE  AdditiveFields(f, h)
  <2>1. \A p \in DOMAIN f : p \in DOMAIN h /\ f[p] = h[p]
    BY <1>2 DEF AdditiveFields
  <2>2. ASSUME NEW p \in DOMAIN h \ DOMAIN f, Above(p) \in DOMAIN f \union {<<>>}
        PROVE  ~h[p].required
    <3>1. CASE p \in DOMAIN g
      BY <1>2, <2>2, <3>1 DEF AdditiveFields
    <3>2. CASE p \notin DOMAIN g
      <4>1. Above(p) \in DOMAIN g \union {<<>>}
        BY <1>2, <2>2 DEF AdditiveFields
      <4>2. QED
        BY <1>2, <3>2, <4>1 DEF AdditiveFields
    <3>3. QED
      BY <3>1, <3>2
  <2>3. QED
    BY <2>1, <2>2 DEF AdditiveFields
<1>3. QED
  BY <1>1, <1>2

LEMMA KeptIsOrder ==
    /\ \A d : Kept(d, d)
    /\ \A d, e, f : Kept(d, e) /\ Kept(e, f) => Kept(d, f)
<1>1. \A d : Kept(d, d)
  BY AdditiveIsOrder DEF Kept, OpKept
<1>2. ASSUME NEW d, NEW e, NEW f, Kept(d, e), Kept(e, f)
      PROVE  Kept(d, f)
  <2> SUFFICES ASSUME NEW a \in DOMAIN d.ops PROVE OpKept(d, f, a)
    BY DEF Kept
  <2>1. OpKept(d, e, a) /\ OpKept(e, f, a)
    BY <1>2 DEF Kept, OpKept
  <2>2. AdditiveFields(d.ops[a].request, f.ops[a].request)
    BY <2>1, AdditiveIsOrder DEF OpKept
  <2>3. AdditiveFields(d.ops[a].response, f.ops[a].response)
    BY <2>1, AdditiveIsOrder DEF OpKept
  <2>4. QED
    BY <2>1, <2>2, <2>3 DEF OpKept
<1>3. QED
  BY <1>1, <1>2

LEMMA CompatibleKeeps ==
    ASSUME NEW old, NEW new, NEW m, NEW n, old.major \in Nat, new.major \in Nat, m \in Nat, n \in Nat,
           Compare(old, new, m, n) = "compatible"
    PROVE  /\ old.major < new.major \/ (old.major = new.major /\ m <= n)
           /\ old.major = new.major => Kept(old, new)
<1>1. ~(new.major < old.major) /\ ~(new.major = old.major /\ n < m)
      /\ (new.major = old.major => SameMajor(old, new))
  BY DEF Compare
<1>2. new.major = old.major => Kept(old, new)
  BY <1>1 DEF SameMajor, Kept
<1>3. QED
  BY <1>1, <1>2

LEMMA EditsKeep ==
    ASSUME VersioningConstants, ReleasesInv, NEW doc, Edit(doc),
           DOMAIN doc = DOMAIN draft, doc.major = draft.major
    PROVE  ReleasesInv'
BY DEF Edit, ReleasesInv, Kept, NotBefore

LEMMA ReleaseKeeps ==
    ASSUME VersioningConstants, ReleasesInv, Release
    PROVE  ReleasesInv'
<1> DEFINE new == [doc |-> draft, minor |-> minor]
           N == Len(releases)
<1>1. releases' = Append(releases, new) /\ draft' = draft /\ minor' = minor
  BY DEF Release
<1>2. N \in Nat /\ DOMAIN releases = 1..N /\ Majors \subseteq Nat
  BY DEF ReleasesInv, VersioningConstants
<1>3. /\ Len(releases') = N + 1 /\ DOMAIN releases' = 1..(N + 1)
      /\ releases'[N + 1] = new /\ \A i \in 1..N : releases'[i] = releases[i]
  BY <1>1 DEF ReleasesInv
<1> HIDE DEF N
<1>4. ASSUME NEW i \in 1..N
      PROVE  /\ NotBefore(releases[i], new)
             /\ releases[i].doc.major = draft.major => Kept(releases[i].doc, draft)
  <2> DEFINE r == releases[i]
             l == releases[N]
  <2>1. N \in i..N /\ i \in DOMAIN releases /\ N \in DOMAIN releases
    BY <1>2
  <2>2. NotBefore(r, l) /\ (r.doc.major = l.doc.major => Kept(r.doc, l.doc))
    BY <2>1 DEF ReleasesInv, N
  <2>3. releases # <<>> /\ l = Latest
    BY <1>2, <2>1 DEF Latest, N
  <2>4. Compare(l.doc, draft, l.minor, minor) = "compatible"
    BY <2>3 DEF Release
  <2>5. /\ r.doc.major \in Nat /\ l.doc.major \in Nat /\ draft.major \in Nat
        /\ l.minor \in Nat /\ r.minor \in Nat /\ minor \in Nat
    BY <1>2, <2>1 DEF ReleasesInv
  <2>6. /\ l.doc.major < draft.major \/ (l.doc.major = draft.major /\ l.minor <= minor)
        /\ l.doc.major = draft.major => Kept(l.doc, draft)
    <3> HIDE DEF l
    <3>1. QED
      BY <2>4, <2>5, CompatibleKeeps
  <2> HIDE DEF r, l
  <2>7. r.doc.major < draft.major \/ (r.doc.major = draft.major /\ r.minor <= minor)
    BY <2>2, <2>5, <2>6 DEF NotBefore
  <2>8. r.doc.major = draft.major => r.doc.major = l.doc.major /\ l.doc.major = draft.major
    BY <2>2, <2>5, <2>6 DEF NotBefore
  <2>9. r.doc.major = draft.major => Kept(r.doc, draft)
    BY <2>2, <2>6, <2>8, KeptIsOrder
  <2>10. QED
    BY <2>7, <2>9 DEF NotBefore, r
<1>5. NotBefore(new, new) /\ Kept(new.doc, new.doc)
  BY KeptIsOrder DEF NotBefore, ReleasesInv
<1>6. releases' \in Seq({releases'[i] : i \in DOMAIN releases'})
  <2> DEFINE R == {releases'[i] : i \in DOMAIN releases'}
  <2>1. \A i \in 1..N : releases[i] \in R
    BY <1>2, <1>3
  <2>2. new \in R
    BY <1>2, <1>3
  <2> HIDE DEF R, new
  <2>3. releases \in Seq(R)
    BY <1>2, <2>1 DEF ReleasesInv
  <2>4. Append(releases, new) \in Seq(R)
    BY <2>2, <2>3
  <2>5. QED
    BY <1>1, <2>4 DEF R
<1>7. \A i \in DOMAIN releases' : releases'[i].doc.major \in Majors /\ releases'[i].minor \in Nat
  BY <1>2, <1>3 DEF ReleasesInv
<1>8. ASSUME NEW i \in DOMAIN releases', NEW j \in i..Len(releases')
      PROVE  /\ NotBefore(releases'[i], releases'[j])
             /\ releases'[i].doc.major = releases'[j].doc.major =>
                   Kept(releases'[i].doc, releases'[j].doc)
  <2>1. i \in 1..(N + 1) /\ j \in 1..(N + 1) /\ i <= j
    BY <1>2, <1>3
  <2>2. CASE j <= N
    <3>1. i \in DOMAIN releases /\ j \in i..Len(releases)
      BY <1>2, <2>1, <2>2 DEF N
    <3>2. releases'[i] = releases[i] /\ releases'[j] = releases[j]
      BY <1>2, <1>3, <2>1, <2>2
    <3>3. QED
      BY <3>1, <3>2 DEF ReleasesInv
  <2>3. CASE j = N + 1 /\ i <= N
    <3>1. i \in 1..N /\ releases'[i] = releases[i] /\ releases'[j] = new
      BY <1>2, <1>3, <2>1, <2>3
    <3>2. QED
      BY <1>4, <3>1
  <2>4. CASE j = N + 1 /\ i = N + 1
    BY <1>3, <1>5, <2>4
  <2>5. QED
    BY <1>2, <2>1, <2>2, <2>3, <2>4
<1>9. QED
  BY <1>1, <1>6, <1>7, <1>8 DEF ReleasesInv, Kept, NotBefore

LEMMA VersionStep ==
    ASSUME VersioningConstants PROVE ReleasesInv /\ [VersionNext]_versionVars => ReleasesInv'
<1> SUFFICES ASSUME ReleasesInv, [VersionNext]_versionVars PROVE ReleasesInv'
  OBVIOUS
<1>1. CASE Release
  BY <1>1, ReleaseKeeps
<1>2. ASSUME NEW v \in Majors, NEW m \in 0..MaxMinor, Number(v, m) PROVE ReleasesInv'
  <2>1. /\ DOMAIN draft' = {"major", "meta", "public", "readOnly", "ops"}
        /\ draft'.major \in Majors /\ minor' \in Nat /\ releases' = releases
    BY <1>2 DEF Number, ReleasesInv, VersioningConstants
  <2>2. QED
    BY <2>1 DEF ReleasesInv, Kept, NotBefore
<1>3. ASSUME NEW a \in OpNames, NEW op \in Shapes, PutOp(a, op) PROVE ReleasesInv'
  BY <1>3, EditsKeep DEF PutOp, ReleasesInv
<1>4. ASSUME NEW a \in DOMAIN draft.ops, RemoveOp(a) PROVE ReleasesInv'
  BY <1>4, EditsKeep DEF RemoveOp, ReleasesInv
<1>5. ASSUME NEW a \in DOMAIN draft.ops, NEW side \in {"request", "response"},
             NEW n \in FieldNames, NEW spec \in Specs, PutField(a, side, n, spec)
      PROVE  ReleasesInv'
  BY <1>5, EditsKeep DEF PutField, ReleasesInv
<1>6. ASSUME NEW a \in DOMAIN draft.ops, NEW side \in {"request", "response"},
             NEW n \in FieldNames, RemoveField(a, side, n)
      PROVE  ReleasesInv'
  BY <1>6, EditsKeep DEF RemoveField, ReleasesInv
<1>7. CASE UNCHANGED versionVars
  BY <1>7 DEF versionVars, ReleasesInv, Kept, NotBefore
<1>8. QED
  BY <1>1, <1>2, <1>3, <1>4, <1>5, <1>6, <1>7 DEF VersionNext

LEMMA VersionStart == ASSUME VersioningConstants PROVE VersionInit => ReleasesInv
<1> SUFFICES ASSUME VersionInit PROVE ReleasesInv
  OBVIOUS
<1>1. /\ DOMAIN draft = {"major", "meta", "public", "readOnly", "ops"}
      /\ draft.major \in Majors /\ minor \in Nat
  BY DEF VersionInit, VersioningConstants
<1>2. releases = <<>> /\ DOMAIN releases = {}
  BY DEF VersionInit
<1>3. releases \in Seq({releases[i] : i \in DOMAIN releases})
  BY <1>2
<1>4. QED
  BY <1>1, <1>2, <1>3 DEF ReleasesInv

\* A reader who knows a list of fields understands what is written to one that
\* was added to, and the other way round where it ignores what it does not know.
LEMMA AdditionsAreUnderstood ==
    ASSUME NEW before, NEW after, AdditiveFields(before, after)
    PROVE  Understood(before, after, FALSE) /\ Understood(after, before, TRUE)
<1>1. ASSUME NEW p \in {<<>>} \union DOMAIN before
      PROVE  /\ Level(before, p) \subseteq Level(after, p)
             /\ Required(before, p) \subseteq Required(after, p)
             /\ Required(after, p) \subseteq Required(before, p)
  BY DEF Level, Required, AdditiveFields
<1>2. \A p \in DOMAIN before : before[p].type = after[p].type
  BY DEF AdditiveFields
<1>3. Understood(before, after, FALSE)
  <2> SUFFICES ASSUME NEW p \in {<<>>} \union (DOMAIN before \intersect DOMAIN after)
               PROVE  /\ p # <<>> => before[p].type = after[p].type
                      /\ \A s \in MaySend(before, p) :
                           Required(after, p) \subseteq s /\ s \subseteq Level(after, p)
    BY DEF Understood
  <2>1. p \in {<<>>} \union DOMAIN before
    OBVIOUS
  <2>2. QED
    BY <1>1, <1>2, <2>1 DEF MaySend
<1>4. Understood(after, before, TRUE)
  <2> SUFFICES ASSUME NEW p \in {<<>>} \union (DOMAIN after \intersect DOMAIN before)
               PROVE  /\ p # <<>> => after[p].type = before[p].type
                      /\ \A s \in MaySend(after, p) : Required(before, p) \subseteq s
    BY DEF Understood
  <2>1. p \in {<<>>} \union DOMAIN before
    OBVIOUS
  <2>2. QED
    BY <1>1, <1>2, <2>1 DEF MaySend
<1>5. QED
  BY <1>3, <1>4

\* A client built for an earlier release of a major version works with every later
\* one, and versions only go up, whatever is edited and however often it is
\* released (VersionsSound; compare, _same_major, _additive_fields).
THEOREM VersionsStaySound == ASSUME VersioningConstants PROVE VersionSpec => []VersionsSound
<1>1. ASSUME ReleasesInv PROVE OldClientsWork
  <2> SUFFICES ASSUME NEW i \in DOMAIN releases, NEW j \in i..Len(releases),
                      releases[i].doc.major = releases[j].doc.major,
                      NEW a \in DOMAIN releases[i].doc.ops
               PROVE  LET old == releases[i].doc
                          new == releases[j].doc
                      IN  /\ a \in DOMAIN new.ops
                          /\ RouteOf(old, a) = RouteOf(new, a)
                          /\ old.ops[a].auth = new.ops[a].auth
                          /\ new.ops[a].errors \subseteq old.ops[a].errors
                          /\ Understood(old.ops[a].request, new.ops[a].request, FALSE)
                          /\ Understood(new.ops[a].response, old.ops[a].response, TRUE)
    BY DEF OldClientsWork
  <2> DEFINE old == releases[i].doc
             new == releases[j].doc
  <2>1. OpKept(old, new, a)
    BY <1>1 DEF ReleasesInv, Kept
  <2> HIDE DEF old, new
  <2>2. /\ a \in DOMAIN new.ops /\ RouteOf(old, a) = RouteOf(new, a)
        /\ old.ops[a].auth = new.ops[a].auth /\ old.ops[a].errors = new.ops[a].errors
    BY <2>1 DEF OpKept, RouteOf
  <2>3. /\ Understood(old.ops[a].request, new.ops[a].request, FALSE)
        /\ Understood(new.ops[a].response, old.ops[a].response, TRUE)
    BY <2>1, AdditionsAreUnderstood DEF OpKept
  <2>4. QED
    BY <2>2, <2>3 DEF old, new
<1>2. ASSUME ReleasesInv PROVE VersionsOrdered
  <2>1. ASSUME NEW i \in DOMAIN releases, NEW j \in DOMAIN releases, i < j
        PROVE  NotBefore(releases[i], releases[j])
    <3>1. j \in i..Len(releases)
      BY <1>2, <2>1 DEF ReleasesInv
    <3>2. QED
      BY <1>2, <3>1 DEF ReleasesInv
  <2>2. ~(draft.major < draft.major) /\ ~(minor < minor)
    <3>1. draft.major \in Nat /\ minor \in Nat
      BY <1>2 DEF ReleasesInv, VersioningConstants
    <3>2. QED
      BY <3>1
  <2>3. SameMajor(draft, draft)
    BY KeptIsOrder DEF SameMajor, ListsGrow, Kept
  <2>4. Valid(draft) => Compare(draft, draft, minor, minor) = "compatible"
    BY <2>2, <2>3 DEF Compare
  <2>5. QED
    BY <2>1, <2>4 DEF VersionsOrdered, NotBefore
<1>3. ReleasesInv => VersionsSound
  BY <1>1, <1>2 DEF VersionsSound
<1>4. QED
  BY <1>3, VersionStart, VersionStep, VersioningConstants, PTL DEF VersionSpec
=============================================================================
