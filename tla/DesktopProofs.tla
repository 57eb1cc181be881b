---------------------------- MODULE DesktopProofs ----------------------------
(***************************************************************************)
(* Proofs about what the programs on the user's machine keep (Desktop) and *)
(* about the readers of PGN streams (GameStream), for any files, chunk     *)
(* sizes, importers, pins, collections, installs, providers, terms,        *)
(* revisions, stores, callers, proposals, grants and bounds.               *)
(***************************************************************************)
EXTENDS Desktop, GameStream, SequenceTheorems, FiniteSetTheorems, TLAPS

-----------------------------------------------------------------------------
(***************************************************************************)
(* The privacy stores.  A step opens one subject, with an approval of the  *)
(* revision the subject has (Opening), or it opens nothing (Closing) or    *)
(* gives an approval (Granting), and no revision ever falls                *)
(* (RevisionsRise).  What the stores promise follows from these moves.     *)
(***************************************************************************)
StoresOK ==
    /\ flags \in [Collections -> Flags \union {None}]
    /\ cloud \in [Installs -> Modes \union {None}]
    /\ models \in [Installs -> Modes \union {None}]
    /\ accepted \in [Pairs -> Acceptances \union {None}]
    /\ granted \subseteq Approvals

\* An approval that has opened its subject is older than the subject.
SpentIsOld == \A tok \in spent :
    tok \in Approvals /\ Shown(tok.subject) /\ tok.rev < RevOf(tok.subject)

GatesInv == StoresOK /\ OpenAsShown /\ SpentIsOld

RevisionsRise == \A s \in Subjects :
    Shown(s) => Shown(s)' /\ RevOf(s) \in Nat /\ RevOf(s)' \in Nat /\ RevOf(s) <= RevOf(s)'

StaysOpen(s) == IsOpen(s)' => IsOpen(s) /\ RevOf(s)' = RevOf(s)

Opening(tok) ==
    /\ tok \in granted /\ Shown(tok.subject) /\ tok.rev = RevOf(tok.subject)
    /\ IsOpen(tok.subject)' /\ RevOf(tok.subject)' = tok.rev + 1
    /\ \A s \in Subjects \ {tok.subject} : StaysOpen(s)
    /\ spent' = spent \union {tok} /\ granted' = granted

Closing ==
    /\ \A s \in Subjects : StaysOpen(s)
    /\ spent' = spent /\ granted' = granted

Granting ==
    /\ \E s \in Subjects :
          Shown(s) /\ granted' = granted \union {[subject |-> s, rev |-> RevOf(s)]}
    /\ UNCHANGED <<flags, cloud, accepted, models, spent>>

GatesMove == RevisionsRise /\ ((\E tok \in granted : Opening(tok)) \/ Closing \/ Granting)

\* The four kinds of subjects, and what they are read from.
LEMMA Kinds ==
    ASSUME NEW s \in Subjects
    PROVE  \/ \E c \in Collections : s = <<"collection", c>>
           \/ \E i \in Installs : s = <<"cloud", i>>
           \/ \E i \in Installs : s = <<"large", i>>
           \/ \E pair \in Pairs, t \in Terms : s = <<"terms", pair, t>>
BY DEF Subjects

LEMMA CollectionRead ==
    ASSUME NEW c \in Collections
    PROVE  /\ <<"collection", c>> \in Subjects
           /\ IsOpen(<<"collection", c>>) <=> ~ reads_sensitive(c)
           /\ IsOpen(<<"collection", c>>)' <=> ~ reads_sensitive(c)'
           /\ RevOf(<<"collection", c>>) = flags[c].rev
           /\ RevOf(<<"collection", c>>)' = flags'[c].rev
           /\ Shown(<<"collection", c>>) <=> c \in Registered(flags)
           /\ Shown(<<"collection", c>>)' <=> c \in Registered(flags')
BY DEF Subjects, IsOpen, RevOf, Shown

LEMMA CloudRead ==
    ASSUME NEW i \in Installs
    PROVE  /\ <<"cloud", i>> \in Subjects
           /\ IsOpen(<<"cloud", i>>) <=> ~ reads_off(i)
           /\ IsOpen(<<"cloud", i>>)' <=> ~ reads_off(i)'
           /\ RevOf(<<"cloud", i>>) = cloud[i].rev
           /\ RevOf(<<"cloud", i>>)' = cloud'[i].rev
           /\ Shown(<<"cloud", i>>) <=> i \in Registered(cloud)
           /\ Shown(<<"cloud", i>>)' <=> i \in Registered(cloud')
BY DEF Subjects, IsOpen, RevOf, Shown

LEMMA LargeRead ==
    ASSUME NEW i \in Installs
    PROVE  /\ <<"large", i>> \in Subjects
           /\ IsOpen(<<"large", i>>) <=> ~ model_reads_off(i)
           /\ IsOpen(<<"large", i>>)' <=> ~ model_reads_off(i)'
           /\ RevOf(<<"large", i>>) = models[i].rev
           /\ RevOf(<<"large", i>>)' = models'[i].rev
           /\ Shown(<<"large", i>>) <=> i \in Registered(models)
           /\ Shown(<<"large", i>>)' <=> i \in Registered(models')
BY DEF Subjects, IsOpen, RevOf, Shown

LEMMA TermsRead ==
    ASSUME NEW pair \in Pairs, NEW t \in Terms
    PROVE  /\ <<"terms", pair, t>> \in Subjects
           /\ IsOpen(<<"terms", pair, t>>) <=> Accepted(pair) = t
           /\ IsOpen(<<"terms", pair, t>>)' <=> Accepted(pair)' = t
           /\ RevOf(<<"terms", pair, t>>) = accepted[pair].rev
           /\ RevOf(<<"terms", pair, t>>)' = accepted'[pair].rev
           /\ Shown(<<"terms", pair, t>>) <=> pair \in Registered(accepted)
           /\ Shown(<<"terms", pair, t>>)' <=> pair \in Registered(accepted')
BY DEF Subjects, IsOpen, RevOf, Shown

LEMMA RevTypes ==
    ASSUME NEW s \in Subjects
    PROVE  /\ StoresOK /\ Shown(s) => RevOf(s) \in 0 .. MaxRev
           /\ StoresOK' /\ Shown(s)' => RevOf(s)' \in 0 .. MaxRev
<1>1. ASSUME NEW c \in Collections
      PROVE  /\ StoresOK /\ c \in Registered(flags) => flags[c].rev \in 0 .. MaxRev
             /\ StoresOK' /\ c \in Registered(flags') => flags'[c].rev \in 0 .. MaxRev
  BY DEF StoresOK, Registered, Flags
<1>2. ASSUME NEW i \in Installs
      PROVE  /\ StoresOK /\ i \in Registered(cloud) => cloud[i].rev \in 0 .. MaxRev
             /\ StoresOK' /\ i \in Registered(cloud') => cloud'[i].rev \in 0 .. MaxRev
             /\ StoresOK /\ i \in Registered(models) => models[i].rev \in 0 .. MaxRev
             /\ StoresOK' /\ i \in Registered(models') => models'[i].rev \in 0 .. MaxRev
  BY DEF StoresOK, Registered, Modes
<1>3. ASSUME NEW pair \in Pairs
      PROVE  /\ StoresOK /\ pair \in Registered(accepted) => accepted[pair].rev \in 0 .. MaxRev
             /\ StoresOK' /\ pair \in Registered(accepted') => accepted'[pair].rev \in 0 .. MaxRev
  BY DEF StoresOK, Registered, Acceptances
<1>4. CASE \E c \in Collections : s = <<"collection", c>>
  BY <1>1, <1>4, CollectionRead
<1>5. CASE \E i \in Installs : s = <<"cloud", i>>
  BY <1>2, <1>5, CloudRead
<1>6. CASE \E i \in Installs : s = <<"large", i>>
  BY <1>2, <1>6, LargeRead
<1>7. CASE \E pair \in Pairs, t \in Terms : s = <<"terms", pair, t>>
  BY <1>3, <1>7, TermsRead
<1>8. QED
  BY <1>4, <1>5, <1>6, <1>7, Kinds

\* What a step does to a subject of a store it leaves alone.
Same(s) ==
    /\ IsOpen(s)' <=> IsOpen(s)
    /\ Shown(s)' <=> Shown(s)
    /\ RevOf(s)' = RevOf(s)

LEMMA StoresApart ==
    /\ flags' = flags => \A c \in Collections : Same(<<"collection", c>>)
    /\ cloud' = cloud => \A i \in Installs : Same(<<"cloud", i>>)
    /\ models' = models => \A i \in Installs : Same(<<"large", i>>)
    /\ accepted' = accepted => \A pair \in Pairs, t \in Terms : Same(<<"terms", pair, t>>)
<1>1. flags' = flags => \A c \in Collections : Same(<<"collection", c>>)
  BY CollectionRead DEF Same, reads_sensitive
<1>2. cloud' = cloud => \A i \in Installs : Same(<<"cloud", i>>)
  BY CloudRead DEF Same, reads_off
<1>3. models' = models => \A i \in Installs : Same(<<"large", i>>)
  BY LargeRead DEF Same, model_reads_off
<1>4. accepted' = accepted => \A pair \in Pairs, t \in Terms : Same(<<"terms", pair, t>>)
  BY TermsRead DEF Same, Accepted
<1>5. QED
  BY <1>1, <1>2, <1>3, <1>4

\* A step that raises the revisions of some subjects, and closes all of them or
\* opens one of them with an approval of the revision it had, is a move.
LEMMA Raised ==
    ASSUME GatesConstants, StoresOK, StoresOK',
           NEW touched \in SUBSET Subjects,
           \A s \in Subjects \ touched : Same(s),
           \A s \in touched : Shown(s) => Shown(s)' /\ RevOf(s) <= RevOf(s)'
    PROVE  /\ RevisionsRise
           /\ \A s \in Subjects \ touched : StaysOpen(s)
<1>1. ASSUME NEW s \in Subjects, Shown(s)
      PROVE  Shown(s)' /\ RevOf(s) \in Nat /\ RevOf(s)' \in Nat /\ RevOf(s) <= RevOf(s)'
  <2>1. RevOf(s) \in Nat
    BY <1>1, RevTypes DEF GatesConstants
  <2>2. Shown(s)'
    BY <1>1 DEF Same
  <2>3. RevOf(s)' \in Nat
    BY <2>2, RevTypes DEF GatesConstants
  <2>4. RevOf(s) <= RevOf(s)'
    <3>1. CASE s \in touched
      BY <1>1, <3>1
    <3>2. CASE s \notin touched
      BY <2>1, <3>2 DEF Same
    <3>3. QED
      BY <3>1, <3>2
  <2>5. QED
    BY <2>1, <2>2, <2>3, <2>4
<1>2. QED
  BY <1>1 DEF RevisionsRise, StaysOpen, Same

LEMMA ClosesAll ==
    ASSUME GatesConstants, StoresOK, StoresOK',
           NEW touched \in SUBSET Subjects,
           \A s \in Subjects \ touched : Same(s),
           \A s \in touched : ~ IsOpen(s)' /\ (Shown(s) => Shown(s)' /\ RevOf(s) <= RevOf(s)'),
           spent' = spent, granted' = granted
    PROVE  GatesMove
<1>1. RevisionsRise /\ \A s \in Subjects \ touched : StaysOpen(s)
  BY Raised
<1>2. Closing
  BY <1>1 DEF Closing, StaysOpen
<1>3. QED
  BY <1>1, <1>2 DEF GatesMove

LEMMA OpensOne ==
    ASSUME GatesConstants, StoresOK, StoresOK',
           NEW touched \in SUBSET Subjects, NEW u \in touched,
           \A s \in Subjects \ touched : Same(s),
           Shown(u), Shown(u)', IsOpen(u)', RevOf(u)' = RevOf(u) + 1,
           \A s \in touched \ {u} :
              ~ IsOpen(s)' /\ (Shown(s) => Shown(s)' /\ RevOf(s) <= RevOf(s)'),
           NEW tok \in granted \union {None},
           tok = [subject |-> u, rev |-> RevOf(u)],
           spent' = spent \union {tok}, granted' = granted
    PROVE  GatesMove
<1>1. RevOf(u) \in 0 .. MaxRev
  BY RevTypes
<1>2. RevOf(u) <= RevOf(u)'
  BY <1>1 DEF GatesConstants
<1>3. \A s \in touched : Shown(s) => Shown(s)' /\ RevOf(s) <= RevOf(s)'
  BY <1>2
<1>4. RevisionsRise /\ \A s \in Subjects \ touched : StaysOpen(s)
  BY <1>3, Raised
<1>5. tok \in granted
  BY <1>1 DEF GatesConstants, Approvals
<1>6. \A s \in Subjects \ {u} : StaysOpen(s)
  BY <1>4 DEF StaysOpen
<1>7. tok.subject = u /\ tok.rev = RevOf(u)
  OBVIOUS
<1>8. Opening(tok)
  BY <1>5, <1>6, <1>7 DEF Opening
<1>9. QED
  BY <1>4, <1>5, <1>8 DEF GatesMove

LEMMA CloudTransitionMoves ==
    ASSUME GatesConstants, StoresOK, NEW i \in Installs, NEW mode \in {"on", "off"},
           NEW expected, NEW tok \in granted \union {None},
           CloudTransition(i, mode, expected, tok)
    PROVE  StoresOK' /\ GatesMove
<1> DEFINE s == <<"cloud", i>>
           next == [mode |-> mode, rev |-> cloud[i].rev + 1]
<1>1. cloud[i] \in Modes /\ cloud[i].rev < MaxRev /\ expected = cloud[i].rev
  BY DEF CloudTransition, StoresOK, Registered
<1>2. next \in Modes
  BY <1>1 DEF Modes, GatesConstants
<1>3. cloud' = [cloud EXCEPT ![i] = next]
  BY DEF CloudTransition
<1>4. StoresOK'
  BY <1>2, <1>3 DEF CloudTransition, StoresOK
<1>5. cloud'[i] = next /\ next # None
  BY <1>2, <1>3 DEF StoresOK, GatesConstants
<1>6. s \in Subjects /\ Shown(s) /\ Shown(s)' /\ RevOf(s) = cloud[i].rev
      /\ RevOf(s)' = cloud[i].rev + 1 /\ (IsOpen(s)' <=> mode = "on")
  BY <1>1, <1>3, <1>5, CloudRead DEF CloudTransition, Registered, reads_off, StoresOK
<1>7. \A u \in Subjects \ {s} : Same(u)
  <2> SUFFICES ASSUME NEW u \in Subjects, u # s PROVE Same(u)
    OBVIOUS
  <2>1. CASE \E c \in Collections : u = <<"collection", c>>
    BY <2>1, StoresApart DEF CloudTransition
  <2>2. CASE \E j \in Installs : u = <<"large", j>>
    BY <2>2, StoresApart DEF CloudTransition
  <2>3. CASE \E pair \in Pairs, t \in Terms : u = <<"terms", pair, t>>
    BY <2>3, StoresApart DEF CloudTransition
  <2>4. ASSUME NEW j \in Installs, u = <<"cloud", j>> PROVE Same(u)
    <3>1. cloud'[j] = cloud[j]
      BY <1>3, <2>4 DEF StoresOK
    <3>2. (j \in Registered(cloud)) <=> (j \in Registered(cloud'))
      BY <1>3, <3>1 DEF Registered, StoresOK
    <3>3. QED
      BY <2>4, <3>1, <3>2, CloudRead DEF Same, reads_off
  <2>5. QED
    BY <2>1, <2>2, <2>3, <2>4, Kinds
<1>8. CASE mode = "off"
  <2>1. \A u \in {s} : ~ IsOpen(u)' /\ (Shown(u) => Shown(u)' /\ RevOf(u) <= RevOf(u)')
    BY <1>1, <1>6, <1>8 DEF Modes, GatesConstants
  <2>2. spent' = spent /\ granted' = granted
    BY <1>8 DEF CloudTransition, Closes
  <2>3. {s} \in SUBSET Subjects
    BY <1>6
  <2>4. QED
    BY <1>4, <1>7, <2>1, <2>2, <2>3, ClosesAll
<1>9. CASE mode = "on"
  <2>1. tok = [subject |-> s, rev |-> RevOf(s)] /\ spent' = spent \union {tok}
        /\ granted' = granted
    BY <1>1, <1>6, <1>9 DEF CloudTransition, Opens, opt_in_for
  <2>2. QED
    BY <1>4, <1>6, <1>7, <1>9, <2>1, OpensOne
<1>10. QED
  BY <1>8, <1>9

LEMMA ModelTransitionMoves ==
    ASSUME GatesConstants, StoresOK, NEW i \in Installs, NEW mode \in {"on", "off"},
           NEW expected, NEW tok \in granted \union {None},
           ModelTransition(i, mode, expected, tok)
    PROVE  StoresOK' /\ GatesMove
<1> DEFINE s == <<"large", i>>
           next == [mode |-> mode, rev |-> models[i].rev + 1]
<1>1. models[i] \in Modes /\ models[i].rev < MaxRev /\ expected = models[i].rev
  BY DEF ModelTransition, StoresOK, Registered
<1>2. next \in Modes
  BY <1>1 DEF Modes, GatesConstants
<1>3. models' = [models EXCEPT ![i] = next]
  BY DEF ModelTransition
<1>4. StoresOK'
  BY <1>2, <1>3 DEF ModelTransition, StoresOK
<1>5. models'[i] = next /\ next # None
  BY <1>2, <1>3 DEF StoresOK, GatesConstants
<1>6. s \in Subjects /\ Shown(s) /\ Shown(s)' /\ RevOf(s) = models[i].rev
      /\ RevOf(s)' = models[i].rev + 1 /\ (IsOpen(s)' <=> mode = "on")
  BY <1>1, <1>3, <1>5, LargeRead DEF ModelTransition, Registered, model_reads_off, StoresOK
<1>7. \A u \in Subjects \ {s} : Same(u)
  <2> SUFFICES ASSUME NEW u \in Subjects, u # s PROVE Same(u)
    OBVIOUS
  <2>1. CASE \E c \in Collections : u = <<"collection", c>>
    BY <2>1, StoresApart DEF ModelTransition
  <2>2. CASE \E j \in Installs : u = <<"cloud", j>>
    BY <2>2, StoresApart DEF ModelTransition
  <2>3. CASE \E pair \in Pairs, t \in Terms : u = <<"terms", pair, t>>
    BY <2>3, StoresApart DEF ModelTransition
  <2>4. ASSUME NEW j \in Installs, u = <<"large", j>> PROVE Same(u)
    <3>1. models'[j] = models[j]
      BY <1>3, <2>4 DEF StoresOK
    <3>2. (j \in Registered(models)) <=> (j \in Registered(models'))
      BY <1>3, <3>1 DEF Registered, StoresOK
    <3>3. QED
      BY <2>4, <3>1, <3>2, LargeRead DEF Same, model_reads_off
  <2>5. QED
    BY <2>1, <2>2, <2>3, <2>4, Kinds
<1>8. CASE mode = "off"
  <2>1. \A u \in {s} : ~ IsOpen(u)' /\ (Shown(u) => Shown(u)' /\ RevOf(u) <= RevOf(u)')
    BY <1>1, <1>6, <1>8 DEF Modes, GatesConstants
  <2>2. spent' = spent /\ granted' = granted
    BY <1>8 DEF ModelTransition, Closes
  <2>3. {s} \in SUBSET Subjects
    BY <1>6
  <2>4. QED
    BY <1>4, <1>7, <2>1, <2>2, <2>3, ClosesAll
<1>9. CASE mode = "on"
  <2>1. tok = [subject |-> s, rev |-> RevOf(s)] /\ spent' = spent \union {tok}
        /\ granted' = granted
    BY <1>1, <1>6, <1>9 DEF ModelTransition, Opens, large_opt_in_for
  <2>2. QED
    BY <1>4, <1>6, <1>7, <1>9, <2>1, OpensOne
<1>10. QED
  BY <1>8, <1>9

LEMMA ByomTransitionMoves ==
    ASSUME GatesConstants, StoresOK, NEW pair \in Pairs, NEW t \in Terms \union {None},
           NEW expected, NEW tok \in granted \union {None},
           ByomTransition(pair, t, expected, tok)
    PROVE  StoresOK' /\ GatesMove
<1> DEFINE rev == accepted[pair].rev
           next == [terms |-> t, rev |-> IF rev = MaxRev THEN rev ELSE rev + 1]
           touched == {<<"terms", pair, x>> : x \in Terms}
<1>1. accepted[pair] \in Acceptances /\ rev \in 0 .. MaxRev /\ expected = rev
  BY DEF ByomTransition, StoresOK, Registered, Acceptances
<1>2. next \in Acceptances /\ rev <= next.rev
  BY <1>1 DEF Acceptances, GatesConstants
<1>3. accepted' = [accepted EXCEPT ![pair] = next]
  BY DEF ByomTransition
<1>4. StoresOK'
  BY <1>2, <1>3 DEF ByomTransition, StoresOK
<1>5. accepted'[pair] = next /\ next # None /\ pair \in DOMAIN accepted'
  BY <1>2, <1>3 DEF StoresOK, GatesConstants
<1>6. ASSUME NEW x \in Terms
      PROVE  /\ <<"terms", pair, x>> \in Subjects
             /\ Shown(<<"terms", pair, x>>) /\ Shown(<<"terms", pair, x>>)'
             /\ RevOf(<<"terms", pair, x>>) = rev
             /\ RevOf(<<"terms", pair, x>>)' = next.rev
             /\ IsOpen(<<"terms", pair, x>>)' <=> t = x
  <2>1. pair \in Registered(accepted)
    BY DEF ByomTransition
  <2>2. pair \in Registered(accepted') /\ Accepted(pair)' = t
    BY <1>5 DEF Registered, Accepted
  <2>3. QED
    BY <1>5, <2>1, <2>2, TermsRead
<1>7. \A u \in Subjects \ touched : Same(u)
  <2> SUFFICES ASSUME NEW u \in Subjects, u \notin touched PROVE Same(u)
    OBVIOUS
  <2>1. CASE \E c \in Collections : u = <<"collection", c>>
    BY <2>1, StoresApart DEF ByomTransition
  <2>2. CASE \E j \in Installs : u = <<"cloud", j>>
    BY <2>2, StoresApart DEF ByomTransition
  <2>3. CASE \E j \in Installs : u = <<"large", j>>
    BY <2>3, StoresApart DEF ByomTransition
  <2>4. ASSUME NEW q \in Pairs, NEW x \in Terms, u = <<"terms", q, x>> PROVE Same(u)
    <3>1. q # pair
      BY <2>4
    <3>2. accepted'[q] = accepted[q]
      BY <1>3, <3>1 DEF StoresOK
    <3>3. (q \in Registered(accepted)) <=> (q \in Registered(accepted'))
      BY <1>3, <3>2 DEF Registered, StoresOK
    <3>4. QED
      BY <2>4, <3>2, <3>3, TermsRead DEF Same, Accepted
  <2>5. QED
    BY <2>1, <2>2, <2>3, <2>4, Kinds
<1>8. touched \in SUBSET Subjects
  BY <1>6
<1>9. CASE t = None
  <2>1. \A u \in touched : ~ IsOpen(u)' /\ (Shown(u) => Shown(u)' /\ RevOf(u) <= RevOf(u)')
    BY <1>2, <1>6, <1>9 DEF GatesConstants
  <2>2. spent' = spent /\ granted' = granted
    BY <1>9 DEF ByomTransition, Closes
  <2>3. QED
    BY <1>4, <1>7, <1>8, <2>1, <2>2, ClosesAll
<1>10. CASE t \in Terms
  <2> DEFINE s == <<"terms", pair, t>>
  <2>1. t # None
    BY <1>10 DEF GatesConstants
  <2>2. rev < MaxRev /\ next.rev = rev + 1
    BY <1>1, <2>1 DEF ByomTransition, GatesConstants
  <2>3. tok = [subject |-> s, rev |-> RevOf(s)] /\ spent' = spent \union {tok}
        /\ granted' = granted
    BY <1>1, <1>6, <1>10, <2>1 DEF ByomTransition, Opens, byom_approval_for
  <2>4. s \in touched /\ Shown(s) /\ Shown(s)' /\ IsOpen(s)' /\ RevOf(s)' = RevOf(s) + 1
    BY <1>6, <1>10, <2>2
  <2>5. \A u \in touched \ {s} :
           ~ IsOpen(u)' /\ (Shown(u) => Shown(u)' /\ RevOf(u) <= RevOf(u)')
    BY <1>2, <1>6
  <2>6. QED
    BY <1>4, <1>7, <1>8, <2>3, <2>4, <2>5, OpensOne
<1>11. QED
  BY <1>9, <1>10

\* What one change of a flag does, be it a transition or a rollback.
LEMMA FlagMoves ==
    ASSUME GatesConstants, StoresOK, NEW c \in Registered(flags), NEW next \in Flags,
           next.rev = flags[c].rev + 1,
           flags' = [flags EXCEPT ![c] = next],
           NEW tok \in granted \union {None},
           next.sensitive \/ tok = approval_for(c, flags[c].rev),
           IF next.sensitive THEN Closes ELSE Opens(tok),
           UNCHANGED <<cloud, accepted, models, granted, answer>>
    PROVE  StoresOK' /\ GatesMove
<1> DEFINE s == <<"collection", c>>
<1>1. c \in Collections /\ flags[c] \in Flags
  BY DEF StoresOK, Registered
<1>2. StoresOK'
  BY DEF StoresOK
<1>3. flags'[c] = next /\ next # None
  BY <1>1 DEF StoresOK, GatesConstants
<1>4. s \in Subjects /\ Shown(s) /\ Shown(s)' /\ RevOf(s) = flags[c].rev
      /\ RevOf(s)' = flags[c].rev + 1 /\ (IsOpen(s)' <=> ~ next.sensitive)
  BY <1>1, <1>3, CollectionRead DEF Registered, reads_sensitive, StoresOK
<1>5. \A u \in Subjects \ {s} : Same(u)
  <2> SUFFICES ASSUME NEW u \in Subjects, u # s PROVE Same(u)
    OBVIOUS
  <2>1. CASE \E j \in Installs : u = <<"cloud", j>>
    BY <2>1, StoresApart
  <2>2. CASE \E j \in Installs : u = <<"large", j>>
    BY <2>2, StoresApart
  <2>3. CASE \E pair \in Pairs, t \in Terms : u = <<"terms", pair, t>>
    BY <2>3, StoresApart
  <2>4. ASSUME NEW d \in Collections, u = <<"collection", d>> PROVE Same(u)
    <3>1. flags'[d] = flags[d]
      BY <2>4 DEF StoresOK
    <3>2. (d \in Registered(flags)) <=> (d \in Registered(flags'))
      BY <3>1 DEF Registered, StoresOK
    <3>3. QED
      BY <2>4, <3>1, <3>2, CollectionRead DEF Same, reads_sensitive
  <2>5. QED
    BY <2>1, <2>2, <2>3, <2>4, Kinds
<1>6. {s} \in SUBSET Subjects
  BY <1>4
<1>7. CASE next.sensitive
  <2>1. \A u \in {s} : ~ IsOpen(u)' /\ (Shown(u) => Shown(u)' /\ RevOf(u) <= RevOf(u)')
    <3>1. flags[c].rev \in 0 .. MaxRev
      BY <1>1 DEF Flags
    <3>2. flags[c].rev <= flags[c].rev + 1
      BY <3>1 DEF GatesConstants
    <3>3. QED
      BY <1>4, <1>7, <3>2
  <2>2. spent' = spent /\ granted' = granted
    BY <1>7 DEF Closes
  <2>3. QED
    BY <1>2, <1>5, <1>6, <2>1, <2>2, ClosesAll
<1>8. CASE ~ next.sensitive
  <2>1. tok = [subject |-> s, rev |-> RevOf(s)] /\ spent' = spent \union {tok}
        /\ granted' = granted
    BY <1>4, <1>8 DEF Opens, approval_for
  <2>2. s \in {s} /\ Shown(s) /\ Shown(s)' /\ IsOpen(s)' /\ RevOf(s)' = RevOf(s) + 1
    BY <1>4, <1>8
  <2>3. \A u \in {s} \ {s} : ~ IsOpen(u)' /\ (Shown(u) => Shown(u)' /\ RevOf(u) <= RevOf(u)')
    OBVIOUS
  <2>4. QED
    BY <1>2, <1>5, <1>6, <2>1, <2>2, <2>3, OpensOne
<1>9. QED
  BY <1>7, <1>8

LEMMA FlagTransitionMoves ==
    ASSUME GatesConstants, StoresOK, NEW c \in Collections, NEW sensitive \in BOOLEAN,
           NEW expected, NEW tok \in granted \union {None},
           FlagTransition(c, sensitive, expected, tok)
    PROVE  StoresOK' /\ GatesMove
<1> DEFINE was == flags[c]
           next == [sensitive |-> sensitive, rev |-> was.rev + 1,
                    hist |-> Append(was.hist, was.sensitive)]
<1>1. c \in Registered(flags) /\ was \in Flags /\ was.rev < MaxRev /\ expected = was.rev
  BY DEF FlagTransition, StoresOK, Registered
<1>2. was.rev \in 0 .. MaxRev /\ was.hist \in Seq(BOOLEAN) /\ was.sensitive \in BOOLEAN
  BY <1>1 DEF Flags
<1>3. Append(was.hist, was.sensitive) \in Seq(BOOLEAN)
  BY <1>2, AppendProperties
<1>4. next \in Flags
  BY <1>1, <1>2, <1>3 DEF Flags, GatesConstants
<1>5. /\ flags' = [flags EXCEPT ![c] = next]
      /\ next.rev = was.rev + 1
      /\ next.sensitive \/ tok = approval_for(c, was.rev)
      /\ IF next.sensitive THEN Closes ELSE Opens(tok)
      /\ UNCHANGED <<cloud, accepted, models, granted, answer>>
  BY <1>1 DEF FlagTransition
<1>6. QED
  BY <1>1, <1>4, <1>5, FlagMoves

LEMMA FlagRollbackMoves ==
    ASSUME GatesConstants, StoresOK, NEW c \in Collections,
           NEW expected, NEW tok \in granted \union {None},
           FlagRollback(c, expected, tok)
    PROVE  StoresOK' /\ GatesMove
<1> DEFINE was == flags[c]
           depth == Len(was.hist)
           next == [sensitive |-> was.hist[depth], rev |-> was.rev + 1,
                    hist |-> SubSeq(was.hist, 1, depth - 1)]
<1>1. c \in Registered(flags) /\ was \in Flags /\ was.rev < MaxRev /\ expected = was.rev
      /\ was.hist # <<>>
  BY DEF FlagRollback, StoresOK, Registered
<1>2. was.rev \in 0 .. MaxRev /\ was.hist \in Seq(BOOLEAN)
  BY <1>1 DEF Flags
<1>3. depth \in Nat /\ depth > 0
  BY <1>1, <1>2, EmptySeq, LenProperties
<1>4. \A n \in 1 .. depth : was.hist[n] \in BOOLEAN
  BY <1>2, ElementOfSeq
<1>5. SubSeq(was.hist, 1, depth - 1) \in Seq(BOOLEAN) /\ was.hist[depth] \in BOOLEAN
  BY <1>3, <1>4, SubSeqProperties
<1>6. next \in Flags
  BY <1>1, <1>2, <1>5 DEF Flags, GatesConstants
<1>7. /\ flags' = [flags EXCEPT ![c] = next]
      /\ next.rev = was.rev + 1
      /\ next.sensitive \/ tok = approval_for(c, was.rev)
      /\ IF next.sensitive THEN Closes ELSE Opens(tok)
      /\ UNCHANGED <<cloud, accepted, models, granted, answer>>
  BY <1>1 DEF FlagRollback
<1>8. QED
  BY <1>1, <1>6, <1>7, FlagMoves

\* A registration shows a closed subject.
LEMMA RegisterMoves ==
    ASSUME GatesConstants, StoresOK,
           RegisterFlag \/ RegisterCloud \/ RegisterProvider \/ RegisterModel
    PROVE  StoresOK' /\ GatesMove
<1> DEFINE Quiet(s) == ~ IsOpen(s)' /\ ~ Shown(s)
<1>1. spent' = spent /\ granted' = granted
  BY DEF RegisterFlag, RegisterCloud, RegisterProvider, RegisterModel
<1>2. SUFFICES StoresOK' /\ \A s \in Subjects : Same(s) \/ Quiet(s)
  <2> DEFINE touched == {s \in Subjects : ~ Same(s)}
  <2>1. touched \in SUBSET Subjects
    OBVIOUS
  <2>2. \A s \in touched : ~ IsOpen(s)' /\ (Shown(s) => Shown(s)' /\ RevOf(s) <= RevOf(s)')
    BY <1>2
  <2>3. \A s \in Subjects \ touched : Same(s)
    OBVIOUS
  <2> HIDE DEF touched
  <2>4. QED
    BY <1>1, <1>2, <2>1, <2>2, <2>3, ClosesAll
<1>3. CASE RegisterFlag
  <2>1. PICK c \in Collections \ Registered(flags) :
           /\ flags' = [flags EXCEPT ![c] = [sensitive |-> TRUE, rev |-> 0, hist |-> <<>>]]
           /\ UNCHANGED <<cloud, accepted, models, granted, spent, answer>>
    BY <1>3 DEF RegisterFlag
  <2> DEFINE next == [sensitive |-> TRUE, rev |-> 0, hist |-> <<>>]
  <2>2. next \in Flags
    BY EmptySeq DEF Flags, GatesConstants
  <2>3. StoresOK'
    BY <2>1, <2>2 DEF StoresOK
  <2>4. flags'[c] = next
    BY <2>1 DEF StoresOK
  <2>5. ASSUME NEW d \in Collections
        PROVE  Same(<<"collection", d>>) \/ Quiet(<<"collection", d>>)
    <3>1. CASE d = c
      BY <2>1, <2>4, <3>1, CollectionRead DEF reads_sensitive
    <3>2. CASE d # c
      <4>1. flags'[d] = flags[d] /\ (d \in Registered(flags) <=> d \in Registered(flags'))
        BY <2>1, <3>2 DEF StoresOK, Registered
      <4>2. QED
        BY <4>1, CollectionRead DEF Same, reads_sensitive
    <3>3. QED
      BY <3>1, <3>2
  <2>6. QED
    BY <2>1, <2>3, <2>5, Kinds, StoresApart
<1>4. CASE RegisterCloud
  <2>1. PICK i \in Installs \ Registered(cloud) :
           /\ cloud' = [cloud EXCEPT ![i] = [mode |-> "off", rev |-> 0]]
           /\ UNCHANGED <<flags, accepted, models, granted, spent, answer>>
    BY <1>4 DEF RegisterCloud
  <2> DEFINE next == [mode |-> "off", rev |-> 0]
  <2>2. next \in Modes
    BY DEF Modes, GatesConstants
  <2>3. StoresOK'
    BY <2>1, <2>2 DEF StoresOK
  <2>4. cloud'[i] = next
    BY <2>1 DEF StoresOK
  <2>5. ASSUME NEW j \in Installs
        PROVE  Same(<<"cloud", j>>) \/ Quiet(<<"cloud", j>>)
    <3>1. CASE j = i
      BY <2>1, <2>4, <3>1, CloudRead DEF reads_off
    <3>2. CASE j # i
      <4>1. cloud'[j] = cloud[j] /\ (j \in Registered(cloud) <=> j \in Registered(cloud'))
        BY <2>1, <3>2 DEF StoresOK, Registered
      <4>2. QED
        BY <4>1, CloudRead DEF Same, reads_off
    <3>3. QED
      BY <3>1, <3>2
  <2>6. QED
    BY <2>1, <2>3, <2>5, Kinds, StoresApart
<1>5. CASE RegisterModel
  <2>1. PICK i \in Installs \ Registered(models) :
           /\ models' = [models EXCEPT ![i] = [mode |-> "off", rev |-> 0]]
           /\ UNCHANGED <<flags, cloud, accepted, granted, spent, answer>>
    BY <1>5 DEF RegisterModel
  <2> DEFINE next == [mode |-> "off", rev |-> 0]
  <2>2. next \in Modes
    BY DEF Modes, GatesConstants
  <2>3. StoresOK'
    BY <2>1, <2>2 DEF StoresOK
  <2>4. models'[i] = next
    BY <2>1 DEF StoresOK
  <2>5. ASSUME NEW j \in Installs
        PROVE  Same(<<"large", j>>) \/ Quiet(<<"large", j>>)
    <3>1. CASE j = i
      BY <2>1, <2>4, <3>1, LargeRead DEF model_reads_off
    <3>2. CASE j # i
      <4>1. models'[j] = models[j] /\ (j \in Registered(models) <=> j \in Registered(models'))
        BY <2>1, <3>2 DEF StoresOK, Registered
      <4>2. QED
        BY <4>1, LargeRead DEF Same, model_reads_off
    <3>3. QED
      BY <3>1, <3>2
  <2>6. QED
    BY <2>1, <2>3, <2>5, Kinds, StoresApart
<1>6. CASE RegisterProvider
  <2>1. PICK pair \in Pairs \ Registered(accepted) :
           /\ accepted' = [accepted EXCEPT ![pair] = [terms |-> None, rev |-> 0]]
           /\ UNCHANGED <<flags, cloud, models, granted, spent, answer>>
    BY <1>6 DEF RegisterProvider
  <2> DEFINE next == [terms |-> None, rev |-> 0]
  <2>2. next \in Acceptances
    BY DEF Acceptances, GatesConstants
  <2>3. StoresOK'
    BY <2>1, <2>2 DEF StoresOK
  <2>4. accepted'[pair] = next
    BY <2>1 DEF StoresOK
  <2>5. ASSUME NEW q \in Pairs, NEW t \in Terms
        PROVE  Same(<<"terms", q, t>>) \/ Quiet(<<"terms", q, t>>)
    <3>1. CASE q = pair
      <4>1. Accepted(q)' = None /\ t # None
        BY <2>4, <3>1 DEF Accepted, GatesConstants
      <4>2. QED
        BY <2>1, <3>1, <4>1, TermsRead
    <3>2. CASE q # pair
      <4>1. accepted'[q] = accepted[q]
            /\ (q \in Registered(accepted) <=> q \in Registered(accepted'))
        BY <2>1, <3>2 DEF StoresOK, Registered
      <4>2. QED
        BY <4>1, TermsRead DEF Same, Accepted
    <3>3. QED
      BY <3>1, <3>2
  <2>6. QED
    BY <2>1, <2>3, <2>5, Kinds, StoresApart
<1>7. QED
  BY <1>3, <1>4, <1>5, <1>6

LEMMA NothingMoves ==
    ASSUME GatesConstants, StoresOK, UNCHANGED <<flags, cloud, accepted, models, granted, spent>>
    PROVE  StoresOK' /\ GatesMove
<1>1. StoresOK'
  BY DEF StoresOK
<1>2. \A s \in Subjects : Same(s)
  BY Kinds, StoresApart
<1>3. {} \in SUBSET Subjects
      /\ \A s \in {} : ~ IsOpen(s)' /\ (Shown(s) => Shown(s)' /\ RevOf(s) <= RevOf(s)')
  OBVIOUS
<1>4. spent' = spent /\ granted' = granted
  OBVIOUS
<1>5. QED
  BY <1>1, <1>2, <1>3, <1>4, ClosesAll

LEMMA ApproveMoves ==
    ASSUME GatesConstants, StoresOK, Approve
    PROVE  StoresOK' /\ GatesMove
<1>1. PICK s \in Subjects :
         /\ Shown(s)
         /\ granted' = granted \union {[subject |-> s, rev |-> RevOf(s)]}
         /\ UNCHANGED <<flags, cloud, accepted, models, spent>>
  BY DEF Approve
<1>2. [subject |-> s, rev |-> RevOf(s)] \in Approvals
  BY <1>1, RevTypes DEF Approvals
<1>3. StoresOK'
  BY <1>1, <1>2 DEF StoresOK
<1>4. \A u \in Subjects : Same(u)
  BY <1>1, Kinds, StoresApart
<1>5. {} \in SUBSET Subjects /\ \A u \in {} : Shown(u) => Shown(u)' /\ RevOf(u) <= RevOf(u)'
  OBVIOUS
<1>6. RevisionsRise
  BY <1>3, <1>4, <1>5, Raised
<1>7. Granting
  BY <1>1 DEF Granting
<1>8. QED
  BY <1>3, <1>6, <1>7 DEF GatesMove

\* Every step of the stores is a move.
LEMMA GatesMoves ==
    ASSUME GatesConstants, StoresOK, [GatesNext]_gatesVars
    PROVE  StoresOK' /\ GatesMove
<1>1. CASE RegisterFlag \/ RegisterCloud \/ RegisterProvider \/ RegisterModel
  BY <1>1, RegisterMoves
<1>2. CASE Approve
  BY <1>2, ApproveMoves
<1>3. CASE Transition
  <2>1. PICK expected \in 0 .. MaxRev, tok \in granted \union {None} :
         \/ \E c \in Collections :
               \/ \E sensitive \in BOOLEAN : FlagTransition(c, sensitive, expected, tok)
               \/ FlagRollback(c, expected, tok)
         \/ \E i \in Installs, mode \in {"on", "off"} :
               CloudTransition(i, mode, expected, tok) \/ ModelTransition(i, mode, expected, tok)
         \/ \E pair \in Pairs, t \in Terms \union {None} : ByomTransition(pair, t, expected, tok)
    BY <1>3 DEF Transition
  <2>2. CASE \E c \in Collections, sensitive \in BOOLEAN :
                FlagTransition(c, sensitive, expected, tok)
    BY <2>2, FlagTransitionMoves
  <2>3. CASE \E c \in Collections : FlagRollback(c, expected, tok)
    BY <2>3, FlagRollbackMoves
  <2>4. CASE \E i \in Installs, mode \in {"on", "off"} : CloudTransition(i, mode, expected, tok)
    BY <2>4, CloudTransitionMoves
  <2>5. CASE \E i \in Installs, mode \in {"on", "off"} : ModelTransition(i, mode, expected, tok)
    BY <2>5, ModelTransitionMoves
  <2>6. CASE \E pair \in Pairs, t \in Terms \union {None} :
                ByomTransition(pair, t, expected, tok)
    BY <2>6, ByomTransitionMoves
  <2>7. QED
    BY <2>1, <2>2, <2>3, <2>4, <2>5, <2>6
<1>4. CASE Send \/ Invoke
  BY <1>4, NothingMoves DEF Send, Invoke, Answer
<1>5. CASE UNCHANGED gatesVars
  BY <1>5, NothingMoves DEF gatesVars
<1>6. QED
  BY <1>1, <1>2, <1>3, <1>4, <1>5 DEF GatesNext

LEMMA GatesStart == ASSUME GatesConstants, GatesInit PROVE GatesInv
<1>1. StoresOK
  BY DEF GatesInit, StoresOK
<1>2. ASSUME NEW s \in Subjects PROVE ~ IsOpen(s)
  <2>1. CASE \E c \in Collections : s = <<"collection", c>>
    BY <2>1, CollectionRead DEF GatesInit, reads_sensitive, Registered
  <2>2. CASE \E i \in Installs : s = <<"cloud", i>>
    BY <2>2, CloudRead DEF GatesInit, reads_off, Registered
  <2>3. CASE \E i \in Installs : s = <<"large", i>>
    BY <2>3, LargeRead DEF GatesInit, model_reads_off, Registered
  <2>4. CASE \E pair \in Pairs, t \in Terms : s = <<"terms", pair, t>>
    BY <2>4, TermsRead DEF GatesInit, GatesConstants, Accepted, Registered
  <2>5. QED
    BY <2>1, <2>2, <2>3, <2>4, Kinds
<1>3. QED
  BY <1>1, <1>2 DEF GatesInv, OpenAsShown, OpenSubjects, SpentIsOld, GatesInit

LEMMA GatesKept ==
    ASSUME GatesConstants, GatesInv, StoresOK', GatesMove
    PROVE  GatesInv'
<1>1. RevisionsRise /\ granted \subseteq granted'
  BY DEF GatesMove, Opening, Closing, Granting
<1>2. CASE Granting
  <2>1. \A s \in Subjects : Same(s)
    BY <1>2, Kinds, StoresApart DEF Granting
  <2>2. OpenAsShown'
    BY <1>1, <2>1 DEF GatesInv, OpenAsShown, OpenSubjects, Same
  <2>3. SpentIsOld'
    BY <1>2, <2>1 DEF GatesInv, SpentIsOld, Granting, Same, Approvals
  <2>4. QED
    BY <2>2, <2>3 DEF GatesInv
<1>3. CASE Closing
  <2>1. OpenAsShown'
    BY <1>1, <1>3 DEF GatesInv, OpenAsShown, OpenSubjects, Closing, StaysOpen
  <2>2. SpentIsOld'
    <3>1. ASSUME NEW tok \in spent'
          PROVE  tok \in Approvals /\ Shown(tok.subject)' /\ tok.rev < RevOf(tok.subject)'
      <4>1. tok \in Approvals /\ Shown(tok.subject) /\ tok.rev < RevOf(tok.subject)
        BY <1>3, <3>1 DEF Closing, GatesInv, SpentIsOld
      <4>2. tok.subject \in Subjects /\ tok.rev \in 0 .. MaxRev
        BY <4>1 DEF Approvals
      <4>3. QED
        BY <1>1, <4>1, <4>2 DEF RevisionsRise, GatesConstants
    <3>2. QED
      BY <3>1 DEF SpentIsOld
  <2>3. QED
    BY <2>1, <2>2 DEF GatesInv
<1>4. ASSUME NEW tok \in granted, Opening(tok) PROVE GatesInv'
  <2>1. tok \in Approvals /\ tok.subject \in Subjects /\ tok.rev \in 0 .. MaxRev
    BY DEF GatesInv, StoresOK, Approvals
  <2>2. OpenAsShown'
    <3>1. ASSUME NEW s \in Subjects, IsOpen(s)'
          PROVE  [subject |-> s, rev |-> RevOf(s)' - 1] \in granted'
      <4>1. CASE s = tok.subject
        <5>1. RevOf(s)' - 1 = tok.rev
          BY <1>4, <2>1, <4>1 DEF Opening, GatesConstants
        <5>2. tok = [subject |-> s, rev |-> tok.rev]
          BY <2>1, <4>1 DEF Approvals
        <5>3. QED
          BY <1>4, <5>1, <5>2 DEF Opening
      <4>2. CASE s # tok.subject
        BY <1>4, <3>1, <4>2 DEF GatesInv, OpenAsShown, OpenSubjects, Opening, StaysOpen
      <4>3. QED
        BY <4>1, <4>2
    <3>2. QED
      BY <3>1 DEF OpenAsShown, OpenSubjects
  <2>3. SpentIsOld'
    <3>1. ASSUME NEW t \in spent
          PROVE  t \in Approvals /\ Shown(t.subject)' /\ t.rev < RevOf(t.subject)'
      <4>1. t \in Approvals /\ Shown(t.subject) /\ t.rev < RevOf(t.subject)
        BY DEF GatesInv, SpentIsOld
      <4>2. t.subject \in Subjects /\ t.rev \in 0 .. MaxRev
        BY <4>1 DEF Approvals
      <4>3. QED
        BY <1>1, <4>1, <4>2 DEF RevisionsRise, GatesConstants
    <3>2. Shown(tok.subject)' /\ tok.rev < RevOf(tok.subject)'
      BY <1>1, <1>4, <2>1 DEF Opening, RevisionsRise, GatesConstants
    <3>3. spent' = spent \union {tok}
      BY <1>4 DEF Opening
    <3>4. QED
      BY <2>1, <3>1, <3>2, <3>3 DEF SpentIsOld
  <2>4. QED
    BY <2>2, <2>3 DEF GatesInv
<1>5. QED
  BY <1>2, <1>3, <1>4 DEF GatesMove

LEMMA GatesInvariance == ASSUME GatesConstants PROVE GatesSpec => []GatesInv
<1>1. GatesInit => GatesInv
  BY GatesStart
<1>2. GatesInv /\ [GatesNext]_gatesVars => GatesInv'
  BY GatesMoves, GatesKept DEF GatesInv
<1>3. QED
  BY <1>1, <1>2, PTL DEF GatesSpec

\* The stores keep the promise of Consent (KeepsPromise): a step that opens a
\* subject uses an approval that is not used yet, for it is younger than every
\* approval that is.
LEMMA PromiseKept == ASSUME GatesConstants PROVE GatesSpec => KeepsPromise
<1>1. GatesInit => Promise!ConsentInit
  <2> SUFFICES ASSUME GatesInit PROVE Promise!ConsentInit
    OBVIOUS
  <2>1. GatesInv
    BY GatesStart
  <2>2. OpenSubjects = {}
    BY <2>1 DEF GatesInv, OpenAsShown, GatesInit
  <2>3. QED
    BY <2>2 DEF Promise!ConsentInit, GatesInit
<1>2. GatesInv /\ [GatesNext]_gatesVars
        => [Promise!ConsentNext]_<<OpenSubjects, granted, spent>>
  <2> SUFFICES ASSUME GatesInv, [GatesNext]_gatesVars
               PROVE  [Promise!ConsentNext]_<<OpenSubjects, granted, spent>>
    OBVIOUS
  <2>1. GatesMove
    BY GatesMoves DEF GatesInv
  <2>2. CASE Closing
    <3>1. OpenSubjects' \subseteq OpenSubjects
      BY <2>2 DEF Closing, StaysOpen, OpenSubjects
    <3>2. Promise!Close
      BY <2>2, <3>1 DEF Promise!Close, Closing
    <3>3. QED
      BY <3>2 DEF Promise!ConsentNext
  <2>3. CASE Granting
    <3>1. PICK s \in Subjects :
             Shown(s) /\ granted' = granted \union {[subject |-> s, rev |-> RevOf(s)]}
      BY <2>3 DEF Granting
    <3>2. [subject |-> s, rev |-> RevOf(s)] \in Approvals
      BY <3>1, RevTypes DEF GatesInv, Approvals
    <3>3. \A u \in Subjects : Same(u)
      BY <2>3, Kinds, StoresApart DEF Granting
    <3>4. OpenSubjects' = OpenSubjects /\ spent' = spent
      BY <2>3, <3>3 DEF Same, OpenSubjects, Granting
    <3>5. Promise!Give([subject |-> s, rev |-> RevOf(s)])
      BY <3>1, <3>4 DEF Promise!Give
    <3>6. QED
      BY <3>2, <3>5 DEF Promise!ConsentNext
  <2>4. ASSUME NEW tok \in granted, Opening(tok)
        PROVE  Promise!ConsentNext
    <3>1. tok \in Approvals /\ tok.subject \in Subjects /\ tok.rev \in 0 .. MaxRev
      BY DEF GatesInv, StoresOK, Approvals
    <3>2. tok \notin spent
      BY <2>4, <3>1 DEF Opening, GatesInv, SpentIsOld, GatesConstants
    <3>3. OpenSubjects' \subseteq OpenSubjects \union {tok.subject}
      BY <2>4 DEF Opening, StaysOpen, OpenSubjects
    <3>4. tok.subject \in OpenSubjects'
      BY <2>4, <3>1 DEF Opening, OpenSubjects
    <3>5. Promise!Open(tok)
      BY <2>4, <3>2, <3>3, <3>4 DEF Promise!Open, Opening
    <3>6. QED
      BY <3>1, <3>5 DEF Promise!ConsentNext
  <2>5. QED
    BY <2>1, <2>2, <2>3, <2>4 DEF GatesMove
<1>3. QED
  BY <1>1, <1>2, GatesInvariance, PTL DEF GatesSpec, KeepsPromise, Promise!ConsentSpec

\* Only a send and an invocation answer, and they ask every store that matters.
LEMMA AnswersAsk ==
    ASSUME GatesConstants, [GatesNext]_gatesVars, answer' # answer, answer'.allowed
    PROVE  answer'.needs \subseteq OpenSubjects
<1>1. CASE Send
  <2>1. PICK i \in Installs, p \in Providers, c \in Collections, t \in Terms :
           Answer(CloudVerdict(i, c) /\ Accepted(<<i, p>>) = t,
                  {<<"cloud", i>>, <<"collection", c>>, <<"terms", <<i, p>>, t>>})
    BY <1>1 DEF Send
  <2>2. /\ CloudVerdict(i, c) /\ Accepted(<<i, p>>) = t
        /\ answer'.needs = {<<"cloud", i>>, <<"collection", c>>, <<"terms", <<i, p>>, t>>}
    BY <2>1 DEF Answer
  <2>3. <<i, p>> \in Pairs
    BY DEF Pairs
  <2>4. <<"terms", <<i, p>>, t>> \in OpenSubjects
    BY <2>2, <2>3, TermsRead DEF OpenSubjects
  <2>5. <<"cloud", i>> \in OpenSubjects /\ <<"collection", c>> \in OpenSubjects
    BY <2>2, CloudRead, CollectionRead DEF OpenSubjects, CloudVerdict
  <2>6. QED
    BY <2>2, <2>4, <2>5
<1>2. CASE Invoke
  <2>1. PICK i \in Installs : Answer(~ model_reads_off(i), {<<"large", i>>})
    BY <1>2 DEF Invoke
  <2>2. ~ model_reads_off(i) /\ answer'.needs = {<<"large", i>>}
    BY <2>1 DEF Answer
  <2>3. QED
    BY <2>2, LargeRead DEF OpenSubjects
<1>3. CASE \/ RegisterFlag \/ RegisterCloud \/ RegisterProvider \/ RegisterModel
           \/ Approve \/ Transition
  BY <1>3 DEF RegisterFlag, RegisterCloud, RegisterProvider, RegisterModel, Approve,
              Transition, FlagTransition, FlagRollback, CloudTransition, ModelTransition,
              ByomTransition
<1>4. QED
  BY <1>1, <1>2, <1>3 DEF GatesNext, gatesVars

\* A revision of an acceptance moves up by one or, at the largest, not at all.
LEMMA RevisionsEnd ==
    ASSUME GatesConstants, StoresOK, [GatesNext]_gatesVars,
           NEW pair \in Registered(accepted)
    PROVE  /\ accepted'[pair].rev \in accepted[pair].rev .. MaxRev
           /\ accepted[pair] = [terms |-> None, rev |-> MaxRev]
                => accepted'[pair] = accepted[pair]
<1>1. pair \in Pairs /\ accepted[pair] \in Acceptances /\ accepted[pair] # None
  BY DEF Registered, StoresOK
<1>2. accepted[pair].rev \in 0 .. MaxRev
  BY <1>1 DEF Acceptances
<1>3. CASE accepted'[pair] = accepted[pair]
  BY <1>2, <1>3 DEF GatesConstants
<1>4. CASE RegisterProvider
  <2>1. PICK q \in Pairs \ Registered(accepted) :
           accepted' = [accepted EXCEPT ![q] = [terms |-> None, rev |-> 0]]
    BY <1>4 DEF RegisterProvider
  <2>2. q # pair
    OBVIOUS
  <2>3. QED
    BY <1>1, <1>3, <2>1, <2>2 DEF StoresOK
<1>5. ASSUME NEW q \in Pairs, NEW t \in Terms \union {None},
             NEW expected, NEW tok, ByomTransition(q, t, expected, tok)
      PROVE  /\ accepted'[pair].rev \in accepted[pair].rev .. MaxRev
             /\ accepted[pair] = [terms |-> None, rev |-> MaxRev]
                  => accepted'[pair] = accepted[pair]
  <2> DEFINE rev == accepted[q].rev
             next == [terms |-> t, rev |-> IF rev = MaxRev THEN rev ELSE rev + 1]
  <2>1. accepted' = [accepted EXCEPT ![q] = next] /\ t # accepted[q].terms
        /\ (t = None \/ rev < MaxRev)
    BY <1>5 DEF ByomTransition
  <2>2. CASE q # pair
    BY <1>1, <1>3, <2>1, <2>2 DEF StoresOK
  <2>3. CASE q = pair
    <3>1. accepted'[pair] = next
      BY <1>1, <2>1, <2>3 DEF StoresOK
    <3>2. next.rev \in rev .. MaxRev
      BY <1>2, <2>3 DEF GatesConstants
    <3>3. accepted[pair] # [terms |-> None, rev |-> MaxRev]
      BY <2>1, <2>3 DEF GatesConstants
    <3>4. QED
      BY <2>3, <3>1, <3>2, <3>3
  <2>4. QED
    BY <2>2, <2>3
<1>6. CASE \/ RegisterFlag \/ RegisterCloud \/ RegisterModel
           \/ Approve \/ Send \/ Invoke \/ UNCHANGED gatesVars
  BY <1>3, <1>6 DEF RegisterFlag, RegisterCloud, RegisterModel, Approve, Send, Invoke,
              Answer, gatesVars
<1>7. CASE Transition
  <2>1. CASE accepted' = accepted
    BY <1>3, <2>1
  <2>2. CASE accepted' # accepted
    <3>1. PICK expected \in 0 .. MaxRev, tok \in granted \union {None} :
            \/ \E c \in Collections :
                  \/ \E sensitive \in BOOLEAN : FlagTransition(c, sensitive, expected, tok)
                  \/ FlagRollback(c, expected, tok)
            \/ \E i \in Installs, mode \in {"on", "off"} :
                  CloudTransition(i, mode, expected, tok)
                  \/ ModelTransition(i, mode, expected, tok)
            \/ \E q \in Pairs, t \in Terms \union {None} :
                  ByomTransition(q, t, expected, tok)
      BY <1>7 DEF Transition
    <3>2. \A c, sensitive : ~ FlagTransition(c, sensitive, expected, tok)
                            /\ ~ FlagRollback(c, expected, tok)
      BY <2>2 DEF FlagTransition, FlagRollback
    <3>3. \A i, mode : ~ CloudTransition(i, mode, expected, tok)
                       /\ ~ ModelTransition(i, mode, expected, tok)
      BY <2>2 DEF CloudTransition, ModelTransition
    <3>4. QED
      BY <1>5, <3>1, <3>2, <3>3
  <2>3. QED
    BY <2>1, <2>2
<1>8. QED
  BY <1>4, <1>6, <1>7 DEF GatesNext

\* Consents: whatever requests arrive in whatever order, nothing opens but by an
\* approval the user gave for it, and no approval opens twice; an allowed send or
\* invocation has every consent it needs; the largest revision ends an acceptance.
THEOREM StoresConsent == ASSUME GatesConstants PROVE GatesSpec => Consents
<1>1. [GatesNext]_gatesVars
        => [answer' # answer /\ answer'.allowed => answer'.needs \subseteq OpenSubjects]_gatesVars
  BY AnswersAsk
<1>2. GatesInv /\ [GatesNext]_gatesVars
        => [\A pair \in Registered(accepted) :
              /\ accepted'[pair].rev \in accepted[pair].rev .. MaxRev
              /\ accepted[pair] = [terms |-> None, rev |-> MaxRev]
                   => accepted'[pair] = accepted[pair]]_gatesVars
  BY RevisionsEnd DEF GatesInv
<1>3. GatesSpec => AllowedWithConsent
  BY <1>1, PTL DEF GatesSpec, AllowedWithConsent
<1>4. GatesSpec => EndOfRevisions
  BY <1>2, GatesInvariance, PTL DEF GatesSpec, EndOfRevisions
<1>5. QED
  BY <1>3, <1>4, PromiseKept DEF Consents

\* The way back of one flag.
WayOf(hist, sensitive) ==
    LET path == Append(hist, sensitive)
    IN  path[1] /\ \A n \in 2 .. Len(path) : path[n] # path[n - 1]

\* A change to the other value keeps it, and so does a rollback.
LEMMA WayOn ==
    ASSUME NEW hist \in Seq(BOOLEAN), NEW was \in BOOLEAN, NEW next \in BOOLEAN,
           WayOf(hist, was), next # was
    PROVE  WayOf(Append(hist, was), next)
<1> DEFINE path == Append(hist, was)
           longer == Append(path, next)
<1>1. path \in Seq(BOOLEAN) /\ Len(path) = Len(hist) + 1 /\ Len(hist) \in Nat
      /\ path[Len(path)] = was
  BY AppendProperties, LenProperties
<1>2. path[1] /\ \A n \in 2 .. Len(path) : path[n] # path[n - 1]
  BY DEF WayOf
<1> HIDE DEF path
<1>3. Len(longer) = Len(path) + 1 /\ longer[Len(path) + 1] = next
      /\ \A n \in 1 .. Len(path) : longer[n] = path[n]
  BY <1>1, AppendProperties
<1> HIDE DEF longer
<1>4. longer[1] = path[1]
  BY <1>1, <1>3
<1>5. ASSUME NEW n \in 2 .. Len(longer) PROVE longer[n] # longer[n - 1]
  <2>1. CASE n = Len(path) + 1
    <3>1. Len(path) \in 1 .. Len(path) /\ n - 1 = Len(path)
      BY <1>1, <2>1
    <3>2. longer[n - 1] = was /\ longer[n] = next
      BY <1>1, <1>3, <2>1, <3>1
    <3>3. QED
      BY <3>2
  <2>2. CASE n # Len(path) + 1
    <3>1. n \in 2 .. Len(path) /\ n \in 1 .. Len(path) /\ n - 1 \in 1 .. Len(path)
      BY <1>1, <1>3, <2>2
    <3>2. longer[n] = path[n] /\ longer[n - 1] = path[n - 1]
      BY <1>3, <3>1
    <3>3. QED
      BY <1>2, <3>1, <3>2
  <2>3. QED
    BY <2>1, <2>2
<1>6. QED
  BY <1>2, <1>4, <1>5 DEF WayOf, path, longer

LEMMA WayUp ==
    ASSUME NEW hist \in Seq(BOOLEAN), hist # <<>>, NEW was \in BOOLEAN, WayOf(hist, was)
    PROVE  WayOf(SubSeq(hist, 1, Len(hist) - 1), hist[Len(hist)])
<1> DEFINE depth == Len(hist)
           shorter == SubSeq(hist, 1, depth - 1)
<1>1. depth \in Nat /\ depth >= 1
  BY EmptySeq, LenProperties
<1>2. \A n \in 1 .. depth : hist[n] \in BOOLEAN
  BY ElementOfSeq
<1>3. /\ shorter \in Seq(BOOLEAN) /\ Len(shorter) = depth - 1
      /\ \A n \in 1 .. depth - 1 : shorter[n] = hist[n]
  <2>1. \A n \in 1 .. depth - 1 : hist[n] \in BOOLEAN
    BY <1>1, <1>2
  <2>2. shorter \in Seq(BOOLEAN)
        /\ Len(shorter) = (IF 1 <= depth - 1 THEN depth - 1 - 1 + 1 ELSE 0)
        /\ \A n \in 1 .. depth - 1 - 1 + 1 : shorter[n] = hist[1 + n - 1]
    BY <1>1, <2>1, SubSeqProperties
  <2> HIDE DEF shorter, depth
  <2>3. Len(shorter) = depth - 1
    BY <1>1, <2>2
  <2>4. ASSUME NEW n \in 1 .. depth - 1 PROVE shorter[n] = hist[n]
    <3>1. n \in 1 .. depth - 1 - 1 + 1 /\ 1 + n - 1 = n
      BY <1>1
    <3>2. QED
      BY <2>2, <3>1
  <2>5. QED
    BY <2>2, <2>3, <2>4
<1> DEFINE path == Append(hist, was)
           back == Append(shorter, hist[depth])
<1>4. \A n \in 1 .. depth : path[n] = hist[n]
  BY AppendProperties
<1>5. Len(path) = depth + 1
  BY AppendProperties
<1>6. path[1] /\ \A n \in 2 .. Len(path) : path[n] # path[n - 1]
  BY DEF WayOf
<1> HIDE DEF shorter, path, depth
<1>7. hist[depth] \in BOOLEAN
  BY <1>1, <1>2
<1>8. Len(back) = Len(shorter) + 1 /\ back[Len(shorter) + 1] = hist[depth]
      /\ \A n \in 1 .. Len(shorter) : back[n] = shorter[n]
  BY <1>3, <1>7, AppendProperties
<1> HIDE DEF back
<1>9. \A n \in 1 .. depth : back[n] = path[n]
  <2> SUFFICES ASSUME NEW n \in 1 .. depth PROVE back[n] = path[n]
    OBVIOUS
  <2>1. CASE n = depth
    BY <1>1, <1>3, <1>4, <1>8, <2>1
  <2>2. CASE n # depth
    <3>1. n \in 1 .. depth - 1
      BY <1>1, <2>2
    <3>2. QED
      BY <1>3, <1>4, <1>8, <3>1
  <2>3. QED
    BY <2>1, <2>2
<1>10. Len(back) = depth
  BY <1>1, <1>3, <1>8
<1>11. back[1] = path[1]
  BY <1>1, <1>9
<1>12. ASSUME NEW n \in 2 .. Len(back) PROVE back[n] # back[n - 1]
  <2>1. n \in 2 .. Len(path) /\ n \in 1 .. depth /\ n - 1 \in 1 .. depth
    BY <1>1, <1>5, <1>10
  <2>2. QED
    BY <1>6, <1>9, <2>1
<1>13. QED
  BY <1>6, <1>11, <1>12 DEF WayOf, back, shorter, depth

LEMMA WayBackKept ==
    ASSUME GatesConstants, StoresOK, WayBack, [GatesNext]_gatesVars
    PROVE  WayBack'
<1>1. WayBack <=> \A c \in Registered(flags) : WayOf(flags[c].hist, flags[c].sensitive)
  BY DEF WayBack, WayOf
<1>2. WayBack' <=> \A c \in Registered(flags') : WayOf(flags'[c].hist, flags'[c].sensitive)
  BY DEF WayBack, WayOf
<1>3. ASSUME NEW c \in Registered(flags)
      PROVE  /\ c \in Collections /\ flags[c].hist \in Seq(BOOLEAN)
             /\ flags[c].sensitive \in BOOLEAN
             /\ WayOf(flags[c].hist, flags[c].sensitive)
  <2>1. c \in Collections /\ flags[c] \in Flags
    BY DEF Registered, StoresOK
  <2>2. QED
    BY <1>1, <2>1 DEF Flags
\* One flag is changed, to a state that keeps its way back.
<1>4. ASSUME NEW c \in Collections, NEW next,
             flags' = [flags EXCEPT ![c] = next], WayOf(next.hist, next.sensitive)
      PROVE  WayBack'
  <2>1. ASSUME NEW d \in Registered(flags')
        PROVE  WayOf(flags'[d].hist, flags'[d].sensitive)
    <3>1. CASE d = c
      <4>1. flags'[d] = next
        BY <1>4, <3>1 DEF StoresOK
      <4>2. QED
        BY <1>4, <4>1
    <3>2. CASE d # c
      <4>1. flags'[d] = flags[d] /\ d \in Registered(flags)
        BY <1>4, <3>2 DEF StoresOK, Registered
      <4>2. QED
        BY <1>3, <4>1
    <3>3. QED
      BY <3>1, <3>2
  <2>2. QED
    BY <1>2, <2>1
<1>5. CASE flags' = flags
  BY <1>1, <1>2, <1>5
<1>6. CASE RegisterFlag
  <2> DEFINE next == [sensitive |-> TRUE, rev |-> 0, hist |-> <<>>]
  <2>1. PICK c \in Collections : flags' = [flags EXCEPT ![c] = next]
    BY <1>6 DEF RegisterFlag
  <2> DEFINE path == Append(<<>>, TRUE)
  <2>2. Len(path) = 1 /\ path[1] = TRUE
    <3>1. <<>> \in Seq(BOOLEAN) /\ Len(<<>>) = 0
      BY EmptySeq
    <3>2. Len(path) = Len(<<>>) + 1 /\ path[Len(<<>>) + 1] = TRUE
      BY <3>1, AppendProperties, ZenonT(60)
    <3>3. QED
      BY <3>1, <3>2
  <2>3. WayOf(next.hist, next.sensitive)
    BY <2>2 DEF WayOf
  <2>4. QED
    BY <1>4, <2>1, <2>3
<1>7. ASSUME NEW c \in Collections, NEW sensitive \in BOOLEAN, NEW expected, NEW tok,
             FlagTransition(c, sensitive, expected, tok)
      PROVE  WayBack'
  <2> DEFINE next == [sensitive |-> sensitive, rev |-> flags[c].rev + 1,
                      hist |-> Append(flags[c].hist, flags[c].sensitive)]
  <2>1. c \in Registered(flags) /\ sensitive # flags[c].sensitive
        /\ flags' = [flags EXCEPT ![c] = next]
    BY <1>7 DEF FlagTransition
  <2>2. WayOf(next.hist, next.sensitive)
    BY <1>3, <2>1, WayOn
  <2>3. QED
    BY <1>4, <2>1, <2>2
<1>8. ASSUME NEW c \in Collections, NEW expected, NEW tok, FlagRollback(c, expected, tok)
      PROVE  WayBack'
  <2> DEFINE depth == Len(flags[c].hist)
             next == [sensitive |-> flags[c].hist[depth], rev |-> flags[c].rev + 1,
                      hist |-> SubSeq(flags[c].hist, 1, depth - 1)]
  <2>1. c \in Registered(flags) /\ flags[c].hist # <<>>
        /\ flags' = [flags EXCEPT ![c] = next]
    BY <1>8 DEF FlagRollback
  <2>2. WayOf(next.hist, next.sensitive)
    BY <1>3, <2>1, WayUp
  <2>3. QED
    BY <1>4, <2>1, <2>2
<1>9. CASE Transition /\ flags' # flags
  <2>1. \/ \E expected \in 0 .. MaxRev, tok \in granted \union {None}, c \in Collections,
              sensitive \in BOOLEAN : FlagTransition(c, sensitive, expected, tok)
        \/ \E expected \in 0 .. MaxRev, tok \in granted \union {None}, c \in Collections :
              FlagRollback(c, expected, tok)
    <3>1. PICK expected \in 0 .. MaxRev, tok \in granted \union {None} :
            \/ \E c \in Collections :
                  \/ \E sensitive \in BOOLEAN : FlagTransition(c, sensitive, expected, tok)
                  \/ FlagRollback(c, expected, tok)
            \/ \E i \in Installs, mode \in {"on", "off"} :
                  CloudTransition(i, mode, expected, tok)
                  \/ ModelTransition(i, mode, expected, tok)
            \/ \E pair \in Pairs, t \in Terms \union {None} :
                  ByomTransition(pair, t, expected, tok)
      BY <1>9 DEF Transition
    <3>2. \A i, mode : ~ CloudTransition(i, mode, expected, tok)
                       /\ ~ ModelTransition(i, mode, expected, tok)
      BY <1>9 DEF CloudTransition, ModelTransition
    <3>3. \A pair, t : ~ ByomTransition(pair, t, expected, tok)
      BY <1>9 DEF ByomTransition
    <3>4. QED
      BY <3>1, <3>2, <3>3
  <2>2. QED
    BY <1>7, <1>8, <2>1
<1>10. CASE RegisterCloud \/ RegisterProvider \/ RegisterModel \/ Approve
            \/ Send \/ Invoke \/ UNCHANGED gatesVars
  BY <1>5, <1>10 DEF RegisterCloud, RegisterProvider, RegisterModel, Approve,
                     Send, Invoke, Answer, gatesVars
<1>11. QED
  BY <1>5, <1>6, <1>9, <1>10 DEF GatesNext

LEMMA WayBackAlways == ASSUME GatesConstants PROVE GatesSpec => []WayBack
<1>1. GatesInit => WayBack
  BY DEF GatesInit, WayBack, Registered
<1>2. GatesInv /\ WayBack /\ [GatesNext]_gatesVars => WayBack'
  BY WayBackKept DEF GatesInv
<1>3. QED
  BY <1>1, <1>2, GatesInvariance, PTL DEF GatesSpec

-----------------------------------------------------------------------------
(***************************************************************************)
(* The deletion.  What a store still holds is pending, and every call that *)
(* is under way has it before it or has failed to erase it: the calls      *)
(* overlap, but each alone knows all that is left.                         *)
(***************************************************************************)
Names == ToSet(Stores)
Erasing == [todo : Seq(Names), left : Seq(Names), active : BOOLEAN]

DeleteTypes ==
    /\ col \in Records \union {Absent}
    /\ call \in [Callers -> Erasing]
    /\ holds \subseteq Names /\ (col = Absent => holds = {})

CallsKnow == \A k \in Callers : call[k].active =>
    /\ col # Absent /\ col.state = "deleted"
    /\ holds \subseteq ToSet(call[k].todo) \union ToSet(call[k].left)

DeleteInv == DeleteTypes /\ CallsKnow /\ NothingForgotten

LEMMA SetOfAppend ==
    ASSUME NEW S, NEW seq \in Seq(S), NEW x \in S
    PROVE  ToSet(Append(seq, x)) = ToSet(seq) \union {x}
<1> DEFINE longer == Append(seq, x)
<1>1. longer \in Seq(S) /\ Len(longer) = Len(seq) + 1 /\ longer[Len(seq) + 1] = x
      /\ \A n \in 1 .. Len(seq) : longer[n] = seq[n]
  BY AppendProperties
<1>2. Len(seq) \in Nat /\ DOMAIN seq = 1 .. Len(seq) /\ DOMAIN longer = 1 .. Len(longer)
  BY <1>1, LenProperties
<1> HIDE DEF longer
<1>3. DOMAIN longer = DOMAIN seq \union {Len(seq) + 1}
  BY <1>1, <1>2
<1>4. ToSet(longer) = ToSet(seq) \union {x}
  BY <1>1, <1>2, <1>3 DEF ToSet
<1>5. QED
  BY <1>4 DEF longer

LEMMA SetOfTail ==
    ASSUME NEW S, NEW seq \in Seq(S), seq # <<>>
    PROVE  ToSet(seq) = {Head(seq)} \union ToSet(Tail(seq))
<1> DEFINE tail == Tail(seq)
           head == Head(seq)
<1>1. tail \in Seq(S) /\ Len(tail) = Len(seq) - 1 /\ \A n \in 1 .. Len(tail) : tail[n] = seq[n + 1]
  BY HeadTailProperties
<1>2. Len(seq) \in Nat /\ Len(seq) > 0 /\ DOMAIN seq = 1 .. Len(seq)
      /\ DOMAIN tail = 1 .. Len(tail)
  BY <1>1, LenProperties, EmptySeq
<1>3. head = seq[1]
  OBVIOUS
<1> HIDE DEF tail, head
<1>4. ASSUME NEW x \in ToSet(seq) PROVE x \in {head} \union ToSet(tail)
  <2>1. PICK n \in 1 .. Len(seq) : x = seq[n]
    BY <1>2 DEF ToSet
  <2>2. CASE n = 1
    BY <1>3, <2>1, <2>2
  <2>3. CASE n # 1
    <3>1. n - 1 \in 1 .. Len(tail) /\ n - 1 + 1 = n
      BY <1>1, <1>2, <2>3
    <3>2. x = tail[n - 1]
      BY <1>1, <2>1, <3>1
    <3>3. QED
      BY <1>2, <3>1, <3>2 DEF ToSet
  <2>4. QED
    BY <2>2, <2>3
<1>5. ASSUME NEW x \in {head} \union ToSet(tail) PROVE x \in ToSet(seq)
  <2>1. CASE x = head
    BY <1>2, <1>3, <2>1 DEF ToSet
  <2>2. CASE x \in ToSet(tail)
    <3>1. PICK n \in 1 .. Len(tail) : x = tail[n]
      BY <1>2, <2>2 DEF ToSet
    <3>2. n + 1 \in 1 .. Len(seq)
      BY <1>1, <1>2
    <3>3. QED
      BY <1>1, <1>2, <3>1, <3>2 DEF ToSet
  <2>3. QED
    BY <2>1, <2>2
<1>6. ToSet(seq) = {head} \union ToSet(tail)
  BY <1>4, <1>5
<1>7. QED
  BY <1>6 DEF head, tail

LEMMA DeleteStarts == ASSUME DeleteConstants, DeleteInit PROVE DeleteInv
<1>1. NoCall \in Erasing /\ ~ NoCall.active
  BY EmptySeq DEF NoCall, Erasing
<1>2. DeleteTypes
  BY <1>1 DEF DeleteTypes, DeleteInit
<1>3. CallsKnow /\ NothingForgotten
  BY <1>1 DEF CallsKnow, NothingForgotten, DeleteInit
<1>4. QED
  BY <1>2, <1>3 DEF DeleteInv

LEMMA TombstoneKeeps ==
    ASSUME DeleteConstants, DeleteInv, NEW k \in Callers, NEW expected, NEW approved,
           Tombstone(k, expected, approved)
    PROVE  DeleteInv'
<1> DEFINE targets == IF col.state = "deleted" THEN col.pending ELSE Stores
           rev == IF col.state = "deleted" \/ col.rev = LastRev THEN col.rev ELSE col.rev + 1
           next == [state |-> "deleted", rev |-> rev, pending |-> targets]
           started == [todo |-> targets, left |-> <<>>, active |-> TRUE]
<1>1. col \in Records
  BY DEF DeleteInv, DeleteTypes, Tombstone
<1>2. col.rev \in 0 .. LastRev /\ col.pending \in Seq(Names) /\ col.state \in {"live", "deleted"}
  BY <1>1 DEF Records, Names
<1>3. targets \in Seq(Names) /\ rev \in 0 .. LastRev
  BY <1>2 DEF DeleteConstants, Names
<1>4. next \in Records /\ next # Absent
  BY <1>3 DEF Records, DeleteConstants, Names
<1>5. started \in Erasing
  BY <1>3, EmptySeq DEF Erasing
<1>6. col' = next /\ call' = [call EXCEPT ![k] = started] /\ holds' = holds
  BY DEF Tombstone
<1>7. holds \subseteq ToSet(targets)
  BY <1>1, <1>2 DEF DeleteInv, DeleteTypes, NothingForgotten, Names, Tombstone
<1>8. DeleteTypes'
  BY <1>4, <1>5, <1>6 DEF DeleteInv, DeleteTypes
<1>9. CallsKnow'
  <2>1. ASSUME NEW j \in Callers, call'[j].active
        PROVE  holds' \subseteq ToSet(call'[j].todo) \union ToSet(call'[j].left)
    <3>1. CASE j = k
      <4>1. call'[j] = started
        BY <1>6, <3>1 DEF DeleteInv, DeleteTypes
      <4>2. QED
        BY <1>6, <1>7, <4>1
    <3>2. CASE j # k
      <4>1. call'[j] = call[j]
        BY <1>6, <3>2 DEF DeleteInv, DeleteTypes
      <4>2. QED
        BY <1>6, <2>1, <4>1 DEF DeleteInv, CallsKnow
    <3>3. QED
      BY <3>1, <3>2
  <2>2. QED
    BY <1>4, <1>6, <2>1 DEF CallsKnow
<1>10. NothingForgotten'
  BY <1>6, <1>7 DEF NothingForgotten
<1>11. QED
  BY <1>8, <1>9, <1>10 DEF DeleteInv

LEMMA EraseKeeps ==
    ASSUME DeleteConstants, DeleteInv, NEW k \in Callers, Erase(k)
    PROVE  DeleteInv'
<1> DEFINE todo == call[k].todo
           left == call[k].left
<1>1. call[k] \in Erasing /\ todo \in Seq(Names) /\ left \in Seq(Names) /\ todo # <<>>
      /\ call[k].active
  <2>1. call[k] \in Erasing
    BY DEF DeleteInv, DeleteTypes
  <2>2. QED
    BY <2>1 DEF Erasing, Erase
<1>2. Head(todo) \in Names /\ Tail(todo) \in Seq(Names)
  BY <1>1, HeadTailProperties
<1>3. ToSet(todo) = {Head(todo)} \union ToSet(Tail(todo))
  BY <1>1, SetOfTail
<1>4. Append(left, Head(todo)) \in Seq(Names)
      /\ ToSet(Append(left, Head(todo))) = ToSet(left) \union {Head(todo)}
  BY <1>1, <1>2, AppendProperties, SetOfAppend
<1>5. PICK next \in Erasing :
         /\ call' = [call EXCEPT ![k] = next]
         /\ holds' \subseteq holds
         /\ holds' \subseteq ToSet(next.todo) \union ToSet(next.left)
  <2>1. holds \subseteq ToSet(todo) \union ToSet(left)
    BY <1>1 DEF DeleteInv, CallsKnow
  <2>2. CASE /\ holds' = holds \ {Head(todo)}
             /\ call' = [call EXCEPT ![k].todo = Tail(@)]
    <3> DEFINE next == [call[k] EXCEPT !.todo = Tail(todo)]
    <3>1. next \in Erasing /\ next.todo = Tail(todo) /\ next.left = left
      BY <1>1, <1>2 DEF Erasing
    <3>2. call' = [call EXCEPT ![k] = next]
      BY <2>2
    <3>3. QED
      BY <1>3, <2>1, <2>2, <3>1, <3>2
  <2>3. CASE /\ holds' = holds
             /\ call' = [call EXCEPT ![k].todo = Tail(@),
                                     ![k].left = Append(@, Head(call[k].todo))]
    <3> DEFINE next == [todo |-> Tail(todo), left |-> Append(left, Head(todo)),
                        active |-> call[k].active]
    <3>1. next \in Erasing
      BY <1>1, <1>2, <1>4 DEF Erasing
    <3>2. call' = [call EXCEPT ![k] = next]
      BY <1>1, <2>3 DEF Erasing, DeleteInv, DeleteTypes
    <3>3. QED
      BY <1>3, <1>4, <2>1, <2>3, <3>1, <3>2
  <2>4. QED
    BY <2>2, <2>3 DEF Erase
<1>6. col' = col
  BY DEF Erase
<1>7. DeleteTypes'
  BY <1>5, <1>6 DEF DeleteInv, DeleteTypes
<1>8. CallsKnow'
  <2>1. ASSUME NEW j \in Callers, call'[j].active
        PROVE  /\ col # Absent /\ col.state = "deleted"
               /\ holds' \subseteq ToSet(call'[j].todo) \union ToSet(call'[j].left)
    <3>1. CASE j = k
      <4>1. call'[j] = next
        BY <1>5, <3>1 DEF DeleteInv, DeleteTypes
      <4>2. QED
        BY <1>1, <1>5, <4>1 DEF DeleteInv, CallsKnow
    <3>2. CASE j # k
      <4>1. call'[j] = call[j]
        BY <1>5, <3>2 DEF DeleteInv, DeleteTypes
      <4>2. QED
        BY <1>5, <2>1, <4>1 DEF DeleteInv, CallsKnow
    <3>3. QED
      BY <3>1, <3>2
  <2>2. QED
    BY <1>6, <2>1 DEF CallsKnow
<1>9. NothingForgotten'
  BY <1>5, <1>6 DEF DeleteInv, NothingForgotten
<1>10. QED
  BY <1>7, <1>8, <1>9 DEF DeleteInv

\* Settling and interrupts end a call.
LEMMA EndKeeps ==
    ASSUME DeleteConstants, DeleteInv, NEW k \in Callers, Settle(k) \/ Interrupt(k)
    PROVE  DeleteInv'
<1>1. NoCall \in Erasing /\ ~ NoCall.active
  BY EmptySeq DEF NoCall, Erasing
<1>2. call' = [call EXCEPT ![k] = NoCall] /\ holds' = holds
  BY DEF Settle, Interrupt
<1>3. \A j \in Callers : call'[j].active => call[j].active /\ call'[j] = call[j]
  BY <1>1, <1>2 DEF DeleteInv, DeleteTypes
<1>4. col' \in Records \union {Absent} /\ (col' = Absent <=> col = Absent)
      /\ (col # Absent => col'.state = col.state) /\ NothingForgotten'
  <2>1. CASE Interrupt(k)
    BY <2>1 DEF Interrupt, DeleteInv, DeleteTypes, NothingForgotten
  <2>2. CASE Settle(k)
    <3>1. call[k] \in Erasing /\ call[k].active /\ call[k].todo = <<>>
      BY <2>2 DEF Settle, DeleteInv, DeleteTypes
    <3>2. call[k].left \in Seq(Names)
      BY <3>1 DEF Erasing
    <3>3. col \in Records /\ col.state = "deleted"
      BY <3>1 DEF DeleteInv, DeleteTypes, CallsKnow
    <3> DEFINE next == [state |-> col.state, rev |-> col.rev, pending |-> call[k].left]
    <3>4. col' = next
      BY <2>2, <3>3 DEF Settle, Records
    <3>5. next \in Records /\ next # Absent
      BY <3>2, <3>3 DEF Records, Names, DeleteConstants
    <3>6. ToSet(call[k].todo) = {}
      <4>1. DOMAIN call[k].todo = 1 .. Len(call[k].todo) /\ Len(call[k].todo) = 0
        BY <3>1, EmptySeq, LenProperties DEF Erasing
      <4>2. QED
        BY <4>1 DEF ToSet
    <3>7. holds \subseteq ToSet(call[k].left)
      BY <3>1, <3>6 DEF DeleteInv, CallsKnow
    <3>8. QED
      BY <1>2, <3>3, <3>4, <3>5, <3>7 DEF NothingForgotten, DeleteConstants
  <2>3. QED
    BY <2>1, <2>2
<1>5. DeleteTypes'
  BY <1>1, <1>2, <1>4 DEF DeleteInv, DeleteTypes
<1>6. CallsKnow'
  BY <1>2, <1>3, <1>4 DEF DeleteInv, CallsKnow
<1>7. QED
  BY <1>4, <1>5, <1>6 DEF DeleteInv

LEMMA DeleteInvariance == ASSUME DeleteConstants PROVE DeleteSpec => []DeleteInv
<1>1. DeleteInit => DeleteInv
  BY DeleteStarts
<1>2. DeleteInv /\ [DeleteNext]_deleteVars => DeleteInv'
  <2> SUFFICES ASSUME DeleteInv, [DeleteNext]_deleteVars PROVE DeleteInv'
    OBVIOUS
  <2>1. CASE Register
    <3>1. PICK rev \in FirstRevs :
             /\ col = Absent /\ col' = [state |-> "live", rev |-> rev, pending |-> <<>>]
             /\ UNCHANGED <<holds, call, decided, calls>>
      BY <2>1 DEF Register
    <3>2. col' \in Records /\ col'.state # "deleted"
      BY <3>1, EmptySeq DEF Records, DeleteConstants
    <3>3. QED
      BY <3>1, <3>2 DEF DeleteInv, DeleteTypes, CallsKnow, NothingForgotten
  <2>2. CASE Write
    BY <2>2 DEF Write, Access, DeleteInv, DeleteTypes, CallsKnow, NothingForgotten, Names
  <2>3. CASE Decide
    BY <2>3 DEF Decide, DeleteInv, DeleteTypes, CallsKnow, NothingForgotten
  <2>4. ASSUME NEW k \in Callers, Delete(k) PROVE DeleteInv'
    BY <2>4, TombstoneKeeps DEF Delete
  <2>5. ASSUME NEW k \in Callers, Erase(k) PROVE DeleteInv'
    BY <2>5, EraseKeeps
  <2>6. ASSUME NEW k \in Callers, Settle(k) \/ Interrupt(k) PROVE DeleteInv'
    BY <2>6, EndKeeps
  <2>7. CASE UNCHANGED deleteVars
    BY <2>7 DEF deleteVars, DeleteInv, DeleteTypes, CallsKnow, NothingForgotten
  <2>8. QED
    BY <2>1, <2>2, <2>3, <2>4, <2>5, <2>6, <2>7 DEF DeleteNext
<1>3. QED
  BY <1>1, <1>2, PTL DEF DeleteSpec

\* Irreversible: nothing is deleted but by a decision of the user for the
\* collection as it was shown, and what is deleted is not read, written or shown
\* at another revision again.
LEMMA DeletionIsFinal == ASSUME DeleteConstants PROVE DeleteSpec => Irreversible
<1>1. DeleteInv /\ [DeleteNext]_deleteVars
        => [/\ (col # Absent /\ col.state = "live" /\ col'.state = "deleted")
                 => col.rev \in decided
            /\ (col # Absent /\ col.state = "deleted")
                 => col'.state = "deleted" /\ col'.rev = col.rev /\ holds' \subseteq holds]_deleteVars
  <2> SUFFICES ASSUME DeleteInv, DeleteNext
               PROVE  /\ (col # Absent /\ col.state = "live" /\ col'.state = "deleted")
                           => col.rev \in decided
                      /\ (col # Absent /\ col.state = "deleted")
                           => col'.state = "deleted" /\ col'.rev = col.rev
                                /\ holds' \subseteq holds
    OBVIOUS
  <2>1. CASE Register \/ Write \/ Decide
    BY <2>1 DEF Register, Write, Access, Decide
  <2>2. ASSUME NEW k \in Callers, Delete(k)
        PROVE  /\ (col # Absent /\ col.state = "live" /\ col'.state = "deleted")
                    => col.rev \in decided
               /\ (col # Absent /\ col.state = "deleted")
                    => col'.state = "deleted" /\ col'.rev = col.rev /\ holds' \subseteq holds
    BY <2>2 DEF Delete, Tombstone
  <2>3. ASSUME NEW k \in Callers, Erase(k) \/ Interrupt(k)
        PROVE  col' = col /\ holds' \subseteq holds
    BY <2>3 DEF Erase, Interrupt
  <2>4. ASSUME NEW k \in Callers, Settle(k)
        PROVE  col.state = "deleted" /\ col'.state = col.state /\ col'.rev = col.rev
               /\ holds' = holds
    <3>1. col \in Records /\ col.state = "deleted"
      BY <2>4 DEF Settle, DeleteInv, DeleteTypes, CallsKnow
    <3>2. QED
      BY <2>4, <3>1 DEF Settle, Records
  <2>5. QED
    BY <2>1, <2>2, <2>3, <2>4 DEF DeleteNext
<1>2. QED
  BY <1>1, DeleteInvariance, PTL DEF DeleteSpec, Irreversible

-----------------------------------------------------------------------------
(***************************************************************************)
(* The approval gate.  An approval that waits to be used was given since   *)
(* its artifact was last committed (Waiting), and every approval ever      *)
(* given had authority, which its grant cannot lose later (Authorized).    *)
(***************************************************************************)
Given == [artifact : Contents, who : DOMAIN Approvers, authority : {"role", "grant"}, at : Nat]
AuditRows == [artifact : Contents, approval : Given, after : Nat]

Authorized(by, a) ==
    \/ Approvers[by.who] = "user"
    \/ /\ a.action \notin Destructive
       /\ \E k \in DOMAIN Grants :
             /\ Grants[k].grantee = by.who /\ Approvers[Grants[k].by] = "user"
             /\ Grants[k].action = a.action /\ <<Grants[k].scope, a.target>> \in Covered
             /\ by.at < Grants[k].expires

\* The approval was given for the artifact after every commit of it in the log.
GivenSince(approval, a, upto, made) == \E k \in 1 .. upto :
    /\ history[k] = approval /\ approval.artifact = a
    /\ \A m \in made : audit[m].artifact = a => audit[m].after < k

GateTypes ==
    /\ now \in Nat
    /\ says \in [Proposals -> Contents]
    /\ approvals \in [Contents -> Given \union {NoApproval}]
    /\ history \in Seq(Given)
    /\ audit \in Seq(AuditRows)

Waiting == \A a \in Contents : approvals[a] # NoApproval =>
    /\ GivenSince(approvals[a], a, Len(history), DOMAIN audit)
    /\ Authorized(approvals[a], a)

Audited == \A n \in DOMAIN audit :
    /\ audit[n].after <= Len(history)
    /\ GivenSince(audit[n].approval, audit[n].artifact, audit[n].after, 1 .. n - 1)
    /\ Authorized(audit[n].approval, audit[n].artifact)

GateInv == GateTypes /\ Waiting /\ Audited

LEMMA ApproveKeeps ==
    ASSUME GateInv, NEW p \in Proposals, NEW who \in DOMAIN Approvers, ApproveProposal(p, who)
    PROVE  GateInv'
<1> DEFINE a == says[p]
           approval == [artifact |-> a, who |-> who, authority |-> Authority(who, a), at |-> now]
<1>1. a \in Contents /\ now \in Nat /\ Len(history) \in Nat /\ Len(audit) \in Nat
      /\ DOMAIN audit = 1 .. Len(audit)
  BY LenProperties DEF GateInv, GateTypes
<1>2. Authority(who, a) # NoApproval
      /\ approvals' = [approvals EXCEPT ![a] = approval]
      /\ history' = Append(history, approval)
      /\ says' = says /\ audit' = audit /\ now' = now
  BY DEF ApproveProposal
<1>3. Authority(who, a) \in {"role", "grant"} /\ Authorized(approval, a)
  BY <1>1, <1>2 DEF Authority, Authorized, Confers, Covers
<1>4. approval \in Given /\ approval.artifact = a
  BY <1>1, <1>3 DEF Given
<1> HIDE DEF approval
<1>5. /\ history' \in Seq(Given) /\ Len(history') = Len(history) + 1
      /\ \A k \in 1 .. Len(history) : history'[k] = history[k]
      /\ history'[Len(history) + 1] = approval
  BY <1>2, <1>4, AppendProperties DEF GateInv, GateTypes
<1>6. GateTypes'
  BY <1>1, <1>2, <1>4, <1>5 DEF GateInv, GateTypes
<1>7. Waiting'
  <2>1. ASSUME NEW b \in Contents, approvals'[b] # NoApproval
        PROVE  GivenSince(approvals[b], b, Len(history), DOMAIN audit)'
               /\ Authorized(approvals'[b], b)
    <3>1. CASE b = a
      <4>1. approvals'[b] = approval
        BY <1>1, <1>2, <3>1 DEF GateInv, GateTypes
      <4>2. \A m \in DOMAIN audit : audit[m].after < Len(history) + 1
        <5>1. ASSUME NEW m \in DOMAIN audit PROVE audit[m].after < Len(history) + 1
          <6>1. audit[m] \in AuditRows
            BY <1>1, ElementOfSeq DEF GateInv, GateTypes
          <6>2. audit[m].after \in Nat /\ audit[m].after <= Len(history)
            BY <6>1 DEF AuditRows, GateInv, Audited
          <6>3. QED
            BY <1>1, <6>2
        <5>2. QED
          BY <5>1
      <4>3. Len(history) + 1 \in 1 .. Len(history')
        BY <1>1, <1>5
      <4>4. GivenSince(approvals[b], b, Len(history), DOMAIN audit)'
        BY <1>2, <1>4, <1>5, <3>1, <4>1, <4>2, <4>3 DEF GivenSince
      <4>5. QED
        BY <1>3, <3>1, <4>1, <4>4
    <3>2. CASE b # a
      <4>1. approvals'[b] = approvals[b]
        BY <1>1, <1>2, <3>2 DEF GateInv, GateTypes
      <4>2. GivenSince(approvals[b], b, Len(history), DOMAIN audit) /\ Authorized(approvals[b], b)
        BY <2>1, <4>1 DEF GateInv, Waiting
      <4>3. PICK k \in 1 .. Len(history) :
               /\ history[k] = approvals[b] /\ approvals[b].artifact = b
               /\ \A m \in DOMAIN audit : audit[m].artifact = b => audit[m].after < k
        BY <4>2 DEF GivenSince
      <4>4. k \in 1 .. Len(history')
        BY <1>1, <1>5
      <4>5. GivenSince(approvals[b], b, Len(history), DOMAIN audit)'
        BY <1>2, <1>5, <4>1, <4>3, <4>4 DEF GivenSince
      <4>6. QED
        BY <4>1, <4>2, <4>5
    <3>3. QED
      BY <3>1, <3>2
  <2>2. QED
    BY <2>1 DEF Waiting, Authorized
<1>8. Audited'
  <2>1. ASSUME NEW n \in DOMAIN audit
        PROVE  /\ audit[n].after <= Len(history')
               /\ GivenSince(audit[n].approval, audit[n].artifact, audit[n].after, 1 .. n - 1)'
               /\ Authorized(audit[n].approval, audit[n].artifact)
    <3>1. audit[n] \in AuditRows
      BY <1>1, ElementOfSeq DEF GateInv, GateTypes
    <3>2. audit[n].after \in Nat
      BY <3>1 DEF AuditRows
    <3>3. /\ audit[n].after <= Len(history)
          /\ GivenSince(audit[n].approval, audit[n].artifact, audit[n].after, 1 .. n - 1)
          /\ Authorized(audit[n].approval, audit[n].artifact)
      BY DEF GateInv, Audited
    <3>4. 1 .. audit[n].after \subseteq 1 .. Len(history)
      BY <1>1, <3>2, <3>3
    <3>5. GivenSince(audit[n].approval, audit[n].artifact, audit[n].after, 1 .. n - 1)'
      BY <1>2, <1>5, <3>3, <3>4 DEF GivenSince
    <3>6. QED
      BY <1>1, <1>5, <3>2, <3>3, <3>5
  <2>2. QED
    BY <1>2, <2>1 DEF Audited, Authorized
<1>9. QED
  BY <1>6, <1>7, <1>8 DEF GateInv

LEMMA CommitKeeps ==
    ASSUME GateInv, NEW p \in Proposals, CommitProposal(p)
    PROVE  GateInv'
<1> DEFINE a == says[p]
           row == [artifact |-> a, approval |-> approvals[a], after |-> Len(history)]
<1>1. a \in Contents /\ approvals[a] # NoApproval /\ approvals[a] \in Given
      /\ Len(history) \in Nat /\ Len(audit) \in Nat /\ DOMAIN audit = 1 .. Len(audit)
  BY LenProperties DEF GateInv, GateTypes, CommitProposal
<1>2. approvals' = [approvals EXCEPT ![a] = NoApproval]
      /\ audit' = Append(audit, row)
      /\ says' = says /\ history' = history /\ now' = now
  BY DEF CommitProposal
<1>3. row \in AuditRows /\ row.artifact = a /\ row.approval = approvals[a]
      /\ row.after = Len(history)
  BY <1>1 DEF AuditRows
<1> HIDE DEF row
<1>4. /\ audit' \in Seq(AuditRows) /\ Len(audit') = Len(audit) + 1
      /\ \A n \in 1 .. Len(audit) : audit'[n] = audit[n]
      /\ audit'[Len(audit) + 1] = row
  BY <1>2, <1>3, AppendProperties DEF GateInv, GateTypes
<1>5. DOMAIN audit' = DOMAIN audit \union {Len(audit) + 1}
  <2>1. DOMAIN audit' = 1 .. Len(audit')
    BY <1>4, LenProperties
  <2>2. QED
    BY <1>1, <1>4, <2>1
<1>6. GateTypes'
  BY <1>1, <1>2, <1>4 DEF GateInv, GateTypes
<1>7. Waiting'
  <2>1. ASSUME NEW b \in Contents, approvals'[b] # NoApproval
        PROVE  GivenSince(approvals[b], b, Len(history), DOMAIN audit)'
               /\ Authorized(approvals'[b], b)
    <3>1. b # a /\ approvals'[b] = approvals[b]
      BY <1>1, <1>2, <2>1 DEF GateInv, GateTypes
    <3>2. GivenSince(approvals[b], b, Len(history), DOMAIN audit) /\ Authorized(approvals[b], b)
      BY <2>1, <3>1 DEF GateInv, Waiting
    <3>3. \A m \in DOMAIN audit' : audit'[m].artifact = b
             => m \in DOMAIN audit /\ audit'[m] = audit[m]
      BY <1>1, <1>3, <1>4, <1>5, <3>1
    <3>4. QED
      BY <1>2, <3>1, <3>2, <3>3 DEF GivenSince
  <2>2. QED
    BY <2>1 DEF Waiting, Authorized
<1>8. Audited'
  <2>1. ASSUME NEW n \in DOMAIN audit'
        PROVE  /\ audit'[n].after <= Len(history')
               /\ GivenSince(audit[n].approval, audit[n].artifact, audit[n].after, 1 .. n - 1)'
               /\ Authorized(audit'[n].approval, audit'[n].artifact)
    <3>1. CASE n \in DOMAIN audit
      <4>1. audit'[n] = audit[n] /\ \A m \in 1 .. n - 1 : audit'[m] = audit[m]
        BY <1>1, <1>4, <3>1
      <4>2. /\ audit[n].after <= Len(history)
            /\ GivenSince(audit[n].approval, audit[n].artifact, audit[n].after, 1 .. n - 1)
            /\ Authorized(audit[n].approval, audit[n].artifact)
        BY <3>1 DEF GateInv, Audited
      <4>3. QED
        BY <1>2, <4>1, <4>2 DEF GivenSince
    <3>2. CASE n = Len(audit) + 1
      <4>1. audit'[n] = row /\ 1 .. n - 1 = DOMAIN audit
        BY <1>1, <1>4, <3>2
      <4>2. GivenSince(approvals[a], a, Len(history), DOMAIN audit) /\ Authorized(approvals[a], a)
        BY <1>1 DEF GateInv, Waiting
      <4>3. \A m \in 1 .. n - 1 : audit'[m] = audit[m]
        BY <1>1, <1>4, <4>1
      <4>4. GivenSince(audit[n].approval, audit[n].artifact, audit[n].after, 1 .. n - 1)'
        BY <1>2, <1>3, <4>1, <4>2, <4>3 DEF GivenSince
      <4>5. QED
        BY <1>1, <1>2, <1>3, <4>1, <4>2, <4>4
    <3>3. QED
      BY <1>5, <3>1, <3>2
  <2>2. QED
    BY <2>1 DEF Audited, Authorized
<1>9. QED
  BY <1>6, <1>7, <1>8 DEF GateInv

LEMMA GateInvariance == GateSpec => []GateInv
<1>1. GateInit => GateInv
  <2> SUFFICES ASSUME GateInit PROVE GateInv
    OBVIOUS
  <2>1. GateTypes
    BY EmptySeq DEF GateInit, GateTypes
  <2>2. DOMAIN audit = {}
    BY EmptySeq, LenProperties DEF GateInit
  <2>3. QED
    BY <2>1, <2>2 DEF GateInv, Waiting, Audited, GateInit
<1>2. GateInv /\ [GateNext]_gateVars => GateInv'
  <2> SUFFICES ASSUME GateInv, [GateNext]_gateVars PROVE GateInv'
    OBVIOUS
  <2>1. ASSUME NEW p \in Proposals, NEW who \in DOMAIN Approvers, ApproveProposal(p, who)
        PROVE  GateInv'
    BY <2>1, ApproveKeeps
  <2>2. ASSUME NEW p \in Proposals, CommitProposal(p) PROVE GateInv'
    BY <2>2, CommitKeeps
  <2>3. ASSUME UNCHANGED <<approvals, audit, history>>, now' \in Nat,
               says' \in [Proposals -> Contents]
        PROVE  GateInv'
    <3>1. approvals' = approvals /\ audit' = audit /\ history' = history
      BY <2>3
    <3>2. GateTypes'
      BY <2>3, <3>1 DEF GateInv, GateTypes
    <3>3. Waiting'
      <4>1. Waiting
        BY DEF GateInv
      <4>2. QED
        BY <3>1, <4>1 DEF Waiting, GivenSince, Authorized
    <3>4. Audited'
      <4>1. Audited
        BY DEF GateInv
      <4>2. QED
        BY <3>1, <4>1 DEF Audited, GivenSince, Authorized
    <3>5. QED
      BY <3>2, <3>3, <3>4 DEF GateInv
  <2>4. CASE Tick
    BY <2>3, <2>4 DEF Tick, GateInv, GateTypes
  <2>5. ASSUME NEW p \in Proposals, Mutate(p) PROVE GateInv'
    BY <2>3, <2>5 DEF Mutate, GateInv, GateTypes
  <2>6. CASE UNCHANGED gateVars
    BY <2>3, <2>6 DEF gateVars, GateInv, GateTypes
  <2>7. QED
    BY <2>1, <2>2, <2>4, <2>5, <2>6 DEF GateNext
<1>3. QED
  BY <1>1, <1>2, PTL DEF GateSpec

-----------------------------------------------------------------------------
(***************************************************************************)
(* The import database.  Rows that are not committed are the writer's and  *)
(* have keys no committed row has; what a run has come past is committed   *)
(* or in its transaction, and committed once the run is to be recorded.    *)
(***************************************************************************)
Runs == [pc : {"idle", "game", "flush", "record"},
         input : Inputs \union {Idle.input}, limit : Limits \union {Nothing},
         emitted : Nat, inserted : Nat]
Logged == [input : Inputs \union {Idle.input}, emitted : Nat, inserted : Nat]

DbTypes ==
    /\ run \in [Procs -> Runs]
    /\ tx = [p \in Procs |-> tx[p]]
    /\ log \in Seq(Logged)

\* The games of a run that are behind it.
Passed(r) == {r.input.games[n] : n \in 1 .. r.emitted}

Apart(p) == DOMAIN tx[p] \intersect DOMAIN rows = {}
Alone(p) == DOMAIN tx[p] # {} => writer = p
Behind(p) ==
    /\ run[p].pc \in {"game", "flush"} => Passed(run[p]) \subseteq DOMAIN rows \union DOMAIN tx[p]
    /\ run[p].pc = "record" => Passed(run[p]) \subseteq DOMAIN rows

DbInv == DbTypes /\ (\A p \in Procs : Apart(p) /\ Alone(p) /\ Behind(p)) /\ RecordedIsStored

LEMMA MergedRows ==
    ASSUME NEW old, NEW new
    PROVE  /\ DOMAIN Merged(old, new) = DOMAIN old \union DOMAIN new
           /\ \A k \in DOMAIN old : Merged(old, new)[k] = old[k]
           /\ \A k \in DOMAIN new \ DOMAIN old : Merged(old, new)[k] = new[k]
BY DEF Merged

LEMMA IdleRun == Idle \in Runs /\ Idle.pc = "idle" /\ Passed(Idle) = {}
<1>1. Idle.pc = "idle" /\ Idle.emitted = 0 /\ Idle.inserted = 0 /\ Idle.limit = Nothing
      /\ Idle = [pc |-> Idle.pc, input |-> Idle.input, limit |-> Idle.limit,
                 emitted |-> Idle.emitted, inserted |-> Idle.inserted]
  BY DEF Idle
<1>2. Idle \in Runs
  BY <1>1 DEF Runs
<1>3. Passed(Idle) = {}
  BY <1>1 DEF Passed
<1>4. QED
  BY <1>1, <1>2, <1>3

\* What one process does leaves the others as they are, as long as the rows it
\* commits are its own and it leaves the write lock to its holder.
LEMMA OthersKeep ==
    ASSUME DbInv, NEW p \in Procs, NEW q \in Procs, q # p,
           tx'[q] = tx[q], run'[q] = run[q], writer = q => writer' = q,
           DOMAIN rows \subseteq DOMAIN rows',
           DOMAIN rows' \subseteq DOMAIN rows \union DOMAIN tx[p]
    PROVE  Apart(q)' /\ Alone(q)' /\ Behind(q)'
<1>1. Apart(p) /\ Alone(p) /\ Apart(q) /\ Alone(q) /\ Behind(q)
  BY DEF DbInv
<1>2. Alone(q)'
  BY <1>1 DEF Alone
<1>3. DOMAIN tx[p] = {} \/ DOMAIN tx[q] = {}
  BY <1>1 DEF Alone
<1>4. Apart(q)'
  BY <1>1, <1>3 DEF Apart
<1>5. Behind(q)'
  BY <1>1 DEF Behind
<1>6. QED
  BY <1>2, <1>4, <1>5

\* A step of one process, from what it makes of that process.
LEMMA DbStep ==
    ASSUME DbInv, NEW p \in Procs, NEW next \in Runs, NEW mine,
           run' = [run EXCEPT ![p] = next], tx' = [tx EXCEPT ![p] = mine],
           \A q \in Procs : q # p /\ writer = q => writer' = q,
           DOMAIN rows \subseteq DOMAIN rows',
           DOMAIN rows' \subseteq DOMAIN rows \union DOMAIN tx[p],
           DOMAIN mine \intersect DOMAIN rows' = {},
           DOMAIN mine # {} => writer' = p,
           next.pc \in {"game", "flush"} => Passed(next) \subseteq DOMAIN rows' \union DOMAIN mine,
           next.pc = "record" => Passed(next) \subseteq DOMAIN rows',
           log' \in Seq(Logged), RecordedIsStored'
    PROVE  DbInv'
<1>1. DbTypes
  BY DEF DbInv
<1>2. run'[p] = next /\ tx'[p] = mine
      /\ \A q \in Procs : q # p => run'[q] = run[q] /\ tx'[q] = tx[q]
  BY <1>1 DEF DbTypes
<1>3. DbTypes'
  BY <1>1 DEF DbTypes
<1>4. Apart(p)' /\ Alone(p)' /\ Behind(p)'
  BY <1>2 DEF Apart, Alone, Behind
<1>5. ASSUME NEW q \in Procs, q # p PROVE Apart(q)' /\ Alone(q)' /\ Behind(q)'
  BY <1>2, <1>5, OthersKeep
<1>6. QED
  BY <1>3, <1>4, <1>5 DEF DbInv

LEMMA LogStays ==
    ASSUME DbInv, log' = log, DOMAIN rows \subseteq DOMAIN rows'
    PROVE  log' \in Seq(Logged) /\ RecordedIsStored'
BY DEF DbInv, DbTypes, RecordedIsStored

LEMMA StartKeeps ==
    ASSUME DbInv, NEW p \in Procs, NEW input \in Inputs, NEW limit \in Limits,
           Start(p, input, limit)
    PROVE  DbInv'
<1> DEFINE next == [Idle EXCEPT !.pc = "game", !.input = input, !.limit = limit]
<1>1. next \in Runs
  BY IdleRun DEF Runs
<1>2. next.emitted = 0
  BY DEF Idle
<1>3. Passed(next) = {}
  BY <1>2 DEF Passed
<1>4. run' = [run EXCEPT ![p] = next] /\ UNCHANGED <<rows, log, tx, writer>>
  BY DEF Start
<1>5. tx' = [tx EXCEPT ![p] = tx[p]] /\ Apart(p) /\ Alone(p)
  BY <1>4 DEF DbInv, DbTypes
<1>6. log' \in Seq(Logged) /\ RecordedIsStored'
  BY <1>4, LogStays
<1> HIDE DEF next
<1>7. QED
  BY <1>1, <1>3, <1>4, <1>5, <1>6, DbStep DEF Apart, Alone

LEMMA InsertKeeps ==
    ASSUME DbInv, DbConstants, NEW p \in Procs, Insert(p) PROVE DbInv'
<1> DEFINE seq == run[p].emitted
           key == run[p].input.games[seq + 1]
           new == key \notin DOMAIN rows \union DOMAIN tx[p]
           row == [k \in {key} |-> [seq |-> seq, source |-> run[p].input.source]]
           mine == IF new THEN Merged(tx[p], row) ELSE tx[p]
           next == run'[p]
<1>1. run \in [Procs -> Runs] /\ tx = [q \in Procs |-> tx[q]] /\ Apart(p) /\ Alone(p) /\ Behind(p)
  BY DEF DbInv, DbTypes
<1>2. run[p] \in Runs /\ seq \in Nat /\ run[p].inserted \in Nat /\ run[p].pc = "game"
  BY <1>1 DEF Runs, Insert
<1>3. writer \in {Nothing, p} /\ writer' = p /\ UNCHANGED <<rows, log>>
  BY DEF Insert
<1>4. tx' = [tx EXCEPT ![p] = mine]
  BY <1>1 DEF Insert
<1>5. next \in Runs /\ next.emitted = seq + 1 /\ next.input = run[p].input
      /\ run' = [run EXCEPT ![p] = next] /\ next.pc # "record"
  <2> DEFINE pc == IF ~ Limited(p, seq + 1) /\ (seq + 1) % Every = 0 THEN "flush" ELSE "game"
             more == run[p].inserted + IF new THEN 1 ELSE 0
  <2>1. pc \in {"flush", "game"} /\ more \in Nat
    BY <1>2
  <2>2. run' = [run EXCEPT ![p].emitted = @ + 1, ![p].inserted = more, ![p].pc = pc]
    BY DEF Insert
  <2> HIDE DEF new, pc, more
  <2>3. next = [run[p] EXCEPT !.emitted = @ + 1, !.inserted = more, !.pc = pc]
        /\ run' = [run EXCEPT ![p] = next]
    BY <1>1, <2>2
  <2>4. next \in Runs /\ next.emitted = seq + 1 /\ next.input = run[p].input /\ next.pc = pc
    <3> DEFINE r == run[p]
               count == r.emitted + 1
    <3>1. r \in Runs /\ count \in Nat
          /\ next = [r EXCEPT !.emitted = count, !.inserted = more, !.pc = pc]
      BY <1>2, <2>3
    <3> HIDE DEF next, r, count
    <3>2. next \in Runs /\ next.emitted = count /\ next.input = r.input /\ next.pc = pc
      BY <2>1, <3>1 DEF Runs
    <3>3. QED
      BY <3>2 DEF r, count
  <2>5. QED
    BY <2>1, <2>3, <2>4
<1>6. \A q \in Procs : q # p /\ writer = q => writer' = q
  BY <1>3 DEF DbConstants
<1>7. DOMAIN mine \intersect DOMAIN rows = {} /\ DOMAIN tx[p] \union {key} \subseteq DOMAIN rows \union DOMAIN mine
      /\ DOMAIN tx[p] \subseteq DOMAIN mine
  <2>1. CASE new
    <3>1. DOMAIN mine = DOMAIN tx[p] \union {key}
      BY <2>1, MergedRows, ZenonT(60)
    <3>2. QED
      BY <2>1, <3>1, <1>1 DEF Apart
  <2>2. CASE ~ new
    BY <2>2, <1>1 DEF Apart
  <2>3. QED
    BY <2>1, <2>2
<1>8. Passed(next) \subseteq DOMAIN rows \union DOMAIN mine
  <2>1. Passed(run[p]) \subseteq DOMAIN rows \union DOMAIN tx[p]
    BY <1>1, <1>2 DEF Behind
  <2>2. ASSUME NEW n \in 1 .. seq + 1
        PROVE  run[p].input.games[n] \in DOMAIN rows \union DOMAIN mine
    <3>1. CASE n = seq + 1
      BY <3>1, <1>7
    <3>2. CASE n # seq + 1
      <4>1. n \in 1 .. seq
        BY <1>2, <3>2
      <4>2. run[p].input.games[n] \in Passed(run[p])
        BY <4>1 DEF Passed
      <4>3. QED
        BY <4>2, <2>1, <1>7
    <3>3. QED
      BY <3>1, <3>2
  <2>3. QED
    BY <2>2, <1>5 DEF Passed
<1>9. log' \in Seq(Logged) /\ RecordedIsStored'
  BY <1>3, LogStays
<1> HIDE DEF mine, next
<1>10. QED
  BY <1>3, <1>4, <1>5, <1>6, <1>7, <1>8, <1>9, DbStep

LEMMA CommitKeepsRuns ==
    ASSUME DbInv, NEW p \in Procs, Committed(p), log' = log, NEW pc \in {"game", "record"},
           run[p].pc \in {"game", "flush"}, run' = [run EXCEPT ![p].pc = pc]
    PROVE  DbInv'
<1> DEFINE next == [run[p] EXCEPT !.pc = pc]
<1>1. run \in [Procs -> Runs] /\ Behind(p)
  BY DEF DbInv, DbTypes
<1>2. next \in Runs /\ next.pc = pc /\ next.emitted = run[p].emitted
      /\ next.input = run[p].input /\ run' = [run EXCEPT ![p] = next]
  BY <1>1 DEF Runs
<1>3. Passed(next) = Passed(run[p])
  BY <1>2 DEF Passed
<1>4. DOMAIN rows' = DOMAIN rows \union DOMAIN tx[p] /\ tx' = [tx EXCEPT ![p] = NoRows]
      /\ DOMAIN NoRows = {} /\ \A q \in Procs : q # p /\ writer = q => writer' = q
  <2>1. rows' = Merged(tx[p], rows) /\ tx' = [tx EXCEPT ![p] = NoRows]
        /\ \A q \in Procs : q # p /\ writer = q => writer' = q
    BY DEF Committed
  <2>2. DOMAIN Merged(tx[p], rows) = DOMAIN tx[p] \union DOMAIN rows
    BY MergedRows
  <2>3. DOMAIN NoRows = {}
    BY DEF NoRows
  <2>4. QED
    BY <2>1, <2>2, <2>3
<1>5. log' \in Seq(Logged) /\ RecordedIsStored'
  BY <1>4, LogStays
<1>6. Passed(next) \subseteq DOMAIN rows'
  BY <1>1, <1>3, <1>4 DEF Behind
<1> HIDE DEF next
<1>7. QED
  BY <1>2, <1>4, <1>5, <1>6, DbStep

LEMMA RecordKeeps ==
    ASSUME DbInv, NEW p \in Procs, Record(p) PROVE DbInv'
<1> DEFINE entry == [input |-> run[p].input, emitted |-> run[p].emitted,
                     inserted |-> run[p].inserted]
           longer == Append(log, entry)
<1>1. run[p] \in Runs /\ log \in Seq(Logged) /\ tx = [q \in Procs |-> tx[q]]
      /\ Apart(p) /\ Alone(p) /\ Behind(p) /\ RecordedIsStored
  BY DEF DbInv, DbTypes
<1>2. entry \in Logged /\ entry.emitted = run[p].emitted /\ entry.input = run[p].input
  BY <1>1 DEF Runs, Logged
<1>3. run' = [run EXCEPT ![p] = Idle] /\ log' = longer /\ run[p].pc = "record"
      /\ UNCHANGED <<rows, tx, writer>>
  BY DEF Record
<1>4. tx' = [tx EXCEPT ![p] = tx[p]]
  BY <1>1, <1>3
<1> HIDE DEF entry
<1>5. longer \in Seq(Logged) /\ Len(longer) = Len(log) + 1 /\ longer[Len(log) + 1] = entry
      /\ \A n \in 1 .. Len(log) : longer[n] = log[n]
  BY <1>1, <1>2, AppendProperties
<1> HIDE DEF longer
<1>6. Len(log) \in Nat /\ DOMAIN log = 1 .. Len(log) /\ DOMAIN longer = 1 .. Len(log) + 1
  BY <1>1, <1>5, LenProperties
<1>7. RecordedIsStored'
  <2> SUFFICES ASSUME NEW n \in DOMAIN longer, NEW k \in 1 .. longer[n].emitted
               PROVE  longer[n].input.games[k] \in DOMAIN rows
    BY <1>3 DEF RecordedIsStored
  <2>1. CASE n = Len(log) + 1
    <3>1. longer[n].input.games[k] \in Passed(run[p])
      BY <2>1, <1>2, <1>5 DEF Passed
    <3>2. QED
      BY <3>1, <1>1, <1>3 DEF Behind
  <2>2. CASE n # Len(log) + 1
    <3>1. n \in DOMAIN log /\ n \in 1 .. Len(log)
      BY <2>2, <1>6
    <3>2. QED
      BY <3>1, <1>1, <1>5 DEF RecordedIsStored
  <2>3. QED
    BY <2>1, <2>2
<1>8. QED
  BY <1>1, <1>3, <1>4, <1>5, <1>7, IdleRun, DbStep DEF Apart, Alone

\* The run is over without a word: its transaction is lost.
LEMMA LossKeeps ==
    ASSUME DbInv, NEW p \in Procs, TimeOut(p) \/ Crash(p) PROVE DbInv'
<1>1. tx = [q \in Procs |-> tx[q]] /\ Apart(p) /\ Alone(p)
  BY DEF DbInv, DbTypes
<1>2. run' = [run EXCEPT ![p] = Idle] /\ UNCHANGED <<rows, log>>
  BY DEF TimeOut, Crash
<1>3. log' \in Seq(Logged) /\ RecordedIsStored'
  BY <1>2, LogStays
<1>4. CASE TimeOut(p)
  <2>1. tx' = [tx EXCEPT ![p] = tx[p]] /\ writer' = writer
    BY <1>1, <1>4 DEF TimeOut
  <2>2. QED
    BY <1>1, <1>2, <1>3, <2>1, IdleRun, DbStep DEF Apart, Alone
<1>5. CASE Crash(p)
  <2>1. tx' = [tx EXCEPT ![p] = NoRows] /\ DOMAIN NoRows = {}
        /\ \A q \in Procs : q # p /\ writer = q => writer' = q
    BY <1>5 DEF Crash, NoRows
  <2>2. QED
    BY <1>2, <1>3, <2>1, IdleRun, DbStep
<1>6. QED
  BY <1>4, <1>5

LEMMA DbInvariance == ASSUME DbConstants PROVE DbSpec => []DbInv
<1>1. DbInit => DbInv
  <2> SUFFICES ASSUME DbInit PROVE DbInv
    OBVIOUS
  <2>1. DbTypes /\ DOMAIN log = {}
    BY IdleRun, EmptySeq DEF DbInit, DbTypes
  <2>2. \A p \in Procs : run[p].pc = "idle" /\ DOMAIN tx[p] = {}
    BY IdleRun DEF DbInit, NoRows
  <2>3. QED
    BY <2>1, <2>2 DEF DbInv, Apart, Alone, Behind, RecordedIsStored
<1>2. DbInv /\ [DbNext]_dbVars => DbInv'
  <2> SUFFICES ASSUME DbInv, [DbNext]_dbVars PROVE DbInv'
    OBVIOUS
  <2>1. ASSUME NEW p \in Procs, Flush(p) PROVE DbInv'
    <3>1. Committed(p) /\ log' = log /\ run[p].pc = "flush" /\ run' = [run EXCEPT ![p].pc = "game"]
      BY <2>1 DEF Flush
    <3>2. QED
      BY <3>1, CommitKeepsRuns
  <2>2. ASSUME NEW p \in Procs, CommitGames(p) PROVE DbInv'
    <3>1. Committed(p) /\ log' = log /\ run[p].pc = "game" /\ run' = [run EXCEPT ![p].pc = "record"]
      BY <2>2 DEF CommitGames
    <3>2. QED
      BY <3>1, CommitKeepsRuns
  <2>3. CASE UNCHANGED dbVars
    BY <2>3 DEF dbVars, DbInv, DbTypes, Apart, Alone, Behind, RecordedIsStored
  <2>4. QED
    BY <2>1, <2>2, <2>3, StartKeeps, InsertKeeps, RecordKeeps, LossKeeps DEF DbNext, Step
<1>3. QED
  BY <1>1, <1>2, PTL DEF DbSpec

LEMMA FirstSeen == ASSUME DbConstants PROVE DbSpec => FirstSeenStays
<1> DEFINE Stays == \A k \in DOMAIN rows : k \in DOMAIN rows' /\ rows'[k] = rows[k]
<1>1. DbInv /\ [DbNext]_dbVars => [Stays]_dbVars
  <2> SUFFICES ASSUME DbInv, DbNext PROVE Stays
    BY DEF dbVars
  <2>1. CASE rows' = rows
    BY <2>1
  <2>2. ASSUME NEW p \in Procs, Committed(p) PROVE Stays
    <3>1. rows' = Merged(tx[p], rows) /\ DOMAIN tx[p] \intersect DOMAIN rows = {}
      BY <2>2 DEF Committed, DbInv, Apart
    <3>2. ASSUME NEW k \in DOMAIN rows
          PROVE  k \in DOMAIN Merged(tx[p], rows) /\ Merged(tx[p], rows)[k] = rows[k]
      BY <3>1, <3>2 DEF Merged
    <3>3. QED
      BY <3>1, <3>2
  <2>3. QED
    BY <2>1, <2>2 DEF DbNext, Step, Start, Insert, Flush, CommitGames, Record, TimeOut, Crash
<1>2. QED
  BY <1>1, DbInvariance, PTL DEF DbSpec, FirstSeenStays

-----------------------------------------------------------------------------
(***************************************************************************)
(* The incremental update job.  A pin that is ingested and not on record   *)
(* yet is the one the run is at (Owed), so every ingest but one and those  *)
(* a failure wasted is on record.                                          *)
(***************************************************************************)
UpdateTypes ==
    /\ update \in Updates \union {NoUpdate}
    /\ IsFiniteSet(DOMAIN applied)
    /\ data \in Seq(Pinned)
    /\ failures \in Nat

Ingesting == update # NoUpdate /\ update.ingested
Owed == Ingesting =>
    /\ AtPin
    /\ Pin.id \notin DOMAIN applied
    /\ \E n \in DOMAIN data : data[n] = Pin

UpdateInv == UpdateTypes /\ Owed /\ RecordsTrue

\* What a run is at is a pin, and so are its fields.
LEMMA PinIsPinned ==
    ASSUME UpdateConstants, update \in Updates, update.at <= Len(update.pins)
    PROVE  Pin \in Pinned /\ Pin = [id |-> Pin.id, sha |-> Pin.sha]
<1>1. update.pins \in PinLists /\ update.at \in Nat \ {0}
  BY DEF Updates
<1>2. update.pins \in Seq(ToSet(update.pins))
  BY <1>1 DEF UpdateConstants
<1>3. DOMAIN update.pins = 1 .. Len(update.pins) /\ Len(update.pins) \in Nat
  BY <1>2, LenProperties
<1>4. Pin \in ToSet(update.pins)
  BY <1>1, <1>3 DEF Pin, ToSet
<1>5. Pin \in Pinned
  BY <1>1, <1>4 DEF Pinned
<1>6. QED
  BY <1>5 DEF UpdateConstants

\* What is on record stays there, and the ingested pins grow at the end.
LEMMA Recorded ==
    ASSUME UpdateInv, data' = data, applied' = applied
    PROVE  \A id \in DOMAIN applied' : \E n \in DOMAIN data' :
               data'[n] = [id |-> id, sha |-> applied'[id]]
BY DEF UpdateInv, RecordsTrue

LEMMA EntryKeeps ==
    ASSUME UpdateConstants, update \in Updates, update.at <= Len(update.pins),
           NEW action \in {"ingested", "skipped_unchanged", "conflict_hash_changed"}
    PROVE  Entry(action) \in Updates /\ ~ Entry(action).ingested
<1> DEFINE entry == [pin |-> Pin, action |-> action]
           longer == Append(update.entries, entry)
           on == update.at + 1
<1>1. entry \in Entries
  BY PinIsPinned DEF Entries
<1>2. update.entries \in Seq(Entries)
  BY DEF Updates
<1> HIDE DEF entry
<1>3. longer \in Seq(Entries)
  BY <1>1, <1>2, AppendProperties
<1>4. on \in Nat \ {0}
  BY DEF Updates
<1>5. Entry(action) = [update EXCEPT !.at = on, !.ingested = FALSE, !.entries = longer]
  BY DEF Entry, entry
<1> HIDE DEF longer, on
<1>6. Entry(action) \in Updates /\ Entry(action).ingested = FALSE
  BY <1>3, <1>4, <1>5 DEF Updates
<1>7. QED
  BY <1>6

LEMMA StartUpdateKeeps ==
    ASSUME UpdateConstants, UpdateInv, StartUpdate PROVE UpdateInv'
<1>1. PICK pins \in PinLists :
         update' = [pins |-> pins, at |-> 1, entries |-> <<>>, ingested |-> FALSE]
  BY DEF StartUpdate
<1>2. update' \in Updates /\ ~ update'.ingested
  <2>1. <<>> \in Seq(Entries) /\ 1 \in Nat \ {0} /\ FALSE \in BOOLEAN
    BY EmptySeq
  <2>2. QED
    BY <1>1, <2>1 DEF Updates
<1>3. update = NoUpdate /\ UNCHANGED <<applied, data, failures>>
  BY DEF StartUpdate
<1>4. UpdateTypes' /\ Owed'
  BY <1>2, <1>3 DEF UpdateInv, UpdateTypes, Owed, Ingesting
<1>5. Len(data) <= Cardinality(DOMAIN applied) + failures + 0
  BY <1>3 DEF UpdateInv, RecordsTrue
<1>6. RecordsTrue'
  BY <1>2, <1>3, <1>5, Recorded DEF RecordsTrue
<1>7. QED
  BY <1>4, <1>6 DEF UpdateInv

LEMMA IngestKeeps ==
    ASSUME UpdateConstants, UpdateInv, Ingest PROVE UpdateInv'
<1> DEFINE longer == Append(data, Pin)
<1>1. UpdateTypes /\ RecordsTrue /\ update \in Updates /\ update.at <= Len(update.pins)
      /\ ~ update.ingested /\ Pin.id \notin DOMAIN applied
  BY DEF UpdateInv, UpdateTypes, Ingest, AtPin
<1>2. Pin \in Pinned /\ data \in Seq(Pinned)
  BY <1>1, PinIsPinned DEF UpdateTypes
<1>3. longer \in Seq(Pinned) /\ Len(longer) = Len(data) + 1 /\ longer[Len(data) + 1] = Pin
      /\ \A n \in 1 .. Len(data) : longer[n] = data[n]
  BY <1>2, AppendProperties
<1>4. data' = longer /\ update' = [update EXCEPT !.ingested = TRUE]
      /\ UNCHANGED <<applied, failures>>
  BY DEF Ingest
<1> HIDE DEF longer
<1>5. Len(data) \in Nat /\ DOMAIN data = 1 .. Len(data) /\ DOMAIN longer = 1 .. Len(data) + 1
  BY <1>2, <1>3, LenProperties
<1>6. update' \in Updates /\ update'.ingested /\ update'.pins = update.pins
      /\ update'.at = update.at /\ update' # NoUpdate
  BY <1>1, <1>4 DEF Updates, UpdateConstants
<1>7. Pin' = Pin /\ AtPin'
  BY <1>1, <1>6 DEF Pin, AtPin
<1>8. UpdateTypes'
  BY <1>1, <1>3, <1>4, <1>6 DEF UpdateTypes
<1>9. Owed'
  <2>1. Len(data) + 1 \in DOMAIN longer
    BY <1>5
  <2>2. \E n \in DOMAIN data' : data'[n] = Pin'
    BY <1>3, <1>4, <1>7, <2>1
  <2>3. Pin'.id \notin DOMAIN applied'
    BY <1>1, <1>4, <1>7
  <2>4. QED
    BY <1>7, <2>2, <2>3 DEF Owed
<1>10. RecordsTrue'
  <2>1. ASSUME NEW id \in DOMAIN applied'
        PROVE  \E n \in DOMAIN data' : data'[n] = [id |-> id, sha |-> applied'[id]]
    <3>1. PICK n \in DOMAIN data : data[n] = [id |-> id, sha |-> applied[id]]
      BY <1>1, <1>4, <2>1 DEF RecordsTrue
    <3>2. n \in DOMAIN longer /\ longer[n] = data[n]
      BY <1>3, <1>5
    <3>3. QED
      BY <1>4, <3>1, <3>2
  <2>2. Len(data) <= Cardinality(DOMAIN applied) + failures + 0
    BY <1>1 DEF RecordsTrue
  <2>3. Cardinality(DOMAIN applied) \in Nat /\ failures \in Nat
    BY <1>1, FS_CardinalityType DEF UpdateTypes
  <2>4. Len(longer) <= Cardinality(DOMAIN applied) + failures + 1
    BY <1>3, <1>5, <2>2, <2>3
  <2>5. QED
    BY <1>4, <1>6, <2>1, <2>4 DEF RecordsTrue
<1>11. QED
  BY <1>8, <1>9, <1>10 DEF UpdateInv

LEMMA PutOnRecordKeeps ==
    ASSUME UpdateConstants, UpdateInv, PutOnRecord PROVE UpdateInv'
<1>1. UpdateTypes /\ RecordsTrue /\ update \in Updates /\ update.at <= Len(update.pins)
      /\ update # NoUpdate /\ update.ingested /\ Pin.id \notin DOMAIN applied
  BY DEF UpdateInv, UpdateTypes, PutOnRecord, AtPin, Owed, Ingesting
<1>2. PICK k \in DOMAIN data : data[k] = Pin
  BY DEF UpdateInv, PutOnRecord, AtPin, Owed, Ingesting
<1>3. Pin = [id |-> Pin.id, sha |-> Pin.sha]
  BY <1>1, PinIsPinned
<1>4. applied' = [x \in DOMAIN applied \union {Pin.id} |->
                     IF x = Pin.id THEN Pin.sha ELSE applied[x]]
      /\ update' = Entry("ingested") /\ UNCHANGED <<data, failures>>
  BY DEF PutOnRecord
<1>5. update' \in Updates /\ ~ update'.ingested
  BY <1>1, <1>4, EntryKeeps
<1>6. DOMAIN applied' = DOMAIN applied \union {Pin.id}
  BY <1>4
<1>7. IsFiniteSet(DOMAIN applied') /\ Cardinality(DOMAIN applied') = Cardinality(DOMAIN applied) + 1
  BY <1>1, <1>6, FS_AddElement DEF UpdateTypes
<1>8. UpdateTypes' /\ Owed'
  BY <1>1, <1>4, <1>5, <1>7 DEF UpdateTypes, Owed, Ingesting
<1>9. RecordsTrue'
  <2>1. ASSUME NEW id \in DOMAIN applied'
        PROVE  \E n \in DOMAIN data' : data'[n] = [id |-> id, sha |-> applied'[id]]
    <3>1. CASE id = Pin.id
      <4>1. applied'[id] = Pin.sha
        BY <1>4, <3>1
      <4>2. QED
        BY <1>2, <1>3, <1>4, <3>1, <4>1
    <3>2. CASE id # Pin.id
      <4>1. id \in DOMAIN applied /\ applied'[id] = applied[id]
        BY <1>4, <1>6, <2>1, <3>2
      <4>2. PICK n \in DOMAIN data : data[n] = [id |-> id, sha |-> applied[id]]
        BY <1>1, <4>1 DEF RecordsTrue
      <4>3. QED
        BY <1>4, <4>1, <4>2
    <3>3. QED
      BY <3>1, <3>2
  <2>2. Len(data) <= Cardinality(DOMAIN applied) + failures + 1
    BY <1>1 DEF RecordsTrue
  <2>3. Cardinality(DOMAIN applied) \in Nat /\ failures \in Nat
    BY <1>1, FS_CardinalityType DEF UpdateTypes
  <2>4. Len(data) <= Cardinality(DOMAIN applied') + failures + 0
    BY <1>7, <2>2, <2>3
  <2>5. QED
    BY <1>4, <1>5, <2>1, <2>4 DEF RecordsTrue
<1>10. QED
  BY <1>8, <1>9 DEF UpdateInv

\* The run goes on or is over with nothing ingested that is not on record, or a
\* failure more.
LEMMA RunOnKeeps ==
    ASSUME UpdateInv, UNCHANGED <<applied, data>>, update' \in Updates \union {NoUpdate},
           update' \in Updates => ~ update'.ingested,
           \/ failures' = failures /\ ~ Ingesting
           \/ failures' = failures + 1
    PROVE  UpdateInv'
<1>1. ~ Ingesting'
  BY DEF Ingesting
<1>2. UpdateTypes' /\ Owed'
  BY <1>1 DEF UpdateInv, UpdateTypes, Owed
<1>3. Len(data) <= Cardinality(DOMAIN applied) + failures + (IF Ingesting THEN 1 ELSE 0)
  BY DEF UpdateInv, RecordsTrue, Ingesting
<1>4. Cardinality(DOMAIN applied) \in Nat /\ failures \in Nat /\ Len(data) \in Nat
  BY FS_CardinalityType, LenProperties DEF UpdateInv, UpdateTypes
<1>5. Len(data) <= Cardinality(DOMAIN applied) + failures' + 0
  BY <1>3, <1>4
<1>6. RecordsTrue'
  BY <1>1, <1>5, Recorded DEF RecordsTrue, Ingesting
<1>7. QED
  BY <1>2, <1>6 DEF UpdateInv

LEMMA UpdateStep ==
    ASSUME UpdateConstants, UpdateInv, UpdateNext PROVE UpdateInv'
<1>1. update \in Updates \union {NoUpdate}
  BY DEF UpdateInv, UpdateTypes
<1>2. CASE Skip
  <2>1. update \in Updates /\ update.at <= Len(update.pins)
    BY <1>1, <1>2 DEF Skip, AtPin
  <2>2. PICK action \in {"skipped_unchanged", "conflict_hash_changed"} : update' = Entry(action)
    BY <1>2 DEF Skip
  <2>3. update' \in Updates /\ ~ update'.ingested
    BY <2>1, <2>2, EntryKeeps
  <2>4. UNCHANGED <<applied, data, failures>> /\ ~ Ingesting
    BY <1>2 DEF Skip, Ingesting
  <2>5. QED
    BY <2>3, <2>4, RunOnKeeps
<1>3. CASE Publish
  <2>1. UNCHANGED <<applied, data, failures>> /\ update' = NoUpdate
        /\ update # NoUpdate /\ update.at > Len(update.pins)
    BY <1>3 DEF Publish
  <2>2. ~ AtPin
    <3>1. update \in Updates
      BY <1>1, <2>1
    <3>2. update.at \in Nat /\ update.pins \in Seq(ToSet(update.pins))
      BY <3>1 DEF Updates, UpdateConstants
    <3>3. Len(update.pins) \in Nat
      BY <3>2, LenProperties
    <3>4. QED
      BY <2>1, <3>2, <3>3 DEF AtPin
  <2>3. ~ Ingesting
    BY <2>2 DEF UpdateInv, Owed
  <2>4. QED
    BY <2>1, <2>3, RunOnKeeps DEF UpdateConstants
<1>4. CASE Fail
  <2>1. UNCHANGED <<applied, data>> /\ update' = NoUpdate /\ failures' = failures + 1
    BY <1>4 DEF Fail
  <2>2. QED
    BY <2>1, RunOnKeeps DEF UpdateConstants
<1>5. QED
  BY <1>2, <1>3, <1>4, StartUpdateKeeps, IngestKeeps, PutOnRecordKeeps DEF UpdateNext

LEMMA UpdateInvariance == ASSUME UpdateConstants PROVE UpdateSpec => []UpdateInv
<1>1. UpdateInit => UpdateInv
  <2> SUFFICES ASSUME UpdateInit PROVE UpdateInv
    OBVIOUS
  <2>1. DOMAIN applied = {} /\ data = <<>> /\ update = NoUpdate /\ failures = 0
    BY DEF UpdateInit
  <2>2. IsFiniteSet(DOMAIN applied) /\ Cardinality(DOMAIN applied) = 0
    BY <2>1, FS_EmptySet
  <2>3. data \in Seq(Pinned) /\ Len(data) = 0
    BY <2>1, EmptySeq
  <2>4. QED
    BY <2>1, <2>2, <2>3 DEF UpdateInv, UpdateTypes, Owed, Ingesting, RecordsTrue
<1>2. UpdateInv /\ [UpdateNext]_updateVars => UpdateInv'
  <2> SUFFICES ASSUME UpdateInv, [UpdateNext]_updateVars PROVE UpdateInv'
    OBVIOUS
  <2>1. CASE UNCHANGED updateVars
    BY <2>1 DEF updateVars, UpdateInv, UpdateTypes, Owed, Ingesting, AtPin, Pin, RecordsTrue
  <2>2. QED
    BY <2>1, UpdateStep
<1>3. QED
  BY <1>1, <1>2, PTL DEF UpdateSpec

LEMMA OnRecordOnce == ASSUME UpdateConstants PROVE UpdateSpec => RecordedOnce
<1> DEFINE Once == \A id \in DOMAIN applied :
        /\ id \in DOMAIN applied' /\ applied'[id] = applied[id]
        /\ data' # data => Last(data').id # id
<1>1. UpdateInv /\ [UpdateNext]_updateVars => [Once]_updateVars
  <2> SUFFICES ASSUME UpdateInv, UpdateNext PROVE Once
    BY DEF updateVars
  <2>1. CASE Ingest
    <3>1. update \in Updates /\ update.at <= Len(update.pins) /\ Pin.id \notin DOMAIN applied
          /\ data' = Append(data, Pin) /\ applied' = applied /\ data \in Seq(Pinned)
      BY <2>1 DEF UpdateInv, UpdateTypes, Ingest, AtPin
    <3>2. Pin \in Pinned
      BY <3>1, PinIsPinned
    <3>3. Last(data') = Pin
      BY <3>1, <3>2, AppendProperties DEF Last
    <3>4. QED
      BY <3>1, <3>3
  <2>2. CASE PutOnRecord
    <3>1. Pin.id \notin DOMAIN applied
      BY <2>2 DEF UpdateInv, PutOnRecord, AtPin, Owed, Ingesting
    <3>2. QED
      BY <2>2, <3>1 DEF PutOnRecord
  <2>3. CASE UNCHANGED <<applied, data>>
    BY <2>3
  <2>4. QED
    BY <2>1, <2>2, <2>3 DEF UpdateNext, StartUpdate, Skip, Publish, Fail
<1>2. QED
  BY <1>1, UpdateInvariance, PTL DEF UpdateSpec, RecordedOnce

-----------------------------------------------------------------------------
\* UserDecides: what is open was opened as shown and can be taken back; data of a
\* deletion that failed is not forgotten; an approval commits once, what was
\* approved, and by authority of a user.
THEOREM UserAlwaysDecides ==
    ASSUME GatesConstants, DeleteConstants PROVE DesktopSpec => []UserDecides
<1>1. GatesInv => OpenAsShown
  BY DEF GatesInv
<1>2. DeleteInv => NothingForgotten
  BY DEF DeleteInv
<1>3. GateInv => OneCommitPerApproval /\ AuthorityFromUser
  <2> SUFFICES ASSUME GateInv PROVE OneCommitPerApproval /\ AuthorityFromUser
    OBVIOUS
  <2>1. OneCommitPerApproval
    BY DEF GateInv, Audited, GivenSince, OneCommitPerApproval
  <2>2. AuthorityFromUser
    BY DEF GateInv, Audited, Authorized, AuthorityFromUser
  <2>3. QED
    BY <2>1, <2>2
<1>4. GatesSpec => []OpenAsShown
  BY <1>1, GatesInvariance, PTL
<1>5. DeleteSpec => []NothingForgotten
  BY <1>2, DeleteInvariance, PTL
<1>6. GateSpec => [](OneCommitPerApproval /\ AuthorityFromUser)
  BY <1>3, GateInvariance, PTL
<1>7. QED
  BY <1>4, <1>5, <1>6, WayBackAlways, PTL DEF DesktopSpec, UserDecides

\* RecordedTrue: a run of the importer that is on record has its games in the
\* database, and a snapshot on record was ingested with the hash on record.
THEOREM RecordedAlwaysTrue ==
    ASSUME DbConstants, UpdateConstants PROVE DesktopSpec => []RecordedTrue
<1>1. DbInv => RecordedIsStored
  BY DEF DbInv
<1>2. UpdateInv => RecordsTrue
  BY DEF UpdateInv
<1>3. DbSpec => []RecordedIsStored
  BY <1>1, DbInvariance, PTL
<1>4. UpdateSpec => []RecordsTrue
  BY <1>2, UpdateInvariance, PTL
<1>5. QED
  BY <1>3, <1>4, PTL DEF DesktopSpec, RecordedTrue

\* NothingTakenBack: no import changes or removes a game, no update ingests or
\* changes what is on record, and no step brings back what was erased.
THEOREM NothingIsTakenBack ==
    ASSUME DbConstants, UpdateConstants, DeleteConstants
    PROVE  DesktopSpec => NothingTakenBack
<1>1. DbSpec => FirstSeenStays
  BY FirstSeen
<1>2. UpdateSpec => RecordedOnce
  BY OnRecordOnce
<1>3. DeleteSpec => Irreversible
  BY DeletionIsFinal
<1>4. QED
  BY <1>1, <1>2, <1>3, PTL DEF DesktopSpec, NothingTakenBack
-----------------------------------------------------------------------------
(***************************************************************************)
(* The import of files, for one process.  What it has under its hands is   *)
(* known by how far it has come: a file is under its .tmp name from its    *)
(* writing to its renaming, and the manifest is the one the run has read,  *)
(* until the renaming of a new one.                                        *)
(***************************************************************************)

\* Each game once.
IsIndex(s) ==
    /\ s \in Seq(Games)
    /\ \A i, j \in DOMAIN s : s[i].gid = s[j].gid => i = j

LEMMA Listed ==
    ASSUME NEW s, NEW g
    PROVE  g \in ToSet(s) <=> \E i \in DOMAIN s : s[i] = g
BY DEF ToSet

\* A version in the place of the one it replaces.
LEMMA Replaced ==
    ASSUME NEW s, IsIndex(s), NEW g \in Games, NEW i \in DOMAIN s, s[i].gid = g.gid
    PROVE  LET new == [s EXCEPT ![i] = g]
           IN  /\ IsIndex(new) /\ g \in ToSet(new)
               /\ ToSet(new) \subseteq ToSet(s) \union {g}
               /\ \A h \in ToSet(s) : h.gid # g.gid => h \in ToSet(new)
<1> DEFINE new == [s EXCEPT ![i] = g]
<1>1. s \in Seq(Games) /\ \A j, k \in DOMAIN s : s[j].gid = s[k].gid => j = k
  BY DEF IsIndex
<1>2. new \in Seq(Games) /\ DOMAIN new = DOMAIN s
  BY <1>1
<1>3. new[i] = g /\ \A j \in DOMAIN s : j # i => new[j] = s[j]
  BY <1>1
<1> HIDE DEF new
<1>4. IsIndex(new)
  <2>1. ASSUME NEW j \in DOMAIN new, NEW k \in DOMAIN new, new[j].gid = new[k].gid
        PROVE  j = k
    <3>1. s[j].gid = new[j].gid /\ s[k].gid = new[k].gid
      BY <1>2, <1>3, <2>1
    <3>2. QED
      BY <1>1, <1>2, <2>1, <3>1
  <2>2. QED
    BY <1>2, <2>1 DEF IsIndex
<1>5. g \in ToSet(new)
  BY <1>2, <1>3, Listed
<1>6. ASSUME NEW h \in ToSet(new) PROVE h \in ToSet(s) \union {g}
  <2>1. PICK j \in DOMAIN s : new[j] = h
    BY <1>2, <1>6, Listed
  <2>2. QED
    BY <1>3, <2>1, Listed
<1>7. ASSUME NEW h \in ToSet(s), h.gid # g.gid PROVE h \in ToSet(new)
  <2>1. PICK j \in DOMAIN s : s[j] = h
    BY <1>7, Listed
  <2>2. j # i
    BY <1>7, <2>1
  <2>3. QED
    BY <1>2, <1>3, <2>1, <2>2, Listed
<1>8. QED
  BY <1>4, <1>5, <1>6, <1>7 DEF new

\* A game that is new, at the end.
LEMMA Appended ==
    ASSUME NEW s, IsIndex(s), NEW g \in Games, \A i \in DOMAIN s : s[i].gid # g.gid
    PROVE  LET new == Append(s, g)
           IN  /\ IsIndex(new) /\ g \in ToSet(new)
               /\ ToSet(new) \subseteq ToSet(s) \union {g}
               /\ \A h \in ToSet(s) : h \in ToSet(new)
<1> DEFINE new == Append(s, g)
           n == Len(s)
<1>1. s \in Seq(Games) /\ \A j, k \in DOMAIN s : s[j].gid = s[k].gid => j = k
  BY DEF IsIndex
<1>2. new \in Seq(Games) /\ Len(new) = n + 1 /\ new[n + 1] = g
      /\ \A j \in 1 .. n : new[j] = s[j]
  BY <1>1, AppendProperties
<1>3. n \in Nat /\ DOMAIN s = 1 .. n /\ DOMAIN new = 1 .. n + 1
  BY <1>1, <1>2
<1> HIDE DEF new, n
<1>4. \A j \in DOMAIN new : j \in DOMAIN s \/ j = n + 1
  BY <1>3
<1>5. IsIndex(new)
  <2>1. ASSUME NEW j \in DOMAIN new, NEW k \in DOMAIN new, new[j].gid = new[k].gid
        PROVE  j = k
    BY <1>1, <1>2, <1>3, <1>4, <2>1
  <2>2. QED
    BY <1>2, <2>1 DEF IsIndex
<1>6. g \in ToSet(new)
  BY <1>2, <1>3, Listed
<1>7. ASSUME NEW h \in ToSet(new) PROVE h \in ToSet(s) \union {g}
  <2>1. PICK j \in DOMAIN new : new[j] = h
    BY <1>7, Listed
  <2>2. QED
    BY <1>2, <1>3, <1>4, <2>1, Listed
<1>8. ASSUME NEW h \in ToSet(s) PROVE h \in ToSet(new)
  <2>1. PICK j \in DOMAIN s : s[j] = h
    BY Listed
  <2>2. j \in DOMAIN new /\ new[j] = h
    BY <1>2, <1>3, <2>1
  <2>3. QED
    BY <2>2, Listed
<1>9. QED
  BY <1>5, <1>6, <1>7, <1>8 DEF new

\* The manifest a commit writes lists the candidate, and every other game as before.
LEMMA NewIndexIs ==
    ASSUME NEW p, IsIndex(import[p].index), ToSet(import[p].index) \subseteq files,
           Game(p) \in Games
    PROVE  /\ IsIndex(NewIndex(p)) /\ Game(p) \in ToSet(NewIndex(p))
           /\ ToSet(NewIndex(p)) \subseteq ToSet(import[p].index) \union {Game(p)}
           /\ \A h \in ToSet(import[p].index) : h.gid # Game(p).gid => h \in ToSet(NewIndex(p))
           /\ \/ NewIndex(p) = Append(import[p].index, Game(p))
              \/ \E i \in DOMAIN import[p].index :
                    /\ Game(p).gid = import[p].index[i].gid
                    /\ NewIndex(p) = [import[p].index EXCEPT ![i] = Game(p)]
<1> DEFINE s == import[p].index
           g == Game(p)
           i == CHOOSE k \in Existing(p) : TRUE
<1>1. CASE Existing(p) # {}
  <2>1. i \in Existing(p)
    BY <1>1
  <2>2. i \in DOMAIN s /\ s[i].gid = g.gid
    BY <2>1 DEF Existing, EntryOf
  <2>3. NewIndex(p) = [s EXCEPT ![i] = g]
    BY <1>1 DEF NewIndex
  <2> HIDE DEF i, s, g
  <2>4. IsIndex(s) /\ g \in Games
    BY DEF s, g
  <2>5. LET new == [s EXCEPT ![i] = g]
        IN  /\ IsIndex(new) /\ g \in ToSet(new)
            /\ ToSet(new) \subseteq ToSet(s) \union {g}
            /\ \A h \in ToSet(s) : h.gid # g.gid => h \in ToSet(new)
    BY <2>2, <2>4, Replaced
  <2>6. QED
    BY <2>2, <2>3, <2>5 DEF s, g
<1>2. CASE Existing(p) = {}
  <2>1. \A k \in DOMAIN s : s[k] \in files
    BY Listed
  <2>2. \A k \in DOMAIN s : s[k].gid # g.gid
    BY <1>2, <2>1 DEF Existing, EntryOf
  <2>3. DOMAIN s = 1 .. Len(s)
    BY DEF IsIndex
  <2>4. RemoveFirstMatch(s, LAMBDA h : h.gid = g.gid) = s
    BY <2>2, <2>3 DEF RemoveFirstMatch
  <2>5. NewIndex(p) = Append(s, g)
    BY <1>2, <2>4 DEF NewIndex
  <2> HIDE DEF s, g
  <2>6. IsIndex(s) /\ g \in Games
    BY DEF s, g
  <2>7. LET new == Append(s, g)
        IN  /\ IsIndex(new) /\ g \in ToSet(new)
            /\ ToSet(new) \subseteq ToSet(s) \union {g}
            /\ \A h \in ToSet(s) : h \in ToSet(new)
    BY <2>2, <2>6, Appended
  <2>8. QED
    BY <2>5, <2>7 DEF s, g
<1>3. QED
  BY <1>1, <1>2

Events == {"started", "duplicate", "stored", "updated", "completed"}

\* A commit's event adds one to the events that tell of commits, any other none.
LEMMA OneMoreTold ==
    ASSUME NEW t \in Seq(Events), NEW e \in Events
    PROVE  /\ Append(t, e) \in Seq(Events)
           /\ Cardinality(Announced(t)) \in Nat
           /\ Cardinality(Announced(Append(t, e))) =
                 Cardinality(Announced(t)) + (IF e \in {"stored", "updated"} THEN 1 ELSE 0)
<1> DEFINE u == Append(t, e)
           n == Len(t)
<1>1. u \in Seq(Events) /\ Len(u) = n + 1 /\ u[n + 1] = e /\ \A i \in 1 .. n : u[i] = t[i]
  BY AppendProperties
<1>2. n \in Nat /\ DOMAIN t = 1 .. n /\ DOMAIN u = 1 .. n + 1
  BY <1>1
<1>3. IsFiniteSet(1 .. n)
  BY <1>2, FS_Interval
<1> HIDE DEF u, n
<1>4. Announced(t) \subseteq 1 .. n
  BY <1>2 DEF Announced
<1>5. IsFiniteSet(Announced(t)) /\ Cardinality(Announced(t)) \in Nat
  BY <1>3, <1>4, FS_Subset, FS_CardinalityType
<1>6. n + 1 \notin Announced(t)
  BY <1>2, <1>4
<1>7. CASE e \in {"stored", "updated"}
  <2>1. Announced(u) = Announced(t) \union {n + 1}
    BY <1>1, <1>2, <1>7 DEF Announced
  <2>2. QED
    BY <1>1, <1>5, <1>6, <1>7, <2>1, FS_AddElement DEF u
<1>8. CASE e \notin {"stored", "updated"}
  <2>1. Announced(u) = Announced(t)
    BY <1>1, <1>2, <1>8 DEF Announced
  <2>2. QED
    BY <1>1, <1>5, <1>8, <2>1 DEF u
<1>9. QED
  BY <1>7, <1>8

-----------------------------------------------------------------------------
\* A run that has read the manifest, and has come to its game number pos.
Counts == [imported : Nat, already : Nat, updated : Nat]
FileRuns ==
    [pc : {"idle", "recover", "game", "rename_record", "write_index", "rename_index",
           "emit", "write_summary", "rename_summary"},
     input : Seq(Games \union {Bad}), pos : Nat \ {0}, index : Seq(Games), counts : Counts]

Sum(counts) == counts.imported + counts.already + counts.updated

\* Of every game of the file it has come past, the index has the last version.
Caught(r) ==
    /\ r.pos <= Len(r.input) + 1 /\ Sum(r.counts) = r.pos - 1
    /\ \A i \in 1 .. r.pos - 1 :
          (\A j \in i + 1 .. r.pos - 1 : r.input[j].gid # r.input[i].gid)
              => r.input[i] \in ToSet(r.index)

Tidy == tmpRecords = {} /\ tmpIndex = NoFile /\ tmpSummary = NoFile

\* The manifest and the files, whatever a death has left beside them.
StoreWhole == IsIndex(manifest) /\ ToSet(manifest) \subseteq files

\* What process p has under its hands.
Hands(p) ==
    LET r == import[p]
    IN  /\ r.pc \in {"recover", "game", "rename_record", "write_index", "rename_index",
                     "write_summary", "rename_summary"} => r.index = manifest
        /\ r.pc # "idle" => Caught(r)
        /\ r.pc = "recover" => r.pos = 1
        /\ r.pc = "game" => Tidy /\ (r.pos = 1 => files = ToSet(manifest))
        /\ r.pc \in {"write_summary", "rename_summary"} => r.pos = Len(r.input) + 1
        /\ r.pc \in {"rename_record", "write_index", "rename_index", "emit"} =>
              r.pos <= Len(r.input) /\ Game(p) \in Games
        /\ r.pc = "rename_record" =>
              tmpRecords = {Game(p)} /\ tmpIndex = NoFile /\ tmpSummary = NoFile
        /\ r.pc \in {"write_index", "emit"} => Tidy
        /\ r.pc \in {"write_index", "rename_index", "emit"} => Game(p) \in files
        /\ r.pc = "rename_index" =>
              tmpRecords = {} /\ tmpSummary = NoFile /\ tmpIndex = NewIndex(p)
        /\ r.pc = "emit" =>
              /\ manifest = NewIndex(p)
              /\ IsIndex(r.index) /\ ToSet(r.index) \subseteq files

\* The commits an event has told of, and the one it is about to tell of.
Told(p) ==
    LET heard == Cardinality(Announced(telemetry))
    IN  /\ telemetry \in Seq(Events) /\ commits \in Nat /\ deaths \in Nat
        /\ heard <= commits
        /\ import[p].pc = "emit" => heard + 1 <= commits
        /\ commits <= heard + deaths + (IF import[p].pc = "emit" THEN 1 ELSE 0)

ImportInv(p) ==
    /\ import \in [{p} -> FileRuns]
    /\ StoreWhole /\ Hands(p) /\ Told(p)

-----------------------------------------------------------------------------
\* The invariant gives the property.
LEMMA ImportInvSound ==
    ASSUME ImportConstants, NEW p, Importers = {p}, Games \cap Nuls = {}, ImportInv(p)
    PROVE  ImportSound
<1> DEFINE r == import[p]
<1>1. r \in FileRuns
  BY DEF ImportInv
<1>2. IndexWhole
  <2>1. manifest \in Seq(Games) /\ \A i \in DOMAIN manifest : manifest[i] \in Games
    BY DEF ImportInv, StoreWhole, IsIndex
  <2>2. \A i \in DOMAIN manifest : manifest[i] \in files
    BY Listed DEF ImportInv, StoreWhole
  <2>3. \A g \in Games : RecordOK(g)
    <3>1. \A g \in Games : g # Bad
      BY DEF Games
    <3>2. QED
      BY <3>1 DEF RecordOK
  <2>4. QED
    BY <2>1, <2>2, <2>3 DEF ImportInv, StoreWhole, IsIndex, IndexWhole, IndexOK
<1>3. CleanStart
  BY DEF ImportInv, Hands, Tidy, CleanStart
<1>4. Converges
  <2>1. ASSUME r.pc = "write_summary"
        PROVE  /\ \A i \in DOMAIN r.input :
                     (\A j \in DOMAIN r.input : r.input[j].gid = r.input[i].gid => j <= i)
                         => r.input[i] \in ToSet(manifest)
               /\ r.counts.imported + r.counts.already + r.counts.updated = Len(r.input)
    <3>1. r.pos = Len(r.input) + 1 /\ Caught(r) /\ r.index = manifest
      BY <2>1 DEF ImportInv, Hands
    <3>2. Len(r.input) \in Nat /\ DOMAIN r.input = 1 .. Len(r.input) /\ r.pos - 1 = Len(r.input)
      BY <1>1, <3>1 DEF FileRuns
    <3>3. r.counts.imported + r.counts.already + r.counts.updated = Len(r.input)
      BY <3>1, <3>2 DEF Caught, Sum
    <3>4. ASSUME NEW i \in DOMAIN r.input,
                 \A j \in DOMAIN r.input : r.input[j].gid = r.input[i].gid => j <= i
          PROVE  r.input[i] \in ToSet(manifest)
      <4>1. \A j \in i + 1 .. r.pos - 1 : r.input[j].gid # r.input[i].gid
        BY <3>2, <3>4
      <4>2. QED
        BY <3>1, <3>2, <4>1 DEF Caught
    <3>5. QED
      BY <3>3, <3>4
  <2>2. QED
    BY <2>1 DEF Converges
<1>5. EventsTrail
  <2> DEFINE heard == Cardinality(Announced(telemetry))
             E == {q \in Importers : import[q].pc = "emit"}
  <2>1. heard \in Nat
    <3>1. telemetry \in Seq(Events) /\ "started" \in Events
      BY DEF ImportInv, Told, Events
    <3>2. QED
      BY <3>1, OneMoreTold
  <2>2. Cardinality(E) = IF r.pc = "emit" THEN 1 ELSE 0
    <3>1. E = IF r.pc = "emit" THEN {p} ELSE {}
      OBVIOUS
    <3>2. Cardinality({p}) = 1 /\ Cardinality({}) = 0
      BY FS_Singleton, FS_EmptySet
    <3>3. QED
      BY <3>1, <3>2
  <2> HIDE DEF E
  <2>3. heard <= commits /\ commits - heard <= deaths + Cardinality(E)
    BY <2>1, <2>2 DEF ImportInv, Told
  <2>4. QED
    BY <2>3 DEF EventsTrail, E
<1>6. QED
  BY <1>2, <1>3, <1>4, <1>5 DEF ImportSound

-----------------------------------------------------------------------------
\* What a step makes of the run.
SameRun(r, s) ==
    /\ s.input = r.input /\ s.pos = r.pos /\ s.index = r.index /\ s.counts = r.counts

LEMMA Moved ==
    ASSUME NEW p, import \in [{p} -> FileRuns], NEW x,
           x \in {"game", "rename_record", "write_index", "rename_index", "emit",
                  "write_summary", "rename_summary"},
           To(p, x)
    PROVE  /\ import' \in [{p} -> FileRuns] /\ import'[p].pc = x
           /\ SameRun(import[p], import'[p])
BY DEF To, FileRuns, SameRun

LEMMA NothingYet == NoImport \in FileRuns /\ NoImport.pc = "idle"
<1>1. <<>> \in Seq(Games \union {Bad}) /\ <<>> \in Seq(Games)
  OBVIOUS
<1>2. QED
  BY <1>1 DEF NoImport, FileRuns, Counts

LEMMA Stopped ==
    ASSUME NEW p, import \in [{p} -> FileRuns], import' = [import EXCEPT ![p] = NoImport]
    PROVE  import' \in [{p} -> FileRuns] /\ import'[p].pc = "idle"
BY NothingYet

LEMMA SameCaught ==
    ASSUME NEW r, NEW s, SameRun(r, s), Caught(r)
    PROVE  Caught(s)
BY DEF SameRun, Caught

LEMMA SameGame ==
    ASSUME NEW p, SameRun(import[p], import'[p])
    PROVE  /\ Game(p)' = Game(p)
           /\ files' = files => NewIndex(p)' = NewIndex(p)
<1>1. Game(p)' = Game(p)
  BY DEF SameRun, Game
<1>2. ASSUME files' = files
      PROVE  NewIndex(p)' = NewIndex(p)
  <2>1. EntryOf(p)' = EntryOf(p)
    BY <1>1 DEF SameRun, EntryOf
  <2>2. Existing(p)' = Existing(p)
    BY <1>2, <2>1 DEF SameRun, Existing
  <2>3. QED
    BY <1>1, <2>2 DEF SameRun, NewIndex, RemoveFirstMatch, RemoveAt, SelectInSeq
<1>3. QED
  BY <1>1, <1>2

\* An event that tells of no commit, or of none that waits for it.
LEMMA StillTold ==
    ASSUME NEW p, Told(p), UNCHANGED <<telemetry, commits, deaths>>,
           import[p].pc # "emit", import'[p].pc # "emit"
    PROVE  Told(p)'
BY DEF Told

LEMMA ToldOther ==
    ASSUME NEW p, Told(p), NEW e \in {"started", "duplicate", "completed"},
           telemetry' = Append(telemetry, e), UNCHANGED <<commits, deaths>>,
           import[p].pc # "emit", import'[p].pc # "emit"
    PROVE  Told(p)'
<1>1. telemetry \in Seq(Events) /\ e \in Events /\ e \notin {"stored", "updated"}
  BY DEF Told, Events
<1>2. /\ telemetry' \in Seq(Events)
      /\ Cardinality(Announced(telemetry))' = Cardinality(Announced(telemetry))
  BY <1>1, OneMoreTold DEF Events
<1>3. QED
  BY <1>2 DEF Told

\* A death loses one event at most.
LEMMA ToldAtDeath ==
    ASSUME NEW p, Told(p), UNCHANGED <<telemetry, commits>>, deaths' = deaths + 1,
           import'[p].pc = "idle"
    PROVE  Told(p)'
<1>1. Cardinality(Announced(telemetry)) \in Nat
  <2>1. telemetry \in Seq(Events) /\ "started" \in Events
    BY DEF Told, Events
  <2>2. QED
    BY <2>1, OneMoreTold
<1>2. QED
  BY <1>1 DEF Told

-----------------------------------------------------------------------------
\* A run begins, and recovers.
LEMMA StartInv ==
    ASSUME ImportConstants, NEW p, ImportInv(p), NEW input \in PgnFiles, StartImport(p, input)
    PROVE  ImportInv(p)'
<1> DEFINE r == [NoImport EXCEPT !.pc = "recover", !.input = input, !.index = manifest]
<1>1. import' = [import EXCEPT ![p] = r]
  BY DEF StartImport
<1>2. input \in Seq(Games \union {Bad}) /\ manifest \in Seq(Games)
  BY DEF ImportConstants, ImportInv, StoreWhole, IsIndex
<1>3. /\ r.pc = "recover" /\ r.input = input /\ r.pos = 1 /\ r.index = manifest
      /\ r.counts = [imported |-> 0, already |-> 0, updated |-> 0]
      /\ r \in FileRuns
  <2>1. NoImport \in FileRuns
    BY NothingYet
  <2>2. /\ NoImport.pos = 1
        /\ NoImport.counts = [imported |-> 0, already |-> 0, updated |-> 0]
    BY DEF NoImport
  <2>3. QED
    BY <1>2, <2>1, <2>2 DEF FileRuns
<1> HIDE DEF r
<1>4. import' \in [{p} -> FileRuns] /\ import'[p] = r
  BY <1>1, <1>3 DEF ImportInv
<1>5. Caught(r)
  <2>1. Len(input) \in Nat /\ Sum(r.counts) = 0 /\ r.pos - 1 = 0
    BY <1>2, <1>3 DEF Sum
  <2>2. QED
    BY <1>3, <2>1 DEF Caught
<1>6. UNCHANGED store /\ UNCHANGED <<deaths, commits>> /\ import[p].pc = "idle"
  BY DEF StartImport
<1>7. StoreWhole'
  BY <1>6 DEF ImportInv, StoreWhole, store
<1>8. Hands(p)'
  BY <1>3, <1>4, <1>5, <1>6 DEF Hands, store
<1>9. Told(p)'
  BY <1>3, <1>4, <1>6, StillTold DEF ImportInv, store
<1>10. QED
  BY <1>4, <1>7, <1>8, <1>9 DEF ImportInv

LEMMA RecoverInv ==
    ASSUME NEW p, ImportInv(p), RecoverTmp(p) \/ RecoverRecord(p)
    PROVE  ImportInv(p)'
<1>1. /\ import[p].pc = "recover" /\ import[p].index = manifest /\ import[p].pos = 1
      /\ Caught(import[p])
  BY DEF RecoverTmp, RecoverRecord, ImportInv, Hands
<1>2. UNCHANGED <<import, manifest, telemetry, commits, deaths>>
  BY DEF RecoverTmp, RecoverRecord
<1>3. ToSet(manifest) \subseteq files'
  <2>1. CASE RecoverTmp(p)
    BY <2>1 DEF RecoverTmp, ImportInv, StoreWhole
  <2>2. CASE RecoverRecord(p)
    <3>1. PICK f \in files \ ToSet(import[p].index) : files' = files \ {f}
      BY <2>2 DEF RecoverRecord
    <3>2. QED
      BY <1>1, <3>1 DEF ImportInv, StoreWhole
  <2>3. QED
    BY <2>1, <2>2
<1>4. StoreWhole'
  BY <1>2, <1>3 DEF ImportInv, StoreWhole
<1>5. Hands(p)'
  BY <1>1, <1>2 DEF Hands
<1>6. Told(p)'
  BY <1>1, <1>2, StillTold DEF ImportInv
<1>7. QED
  BY <1>2, <1>4, <1>5, <1>6 DEF ImportInv

LEMMA RecoveredInv ==
    ASSUME NEW p, ImportInv(p), Recovered(p)
    PROVE  ImportInv(p)'
<1>1. /\ import[p].pc = "recover" /\ import[p].index = manifest /\ import[p].pos = 1
      /\ Caught(import[p]) /\ Tidy /\ files \subseteq ToSet(manifest)
      /\ ToSet(manifest) \subseteq files /\ import \in [{p} -> FileRuns]
  BY DEF Recovered, ImportInv, Hands, Tidy, StoreWhole
<1>2. /\ UNCHANGED <<files, tmpRecords, manifest, tmpIndex, summary, tmpSummary>>
      /\ UNCHANGED <<deaths, commits>>
      /\ telemetry' = Append(telemetry, "started") /\ To(p, "game")
  BY DEF Recovered, Emit
<1>3. /\ import' \in [{p} -> FileRuns] /\ import'[p].pc = "game"
      /\ SameRun(import[p], import'[p])
  BY <1>1, <1>2, Moved
<1>4. Caught(import'[p]) /\ import'[p].index = manifest' /\ Tidy'
  BY <1>1, <1>2, <1>3, SameCaught DEF SameRun, Tidy
<1>5. Hands(p)'
  BY <1>1, <1>2, <1>3, <1>4 DEF Hands
<1>6. StoreWhole'
  BY <1>2 DEF ImportInv, StoreWhole
<1>7. Told(p)'
  BY <1>1, <1>2, <1>3, ToldOther DEF ImportInv
<1>8. QED
  BY <1>3, <1>5, <1>6, <1>7 DEF ImportInv

\* A run ends or dies: the manifest and its files stay.
LEMMA EndInv ==
    ASSUME NEW p, ImportInv(p), Refuse(p) \/ RenameFails(p) \/ Empty(p) \/ Finish(p) \/ Die(p)
    PROVE  ImportInv(p)'
<1>1. /\ import' = [import EXCEPT ![p] = NoImport]
      /\ UNCHANGED <<files, manifest, telemetry, commits>>
  BY DEF Refuse, RenameFails, Empty, Finish, Die, store
<1>2. import' \in [{p} -> FileRuns] /\ import'[p].pc = "idle"
  BY <1>1, Stopped DEF ImportInv
<1>3. StoreWhole'
  BY <1>1 DEF ImportInv, StoreWhole
<1>4. Hands(p)'
  BY <1>2 DEF Hands
<1>5. Told(p)'
  <2>1. CASE Die(p)
    BY <1>1, <1>2, <2>1, ToldAtDeath DEF Die, ImportInv
  <2>2. CASE Refuse(p) \/ RenameFails(p) \/ Empty(p) \/ Finish(p)
    <3>1. import[p].pc # "emit" /\ UNCHANGED deaths
      BY <2>2 DEF Refuse, AtGame, RenameFails, Empty, Finish
    <3>2. QED
      BY <1>1, <1>2, <3>1, StillTold DEF ImportInv
  <2>3. QED
    BY <2>1, <2>2
<1>6. QED
  BY <1>2, <1>3, <1>4, <1>5 DEF ImportInv

-----------------------------------------------------------------------------
\* The run comes past a game: its index has it, and the others as before.
LEMMA CameBy ==
    ASSUME NEW r \in FileRuns, NEW s, Caught(r), r.pos <= Len(r.input),
           s.input = r.input, s.pos = r.pos + 1, Sum(s.counts) = Sum(r.counts) + 1,
           r.input[r.pos] \in ToSet(s.index),
           \A h \in ToSet(r.index) : h.gid # r.input[r.pos].gid => h \in ToSet(s.index)
    PROVE  Caught(s)
<1>1. Len(r.input) \in Nat /\ r.pos \in Nat \ {0} /\ Sum(r.counts) = r.pos - 1
  BY DEF FileRuns, Caught
<1>2. s.pos <= Len(s.input) + 1 /\ Sum(s.counts) = s.pos - 1
  BY <1>1
<1>3. ASSUME NEW i \in 1 .. s.pos - 1,
             \A j \in i + 1 .. s.pos - 1 : s.input[j].gid # s.input[i].gid
      PROVE  s.input[i] \in ToSet(s.index)
  <2>1. CASE i = r.pos
    BY <2>1
  <2>2. CASE i # r.pos
    <3>1. i \in 1 .. r.pos - 1 /\ r.pos \in i + 1 .. s.pos - 1
      BY <1>1, <1>3, <2>2
    <3>2. \A j \in i + 1 .. r.pos - 1 : j \in i + 1 .. s.pos - 1
      BY <1>1
    <3>3. r.input[i] \in ToSet(r.index)
      BY <1>3, <3>1, <3>2 DEF Caught
    <3>4. r.input[i].gid # r.input[r.pos].gid
      BY <1>3, <3>1
    <3>5. QED
      BY <3>3, <3>4
  <2>3. QED
    BY <2>1, <2>2
<1>4. QED
  BY <1>2, <1>3 DEF Caught

\* The game in hand is one of the file, and the validator has accepted it.
LEMMA GameInHand ==
    ASSUME NEW p, import[p] \in FileRuns, AtGame(p), Game(p) # Bad
    PROVE  Game(p) \in Games
<1>1. Len(import[p].input) \in Nat /\ import[p].pos \in Nat \ {0}
      /\ import[p].input \in Seq(Games \union {Bad})
  BY DEF FileRuns
<1>2. import[p].pos \in 1 .. Len(import[p].input)
  BY <1>1 DEF AtGame
<1>3. import[p].input[import[p].pos] \in Games \union {Bad}
  BY <1>1, <1>2
<1>4. QED
  BY <1>3 DEF Game

LEMMA DuplicateInv ==
    ASSUME ImportConstants, NEW p, ImportInv(p), Duplicate(p)
    PROVE  ImportInv(p)'
<1> DEFINE r == import[p]
           s == import'[p]
<1>1. /\ r.pc = "game" /\ r.index = manifest /\ Caught(r) /\ Tidy
      /\ r.pos <= Len(r.input) /\ import \in [{p} -> FileRuns] /\ r \in FileRuns
  BY DEF Duplicate, AtGame, ImportInv, Hands
<1>2. /\ UNCHANGED <<files, tmpRecords, manifest, tmpIndex, summary, tmpSummary>>
      /\ UNCHANGED <<deaths, commits>> /\ telemetry' = Append(telemetry, "duplicate")
  BY DEF Duplicate, Emit
<1>3. Game(p) \in ToSet(r.index)
  <2>1. Game(p) \in Games
    BY <1>1, GameInHand DEF Duplicate
  <2>2. PICK i \in DOMAIN r.index : r.index[i].gid = Game(p).gid
                                    /\ r.index[i].content = Game(p).content
    BY DEF Duplicate, Existing, EntryOf, SameContent
  <2>3. r.index[i] \in Games
    BY <1>1 DEF FileRuns
  <2>4. r.index[i] = Game(p)
    BY <2>1, <2>2, <2>3 DEF ImportConstants
  <2>5. QED
    BY <2>4, Listed
<1>4. /\ s = [r EXCEPT !.pos = r.pos + 1, !.counts = [r.counts EXCEPT !.already = @ + 1]]
      /\ import' \in [{p} -> FileRuns]
  <2>1. import' = [import EXCEPT ![p].pos = @ + 1, ![p].counts.already = @ + 1]
    BY DEF Duplicate
  <2>2. s = [r EXCEPT !.pos = r.pos + 1, !.counts = [r.counts EXCEPT !.already = @ + 1]]
    BY <1>1, <2>1 DEF FileRuns
  <2>3. r.pos + 1 \in Nat \ {0} /\ [r.counts EXCEPT !.already = @ + 1] \in Counts
    BY <1>1 DEF FileRuns, Counts
  <2>4. s \in FileRuns
    BY <1>1, <2>2, <2>3 DEF FileRuns
  <2>5. QED
    BY <1>1, <2>1, <2>2, <2>4
<1>5. /\ s.pc = "game" /\ s.input = r.input /\ s.pos = r.pos + 1 /\ s.index = r.index
      /\ Sum(s.counts) = Sum(r.counts) + 1
  <2>1. /\ s.pc = "game" /\ s.input = r.input /\ s.pos = r.pos + 1 /\ s.index = r.index
        /\ s.counts = [r.counts EXCEPT !.already = @ + 1] /\ r.counts \in Counts
    BY <1>1, <1>4 DEF FileRuns
  <2> HIDE DEF r, s
  <2>2. Sum([r.counts EXCEPT !.already = @ + 1]) = Sum(r.counts) + 1
    BY <2>1 DEF Counts, Sum
  <2>3. QED
    BY <2>1, <2>2
<1>6. Caught(s)
  BY <1>1, <1>3, <1>5, CameBy DEF Game
<1>7. Hands(p)'
  <2>1. s.pos # 1
    BY <1>1, <1>5 DEF FileRuns
  <2>2. QED
    BY <1>1, <1>2, <1>5, <1>6, <2>1 DEF Hands, Tidy
<1>8. StoreWhole'
  BY <1>2 DEF ImportInv, StoreWhole
<1>9. Told(p)'
  BY <1>1, <1>2, <1>5, ToldOther DEF ImportInv
<1>10. QED
  BY <1>4, <1>7, <1>8, <1>9 DEF ImportInv

-----------------------------------------------------------------------------
\* The four steps of a commit.
LEMMA WriteRecordInv ==
    ASSUME NEW p, ImportInv(p), WriteRecord(p)
    PROVE  ImportInv(p)'
<1>1. /\ import[p].pc = "game" /\ import[p].index = manifest /\ Caught(import[p]) /\ Tidy
      /\ import[p].pos <= Len(import[p].input) /\ import \in [{p} -> FileRuns]
  BY DEF WriteRecord, AtGame, ImportInv, Hands
<1>2. /\ UNCHANGED <<files, manifest, tmpIndex, tmpSummary, telemetry, deaths, commits>>
      /\ tmpRecords' = {Game(p)} /\ To(p, "rename_record")
  BY <1>1 DEF WriteRecord, Tidy
<1>3. /\ import' \in [{p} -> FileRuns] /\ import'[p].pc = "rename_record"
      /\ SameRun(import[p], import'[p])
  BY <1>1, <1>2, Moved
<1>4. Caught(import'[p]) /\ import'[p].index = manifest'
      /\ import'[p].pos <= Len(import'[p].input)
  BY <1>1, <1>2, <1>3, SameCaught DEF SameRun
<1>5. Game(p)' = Game(p) /\ Game(p) \in Games
  BY <1>1, <1>3, SameGame, GameInHand DEF WriteRecord
<1>6. Hands(p)'
  BY <1>1, <1>2, <1>3, <1>4, <1>5 DEF Hands, Tidy
<1>7. StoreWhole'
  BY <1>2 DEF ImportInv, StoreWhole
<1>8. Told(p)'
  BY <1>1, <1>2, <1>3, StillTold DEF ImportInv
<1>9. QED
  BY <1>3, <1>6, <1>7, <1>8 DEF ImportInv

LEMMA RenameRecordInv ==
    ASSUME NEW p, ImportInv(p), RenameRecord(p)
    PROVE  ImportInv(p)'
<1>1. /\ import[p].pc = "rename_record" /\ import[p].index = manifest /\ Caught(import[p])
      /\ import[p].pos <= Len(import[p].input) /\ import \in [{p} -> FileRuns]
      /\ Game(p) \in Games
      /\ tmpRecords = {Game(p)} /\ tmpIndex = NoFile /\ tmpSummary = NoFile
  BY DEF RenameRecord, ImportInv, Hands
<1>2. /\ UNCHANGED <<manifest, tmpIndex, tmpSummary, telemetry, deaths, commits>>
      /\ tmpRecords' = {} /\ files' = files \union {Game(p)} /\ To(p, "write_index")
  BY <1>1 DEF RenameRecord
<1>3. /\ import' \in [{p} -> FileRuns] /\ import'[p].pc = "write_index"
      /\ SameRun(import[p], import'[p])
  BY <1>1, <1>2, Moved
<1>4. Caught(import'[p]) /\ import'[p].index = manifest'
      /\ import'[p].pos <= Len(import'[p].input)
  BY <1>1, <1>2, <1>3, SameCaught DEF SameRun
<1>5. Game(p)' = Game(p)
  BY <1>3, SameGame
<1>6. Hands(p)'
  BY <1>1, <1>2, <1>3, <1>4, <1>5 DEF Hands, Tidy
<1>7. StoreWhole'
  BY <1>2 DEF ImportInv, StoreWhole
<1>8. Told(p)'
  BY <1>1, <1>2, <1>3, StillTold DEF ImportInv
<1>9. QED
  BY <1>3, <1>6, <1>7, <1>8 DEF ImportInv

LEMMA WriteIndexInv ==
    ASSUME NEW p, ImportInv(p), WriteIndex(p)
    PROVE  ImportInv(p)'
<1>1. /\ import[p].pc = "write_index" /\ import[p].index = manifest /\ Caught(import[p])
      /\ import[p].pos <= Len(import[p].input) /\ import \in [{p} -> FileRuns]
      /\ Game(p) \in Games /\ Game(p) \in files /\ Tidy
  BY DEF WriteIndex, ImportInv, Hands
<1>2. /\ UNCHANGED <<files, tmpRecords, manifest, tmpSummary, telemetry, deaths, commits>>
      /\ tmpIndex' = NewIndex(p) /\ To(p, "rename_index")
  BY DEF WriteIndex
<1>3. /\ import' \in [{p} -> FileRuns] /\ import'[p].pc = "rename_index"
      /\ SameRun(import[p], import'[p])
  BY <1>1, <1>2, Moved
<1>4. Caught(import'[p]) /\ import'[p].index = manifest'
      /\ import'[p].pos <= Len(import'[p].input)
  BY <1>1, <1>2, <1>3, SameCaught DEF SameRun
<1>5. Game(p)' = Game(p) /\ NewIndex(p)' = NewIndex(p)
  BY <1>2, <1>3, SameGame
<1>6. Hands(p)'
  BY <1>1, <1>2, <1>3, <1>4, <1>5 DEF Hands, Tidy
<1>7. StoreWhole'
  BY <1>2 DEF ImportInv, StoreWhole
<1>8. Told(p)'
  BY <1>1, <1>2, <1>3, StillTold DEF ImportInv
<1>9. QED
  BY <1>3, <1>6, <1>7, <1>8 DEF ImportInv

\* What the manifest becomes: the property of the lemma on NewIndex, of this state.
LEMMA NextManifest ==
    ASSUME NEW p, ImportInv(p), RenameIndex(p)
    PROVE  /\ manifest' = NewIndex(p) /\ IsIndex(manifest') /\ ToSet(manifest') \subseteq files
           /\ Game(p) \in Games
           /\ \/ manifest' = Append(manifest, Game(p))
              \/ \E i \in DOMAIN manifest :
                    /\ Game(p).gid = manifest[i].gid
                    /\ manifest' = [manifest EXCEPT ![i] = Game(p)]
<1>1. /\ import[p].pc = "rename_index" /\ import[p].index = manifest
      /\ Game(p) \in Games /\ Game(p) \in files /\ tmpIndex = NewIndex(p)
      /\ IsIndex(manifest) /\ ToSet(manifest) \subseteq files
  BY DEF RenameIndex, ImportInv, Hands, StoreWhole
<1>2. manifest' = NewIndex(p)
  BY <1>1 DEF RenameIndex
<1>3. /\ IsIndex(NewIndex(p))
      /\ ToSet(NewIndex(p)) \subseteq ToSet(import[p].index) \union {Game(p)}
      /\ \/ NewIndex(p) = Append(import[p].index, Game(p))
         \/ \E i \in DOMAIN import[p].index :
               /\ Game(p).gid = import[p].index[i].gid
               /\ NewIndex(p) = [import[p].index EXCEPT ![i] = Game(p)]
  BY <1>1, NewIndexIs
<1>4. QED
  BY <1>1, <1>2, <1>3

LEMMA RenameIndexInv ==
    ASSUME NEW p, ImportInv(p), RenameIndex(p)
    PROVE  ImportInv(p)'
<1>1. /\ import[p].pc = "rename_index" /\ import[p].index = manifest /\ Caught(import[p])
      /\ import[p].pos <= Len(import[p].input) /\ import \in [{p} -> FileRuns]
      /\ Game(p) \in Games /\ Game(p) \in files /\ tmpRecords = {} /\ tmpSummary = NoFile
      /\ StoreWhole
  BY DEF RenameIndex, ImportInv, Hands
<1>2. /\ UNCHANGED <<files, tmpRecords, tmpSummary, telemetry, deaths>>
      /\ tmpIndex' = NoFile /\ commits' = commits + 1 /\ To(p, "emit")
  BY DEF RenameIndex
<1>3. /\ import' \in [{p} -> FileRuns] /\ import'[p].pc = "emit"
      /\ SameRun(import[p], import'[p])
  BY <1>1, <1>2, Moved
<1>4. Caught(import'[p]) /\ import'[p].index = manifest
      /\ import'[p].pos <= Len(import'[p].input)
  BY <1>1, <1>3, SameCaught DEF SameRun
<1>5. Game(p)' = Game(p) /\ NewIndex(p)' = NewIndex(p)
  BY <1>2, <1>3, SameGame
<1>6. manifest' = NewIndex(p) /\ IsIndex(manifest') /\ ToSet(manifest') \subseteq files
  BY NextManifest
<1>7. Hands(p)'
  BY <1>1, <1>2, <1>3, <1>4, <1>5, <1>6 DEF Hands, Tidy, StoreWhole
<1>8. StoreWhole'
  BY <1>2, <1>6 DEF StoreWhole
<1>9. Told(p)'
  <2>1. Cardinality(Announced(telemetry)) \in Nat
    <3>1. telemetry \in Seq(Events) /\ "started" \in Events
      BY DEF ImportInv, Told, Events
    <3>2. QED
      BY <3>1, OneMoreTold
  <2>2. QED
    BY <1>1, <1>2, <1>3, <2>1 DEF ImportInv, Told
<1>10. QED
  BY <1>3, <1>7, <1>8, <1>9 DEF ImportInv

LEMMA EmitInv ==
    ASSUME NEW p, ImportInv(p), EmitCommitted(p)
    PROVE  ImportInv(p)'
<1> DEFINE r == import[p]
           s == import'[p]
           what == IF Existing(p) # {} THEN "updated" ELSE "stored"
           count == IF Existing(p) # {} THEN "updated" ELSE "imported"
<1>1. /\ r.pc = "emit" /\ Caught(r) /\ Tidy /\ r.pos <= Len(r.input)
      /\ import \in [{p} -> FileRuns] /\ r \in FileRuns /\ Game(p) \in Games
      /\ manifest = NewIndex(p) /\ IsIndex(r.index) /\ ToSet(r.index) \subseteq files
  BY DEF EmitCommitted, ImportInv, Hands
<1>2. /\ UNCHANGED <<files, tmpRecords, manifest, tmpIndex, summary, tmpSummary>>
      /\ UNCHANGED <<deaths, commits>> /\ telemetry' = Append(telemetry, what)
  BY DEF EmitCommitted, Emit
<1>3. /\ IsIndex(NewIndex(p)) /\ Game(p) \in ToSet(NewIndex(p))
      /\ \A h \in ToSet(r.index) : h.gid # Game(p).gid => h \in ToSet(NewIndex(p))
  BY <1>1, NewIndexIs
<1>4. /\ s.pc = "game" /\ s.input = r.input /\ s.pos = r.pos + 1 /\ s.index = manifest
      /\ Sum(s.counts) = Sum(r.counts) + 1 /\ import' \in [{p} -> FileRuns]
  <2>1. import' = [import EXCEPT ![p].pc = "game", ![p].pos = @ + 1,
                                 ![p].index = NewIndex(p), ![p].counts[count] = @ + 1]
    BY DEF EmitCommitted
  <2> DEFINE c == [r.counts EXCEPT ![count] = @ + 1]
  <2>2. count \in {"updated", "imported"}
    OBVIOUS
  <2> HIDE DEF count
  <2>3. s = [r EXCEPT !.pc = "game", !.pos = @ + 1, !.index = NewIndex(p), !.counts = c]
    BY <1>1, <2>1 DEF FileRuns
  <2>4. c \in Counts /\ Sum(c) = Sum(r.counts) + 1
    <3>1. r.counts \in Counts
      BY <1>1 DEF FileRuns
    <3>2. CASE count = "updated"
      BY <3>1, <3>2 DEF Counts, Sum
    <3>3. CASE count = "imported"
      BY <3>1, <3>3 DEF Counts, Sum
    <3>4. QED
      BY <2>2, <3>2, <3>3
  <2>5. NewIndex(p) \in Seq(Games) /\ r.pos + 1 \in Nat \ {0}
    BY <1>1, <1>3 DEF IsIndex, FileRuns
  <2> HIDE DEF c
  <2>6. s \in FileRuns
    BY <1>1, <2>3, <2>4, <2>5 DEF FileRuns
  <2>7. import' \in [{p} -> FileRuns]
    BY <1>1, <2>1, <2>6
  <2>8. QED
    BY <1>1, <2>3, <2>4, <2>7 DEF FileRuns
<1>5. Caught(s)
  BY <1>1, <1>3, <1>4, CameBy DEF Game
<1>6. Hands(p)'
  <2>1. s.pos # 1
    BY <1>1, <1>4 DEF FileRuns
  <2>2. QED
    BY <1>1, <1>2, <1>4, <1>5, <2>1 DEF Hands, Tidy
<1>7. StoreWhole'
  BY <1>2 DEF ImportInv, StoreWhole
<1>8. Told(p)'
  <2>1. telemetry \in Seq(Events) /\ what \in Events /\ what \in {"stored", "updated"}
    BY DEF ImportInv, Told, Events
  <2> HIDE DEF what
  <2>2. /\ telemetry' \in Seq(Events)
        /\ Cardinality(Announced(telemetry)) \in Nat
        /\ Cardinality(Announced(telemetry'))  = Cardinality(Announced(telemetry)) + 1
    BY <1>2, <2>1, OneMoreTold
  <2>3. QED
    BY <1>1, <1>2, <1>4, <2>2 DEF ImportInv, Told
<1>9. QED
  BY <1>4, <1>6, <1>7, <1>8 DEF ImportInv

-----------------------------------------------------------------------------
\* The end of a run.
LEMMA CompleteInv ==
    ASSUME NEW p, ImportInv(p), Complete(p)
    PROVE  ImportInv(p)'
<1>1. /\ import[p].pc = "game" /\ import[p].index = manifest /\ Caught(import[p])
      /\ import \in [{p} -> FileRuns]
  BY DEF Complete, ImportInv, Hands
<1>2. import[p].pos = Len(import[p].input) + 1
  BY <1>1 DEF Complete, Caught, FileRuns
<1>3. /\ UNCHANGED <<files, tmpRecords, manifest, tmpIndex, summary, tmpSummary>>
      /\ UNCHANGED <<deaths, commits>> /\ telemetry' = Append(telemetry, "completed")
      /\ To(p, "write_summary")
  BY DEF Complete, Emit
<1>4. /\ import' \in [{p} -> FileRuns] /\ import'[p].pc = "write_summary"
      /\ SameRun(import[p], import'[p])
  BY <1>1, <1>3, Moved
<1>5. Caught(import'[p]) /\ import'[p].index = manifest'
      /\ import'[p].pos = Len(import'[p].input) + 1
  BY <1>1, <1>2, <1>3, <1>4, SameCaught DEF SameRun
<1>6. Hands(p)'
  BY <1>4, <1>5 DEF Hands
<1>7. StoreWhole'
  BY <1>3 DEF ImportInv, StoreWhole
<1>8. Told(p)'
  BY <1>1, <1>3, <1>4, ToldOther DEF ImportInv
<1>9. QED
  BY <1>4, <1>6, <1>7, <1>8 DEF ImportInv

LEMMA SummaryInv ==
    ASSUME NEW p, ImportInv(p), WriteSummary(p)
    PROVE  ImportInv(p)'
<1>1. /\ import[p].pc = "write_summary" /\ import[p].index = manifest /\ Caught(import[p])
      /\ import[p].pos = Len(import[p].input) + 1 /\ import \in [{p} -> FileRuns]
  BY DEF WriteSummary, ImportInv, Hands
<1>2. /\ UNCHANGED <<files, manifest, telemetry, deaths, commits>>
      /\ To(p, "rename_summary")
  BY DEF WriteSummary
<1>3. /\ import' \in [{p} -> FileRuns] /\ import'[p].pc = "rename_summary"
      /\ SameRun(import[p], import'[p])
  BY <1>1, <1>2, Moved
<1>4. Caught(import'[p]) /\ import'[p].index = manifest'
      /\ import'[p].pos = Len(import'[p].input) + 1
  BY <1>1, <1>2, <1>3, SameCaught DEF SameRun
<1>5. Hands(p)'
  BY <1>3, <1>4 DEF Hands
<1>6. StoreWhole'
  BY <1>2 DEF ImportInv, StoreWhole
<1>7. Told(p)'
  BY <1>1, <1>2, <1>3, StillTold DEF ImportInv
<1>8. QED
  BY <1>3, <1>5, <1>6, <1>7 DEF ImportInv

-----------------------------------------------------------------------------
LEMMA ImportBegins ==
    ASSUME NEW p, Importers = {p}, ImportInit
    PROVE  ImportInv(p)
<1>1. import \in [{p} -> FileRuns] /\ import[p].pc = "idle"
  BY NothingYet DEF ImportInit
<1>2. StoreWhole
  <2>1. IsIndex(<<>>) /\ ToSet(<<>>) = {}
    BY DEF IsIndex, ToSet
  <2>2. QED
    BY <2>1 DEF ImportInit, StoreWhole
<1>3. Told(p)
  <2>1. Announced(<<>>) = {} /\ <<>> \in Seq(Events)
    BY DEF Announced
  <2>2. Cardinality(Announced(<<>>)) = 0
    BY <2>1, FS_EmptySet
  <2>3. telemetry = <<>> /\ commits = 0 /\ deaths = 0
    BY DEF ImportInit
  <2>4. QED
    BY <1>1, <2>1, <2>2, <2>3 DEF Told
<1>4. QED
  BY <1>1, <1>2, <1>3 DEF ImportInv, Hands

LEMMA ImportGoesOn ==
    ASSUME ImportConstants, NEW p, Importers = {p}, ImportInv(p), [ImportNext]_importVars
    PROVE  ImportInv(p)'
<1>1. CASE UNCHANGED importVars
  BY <1>1, SameGame DEF importVars, store, ImportInv, StoreWhole, Told, Hands, Tidy, SameRun
<1>2. CASE \E input \in PgnFiles : StartImport(p, input)
  BY <1>2, StartInv
<1>3. CASE ImportStep(p)
  BY <1>3, RecoverInv, RecoveredInv, EndInv, DuplicateInv, WriteRecordInv, RenameRecordInv,
     WriteIndexInv, RenameIndexInv, EmitInv, CompleteInv, SummaryInv DEF ImportStep
<1>4. CASE Die(p)
  BY <1>4, EndInv
<1>5. QED
  BY <1>1, <1>2, <1>3, <1>4 DEF ImportNext

\* One process at a time imports files that hold no NUL: at every moment, whatever
\* has died and been repeated, the manifest and the record files agree, a run finds
\* a clean store before its first game, a completed run has every game of its file
\* in the version the file has last, and the events tell of the commits.
THEOREM ImportStaysSound ==
    ASSUME ImportConstants, NEW p, Importers = {p}, Games \cap Nuls = {}
    PROVE  ImportSpec => []ImportSound
<1>1. ImportInit => ImportInv(p)
  BY ImportBegins
<1>2. ImportInv(p) /\ [ImportNext]_importVars => ImportInv(p)'
  BY ImportGoesOn
<1>3. ImportInv(p) => ImportSound
  BY ImportInvSound
<1>4. QED
  BY <1>1, <1>2, <1>3, PTL DEF ImportSpec

\* Nothing but the renaming of a new manifest changes the manifest, and it changes
\* one game: what is committed stays, until a later version takes its place.
THEOREM CommitsStay ==
    ASSUME ImportConstants, NEW p, Importers = {p}
    PROVE  ImportSpec => CommittedStays
<1> DEFINE OneChanges ==
       manifest' # manifest =>
         \/ \E g \in Games : manifest' = Append(manifest, g)
         \/ \E i \in DOMAIN manifest, g \in Games :
               g.gid = manifest[i].gid /\ manifest' = [manifest EXCEPT ![i] = g]
<1>1. ImportInit => ImportInv(p)
  BY ImportBegins
<1>2. ImportInv(p) /\ [ImportNext]_importVars => ImportInv(p)'
  BY ImportGoesOn
<1>3. ASSUME ImportInv(p), [ImportNext]_importVars
      PROVE  [OneChanges]_importVars
  <2>1. CASE RenameIndex(p)
    BY <1>3, <2>1, NextManifest
  <2>2. CASE ~ RenameIndex(p)
    <3>1. manifest' = manifest
      BY <1>3, <2>2 DEF ImportNext, ImportStep, StartImport, RecoverTmp, RecoverRecord,
         Recovered, Refuse, Duplicate, WriteRecord, RenameRecord, WriteIndex, EmitCommitted,
         RenameFails, Complete, Empty, WriteSummary, Finish, Die, Emit, store, importVars
    <3>2. QED
      BY <3>1
  <2>3. QED
    BY <2>1, <2>2
<1>4. QED
  BY <1>1, <1>2, <1>3, PTL DEF ImportSpec, CommittedStays

-----------------------------------------------------------------------------
(***************************************************************************)
(* The readers of a stream (GameStream).  Decoding, cutting and stripping  *)
(* are functions of the text, so what is left to show is that nothing is   *)
(* lost between two reads: what a reader has yielded, followed by the      *)
(* games from its buffer on, are the games of the whole text (CameTo).  A  *)
(* cut moves one game from the second part to the first (CutKeeps), a      *)
(* chunk moves the end of the buffer and not its beginning (TextGrows),    *)
(* and at the end what waits in the decoder becomes one replacement        *)
(* character, which begins no game (LastGame).                             *)
(***************************************************************************)
\* Every nonempty set of naturals has a least element; what a reader does byte by
\* byte, or game by game, is proved at a smallest counterexample.
LEMMA LeastNatural ==
    ASSUME NEW T \in SUBSET Nat, T # {}
    PROVE  \E m \in T : \A n \in T : m <= n
<1> DEFINE Below == {0 .. n : n \in T}
<1>1. \A n \in T : 0 .. n \in FiniteSubsetsOf(Nat)
  BY FS_Interval DEF FiniteSubsetsOf
<1>2. Below \subseteq FiniteSubsetsOf(Nat) /\ Below # {}
  BY <1>1
<1>3. IsWellFoundedOn(StrictSubsetOrdering(Nat), FiniteSubsetsOf(Nat))
  BY FS_StrictSubsetOrderingWellFounded
<1>4. PICK x \in Below : \A y \in Below : <<y, x>> \notin StrictSubsetOrdering(Nat)
  <2> HIDE DEF Below
  <2>1. QED
    BY <1>2, <1>3, WFMin
<1>5. PICK m \in T : x = 0 .. m
  BY <1>4
<1>6. ASSUME NEW n \in T, n < m
      PROVE  FALSE
  <2> DEFINE a == 0 .. n
             b == 0 .. m
  <2>1. a \in Below /\ a \subseteq b /\ a # b /\ a \in SUBSET Nat /\ b \in SUBSET Nat
    <3>1. m \notin 0 .. n /\ m \in 0 .. m
      BY <1>6
    <3>2. QED
      BY <1>6, <3>1
  <2> HIDE DEF a, b
  <2>2. <<a, b>> \in StrictSubsetOrdering(Nat)
    BY <2>1 DEF StrictSubsetOrdering
  <2>3. QED
    BY <1>4, <1>5, <2>1, <2>2 DEF b
<1>7. QED
  BY <1>6

LEMMA Upwards ==
    ASSUME NEW N \in Nat, NEW S, 0 \in S, \A n \in 1 .. N : n - 1 \in S => n \in S
    PROVE  0 .. N \subseteq S
<1> DEFINE Missing == {n \in 0 .. N : n \notin S}
<1>1. SUFFICES ASSUME Missing # {} PROVE FALSE
  OBVIOUS
<1>2. PICK m \in Missing : \A n \in Missing : m <= n
  <2>1. Missing \in SUBSET Nat
    OBVIOUS
  <2> HIDE DEF Missing
  <2>2. QED
    BY <1>1, <2>1, LeastNatural
<1>3. m \in 1 .. N /\ m - 1 \in 0 .. N
  BY <1>2
<1>4. m - 1 \in Missing => m <= m - 1
  BY <1>2
<1>5. QED
  BY <1>2, <1>3, <1>4

Letters == {"n", "[", "x", "E", "?"}
Texts == Seq(Letters)
Waits == {<<>>, <<"c1">>}
DecoderStates == [out : Texts, wait : Waits]

\* How the decoder proceeds over the bytes.
Decodes(f, wait, bytes) ==
    /\ f \in [0 .. Len(bytes) -> DecoderStates]
    /\ f[0] = [out |-> <<>>, wait |-> wait]
    /\ \A n \in 1 .. Len(bytes) : f[n] = Feed(f[n - 1], bytes[n])

\* One byte more, and what was decoded before it stays.
LEMMA FeedStays ==
    ASSUME NEW st \in DecoderStates, NEW b \in Bytes
    PROVE  /\ Feed(st, b) \in DecoderStates
           /\ \A old \in Texts :
                 Feed([out |-> old \o st.out, wait |-> st.wait], b) =
                    [out |-> old \o Feed(st, b).out, wait |-> Feed(st, b).wait]
<1> DEFINE c == IF b = "c2" THEN "?" ELSE b
           fresh(out) == IF b = "c1" THEN [out |-> out, wait |-> <<b>>]
                         ELSE [out |-> Append(out, c), wait |-> <<>>]
<1>1. st.out \in Texts /\ st.wait \in Waits /\ c \in Letters \union {"c1"} /\ "E" \in Letters
      /\ "?" \in Letters /\ (b # "c1" => c \in Letters)
  BY DEF DecoderStates, Bytes, Letters
<1>2. \A t \in Texts, l \in Letters : Append(t, l) \in Texts
  BY AppendProperties DEF Texts
<1>3. \A t \in Texts : fresh(t) \in DecoderStates
  BY <1>1, <1>2 DEF DecoderStates, Waits
<1>4. \A old, t \in Texts, l \in Letters : Append(old \o t, l) = old \o Append(t, l)
  <2> TAKE old \in Texts, t \in Texts, l \in Letters
  <2>1. old \o t \in Texts /\ <<l>> \in Texts
    BY ConcatProperties DEF Texts
  <2>2. Append(old \o t, l) = (old \o t) \o <<l>> /\ Append(t, l) = t \o <<l>>
    BY <2>1, AppendIsConcat DEF Texts
  <2>3. QED
    BY <2>1, <2>2, ConcatAssociative DEF Texts
<1>5. \A old, t \in Texts :
         fresh(old \o t) = [out |-> old \o fresh(t).out, wait |-> fresh(t).wait]
  BY <1>1, <1>4
<1>6. Feed(st, b) =
         IF st.wait = <<>> THEN fresh(st.out)
         ELSE IF b = "c2" THEN [out |-> Append(st.out, "E"), wait |-> <<>>]
         ELSE fresh(Append(st.out, "?"))
  BY DEF Feed
<1>7. \A old \in Texts : Feed([out |-> old \o st.out, wait |-> st.wait], b) =
         IF st.wait = <<>> THEN fresh(old \o st.out)
         ELSE IF b = "c2" THEN [out |-> Append(old \o st.out, "E"), wait |-> <<>>]
         ELSE fresh(Append(old \o st.out, "?"))
  BY DEF Feed
<1> HIDE DEF fresh, c
<1>8. Feed(st, b) \in DecoderStates
  BY <1>1, <1>2, <1>3, <1>6 DEF DecoderStates, Waits
<1>9. ASSUME NEW old \in Texts
      PROVE  Feed([out |-> old \o st.out, wait |-> st.wait], b) =
                    [out |-> old \o Feed(st, b).out, wait |-> Feed(st, b).wait]
  <2>1. CASE st.wait = <<>>
    BY <1>1, <1>5, <1>6, <1>7, <2>1
  <2>2. CASE st.wait # <<>> /\ b = "c2"
    <3>1. Append(old \o st.out, "E") = old \o Append(st.out, "E")
      BY <1>1, <1>4
    <3>2. Feed(st, b) = [out |-> Append(st.out, "E"), wait |-> <<>>]
      BY <1>6, <2>2
    <3>3. Feed([out |-> old \o st.out, wait |-> st.wait], b) =
             [out |-> Append(old \o st.out, "E"), wait |-> <<>>]
      BY <1>7, <2>2
    <3>4. Feed(st, b).out = Append(st.out, "E") /\ Feed(st, b).wait = <<>>
      BY <3>2
    <3>5. QED
      BY <3>1, <3>3, <3>4, Zenon
  <2>3. CASE st.wait # <<>> /\ b # "c2"
    BY <1>1, <1>2, <1>4, <1>5, <1>6, <1>7, <2>3
  <2>4. QED
    BY <2>1, <2>2, <2>3
<1>10. QED
  BY <1>8, <1>9

LEMMA DecodedIs ==
    ASSUME NEW wait \in Waits, NEW bytes \in Seq(Bytes)
    PROVE  \E f : Decodes(f, wait, bytes) /\ Decoded(wait, bytes) = f[Len(bytes)]
<1> DEFINE N == Len(bytes)
           begin == [out |-> <<>>, wait |-> wait]
           body(f) == [n \in 0 .. N |-> IF n = 0 THEN begin ELSE Feed(f[n - 1], bytes[n])]
           Run(n) == {f \in [0 .. n -> DecoderStates] :
                         f[0] = begin /\ \A m \in 1 .. n : f[m] = Feed(f[m - 1], bytes[m])}
           Stuck == {n \in 0 .. N : Run(n) = {}}
           chosen == CHOOSE f : f = body(f)
<1>1. N \in Nat /\ begin \in DecoderStates /\ \A n \in 1 .. N : bytes[n] \in Bytes
  BY ElementOfSeq, EmptySeq DEF DecoderStates, Texts
<1>2. Stuck = {}
  <2> SUFFICES ASSUME Stuck # {} PROVE FALSE
    OBVIOUS
  <2>1. PICK n \in Stuck : \A m \in Stuck : n <= m
    <3>1. Stuck \in SUBSET Nat
      BY <1>1
    <3> HIDE DEF Stuck
    <3>2. QED
      BY <3>1, LeastNatural
  <2>2. n \in 0 .. N /\ Run(n) = {}
    BY <2>1
  <2>3. n # 0
    <3>1. [m \in 0 .. 0 |-> begin] \in Run(0)
      BY <1>1
    <3>2. QED
      BY <2>2, <3>1
  <2>4. n - 1 \in 0 .. N /\ n \in 1 .. N /\ n - 1 \in 0 .. n - 1 /\ n - 1 \notin Stuck
    <3>1. n - 1 \in Stuck => n <= n - 1
      BY <2>1
    <3> HIDE DEF Stuck
    <3>2. QED
      BY <1>1, <2>2, <2>3, <3>1
  <2>5. PICK f \in [0 .. n - 1 -> DecoderStates] :
           f[0] = begin /\ \A m \in 1 .. n - 1 : f[m] = Feed(f[m - 1], bytes[m])
    <3>1. Run(n - 1) # {}
      BY <2>4
    <3>2. QED
      BY <3>1
  <2> DEFINE last == Feed(f[n - 1], bytes[n])
             h == [m \in 0 .. n |-> IF m = n THEN last ELSE f[m]]
  <2>6. last \in DecoderStates
    <3>1. f[n - 1] \in DecoderStates /\ bytes[n] \in Bytes
      BY <1>1, <2>4, <2>5
    <3>2. QED
      BY <3>1, FeedStays
  <2> HIDE DEF last
  <2>7. h \in [0 .. n -> DecoderStates] /\ h[0] = begin
    BY <2>4, <2>5, <2>6
  <2>8. \A m \in 1 .. n : h[m] = Feed(h[m - 1], bytes[m])
    BY <2>4, <2>5 DEF last
  <2> HIDE DEF h
  <2>9. h \in Run(n)
    BY <2>7, <2>8
  <2>10. QED
    BY <2>2, <2>9
<1>3. chosen = body(chosen)
  <2>1. PICK f \in Run(N) : TRUE
    <3>1. N \in 0 .. N /\ N \notin Stuck
      BY <1>1, <1>2
    <3>2. QED
      BY <3>1
  <2>2. f = body(f)
    <3>1. /\ f \in [0 .. N -> DecoderStates] /\ f[0] = begin
          /\ \A m \in 1 .. N : f[m] = Feed(f[m - 1], bytes[m])
      BY <2>1
    <3>2. \A n \in 0 .. N : f[n] = IF n = 0 THEN begin ELSE Feed(f[n - 1], bytes[n])
      BY <1>1, <3>1
    <3> HIDE DEF begin
    <3>3. QED
      BY <3>1, <3>2
  <2> HIDE DEF body
  <2>3. QED
    BY <2>2
<1>4. Decoded(wait, bytes) = chosen[N]
  BY DEF Decoded
<1> HIDE DEF chosen
<1>5. /\ DOMAIN chosen = 0 .. N
      /\ \A n \in 0 .. N : chosen[n] = IF n = 0 THEN begin ELSE Feed(chosen[n - 1], bytes[n])
  <2> HIDE DEF begin
  <2>1. DOMAIN body(chosen) = 0 .. N
        /\ \A n \in 0 .. N : body(chosen)[n] =
              IF n = 0 THEN begin ELSE Feed(chosen[n - 1], bytes[n])
    OBVIOUS
  <2> HIDE DEF body
  <2>2. QED
    BY <1>3, <2>1
<1> DEFINE Wrong == {n \in 0 .. N : chosen[n] \notin DecoderStates}
<1>6. Wrong = {}
  <2> SUFFICES ASSUME Wrong # {} PROVE FALSE
    OBVIOUS
  <2>1. PICK n \in Wrong : \A m \in Wrong : n <= m
    <3>1. Wrong \in SUBSET Nat
      BY <1>1
    <3> HIDE DEF Wrong
    <3>2. QED
      BY <3>1, LeastNatural
  <2>2. n \in 0 .. N /\ chosen[n] \notin DecoderStates
    BY <2>1
  <2>3. n # 0
    BY <1>1, <1>5, <2>2
  <2>4. n - 1 \in 0 .. N /\ n \in 1 .. N /\ n - 1 \notin Wrong
    BY <1>1, <2>1, <2>2, <2>3
  <2>5. Feed(chosen[n - 1], bytes[n]) \in DecoderStates
    BY <1>1, <2>4, FeedStays
  <2>6. QED
    BY <1>5, <2>2, <2>3, <2>5
<1>7. chosen \in [0 .. N -> DecoderStates] /\ chosen[0] = begin
      /\ \A n \in 1 .. N : chosen[n] = Feed(chosen[n - 1], bytes[n])
  <2>1. chosen = [n \in 0 .. N |-> chosen[n]]
    <3> HIDE DEF begin
    <3>1. QED
      BY <1>3
  <2>2. chosen \in [0 .. N -> DecoderStates]
    BY <1>5, <1>6, <2>1
  <2>3. 0 \in 0 .. N /\ \A n \in 1 .. N : n \in 0 .. N /\ n # 0
    BY <1>1
  <2> HIDE DEF begin
  <2>4. QED
    BY <1>5, <2>2, <2>3
<1>8. QED
  BY <1>4, <1>7 DEF Decodes

\* What is decoded of a stream does not depend on where it is divided, if the
\* second part is decoded with what the first one waits with.
LEMMA DecodeSplit ==
    ASSUME NEW wait \in Waits, NEW a \in Seq(Bytes), NEW b \in Seq(Bytes)
    PROVE  LET s == Decoded(wait, a)
               t == Decoded(s.wait, b)
           IN  /\ s \in DecoderStates /\ t \in DecoderStates
               /\ Decoded(wait, a \o b) = [out |-> s.out \o t.out, wait |-> t.wait]
<1> DEFINE s == Decoded(wait, a)
           t == Decoded(s.wait, b)
           join(x) == [out |-> s.out \o x.out, wait |-> x.wait]
           A == Len(a)
           B == Len(b)
<1>1. /\ A \in Nat /\ B \in Nat /\ a \o b \in Seq(Bytes) /\ Len(a \o b) = A + B
      /\ \A n \in 1 .. A : a[n] \in Bytes /\ (a \o b)[n] = a[n]
      /\ \A n \in 1 .. B : b[n] \in Bytes /\ (a \o b)[A + n] = b[n]
  <2>1. /\ A \in Nat /\ B \in Nat /\ a \o b \in Seq(Bytes) /\ Len(a \o b) = A + B
        /\ \A n \in 1 .. A + B : (a \o b)[n] = IF n <= A THEN a[n] ELSE b[n - A]
    BY ConcatProperties
  <2>2. \A n \in 1 .. A : a[n] \in Bytes
    BY ElementOfSeq
  <2>3. \A n \in 1 .. B : b[n] \in Bytes
    BY ElementOfSeq
  <2>4. QED
    BY <2>1, <2>2, <2>3
<1>2. PICK f : Decodes(f, wait, a) /\ s = f[A]
  BY DecodedIs
<1>3. s \in DecoderStates /\ s.out \in Texts /\ s.wait \in Waits
  BY <1>1, <1>2 DEF Decodes, DecoderStates
<1> HIDE DEF s
<1>4. PICK g : Decodes(g, s.wait, b) /\ t = g[B]
  BY <1>3, DecodedIs
<1>5. t \in DecoderStates
  BY <1>1, <1>4 DEF Decodes
<1>6. PICK h : Decodes(h, wait, a \o b) /\ Decoded(wait, a \o b) = h[A + B]
  BY <1>1, DecodedIs
<1>7. h[A] = s
  <2> DEFINE S == {n \in 0 .. A : h[n] = f[n]}
  <2>1. 0 \in S
    BY <1>1, <1>2, <1>6 DEF Decodes
  <2>2. \A n \in 1 .. A : n - 1 \in S => n \in S
    <3> TAKE n \in 1 .. A
    <3>1. f[n] = Feed(f[n - 1], a[n])
      BY <1>2 DEF Decodes
    <3>2. h[n] = Feed(h[n - 1], (a \o b)[n])
      BY <1>1, <1>6 DEF Decodes
    <3>3. QED
      BY <1>1, <3>1, <3>2
  <2> HIDE DEF S
  <2>3. 0 .. A \subseteq S
    BY <1>1, <2>1, <2>2, Upwards
  <2>4. QED
    BY <1>1, <1>2, <2>3 DEF S
<1>8. h[A + B] = join(t)
  <2> DEFINE S == {n \in 0 .. B : h[A + n] = join(g[n])}
  <2>1. 0 \in S
    <3>1. g[0].out = <<>> /\ g[0].wait = s.wait
      BY <1>4 DEF Decodes
    <3>2. s.out \o <<>> = s.out
      BY <1>3, ConcatEmptySeq DEF Texts
    <3>3. s = [out |-> s.out, wait |-> s.wait]
      BY <1>3 DEF DecoderStates
    <3>4. join(g[0]) = s
      BY <3>1, <3>2, <3>3
    <3>5. 0 \in 0 .. B /\ A + 0 = A
      BY <1>1
    <3> HIDE DEF join
    <3>6. h[A + 0] = join(g[0])
      BY <1>7, <3>4, <3>5
    <3>7. QED
      BY <3>5, <3>6
  <2>2. \A n \in 1 .. B : n - 1 \in S => n \in S
    <3> SUFFICES ASSUME NEW n \in 1 .. B, n - 1 \in S PROVE n \in S
      OBVIOUS
    <3>1. g[n] = Feed(g[n - 1], b[n]) /\ g[n - 1] \in DecoderStates
      BY <1>1, <1>4 DEF Decodes
    <3>2. A + n \in 1 .. Len(a \o b) /\ A + n - 1 = A + (n - 1)
      BY <1>1
    <3>3. h[A + n] = Feed(h[A + (n - 1)], (a \o b)[A + n])
      BY <1>6, <3>2 DEF Decodes
    <3>4. h[A + (n - 1)] = join(g[n - 1])
      OBVIOUS
    <3>5. Feed(join(g[n - 1]), b[n]) = join(Feed(g[n - 1], b[n]))
      BY <1>1, <1>3, <3>1, FeedStays
    <3>6. h[A + n] = join(g[n])
      BY <1>1, <3>1, <3>3, <3>4, <3>5
    <3>7. QED
      BY <3>6
  <2> HIDE DEF S
  <2>3. 0 .. B \subseteq S
    BY <1>1, <2>1, <2>2, Upwards
  <2>4. B \in S
    BY <1>1, <2>3
  <2>5. QED
    BY <1>4, <2>4 DEF S
<1>9. QED
  BY <1>3, <1>5, <1>6, <1>8 DEF s

LEMMA DecodedStays ==
    ASSUME NEW wait \in Waits, NEW bytes \in Seq(Bytes)
    PROVE  Decoded(wait, bytes) \in DecoderStates
<1>1. <<>> \in Seq(Bytes)
  BY EmptySeq
<1>2. QED
  BY <1>1, DecodeSplit

LEMMA NothingDecoded ==
    ASSUME NEW wait \in Waits
    PROVE  Decoded(wait, <<>>) = [out |-> <<>>, wait |-> wait]
<1>1. <<>> \in Seq(Bytes) /\ Len(<<>>) = 0
  BY EmptySeq
<1>2. PICK f : Decodes(f, wait, <<>>) /\ Decoded(wait, <<>>) = f[0]
  BY <1>1, DecodedIs
<1>3. QED
  BY <1>2 DEF Decodes

\* One-byte characters are decoded to themselves.
LEMMA OneByteDecoded ==
    ASSUME NEW bytes \in Seq(Bytes), \A n \in DOMAIN bytes : bytes[n] \notin {"c1", "c2"}
    PROVE  /\ bytes \in Texts
           /\ Decoded(<<>>, bytes) = [out |-> bytes, wait |-> <<>>]
           /\ DecodedAlone(bytes) = bytes
<1> DEFINE N == Len(bytes)
<1>1. /\ N \in Nat /\ DOMAIN bytes = 1 .. N /\ <<>> \in Waits
      /\ \A n \in 1 .. N : bytes[n] \in Letters /\ bytes[n] \notin {"c1", "c2"}
  <2>1. \A n \in 1 .. N : bytes[n] \in Bytes
    BY ElementOfSeq
  <2>2. QED
    BY <2>1, LenProperties DEF Bytes, Letters, Waits
<1>2. bytes \in Texts
  BY <1>1 DEF Texts
<1>3. PICK f : Decodes(f, <<>>, bytes) /\ Decoded(<<>>, bytes) = f[N]
  BY <1>1, DecodedIs
<1> DEFINE plain(t) == [out |-> t, wait |-> <<>>]
           S == {n \in 0 .. N : f[n] = plain(SubSeq(bytes, 1, n))}
<1>4. 0 \in S
  <2>1. SubSeq(bytes, 1, 0) = <<>>
    BY SubSeqEmpty
  <2>2. f[0] = plain(SubSeq(bytes, 1, 0))
    BY <1>3, <2>1 DEF Decodes
  <2> HIDE DEF plain
  <2>3. QED
    BY <1>1, <2>2
<1>5. \A n \in 1 .. N : n - 1 \in S => n \in S
  <2> SUFFICES ASSUME NEW n \in 1 .. N, n - 1 \in S PROVE n \in S
    OBVIOUS
  <2>1. f[n] = Feed(f[n - 1], bytes[n])
    BY <1>1, <1>3 DEF Decodes
  <2>2. f[n - 1] = plain(SubSeq(bytes, 1, n - 1))
    OBVIOUS
  <2>3. Feed(f[n - 1], bytes[n]) = plain(Append(SubSeq(bytes, 1, n - 1), bytes[n]))
    <3> DEFINE old == SubSeq(bytes, 1, n - 1)
               byte == bytes[n]
               st == f[n - 1]
    <3>1. byte \notin {"c1", "c2"} /\ st.out = old /\ st.wait = <<>>
      BY <1>1, <2>2
    <3> HIDE DEF old, byte, st
    <3>2. Feed(st, byte) = plain(Append(old, byte))
      BY <3>1 DEF Feed
    <3>3. QED
      BY <3>2 DEF old, byte, st
  <2>4. Append(SubSeq(bytes, 1, n - 1), bytes[n]) = SubSeq(bytes, 1, n)
    <3>1. SubSeq(bytes, 1, n) = SubSeq(bytes, 1, n - 1) \o <<bytes[n]>>
      BY <1>1, SubSeqRecursiveSecond
    <3>2. SubSeq(bytes, 1, n - 1) \in Seq(Bytes) /\ bytes[n] \in Bytes
      BY <1>1, ElementOfSeq, SubSeqProperties
    <3>3. QED
      BY <3>1, <3>2, AppendIsConcat
  <2> HIDE DEF plain
  <2>5. f[n] = plain(SubSeq(bytes, 1, n))
    BY <2>1, <2>3, <2>4
  <2>6. QED
    BY <1>1, <2>5
<1> HIDE DEF S
<1>6. N \in S
  BY <1>1, <1>4, <1>5, Upwards
<1>7. Decoded(<<>>, bytes) = [out |-> bytes, wait |-> <<>>]
  BY <1>3, <1>6, SubSeqFull DEF S
<1>8. QED
  BY <1>2, <1>7 DEF DecodedAlone, Flushed

\* Where a text is cut.
LEMMA CutsAre ==
    ASSUME NEW text \in Texts, NEW first \in Nat \ {0}
    PROVE  CutsFrom(text, first) =
             {n \in first .. Len(text) - 2 :
                 text[n] = "n" /\ text[n + 1] = "n" /\ text[n + 2] = "["}
<1>1. ASSUME NEW n \in first .. Len(text) - 2
      PROVE  SubSeq(text, n, n + 2) = <<"n", "n", "[">> <=>
                text[n] = "n" /\ text[n + 1] = "n" /\ text[n + 2] = "["
  <2> DEFINE three == SubSeq(text, n, n + 2)
             tag == <<"n", "n", "[">>
  <2>1. Len(text) \in Nat /\ n \in Nat /\ n + 2 \in Nat /\ n >= 1 /\ n + 2 <= Len(text)
    BY <1>1 DEF Texts
  <2>2. /\ three \in Seq(Letters) /\ Len(three) = 3
        /\ three[1] = text[n] /\ three[2] = text[n + 1] /\ three[3] = text[n + 2]
    <3>1. \A i \in n .. n + 2 : text[i] \in Letters
      BY <2>1 DEF Texts
    <3>2. /\ three \in Seq(Letters) /\ Len(three) = IF n <= n + 2 THEN n + 2 - n + 1 ELSE 0
          /\ \A i \in 1 .. n + 2 - n + 1 : three[i] = text[n + i - 1]
      BY <2>1, <3>1, SubSeqProperties
    <3>3. 1 \in 1 .. n + 2 - n + 1 /\ 2 \in 1 .. n + 2 - n + 1 /\ 3 \in 1 .. n + 2 - n + 1
      BY <2>1
    <3> HIDE DEF three
    <3>4. three[1] = text[n + 1 - 1] /\ three[2] = text[n + 2 - 1] /\ three[3] = text[n + 3 - 1]
      BY <3>2, <3>3
    <3>5. n + 1 - 1 = n /\ n + 2 - 1 = n + 1 /\ n + 3 - 1 = n + 2 /\ n + 2 - n + 1 = 3 /\ n <= n + 2
      BY <2>1
    <3>6. QED
      BY <3>2, <3>4, <3>5
  <2>3. /\ tag \in Seq(Letters) /\ Len(tag) = 3
        /\ tag[1] = "n" /\ tag[2] = "n" /\ tag[3] = "["
    BY DEF Letters
  <2> HIDE DEF three, tag
  <2>4. ASSUME text[n] = "n", text[n + 1] = "n", text[n + 2] = "["
        PROVE  three = tag
    <3>1. \A i \in 1 .. 3 : three[i] = tag[i]
      <4>1. \A i \in 1 .. 3 : i = 1 \/ i = 2 \/ i = 3
        OBVIOUS
      <4>2. QED
        BY <2>2, <2>3, <2>4, <4>1
    <3>2. QED
      BY <2>2, <2>3, <3>1, SeqEqual
  <2>5. QED
    BY <2>2, <2>3, <2>4 DEF three, tag
<1>2. QED
  BY <1>1 DEF CutsFrom

LEMMA FirstIs ==
    ASSUME NEW text \in Texts, NEW first \in Nat \ {0}, CutsFrom(text, first) # {}
    PROVE  /\ FirstFrom(text, first) \in CutsFrom(text, first)
           /\ \A k \in CutsFrom(text, first) : FirstFrom(text, first) <= k
<1>1. CutsFrom(text, first) \in SUBSET Nat
  BY CutsAre DEF Texts
<1>2. \E n \in CutsFrom(text, first) : \A k \in CutsFrom(text, first) : n <= k
  BY <1>1, LeastNatural
<1>3. QED
  BY <1>2 DEF FirstFrom

\* The newlines that a text begins with.
LEMMA LeadingIs ==
    ASSUME NEW text \in Texts
    PROVE  /\ Leading(text) \in 0 .. Len(text)
           /\ \A k \in 1 .. Leading(text) : text[k] = "n"
           /\ Leading(text) = Len(text) \/ text[Leading(text) + 1] # "n"
<1> DEFINE S == {n \in 0 .. Len(text) : n = Len(text) \/ text[n + 1] # "n"}
<1>1. Len(text) \in Nat
  BY DEF Texts
<1>2. PICK n \in S : \A m \in S : n <= m
  <2>1. S \in SUBSET Nat /\ Len(text) \in S
    BY <1>1
  <2> HIDE DEF S
  <2>2. QED
    BY <2>1, LeastNatural
<1>3. \A k \in 1 .. n : text[k] = "n"
  <2> TAKE k \in 1 .. n
  <2>1. k - 1 \in 0 .. Len(text) /\ k - 1 # Len(text) /\ k - 1 + 1 = k /\ ~ (n <= k - 1)
    BY <1>1, <1>2
  <2>2. k - 1 \notin S
    BY <1>2, <2>1
  <2>3. QED
    BY <2>1, <2>2
<1>4. QED
  BY <1>2, <1>3 DEF Leading

\* What is left of a text without the newlines around it.
LEMMA StrippedIs ==
    ASSUME NEW text \in Texts, ~ Blank(text)
    PROVE  LET last == Len(text) - Leading(Reverse(text))
           IN  /\ Leading(text) \in Nat /\ last \in Leading(text) + 1 .. Len(text)
               /\ Stripped(text) = SubSeq(text, Leading(text) + 1, last)
               /\ Stripped(text) \in Texts
<1> DEFINE N == Len(text)
           back == Reverse(text)
           last == N - Leading(back)
<1>1. N \in Nat /\ \A k \in 1 .. N : text[k] \in Letters /\ N - k + 1 \in 1 .. N
  BY DEF Texts
<1>2. back \in Texts /\ Len(back) = N /\ \A k \in 1 .. N : back[k] = text[N - k + 1]
  BY <1>1 DEF Texts, Reverse
<1>3. PICK i \in 1 .. N : text[i] # "n"
  BY LenProperties DEF Blank, Texts
<1>4. Leading(text) \in 0 .. N /\ i \notin 1 .. Leading(text)
  BY <1>3, LeadingIs
<1>5. Leading(back) \in 0 .. N /\ N - i + 1 \notin 1 .. Leading(back)
  <2>1. N - i + 1 \in 1 .. N /\ N - (N - i + 1) + 1 = i
    BY <1>1, <1>3
  <2>2. back[N - i + 1] # "n"
    BY <1>2, <1>3, <2>1
  <2>3. QED
    BY <1>2, <2>2, LeadingIs
<1> HIDE DEF back
<1>6. Leading(text) \in Nat /\ last \in Leading(text) + 1 .. N
  BY <1>1, <1>3, <1>4, <1>5
<1>7. Stripped(text) = SubSeq(text, Leading(text) + 1, last)
  BY DEF Stripped, back
<1>8. Stripped(text) \in Texts
  <2>1. \A k \in Leading(text) + 1 .. last : text[k] \in Letters
    BY <1>1, <1>6
  <2>2. QED
    BY <1>1, <1>6, <1>7, <2>1, SubSeqProperties DEF Texts
<1>9. QED
  BY <1>6, <1>7, <1>8 DEF back

LEMMA YieldedIs ==
    ASSUME NEW text \in Texts
    PROVE  Yielded(text) \in Seq(Texts)
<1>1. <<>> \in Seq(Texts)
  BY EmptySeq
<1>2. \A t \in Texts : <<t>> \in Seq(Texts)
  OBVIOUS
<1>3. QED
  BY <1>1, <1>2, StrippedIs DEF Yielded

\* The games from a character on: the first of them, and those behind its cut.
Rest(text, f, n) ==
    IF CutsFrom(text, n + 1) = {} THEN Yielded(SubSeq(text, n, Len(text)))
    ELSE Yielded(SubSeq(text, n, FirstFrom(text, n + 1) - 1)) \o f[FirstFrom(text, n + 1) + 2]

LEMMA RestIs ==
    ASSUME NEW text \in Texts, NEW n \in 1 .. Len(text) + 1
    PROVE  /\ CutsFrom(text, n + 1) # {} =>
                 FirstFrom(text, n + 1) \in n + 1 .. Len(text) - 2
           /\ \A f : (\A m \in n + 3 .. Len(text) : f[m] \in Seq(Texts))
                 => Rest(text, f, n) \in Seq(Texts)
           /\ \A f, g : (\A m \in n + 3 .. Len(text) : f[m] = g[m])
                 => Rest(text, f, n) = Rest(text, g, n)
<1> DEFINE N == Len(text)
           c == FirstFrom(text, n + 1)
<1>1. N \in Nat /\ n \in Nat \ {0} /\ n + 1 \in Nat \ {0} /\ \A i \in 1 .. N : text[i] \in Letters
  BY DEF Texts
<1>2. ASSUME CutsFrom(text, n + 1) # {}
      PROVE  c \in n + 1 .. N - 2 /\ c + 2 \in n + 3 .. N
  <2>1. c \in CutsFrom(text, n + 1)
    BY <1>1, <1>2, FirstIs
  <2>2. CutsFrom(text, n + 1) \subseteq n + 1 .. N - 2
    BY <1>1, CutsAre
  <2> HIDE DEF c
  <2>3. c \in n + 1 .. N - 2
    BY <2>1, <2>2
  <2>4. QED
    BY <1>1, <2>3
<1>3. \A k \in 0 .. N : Yielded(SubSeq(text, n, k)) \in Seq(Texts)
  <2> TAKE k \in 0 .. N
  <2>1. \A i \in n .. k : text[i] \in Letters
    BY <1>1
  <2>2. SubSeq(text, n, k) \in Texts
    BY <1>1, <2>1, SubSeqProperties DEF Texts
  <2>3. QED
    BY <2>2, YieldedIs
<1>4. ASSUME NEW f, \A m \in n + 3 .. N : f[m] \in Seq(Texts)
      PROVE  Rest(text, f, n) \in Seq(Texts)
  <2>1. CASE CutsFrom(text, n + 1) = {}
    BY <1>1, <1>3, <2>1 DEF Rest
  <2>2. CASE CutsFrom(text, n + 1) # {}
    <3>1. c - 1 \in 0 .. N /\ f[c + 2] \in Seq(Texts)
      BY <1>1, <1>2, <1>4, <2>2
    <3>2. Yielded(SubSeq(text, n, c - 1)) \o f[c + 2] \in Seq(Texts)
      BY <1>3, <3>1, ConcatProperties
    <3>3. QED
      BY <2>2, <3>2 DEF Rest
  <2>3. QED
    BY <2>1, <2>2
<1>5. ASSUME NEW f, NEW g, \A m \in n + 3 .. N : f[m] = g[m]
      PROVE  Rest(text, f, n) = Rest(text, g, n)
  BY <1>2, <1>5 DEF Rest
<1>6. QED
  BY <1>2, <1>4, <1>5

LEMMA GamesFromIs ==
    ASSUME NEW text \in Texts
    PROVE  /\ GamesFrom(text) \in [1 .. Len(text) + 1 -> Seq(Texts)]
           /\ \A n \in 1 .. Len(text) + 1 :
                 GamesFrom(text)[n] = Rest(text, GamesFrom(text), n)
<1> DEFINE N == Len(text)
           fits(f, m) == /\ f \in [m .. N + 1 -> Seq(Texts)]
                         /\ \A n \in m .. N + 1 : f[n] = Rest(text, f, n)
           S == {d \in 0 .. N : \E f : fits(f, N + 1 - d)}
           body(f) == [n \in 1 .. N + 1 |-> Rest(text, f, n)]
           chosen == CHOOSE f : f = body(f)
<1>1. N \in Nat
  BY DEF Texts
<1>2. ASSUME NEW m \in 1 .. N + 1, NEW f, m < N + 1 => fits(f, m + 1)
      PROVE  \E h : fits(h, m)
  <2> DEFINE h == [n \in m .. N + 1 |-> IF n = m THEN Rest(text, f, m) ELSE f[n]]
  <2>1. \A n \in m + 3 .. N : f[n] \in Seq(Texts)
    BY <1>1, <1>2
  <2>2. Rest(text, f, m) \in Seq(Texts)
    BY <2>1, RestIs
  <2>3. \A n \in m .. N + 1 : n = m \/ (n \in m + 1 .. N + 1 /\ m < N + 1)
    BY <1>1
  <2>4. h \in [m .. N + 1 -> Seq(Texts)]
    BY <1>2, <2>2, <2>3
  <2>5. ASSUME NEW n \in m .. N + 1
        PROVE  h[n] = Rest(text, h, n)
    <3>1. n \in 1 .. N + 1 /\ \A k \in n + 3 .. N : k \in m .. N + 1 /\ k # m
      BY <1>1
    <3>2. \A k \in n + 3 .. N : h[k] = f[k]
      BY <3>1
    <3>3. Rest(text, h, n) = Rest(text, f, n)
      <4> HIDE DEF h
      <4>1. QED
        BY <3>1, <3>2, RestIs
    <3>4. h[n] = Rest(text, f, n)
      BY <1>2, <2>3
    <3>5. QED
      BY <3>3, <3>4
  <2> HIDE DEF h
  <2>6. QED
    BY <2>4, <2>5
<1>3. \E f : fits(f, 1)
  <2>1. 0 \in S
    <3>1. N + 1 \in 1 .. N + 1 /\ N + 1 - 0 = N + 1 /\ ~ (N + 1 < N + 1) /\ 0 \in 0 .. N
      BY <1>1
    <3> HIDE DEF fits
    <3>2. \E f : fits(f, N + 1)
      BY <1>2, <3>1
    <3>3. QED
      BY <3>1, <3>2
  <2>2. \A d \in 1 .. N : d - 1 \in S => d \in S
    <3> SUFFICES ASSUME NEW d \in 1 .. N, d - 1 \in S PROVE d \in S
      OBVIOUS
    <3>1. N + 1 - d \in 1 .. N + 1 /\ N + 1 - (d - 1) = N + 1 - d + 1 /\ d \in 0 .. N
      BY <1>1
    <3> HIDE DEF fits
    <3>2. PICK f : fits(f, N + 1 - d + 1)
      BY <3>1
    <3>3. \E h : fits(h, N + 1 - d)
      BY <1>2, <3>1, <3>2
    <3>4. QED
      BY <3>1, <3>3
  <2> HIDE DEF S
  <2>3. N \in S
    <3>1. 0 .. N \subseteq S
      BY <1>1, <2>1, <2>2, Upwards
    <3>2. QED
      BY <1>1, <3>1
  <2>4. N + 1 - N = 1
    BY <1>1
  <2> HIDE DEF fits
  <2>5. QED
    BY <2>3, <2>4 DEF S
<1>4. chosen = body(chosen)
  <2>1. PICK f : fits(f, 1)
    BY <1>3
  <2>2. f = body(f)
    BY <2>1
  <2> HIDE DEF body
  <2>3. QED
    BY <2>2
<1>5. GamesFrom(text) = chosen
  BY DEF GamesFrom, Rest
<1> HIDE DEF chosen
<1>6. DOMAIN chosen = 1 .. N + 1 /\ \A n \in 1 .. N + 1 : chosen[n] = Rest(text, chosen, n)
  <2>1. DOMAIN body(chosen) = 1 .. N + 1
        /\ \A n \in 1 .. N + 1 : body(chosen)[n] = Rest(text, chosen, n)
    OBVIOUS
  <2> HIDE DEF body
  <2>2. QED
    BY <1>4, <2>1
<1> DEFINE Wrong == {d \in 0 .. N : chosen[N + 1 - d] \notin Seq(Texts)}
<1>7. Wrong = {}
  <2> SUFFICES ASSUME Wrong # {} PROVE FALSE
    OBVIOUS
  <2>1. PICK d \in Wrong : \A e \in Wrong : d <= e
    <3>1. Wrong \in SUBSET Nat
      BY <1>1
    <3> HIDE DEF Wrong
    <3>2. QED
      BY <3>1, LeastNatural
  <2>2. d \in 0 .. N /\ N + 1 - d \in 1 .. N + 1 /\ chosen[N + 1 - d] \notin Seq(Texts)
    BY <1>1, <2>1
  <2>3. \A n \in N + 1 - d + 3 .. N : chosen[n] \in Seq(Texts)
    <3> TAKE n \in N + 1 - d + 3 .. N
    <3>1. N + 1 - n \in 0 .. N /\ ~ (d <= N + 1 - n) /\ N + 1 - (N + 1 - n) = n
      BY <1>1, <2>2
    <3>2. N + 1 - n \notin Wrong
      BY <2>1, <3>1
    <3>3. QED
      BY <3>1, <3>2
  <2>4. Rest(text, chosen, N + 1 - d) \in Seq(Texts)
    BY <2>2, <2>3, RestIs
  <2>5. QED
    BY <1>6, <2>2, <2>4
<1>8. \A n \in 1 .. N + 1 : chosen[n] \in Seq(Texts)
  <2> TAKE n \in 1 .. N + 1
  <2>1. N + 1 - n \in 0 .. N /\ N + 1 - (N + 1 - n) = n
    BY <1>1
  <2>2. QED
    BY <1>7, <2>1
<1>9. chosen \in [1 .. N + 1 -> Seq(Texts)]
  <2>1. chosen = [n \in 1 .. N + 1 |-> chosen[n]]
    BY <1>4
  <2>2. QED
    BY <1>8, <2>1
<1>10. QED
  BY <1>5, <1>6, <1>9

-----------------------------------------------------------------------------
\* A reader that has come to upto, with b in its buffer and the games gs yielded:
\* what it has yielded is what the text has before b.
CameTo(text, upto, b, gs) ==
    /\ upto \in 0 .. Len(text) /\ Len(b) <= upto
    /\ b = SubSeq(text, upto - Len(b) + 1, upto)
    /\ GamesFrom(text)[1] = gs \o GamesFrom(text)[upto - Len(b) + 1]

LEMMA AtBegin ==
    ASSUME NEW text \in Texts
    PROVE  CameTo(text, 0, <<>>, <<>>)
<1>1. Len(text) \in Nat /\ Len(<<>>) = 0
  BY EmptySeq DEF Texts
<1>2. GamesFrom(text)[1] \in Seq(Texts)
  BY <1>1, GamesFromIs
<1>3. <<>> \o GamesFrom(text)[1] = GamesFrom(text)[1]
  BY <1>2, ConcatEmptySeq
<1>4. SubSeq(text, 1, 0) = <<>>
  BY SubSeqEmpty
<1>5. 0 - Len(<<>>) + 1 = 1
  BY <1>1
<1>6. QED
  BY <1>1, <1>3, <1>4, <1>5 DEF CameTo

LEMMA MoreText ==
    ASSUME NEW text \in Texts, NEW upto, NEW b \in Texts, NEW gs, CameTo(text, upto, b, gs),
           NEW end \in upto .. Len(text), NEW more, more = SubSeq(text, upto + 1, end)
    PROVE  b \o more \in Texts /\ CameTo(text, end, b \o more, gs)
<1> DEFINE k == upto - Len(b) + 1
<1>1. /\ Len(text) \in Nat /\ Len(b) \in Nat /\ upto \in 0 .. Len(text) /\ Len(b) <= upto
      /\ end \in Nat /\ \A i \in 1 .. Len(text) : text[i] \in Letters
  BY DEF CameTo, Texts
<1>2. more \in Texts /\ Len(more) = end - upto
  <2>1. \A i \in upto + 1 .. end : text[i] \in Letters
    BY <1>1
  <2>2. more \in Texts /\ Len(more) = IF upto + 1 <= end THEN end - (upto + 1) + 1 ELSE 0
    BY <1>1, <2>1, SubSeqProperties DEF Texts
  <2>3. QED
    BY <1>1, <2>2
<1>3. b \o more \in Texts /\ Len(b \o more) = Len(b) + (end - upto)
  BY <1>2, ConcatProperties DEF Texts
<1>4. k \in 1 .. Len(text) + 1 /\ upto \in k - 1 .. Len(text)
  BY <1>1
<1>5. SubSeq(text, k, upto) \o SubSeq(text, upto + 1, end) = SubSeq(text, k, end)
  BY <1>4, ConcatAdjacentSubSeq DEF Texts
<1>6. end - Len(b \o more) + 1 = k /\ Len(b \o more) <= end
  <2> DEFINE n == Len(b)
             m == Len(b \o more)
  <2>1. n \in Nat /\ m = n + (end - upto) /\ end \in Nat /\ upto \in Nat /\ n <= upto
    BY <1>1, <1>3
  <2> HIDE DEF n, m
  <2>2. end - m + 1 = upto - n + 1 /\ m <= end
    BY <2>1
  <2>3. QED
    BY <2>2 DEF n, m
<1>7. b \o more = SubSeq(text, k, end) /\ GamesFrom(text)[1] = gs \o GamesFrom(text)[k]
  BY <1>5 DEF CameTo
<1>8. end \in 0 .. Len(text)
  BY <1>1
<1> HIDE DEF k
<1>9. QED
  BY <1>3, <1>6, <1>7, <1>8 DEF CameTo

\* What is in the buffer is in the text.
LEMMA BufferIs ==
    ASSUME NEW text \in Texts, NEW upto, NEW b \in Texts, NEW gs, CameTo(text, upto, b, gs)
    PROVE  LET k == upto - Len(b) + 1
           IN  /\ k \in 1 .. Len(text) + 1 /\ k + Len(b) - 1 = upto /\ upto \in 0 .. Len(text)
               /\ Len(b) \in Nat /\ Len(text) \in Nat
               /\ \A i \in 1 .. Len(b) : b[i] = text[k + i - 1]
               /\ \A i \in 2 .. Len(b) - 2 :
                     i \in CutsFrom(b, 2) <=> k + i - 1 \in CutsFrom(text, k + 1)
               /\ \A m \in CutsFrom(text, k + 1) : m \in Nat
               /\ \A m \in CutsFrom(text, k + 1) : m > k /\ m + 2 <= Len(text)
                     /\ text[m + 2] = "[" /\ (m + 2 <= upto => m - k + 1 \in CutsFrom(b, 2))
<1> DEFINE k == upto - Len(b) + 1
<1>1. /\ Len(text) \in Nat /\ Len(b) \in Nat /\ upto \in 0 .. Len(text) /\ Len(b) <= upto
      /\ b = SubSeq(text, k, upto)
  BY DEF CameTo, Texts
<1>2. k \in 1 .. Len(text) + 1 /\ k + Len(b) - 1 = upto /\ k + 1 \in Nat \ {0} /\ upto - k + 1 = Len(b)
  BY <1>1
<1>3. \A i \in 1 .. Len(b) : b[i] = text[k + i - 1]
  <2>1. \A i \in k .. upto : text[i] \in Letters
    BY <1>1, <1>2 DEF Texts
  <2>2. \A i \in 1 .. upto - k + 1 : SubSeq(text, k, upto)[i] = text[k + i - 1]
    BY <1>1, <1>2, <2>1, SubSeqProperties
  <2> HIDE DEF k
  <2>3. QED
    BY <1>1, <1>2, <2>2
<1>4. CutsFrom(b, 2) = {n \in 2 .. Len(b) - 2 : b[n] = "n" /\ b[n + 1] = "n" /\ b[n + 2] = "["}
  BY CutsAre
<1>5. CutsFrom(text, k + 1) =
         {n \in k + 1 .. Len(text) - 2 : text[n] = "n" /\ text[n + 1] = "n" /\ text[n + 2] = "["}
  BY <1>2, CutsAre
<1> HIDE DEF k
<1> DEFINE L == Len(b)
<1>6. ASSUME NEW i \in 2 .. L - 2
      PROVE  i \in CutsFrom(b, 2) <=> k + i - 1 \in CutsFrom(text, k + 1)
  <2>1. b[i] = text[k + i - 1] /\ b[i + 1] = text[k + i] /\ b[i + 2] = text[k + i + 1]
    <3>1. i \in 1 .. L /\ i + 1 \in 1 .. L /\ i + 2 \in 1 .. L
      <4>1. L \in Nat
        BY <1>1
      <4> HIDE DEF L
      <4>2. QED
        BY <4>1
    <3>2. k + (i + 1) - 1 = k + i /\ k + (i + 2) - 1 = k + i + 1
      BY <1>1, <1>2
    <3>3. QED
      BY <1>3, <3>1, <3>2
  <2>2. k + i - 1 \in k + 1 .. Len(text) - 2 /\ k + i - 1 + 1 = k + i /\ k + i - 1 + 2 = k + i + 1
    BY <1>1, <1>2
  <2>3. QED
    BY <1>4, <1>5, <2>1, <2>2
<1>7. ASSUME NEW m \in CutsFrom(text, k + 1)
      PROVE  m \in Nat /\ m > k /\ m + 2 <= Len(text)
             /\ text[m + 2] = "[" /\ (m + 2 <= upto => m - k + 1 \in CutsFrom(b, 2))
  <2>1. m \in k + 1 .. Len(text) - 2 /\ text[m + 2] = "["
    BY <1>5
  <2>2. m \in Nat /\ m > k /\ m + 2 <= Len(text)
    BY <1>1, <1>2, <2>1
  <2>3. ASSUME m + 2 <= upto PROVE m - k + 1 \in CutsFrom(b, 2)
    <3>1. m - k + 1 \in 2 .. Len(b) - 2 /\ k + (m - k + 1) - 1 = m
      BY <1>1, <1>2, <2>2, <2>3
    <3>2. QED
      BY <1>6, <3>1
  <2>4. QED
    BY <2>1, <2>2, <2>3
<1>8. QED
  BY <1>1, <1>2, <1>3, <1>6, <1>7 DEF k

\* A game is cut off the buffer, and what is left begins with the next one.
LEMMA CutKeeps ==
    ASSUME NEW text \in Texts, NEW upto, NEW b \in Texts, NEW gs \in Seq(Texts),
           CameTo(text, upto, b, gs), Cut(b) # 0
    PROVE  /\ Cut(b) \in 2 .. Len(b) - 2
           /\ SubSeq(b, Cut(b) + 2, Len(b)) \in Texts
           /\ Len(SubSeq(b, Cut(b) + 2, Len(b))) = Len(b) - Cut(b) - 1
           /\ SubSeq(b, 1, Cut(b) - 1) \in Texts /\ Len(SubSeq(b, 1, Cut(b) - 1)) = Cut(b) - 1
           /\ CameTo(text, upto, SubSeq(b, Cut(b) + 2, Len(b)),
                     gs \o Yielded(SubSeq(b, 1, Cut(b) - 1)))
<1> DEFINE k == upto - Len(b) + 1
           c == Cut(b)
           game == SubSeq(b, 1, c - 1)
           left == SubSeq(b, c + 2, Len(b))
           G == GamesFrom(text)
<1>1. c \in CutsFrom(b, 2) /\ \A n \in CutsFrom(b, 2) : c <= n
  BY FirstIs DEF Cut
<1>2. c \in 2 .. Len(b) - 2 /\ Len(b) \in Nat
  <2>1. CutsFrom(b, 2) \subseteq 2 .. Len(b) - 2
    BY CutsAre
  <2> HIDE DEF c
  <2>2. QED
    BY <1>1, <2>1 DEF Texts
<1>3. /\ k \in 1 .. Len(text) + 1 /\ k + Len(b) - 1 = upto /\ upto \in 0 .. Len(text)
      /\ Len(text) \in Nat
      /\ \A i \in 2 .. Len(b) - 2 : i \in CutsFrom(b, 2) <=> k + i - 1 \in CutsFrom(text, k + 1)
      /\ \A m \in CutsFrom(text, k + 1) : m \in Nat /\ m > k /\ m + 2 <= Len(text)
            /\ (m + 2 <= upto => m - k + 1 \in CutsFrom(b, 2))
  BY BufferIs
<1>4. b = SubSeq(text, k, upto) /\ G[1] = gs \o G[k]
  BY DEF CameTo
<1> HIDE DEF k, c
<1>5. FirstFrom(text, k + 1) = k + c - 1 /\ CutsFrom(text, k + 1) # {}
  <2> DEFINE f == FirstFrom(text, k + 1)
  <2>1. k + c - 1 \in CutsFrom(text, k + 1)
    BY <1>1, <1>2, <1>3
  <2>2. f \in CutsFrom(text, k + 1) /\ f <= k + c - 1
    <3>1. k + 1 \in Nat \ {0}
      BY <1>3
    <3>2. QED
      BY <2>1, <3>1, FirstIs
  <2> HIDE DEF f
  <2>3. f \in Nat /\ f + 2 <= upto
    BY <1>2, <1>3, <2>2
  <2>4. c <= f - k + 1
    <3>1. f - k + 1 \in CutsFrom(b, 2)
      BY <1>3, <2>2, <2>3
    <3>2. QED
      BY <1>1, <3>1
  <2>5. k \in Nat /\ c \in Nat
    BY <1>2, <1>3
  <2>6. f = k + c - 1
    BY <2>2, <2>3, <2>4, <2>5
  <2>7. QED
    BY <2>1, <2>6 DEF f
<1>6. game = SubSeq(text, k, k + c - 2) /\ left = SubSeq(text, k + c + 1, upto)
  <2>1. k \in 1 .. Len(text) /\ upto \in 1 .. Len(text) /\ upto - k + 1 = Len(b)
    BY <1>2, <1>3
  <2>2. /\ 1 \in 1 .. upto - k + 1 /\ c - 1 \in 1 .. upto - k + 1
        /\ c + 2 \in 1 .. upto - k + 1 /\ Len(b) \in 1 .. upto - k + 1
    BY <1>2, <2>1
  <2>3. SubSeq(SubSeq(text, k, upto), 1, c - 1) = SubSeq(text, k + 1 - 1, k + (c - 1) - 1)
    <3> DEFINE n == c - 1
    <3>1. 1 \in 1 .. upto - k + 1 /\ n \in 1 .. upto - k + 1 /\ text \in Seq(Letters)
      BY <2>2 DEF Texts
    <3> HIDE DEF n
    <3>2. SubSeq(SubSeq(text, k, upto), 1, n) = SubSeq(text, k + 1 - 1, k + n - 1)
      BY ONLY <2>1, <3>1, SubSeqOfSubSeq
    <3>3. QED
      BY <3>2 DEF n
  <2>4. SubSeq(SubSeq(text, k, upto), c + 2, Len(b)) = SubSeq(text, k + (c + 2) - 1, k + Len(b) - 1)
    <3> DEFINE m == c + 2
               n == Len(b)
    <3>1. m \in 1 .. upto - k + 1 /\ n \in 1 .. upto - k + 1 /\ text \in Seq(Letters)
      BY <2>2 DEF Texts
    <3>2. k \in 1 .. Len(text) /\ upto \in 1 .. Len(text)
      BY <2>1
    <3> HIDE DEF m, n
    <3>3. SubSeq(SubSeq(text, k, upto), m, n) = SubSeq(text, k + m - 1, k + n - 1)
      BY ONLY <3>1, <3>2, SubSeqOfSubSeq
    <3>4. QED
      BY <3>3 DEF m, n
  <2>5. k + 1 - 1 = k /\ k + (c - 1) - 1 = k + c - 2 /\ k + (c + 2) - 1 = k + c + 1
    BY <1>2, <1>3
  <2>6. QED
    BY <1>3, <1>4, <2>3, <2>4, <2>5
<1>7. game \in Texts /\ Len(game) = c - 1 /\ left \in Texts /\ Len(left) = Len(b) - c - 1
  <2>1. \A i \in 1 .. Len(b) : b[i] \in Letters
    BY DEF Texts
  <2>2. game \in Seq(Letters) /\ Len(game) = IF 1 <= c - 1 THEN c - 1 - 1 + 1 ELSE 0
    <3>1. \A i \in 1 .. c - 1 : b[i] \in Letters
      BY <1>2, <2>1
    <3>2. QED
      BY <1>2, <3>1, SubSeqProperties
  <2>3. left \in Seq(Letters) /\ Len(left) = IF c + 2 <= Len(b) THEN Len(b) - (c + 2) + 1 ELSE 0
    <3>1. \A i \in c + 2 .. Len(b) : b[i] \in Letters
      BY <1>2, <2>1
    <3>2. QED
      BY <1>2, <3>1, SubSeqProperties
  <2> HIDE DEF game, left
  <2>4. QED
    BY <1>2, <2>2, <2>3 DEF Texts
<1>8. G[k] = Yielded(game) \o G[k + c + 1]
  <2>1. G[k] = Rest(text, G, k)
    BY <1>3, GamesFromIs
  <2>2. FirstFrom(text, k + 1) - 1 = k + c - 2 /\ FirstFrom(text, k + 1) + 2 = k + c + 1
    BY <1>2, <1>3, <1>5
  <2> HIDE DEF G, game
  <2>3. QED
    BY <1>5, <1>6, <2>1, <2>2, Zenon DEF Rest
<1>9. G[1] = (gs \o Yielded(game)) \o G[k + c + 1]
  <2>1. k + c + 1 \in 1 .. Len(text) + 1
    BY <1>2, <1>3
  <2>2. G[k + c + 1] \in Seq(Texts)
    BY <2>1, GamesFromIs
  <2>3. Yielded(game) \in Seq(Texts)
    BY <1>7, YieldedIs
  <2>4. (gs \o Yielded(game)) \o G[k + c + 1] = gs \o (Yielded(game) \o G[k + c + 1])
    <3> DEFINE one == Yielded(game)
               more == G[k + c + 1]
    <3>1. one \in Seq(Texts) /\ more \in Seq(Texts)
      BY <2>2, <2>3
    <3> HIDE DEF one, more, game, G
    <3>2. gs \in Seq(Texts)
      OBVIOUS
    <3>3. (gs \o one) \o more = gs \o (one \o more)
      BY ONLY <3>1, <3>2, ConcatAssociative
    <3>4. QED
      BY <3>3 DEF one, more
  <2> HIDE DEF G, game
  <2>5. QED
    BY <1>4, <1>8, <2>4
<1>10. CameTo(text, upto, left, gs \o Yielded(game))
  <2> HIDE DEF left, game
  <2>1. upto - Len(left) + 1 = k + c + 1 /\ Len(left) <= upto
    <3> DEFINE L == Len(b)
               l == Len(left)
    <3>1. L \in Nat /\ c \in 2 .. L - 2 /\ k \in Nat /\ k >= 1 /\ k + L - 1 = upto /\ l = L - c - 1
      BY <1>2, <1>3, <1>7
    <3> HIDE DEF L, l
    <3>2. upto - l + 1 = k + c + 1 /\ l <= upto
      BY <3>1
    <3>3. QED
      BY <3>2 DEF l
  <2>2. QED
    BY <1>3, <1>6, <1>9, <2>1 DEF CameTo
<1>11. QED
  BY <1>2, <1>7, <1>10 DEF c

\* What is between the front of a text and its rest.
LEMMA MiddleIs ==
    ASSUME NEW front \in Texts, NEW more \in Texts, NEW rest \in Texts
    PROVE  LET text == (front \o more) \o rest
               end == Len(front) + Len(more)
           IN  /\ text \in Texts /\ Len(front \o more) = end
               /\ end \in Len(front) .. Len(text)
               /\ SubSeq(text, Len(front) + 1, end) = more
<1> DEFINE F == Len(front)
           M == Len(more)
           R == Len(rest)
           text == (front \o more) \o rest
           middle == SubSeq(text, F + 1, F + M)
<1>1. F \in Nat /\ M \in Nat /\ R \in Nat
  BY DEF Texts
<1>2. /\ front \o more \in Texts /\ Len(front \o more) = F + M
      /\ \A i \in 1 .. F + M : (front \o more)[i] = IF i <= F THEN front[i] ELSE more[i - F]
  BY ConcatProperties DEF Texts
<1>3. /\ text \in Texts /\ Len(text) = F + M + R
      /\ \A i \in 1 .. F + M + R :
            text[i] = IF i <= F + M THEN (front \o more)[i] ELSE rest[i - (F + M)]
  BY <1>2, ConcatProperties DEF Texts
<1> DEFINE lead == front \o more
<1> HIDE DEF text, F, M, R, lead
<1>4. /\ middle \in Texts /\ Len(middle) = M
      /\ \A i \in 1 .. M : middle[i] = text[F + i]
  <2>1. \A i \in F + 1 .. F + M : text[i] \in Letters
    BY <1>1, <1>3 DEF Texts
  <2>2. /\ middle \in Texts
        /\ Len(middle) = IF F + 1 <= F + M THEN F + M - (F + 1) + 1 ELSE 0
        /\ \A i \in 1 .. F + M - (F + 1) + 1 : middle[i] = text[F + 1 + i - 1]
    BY <1>1, <2>1, SubSeqProperties DEF Texts
  <2> HIDE DEF middle
  <2>3. F + M - (F + 1) + 1 = M /\ \A i \in 1 .. M : F + 1 + i - 1 = F + i
    BY <1>1
  <2>4. QED
    BY <1>1, <2>2, <2>3
<1>5. \A i \in 1 .. M : middle[i] = more[i]
  <2> HIDE DEF middle
  <2> TAKE i \in 1 .. M
  <2>1. /\ F + i \in 1 .. F + M + R /\ F + i \in 1 .. F + M
        /\ F + i <= F + M /\ ~ (F + i <= F) /\ F + i - F = i
    BY <1>1
  <2>2. middle[i] = text[F + i]
    BY <1>4
  <2>3. text[F + i] = lead[F + i]
    BY <1>3, <2>1 DEF lead
  <2>4. lead[F + i] = more[i]
    <3>1. \A j \in 1 .. F + M : ~ (j <= F) => lead[j] = more[j - F]
      BY <1>2 DEF lead
    <3>2. PICK j \in 1 .. F + M : j = F + i /\ ~ (j <= F) /\ j - F = i
      BY <1>1, <2>1
    <3>3. lead[j] = more[j - F]
      BY <3>1, <3>2
    <3>4. QED
      BY <3>2, <3>3
  <2>5. QED
    BY <2>1, <2>2, <2>3, <2>4
<1>6. middle = more
  <2> HIDE DEF middle
  <2>1. QED
    BY <1>4, <1>5, SeqEqual DEF Texts, M
<1>7. F + M \in F .. Len(text)
  BY <1>1, <1>3
<1>8. QED
  BY <1>2, <1>3, <1>6, <1>7 DEF text, F, M

LEMMA TextGrows ==
    ASSUME NEW front \in Texts, NEW more \in Texts, NEW rest \in Texts, NEW text,
           text = (front \o more) \o rest, NEW b \in Texts, NEW gs,
           CameTo(text, Len(front), b, gs)
    PROVE  b \o more \in Texts /\ CameTo(text, Len(front \o more), b \o more, gs)
<1> DEFINE end == Len(front) + Len(more)
<1>1. /\ text \in Texts /\ Len(front \o more) = end /\ end \in Len(front) .. Len(text)
      /\ SubSeq(text, Len(front) + 1, end) = more
  BY MiddleIs
<1> HIDE DEF end
<1>2. QED
  BY <1>1, MoreText

\* If nothing can be cut off the buffer, the text is next cut behind it.
LEMMA NextCutIs ==
    ASSUME NEW text \in Texts, NEW upto, NEW b \in Texts, NEW gs, CameTo(text, upto, b, gs),
           CutsFrom(b, 2) = {}
    PROVE  \A m \in CutsFrom(text, upto - Len(b) + 1 + 1) :
              m \in Nat /\ m + 2 <= Len(text) /\ text[m + 2] = "[" /\ ~ (m + 2 <= upto)
BY BufferIs

\* What the decoder waits with at the end becomes a replacement character.
Tails == {<<>>, <<"?">>}
Ends(text, front, tail) == tail \in Tails /\ text = front \o tail

\* At the end of the stream the last game is what is left.
LEMMA LastGame ==
    ASSUME NEW front \in Texts, NEW tail, NEW text, Ends(text, front, tail),
           NEW b \in Texts, NEW gs, CameTo(text, Len(front), b, gs), Cut(b) = 0
    PROVE  b \o tail \in Texts /\ GamesFrom(text)[1] = gs \o Yielded(b \o tail)
<1> DEFINE k == Len(front) - Len(b) + 1
           G == GamesFrom(text)
<1>1. tail \in Texts /\ <<>> \in Texts
  <2>1. "?" \in Letters
    BY DEF Letters
  <2>2. <<"?">> \in Seq(Letters)
    BY <2>1
  <2>3. <<>> \in Seq(Letters)
    BY EmptySeq
  <2>4. QED
    BY <2>2, <2>3 DEF Texts, Tails, Ends
<1>2. /\ text \in Texts /\ Len(text) = Len(front) + Len(tail) /\ Len(front) \in Nat /\ Len(b) \in Nat
      /\ \A i \in 1 .. Len(front) + Len(tail) :
            text[i] = IF i <= Len(front) THEN front[i] ELSE tail[i - Len(front)]
  BY <1>1, ConcatProperties DEF Texts, Ends
<1>3. (Len(tail) = 0) \/ (Len(tail) = 1 /\ tail[1] = "?")
  BY DEF Tails, Ends
<1>4. b \o tail \in Texts /\ CameTo(text, Len(text), b \o tail, gs)
  <2>1. front \o tail \in Texts
    BY <1>2 DEF Ends
  <2>2. (front \o tail) \o <<>> = front \o tail
    BY <2>1, ConcatEmptySeq DEF Texts
  <2>3. text = front \o tail
    BY DEF Ends
  <2>4. text = (front \o tail) \o <<>>
    BY <2>2, <2>3
  <2>5. b \o tail \in Texts /\ CameTo(text, Len(front \o tail), b \o tail, gs)
    BY <1>1, <2>4, TextGrows
  <2>6. QED
    BY <2>3, <2>5
<1>5. CutsFrom(b, 2) = {}
  <2> SUFFICES ASSUME CutsFrom(b, 2) # {} PROVE FALSE
    OBVIOUS
  <2>1. FirstFrom(b, 2) \in CutsFrom(b, 2) /\ FirstFrom(b, 2) = 0
    BY FirstIs DEF Cut
  <2>2. CutsFrom(b, 2) \subseteq 2 .. Len(b) - 2
    BY CutsAre
  <2>3. 0 \notin 2 .. Len(b) - 2
    BY <1>2
  <2>4. QED
    BY <2>1, <2>2, <2>3
<1>6. CutsFrom(text, k + 1) = {}
  <2> SUFFICES ASSUME NEW m \in CutsFrom(text, k + 1) PROVE FALSE
    OBVIOUS
  <2>1. m \in Nat /\ m + 2 <= Len(text) /\ text[m + 2] = "[" /\ ~ (m + 2 <= Len(front))
    <3>1. text \in Texts /\ b \in Texts /\ CameTo(text, Len(front), b, gs) /\ CutsFrom(b, 2) = {}
      BY <1>2, <1>5
    <3>2. QED
      BY <3>1, NextCutIs, Zenon
  <2> HIDE DEF k
  <2>2. Len(tail) = 1 /\ m + 2 = Len(front) + 1
    BY <1>2, <1>3, <1>5, <2>1
  <2>3. text[m + 2] = tail[1]
    BY <1>2, <2>2
  <2>4. QED
    BY <1>3, <2>1, <2>2, <2>3
<1>7. k \in 1 .. Len(text) + 1 /\ G[1] = gs \o G[k]
  BY <1>2, BufferIs DEF CameTo
<1>8. SubSeq(text, k, Len(text)) = b \o tail
  <2>1. Len(b \o tail) = Len(b) + Len(tail)
    BY <1>1, ConcatProperties DEF Texts
  <2>2. b \o tail = SubSeq(text, Len(text) - Len(b \o tail) + 1, Len(text))
    BY <1>4 DEF CameTo
  <2>3. Len(text) - Len(b \o tail) + 1 = k
    <3> DEFINE x == Len(b)
               y == Len(tail)
               z == Len(front)
    <3>1. x \in Nat /\ y \in Nat /\ z \in Nat
      BY <1>2, <1>3
    <3> HIDE DEF x, y, z
    <3>2. z + y - (x + y) + 1 = z - x + 1
      BY <3>1
    <3>3. QED
      BY <1>2, <2>1, <3>2 DEF x, y, z
  <2> HIDE DEF k
  <2>4. QED
    BY <2>2, <2>3
<1> HIDE DEF k
<1>9. G[k] = Yielded(b \o tail)
  <2>1. G[k] = Rest(text, G, k)
    BY <1>2, <1>7, GamesFromIs
  <2> HIDE DEF G
  <2>2. QED
    BY <1>6, <1>8, <2>1, Zenon DEF Rest
<1>10. QED
  BY <1>4, <1>7, <1>9

-----------------------------------------------------------------------------
Plain(bytes) == \A n \in DOMAIN bytes : bytes[n] \notin {"c1", "c2"}
Raws(records) == [n \in DOMAIN records |-> records[n].raw]
Located == [offset : Nat, raw : Texts]

\* What the decoder waits with at the end is one replacement character.
LEMMA FlushIs ==
    ASSUME NEW st \in DecoderStates
    PROVE  \E tail \in Tails :
              /\ Flushed(st) = st.out \o tail
              /\ Flushed([out |-> <<>>, wait |-> st.wait]) = tail
<1>1. st.out \in Texts /\ "?" \in Letters
  BY DEF DecoderStates, Letters
<1>2. CASE st.wait = <<>>
  <2>1. Flushed(st) = st.out /\ Flushed([out |-> <<>>, wait |-> st.wait]) = <<>>
    BY <1>2 DEF Flushed
  <2>2. st.out \o <<>> = st.out
    BY <1>1, ConcatEmptySeq DEF Texts
  <2>3. QED
    BY <2>1, <2>2 DEF Tails
<1>3. CASE st.wait # <<>>
  <2>1. /\ Flushed(st) = Append(st.out, "?")
        /\ Flushed([out |-> <<>>, wait |-> st.wait]) = Append(<<>>, "?")
    BY <1>3 DEF Flushed
  <2>2. Append(st.out, "?") = st.out \o <<"?">>
    BY <1>1, AppendIsConcat DEF Texts
  <2>3. Append(<<>>, "?") = <<"?">>
    OBVIOUS
  <2>4. QED
    BY <2>1, <2>2, <2>3 DEF Tails
<1>4. QED
  BY <1>2, <1>3

\* What has been decoded is the front of what the whole stream decodes to.
LEMMA FrontDecoded ==
    ASSUME NEW bytes \in Seq(Bytes), NEW n \in 0 .. Len(bytes)
    PROVE  /\ SubSeq(bytes, 1, n) \in Seq(Bytes)
           /\ Decoded(<<>>, SubSeq(bytes, 1, n)) \in DecoderStates
           /\ \E rest \in Texts :
                 DecodedAlone(bytes) = Decoded(<<>>, SubSeq(bytes, 1, n)).out \o rest
<1> DEFINE a == SubSeq(bytes, 1, n)
           b == SubSeq(bytes, n + 1, Len(bytes))
           s == Decoded(<<>>, a)
           t == Decoded(s.wait, b)
<1>1. Len(bytes) \in Nat /\ <<>> \in Waits /\ \A i \in 1 .. Len(bytes) : bytes[i] \in Bytes
  BY ElementOfSeq DEF Waits
<1>2. a \in Seq(Bytes) /\ b \in Seq(Bytes)
  <2>1. \A i \in 1 .. n : bytes[i] \in Bytes
    BY <1>1
  <2>2. \A i \in n + 1 .. Len(bytes) : bytes[i] \in Bytes
    BY <1>1
  <2>3. a \in Seq(Bytes)
    BY <1>1, <2>1, SubSeqProperties
  <2>4. b \in Seq(Bytes)
    BY <1>1, <2>2, SubSeqProperties
  <2>5. QED
    BY <2>3, <2>4
<1>3. a \o b = bytes
  <2>1. n \in 1 - 1 .. Len(bytes) /\ 1 \in 1 .. Len(bytes) + 1 /\ n + 1 \in 1 .. Len(bytes) + 1
        /\ Len(bytes) \in n .. Len(bytes)
    BY <1>1
  <2>2. SubSeq(bytes, 1, n) \o SubSeq(bytes, n + 1, Len(bytes)) = SubSeq(bytes, 1, Len(bytes))
    BY <2>1, ConcatAdjacentSubSeq
  <2>3. SubSeq(bytes, 1, Len(bytes)) = bytes
    BY SubSeqFull
  <2>4. QED
    BY <2>2, <2>3
<1> HIDE DEF a, b
<1>4. s \in DecoderStates /\ t \in DecoderStates
      /\ Decoded(<<>>, bytes) = [out |-> s.out \o t.out, wait |-> t.wait]
  BY <1>1, <1>2, <1>3, DecodeSplit
<1>5. Decoded(<<>>, bytes) \in DecoderStates
  BY <1>1, DecodedStays
<1> HIDE DEF s, t
<1>6. PICK tail \in Tails : DecodedAlone(bytes) = (s.out \o t.out) \o tail
  <2> DEFINE whole == s.out \o t.out
             waits == t.wait
  <2>1. Decoded(<<>>, bytes).out = whole
    <3>1. Decoded(<<>>, bytes) = [out |-> whole, wait |-> waits]
      BY <1>4
    <3> HIDE DEF whole, waits
    <3>2. QED
      BY <3>1
  <2> HIDE DEF whole
  <2>2. QED
    BY <1>5, <2>1, FlushIs DEF DecodedAlone, whole
<1>7. s.out \in Texts /\ t.out \in Texts /\ tail \in Texts
  <2>1. "?" \in Letters
    BY DEF Letters
  <2>2. <<"?">> \in Seq(Letters)
    BY <2>1
  <2>3. <<>> \in Seq(Letters)
    BY EmptySeq
  <2>4. QED
    BY <1>4, <2>2, <2>3 DEF Texts, Tails, DecoderStates
<1>8. t.out \o tail \in Texts /\ (s.out \o t.out) \o tail = s.out \o (t.out \o tail)
  <2> DEFINE x == s.out
             y == t.out
  <2>1. x \in Seq(Letters) /\ y \in Seq(Letters) /\ tail \in Seq(Letters)
    BY <1>7 DEF Texts
  <2> HIDE DEF x, y
  <2>2. y \o tail \in Seq(Letters)
    BY <2>1, ConcatProperties
  <2>3. (x \o y) \o tail = x \o (y \o tail)
    BY ONLY <2>1, ConcatAssociative
  <2>4. QED
    BY <2>2, <2>3 DEF Texts, x, y
<1>9. QED
  BY <1>2, <1>4, <1>6, <1>8 DEF a, s

LEMMA RawsAre ==
    ASSUME NEW a \in Seq(Located), NEW b \in Seq(Located)
    PROVE  Raws(a) \in Seq(Texts) /\ Raws(a \o b) = Raws(a) \o Raws(b)
<1> DEFINE A == Len(a)
           B == Len(b)
           ab == a \o b
           ra == Raws(a)
           rb == Raws(b)
           rab == Raws(ab)
<1>1. \A r \in Seq(Located) :
         /\ Raws(r) \in Seq(Texts) /\ Len(Raws(r)) = Len(r) /\ Len(r) \in Nat
         /\ \A n \in 1 .. Len(r) : Raws(r)[n] = r[n].raw
  <2> TAKE r \in Seq(Located)
  <2>1. DOMAIN r = 1 .. Len(r) /\ Len(r) \in Nat /\ \A n \in 1 .. Len(r) : r[n] \in Located
    BY LenProperties, ElementOfSeq
  <2>2. Raws(r) = [n \in 1 .. Len(r) |-> r[n].raw]
    BY <2>1 DEF Raws
  <2>3. \A n \in 1 .. Len(r) : r[n].raw \in Texts
    BY <2>1 DEF Located
  <2> DEFINE N == Len(r)
             raws == Raws(r)
  <2>4. N \in Nat /\ raws \in [1 .. N -> Texts] /\ \A n \in 1 .. N : raws[n] = r[n].raw
    BY <2>1, <2>2, <2>3
  <2> HIDE DEF N, raws
  <2>5. raws \in Seq(Texts) /\ Len(raws) = N
    BY <2>4
  <2>6. QED
    BY <2>4, <2>5 DEF N, raws
<1>2. /\ ab \in Seq(Located) /\ Len(ab) = A + B
      /\ \A n \in 1 .. A + B : ab[n] = IF n <= A THEN a[n] ELSE b[n - A]
  BY ConcatProperties
<1>3. /\ ra \in Seq(Texts) /\ Len(ra) = A /\ A \in Nat /\ \A n \in 1 .. A : ra[n] = a[n].raw
      /\ rb \in Seq(Texts) /\ Len(rb) = B /\ B \in Nat /\ \A n \in 1 .. B : rb[n] = b[n].raw
      /\ rab \in Seq(Texts) /\ Len(rab) = A + B /\ \A n \in 1 .. A + B : rab[n] = ab[n].raw
  <2> HIDE DEF ab
  <2>1. QED
    BY <1>1, <1>2
<1> DEFINE both == ra \o rb
<1> HIDE DEF ab, ra, rb, rab
<1>4. /\ both \in Seq(Texts) /\ Len(both) = A + B
      /\ \A n \in 1 .. A + B : both[n] = IF n <= A THEN ra[n] ELSE rb[n - A]
  <2>1. ra \in Seq(Texts) /\ rb \in Seq(Texts)
    BY <1>3
  <2>2. /\ both \in Seq(Texts) /\ Len(both) = Len(ra) + Len(rb)
        /\ \A n \in 1 .. Len(ra) + Len(rb) :
              both[n] = IF n <= Len(ra) THEN ra[n] ELSE rb[n - Len(ra)]
    BY <2>1, ConcatProperties
  <2>3. Len(ra) = A /\ Len(rb) = B
    BY <1>3
  <2> HIDE DEF both, A, B
  <2>4. QED
    BY <2>2, <2>3
<1> HIDE DEF both, A, B
<1>5. \A n \in 1 .. A + B : rab[n] = both[n]
  <2> TAKE n \in 1 .. A + B
  <2>1. CASE n <= A
    <3>1. n \in 1 .. A
      BY <1>3, <2>1
    <3>2. rab[n] = ab[n].raw /\ ab[n] = a[n] /\ ra[n] = a[n].raw /\ both[n] = ra[n]
      BY <1>2, <1>3, <1>4, <2>1, <3>1
    <3>3. QED
      BY <3>2
  <2>2. CASE ~ (n <= A)
    <3>1. n - A \in 1 .. B
      BY <1>3, <2>2
    <3>2. rab[n] = ab[n].raw /\ rb[n - A] = b[n - A].raw
      BY <1>3, <3>1
    <3>3. ab[n] = b[n - A] /\ both[n] = rb[n - A]
      BY <1>2, <1>4, <2>2
    <3>4. QED
      BY <3>2, <3>3
  <2>3. QED
    BY <2>1, <2>2
<1>6. rab = both
  BY <1>3, <1>4, <1>5, SeqEqual
<1>7. QED
  BY <1>3, <1>6 DEF both, ra, rb, rab, ab

\* A game that is yielded stands behind its leading newlines.
LEMMA OffsetsAre ==
    ASSUME NEW segment \in Texts, NEW at \in Nat
    PROVE  /\ Offsets(segment, at) \in Seq(Located)
           /\ Raws(Offsets(segment, at)) = Yielded(segment)
           /\ \/ Offsets(segment, at) = <<>>
              \/ \E r \in Located : /\ Offsets(segment, at) = <<r>> /\ ~ Blank(segment)
                                   /\ r.offset = at + Leading(segment) /\ at <= r.offset
                                   /\ r.offset < at + Len(segment) /\ r.raw = Stripped(segment)
<1>1. CASE Blank(segment)
  <2>1. Offsets(segment, at) = <<>> /\ Yielded(segment) = <<>>
    BY <1>1 DEF Offsets, Yielded
  <2>2. <<>> \in Seq(Located) /\ Raws(<<>>) = <<>>
    BY EmptySeq DEF Raws
  <2>3. QED
    BY <2>1, <2>2
<1>2. CASE ~ Blank(segment)
  <2> DEFINE r == [offset |-> at + Leading(segment), raw |-> Stripped(segment)]
  <2>1. Leading(segment) \in Nat /\ Leading(segment) < Len(segment) /\ Stripped(segment) \in Texts
    <3>1. Len(segment) - Leading(Reverse(segment)) \in Leading(segment) + 1 .. Len(segment)
          /\ Leading(segment) \in Nat /\ Stripped(segment) \in Texts
      BY <1>2, StrippedIs
    <3>2. Len(segment) \in Nat
      BY DEF Texts
    <3>3. QED
      BY <3>1, <3>2
  <2>2. r \in Located /\ r.offset = at + Leading(segment) /\ r.raw = Stripped(segment)
    BY <2>1 DEF Located
  <2>3. Offsets(segment, at) = <<r>> /\ Yielded(segment) = <<r.raw>>
    BY <1>2 DEF Offsets, Yielded
  <2>4. at <= at + Leading(segment) /\ at + Leading(segment) < at + Len(segment)
    <3>1. Len(segment) \in Nat
      BY DEF Texts
    <3>2. QED
      BY <2>1, <3>1
  <2> HIDE DEF r
  <2>5. <<r>> \in Seq(Located) /\ Raws(<<r>>) = <<r.raw>>
    <3>1. <<r>> \in Seq(Located) /\ DOMAIN <<r>> = 1 .. 1 /\ <<r>>[1] = r
      BY <2>2
    <3> DEFINE one == <<r>>
               text == r.raw
    <3>2. DOMAIN one = 1 .. 1 /\ one[1] = r /\ text \in Texts
      BY <2>2, <3>1 DEF Located
    <3> HIDE DEF one
    <3>3. Raws(one) = [n \in 1 .. 1 |-> text]
      BY <3>2 DEF Raws
    <3> HIDE DEF text
    <3>4. [n \in 1 .. 1 |-> text] = <<text>>
      OBVIOUS
    <3>5. QED
      BY <3>1, <3>3, <3>4 DEF one, text
  <2>6. QED
    BY <1>2, <2>2, <2>3, <2>4, <2>5
<1>3. QED
  BY <1>1, <1>2

\* With one-byte characters the game stands in the stream at its offset.
LEMMA OffsetIs ==
    ASSUME NEW bytes \in Seq(Bytes), Plain(bytes), NEW at \in Nat, NEW to \in at .. Len(bytes),
           NEW segment \in Texts, segment = SubSeq(bytes, at + 1, to), ~ Blank(segment)
    PROVE  \E last \in at + Leading(segment) .. Len(bytes) :
              DecodedAlone(SubSeq(bytes, at + Leading(segment) + 1, last)) = Stripped(segment)
<1> DEFINE L == Leading(segment)
           R == Len(segment) - Leading(Reverse(segment))
           one == SubSeq(bytes, at + L + 1, at + R)
<1>1. L \in Nat /\ R \in L + 1 .. Len(segment) /\ Stripped(segment) = SubSeq(segment, L + 1, R)
  BY StrippedIs
<1>2. /\ Len(bytes) \in Nat /\ DOMAIN bytes = 1 .. Len(bytes)
      /\ \A i \in 1 .. Len(bytes) : bytes[i] \in Bytes
  BY LenProperties, ElementOfSeq
<1>3. Len(segment) = to - at /\ Len(segment) \in Nat
  <2>1. \A i \in at + 1 .. to : bytes[i] \in Bytes
    BY <1>2
  <2>2. Len(SubSeq(bytes, at + 1, to)) = IF at + 1 <= to THEN to - (at + 1) + 1 ELSE 0
    BY <1>2, <2>1, SubSeqProperties
  <2>3. QED
    BY <1>2, <2>2
<1> HIDE DEF L, R
<1>4. /\ R \in Nat /\ at + 1 \in 1 .. Len(bytes) /\ to \in 1 .. Len(bytes)
      /\ L + 1 \in 1 .. to - (at + 1) + 1 /\ R \in 1 .. to - (at + 1) + 1
      /\ at + R \in at + L .. Len(bytes)
      /\ (at + 1) + (L + 1) - 1 = at + L + 1 /\ (at + 1) + R - 1 = at + R
  BY <1>1, <1>2, <1>3
<1>5. Stripped(segment) = one
  <2>1. SubSeq(SubSeq(bytes, at + 1, to), L + 1, R) =
           SubSeq(bytes, (at + 1) + (L + 1) - 1, (at + 1) + R - 1)
    <3> DEFINE m == at + 1
               i == L + 1
    <3>1. m \in 1 .. Len(bytes) /\ to \in 1 .. Len(bytes) /\ bytes \in Seq(Bytes)
          /\ i \in 1 .. to - m + 1 /\ R \in 1 .. to - m + 1
      BY <1>4
    <3> HIDE DEF m, i
    <3>2. SubSeq(SubSeq(bytes, m, to), i, R) = SubSeq(bytes, m + i - 1, m + R - 1)
      BY <3>1, SubSeqOfSubSeq
    <3>3. QED
      BY <3>2 DEF m, i
  <2>2. QED
    BY <1>1, <1>4, <2>1
<1>6. one \in Seq(Bytes) /\ \A i \in 1 .. Len(one) : one[i] \notin {"c1", "c2"}
  <2> DEFINE x == at + L + 1
             y == at + R
  <2>1. x \in Nat /\ x >= 1 /\ y \in Nat /\ y <= Len(bytes)
    BY <1>1, <1>2, <1>4
  <2> HIDE DEF x, y
  <2>2. \A i \in x .. y : bytes[i] \in Bytes /\ bytes[i] \notin {"c1", "c2"}
    BY <1>2, <2>1 DEF Plain
  <2>3. /\ SubSeq(bytes, x, y) \in Seq(Bytes)
        /\ Len(SubSeq(bytes, x, y)) = IF x <= y THEN y - x + 1 ELSE 0
        /\ \A i \in 1 .. y - x + 1 : SubSeq(bytes, x, y)[i] = bytes[x + i - 1]
    BY <2>1, <2>2, SubSeqProperties
  <2> DEFINE cut == SubSeq(bytes, x, y)
  <2> HIDE DEF cut
  <2>4. \A i \in 1 .. Len(cut) : i \in 1 .. y - x + 1 /\ x + i - 1 \in x .. y
    BY <2>1, <2>3 DEF cut
  <2>5. \A i \in 1 .. Len(cut) : cut[i] \notin {"c1", "c2"}
    BY <2>2, <2>3, <2>4 DEF cut
  <2>6. QED
    BY <2>3, <2>5 DEF x, y, cut
<1> HIDE DEF one
<1>7. DecodedAlone(one) = one
  BY <1>6, LenProperties, OneByteDecoded
<1>8. DecodedAlone(SubSeq(bytes, at + L + 1, at + R)) = Stripped(segment)
  BY <1>5, <1>7 DEF one
<1>9. QED
  BY <1>4, <1>8 DEF L

-----------------------------------------------------------------------------
\* The inductive invariant: what each reader has yielded and what is in its buffer
\* are together the stream it has read.
StreamTypes ==
    /\ file \in Seq(Bytes) /\ size \in Nat \ {0} /\ pos \in 0 .. Len(file) /\ pending \in Waits
    /\ buf \in Texts /\ buf2 \in Texts /\ games \in Seq(Texts) /\ start \in Nat
    /\ found \in Seq(Located) /\ sidecar \in Seq(Located) /\ ok \in Nat /\ done \in BOOLEAN
    /\ done => pos = Len(file) /\ Cut(buf) = 0 /\ Cut(buf2) = 0
Sofar == Decoded(<<>>, SubSeq(file, 1, pos))
FirstReader ==
    /\ pending = Sofar.wait
    /\ ~ done => CameTo(DecodedAlone(file), Len(Sofar.out), buf, games)
    /\ ChunksDoNotMatter
SecondReader ==
    OneByte => /\ start = pos - Len(buf2)
               /\ ~ done => CameTo(file, pos, buf2, Raws(found))
               /\ done => Raws(found) = GamesFrom(file)[1]
               /\ OffsetsTrue
Handled ==
    /\ Accounted
    /\ ~ done => \A n \in 1 .. Len(sidecar) : sidecar[n].offset < start
StreamInv == StreamTypes /\ FirstReader /\ SecondReader /\ Handled

LEMMA AppendedIs ==
    ASSUME NEW S, NEW s \in Seq(S), NEW one \in Seq(S), Len(one) = 1
    PROVE  /\ s \o one \in Seq(S) /\ Len(s \o one) = Len(s) + 1 /\ Len(s) \in Nat
           /\ \A n \in 1 .. Len(s) : (s \o one)[n] = s[n]
           /\ (s \o one)[Len(s) + 1] = one[1]
<1> DEFINE N == Len(s)
           both == s \o one
<1>1. /\ both \in Seq(S) /\ Len(both) = N + Len(one)
      /\ \A n \in 1 .. N + Len(one) : both[n] = IF n <= N THEN s[n] ELSE one[n - N]
  BY ConcatProperties
<1>2. N \in Nat
  OBVIOUS
<1> HIDE DEF N, both
<1>3. \A n \in 1 .. N : both[n] = s[n]
  BY <1>1, <1>2
<1>4. both[N + 1] = one[1]
  <2>1. PICK n \in 1 .. N + Len(one) : n = N + 1 /\ ~ (n <= N) /\ n - N = 1
    BY <1>2
  <2>2. both[n] = one[n - N]
    BY <1>1, <2>1
  <2>3. QED
    BY <2>1, <2>2
<1>5. QED
  BY <1>1, <1>2, <1>3, <1>4 DEF N, both

\* A game that is handled is counted, or kept behind those kept before.
LEMMA HandleKeeps ==
    ASSUME NEW records, NEW from \in Nat, NEW upto \in Nat, from <= upto,
           \/ records = <<>>
           \/ \E r \in Located : records = <<r>> /\ from <= r.offset /\ r.offset < upto,
           found \in Seq(Located), sidecar \in Seq(Located), ok \in Nat, Accounted,
           \A n \in 1 .. Len(sidecar) : sidecar[n].offset < from,
           Handle(records)
    PROVE  /\ found' = found \o records /\ found' \in Seq(Located)
           /\ sidecar' \in Seq(Located) /\ ok' \in Nat /\ Accounted'
           /\ \A n \in 1 .. Len(sidecar') : sidecar'[n].offset < upto
<1>1. found' = found \o records
  BY DEF Handle
<1>2. /\ Len(sidecar) \in Nat /\ ok + Len(sidecar) = Len(found) /\ Len(found) \in Nat
      /\ \A n \in 1 .. Len(sidecar) - 1 : sidecar[n].offset < sidecar[n + 1].offset
      /\ \A n \in 1 .. Len(sidecar) : sidecar[n].offset \in Nat
  <2>1. \A n \in 1 .. Len(sidecar) : sidecar[n] \in Located
    BY ElementOfSeq
  <2>2. \A n \in 1 .. Len(sidecar) : sidecar[n].offset \in Nat
    BY <2>1 DEF Located
  <2>3. Len(sidecar) \in Nat /\ Len(found) \in Nat
    BY LenProperties
  <2>4. QED
    BY <2>2, <2>3 DEF Accounted
<1>3. CASE records = <<>>
  <2>1. sidecar' = sidecar /\ ok' = ok /\ found' = found
    <3>1. found \o <<>> = found
      BY ConcatEmptySeq
    <3>2. QED
      BY <1>1, <1>3, <3>1 DEF Handle
  <2>2. \A n \in 1 .. Len(sidecar) : sidecar[n].offset < upto
    BY <1>2
  <2>3. Accounted'
    BY <1>2, <2>1 DEF Accounted
  <2>4. QED
    BY <1>1, <2>1, <2>2, <2>3
<1>4. CASE records # <<>>
  <2>1. PICK r \in Located : records = <<r>> /\ from <= r.offset /\ r.offset < upto
    BY <1>4
  <2>2. r.offset \in Nat
    BY DEF Located
  <2>7. records \in Seq(Located) /\ Len(records) = 1 /\ records[1] = r
    BY <2>1
  <2>3. found' \in Seq(Located) /\ Len(found') = Len(found) + 1
    <3>1. found \o records \in Seq(Located) /\ Len(found \o records) = Len(found) + 1
      BY <2>7, AppendedIs
    <3>2. QED
      BY <1>1, <3>1
  <2>4. CASE ok' = ok + 1 /\ sidecar' = sidecar
    <3>1. ok' + Len(sidecar') = Len(found') /\ ok' \in Nat
      BY <1>2, <2>3, <2>4
    <3>2. \A n \in 1 .. Len(sidecar') : sidecar'[n].offset < upto
      BY <1>2, <2>4
    <3>3. Accounted'
      BY <1>2, <2>4, <3>1 DEF Accounted
    <3>4. QED
      BY <1>1, <2>3, <2>4, <3>1, <3>2, <3>3
  <2>5. CASE sidecar' = sidecar \o records /\ ok' = ok
    <3> DEFINE S == Len(sidecar)
    <3>1. /\ sidecar' \in Seq(Located) /\ Len(sidecar') = S + 1
          /\ \A n \in 1 .. S : sidecar'[n] = sidecar[n]
          /\ sidecar'[S + 1] = r
      <4>1. /\ sidecar \o records \in Seq(Located) /\ Len(sidecar \o records) = Len(sidecar) + 1
            /\ \A n \in 1 .. Len(sidecar) : (sidecar \o records)[n] = sidecar[n]
            /\ (sidecar \o records)[Len(sidecar) + 1] = records[1]
        BY <2>7, AppendedIs
      <4>2. QED
        BY <2>5, <2>7, <4>1, Zenon
    <3>2. ok' + Len(sidecar') = Len(found')
      BY <1>2, <2>3, <2>5, <3>1
    <3> DEFINE O(n) == sidecar'[n].offset
               o(n) == sidecar[n].offset
    <3>3. /\ \A n \in 1 .. S : O(n) = o(n) /\ o(n) \in Nat /\ o(n) < from
          /\ O(S + 1) = r.offset /\ S \in Nat
          /\ \A n \in 1 .. S - 1 : o(n) < o(n + 1)
      BY <1>2, <3>1
    <3> DEFINE end == r.offset
    <3>4. O(S + 1) = end /\ end \in Nat /\ from <= end /\ end < upto
      BY <2>1, <2>2, <3>3
    <3> HIDE DEF S, O, o, end
    <3>5. \A n \in 1 .. S + 1 : n \in 1 .. S \/ n = S + 1
      BY <3>3
    <3>6. \A n \in 1 .. S + 1 : O(n) < upto
      BY <3>3, <3>4, <3>5
    <3>7. \A n \in 1 .. S + 1 - 1 : O(n) < O(n + 1)
      <4> TAKE n \in 1 .. S + 1 - 1
      <4>1. n \in 1 .. S /\ (n = S \/ (n \in 1 .. S - 1 /\ n + 1 \in 1 .. S))
        BY <3>3
      <4>2. CASE n = S
        <5>1. O(n) = o(n) /\ o(n) \in Nat /\ o(n) < from /\ O(n + 1) = end
          BY <3>3, <3>4, <4>1, <4>2
        <5>2. QED
          BY <3>4, <5>1
      <4>3. CASE n # S
        BY <3>3, <4>1, <4>3
      <4>4. QED
        BY <4>2, <4>3
    <3>8. Accounted'
      <4>1. Len(sidecar') - 1 = S + 1 - 1
        BY <3>1, <3>3
      <4>2. \A n \in 1 .. Len(sidecar') - 1 : O(n) < O(n + 1)
        BY <3>7, <4>1
      <4>3. \A n \in 1 .. Len(sidecar') - 1 : sidecar'[n].offset < sidecar'[n + 1].offset
        BY <4>2, Zenon DEF O
      <4>4. QED
        BY <3>2, <4>3 DEF Accounted
    <3>9. QED
      BY <1>1, <1>2, <2>3, <2>5, <3>1, <3>6, <3>8 DEF O
  <2>6. QED
    BY <1>4, <2>4, <2>5 DEF Handle
<1>5. QED
  BY <1>3, <1>4

Stands(record) == \E last \in record.offset .. Len(file) :
    DecodedAlone(SubSeq(file, record.offset + 1, last)) = record.raw

\* With one-byte characters a game handled with its offset stands there.
LEMMA OneMoreStands ==
    ASSUME file \in Seq(Bytes), OneByte, found \in Seq(Located), OffsetsTrue, start \in Nat,
           NEW segment \in Texts, NEW to \in start .. Len(file),
           segment = SubSeq(file, start + 1, to),
           NEW records, records = Offsets(segment, start),
           found' = found \o records, file' = file
    PROVE  /\ OffsetsTrue'
           /\ Raws(found') = Raws(found) \o Yielded(segment)
<1>1. /\ records \in Seq(Located) /\ Raws(records) = Yielded(segment)
      /\ \/ records = <<>>
         \/ \E r \in Located : /\ records = <<r>> /\ ~ Blank(segment)
                              /\ r.offset = start + Leading(segment) /\ r.raw = Stripped(segment)
  BY OffsetsAre
<1>2. Raws(found') = Raws(found) \o Yielded(segment)
  BY <1>1, RawsAre
<1>3. \A n \in 1 .. Len(found) : Stands(found[n])
  <2>1. DOMAIN found = 1 .. Len(found)
    BY LenProperties
  <2>2. QED
    BY <2>1, Zenon DEF OffsetsTrue, Stands
<1>4. CASE records = <<>>
  <2>1. found' = found
    BY <1>4, ConcatEmptySeq
  <2>2. QED
    BY <1>2, <2>1 DEF OffsetsTrue
<1>5. CASE records # <<>>
  <2>1. PICK r \in Located : /\ records = <<r>> /\ ~ Blank(segment)
                            /\ r.offset = start + Leading(segment) /\ r.raw = Stripped(segment)
    BY <1>1, <1>5
  <2>2. Stands(r)
    <3>1. Plain(file)
      BY DEF OneByte, Plain
    <3>2. PICK last \in start + Leading(segment) .. Len(file) :
             DecodedAlone(SubSeq(file, start + Leading(segment) + 1, last)) = Stripped(segment)
      BY <2>1, <3>1, OffsetIs
    <3>3. QED
      BY <2>1, <3>2, Zenon DEF Stands
  <2>3. /\ found' \in Seq(Located) /\ Len(found') = Len(found) + 1 /\ Len(found) \in Nat
        /\ \A n \in 1 .. Len(found) : found'[n] = found[n]
        /\ found'[Len(found) + 1] = r
    <3>1. records = <<r>>
      BY <2>1
    <3>2. Len(records) = 1 /\ records[1] = r
      BY <3>1
    <3>3. /\ found \o records \in Seq(Located) /\ Len(found \o records) = Len(found) + 1
          /\ Len(found) \in Nat /\ \A n \in 1 .. Len(found) : (found \o records)[n] = found[n]
          /\ (found \o records)[Len(found) + 1] = records[1]
      BY <1>1, <3>2, AppendedIs
    <3>4. QED
      BY <3>2, <3>3, Zenon
  <2>4. DOMAIN found' = 1 .. Len(found) + 1
    BY <2>3, LenProperties
  <2>5. \A n \in DOMAIN found' : n \in 1 .. Len(found) \/ n = Len(found) + 1
    BY <2>3, <2>4
  <2>6. \A n \in DOMAIN found' : Stands(found'[n])
    <3> HIDE DEF Stands
    <3>1. QED
      BY <1>3, <2>2, <2>3, <2>5
  <2>7. OffsetsTrue'
    BY <2>6 DEF OffsetsTrue, Stands
  <2>8. QED
    BY <1>2, <2>7
<1>6. QED
  BY <1>4, <1>5

LEMMA WholeDecoded ==
    ASSUME NEW bytes \in Seq(Bytes)
    PROVE  DecodedAlone(bytes) \in Texts /\ Decoded(<<>>, SubSeq(bytes, 1, Len(bytes))) \in DecoderStates
<1>1. Len(bytes) \in 0 .. Len(bytes)
  BY LenProperties
<1> DEFINE s == Decoded(<<>>, SubSeq(bytes, 1, Len(bytes)))
<1>2. s \in DecoderStates /\ \E rest \in Texts : DecodedAlone(bytes) = s.out \o rest
  BY <1>1, FrontDecoded
<1> HIDE DEF s
<1>3. PICK rest \in Texts : DecodedAlone(bytes) = s.out \o rest
  BY <1>2
<1> DEFINE out == s.out
<1>4. out \in Texts
  BY <1>2 DEF DecoderStates
<1> HIDE DEF out
<1>5. out \o rest \in Texts
  BY <1>4, ConcatProperties DEF Texts
<1>6. QED
  BY <1>2, <1>3, <1>5 DEF s, out

LEMMA StreamBegins == ASSUME StreamConstants PROVE StreamInit => StreamInv
<1> SUFFICES ASSUME StreamInit PROVE StreamInv
  OBVIOUS
<1>1. file \in Seq(Bytes) /\ size \in Nat \ {0} /\ Len(file) \in Nat
  BY DEF StreamConstants, StreamInit
<1>2. Len(<<>>) = 0 /\ \A S : <<>> \in Seq(S)
  BY EmptySeq
<1>3. StreamTypes
  <2>1. <<>> \in Seq(Texts) /\ <<>> \in Seq(Located)
    BY EmptySeq
  <2>2. <<>> \in Texts
    BY EmptySeq DEF Texts
  <2>3. 0 \in 0 .. Len(file) /\ 0 \in Nat
    BY <1>1
  <2>4. file \in Seq(Bytes) /\ size \in Nat \ {0} /\ pos \in 0 .. Len(file) /\ start \in Nat /\ ok \in Nat
    BY <1>1, <2>3 DEF StreamInit
  <2>5. buf \in Texts /\ buf2 \in Texts /\ games \in Seq(Texts) /\ found \in Seq(Located)
        /\ sidecar \in Seq(Located) /\ done = FALSE /\ pending \in Waits
    BY <2>1, <2>2 DEF StreamInit, Waits
  <2>6. QED
    BY <2>4, <2>5 DEF StreamTypes
<1>4. Sofar = [out |-> <<>>, wait |-> <<>>]
  <2>1. SubSeq(file, 1, 0) = <<>>
    BY SubSeqEmpty
  <2>2. <<>> \in Waits
    BY DEF Waits
  <2>3. QED
    BY <2>1, <2>2, NothingDecoded DEF Sofar, StreamInit
<1>5. Sofar.out = <<>> /\ Sofar.wait = <<>> /\ Len(Sofar.out) = 0
  BY <1>2, <1>4
<1>6. FirstReader
  <2>1. CameTo(DecodedAlone(file), 0, <<>>, <<>>)
    BY <1>1, AtBegin, WholeDecoded
  <2>2. QED
    BY <1>5, <2>1 DEF StreamInit, FirstReader, ChunksDoNotMatter
<1>7. ASSUME OneByte PROVE CameTo(file, 0, <<>>, Raws(<<>>))
  <2>1. file \in Texts
    BY <1>1, <1>7, OneByteDecoded DEF OneByte
  <2>2. Raws(<<>>) = <<>>
    BY DEF Raws
  <2>3. QED
    BY <2>1, <2>2, AtBegin
<1>8. SecondReader
  <2>1. OffsetsTrue
    BY DEF StreamInit, OffsetsTrue
  <2>2. start = pos - Len(buf2)
    <3>1. start = 0 /\ pos = 0 /\ buf2 = <<>>
      BY DEF StreamInit
    <3>2. Len(buf2) = 0
      BY <1>2, <3>1, Zenon
    <3> DEFINE L == Len(buf2)
    <3>3. L = 0
      BY <3>2
    <3> HIDE DEF L
    <3>4. start = pos - L
      <4>1. start = 0 /\ pos = 0
        BY <3>1
      <4>2. QED
        BY <3>3, <4>1
    <3>5. QED
      BY <3>4 DEF L
  <2>3. OneByte => CameTo(file, pos, buf2, Raws(found))
    BY <1>7 DEF StreamInit
  <2>4. ~ done
    BY DEF StreamInit
  <2>5. QED
    BY <2>1, <2>2, <2>3, <2>4 DEF SecondReader
<1>9. Handled
  BY <1>2 DEF StreamInit, Handled, Accounted
<1>10. QED
  BY <1>3, <1>6, <1>8, <1>9 DEF StreamInv

LEMMA CutBufKeeps == ASSUME StreamInv, CutBuf PROVE StreamInv'
<1> DEFINE text == DecodedAlone(file)
           upto == Len(Sofar.out)
           game == SubSeq(buf, 1, Cut(buf) - 1)
<1>1. StreamTypes /\ ~ done /\ Cut(buf) # 0
  BY DEF StreamInv, StreamTypes, CutBuf
<1>2. text \in Texts /\ CameTo(text, upto, buf, games)
  BY <1>1, WholeDecoded DEF StreamInv, StreamTypes, FirstReader
<1>3. games' = games \o Yielded(game) /\ buf' = SubSeq(buf, Cut(buf) + 2, Len(buf))
  BY DEF CutBuf
<1> HIDE DEF text, upto
<1>4. game \in Texts /\ buf' \in Texts /\ CameTo(text, upto, buf', games')
  BY <1>1, <1>2, <1>3, CutKeeps DEF StreamTypes
<1>5. games' \in Seq(Texts)
  <2>1. Yielded(game) \in Seq(Texts)
    BY <1>4, YieldedIs
  <2> HIDE DEF game
  <2>2. QED
    BY <1>1, <1>3, <2>1, ConcatProperties DEF StreamTypes
<1>6. UNCHANGED <<file, size, pos, pending, buf2, start, found, sidecar, ok, done>>
  BY DEF CutBuf
<1>7. StreamTypes'
  BY <1>1, <1>4, <1>5, <1>6 DEF StreamTypes
<1>8. Sofar' = Sofar
  BY <1>6 DEF Sofar
<1>9. FirstReader'
  BY <1>1, <1>4, <1>6, <1>8 DEF StreamInv, FirstReader, ChunksDoNotMatter, text, upto
<1>10. SecondReader'
  BY <1>6 DEF StreamInv, SecondReader, OneByte, OffsetsTrue
<1>11. Handled'
  BY <1>6 DEF StreamInv, Handled, Accounted
<1>12. QED
  BY <1>7, <1>9, <1>10, <1>11 DEF StreamInv

LEMMA CutBuf2Keeps == ASSUME StreamInv, CutBuf2 PROVE StreamInv'
<1> DEFINE c == Cut(buf2)
           game == SubSeq(buf2, 1, c - 1)
           records == Offsets(game, start)
<1>1. StreamTypes /\ ~ done /\ c # 0 /\ Cut(buf) = 0
  BY DEF StreamInv, StreamTypes, CutBuf2
<1>2. /\ Handle(records) /\ buf2' = SubSeq(buf2, c + 2, Len(buf2)) /\ start' = start + c + 1
      /\ UNCHANGED <<file, size, pos, pending, buf, games, done>>
  BY DEF CutBuf2
<1>3. c \in CutsFrom(buf2, 2)
  BY <1>1, FirstIs DEF StreamTypes, Cut
<1>4. c \in 2 .. Len(buf2) - 2 /\ Len(buf2) \in Nat /\ c \in Nat /\ start \in Nat
  <2>1. CutsFrom(buf2, 2) \subseteq 2 .. Len(buf2) - 2
    BY <1>1, CutsAre DEF StreamTypes
  <2> HIDE DEF c
  <2>2. QED
    BY <1>1, <1>3, <2>1 DEF StreamTypes, Texts
<1>5. \A i \in 1 .. Len(buf2) : buf2[i] \in Letters
  BY <1>1 DEF StreamTypes, Texts
<1> HIDE DEF c
<1>6. game \in Texts /\ Len(game) = c - 1
  <2>1. \A i \in 1 .. c - 1 : buf2[i] \in Letters
    BY <1>4, <1>5
  <2>2. game \in Texts /\ Len(game) = IF 1 <= c - 1 THEN c - 1 - 1 + 1 ELSE 0
    BY <1>4, <2>1, SubSeqProperties DEF Texts
  <2>3. QED
    BY <1>4, <2>2
<1>7. buf2' \in Texts /\ Len(buf2') = Len(buf2) - c - 1
  <2>1. \A i \in c + 2 .. Len(buf2) : buf2[i] \in Letters
    BY <1>4, <1>5
  <2>2. /\ SubSeq(buf2, c + 2, Len(buf2)) \in Texts
        /\ Len(SubSeq(buf2, c + 2, Len(buf2))) =
              IF c + 2 <= Len(buf2) THEN Len(buf2) - (c + 2) + 1 ELSE 0
    BY <1>4, <2>1, SubSeqProperties DEF Texts
  <2>3. QED
    BY <1>2, <1>4, <2>2
<1> HIDE DEF game
<1>8. \/ records = <<>>
      \/ \E r \in Located : records = <<r>> /\ start <= r.offset /\ r.offset < start + (c - 1)
  BY <1>4, <1>6, OffsetsAre
<1> HIDE DEF records
<1>9. /\ found' = found \o records /\ found' \in Seq(Located)
      /\ sidecar' \in Seq(Located) /\ ok' \in Nat /\ Accounted'
      /\ \A n \in 1 .. Len(sidecar') : sidecar'[n].offset < start'
  <2>1. /\ found \in Seq(Located) /\ sidecar \in Seq(Located) /\ ok \in Nat /\ Accounted
        /\ \A n \in 1 .. Len(sidecar) : sidecar[n].offset < start
    BY <1>1 DEF StreamInv, StreamTypes, Handled
  <2>2. start' \in Nat /\ start <= start'
    BY <1>2, <1>4
  <2>3. \/ records = <<>>
        \/ \E r \in Located : records = <<r>> /\ start <= r.offset /\ r.offset < start'
    <3>1. CASE records = <<>>
      BY <3>1
    <3>2. CASE records # <<>>
      <4>1. PICK r \in Located :
               records = <<r>> /\ start <= r.offset /\ r.offset < start + (c - 1)
        BY <1>8, <3>2
      <4>2. r.offset \in Nat
        BY DEF Located
      <4>3. r.offset < start'
        BY <1>2, <1>4, <4>1, <4>2
      <4>4. QED
        BY <4>1, <4>3
    <3>3. QED
      BY <3>1, <3>2
  <2> DEFINE next == start'
  <2>4. next \in Nat /\ start <= next
        /\ \/ records = <<>>
           \/ \E r \in Located : records = <<r>> /\ start <= r.offset /\ r.offset < next
    BY <2>2, <2>3
  <2> HIDE DEF next
  <2>5. /\ found' = found \o records /\ found' \in Seq(Located)
        /\ sidecar' \in Seq(Located) /\ ok' \in Nat /\ Accounted'
        /\ \A n \in 1 .. Len(sidecar') : sidecar'[n].offset < next
    BY <1>2, <1>4, <2>1, <2>4, HandleKeeps
  <2>6. QED
    BY <2>5 DEF next
<1>10. StreamTypes'
  <2>1. start' \in Nat
    BY <1>2, <1>4
  <2>2. QED
    BY <1>1, <1>2, <1>7, <1>9, <2>1 DEF StreamTypes
<1>11. FirstReader'
  BY <1>2 DEF StreamInv, FirstReader, ChunksDoNotMatter, Sofar
<1>12. ASSUME OneByte
       PROVE  /\ start' = pos' - Len(buf2') /\ CameTo(file, pos, buf2', Raws(found')) /\ OffsetsTrue'
  <2>1. /\ start = pos - Len(buf2) /\ CameTo(file, pos, buf2, Raws(found)) /\ OffsetsTrue
        /\ pos \in Nat /\ file \in Seq(Bytes)
    BY <1>1, <1>12 DEF StreamInv, StreamTypes, SecondReader
  <2>2. file \in Texts
    BY <1>12, <2>1, OneByteDecoded DEF OneByte
  <2>3. start' = pos' - Len(buf2')
    BY <1>2, <1>4, <1>7, <2>1
  <2>4. Raws(found) \in Seq(Texts)
    BY <1>1, RawsAre DEF StreamTypes
  <2>5. CameTo(file, pos, buf2', Raws(found) \o Yielded(game))
    BY <1>1, <1>2, <2>1, <2>2, <2>4, CutKeeps DEF StreamTypes, c, game
  <2>6. /\ start + 1 \in 1 .. Len(file) /\ pos \in 1 .. Len(file) /\ pos - (start + 1) + 1 = Len(buf2)
        /\ 1 \in 1 .. pos - (start + 1) + 1 /\ c - 1 \in 1 .. pos - (start + 1) + 1
        /\ start + 1 + 1 - 1 = start + 1 /\ start + 1 + (c - 1) - 1 = start + (c - 1)
        /\ start + (c - 1) \in start .. Len(file)
    <3>1. pos <= Len(file) /\ Len(file) \in Nat
      BY <1>1, <2>2 DEF StreamTypes, Texts
    <3>2. QED
      BY <1>4, <2>1, <3>1
  <2>7. game = SubSeq(file, start + 1, start + (c - 1))
    <3> DEFINE from == start + 1
               last == c - 1
    <3>1. buf2 = SubSeq(file, from, pos)
      <4>1. pos - Len(buf2) + 1 = from
        BY <1>4, <2>1
      <4>2. QED
        BY <2>1, <4>1 DEF CameTo
    <3>2. from \in 1 .. Len(file) /\ 1 \in 1 .. pos - from + 1 /\ last \in 1 .. pos - from + 1
      BY <2>6
    <3> HIDE DEF from, last
    <3>3. SubSeq(SubSeq(file, from, pos), 1, last) = SubSeq(file, from + 1 - 1, from + last - 1)
      BY <2>2, <2>6, <3>2, SubSeqOfSubSeq DEF Texts
    <3>4. QED
      BY <2>6, <3>1, <3>3 DEF game, from, last
  <2>8. OffsetsTrue' /\ Raws(found') = Raws(found) \o Yielded(game)
    BY <1>1, <1>2, <1>4, <1>6, <1>9, <1>12, <2>1, <2>6, <2>7, OneMoreStands DEF StreamTypes, records
  <2>9. QED
    BY <2>3, <2>5, <2>8
<1>13. SecondReader'
  <2>1. OneByte' = OneByte
    BY <1>2 DEF OneByte
  <2>2. QED
    BY <1>1, <1>2, <1>12, <2>1 DEF SecondReader
<1>14. Handled'
  BY <1>9 DEF Handled
<1>15. QED
  BY <1>10, <1>11, <1>13, <1>14 DEF StreamInv

LEMMA ReadKeeps == ASSUME StreamInv, Read PROVE StreamInv'
<1> DEFINE end == IF pos + size < Len(file) THEN pos + size ELSE Len(file)
           chunk == SubSeq(file, pos + 1, end)
           st == Decoded(pending, chunk)
           text == DecodedAlone(file)
           front == Sofar.out
<1>1. StreamTypes
  BY DEF StreamInv
<1>2. /\ chunk # <<>> /\ Cut(buf) = 0 /\ Cut(buf2) = 0 /\ pos' = pos + Len(chunk)
      /\ buf' = buf \o st.out /\ pending' = st.wait /\ buf2' = buf2 \o DecodedAlone(chunk)
      /\ UNCHANGED <<file, size, games, start, found, sidecar, ok, done>>
  BY DEF Read
<1>3. /\ Len(file) \in Nat /\ pos \in Nat /\ end \in pos .. Len(file) /\ end \in Nat
      /\ \A i \in 1 .. Len(file) : file[i] \in Bytes
  <2>1. \A i \in 1 .. Len(file) : file[i] \in Bytes
    BY <1>1, ElementOfSeq DEF StreamTypes
  <2>2. Len(file) \in Nat /\ pos \in Nat /\ pos <= Len(file) /\ size \in Nat
    BY <1>1, LenProperties DEF StreamTypes
  <2>3. QED
    BY <2>1, <2>2
<1> HIDE DEF end
<1>4. chunk \in Seq(Bytes) /\ Len(chunk) = end - pos
  <2>1. \A i \in pos + 1 .. end : file[i] \in Bytes
    BY <1>3
  <2>2. chunk \in Seq(Bytes) /\ Len(chunk) = IF pos + 1 <= end THEN end - (pos + 1) + 1 ELSE 0
    BY <1>1, <1>3, <2>1, SubSeqProperties DEF StreamTypes
  <2>3. QED
    BY <1>3, <2>2
<1>5. pos' = end
  BY <1>2, <1>3, <1>4
<1>6. ~ done
  <2>1. ASSUME pos = Len(file) PROVE FALSE
    <3>1. Len(chunk) = 0
      BY <1>3, <1>4, <2>1
    <3>2. QED
      BY <1>2, <1>4, <3>1, EmptySeq
  <2>2. QED
    BY <1>1, <2>1 DEF StreamTypes
<1>7. SubSeq(file, 1, end) = SubSeq(file, 1, pos) \o chunk
  <2>1. 1 \in 1 .. Len(file) + 1 /\ pos \in 1 - 1 .. Len(file)
    BY <1>3
  <2>2. QED
    BY <1>1, <1>3, <2>1, ConcatAdjacentSubSeq DEF StreamTypes
<1>8. SubSeq(file, 1, pos) \in Seq(Bytes) /\ Sofar \in DecoderStates /\ pending = Sofar.wait
      /\ pending \in Waits
  BY <1>1, FrontDecoded DEF StreamInv, StreamTypes, FirstReader, Sofar
<1> HIDE DEF chunk
<1>9. /\ st \in DecoderStates
      /\ Decoded(<<>>, SubSeq(file, 1, end)) = [out |-> front \o st.out, wait |-> st.wait]
  <2>1. <<>> \in Waits
    BY DEF Waits
  <2>2. QED
    <3> DEFINE a == SubSeq(file, 1, pos)
    <3>1. a \in Seq(Bytes) /\ chunk \in Seq(Bytes) /\ Sofar = Decoded(<<>>, a)
      BY <1>4, <1>8 DEF Sofar
    <3>2. SubSeq(file, 1, end) = a \o chunk
      BY <1>7
    <3> HIDE DEF a
    <3>3. /\ Decoded(Decoded(<<>>, a).wait, chunk) \in DecoderStates
          /\ Decoded(<<>>, a \o chunk) =
                [out |-> Decoded(<<>>, a).out \o Decoded(Decoded(<<>>, a).wait, chunk).out,
                 wait |-> Decoded(Decoded(<<>>, a).wait, chunk).wait]
      BY <2>1, <3>1, DecodeSplit
    <3>4. Decoded(<<>>, a).wait = pending
      BY <1>8, <3>1
    <3>5. QED
      BY <3>1, <3>2, <3>3, <3>4, Zenon
<1> DEFINE more == st.out
           wait == st.wait
<1>10. more \in Texts /\ wait \in Waits /\ front \in Texts
  BY <1>8, <1>9 DEF DecoderStates
<1>11. Sofar' = [out |-> front \o more, wait |-> wait]
  BY <1>2, <1>5, <1>9 DEF Sofar
<1>12. buf' = buf \o more /\ pending' = wait
  BY <1>2
<1> HIDE DEF st, more, wait, front
<1>13. Sofar'.out = front \o more /\ Sofar'.wait = wait
  <2> DEFINE both == front \o more
  <2>1. Sofar' = [out |-> both, wait |-> wait]
    BY <1>11
  <2> HIDE DEF both
  <2>2. Sofar'.out = both /\ Sofar'.wait = wait
    BY <2>1
  <2>3. QED
    BY <2>2 DEF both
<1>14. buf \o more \in Texts /\ CameTo(text, Len(front \o more), buf \o more, games)
  <2>1. PICK rest \in Texts : text = Decoded(<<>>, SubSeq(file, 1, end)).out \o rest
    <3>1. end \in 0 .. Len(file) /\ file \in Seq(Bytes)
      BY <1>1, <1>3 DEF StreamTypes
    <3>2. QED
      BY <3>1, FrontDecoded
  <2>2. text = (front \o more) \o rest
    <3>1. Sofar' = Decoded(<<>>, SubSeq(file, 1, end))
      BY <1>2, <1>5 DEF Sofar
    <3> HIDE DEF text
    <3>2. QED
      BY <1>13, <2>1, <3>1, Zenon
  <2>3. CameTo(text, Len(front), buf, games) /\ buf \in Texts
    BY <1>1, <1>6 DEF StreamInv, StreamTypes, FirstReader, front
  <2> HIDE DEF text
  <2>4. QED
    BY <1>10, <2>2, <2>3, TextGrows
<1>15. DecodedAlone(chunk) \in Texts /\ buf2' \in Texts
  <2>1. DecodedAlone(chunk) \in Texts
    BY <1>4, WholeDecoded
  <2>2. QED
    BY <1>1, <1>2, <2>1, ConcatProperties DEF StreamTypes, Texts
<1>16. StreamTypes'
  <2>1. pos' \in 0 .. Len(file)
    BY <1>3, <1>5
  <2>2. buf' \in Texts /\ pending' \in Waits
    BY <1>10, <1>12, <1>14
  <2>3. done' = FALSE
    BY <1>1, <1>2, <1>6 DEF StreamTypes
  <2>4. QED
    BY <1>1, <1>2, <1>15, <2>1, <2>2, <2>3 DEF StreamTypes
<1>17. FirstReader'
  <2>1. CameTo(text, Len(Sofar'.out), buf', games) /\ pending' = Sofar'.wait
    BY <1>12, <1>13, <1>14, Zenon
  <2>2. text = DecodedAlone(file') /\ games' = games /\ ~ done'
    BY <1>2, <1>6
  <2> HIDE DEF text
  <2>3. QED
    BY <2>1, <2>2 DEF FirstReader, ChunksDoNotMatter
<1>18. ASSUME OneByte
       PROVE  start' = pos' - Len(buf2') /\ CameTo(file, pos', buf2', Raws(found))
  <2>1. /\ start = pos - Len(buf2) /\ CameTo(file, pos, buf2, Raws(found))
        /\ file \in Seq(Bytes) /\ buf2 \in Texts
    BY <1>1, <1>6, <1>18 DEF StreamInv, StreamTypes, SecondReader
  <2>2. file \in Texts
    BY <1>18, <2>1, OneByteDecoded DEF OneByte
  <2>3. DecodedAlone(chunk) = chunk
    <3>1. \A n \in 1 .. Len(file) : file[n] \notin {"c1", "c2"}
      BY <1>18, <2>1, LenProperties DEF OneByte
    <3>2. \A i \in pos + 1 .. end : file[i] \in Bytes /\ file[i] \notin {"c1", "c2"}
      BY <1>3, <3>1
    <3>3. \A i \in 1 .. end - (pos + 1) + 1 : SubSeq(file, pos + 1, end)[i] = file[pos + 1 + i - 1]
      BY <1>3, <2>1, <3>2, SubSeqProperties
    <3>4. \A i \in 1 .. Len(chunk) : i \in 1 .. end - (pos + 1) + 1 /\ pos + 1 + i - 1 \in pos + 1 .. end
      BY <1>3, <1>4
    <3>5. \A i \in 1 .. Len(chunk) : chunk[i] \notin {"c1", "c2"}
      BY <3>2, <3>3, <3>4 DEF chunk
    <3>6. QED
      BY <1>4, <3>5, LenProperties, OneByteDecoded
  <2>4. CameTo(file, end, buf2 \o chunk, Raws(found))
    BY <1>3, <2>1, <2>2, MoreText DEF chunk
  <2>5. Len(buf2 \o chunk) = Len(buf2) + (end - pos) /\ Len(buf2) \in Nat
    <3>1. chunk \in Texts
      BY <1>4, <2>3, WholeDecoded
    <3>2. Len(buf2 \o chunk) = Len(buf2) + Len(chunk) /\ Len(buf2) \in Nat
      BY <2>1, <3>1, ConcatProperties DEF Texts
    <3>3. QED
      BY <1>4, <3>2
  <2>6. buf2' = buf2 \o chunk
    BY <1>2, <2>3
  <2>7. start' = pos' - Len(buf2')
    <3> DEFINE L == Len(buf2)
               M == Len(buf2')
    <3>1. L \in Nat /\ M = L + (end - pos) /\ start = pos - L
      BY <2>1, <2>5, <2>6
    <3> HIDE DEF L, M
    <3>2. start = end - M
      BY <1>3, <3>1
    <3>3. QED
      BY <1>2, <1>5, <3>2 DEF M
  <2>8. QED
    BY <1>5, <2>4, <2>6, <2>7
<1>19. SecondReader'
  <2>1. OneByte' = OneByte /\ OffsetsTrue' = OffsetsTrue
    BY <1>2 DEF OneByte, OffsetsTrue
  <2>2. OneByte => OffsetsTrue
    BY DEF StreamInv, SecondReader
  <2>3. QED
    BY <1>2, <1>6, <1>18, <2>1, <2>2 DEF SecondReader
<1>20. Handled'
  BY <1>2 DEF StreamInv, Handled, Accounted
<1>21. QED
  BY <1>16, <1>17, <1>19, <1>20 DEF StreamInv

LEMMA StreamEndKeeps == ASSUME StreamInv, End PROVE StreamInv'
<1> DEFINE text == DecodedAlone(file)
           front == Sofar.out
           tail == Flushed([out |-> <<>>, wait |-> pending])
           records == Offsets(buf2, start)
<1>1. StreamTypes /\ Cut(buf) = 0 /\ Cut(buf2) = 0 /\ pos = Len(file) /\ ~ done
  BY DEF StreamInv, StreamTypes, End
<1>2. /\ games' = games \o Yielded(buf \o tail) /\ Handle(records) /\ done'
      /\ UNCHANGED <<file, size, pos, pending, buf, buf2, start>>
  BY DEF End
<1>3. /\ Sofar \in DecoderStates /\ pending = Sofar.wait
      /\ text = Flushed(Sofar) /\ front \in Texts /\ CameTo(text, Len(front), buf, games)
  <2>1. SubSeq(file, 1, Len(file)) = file
    BY <1>1, SubSeqFull DEF StreamTypes
  <2>2. Sofar = Decoded(<<>>, file)
    BY <1>1, <2>1 DEF Sofar
  <2>3. text = Flushed(Sofar)
    BY <2>2 DEF DecodedAlone
  <2>4. Sofar \in DecoderStates
    BY <1>1, WholeDecoded DEF Sofar, StreamTypes
  <2>5. front \in Texts
    BY <2>4 DEF DecoderStates
  <2>6. QED
    BY <1>1, <2>3, <2>4, <2>5 DEF StreamInv, FirstReader
<1>4. tail \in Tails /\ text = front \o tail
  BY <1>3, FlushIs
<1> HIDE DEF text, front, tail
<1>5. buf \o tail \in Texts /\ GamesFrom(text)[1] = games \o Yielded(buf \o tail)
  <2>1. /\ front \in Texts /\ Ends(text, front, tail)
        /\ buf \in Texts /\ CameTo(text, Len(front), buf, games) /\ Cut(buf) = 0
    BY <1>1, <1>3, <1>4 DEF StreamTypes, Ends
  <2>2. QED
    BY <2>1, LastGame
<1>6. games' = GamesFrom(text)[1] /\ games' \in Seq(Texts)
  <2>1. Yielded(buf \o tail) \in Seq(Texts)
    BY <1>5, YieldedIs
  <2> DEFINE last == Yielded(buf \o tail)
  <2> HIDE DEF last
  <2>2. games \o last \in Seq(Texts)
    BY <1>1, <2>1, ConcatProperties DEF StreamTypes, last
  <2>3. QED
    BY <1>2, <1>5, <2>2 DEF last
<1> HIDE DEF records
<1>7. /\ found' = found \o records /\ found' \in Seq(Located)
      /\ sidecar' \in Seq(Located) /\ ok' \in Nat /\ Accounted'
  <2> DEFINE upto == start + Len(buf2)
  <2>1. /\ found \in Seq(Located) /\ sidecar \in Seq(Located) /\ ok \in Nat /\ Accounted
        /\ start \in Nat /\ buf2 \in Texts
        /\ \A n \in 1 .. Len(sidecar) : sidecar[n].offset < start
    BY <1>1 DEF StreamInv, StreamTypes, Handled
  <2>2. upto \in Nat /\ start <= upto
    <3>1. Len(buf2) \in Nat
      BY <2>1 DEF Texts
    <3>2. QED
      BY <2>1, <3>1
  <2>3. \/ records = <<>>
        \/ \E r \in Located : records = <<r>> /\ start <= r.offset /\ r.offset < upto
    BY <2>1, OffsetsAre DEF records
  <2> HIDE DEF upto
  <2>4. QED
    BY <1>2, <2>1, <2>2, <2>3, HandleKeeps
<1>8. StreamTypes'
  BY <1>1, <1>2, <1>6, <1>7 DEF StreamTypes
<1>9. FirstReader'
  <2>1. Sofar' = Sofar /\ pending' = pending
    BY <1>2 DEF Sofar
  <2>2. games' = GamesFrom(DecodedAlone(file'))[1]
    BY <1>2, <1>6 DEF text
  <2>3. QED
    BY <1>2, <1>3, <2>1, <2>2 DEF FirstReader, ChunksDoNotMatter
<1>10. ASSUME OneByte PROVE Raws(found') = GamesFrom(file)[1] /\ OffsetsTrue'
  <2>1. /\ start = pos - Len(buf2) /\ CameTo(file, pos, buf2, Raws(found)) /\ OffsetsTrue
        /\ file \in Seq(Bytes) /\ buf2 \in Texts /\ found \in Seq(Located) /\ start \in Nat
    BY <1>1, <1>10 DEF StreamInv, StreamTypes, SecondReader
  <2>2. file \in Texts
    BY <1>10, <2>1, OneByteDecoded DEF OneByte
  <2>3. file \o <<>> = file /\ buf2 \o <<>> = buf2
    BY <2>1, <2>2, ConcatEmptySeq DEF Texts
  <2>4. GamesFrom(file)[1] = Raws(found) \o Yielded(buf2)
    <3> DEFINE none == <<>>
    <3>1. Ends(file, file, none) /\ buf2 = buf2 \o none
      BY <2>3 DEF Tails, Ends
    <3> HIDE DEF none
    <3>2. CameTo(file, Len(file), buf2, Raws(found))
      BY <1>1, <2>1
    <3>3. GamesFrom(file)[1] = Raws(found) \o Yielded(buf2 \o none)
      <4>1. Cut(buf2) = 0 /\ buf2 \in Texts
        BY <1>1, <2>1
      <4>2. QED
        BY <2>2, <3>1, <3>2, <4>1, LastGame
    <3>4. QED
      BY <3>1, <3>3, Zenon
  <2>5. pos \in start .. Len(file) /\ pos - Len(buf2) + 1 = start + 1
    <3>1. Len(buf2) \in Nat /\ Len(file) \in Nat
      BY <2>1, <2>2 DEF Texts
    <3>2. QED
      BY <1>1, <2>1, <3>1
  <2>6. buf2 = SubSeq(file, start + 1, pos)
    <3>1. buf2 = SubSeq(file, pos - Len(buf2) + 1, pos)
      BY <2>1 DEF CameTo
    <3>2. QED
      BY <2>5, <3>1, Zenon
  <2>7. OffsetsTrue' /\ Raws(found') = Raws(found) \o Yielded(buf2)
    BY <1>2, <1>7, <1>10, <2>1, <2>5, <2>6, OneMoreStands DEF records
  <2>8. QED
    BY <2>4, <2>7
<1>11. SecondReader'
  <2>1. OneByte' = OneByte
    BY <1>2 DEF OneByte
  <2>2. OneByte => start = pos - Len(buf2)
    BY DEF StreamInv, SecondReader
  <2>3. QED
    BY <1>2, <1>10, <2>1, <2>2 DEF SecondReader
<1>12. Handled'
  BY <1>2, <1>7 DEF Handled
<1>13. QED
  BY <1>8, <1>9, <1>11, <1>12 DEF StreamInv

LEMMA StreamInvariance == StreamInv /\ [StreamNext]_streamVars => StreamInv'
<1> SUFFICES ASSUME StreamInv, [StreamNext]_streamVars PROVE StreamInv'
  OBVIOUS
<1>1. CASE CutBuf
  BY <1>1, CutBufKeeps
<1>2. CASE CutBuf2
  BY <1>2, CutBuf2Keeps
<1>3. CASE Read
  BY <1>3, ReadKeeps
<1>4. CASE End
  BY <1>4, StreamEndKeeps
<1>5. CASE UNCHANGED streamVars
  <2>1. StreamTypes' /\ FirstReader'
    BY <1>5 DEF streamVars, StreamInv, StreamTypes, FirstReader, Sofar, ChunksDoNotMatter
  <2>2. SecondReader' /\ Handled'
    BY <1>5 DEF streamVars, StreamInv, SecondReader, OneByte, OffsetsTrue, Handled, Accounted
  <2>3. QED
    BY <2>1, <2>2 DEF StreamInv
<1>6. QED
  BY <1>1, <1>2, <1>3, <1>4, <1>5 DEF StreamNext

LEMMA StreamInvSound == StreamInv => StreamsCut
<1> SUFFICES ASSUME StreamInv PROVE StreamsCut
  OBVIOUS
<1>1. ASSUME OneByte PROVE SameGames /\ OffsetsTrue
  <2>1. DecodedAlone(file) = file
    BY <1>1, OneByteDecoded DEF OneByte, StreamInv, StreamTypes
  <2>2. QED
    BY <1>1, <2>1
       DEF StreamInv, FirstReader, SecondReader, ChunksDoNotMatter, SameGames, Raws
<1>2. QED
  BY <1>1 DEF StreamInv, FirstReader, Handled, StreamsCut

\* Wherever the stream is cut into chunks, the import reads the games of the whole
\* of it, every game is counted or kept, in order, and with one-byte characters the
\* reader with offsets reads the same games, each at the offset it gives
\* (iter_pgn_games, iter_pgn_games_with_offsets, process_with_quarantine).
THEOREM StreamsStayCut == ASSUME StreamConstants PROVE StreamSpec => []StreamsCut
<1>1. StreamInit => StreamInv
  BY StreamBegins
<1>2. QED
  BY <1>1, StreamInvariance, StreamInvSound, PTL DEF StreamSpec
=============================================================================
