---------------------------- MODULE PrivacyGates ----------------------------
(***************************************************************************)
(* The local privacy stores of the desktop: the sensitive flag of a        *)
(* collection, the cloud switch of an install, the accepted terms of a     *)
(* provider and the large local model.  Callers compare and set by         *)
(* revision; their requests may be old, repeated, or carry an approval     *)
(* given for something else.  A malformed request changes nothing.         *)
(***************************************************************************)
EXTENDS Integers, Sequences, FiniteSets

CONSTANTS
    Collections, Installs, Providers,
    Terms,          \* digests of provider terms
    MaxRev,         \* the largest revision (2^63 - 1 in the program)
    MaxApprovals,   \* bound: approvals the user gives
    None

VARIABLES
    flags,   \* FlagStore: collection -> [sensitive, rev, hist], or None
    cloud,   \* CloudSwitch: install -> [mode, rev], or None
    accepted,\* ByomStore: <<install, provider>> -> [terms, rev], or None
    models,  \* LocalModels: install -> [mode, rev], or None
    granted, \* approvals given by the user
    spent,   \* approvals that made a transition
    answer   \* the last verdict: what was asked for, and whether it was allowed

gatesVars == <<flags, cloud, accepted, models, granted, spent, answer>>
Pairs == Installs \X Providers

\* What may be open, and the approvals: tokens bound to a subject and to the
\* revision the user was shown.
Subjects == ({"collection"} \X Collections) \union ({"cloud", "large"} \X Installs)
    \union {<<"terms", pair, t>> : pair \in Pairs, t \in Terms}
Approvals == [subject : Subjects, rev : 0 .. MaxRev]

\* What the stores hold of what is registered; None is nothing of all this.
Flags == [sensitive : BOOLEAN, rev : 0 .. MaxRev, hist : Seq(BOOLEAN)]
Modes == [mode : {"on", "off"}, rev : 0 .. MaxRev]
Acceptances == [terms : Terms \union {None}, rev : 0 .. MaxRev]
GatesConstants ==
    /\ MaxRev \in Nat
    /\ None \notin Terms /\ None \notin Approvals
    /\ None \notin Flags /\ None \notin Modes /\ None \notin Acceptances

approval_for(c, rev) == [subject |-> <<"collection", c>>, rev |-> rev]
opt_in_for(i, rev) == [subject |-> <<"cloud", i>>, rev |-> rev]
large_opt_in_for(i, rev) == [subject |-> <<"large", i>>, rev |-> rev]
byom_approval_for(pair, t, rev) == [subject |-> <<"terms", pair, t>>, rev |-> rev]

NoAnswer == [allowed |-> FALSE, needs |-> {}]
GatesInit ==
    /\ flags = [c \in Collections |-> None] /\ cloud = [i \in Installs |-> None]
    /\ accepted = [pair \in Pairs |-> None] /\ models = [i \in Installs |-> None]
    /\ granted = {} /\ spent = {} /\ answer = NoAnswer

Registered(store) == {x \in DOMAIN store : store[x] # None}
Opens(tok) == spent' = spent \union {tok}
Closes == UNCHANGED spent

RegisterFlag == \E c \in Collections \ Registered(flags) :
    /\ flags' = [flags EXCEPT ![c] = [sensitive |-> TRUE, rev |-> 0, hist |-> <<>>]]
    /\ UNCHANGED <<cloud, accepted, models, granted, spent, answer>>
RegisterCloud == \E i \in Installs \ Registered(cloud) :
    /\ cloud' = [cloud EXCEPT ![i] = [mode |-> "off", rev |-> 0]]
    /\ UNCHANGED <<flags, accepted, models, granted, spent, answer>>
RegisterProvider == \E pair \in Pairs \ Registered(accepted) :
    /\ accepted' = [accepted EXCEPT ![pair] = [terms |-> None, rev |-> 0]]
    /\ UNCHANGED <<flags, cloud, models, granted, spent, answer>>
RegisterModel == \E i \in Installs \ Registered(models) :
    /\ models' = [models EXCEPT ![i] = [mode |-> "off", rev |-> 0]]
    /\ UNCHANGED <<flags, cloud, accepted, granted, spent, answer>>

\* The user approves what a settings page shows: a subject at its revision.
RevOf(s) ==
    CASE s[1] = "collection" -> flags[s[2]].rev
      [] s[1] = "cloud" -> cloud[s[2]].rev
      [] s[1] = "large" -> models[s[2]].rev
      [] s[1] = "terms" -> accepted[s[2]].rev
Shown(s) == s[2] \in CASE s[1] = "collection" -> Registered(flags)
                       [] s[1] = "cloud" -> Registered(cloud)
                       [] s[1] = "large" -> Registered(models)
                       [] s[1] = "terms" -> Registered(accepted)
Approve == \E s \in Subjects :
    /\ Shown(s) /\ Cardinality(granted) < MaxApprovals
    /\ granted' = granted \union {[subject |-> s, rev |-> RevOf(s)]}
    /\ UNCHANGED <<flags, cloud, accepted, models, spent, answer>>

\* FlagStore.transition and rollback.
BadFlagTransition(c, sensitive, expected, tok) ==
    /\ c \in Registered(flags)
    /\ sensitive # flags[c].sensitive /\ flags[c].rev < MaxRev
    /\ sensitive \/ tok = approval_for(c, expected)
    /\ flags' = [flags EXCEPT ![c] = [sensitive |-> sensitive, rev |-> @.rev + 1,
                                      hist |-> Append(@.hist, @.sensitive)]]
    /\ IF sensitive THEN Closes ELSE Opens(tok)
    /\ UNCHANGED <<cloud, accepted, models, granted, answer>>
FlagTransition(c, sensitive, expected, tok) ==
    /\ c \in Registered(flags) /\ expected = flags[c].rev
    /\ sensitive # flags[c].sensitive /\ flags[c].rev < MaxRev
    /\ sensitive \/ tok = approval_for(c, expected)
    /\ flags' = [flags EXCEPT ![c] = [sensitive |-> sensitive, rev |-> @.rev + 1,
                                      hist |-> Append(@.hist, @.sensitive)]]
    /\ IF sensitive THEN Closes ELSE Opens(tok)
    /\ UNCHANGED <<cloud, accepted, models, granted, answer>>

FlagRollback(c, expected, tok) ==
    /\ c \in Registered(flags) /\ expected = flags[c].rev
    /\ flags[c].hist # <<>> /\ flags[c].rev < MaxRev
    /\ LET depth == Len(flags[c].hist)
           back == flags[c].hist[depth]
       IN  /\ back \/ tok = approval_for(c, expected)
           /\ flags' = [flags EXCEPT ![c] = [sensitive |-> back, rev |-> @.rev + 1,
                                             hist |-> SubSeq(@.hist, 1, depth - 1)]]
           /\ IF back THEN Closes ELSE Opens(tok)
    /\ UNCHANGED <<cloud, accepted, models, granted, answer>>

CloudTransition(i, mode, expected, tok) ==
    /\ i \in Registered(cloud) /\ expected = cloud[i].rev
    /\ mode # cloud[i].mode /\ cloud[i].rev < MaxRev
    /\ mode = "off" \/ tok = opt_in_for(i, expected)
    /\ cloud' = [cloud EXCEPT ![i] = [mode |-> mode, rev |-> @.rev + 1]]
    /\ IF mode = "off" THEN Closes ELSE Opens(tok)
    /\ UNCHANGED <<flags, accepted, models, granted, answer>>

ModelTransition(i, mode, expected, tok) ==
    /\ i \in Registered(models) /\ expected = models[i].rev
    /\ mode # models[i].mode /\ models[i].rev < MaxRev
    /\ mode = "off" \/ tok = large_opt_in_for(i, expected)
    /\ models' = [models EXCEPT ![i] = [mode |-> mode, rev |-> @.rev + 1]]
    /\ IF mode = "off" THEN Closes ELSE Opens(tok)
    /\ UNCHANGED <<flags, cloud, accepted, granted, answer>>

\* A revoke is never refused: at the largest revision it writes in place.
ByomTransition(pair, t, expected, tok) ==
    /\ pair \in Registered(accepted) /\ expected = accepted[pair].rev
    /\ t # accepted[pair].terms
    /\ t = None \/ (tok = byom_approval_for(pair, t, expected) /\ expected < MaxRev)
    /\ accepted' = [accepted EXCEPT ![pair] =
          [terms |-> t, rev |-> IF @.rev = MaxRev THEN @.rev ELSE @.rev + 1]]
    /\ IF t = None THEN Closes ELSE Opens(tok)
    /\ UNCHANGED <<flags, cloud, models, granted, answer>>

\* The verdicts.  Whatever is not registered reads closed.
reads_sensitive(c) == c \notin Registered(flags) \/ flags[c].sensitive
reads_off(i) == i \notin Registered(cloud) \/ cloud[i].mode # "on"
model_reads_off(i) == i \notin Registered(models) \/ models[i].mode # "on"
CloudVerdict(i, c) == ~ reads_off(i) /\ ~ reads_sensitive(c)
Accepted(pair) == IF pair \in Registered(accepted) THEN accepted[pair].terms ELSE None

Answer(allowed, needs) ==
    /\ answer' = [allowed |-> allowed, needs |-> needs]
    /\ UNCHANGED <<flags, cloud, accepted, models, granted, spent>>
\* ByomStore.send with the terms the provider shows at this moment.
Send == \E i \in Installs, p \in Providers, c \in Collections, t \in Terms :
    Answer(CloudVerdict(i, c) /\ Accepted(<<i, p>>) = t,
           {<<"cloud", i>>, <<"collection", c>>, <<"terms", <<i, p>>, t>>})
\* LocalModels.verdict for the large tier on the desktop.
Invoke == \E i \in Installs : Answer(~ model_reads_off(i), {<<"large", i>>})

Transition == \E expected \in 0 .. MaxRev, tok \in granted \union {None} :
    \/ \E c \in Collections :
          \/ \E sensitive \in BOOLEAN : FlagTransition(c, sensitive, expected, tok)
          \/ FlagRollback(c, expected, tok)
    \/ \E i \in Installs, mode \in {"on", "off"} :
          CloudTransition(i, mode, expected, tok) \/ ModelTransition(i, mode, expected, tok)
    \/ \E pair \in Pairs, t \in Terms \union {None} : ByomTransition(pair, t, expected, tok)

GatesNext ==
    \/ RegisterFlag \/ RegisterCloud \/ RegisterProvider \/ RegisterModel
    \/ Approve \/ Transition \/ Send \/ Invoke
GatesSpec == GatesInit /\ [][GatesNext]_gatesVars
-----------------------------------------------------------------------------
IsOpen(s) ==
    CASE s[1] = "collection" -> ~ reads_sensitive(s[2])
      [] s[1] = "cloud" -> ~ reads_off(s[2])
      [] s[1] = "large" -> ~ model_reads_off(s[2])
      [] s[1] = "terms" -> Accepted(s[2]) = s[3]
OpenSubjects == {s \in Subjects : IsOpen(s)}

Promise == INSTANCE Consent WITH open <- OpenSubjects, given <- granted, used <- spent
\* The stores keep the promise of Consent: whatever requests arrive in whatever
\* order, nothing opens without an approval the user gave for it, and no
\* approval opens twice.
KeepsPromise == Promise!ConsentSpec

\* What is open was opened by the last change of its revision and by an approval
\* the user gave when shown the revision before it, so an approval of an older
\* state of affairs opens nothing.
OpenAsShown == \A s \in OpenSubjects :
    [subject |-> s, rev |-> RevOf(s) - 1] \in granted

\* An allowed send or invocation has every consent it needs at that moment: the
\* cloud, the collection and these terms, read through three stores.
AllowedWithConsent ==
    [][answer' # answer /\ answer'.allowed => answer'.needs \subseteq OpenSubjects]_gatesVars

\* The history of a flag is a way back: undoing everything that is on it
\* alternates between the two values and ends at sensitive.
WayBack == \A c \in Registered(flags) :
    LET path == Append(flags[c].hist, flags[c].sensitive)
    IN  path[1] /\ \A n \in 2 .. Len(path) : path[n] # path[n - 1]

\* Terms revoked at the largest revision stay revoked, and a revision never
\* moves past it or back.
EndOfRevisions ==
    [][\A pair \in Registered(accepted) :
         /\ accepted'[pair].rev \in accepted[pair].rev .. MaxRev
         /\ accepted[pair] = [terms |-> None, rev |-> MaxRev]
              => accepted'[pair] = accepted[pair]]_gatesVars

\* The stores are what Consent promises; what is allowed has every consent it
\* needs at that moment; the last revision of an acceptance is the end of it.
Consents == KeepsPromise /\ AllowedWithConsent /\ EndOfRevisions
=============================================================================
