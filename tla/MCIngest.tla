------------------------------- MODULE MCIngest -------------------------------
(***************************************************************************)
(* Ingest, privacy and the approval gate on small instances in one run:    *)
(* the readers of a stream (GameStream) and the six components of Desktop. *)
(* `part` says which of them a behaviour is about; the variables of the    *)
(* others stay as they began.                                              *)
(***************************************************************************)
EXTENDS Desktop, GameStream

CONSTANT Parts   \* the parts a run explores

ASSUME DesktopConstants /\ StreamConstants

VARIABLE part

-----------------------------------------------------------------------------
\* Files to import: one game in two versions, a bad game, no game.
a1 == [gid |-> "a", content |-> 1]
a2 == [gid |-> "a", content |-> 2]
b1 == [gid |-> "b", content |-> 1]
bad == [gid |-> "bad", content |-> 0]
FilesToImport == {<<a1, b1>>, <<a1, a2>>, <<a2, a1, b1>>, <<b1, bad>>, <<>>}

\* Runs of one process that dies anywhere; two runs that are fair; and for a run of
\* its own a game with a NUL character.
FairImport == INSTANCE ImportPgn WITH MaxImports <- 2, MaxDeaths <- 1
WithNul == {b1}

\* Streams of characters, newlines and brackets, with two-byte and broken
\* characters or with one-byte characters only.
Streams(chars, len) ==
    {FlattenSeq(s) : s \in UNION {[1 .. n -> chars] : n \in 0 .. len}}
SmallFiles == Streams({<<"n">>, <<"[">>, <<"c1", "c2">>, <<"c1">>}, 5)
    \union Streams({<<"n">>, <<"[">>, <<"x">>}, 7)
    \union {<<"x", "n", "n", "[", "x", "n", "n", "n", "[", "x">>}

\* Two processes import into one database, three runs, one death, a commit after
\* every second game; and one fair run each.
GameFiles == {[source |-> "f", games |-> <<"a", "b", "c", "a", "e">>],
              [source |-> "g", games |-> <<"b", "d">>]}
FairDatabase ==
    INSTANCE ImportDatabase WITH Limits <- {Nothing}, MaxRuns <- 2, MaxCrashes <- 0

\* Lists of pinned snapshots.
PinAs(id, sha) == [id |-> id, sha |-> sha]
SmallPinLists ==
    {<<PinAs("a", 1), PinAs("b", 2)>>,
     <<PinAs("a", 1), PinAs("a", 3), PinAs("c", 4)>>,
     <<PinAs("b", 5), PinAs("a", 1)>>}

-----------------------------------------------------------------------------
\* The deletion: three stores.  The approvals: a grant that expires, one that was
\* not given by the user, one for a destructive action.
ThreeStores == <<"content", "index", "ciphertext">>
Grant(grantee, by, action, scope, capability, expires) ==
    [grantee |-> grantee, by |-> by, action |-> action, scope |-> scope,
     capability |-> capability, expires |-> expires]
Said(action, on, after) == [action |-> action, target |-> on, after |-> after]
Registry == [u |-> "user", r |-> "reviewer", s |-> "service"]
SmallGrants ==
    <<Grant("r", "u", "rename", "games/*", "user-data-write", 1),
      Grant("s", "r", "rename", "games/*", "user-data-write", 9),
      Grant("s", "u", "delete_game", "games/*", "user-data-destructive", 9)>>
SmallContents ==
    {Said("rename", "games/1", 1), Said("rename", "other", 1),
     Said("delete_game", "games/1", 0)}
GamesCovered == {<<"games/*", "games/1">>}

-----------------------------------------------------------------------------
privacyVars == <<gatesVars, deleteVars, gateVars>>
ingestVars == <<part, importVars, streamVars, dbVars, updateVars, privacyVars>>

\* Only one part begins in more than one state at a time.
IngestInit ==
    /\ part \in Parts
    /\ ImportInit
    /\ StreamInit /\ (part # "streams" => file = <<>> /\ size = 1)
    /\ DbInit
    /\ UpdateInit
    /\ GatesInit
    /\ DeleteInit
    /\ GateInit
    /\ part # "approval" => says = [p \in {"p", "q"} |-> Said("rename", "games/1", 1)]

OnImport == UNCHANGED <<streamVars, dbVars, updateVars, privacyVars>>
OnStream == UNCHANGED <<importVars, dbVars, updateVars, privacyVars>>
OnDatabase == UNCHANGED <<importVars, streamVars, updateVars, privacyVars>>
OnUpdates == UNCHANGED <<importVars, streamVars, dbVars, privacyVars>>
OnPrivacy == UNCHANGED <<importVars, streamVars, dbVars, updateVars>>

IngestNext ==
    /\ UNCHANGED part
    /\ \/ part = "import" /\ ImportNext /\ OnImport
       \/ part = "import_live" /\ FairImport!ImportNext /\ OnImport
       \/ part = "streams" /\ StreamNext /\ OnStream
       \/ part = "database" /\ DbNext /\ OnDatabase
       \/ part = "database_live" /\ FairDatabase!DbNext /\ OnDatabase
       \/ part = "updates" /\ UpdateNext /\ OnUpdates
       \/ part = "gates" /\ GatesNext /\ OnPrivacy /\ UNCHANGED <<deleteVars, gateVars>>
       \/ part = "deletion" /\ DeleteNext /\ OnPrivacy /\ UNCHANGED <<gatesVars, gateVars>>
       \/ part = "approval" /\ GateNext /\ OnPrivacy /\ UNCHANGED <<gatesVars, deleteVars>>

IngestSpec == IngestInit /\ [][IngestNext]_ingestVars

\* A run of an import goes on until it ends or dies; a statement of SQLite is
\* served or raises.
RunGoesOn == part = "import_live" /\ FairImport!ImportStep("p1") /\ OnImport /\ UNCHANGED part
FirstGoesOn == part = "database_live" /\ FairDatabase!Step("p") /\ OnDatabase /\ UNCHANGED part
SecondGoesOn == part = "database_live" /\ FairDatabase!Step("q") /\ OnDatabase /\ UNCHANGED part
FairIngestSpec ==
    /\ IngestSpec
    /\ WF_ingestVars(RunGoesOn)
    /\ WF_ingestVars(FirstGoesOn)
    /\ WF_ingestVars(SecondGoesOn)

-----------------------------------------------------------------------------
\* Every run of the two imports that does not die ends, what an import of files
\* commits stays committed, the counts of two importers into the database add up,
\* and a deletion the user decided (PrivacyDelete) can always begin.
EveryRunEnds ==
    /\ [](part = "deletion" => NeverRefused)
    /\ CommittedStays
    /\ [](part = "database" => Counted)
    /\ part = "import_live" /\ import["p1"].pc # "idle" ~> import["p1"].pc = "idle"
    /\ \A p \in {"p", "q"} :
         part = "database_live" /\ run[p].pc # "idle" ~> run[p].pc = "idle"
=============================================================================
