------------------------------- MODULE MCStore -------------------------------
(***************************************************************************)
(* The programs of the store, on small instances in one run: the log and   *)
(* its repairs under crashes, or under rot and lies (StoreLog), keyed      *)
(* appends (StoreIdempotency), backups, exports and restores               *)
(* (StoreSnapshots), migrations (StoreMigration) and the tracers around    *)
(* all engines (Tracers).  `part` says which of them a behaviour is about; *)
(* the variables of the others stay as they began.  The properties of the  *)
(* modules this one extends are checked as they stand there.  Copies have  *)
(* a log of their own, trunk.                                              *)
(***************************************************************************)
EXTENDS StoreIdempotency, StoreSnapshots, Tracers, TLC

CONSTANTS
    Parts,       \* the parts a run explores
    a1, a2, b1,  \* node records
    Nothing

VARIABLES
    part,
    trunk, secured,                    \* the log of the copies
    source, request, phase, frozen, staged, receipts, answer, calls
                                       \* StoreMigration

\* Every record has an identity of its own: no record is told from another.
OwnIdentity == [r \in Records |-> r]
AnyRecord == Permutations(Records)
\* The records a1 and a2 are one position with two move counters.
SmallIdentity == [r \in {a1, a2, b1} |-> IF r = b1 THEN "b" ELSE "a"]

\* One copy of a rotting log, lying serializer and exporter, receipts that rot
\* or are forged; and two copies of a log that is appended to, rots and is cut
\* between them.
Copies ==
    INSTANCE StoreSnapshots WITH
        log <- trunk, acked <- secured, MaxLog <- 2, Faults <- {"rot"},
        MaxIssued <- 1, Liars <- {"serializer", "exporter"}
Heads ==
    INSTANCE StoreSnapshots WITH
        log <- trunk, acked <- secured, MaxLog <- 2, Faults <- {"rot"},
        MaxIssued <- 2, Liars <- {}

\* Two migrations; the caller adopts results; the oracle meddles.
Migration ==
    INSTANCE StoreMigration WITH
        Keys <- {"a", "b"},
        Snap <- ("a" :> {"a1", "a2"}) @@ ("b" :> {"b1"}),
        Digests <- {"pdv1", "pdv2x", "pdv2y", "odd"},
        Schemas <- {"store-v1", "store-v2"},
        Grammar <- ("store-v1" :> {"pdv1"}) @@ ("store-v2" :> {"pdv2x", "pdv2y"}),
        Steps <- {<<"store-v1", "store-v2">>}, MaxCalls <- 2

ASSUME LogConstants
ASSUME Migration!MigrationConstants

logVars == <<log, acked>>
trunkVars == <<trunk, secured>>
keyVars == <<ledger, origin, undone>>
moveVars == <<source, request, phase, frozen, staged, receipts, answer, calls>>
storeVars == <<part, logVars, trunkVars, keyVars, issued, moveVars, tracerVars>>

\* Only one part begins in more than one state at a time.
StoreInit ==
    /\ part \in Parts
    /\ IdemInit
    /\ Copies!SnapshotInit
    /\ Migration!MigrationInit
    /\ part # "migration" => source = [k \in {} |-> Nothing]
    /\ TracersInit
    /\ part # "tracers" => tracer = CastlingTracer

StoreNext ==
    /\ UNCHANGED part
    /\ \/ /\ part = "log"
          /\ LogNext
          /\ UNCHANGED <<trunkVars, keyVars, issued, moveVars, tracerVars>>
       \/ /\ part = "keyed"
          /\ IdemNext
          /\ UNCHANGED <<trunkVars, issued, moveVars, tracerVars>>
       \/ /\ part = "copies"
          /\ Copies!SnapshotNext
          /\ UNCHANGED <<logVars, keyVars, moveVars, tracerVars>>
       \/ /\ part = "heads"
          /\ Heads!SnapshotNext
          /\ UNCHANGED <<logVars, keyVars, moveVars, tracerVars>>
       \/ /\ part = "migration"
          /\ Migration!MigrationNext
          /\ UNCHANGED <<logVars, trunkVars, keyVars, issued, tracerVars>>
       \/ /\ part = "tracers"
          /\ TracersNext
          /\ UNCHANGED <<logVars, trunkVars, keyVars, issued, moveVars>>

StoreSpec == StoreInit /\ [][StoreNext]_storeVars

\* The fairness of FairLogSpec.
Resumed ==
    /\ part = "log"
    /\ Resume
    /\ UNCHANGED <<part, trunkVars, keyVars, issued, moveVars, tracerVars>>
FairStoreSpec == StoreSpec /\ WF_storeVars(Resumed)

-----------------------------------------------------------------------------
\* No step rewrites what it should keep: a repair cuts exactly the damage
\* (StoreLog), a key is committed once (StoreIdempotency), a migration leaves its
\* source as it was, keeps every identity and is not applied to what it handed out
\* (StoreMigration).
NothingRewritten ==
    /\ RepairExact
    /\ CommittedOnce
    /\ Migration!SourceUntouched
    /\ [](part = "migration" => Migration!MigrationSound)
=============================================================================
