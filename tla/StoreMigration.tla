--------------------------- MODULE StoreMigration ---------------------------
(***************************************************************************)
(* MigrationEngine.migrate (store/migration.py): one registered schema     *)
(* step over a state of the store.  The source and the request are the     *)
(* caller's objects and the target oracle, which the caller also provides, *)
(* is called once per record in the middle of the work: it may raise,      *)
(* answer anything and rewrite the objects it can reach.                   *)
(*                                                                         *)
(* A state maps an identity to [snap, digest], where the identity follows  *)
(* from the snapshot (graph.node).  A state digest stands for the state.   *)
(***************************************************************************)
EXTENDS Integers, FiniteSets

CONSTANTS
    Keys,         \* identities
    Snap,         \* Snap[k]: the snapshots (with variant) of identity k
    Digests,      \* digests, of any schema or of none
    Schemas,      \* the schemas of the registry
    Grammar,      \* Grammar[s]: the digests in the grammar of schema s
    Steps,        \* the registered <<from, to>>
    MaxCalls,     \* bound: calls of migrate
    Nothing

Snaps == UNION {Snap[k] : k \in Keys}
Record == [snap : Snaps, digest : Digests]
SchemaStates == UNION {[D -> Record] : D \in SUBSET Keys}
Requests == [from : Schemas, to : Schemas, source_id : SchemaStates]

MigrationConstants ==
    /\ \A k, l \in Keys : k # l => Snap[k] \intersect Snap[l] = {}
    /\ Steps \subseteq Schemas \X Schemas
    /\ \A s \in Schemas : Grammar[s] \subseteq Digests
    /\ \A step \in Steps : Grammar[step[1]] \intersect Grammar[step[2]] = {}

VARIABLES
    source,    \* the caller's state
    request,   \* the caller's request
    phase,     \* "idle", "oracle" while the staged copy is built, "answered"
    frozen,    \* [request, source] as migrate read them
    staged,    \* the staged copy
    receipts,  \* history: the receipts returned, with their states
    answer,    \* what the last call answered
    calls

migrationVars ==
    <<source, request, phase, frozen, staged, receipts, answer, calls>>

\* _record_ok for every record of a state.
Valid(state, schema) ==
    \A k \in DOMAIN state :
        state[k].snap \in Snap[k] /\ state[k].digest \in Grammar[schema]

MigrationInit ==
    /\ source \in {s \in SchemaStates : \E schema \in Schemas : Valid(s, schema)}
    /\ request = Nothing /\ phase = "idle" /\ frozen = Nothing
    /\ staged = Nothing /\ receipts = {} /\ answer = "none" /\ calls = 0

\* The caller writes a request, or one of the states it was handed becomes the
\* state it holds.
Prepare(r) ==
    /\ phase = "idle" /\ request' = r /\ r # request
    /\ UNCHANGED <<source, phase, frozen, staged, receipts, answer, calls>>
Adopt(receipt) ==
    /\ phase = "idle" /\ source' = receipt.state /\ source' # source
    /\ UNCHANGED <<request, phase, frozen, staged, receipts, answer, calls>>

\* The refusals before the source is looked at by anybody else.
Refusal(r, s) ==
    IF <<r.from, r.to>> \notin Steps THEN "unknown_migration"
    ELSE IF ~ Valid(s, r.from) THEN "malformed_migration_record"
    ELSE IF r.source_id # s THEN "conflicting_source"
    ELSE "none"

Migrate ==
    /\ phase = "idle" /\ request # Nothing /\ calls < MaxCalls
    /\ calls' = calls + 1
    /\ LET refusal == Refusal(request, source)
       IN  IF refusal # "none"
           THEN /\ answer' = refusal
                /\ UNCHANGED <<phase, frozen, staged>>
           ELSE /\ phase' = "oracle"
                /\ frozen' = [request |-> request, source |-> source]
                /\ staged' = [k \in {} |-> Nothing]
                /\ UNCHANGED answer
    /\ UNCHANGED <<source, request, receipts>>

\* What a call of the oracle may do to the objects it can reach.
Meddle ==
    \/ UNCHANGED <<source, request>>
    \/ \E k \in DOMAIN source, d \in Digests :
          source' = [source EXCEPT ![k].digest = d] /\ UNCHANGED request
    \/ \E k \in DOMAIN source :
          /\ source' = [l \in DOMAIN source \ {k} |-> source[l]]
          /\ UNCHANGED request
    \/ request' = Nothing /\ UNCHANGED source

\* One call of the oracle for the next key, in their order, that answers a
\* digest of the target schema.
Call(k, d) ==
    /\ phase = "oracle" /\ k \in DOMAIN frozen.source \ DOMAIN staged
    /\ d \in Grammar[frozen.request.to]
    /\ staged' = [l \in DOMAIN staged \union {k} |->
          IF l = k THEN [frozen.source[k] EXCEPT !.digest = d] ELSE staged[l]]
    /\ Meddle
    /\ UNCHANGED <<phase, frozen, receipts, answer, calls>>

\* finally: the caller's objects are put back.
BadPutBack == UNCHANGED <<source, request>>
PutBack == source' = frozen.source /\ request' = frozen.request

\* The oracle raises or answers no digest of the target schema.
Diverges ==
    /\ phase = "oracle" /\ DOMAIN staged # DOMAIN frozen.source
    /\ phase' = "idle" /\ answer' = "divergent_target"
    /\ PutBack
    /\ staged' = Nothing /\ frozen' = Nothing
    /\ UNCHANGED <<receipts, calls>>

Commit ==
    /\ phase = "oracle" /\ DOMAIN staged = DOMAIN frozen.source
    /\ Valid(staged, frozen.request.to)
    /\ phase' = "idle" /\ answer' = "migrated"
    /\ receipts' = receipts \union
          {[from |-> frozen.request.from, to |-> frozen.request.to,
            source_id |-> frozen.request.source_id, target_id |-> staged,
            state |-> staged]}
    /\ PutBack
    /\ staged' = Nothing /\ frozen' = Nothing
    /\ UNCHANGED calls

\* The caller does not interfere while the oracle is called.
MigrationNext ==
    \/ \E f, t \in Schemas, s \in {source} \union {r.state : r \in receipts}
                                    \union {[k \in {} |-> Nothing]} :
          Prepare([from |-> f, to |-> t, source_id |-> s])
    \/ \E receipt \in receipts : Adopt(receipt)
    \/ Migrate
    \/ \E k \in Keys, d \in Digests : Call(k, d)
    \/ Diverges
    \/ Commit

MigrationSpec == MigrationInit /\ [][MigrationNext]_migrationVars
-----------------------------------------------------------------------------
\* Between calls the caller's state is one of the store's, and a receipt names
\* a registered step.
MigrationTypeOK ==
    /\ phase = "idle" => \E schema \in Schemas : Valid(source, schema)
    /\ \A r \in receipts : <<r.from, r.to>> \in Steps

\* A migration, accepted, refused or broken off by its oracle, leaves the
\* caller's state and request as they were when it began, whatever the oracle
\* did to them (migration.yaml "atomic").
SourceUntouched ==
    [][phase = "oracle" /\ phase' = "idle" =>
          source' = frozen.source /\ request' = frozen.request]_migrationVars

\* The state handed out is the source record for record under new digests: the
\* same identities, each with the snapshot it had, although the oracle rewrites
\* the source while it is asked about it.
IdentitiesKept ==
    \A r \in receipts :
        /\ DOMAIN r.state = DOMAIN r.source_id
        /\ Valid(r.source_id, r.from) /\ Valid(r.state, r.to)
        /\ \A k \in DOMAIN r.state : r.state[k].snap = r.source_id[k].snap

\* A migration is not applied twice: no receipt but that of the empty state is
\* about what another receipt of its step has handed out (a retry after the
\* caller took over the result).
NotAppliedTwice ==
    \A q, r \in receipts :
        q.from = r.from /\ DOMAIN q.state # {} => r.source_id # q.state

\* What a migration answers is true of the source it was asked about.
MigrationSound == MigrationTypeOK /\ IdentitiesKept /\ NotAppliedTwice

\* "deterministic: same-inputs-same-receipt" (migration.yaml).
SameInputsSameReceipt ==
    \A q, r \in receipts :
        q.from = r.from /\ q.to = r.to /\ q.source_id = r.source_id => q = r
=============================================================================
