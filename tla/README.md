# Formal models of openchess

This directory holds TLA+ specifications of the repository's stateful parts, the
TLC configurations that check them on small instances, and TLAPS proofs of the
properties that matter most for every instance. `PROJECT.json` lists the
components, the runs, the mutants, the source lines every definition stands for,
the hazards and the theorems.

## The system

openchess is a set of Python libraries for a chess position graph, the jobs that
build it, the import of games, the services around it and the contracts that pin
all of them. Nearly everything is synchronous and single-threaded, and there are no
sockets in the core. Its difficulty lies elsewhere:

* **state shared by several programs**: the queue state is changed by the queue
  engine, by the keyed engine and by the worker restart; the log by the WAL
  engine, the keyed engine, crash resume, the corruption scan and the rollback;
  one SQLite file by several publishers or importers. Each validates what it
  reads, knows nothing of the others and is called in any order;
* **callers with their own clocks**: every request carries its `now`, and nothing
  in the engines makes two requests agree about the time;
* **chains handed back by the caller**: limit and progress records, receipts,
  revisions and checkpoints live with the caller between two calls, and may be
  stale, repeated or somebody else's when they come back;
* **untrusted callbacks** in the middle of an operation (canonicalizers,
  fingerprinters, serializers, oracles, publishers), which may raise, lie or call
  back; the engines freeze their inputs before the call and commit last;
* **crashes** between the renames of a file import, the rows of a transaction, the
  erases of a deletion, and damage to what was stored;
* **merging**: users exchange versions, tables and differences in any order;
* **several modules that each own a part of one truth**: five modules know parts
  of the rules of chess, fifty contract lints pin the tables they are built from.

## Inventory

| Component | State | Operations | What makes it correct | Module |
|---|---|---|---|---|
| jobs queue, restart (`server/jobs_queue.py`, `jobs_restart.py`) | `{jobs, next_seq}` | enqueue, claim, ack, nack, restart | one lease at a time, attempts charged once, order kept, finished jobs final, no commit that is corrupt | `JobsQueue`, `JobsWorkers` |
| jobs idempotency (`jobs_idempotency.py`) | queue state and ledger | apply | one effect per key, receipts chained to the live state | `JobsIdempotency` |
| jobs limit (`jobs_limit.py`) | caller's last record | admit | rate bound, exact retry time, own records accepted | `JobsLimit` |
| retry, dead letter, cancel (`jobs_retry.py`, `jobs_dead_letter.py`, `jobs_cancel.py`) | none; copies of jobs | decide, bury, cancel | decisions on old copies agree with what the queue does later | `JobsPolicies` |
| jobs progress (`jobs_progress.py`) | caller's last record | report | monotone chain, honest share | `JobsProgress` |
| write-ahead log, crash resume, corruption scan, rollback (`store/`) | chained entries, a checkpoint | append, replay, resume, scan, rollback | exactly the damage goes, nothing durable is lost | `StoreLog`, `VersionedLog` |
| store idempotency (`store/idempotency.py`) | log and ledger | apply | one entry per key, receipts true of the log | `StoreIdempotency` |
| backup, restore, export (`store/`) | none; copies given away | backup, verify, restore, export | what was taken is what comes back | `StoreSnapshots` |
| migration (`store/migration.py`) | the caller's state | migrate | identities and source survive the oracle | `StoreMigration` |
| instrumentation (26 `*_instrument.py`) | trace, counter | wrap a call | the outcome is the engine's, a row per call | `Tracers` |
| control-plane client, reference server (`server/control_plane_client.py`, `tools/control_plane_mock.py`) | token, cache, reservations; tokens, records, units | session, quota and account operations, nested refresh, retries | client and server agree, one effect per call, no stale grant, units conserved | `ControlPlaneClient`, `ControlPlaneServer` |
| control-plane events (`control_plane_events.py`) | SQLite outbox | publish, hydrate, read | a stream of whole batches, each event once | `EventLedger`, `EventStream` |
| control-plane errors, versioning | none | classify; compare | no secret passes; compatible over many releases | `ControlPlaneErrors`, `ControlPlaneVersioning` |
| identity admission (`identity_admission.py`) | window counters | decide | capacity per window, counters exact | `IdentityAdmission` |
| version store, diff, conflict (`graph/`) | versions, states | insert, merge, compute, apply, detect | merges agree in any order, differences apply whole | `VersionStore`, `GraphChanges` |
| nodes, edges, opening contexts (`graph/`) | tables | insert, merge | one record per identity, moves deterministic | `GraphTables`, `OpeningContext` |
| chess rules (`ingest/pgn.py`, `tools/*_runtime.py`, `graph/fen.py`, `graph/en_passant.py`) | position, rights, target, clocks | play a move | the modules agree on every position of a game | `ChessMoves`, `ChessGame` |
| contract lints (50 in `tools/`) | contract files, loaded tables | edit, put back, sweep, import | what no lint pins is all that an edit can change in an engine | `ContractLints`, `ContractGate` |
| PGN import (`ingest/import_pgn.py`) | records, manifest, events | import, recover | every crash window reads as before or after | `ImportPgn` |
| PGN streams, SQLite import (`ingest/streaming.py`, `quarantine.py`) | buffers; rows, runs | read, cut; insert, commit, record | cuts do not matter, what is on record is stored | `GameStream`, `ImportDatabase` |
| incremental updates (`ingest/incremental.py`) | applied snapshots, manifest | ingest, record, publish | nothing on record is ingested again | `IncrementalUpdates` |
| privacy gates, deletion (`desktop/privacy/`) | four stores; a tombstone | set, roll back, send; delete, retry | nothing opens without consent, no data is forgotten | `PrivacyGates`, `Consent`, `PrivacyDelete` |
| approval gate (`brand/approval.py`) | proposals, approvals, audit | approve, commit | what is committed was approved, once, by authority of a user | `ApprovalGate` |

Provenance, redaction, deduplication, the downloader, the parsers, the statistics
and the scripts are under "Not modelled".

## How the modules stand for the code

**Jobs.** `JobsQueue` is the queue engine and the restart. A job's id is a hash of
its dedupe key, so `jobs` is a function from the keys enqueued so far; the list
order of the code is the order of `seq`; `expires = 0` is None. A rejected request
changes nothing, so it is a stuttering step, and any two steps may carry any two
times. `JobsWorkers` composes it with workers that share one advancing clock,
remember the receipts of their claims (`held`), report, hang, crash (`Crash` loses
`held`) and come back through the restart; the workers follow
`data/contracts/queue.yaml` and `restart.yaml`. `JobsIdempotency` adds the ledger
and calls that bypass it; state and request stand for their digests.
`JobsLimit` is one chain of the token bucket, whose free window (`spent`, `since`,
`latest`) makes a property of the window one of every window. `JobsPolicies`
composes the queue with the three decisions: `seen` is a copy of a job the caller
read some time ago, or one the queue never held, and the queue moves on.
`JobsProgress` lets reporters hand their records on, damage them and start anew.

**Store.** In `StoreLog` an entry id digests everything committed up to the
entry, so that chain stands for it. `ValidLength` is the linear search of crash
resume, `BinaryLength` the binary search of the scan, step by step. `acked` is
what the caller has made durable. `Crash` damages only what lies behind it, `Rot`
anything; damage is canonical (`Garbled`), outside the scan's domain (`Odd`) or
outside both (`Alien`), which the programs admit differently. `VersionedLog` is the
abstract promise, a history that grows by one operation or is cut;
`StoreLog!Versioned` is the refinement, damage being a cut, resume and scan
stuttering. `StoreIdempotency` adds the ledger, bare appends and rollbacks.
`StoreSnapshots` adds the copies given away, with a serializer and a parser that
answer anything and receipts that rot. `StoreMigration` splits `migrate` at every
call of the oracle, which may raise, answer anything and rewrite the caller's
objects. `Tracers` has the three styles of the 26 wrappers and lets calls overlap.

**Control plane.** `ControlPlaneServer` is the reference server as a function from
state and request to state and reply. `ControlPlaneClient` keeps a stack of calls:
a call waits for its transport, which may lose the request or the reply, and may
first run the refresh of the token. `EventLedger` runs the publishing transaction
statement by statement in several processes, with crashes before and after COMMIT
and a host that hydrates a ledger in memory; it implements `EventStream`
(`StreamPromise`). `IdentityAdmission` puts `decide` into the transaction its
contract asks of the caller. `ControlPlaneErrors` grows payload trees node by node, a tree
being a function from paths; `ControlPlaneVersioning` edits a draft and releases it
when `compare` accepts, a nested list of fields being a function from paths of names.

**Graph, chess, contracts.** `VersionStore` takes the address of a record as a
parameter, so that a run may make contents collide. `GraphChanges` sends
differences that may be altered or meant for another state. `GraphTables` keeps
buckets by a digest that may collide and an oracle that may fail; `OpeningContext`
merges tables filled under different editions of the registry. `ChessMoves` has the
code's definitions of "attacked" and of a legal move, side by side; `ChessGame` plays a
move on the import's board and reports it to every runtime, with the two validators
of positions beside it. `ContractLints` holds, for each of the fifty lints, the
sections it requires, those it pins and those it checks for form only, the
differences it does not see and the contracts and phrases it reads; a part of a
section the lint treats on its own counts as a section (`base_path`, the variant
`registry`). `ContractGate` edits files and puts them back, sweeps them, and imports
engines of one process with the engines these import; engines that cache at their
first call are loaded then, and those that open their contracts for every table
read again.

**Ingest, privacy, approval.** `ImportPgn` has one action per file operation of a
run, recovery included, and a process may die between any two. `GameStream` runs
both readers byte by byte and chunk by chunk. `ImportDatabase` has SQLite's one
writer, transactions that die with their process and the timeout of a lock.
`IncrementalUpdates` fails between any two of ingest, record and manifest.
`PrivacyGates` are the four stores with requests that are late, repeated or carry
another approval; it implements `Consent`. `PrivacyDelete` overlaps, fails and
interrupts the erases. In `ApprovalGate` the proposals change under the gate's eyes.
`Desktop` puts the last five side by side, `ImportDatabase` and `IncrementalUpdates`
among them: they share no state, and it states what they promise together.

Definitions named `Bad...` are faulty variants of the definition after them. No
specification uses one; they are what the mutants of `PROJECT.json` put in place of
the real definition.

## Runs

Components that share no state are checked side by side in one run: the variable
`part` of an `MC` module picks a component at the start, only that component's
actions are enabled, and the variables of the others stay as they began. The state
space is the sum of the parts', not their product. An `MC` module extends the
components whose properties are proved, and checks these as they stand there: in
another component's part their variables are as they began, where they hold too. The
properties an `MC` module states itself are conjunctions of the components' own
properties on one theme, each guarded by its part; the components state and explain
them one by one. The bounds of an extended component stand in the `.cfg`, those of an
instance with its `INSTANCE`. Symmetry is used where nothing tells the values apart:
the records of `store_engines`, each its own identity, and the version stores of
`graph`.

| Run | Parts and bounds | Shows |
|---|---|---|
| `jobs_queue` (`MCJobsQueue.cfg`) | 4 keys for 3 places, 2 workers, 2 priorities, 2 attempts, clock 0..3, leases 1..2 | state valid at every limit; attempts, order and finality under free clocks |
| `jobs_workers` (`JobsWorkers.cfg`) | 2 jobs, 2 workers, 2 attempts, leases 1..2, clock 0..10 | leases honoured and exclusive under crashes, restarts and late reports; every job is settled in the end |
| `jobs_requests` (`MCJobs.cfg`) | bucket of 3, refill 3, clock 0..23; 3 idempotency keys, 2 jobs, 2 foreign calls; jobs of 3 attempts; 3 decisions about one job; 2 reporters, chains of 2 | exactly-once effect and stale for ever; rate bound and exact retry; decisions agree with the queue; progress is monotone |
| `jobs_idempotency_repeats` | the same, receipts only | violation: a restart leaves repeats unanswered |
| `store_log_crash` (`MCStoreLogCrash.cfg`) | 3 records of 2 identities, 4 entries, crashes | nothing durable is lost, last writer wins, repair comes |
| `store_engines` (`MCStore.cfg`) | 2 records and 3 entries under rot and lies; 2 keys over the same; receipts that rot, of a log of 2 entries, two at most; 2 schemas, 3 records, 2 calls; 3 traced calls | exact repairs and refinement of `VersionedLog`; one commit per key; restores; migration; tracing |
| `store_idempotency_stale` | the keyed log only | violation: a stale receipt is replayed |
| `control_plane_client` (`MCControlPlaneClient.cfg`) | 2 accounts, 3 calls of 6 session operations, clock 0..4; 1 account, 4 calls over 2 units, clock 0..3; tokens of 3 ticks, 2 attempts | session, cache, events and quota under lost replies and nested refresh |
| `control_plane_services` (`MCControlPlane.cfg`) | 3 calls of the other operations; 2 publishers, 4 batches on disk, 6 in memory; 2 callers, 5 attempts, clock 0..3; payloads of depth 2; 3 edits, 3 releases | every call ends; the outbox is a stream of whole batches; admission exact; secrets refused; old clients work |
| `graph` (`MCGraph.cfg`) | 3 stores and 3 inserts, with and without collisions; 2 nodes and 4 edits; 2 users, 3 positions, 4 inserts; 2 editions, paths of 4; 4 positions, 2 moves; 50 contracts, one edit and one of 39 engines; 2 contracts, 3 edits, one at a time, and 3 imports of 4 engines | merges, differences, tables, contexts, rules of chess and contract gates |
| `ingest` (`MCIngest.cfg`) | 3 imports with 2 deaths, 2 fair ones; streams of up to 5 wide or 7 plain characters, chunks of 1, 2, 3 and 8; 2 processes, 3 runs, 1 death; 3 updates, 2 failures; gates with revisions to 3; 2 deleters, 4 calls; 2 proposals, 3 approvals, 3 commits | crash windows, convergence, chunking, database import, updates, consent, deletion, approval |
| `import_pgn_nul` | the import with a NUL in one game | violation: the store locks itself |

The properties of the runs and the parts they are made of:

| Property | Parts |
|---|---|
| `TypeOK`, `StateOK`, `AttemptsCharged`, `ClaimInOrder`, `Settled` | of `JobsQueue`, the queue alone |
| `LeasesHeld` | `WorkersTypeOK`, `LeaseHonoured`, `ExclusiveLease` of `JobsWorkers` |
| `LeasesEnd` | `LeaseEndsFirst` and the liveness property `EventuallySettled` of `JobsWorkers` |
| `KeyedOnce` | `IdemTypeOK`, `ExactlyOnce`, `KeyedOnlyValid`, `Chained` of `JobsIdempotency` |
| `BucketHonest` | `RateBounded`, `ChainAccepted`, `RetryExact` of `JobsLimit` |
| `DecisionsAgree` | `PoliciesAccept`, `GravesTrue`, `RetryHonoured`, `BackoffOrdered` of `JobsPolicies` |
| `PromisesKept` | the action properties `StaleForever` of `JobsIdempotency` and `DeadHonoured` of `JobsPolicies`; `ChainMonotone`, `IssuedHonest` of `JobsProgress` |
| `DurableReads`, `RepairsKeep` | `Durable`, `LastWriterState`; `DurableKept` and the liveness property `Heals` of `StoreLog` |
| `LogIntact`, `Versioned` | `LogTypeOK`, `AckedIntact` of `StoreLog`; the refinement of `VersionedLog` |
| `KeyedTrue` | `LedgerFollows`, `AnswersTrue` of `StoreIdempotency` |
| `StatesSurvive` | `CopiesTypeOK`, `DocumentsTrue`, `Restorable`, `RestoredAsTaken`, `OneStatePerHead` of `StoreSnapshots` |
| `TraceTrue` | `Neutral`, `RowPerCall`, `NumberedByPlace` of `Tracers` |
| `NothingRewritten` | the action properties `RepairExact` of `StoreLog`, `CommittedOnce` of `StoreIdempotency`, `SourceUntouched` of `StoreMigration`; at every moment its `MigrationTypeOK`, `IdentitiesKept`, `NotAppliedTwice` |
| `SessionSound`, `EffectsOnce` | `ClientTypeOK`, `SessionAgrees`, `CacheOwned`, `EventTruth`; `OneEffect`, `QuotaConserved`, all of `ControlPlaneClient` |
| `OutboxWhole`, `StreamPromise` (on disk) | `LedgerTypeOK`, `AckedWhole`, `ReadStays` of `EventLedger`; the refinement of `EventStream` |
| `AdmissionExact` | `LimitHeld`, `CountsExact`, `EffectOnce` of `IdentityAdmission` |
| `PayloadsSound` | `NothingHidden`, `RefusedForCause` of `ControlPlaneErrors` |
| `VersionsSound` | `OldClientsWork`, `VersionsOrdered` of `ControlPlaneVersioning` |
| `ServicesKept` | the liveness property `EveryCallEnds` of `ControlPlaneClient`; `OutboxWhole` of an `EventLedger` in memory, at every moment |
| `VersionsAgree`, `NeverOverwritten` | `OneLineage`, `MergesAgree` of `VersionStore`, under collisions too; its action property |
| `EditsWhole` | `RoundTrip`, `AppliedAsNamed`, `ConflictsExact` of `GraphChanges` |
| `TablesAgree` | `OneNodeEach`, `MovesDeterministic`, `EitherWayAlike`, `NothingRefusedUnduly` of `GraphTables` |
| `RulesAgree` | `AttacksAgree`, `MovesAgree`, `CastlingAgrees`, `RightsFollow`, `EpAgrees`, `GameRecordable`, `TokensUnique` of `ChessGame`; `OwnRegistry`, `NamesAtTheMove` of `OpeningContext` |
| `GatesHold` | `GateTypeOK`, `SweepHolds`, `GateHolds`, `EnginesAgree`, `OwnVerdictSuffices` of `ContractGate` |
| `ImportSound` | `IndexWhole`, `CleanStart`, `Converges`, `EventsTrail` of `ImportPgn` |
| `StreamsCut` (of `GameStream`) | `ChunksDoNotMatter`, `SameGames`, `OffsetsTrue`, `Accounted` |
| `RecordedTrue` (of `Desktop`) | `RecordedIsStored` of `ImportDatabase`; `RecordsTrue` of `IncrementalUpdates` |
| `UserDecides` (of `Desktop`) | `OpenAsShown`, `WayBack` of `PrivacyGates`; `NothingForgotten` of `PrivacyDelete`; `OneCommitPerApproval`, `AuthorityFromUser` of `ApprovalGate` |
| `NothingTakenBack` (of `Desktop`) | the action properties `FirstSeenStays` of `ImportDatabase`, `RecordedOnce` of `IncrementalUpdates`, `Irreversible` of `PrivacyDelete` |
| `Consents` | of `PrivacyGates`: the refinement of `Consent`, `AllowedWithConsent`, `EndOfRevisions` |
| `EveryRunEnds` | liveness of `ImportPgn` and `ImportDatabase`; the action property `CommittedStays` of `ImportPgn`; `Counted` of `ImportDatabase`, `NeverRefused` of `PrivacyDelete` |

Why these bounds are enough to see the hard cases. An attempt limit of two gives
a job a first lease, a second one and a death; three places and four keys reach
the full queue; a lease of two against a clock of three overruns it. In
`JobsWorkers` the clock moves only while a lease runs: at most 4 claims of at most
2 ticks, so the clock's bound of 10 is never reached and hides nothing. A log of
three or four entries has a first, a middle and a last one, each of which may be the
damaged one, and the binary search takes every branch. Two client attempts give a
lost request, a lost reply and a second try that meets the record of the first;
a token life of 3 against a clock of 4 runs out between them. A batch of three events
has repeats before and behind a contradiction. Three version stores are what it takes
for two orders of merging to differ. Two imports that die and a third that does not
reach every file the recovery can find. Revisions up to three with the largest one
included give the branch at the end of revisions. The two plies from each of four
positions include castling with every right, promotion with capture, a rook captured
at home, double steps with pins of either kind, and three knights with one target.

`CHECK_DEADLOCK FALSE` stands where the system really stops: all jobs settled,
a ledger that is stale, a bucket at the end of time, a log that holds an `Alien`,
bounded clocks and numbers of calls that have run out.

**Fairness.** `FairWorkersSpec` assumes that time passes while a lease runs, that
a crashed worker is brought back and that workers keep polling: that is what a
worker pool is. Reporting is not fair, a worker may hang for ever. `FairLogSpec`
assumes only that a resume is tried again and again; that it is *enabled* after
every crash is what `Heals` shows. The client's fairness says that an attempt ends,
with an answer or with the transport's timeout, and that the code after it runs.
A run of the file import goes on until it ends or dies; a statement of SQLite is
served or raises after the busy timeout. Nothing else is assumed fair: not the time
of the control plane, not new calls, not a death that does not come.

## What the code does and the contracts do not say

Three of these are checked as runs that end in a violation:

* `jobs_idempotency.yaml:96` promises that a repeated keyed request returns the
  identical receipt. The restart of a worker (`server/jobs_restart.py`) is a
  legal operation on the same state, writes no receipt, and makes the ledger
  stale: enqueue and claim by key, restart, repeat the claim, and the answer is
  `corrupt_ledger`. `StaleForever` shows that this is at least safe, since the
  engine never commits again.
* `idempotency.yaml:85` promises that a log rolled back past a receipt makes the
  stale ledger fail closed, *never replayed*. Entry ids are content addresses: if
  the same operation is appended again at the same place, without a key, the old
  id is back, the stale ledger validates and the receipt is replayed. The
  counterpart in `jobs_idempotency.yaml:97` states this exception. `AnswersTrue`
  shows what does hold: a replayed receipt is true of the log it is replayed
  against, prefix included.
* The import accepts a game with a NUL character (nothing in `ingest/pgn.py` looks
  for one) and commits it; `_validate_record` (`ingest/import_pgn.py:441`) refuses it
  as stored content, and with it every later run over the store.

The others were met while modelling and are kept here as statements; their
definitions stand in the modules where named:

* A commit of a reservation that took effect, with all its replies lost, leaves the
  reservation in the client's table; after its expiry the client answers a release
  itself, with success and the comment "expired: already released"
  (`server/control_plane_client.py:374`), although the units are spent
  (`ControlPlaneClient!ShortcutTruthful`).
* `backup.yaml:80` and `migration.yaml:84` promise one receipt for one input; both
  engines take the caller's callback at its word, so two calls may give two receipts
  (`StoreSnapshots!SameLogSameReceipt`, `StoreMigration!SameInputsSameReceipt`).
* Early-numbered wrappers take a row's number before the call: two calls that
  overlap carry the same one, against `tools/castling_instrument.py:39`
  (`Tracers!SeqIncreasing`).
* A second import of the same store removes in its recovery what the first has just
  renamed in, and the manifest then lists a record that is gone
  (`ingest/import_pgn.py:474`). `IndexWhole` therefore holds for one process.
* `iter_pgn_games_with_offsets` decodes each chunk on its own and counts decoded
  characters as bytes (`ingest/quarantine.py:78,89`). `SameGames` and `OffsetsTrue`
  therefore hold for one-byte characters only.
* A failure of an incremental update after its first snapshot leaves that snapshot
  on record and in no delta manifest, and two names of one content are ingested twice
  (`IncrementalUpdates!DeltasComplete`, `ContentOnce`).
* The variant validator refuses the stored en-passant target of a double step no
  pawn can answer, which `en_passant.yaml:49` says is stored (`ChessGame!StoredTargetRead`).
  `terminal_status` looks only at moves of its own runtime and calls a position
  checkmate in which a capture in passing is legal (`ChessGame!TerminalTrue`).
* The movetext scanner counts parentheses in comments of a variation
  (`ingest/pgn.py:258`).
* The legal-moves lint compares lists by `==`, so that `1.0` passes for `1` and the
  runtime's table indexes with a float (`ContractGate!NeverRaw`).
* What the contract lints do not pin (`ContractGate!Loose`). An entry of the variant
  registry need only be coherent (`tools/variant_contract_lint.py:448-477`), and the
  runtime loads what passes. In the control-plane contract no lint pins methods,
  paths, flags, fields and lists of operations, `self_destructive_operations` among
  them, though the client is built from all of these
  (`server/control_plane_client.py:68-94`). `base_path` is matched against a pattern;
  no engine reads it, and of the control plane's, a sibling's lint compares it.
* The collision lint looks for two phrases in the variant contract's
  `identity.hash_rule` (`tools/collision_contract_lint.py:290-300`) that the variant
  lint does not require: a rewording passes there and breaks here. The control-plane
  contract has the same relation to the lints of its siblings. `OwnVerdictSuffices`
  says that there is no third case.

## Proofs

TLC checks the instances above; the theorems hold for every value of the
constants. Each module of proofs extends the modules it is about;
`GraphChanges`, `GraphTables`, `VersionStore` and `ContractGate` end with their
own. The invariants were checked by TLC on small instances before they were
proved.

| Module | Theorems | Assumed |
|---|---|---|
| `JobsProofs` | `TypeCorrect`, `NeverCorrupt`, `SettledStays`, `EveryLeaseCharged`, `NoOvertaking`: all five properties of the queue | `QueueConstants` |
| | `CallersUseQueue`: `JobsWorkers` implements `JobsQueue`; `LeasesAreHeld`; `LeaseEndsBeforeNext`, the safety half of `LeasesEnd` | `QueueConstants` |
| | `KeyedExactlyOnce`; `StaleStays`, a part of `PromisesKept` | and `IdemConstants` |
| | `DecisionsStayTrue`; `GivenUpStays`, a part of `PromisesKept` | and `PolicyConstants` |
| | `ReportsStayHonest`, a part of `PromisesKept` | `ProgressConstants` |
| | `BucketStaysHonest`, with `RateLimited` | `LimitConstants` |
| `StoreProofs` | `LogStaysIntact`; `ImplementsVersionedLog`, the refinement of `VersionedLog` | `LogConstants` |
| | `ReadersGetDurable`; `DurableStays`, the safety half of `RepairsKeep` | and only crashes happen |
| | `RepairsAreExact`, a part of `NothingRewritten` | and no crashes happen |
| | `KeyedStaysTrue`; `KeysStayCommitted`, a part of `NothingRewritten` | `LogConstants` |
| | `CopiesSurvive` | `LogConstants` |
| | `MigrationsAreSound`, `SourceStaysUntouched`, parts of `NothingRewritten` | `MigrationConstants`; the second nothing |
| | `TracesAreTrue` of `Tracers` | nothing |
| `ControlPlaneProofs` | `AdmissionIsExact` | `AdmissionConstants` |
| | `SessionStaysSound`, `EffectsHappenOnce` | `ServerConstants`, `ClientConstants` |
| | `OutboxStaysWhole`, on disk and in memory | `LedgerConstants` |
| | `ImplementsStream`, the refinement of `EventStream` | and the ledger is on disk |
| | `PayloadsStaySound` | `ErrorsConstants` |
| | `VersionsStaySound` | `VersioningConstants` |
| `DesktopProofs` | `RecordedAlwaysTrue` | `DbConstants`, `UpdateConstants` |
| | `NothingIsTakenBack` | and `DeleteConstants` |
| | `StoresConsent`, with the refinement of `Consent` | `GatesConstants` |
| | `UserAlwaysDecides` | and `DeleteConstants` |
| | `ImportStaysSound` | `ImportConstants`, one importer, no NUL in a game |
| | `CommitsStay`, a part of `EveryRunEnds` | `ImportConstants`, one importer |
| | `StreamsStayCut` | `StreamConstants` |
| `GraphChanges` | `EditsStayWhole` | nothing |
| `VersionStore` | `StoresConverge`, `VersionsStay` | `StoreConstants`; nothing of `Address`, which may collide |
| `GraphTables` | `TablesStayEqual` | `TablesConstants`; nothing of `Digest`, which may collide |
| `ContractGate` | `GatesStayClosed` | `GateConstants` |

The assumptions on faults are those under which the runs check the same property:
bit rot may reach what is durable, and a crash may tear an entry behind the durable
position, which is a step of its own and no repair. In memory the outbox starts
with what the host hydrates, so `EventStream`, whose stream begins empty, is
promised on disk only.

**The queue.** `IInv` is `TypeOK` and `StateOK` together with the finiteness of
`jobs`: neither is inductive alone, because an attempt stays within its limit only
if leased jobs are well formed, and the capacity can be counted only on a finite
set. Every operation but enqueue *moves* jobs one by one (`JobMove`): each action
only makes such moves (`StepMoves`), and the invariant and the action properties
follow from the moves.

**Its callers.** Every step of the workers and of the keyed engine is a step of the
queue, so `IInv` carries over. `WorkersInv` adds that a worker which is down
remembers no claim and that a worker remembers one claim of a job: without the
first a restart could release a lease somebody counts on, without the second the
report of an old claim could settle a newer one. `KeyedInv` says that the state
the last receipt names is the present one or one that the queue has left for good
(`Precedes`): every effective request raises a measure on queue states, so no
state comes back, and a ledger that has become stale stays so.

**Decisions on copies.** The queue moves on while a copy is held, but a job keeps what
enqueue stored and its attempts only rise (`AttemptsRise`). `PolicyInv` says of each
copy, grave and retry decision what stays true of it under that: a copy never counts
more attempts than its job, so a burial or an exhausted decision, which needs the
limit, finds the job at the limit too, and a job at the limit stays there. That the
delay grows with the attempts is an induction over the attempts (`GrownGrows`).

**The rate limit.** The bound is not inductive, for it forgets the tokens left and
the part of a period that has passed. `LimitInv` counts in milliseconds: spending plus
tokens left, less the capacity, times the refill period is at most the time from
the window's begin to `updated_at`. A window that begins with a bucket not full
begins up to one period after `updated_at`, and the missing token pays for it.
`HonestInv` says that the record handed back is one the program may have issued and
that a denial in it is `Exact`: it names so many periods after `updated_at` as there
are tokens missing, by which the cost is covered then and not a millisecond before.

**The progress records.** A damaged record keeps its identifier, so what is held need
not be what was issued. `EndOf` says that it carries the identifier of the chain's last
report; a record that passes its check is then that report in every field
(`SameContent`), and the next report follows it.

**The log.** An entry is `Sound` if it rederives after the one in front of it. A
prefix replays if its entries are sound, the linear search finds the first entry
that is not (`ValidFound`) and the binary search finds the same place
(`BinaryFound`, the invariant of the search as an induction on the span). Each
operation is then known by what it does to single entries: a cut keeps them
(`CutStep`), damage makes one unsound and none sound (`DamageStep`), an append
under an honest canonicalizer adds a sound one (`AppendStep`). Two facts follow at
every step: the visible history grows by one operation or is cut, which is the
refinement, and a durable place that replays holds what was made durable there.
That the fold of replay is the last writer (`FoldIsLastWriter`) is an induction over
the history. **Keyed appends**: in a log that replays, an id spells the operations up
to its entry (`IdsSpellOps`), so a receipt with the id of an entry names that whole
history. `IdemInv` says of every receipt that it stands for the history its key was
committed with, and of every key that was committed that it has a receipt.

**Copies and migrations.** In a log that replays the head is the chain of the
operations (`TipIsChain`), and equal chains are of equal operations (`ChainTells`).
`SnapshotInv` says of everything issued that it is a `CopyOf` some history: head,
state, count and id are those of that history. One head is then one state, and no
field of a receipt can change under its id (`RottedIsRefused`). Of a migration under
way, `UnderWay` says that its frozen source is valid for the step and that what is
staged are frozen records under digests of the target, whatever the oracle has made
of the source meanwhile. That a migration is not applied twice rests on the digest
grammars of the two schemas of a step having no word in common, which
`MigrationConstants` assumes (`pdv1:` and `pdv2:` in `migration.yaml:33`).

**Admission.** `AdmissionInv` says of every bucket what its counter is worth
(`Tallied`): the effects in its window, with no effect in a later one; and of the one
open transaction, that it was counted from the counters still committed.

**The client and its server.** What the client may be told depends on what the server
has on record of a call whose replies were lost. `ClientInv` therefore says of every
call on the stack what the server knows of it: nothing of a call that waits for its
preflight or for a refresh on top of it (`CallsKnown`); of the call being sent, that it
took effect only if its record is found under the credential it will present next, and
that a record of a success hands out what the operation promises (`TopKnown`). A
request is handled in one of four ways (`HandleMoves`): refused, answered from the
state, answered from the record of its key, or performed and recorded. Only the last
changes the server, and only for a call that had no effect before; so effects happen
once, and an answer is true however late it is given. That no unit of quota is made or
lost is an equation every operation keeps (`UnitsMove`).

**The outbox.** `New`, the rows a batch adds, is a recursive function; what it
returns is proved by induction over the batch (`NewExact`): each event once, in
order, none that is stored. `FileInv` says of the rows that every one is valid and
no id stands twice; `CallsInv` says of each call which part of its batch it has
written, from which rows it started and that these cannot have changed while it
holds the write lock.

**The payloads.** The walk of `_value_ok` is a recursive function on the nodes of a
tree; that it has values at all is an induction on the length of paths, from the
longest one down (`WalkExists`). A node the walk passes has all nodes below it passed
(`WalkSound`), and a node it stops at has one below it that is at fault by itself
(`WalkComplete`). The invariant is only that the payload is a tree: that a node stands
below the root, and an element below a list, is what carries a verdict at the top
down to every secret. `ErrorsConstants` assumes no more of the seeds.

**The versions.** `compare` sees neighbours, and old clients rely on releases it never
compared: `VersionsSound` holds because what it asks is an order (`AdditiveIsOrder`,
`KeptIsOrder`). `ReleasesInv` says of every two releases of one major that the later
keeps what the earlier promised (`Kept`), and of any two that the later is not numbered
before the earlier; that what has only been added to is understood from either side is
a lemma about field lists (`AdditionsAreUnderstood`).

**The contract gates.** `GateInv` ties each verdict to the files it was about: while a
sweep is green no lint refuses the files as they are; an engine loaded behind one
holds what no lint refuses; a runtime holds what its own lint accepts, of its own
contract. Loading several engines at once keeps this (`LoadsWell`), whoever is loaded
already. What remains are facts about the fifty lints, read off their definitions one
by one (`EveryLint`, by `Kept`): which sections they check for form only (`Slack`), that
none compares or looks for what another leaves, but for the two cases above; and that
no engine reads a `base_path` (`ReadsNone`). What is wrong in an engine and no lint
refuses is then `Loose` (`WrongIsLoose`).

**The import of files.** Whatever a death leaves, every listed game has its file and no
game is listed twice (`StoreWhole`). How far a run has come tells what it has under its
hands (`Hands`): which file is under its `.tmp` name, which record waits for the
manifest that lists it, whether the manifest is still the one it has read. `Caught`
says that the index has, of the games the run has come past, the last version of
each; a new manifest keeps every other game (`NewIndexIs`), so that coming past one more
keeps this. `Told` counts the commits no event has told of: one while the run is about
to tell, and one for each death.

**The import database.** `DbInv` says that uncommitted rows are the writer's, who is
alone, and have keys no committed row has, so that a commit adds rows and changes
none; and that what a run has come past is committed or in its transaction, and
committed once the run is to be recorded (`Behind`). A step of one process is known
by what it makes of that process (`DbStep`), for it leaves the others as they are.

**The streams.** What a reader has yielded, followed by the games from the beginning of
its buffer on, are the games of the whole text (`CameTo`). A chunk moves the end of the
buffer and not its beginning (`TextGrows`); a cut moves the first game of the rest over
to what was yielded (`CutKeeps`), because the buffer shows the blank lines the text
has there; and what waits in the decoder when the file ends becomes one
replacement character, which begins no game (`LastGame`). That chunks do not matter to
the decoder is `DecodeSplit`: decoding may be interrupted anywhere if what it waits with
is carried over. With one-byte characters the second reader's buffer begins at `start`,
so that a game stands behind its leading newlines (`OffsetIs`).

**The updates.** What is ingested and not on record is the pin the run is at, and
that pin is not on record yet (`Owed`). So the record of a pin settles one ingest, and
every other ingest that is not on record was wasted by a failure, which is the count
of `RecordsTrue`.

**The privacy stores.** The subjects of the four stores are told apart by what is
shown of them. A step opens one subject, with an approval of the revision it has
(`Opening`), or gives an approval (`Granting`), or opens nothing (`Closing`); no
revision falls (`RevisionsRise`). Every handler makes one of these moves
(`GatesMoves`), and each move is a step of `Consent` or a stutter. `GatesInv` adds that
an approval which has opened its subject is older than the subject (`SpentIsOld`):
that is why a repeated request opens nothing. For `WayBack`, a change adds to a flag's
history the value it leaves and a rollback drops the one it returns to (`WayOf`).

**The deletion.** `CallsKnow` says of every call under way that the collection has its
tombstone, and that each store which still holds data is one the call has yet to erase
or has failed to: what a call writes as pending when it ends then forgets no store,
whatever other calls have written in between.

**The approval gate.** An approval that is waiting was given by somebody with
authority for that very content, and has not been used since
(`Waiting`); every commit in the audit used one that was so then (`Audited`).

**The tracers.** `ListOrLost` says that a trace which is no list holds no row, and
got there by losing them; `SeqAwaitsRow` that a number taken early is the place of the
row to come while its call is the only one in flight.

**The version stores.** A store is a `Lineage`: one root, every parent present and not
younger, and no set of versions in which each has a parent of the set, so that among
the versions a merge has still to take in there is one whose parents are there
(`SomeReady`). A merge therefore succeeds exactly if the two stores are `Compatible`,
that is, agree on the versions they share and on the root, and ends with their union
(`MergedIs`); that merging commutes and associates, refusals included, is then algebra
(`UnionsAgree`).

**The differences.** A difference is told identity by identity: what it says of one is
told by its records in the two states, or by their lack (`ComputeIs`). So to apply a
computed one gives back the target at every identity (`AppliedBack`), and one that was
altered on its way is carried out only if it does to the state what it names
(`AppliedIsNamed`). An edit changes an identity exactly if the two states tell
different things of it (`ChangedIs`), and two changes of one identity conflict exactly if
their results differ, whichever side is asked first (`KindIs`).

**The tables.** A table is no more than a set of records, filed by their keys
(`FiledBy`): records whose digests collide share a bucket and stay apart. To insert is
to add to the set (`OneMoreFiled`), to merge is to take the union (`NodesMerged`,
`EdgesMerged`) or to refuse. The invariant says that a user's nodes are those of the
positions met, and that of the edges none contradicts another (`Consistent`). Whether a
merge is refused then depends on the two sets alone, and that it comes to the same from
either side is the symmetry of a union.

**Induction.** The library's induction theorems take an operator as a parameter and
cannot be used; in its place stands `LeastNatural`, proved from the well-foundedness
of finite sets: a nonempty set of naturals has a least element. Every induction over
a log, a search, a batch or a merge here is the refutation of a least counterexample.
The folds over sets of `GraphTables` go up by subsets (`SubsetsUp`), from the same fact
about finite sets, and the delays of `JobsPolicies` by `UpTo`.

Only model-checked are:

* the liveness properties (`LeasesEnd`'s other half, `Heals`, `EveryCallEnds`, the runs
  of `EveryRunEnds`) and `NeverRefused`, which speaks of what is enabled: both out of
  the prover's reach;
* the rules of chess (`RulesAgree`): that two definitions of an attack agree is a
  question about the squares of one board, which TLC decides by going through them;
  the opening contexts are checked beside them;
* `Counted` of `ImportDatabase`, a sum over the recorded runs.

## Order of work

The modules were written in the order of the inventory: the queue with its callers,
the log with its copies, the control plane, the graph, the desktop. Each was checked
before anything was proved of it, and the proofs went by importance: what is stored
and given away first, then what is decided, then the contracts between releases.
Left are the opening contexts and `Counted`, which want an induction over merges and
over runs.

Recursion stands in recursive functions and folds throughout, so that every module can
be proved about.

## Not modelled

* **Shapes** of requests, grammars, depths and digests: a malformed request is
  refused and changes nothing. Wording of receipts, metrics, usage checks of command
  lines.
* **Callbacks that rewrite their arguments**, where the engine restores its inputs on
  every exit before it commits; what they *answer* is modelled where an answer can
  matter. `StoreMigration`, whose oracle reaches the caller's own objects, does model
  the rewriting.
* **An unflushed rollback** that a crash undoes: a rollback counts as durable.
* **Provenance** (`graph/provenance.py`): sets of sources that grow by union.
* **Redaction** (`desktop/privacy/redaction.py`), **the search for placements and
  secrets in one text** (`server/control_plane_errors.py:62-120`), **parsers** of FEN,
  PGN movetext, SAN, schemas and responses (`ingest/pgn.py`, `graph/fen.py`,
  `importers/`): pure functions of one string. The models take what they decide as a
  property of the text.
* **Deduplication and position index** (`ingest/dedup.py`, `positions.py`) and **the
  downloader** (`data/downloader.py`): one process, one transaction or one file.
* **Statistics** (`backtest/`): pure functions of a data set.
* **The tables the contract lints pin, and the fixture generators**
  (`tools/*_fixture_generate.py`): data. A generator has no input and one behaviour.
  Of a file's envelope only the control plane's `schema_version` is a section; that
  six graph lints let `1.0` pass for `1` there is left out, no engine reads it. An
  edit between the imports of an engine and of one it imports counts as one before
  both or after the engine needed.
* **Release and planning scripts** (`tools/lock_release.py`, `tools/dag.py`).
