-------------------------- MODULE ContractGate --------------------------
(* Contract files, the sweep of lints the tests run over them, and a       *)
(* process whose engines build their tables from them when they are        *)
(* imported.  Four runtimes lint the very document they then read; the     *)
(* provenance engine lints the file and reads it again; all the others     *)
(* trust the sweep.  Files are edited and put back at any time, so engines *)
(* of one process may have read different ones.                            *)
EXTENDS ContractLints, FiniteSets, Naturals, TLAPS

CONSTANTS
    Edited,     \* the contracts whose files are edited
    Imported,   \* the engines the process may import
    MaxDrift,   \* bound on the deviations at one time
    MaxEdits,   \* bound on the edits
    MaxLoaded,  \* once so many engines are loaded, nothing more happens
    NONE        \* no engine

GateConstants ==
    /\ Edited \subseteq Contracts
    /\ MaxDrift \in Nat /\ MaxEdits \in Nat /\ MaxLoaded \in Nat

VARIABLES
    drift,      \* the deviations in the files
    edits,      \* the number of edits so far
    sweep,      \* what the last run of all lints over these files said
    linted,     \* the engine that has linted its file and not yet read it
    loaded      \* the engines loaded, with the deviations of their tables and
                \* whether the files they read had passed the sweep

vars == <<drift, edits, sweep, linted, loaded>>

\* The sections an engine builds its tables from.
StoreReads ==
  [wal |-> Of("wal", {"record", "identifiers", "registry"}),
   backup |-> Of("backup", {"identifiers", "record"}),
   corruption |-> Of("corruption", {"identifiers"}),
   rollback |-> Of("rollback", {"identifiers"}),
   crash_resume |-> Of("crash_resume", {"identifiers", "request"}),
   export |-> Of("export", {"request"}),
   migration |-> Of("migration", {"identifiers", "registry"}),
   restore |-> Of("restore", {"record"}),
   idempotency |-> Of("idempotency", {"identifiers", "record"})]

JobReads ==
  LET queue == {"identifiers", "state"}
  IN  [jobs_queue |-> Of("queue", queue \union {"request"}),
       jobs_cancel |-> Of("queue", queue) \union
         Of("cancel", {"identifiers", "links", "record", "request"}),
       jobs_dead_letter |-> Of("queue", queue) \union
         Of("dead_letter", {"identifiers", "links", "record", "request"}),
       jobs_restart |-> Of("queue", queue) \union
         Of("restart", {"identifiers", "links", "record", "request"}),
       jobs_retry |-> Of("retry", {"identifiers", "request"}),
       jobs_limit |-> Of("limit", {"identifiers", "record", "request"}),
       jobs_progress |-> Of("progress", {"identifiers", "record", "request"}),
       jobs_idempotency |-> Of("jobs_idempotency",
         {"failures", "identifiers", "record", "request"}),
       control_plane_client |-> Of("control_plane",
         {"account", "calls", "errors", "operations", "recovery", "route"})]

PrivacyReads ==
  [byom |-> Of("byom", {"identifiers", "links", "record"}) \union
            Of("sensitive_flag", {"identifiers"}),
   cloud_off |-> Of("cloud_off", {"identifiers", "links", "record"}) \union
                 Of("sensitive_flag", {"identifiers"}),
   delete |-> Of("delete", {"identifiers", "record"}),
   local_model |-> Of("local_model", {"identifiers", "record"}),
   redaction |-> Of("redaction", {"request"}),
   sensitive_flag |-> Of("sensitive_flag", {"identifiers", "record"})]

ImportReads ==
  [import_pgn |-> Of("import",
     {"failure_mapping", "record", "scenarios", "sources"}),
   rights |-> Of("import", {"sources"}),
   lichess |-> Of("lichess_response",
     {"endpoint", "error_envelope", "failure_mapping", "game_object",
      "request"})]

\* What parse_fen and emit_fen take from the contract they are given, and what
\* the digest and the tables of nodes and edges make identities from.
FenReads ==
  Of("fen", {"active_color", "board", "castling", "counters", "en_passant",
             "failure_mapping", "fields", "placement", "position_rules"})
IdentityReads ==
  FenReads \union Of("variant", {"identity", "registry"}) \union
  Of("en_passant", {"capture", "target"}) \union
  Of("position_digest", {"digest"})

\* fen and position_digest read at their first call and keep what they read.
GraphReads ==
  [en_passant |-> Of("en_passant",
     {"capture", "failure_mapping", "target", "turn_linkage"}),
   fen |-> Of("castling", {"rights"}) \union Of("en_passant", {"target"}),
   position_digest |->
     IdentityReads \union Of("position_digest", {"failures"}),
   conflict |-> Of("conflict", {"failures"}) \union
                Of("position_digest", {"digest"}) \union
                Of("transposition_node", {"record"}),
   provenance |-> Of("provenance",
       {"errors", "failures", "record", "source_entry", "targets"}) \union
     Of("import", {"sources"}) \union Of("variant", {"registry"}) \union
     Of("legal_moves", {"move_model"}),
   transposition_node |->
     IdentityReads \union Of("transposition_node", {"failures", "record"}),
   route_edge |-> IdentityReads \union
     Of("transposition_node", {"failures", "record"}) \union
     Of("route_edge", {"failures", "record"}) \union
     Of("legal_moves", {"move_model"}),
   opening_context |-> Of("variant", {"registry"})]

RuntimeReads ==
  [castling |-> Of("castling",
     {"identity", "loss", "move", "rights", "turn_linkage"}),
   legal_moves |-> Of("legal_moves", {"move_model", "movement"}),
   turn |-> Of("turn",
     {"errors", "failure_mapping", "state", "termination", "transition"}),
   variant |-> Of("variant", {"errors", "registry"})]

\* One name per engine: the runtimes share names with graph and privacy code.
Runtimes == {"runtime"} \X DOMAIN RuntimeReads
StoreEngines == {"store"} \X DOMAIN StoreReads
Engines ==
  Runtimes \union StoreEngines \union
  ({"graph"} \X DOMAIN GraphReads) \union
  ({"job"} \X DOMAIN JobReads) \union
  ({"privacy"} \X DOMAIN PrivacyReads) \union
  ({"import"} \X DOMAIN ImportReads)

Reads(e) ==
  CASE e[1] = "runtime" -> RuntimeReads[e[2]]
    [] e[1] = "graph" -> GraphReads[e[2]]
    [] e[1] = "store" -> StoreReads[e[2]]
    [] e[1] = "job" -> JobReads[e[2]]
    [] e[1] = "privacy" -> PrivacyReads[e[2]]
    [] e[1] = "import" -> ImportReads[e[2]]

\* Engines that lint the file and then open it again.
Files == {<<"graph", "provenance">>}

\* Engines that open their contracts again for every table they make.
PerCall == {"graph"} \X {"transposition_node", "route_edge", "opening_context"}

\* Engines and the engines their modules import.
Variant == <<"runtime", "variant">>
Wal == <<"store", "wal">>
Uses ==
  ((StoreEngines \union {<<"graph", "conflict">>, <<"graph", "provenance">>})
      \X {Variant})
    \union ((StoreEngines \ {Wal, <<"store", "migration">>}) \X {Wal})
    \union {<< <<"store", "restore">>, <<"store", "backup">> >>,
            << <<"graph", "route_edge">>, <<"graph", "transposition_node">> >>,
            << <<"job", "jobs_idempotency">>, <<"job", "jobs_queue">> >>,
            << <<"privacy", "byom">>, <<"privacy", "cloud_off">> >>,
            << <<"import", "import_pgn">>, <<"import", "rights">> >>}
Needs(e) == {f \in Engines : <<e, f>> \in Uses}

\* The tables the legal-moves runtime adds to the coordinates of a square.
Offsets == Of("legal_moves", {"movement"})

Place(d) == <<d.contract, d.section>>
Seen(e) == {d \in drift : Place(d) \in Reads(e)}
Built(e) == [tables |-> Seen(e), trusted |-> sweep = "green"]

Refused(c) == \E d \in drift : Refuses(c, d)
-----------------------------------------------------------------------------
Init ==
  /\ drift = {} /\ edits = 0 /\ sweep = "green"
  /\ linted = NONE /\ loaded = [e \in {} |-> NONE]

\* The process has engines to load.
Importing == Cardinality(DOMAIN loaded) < MaxLoaded

\* Somebody changes a contract file, or puts it back as it was; what the sweep
\* said no longer counts.
AllEdits == UNION {Deviations(c) : c \in Edited}
Edit ==
  /\ Importing /\ edits < MaxEdits
  /\ Cardinality(drift) < MaxDrift
  /\ \E d \in AllEdits :
      /\ \A o \in drift : Place(o) # Place(d)
      /\ drift' = drift \union {d}
  /\ edits' = edits + 1 /\ sweep' = "stale"
  /\ UNCHANGED <<linted, loaded>>

Revert ==
  /\ Importing /\ edits < MaxEdits
  /\ \E d \in drift : drift' = drift \ {d}
  /\ edits' = edits + 1 /\ sweep' = "stale"
  /\ UNCHANGED <<linted, loaded>>

\* Every contract lint runs over the files, as the test suite has it.
Sweep ==
  /\ Importing /\ sweep = "stale"
  /\ sweep' = IF \E c \in Contracts : Refused(c) THEN "red" ELSE "green"
  /\ UNCHANGED <<drift, edits, linted, loaded>>

\* Engines F are loaded beside those that are.
Loads(F) ==
  loaded' = [f \in DOMAIN loaded \union F |->
               IF f \in DOMAIN loaded THEN loaded[f] ELSE Built(f)]

\* An engine is imported, or called for the first time, and before it the
\* engines it imports.  An edit between two of them is one before this import
\* and after that of the engine needed.  The runtimes among them lint the
\* document they hold: refused, the import fails and nothing is loaded.
New(e) == ({e} \union Needs(e)) \ DOMAIN loaded
Passes(F) == \A f \in F \intersect Runtimes : ~Refused(f[2])
Import(e) ==
  /\ Importing /\ linted = NONE
  /\ e \notin DOMAIN loaded \union Files
  /\ Passes(New(e)) /\ Loads(New(e))
  /\ UNCHANGED <<drift, edits, sweep, linted>>

\* The provenance engine lints its file ...
LintFile(e) ==
  /\ Importing /\ linted = NONE
  /\ e \in Files \ DOMAIN loaded
  /\ Passes(Needs(e) \ DOMAIN loaded) /\ Loads(Needs(e))
  /\ linted' = IF Refused(e[2]) THEN NONE ELSE e
  /\ UNCHANGED <<drift, edits, sweep>>

\* ... and then opens it, and the contracts it links to.
ReadFile ==
  /\ linted # NONE /\ Loads({linted})
  /\ linted' = NONE
  /\ UNCHANGED <<drift, edits, sweep>>

\* A table is made anew: all but the failures, which were read at the import.
Reread(e) ==
  /\ Importing /\ linted = NONE /\ e \in PerCall \intersect DOMAIN loaded
  /\ LET kept == {d \in loaded[e].tables : d.section = "failures"}
         read == {d \in Seen(e) : d.section # "failures"}
     IN  loaded' = [loaded EXCEPT
           ![e] = [tables |-> kept \union read,
                   trusted |-> loaded[e].trusted /\ sweep = "green"]]
  /\ UNCHANGED <<drift, edits, sweep, linted>>

Next ==
  \/ Edit
  \/ Revert
  \/ Sweep
  \/ \E e \in Imported \intersect Engines : Import(e) \/ LintFile(e) \/ Reread(e)
  \/ ReadFile

Spec == Init /\ [][Next]_vars
-----------------------------------------------------------------------------
AllDeviations == UNION {Deviations(c) : c \in Contracts}

GateTypeOK ==
  /\ drift \subseteq AllDeviations
  /\ sweep \in {"green", "stale", "red"}
  /\ linted \in Files \union {NONE}
  /\ DOMAIN loaded \subseteq Engines
  /\ \A e \in DOMAIN loaded :
       /\ loaded[e].tables \subseteq AllDeviations
       /\ loaded[e].trusted \in BOOLEAN
       /\ \A d \in loaded[e].tables : Place(d) \in Reads(e)

Harmful == {"edited", "broken", "gone", "stray"}

\* What an engine holds and no lint pins: which variants there are beside the
\* standard one, and how the operations of the control plane are called.
Loose == {<<"variant", "registry">>, <<"control_plane", "calls">>}

Wrong(e) == {Place(d) : d \in {o \in loaded[e].tables : o.kind \in Harmful}}

\* An engine that read files the sweep has passed was built from tables that
\* say what the lints say, up to wording, number types, members of an
\* enumeration and what no lint pins: imports without a lint are safe behind
\* the sweep, however the files change before and after.  The client of the
\* control plane keeps its error codes and which operations there are, which
\* its contract's own lint would let go: the lints of sibling contracts hold
\* them.
SweepHolds ==
  \A e \in DOMAIN loaded : loaded[e].trusted => Wrong(e) \subseteq Loose

\* A runtime never builds a table from a section its contract's lint would
\* refuse, whether or not the sweep ever ran: its import fails closed.
GateHolds ==
  \A e \in DOMAIN loaded \intersect Runtimes :
    Wrong(e) \subseteq {<<"variant", "registry">>}

\* Engines of one process that each read files the sweep had passed, or linted
\* what they hold, agree, up to the same, on every section both were built
\* from, though the files were edited and put back between their imports.
Vouched(e) == loaded[e].trusted \/ e \in Runtimes
EnginesAgree ==
  \A e, f \in DOMAIN loaded :
    Vouched(e) /\ Vouched(f) =>
      \A p \in (Reads(e) \intersect Reads(f)) \ Loose :
        p \in Wrong(e) <=> p \in Wrong(f)

\* Whoever changes a contract and has its own lint pass breaks no lint of a
\* contract that links to it, but for two: the control-plane contract, and the
\* text on identities of the variant contract, which the collision lint quotes.
OwnVerdictSuffices ==
  \A d \in drift :
    Accepts(d) /\ (\E k \in Contracts : Refuses(k, d)) =>
      \/ d.contract = "control_plane"
      \/ Place(d) = <<"variant", "identity">> /\ d.kind = "unsaid"

\* The legal-moves runtime, imported, never holds a table of offsets that
\* makes it raise a raw error on a well-formed position.
NeverRaw ==
  <<"runtime", "legal_moves">> \in DOMAIN loaded =>
    \A d \in loaded[<<"runtime", "legal_moves">>].tables :
      Place(d) \in Offsets => d.kind # "typed"

\* No edit gets past the sweep or the gates of the runtimes into the tables an
\* engine holds, apart from what no lint pins, and none passes its own lint
\* and breaks another, apart from the two contracts others quote.
GatesHold ==
  GateTypeOK /\ SweepHolds /\ GateHolds /\ EnginesAgree /\ OwnVerdictSuffices
-----------------------------------------------------------------------------
(***************************************************************************)
(* GatesHold whichever contracts are edited and put back, and however      *)
(* often.  It needs what a verdict was about: a green sweep found nothing  *)
(* in the files as they still are, an engine loaded behind one read what   *)
(* every lint lets pass, a runtime read what its own lint lets pass.  All  *)
(* rests on what the fifty lints leave unpinned (Kept): six leave          *)
(* something, no lint relies on it but those beside the control plane's,   *)
(* and of that no engine reads more than what is Loose.                    *)
(***************************************************************************)
GateInv ==
  /\ GateTypeOK
  /\ sweep = "green" => \A c \in Contracts : ~Refused(c)
  /\ \A e \in DOMAIN loaded :
       /\ loaded[e].trusted =>
            \A d \in loaded[e].tables, k \in Contracts : ~Refuses(k, d)
       /\ e \in Runtimes =>
            \A d \in loaded[e].tables : d.contract = e[2] /\ Accepts(d)

\* What the lints of the chess contracts check for form only.
Slack ==
  Of("variant", {"base_path", "registry"}) \union
  ({"fen", "san", "turn", "uci"} \X {"base_path"})

\* What the lint of contract c leaves unpinned, relies on and looks for.
Kept(c, l) ==
  /\ \A s \in l.free : <<c, s>> \in Slack \/ c = "control_plane"
  /\ l.open => c = "control_plane"
  /\ \A p \in l.checked : p \notin Slack
  /\ \A p \in l.phrases :
       p[1] \in {c, "control_plane"} \/ p = <<"variant", "identity">>

LEMMA EveryLint == ASSUME NEW c \in Contracts PROVE Kept(c, Lint[c])
<1>1. /\ Kept("ai_adapter", AiAdapterLint)
      /\ Kept("atomic_edit", AtomicEditLint)
      /\ Kept("backup", BackupLint)
      /\ Kept("byom", ByomLint)
      /\ Kept("cancel", CancelLint)
      /\ Kept("castling", CastlingLint)
      /\ Kept("cloud_off", CloudOffLint)
      /\ Kept("collision", CollisionLint)
      /\ Kept("conflict", ConflictLint)
      /\ Kept("control_plane_errors", ControlPlaneErrorsLint)
  BY DEF
    Kept, Slack, Of, Closed, AiAdapterLint, AiAdapterLinks, AtomicEditLint,
    BackupLint, ByomLint, CancelLint, CancelLinks, CastlingLint, CloudOffLint,
    CollisionLint, CollisionLinks, ConflictLint, ControlPlaneErrorsLint,
    ControlPlaneErrorsLinks
<1>2. /\ Kept("control_plane_versioning", ControlPlaneVersioningLint)
      /\ Kept("corruption", CorruptionLint)
      /\ Kept("crash_resume", CrashResumeLint)
      /\ Kept("dead_letter", DeadLetterLint)
      /\ Kept("delete", DeleteLint)
      /\ Kept("diff", DiffLint)
      /\ Kept("en_passant", EnPassantLint)
      /\ Kept("events", EventsLint)
      /\ Kept("export", ExportLint)
      /\ Kept("fen", FenLint)
  BY DEF
    Kept, Slack, Of, Closed, ControlPlaneVersioningLint,
    ControlPlaneVersioningLinks, CorruptionLint, CrashResumeLint,
    DeadLetterLint, DeadLetterLinks, DeleteLint, DiffLint, EnPassantLint,
    EventsLint, EventsLinks, ExportLint, FenLint, FenLinks
<1>3. /\ Kept("idempotency", IdempotencyLint)
      /\ Kept("import", ImportLint)
      /\ Kept("jobs_idempotency", JobsIdempotencyLint)
      /\ Kept("legal_moves", LegalMovesLint)
      /\ Kept("lichess_response", LichessResponseLint)
      /\ Kept("limit", LimitLint)
      /\ Kept("local_model", LocalModelLint)
      /\ Kept("migration", MigrationLint)
      /\ Kept("openapi", OpenapiLint)
      /\ Kept("opening_context", OpeningContextLint)
  BY DEF
    Kept, Slack, Of, Closed, IdempotencyLint, ImportLint, JobsIdempotencyLint,
    JobsIdempotencyLinks, LegalMovesLint, LichessResponseLint, LimitLint,
    LimitLinks, LocalModelLint, MigrationLint, OpenapiLint, OpenapiLinks,
    OpeningContextLint, OpeningContextLinks
<1>4. /\ Kept("position_digest", PositionDigestLint)
      /\ Kept("progress", ProgressLint)
      /\ Kept("provenance", ProvenanceLint)
      /\ Kept("queue", QueueLint)
      /\ Kept("rate_limit", RateLimitLint)
      /\ Kept("redaction", RedactionLint)
      /\ Kept("restart", RestartLint)
      /\ Kept("restore", RestoreLint)
      /\ Kept("retry", RetryLint)
      /\ Kept("rollback", RollbackLint)
  BY DEF
    Kept, Slack, Of, Closed, PositionDigestLint, PositionDigestLinks,
    ProgressLint, ProgressLinks, ProvenanceLint, ProvenanceLinks, QueueLint,
    RateLimitLint, RateLimitLinks, RedactionLint, RestartLint, RestartLinks,
    RestoreLint, RetryLint, RetryLinks, RollbackLint
<1>5. /\ Kept("route_edge", RouteEdgeLint)
      /\ Kept("san", SanLint)
      /\ Kept("sensitive_flag", SensitiveFlagLint)
      /\ Kept("transposition_node", TranspositionNodeLint)
      /\ Kept("turn", TurnLint)
      /\ Kept("uci", UciLint)
      /\ Kept("variant", VariantLint)
      /\ Kept("version", VersionLint)
      /\ Kept("wal", WalLint)
      /\ Kept("control_plane", ControlPlaneLint)
  BY DEF
    Kept, Slack, Of, Closed, RouteEdgeLint, RouteEdgeLinks, SanLint, SanLinks,
    SensitiveFlagLint, TranspositionNodeLint, TranspositionNodeLinks,
    TurnLint, UciLint, UciLinks, VariantLint, VariantTexts, VersionLint,
    WalLint, ControlPlaneLint, ControlPlaneFree, ControlPlaneTexts
<1>6. QED
  BY <1>1, <1>2, <1>3, <1>4, <1>5 DEF Lint, Contracts

\* What the lints of its siblings compare in the control-plane contract.
LEMMA Siblings ==
  /\ {"ai_adapter", "control_plane_errors", "events", "rate_limit"}
       \subseteq Contracts
  /\ <<"control_plane", "route">> \in Lint["ai_adapter"].checked
  /\ <<"control_plane", "errors">> \in Lint["control_plane_errors"].checked
  /\ <<"control_plane", "operations">> \in Lint["events"].checked
  /\ <<"control_plane", "account">> \in Lint["rate_limit"].checked
<1>1. /\ <<"control_plane", "route">> \in AiAdapterLint.checked
      /\ <<"control_plane", "errors">> \in ControlPlaneErrorsLint.checked
      /\ <<"control_plane", "operations">> \in EventsLint.checked
      /\ <<"control_plane", "account">> \in RateLimitLint.checked
  BY DEF AiAdapterLint, AiAdapterLinks, ControlPlaneErrorsLint,
    ControlPlaneErrorsLinks, EventsLint, EventsLinks, RateLimitLint,
    RateLimitLinks, Closed, Of
<1>2. QED
  BY <1>1 DEF Lint, Contracts

\* The control plane's own lint leaves what it calls free.
LEMMA ControlPlanesOwn == Lint["control_plane"].free = ControlPlaneFree
<1>1. ControlPlaneLint.free = ControlPlaneFree
  BY DEF ControlPlaneLint, Closed
<1>2. QED
  BY <1>1 DEF Lint

\* Parts no engine reads.
Unread == {"base_path", "name", "schema_version", "undeclared"}

LEMMA ReadsNone ==
  ASSUME NEW e \in Engines, NEW p \in Reads(e)
  PROVE  p[2] \notin Unread
<1>1. CASE e[1] = "runtime"
  <2>1. e[2] \in DOMAIN RuntimeReads /\ p \in RuntimeReads[e[2]]
    BY <1>1 DEF Engines, Runtimes, StoreEngines, Reads
  <2>2. QED
    BY <2>1 DEF RuntimeReads, Of, Unread
<1>2. CASE e[1] = "store"
  <2>1. e[2] \in DOMAIN StoreReads /\ p \in StoreReads[e[2]]
    BY <1>2 DEF Engines, Runtimes, StoreEngines, Reads
  <2>2. QED
    BY <2>1 DEF StoreReads, Of, Unread
<1>3. CASE e[1] = "graph"
  <2>1. e[2] \in DOMAIN GraphReads /\ p \in GraphReads[e[2]]
    BY <1>3 DEF Engines, Runtimes, StoreEngines, Reads
  <2>2. QED
    BY <2>1 DEF GraphReads, IdentityReads, FenReads, Of, Unread
<1>4. CASE e[1] = "job"
  <2>1. e[2] \in DOMAIN JobReads /\ p \in JobReads[e[2]]
    BY <1>4 DEF Engines, Runtimes, StoreEngines, Reads
  <2>2. QED
    BY <2>1 DEF JobReads, Of, Unread
<1>5. CASE e[1] = "privacy"
  <2>1. e[2] \in DOMAIN PrivacyReads /\ p \in PrivacyReads[e[2]]
    BY <1>5 DEF Engines, Runtimes, StoreEngines, Reads
  <2>2. QED
    BY <2>1 DEF PrivacyReads, Of, Unread
<1>6. CASE e[1] = "import"
  <2>1. e[2] \in DOMAIN ImportReads /\ p \in ImportReads[e[2]]
    BY <1>6 DEF Engines, Runtimes, StoreEngines, Reads
  <2>2. QED
    BY <2>1 DEF ImportReads, Of, Unread
<1>7. QED
  BY <1>1, <1>2, <1>3, <1>4, <1>5, <1>6 DEF Engines, Runtimes, StoreEngines

\* A deviation lies in a contract; only a stray section is undeclared.
LEMMA Deviating ==
  ASSUME NEW d \in AllDeviations
  PROVE  /\ d.contract \in Contracts
         /\ d.kind = "stray" => d.section = "undeclared"
         /\ d.kind = "unsaid" =>
              d.lint \in Contracts /\ Place(d) \in Lint[d.lint].phrases
<1>1. PICK c \in Contracts : d \in Deviations(c)
  BY DEF AllDeviations
<1>2. d.contract = c
  BY <1>1 DEF Deviations
<1>3. d.kind = "stray" => d.section = "undeclared"
  BY <1>1 DEF Deviations, Differences
<1>4. ASSUME d.kind = "unsaid"
      PROVE  d.lint \in Contracts /\ Place(d) \in Lint[d.lint].phrases
  <2>1. PICK s \in Lint[c].sections :
          d \in [contract : {c}, section : {s}, kind : {"unsaid"},
                 lint : Looking(c, s)]
    BY <1>1, <1>4 DEF Deviations, Differences
  <2>2. d.section = s /\ d.lint \in Looking(c, s)
    BY <2>1
  <2>3. QED
    BY <1>2, <2>2 DEF Looking, Place
<1>5. QED
  BY <1>1, <1>2, <1>3, <1>4

\* What is wrong, read by an engine and accepted by the lint of its contract is
\* one of the variants or in the control-plane contract.
LEMMA WrongAccepted ==
  ASSUME NEW e \in Engines, NEW d \in AllDeviations, Place(d) \in Reads(e),
         d.kind \in Harmful, Accepts(d)
  PROVE  /\ d.kind = "edited" /\ d.section \in Lint[d.contract].free
         /\ Place(d) = <<"variant", "registry">> \/ d.contract = "control_plane"
<1>1. d.section \notin Unread
  BY ReadsNone DEF Place
<1>2. d.kind = "edited" /\ d.section \in Lint[d.contract].free
  BY <1>1, Deviating DEF Accepts, Harmful, Unread
<1>3. Kept(d.contract, Lint[d.contract])
  BY Deviating, EveryLint
<1>4. <<d.contract, d.section>> \in Slack \/ d.contract = "control_plane"
  BY <1>2, <1>3 DEF Kept
<1>5. QED
  BY <1>1, <1>2, <1>4 DEF Slack, Of, Unread, Place

\* If no lint at all refuses it, it is Loose.
LEMMA WrongIsLoose ==
  ASSUME NEW e \in Engines, NEW d \in AllDeviations, Place(d) \in Reads(e),
         d.kind \in Harmful, \A k \in Contracts : ~Refuses(k, d)
  PROVE  Place(d) \in Loose
<1>1. Accepts(d)
  BY Deviating DEF Refuses
<1>2. CASE Place(d) = <<"variant", "registry">>
  BY <1>2 DEF Loose
<1>3. CASE d.contract = "control_plane"
  <2>1. d.kind = "edited" /\ d.section \in ControlPlaneFree
    BY <1>1, <1>3, WrongAccepted, ControlPlanesOwn
  <2>2. d.section \notin {"route", "errors", "operations", "account"}
    BY <1>3, <2>1, Siblings DEF Refuses
  <2>3. d.section \notin Unread
    BY ReadsNone DEF Place
  <2>4. d.section = "calls"
    BY <2>1, <2>2, <2>3 DEF ControlPlaneFree, Unread
  <2>5. QED
    BY <1>3, <2>4 DEF Loose, Place
<1>4. QED
  BY <1>1, <1>2, <1>3, WrongAccepted

\* A runtime is built from its own contract and no other.
LEMMA RuntimesReadTheirOwn ==
  ASSUME NEW e \in Runtimes
  PROVE  /\ e \in Engines /\ e[2] # "control_plane"
         /\ \A p \in Reads(e) : p[1] = e[2]
<1>1. e \in Engines /\ e[1] = "runtime" /\ e[2] \in DOMAIN RuntimeReads
  BY DEF Engines, Runtimes
<1>2. e[2] \in {"castling", "legal_moves", "turn", "variant"}
  BY <1>1 DEF RuntimeReads
<1>3. \A p \in Reads(e) : p[1] = e[2]
  BY <1>1, <1>2 DEF Reads, RuntimeReads, Of
<1>4. QED
  BY <1>1, <1>2, <1>3

LEMMA InitGates == Init => GateInv
BY DEF Init, GateInv, GateTypeOK, Refused

\* Loading engines, runtimes only where their lints pass.
LEMMA LoadsWell ==
  ASSUME GateInv, NEW F, F \subseteq Engines, Passes(F \ DOMAIN loaded),
         Loads(F), linted' \in Files \union {NONE},
         UNCHANGED <<drift, sweep>>
  PROVE  GateInv'
<1>1. /\ DOMAIN loaded' = DOMAIN loaded \union F
      /\ \A f \in DOMAIN loaded : loaded'[f] = loaded[f]
      /\ \A f \in F \ DOMAIN loaded : loaded'[f] = Built(f)
  BY DEF Loads
<1>2. \A f : /\ Built(f).tables = Seen(f)
             /\ Built(f).trusted = (sweep = "green")
  BY DEF Built
<1>3. GateTypeOK'
  <2>1. ASSUME NEW f \in DOMAIN loaded'
        PROVE  /\ loaded'[f].tables \subseteq AllDeviations
               /\ loaded'[f].trusted \in BOOLEAN
               /\ \A d \in loaded'[f].tables : Place(d) \in Reads(f)
    <3>1. CASE f \in DOMAIN loaded
      BY <1>1, <3>1 DEF GateInv, GateTypeOK
    <3>2. CASE f \in F \ DOMAIN loaded
      <4>1. loaded'[f] = Built(f)
        BY <1>1, <3>2
      <4>2. loaded'[f].trusted \in BOOLEAN
        BY <4>1, <1>2
      <4>3. loaded'[f].tables = {d \in drift : Place(d) \in Reads(f)}
        BY <4>1, <1>2 DEF Seen
      <4>4. QED
        BY <4>2, <4>3 DEF GateInv, GateTypeOK
    <3>3. QED
      BY <1>1, <2>1, <3>1, <3>2
  <2>2. QED
    BY <1>1, <2>1 DEF GateInv, GateTypeOK
<1>4. (sweep = "green" => \A c \in Contracts : ~Refused(c))'
  BY DEF GateInv, Refused
<1>5. ASSUME NEW f \in F \ DOMAIN loaded
      PROVE  /\ Built(f).trusted =>
                  \A d \in Built(f).tables, k \in Contracts : ~Refuses(k, d)
             /\ f \in Runtimes =>
                  \A d \in Built(f).tables : d.contract = f[2] /\ Accepts(d)
  <2>1. Built(f).trusted =>
          \A d \in Built(f).tables, k \in Contracts : ~Refuses(k, d)
    BY <1>2 DEF GateInv, Refused, Seen
  <2>2. ASSUME f \in Runtimes, NEW d \in Built(f).tables
        PROVE  d.contract = f[2] /\ Accepts(d)
    <3>1. d \in drift /\ Place(d) \in Reads(f)
      BY <1>2, <2>2 DEF Seen
    <3>2. d.contract = f[2]
      BY <2>2, <3>1, RuntimesReadTheirOwn DEF Place
    <3>3. ~Refuses(f[2], d)
      BY <1>5, <2>2, <3>1 DEF Passes, Refused
    <3>4. QED
      BY <3>2, <3>3 DEF Refuses
  <2>3. QED
    BY <2>1, <2>2
<1>6. QED
  BY <1>1, <1>3, <1>4, <1>5 DEF GateInv

LEMMA NextGates == ASSUME GateConstants PROVE GateInv /\ [Next]_vars => GateInv'
<1> SUFFICES ASSUME GateInv, [Next]_vars PROVE GateInv'
  OBVIOUS
<1>1. CASE Edit
  <2>1. PICK d \in AllEdits : drift' = drift \union {d}
    BY <1>1 DEF Edit
  <2>2. d \in AllDeviations
    BY <2>1 DEF AllEdits, AllDeviations, GateConstants
  <2>3. QED
    BY <1>1, <2>1, <2>2 DEF Edit, GateInv, GateTypeOK
<1>2. CASE Revert
  BY <1>2 DEF Revert, GateInv, GateTypeOK
<1>3. CASE Sweep
  <2>1. sweep' = "green" => \A c \in Contracts : ~Refused(c)'
    BY <1>3 DEF Sweep, Refused
  <2>2. QED
    BY <1>3, <2>1 DEF Sweep, GateInv, GateTypeOK
<1>4. ASSUME NEW e \in Engines, Import(e) PROVE GateInv'
  <2>1. New(e) \subseteq Engines /\ New(e) \ DOMAIN loaded = New(e)
    BY DEF New, Needs
  <2>2. Passes(New(e) \ DOMAIN loaded) /\ Loads(New(e)) /\ UNCHANGED <<drift, sweep>>
    BY <1>4, <2>1 DEF Import
  <2>3. linted' \in Files \union {NONE}
    BY <1>4 DEF Import, GateInv, GateTypeOK
  <2>4. QED
    BY <2>1, <2>2, <2>3, LoadsWell
<1>5. ASSUME NEW e \in Engines, LintFile(e) PROVE GateInv'
  <2>1. Needs(e) \subseteq Engines
    BY DEF Needs
  <2>2. /\ Passes(Needs(e) \ DOMAIN loaded) /\ Loads(Needs(e))
        /\ linted' \in Files \union {NONE} /\ UNCHANGED <<drift, sweep>>
    BY <1>5 DEF LintFile
  <2>3. QED
    BY <2>1, <2>2, LoadsWell
<1>6. CASE ReadFile
  <2>1. linted \in Files
    BY <1>6 DEF ReadFile, GateInv, GateTypeOK
  <2>2. {linted} \subseteq Engines /\ {linted} \intersect Runtimes = {}
    BY <2>1 DEF Files, Engines, Runtimes, GraphReads
  <2>3. /\ Passes({linted} \ DOMAIN loaded) /\ Loads({linted})
        /\ linted' \in Files \union {NONE} /\ UNCHANGED <<drift, sweep>>
    BY <1>6, <2>2 DEF ReadFile, Passes
  <2>4. QED
    BY <2>2, <2>3, LoadsWell
<1>7. ASSUME NEW e \in Engines, Reread(e) PROVE GateInv'
  <2> DEFINE kept == {d \in loaded[e].tables : d.section = "failures"}
             read == {d \in Seen(e) : d.section # "failures"}
             now == [tables |-> kept \union read,
                     trusted |-> loaded[e].trusted /\ sweep = "green"]
  <2>1. /\ e \in DOMAIN loaded /\ e \in PerCall
        /\ loaded' = [loaded EXCEPT ![e] = now]
        /\ UNCHANGED <<drift, edits, sweep, linted>>
    BY <1>7 DEF Reread
  <2>2. e \notin Runtimes
    BY <2>1 DEF PerCall, Runtimes
  <2>3. /\ DOMAIN loaded' = DOMAIN loaded
        /\ \A f \in DOMAIN loaded \ {e} : loaded'[f] = loaded[f]
        /\ loaded'[e].tables = kept \union read
        /\ loaded'[e].trusted = (loaded[e].trusted /\ sweep = "green")
    BY <2>1
  <2>4. GateTypeOK'
    <3>1. kept \subseteq loaded[e].tables /\ read \subseteq Seen(e)
      OBVIOUS
    <3>2. /\ kept \union read \subseteq AllDeviations
          /\ \A d \in kept \union read : Place(d) \in Reads(e)
      BY <2>1, <3>1 DEF GateInv, GateTypeOK, Seen
    <3>3. loaded'[e].trusted \in BOOLEAN
      BY <2>3
    <3>4. QED
      BY <2>1, <2>3, <3>2, <3>3 DEF GateInv, GateTypeOK
  <2>5. (sweep = "green" => \A c \in Contracts : ~Refused(c))'
    BY <2>1 DEF GateInv, Refused
  <2>6. loaded'[e].trusted =>
          \A d \in loaded'[e].tables, k \in Contracts : ~Refuses(k, d)
    BY <2>1, <2>3 DEF GateInv, Refused, Seen
  <2>7. QED
    BY <2>2, <2>3, <2>4, <2>5, <2>6 DEF GateInv
<1>8. CASE UNCHANGED vars
  BY <1>8 DEF vars, GateInv, GateTypeOK, Refused
<1>9. QED
  BY <1>1, <1>2, <1>3, <1>4, <1>5, <1>6, <1>7, <1>8 DEF Next

\* No edit gets past the sweep or the gates of the runtimes into the tables an
\* engine holds, apart from what no lint pins, and none passes its own lint and
\* breaks another, apart from the two contracts others quote: whichever
\* contracts are edited and put back, and whichever engines are imported when.
THEOREM GatesStayClosed == ASSUME GateConstants PROVE Spec => []GatesHold
<1>1. ASSUME GateInv PROVE GatesHold
  <2> USE <1>1
  <2>1. ASSUME NEW e \in DOMAIN loaded, loaded[e].trusted
        PROVE  Wrong(e) \subseteq Loose
    BY <2>1, WrongIsLoose DEF GateInv, GateTypeOK, Wrong
  <2>2. ASSUME NEW e \in DOMAIN loaded \intersect Runtimes
        PROVE  Wrong(e) \subseteq {<<"variant", "registry">>}
    <3>1. ASSUME NEW d \in loaded[e].tables, d.kind \in Harmful
          PROVE  Place(d) = <<"variant", "registry">>
      <4>1. /\ e \in Engines /\ d \in AllDeviations /\ Place(d) \in Reads(e)
            /\ d.contract = e[2] /\ Accepts(d)
        BY <3>1 DEF GateInv, GateTypeOK
      <4>2. d.contract # "control_plane"
        BY <4>1, RuntimesReadTheirOwn
      <4>3. QED
        BY <3>1, <4>1, <4>2, WrongAccepted
    <3>2. QED
      BY <3>1 DEF Wrong
  <2>3. SweepHolds /\ GateHolds
    BY <2>1, <2>2 DEF SweepHolds, GateHolds
  <2>4. EnginesAgree
    <3>1. ASSUME NEW e \in DOMAIN loaded, Vouched(e)
          PROVE  Wrong(e) \subseteq Loose
      BY <2>1, <2>2, <3>1 DEF Vouched, Loose
    <3>2. QED
      BY <3>1 DEF EnginesAgree
  <2>5. OwnVerdictSuffices
    <3> SUFFICES ASSUME NEW d \in drift, Accepts(d),
                        NEW k \in Contracts, Refuses(k, d),
                        d.contract # "control_plane"
                 PROVE  Place(d) = <<"variant", "identity">> /\ d.kind = "unsaid"
      BY DEF OwnVerdictSuffices
    <3>1. d \in AllDeviations
      BY DEF GateInv, GateTypeOK
    <3>2. Kept(k, Lint[k]) /\ Kept(d.contract, Lint[d.contract])
      BY <3>1, Deviating, EveryLint
    <3>3. ~(/\ Place(d) \in Lint[k].checked
            /\ d.kind \in {"edited", "broken", "gone"})
      BY <3>2 DEF Accepts, Kept, Place
    <3>4. d.kind = "unsaid" /\ d.lint = k
      BY <3>3 DEF Refuses, Place
    <3>5. Place(d) \in Lint[k].phrases /\ d.lint # d.contract
      BY <3>1, <3>4, Deviating DEF Accepts
    <3>6. QED
      BY <3>2, <3>4, <3>5 DEF Kept, Place
  <2>6. QED
    BY <2>3, <2>4, <2>5 DEF GatesHold, GateInv
<1>2. QED
  BY <1>1, InitGates, NextGates, PTL DEF Spec
=============================================================================
