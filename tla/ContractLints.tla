------------------------- MODULE ContractLints -------------------------
(* What each contract lint of tools/ lets through.  A contract is a YAML   *)
(* file of named sections; its lint compares them with the tables pinned   *)
(* in the lint itself and refuses the file at the first difference.  The   *)
(* tables are data and left out: what counts here is which sections a      *)
(* contract has, which differences its lint does not see, and which        *)
(* sections of other contracts it reads.                                   *)
(*                                                                         *)
(* A part of a section the lint treats on its own counts as a section.     *)
(*                                                                         *)
(*   sections  the sections the lint requires                              *)
(*   open      whether it takes further ones, as only one lint does        *)
(*   reworded  sections whose "rule" text the lint does not compare        *)
(*   phrases   sections, of any contract, in whose text it looks for       *)
(*             phrases                                                     *)
(*   typed     sections with a number or flag compared by ==, so that a    *)
(*             value equal but of another type passes (1, 1.0, True)       *)
(*   grown     sections with an enumeration in which the lint only looks   *)
(*             for the members it requires                                 *)
(*   free      sections the lint checks for form or coherence and does not *)
(*             compare with a table                                        *)
(*   linted    contracts whose own lint this one calls on the linked file  *)
(*   checked   sections of other contracts compared with a table           *)
\* The sections the store, job, privacy and graph contracts share.
Domain == {"id", "role", "failures", "errors", "properties", "versioning",
           "links"}

\* The sections the chess rule contracts share.
Chess == {"id", "failure_classes", "failure_mapping", "errors", "versioning"}

\* A closed document: exactly these sections, each pinned to the letter.
Closed(S) ==
  [sections |-> S, open |-> FALSE, reworded |-> {}, phrases |-> {},
   typed |-> {}, grown |-> {}, free |-> {}, linted |-> {}, checked |-> {}]

\* Sections S of contract c.
Of(c, S) == {c} \X S

AiAdapterLinks ==
  Of("byom", {"identifiers", "semantics"})
    \union Of("cloud_off", {"semantics"})
    \union Of("control_plane", {"route"})
    \union Of("local_model", {"semantics"})
    \union Of("sensitive_flag", {"semantics"})

AiAdapterLint ==
  [Closed({"cost", "failures", "id", "interface", "modes", "role",
      "unresolved", "versioning"})
    EXCEPT !.typed = {"interface"},
    !.checked = AiAdapterLinks]

AtomicEditLint ==
  [Closed(Domain \union {"identifiers", "operation", "record",
      "semantics"})
    EXCEPT !.reworded = {"operation"},
    !.typed = {"failures", "operation", "record"}]

BackupLint ==
  [Closed(Domain \union {"identifiers", "oracle_boundary", "record",
      "semantics"})
    EXCEPT !.typed = {"record"}]

ByomLint == Closed(Domain \union {"identifiers", "record", "semantics"})

CancelLinks == Of("queue", {"identifiers", "request", "state"})

CancelLint ==
  [Closed(Domain \union {"identifiers", "record", "request", "semantics"})
    EXCEPT !.typed = {"record", "request"},
    !.checked = CancelLinks]

CastlingLint ==
  [Closed(Chess \union {"identity", "links", "loss", "move", "rights",
      "turn_linkage"})
    EXCEPT !.reworded = {"identity", "loss", "move", "rights",
        "turn_linkage"},
    !.linted = {"turn", "variant"}]

CloudOffLint == Closed(Domain \union {"identifiers", "record", "semantics"})

CollisionLinks ==
  Of("position_digest", {"digest", "role"})
    \union Of("transposition_node", {"identity"})
    \union Of("variant", {"identity"})

CollisionLint ==
  [Closed(Domain \union {"definition", "guarantees", "separation"})
    EXCEPT !.reworded = {"definition", "errors", "failures", "guarantees",
        "links", "properties", "role", "separation", "versioning"},
    !.phrases = Of("variant", {"identity"}),
    !.typed = {"errors"},
    !.checked = CollisionLinks]

ConflictLint ==
  [Closed(Domain \union {"base_check", "compatibility",
      "conflicts_section", "guarantees", "identifiers", "identity", "record"})
    EXCEPT !.typed = {"record"}]

ControlPlaneErrorsLinks ==
  Of("control_plane", {"errors", "privacy", "schema_version"})
    \union Of("fen", {"placement"})
    \union Of("openapi", {"links"})

ControlPlaneErrorsLint ==
  [Closed({"errors", "failures", "id", "links", "readings", "request",
      "result", "role", "semantics", "source", "versioning"})
    EXCEPT !.phrases = Of("control_plane", {"error_note"}),
    !.typed = {"source"},
    !.checked = ControlPlaneErrorsLinks]

ControlPlaneVersioningLinks ==
  Of("control_plane", {"base_path", "schema_version", "versioning"})
    \union Of("openapi", {"source"})

ControlPlaneVersioningLint ==
  [Closed({"compatibility", "errors", "failures", "id", "links",
      "request", "result", "role", "semantics", "source", "versioning"})
    EXCEPT !.phrases = Of("control_plane", {"versioning"}),
    !.typed = {"source"},
    !.checked = ControlPlaneVersioningLinks]

CorruptionLint ==
  Closed(Domain \union {"identifiers", "oracle_boundary", "record",
      "semantics"})

CrashResumeLint ==
  [Closed(Domain \union {"identifiers", "oracle_boundary", "record",
      "request", "semantics"})
    EXCEPT !.typed = {"record", "request"}]

DeadLetterLinks == Of("queue", {"identifiers", "request", "state"})

DeadLetterLint ==
  [Closed(Domain \union {"identifiers", "record", "request", "semantics"})
    EXCEPT !.typed = {"record", "request"},
    !.checked = DeadLetterLinks]

DeleteLint == Closed(Domain \union {"identifiers", "record", "semantics"})

DiffLint ==
  [Closed(Domain \union {"apply", "guarantees", "identifiers", "identity",
      "record", "sections"})
    EXCEPT !.typed = {"identifiers", "record"}]

EnPassantLint ==
  [Closed(Chess \union {"capture", "identity", "links", "target",
      "turn_linkage"})
    EXCEPT !.reworded = {"capture", "identity", "target", "turn_linkage",
        "versioning"},
    !.linted = {"turn", "variant"}]

EventsLinks == Of("control_plane", {"operations", "schema_version"})

EventsLint ==
  [Closed({"catalog", "envelope", "failure", "id", "links", "ordering",
      "role", "versioning"})
    EXCEPT !.typed = {"envelope", "failure", "role", "versioning"},
    !.checked = EventsLinks]

ExportLint ==
  [Closed(Domain \union {"identifiers", "oracle_boundary", "record",
      "request", "semantics"})
    EXCEPT !.typed = {"record", "request"}]

FenLinks ==
  Of("castling", {"rights"})
    \union Of("en_passant", {"target"})
    \union Of("turn", {"state", "transition"})

FenLint ==
  [Closed(Chess \union {"active_color", "atomicity", "base_path", "board",
      "castling", "counters", "en_passant", "fields", "links", "placement",
      "position_rules", "serialization"})
    EXCEPT !.reworded = {"active_color", "atomicity", "board", "castling",
        "counters", "en_passant", "fields", "placement", "position_rules",
        "serialization", "versioning"},
    !.phrases = Of("fen", {"versioning"}),
    !.typed = {"board", "counters", "errors"},
    !.grown = {"errors"},
    !.free = {"base_path"},
    !.checked = FenLinks]

IdempotencyLint ==
  Closed(Domain \union {"identifiers", "oracle_boundary", "outcomes",
      "record", "semantics"})

ImportLint ==
  [Closed(Chess \union {"atomicity", "idempotency", "links", "record",
      "scenarios", "sources"})
    EXCEPT !.reworded = {"atomicity", "idempotency", "record",
        "scenarios", "sources", "versioning"},
    !.linted = {"variant"}]

JobsIdempotencyLinks == Of("queue", {"errors", "identifiers"})

JobsIdempotencyLint ==
  [Closed(Domain \union {"error_composition", "identifiers",
      "oracle_boundary", "outcomes", "record", "request", "semantics"})
    EXCEPT !.checked = JobsIdempotencyLinks]

LegalMovesLint ==
  [Closed(Chess \union {"attack", "legality", "linkage", "links",
      "move_model", "move_set_terminal_status", "movement"})
    EXCEPT !.reworded = {"attack", "legality", "linkage", "move_model",
        "move_set_terminal_status", "movement", "versioning"},
    !.typed = {"movement"},
    !.linted = {"castling", "en_passant", "turn", "variant"}]

LichessResponseLint ==
  [Closed(Chess \union {"endpoint", "error_envelope", "game_object",
      "request", "spec_provenance"})
    EXCEPT !.reworded = {"endpoint", "error_envelope", "game_object",
        "request", "versioning"}]

LimitLinks == Of("queue", {"identifiers"})

LimitLint ==
  [Closed(Domain \union {"identifiers", "record", "request", "semantics"})
    EXCEPT !.typed = {"record", "request"},
    !.checked = LimitLinks]

LocalModelLint == Closed(Domain \union {"identifiers", "record", "semantics"})

MigrationLint ==
  [Closed(Domain \union {"identifiers", "oracle_boundary", "record",
      "registry", "semantics"})
    EXCEPT !.typed = {"record"}]

OpenapiLinks == Of("control_plane", {"errors", "schema_version"})

OpenapiLint ==
  [Closed(Domain \union {"auth", "document", "error_responses",
      "idempotency", "privacy", "semantics", "source"})
    EXCEPT !.phrases = Of("control_plane", {"error_note", "versioning"}),
    !.typed = {"document", "source"},
    !.checked = OpenapiLinks]

OpeningContextLinks ==
  Of("legal_moves", {"move_model"})
    \union Of("transposition_node", {"identity"})
    \union Of("variant", {"variants"})

OpeningContextLint ==
  [Closed(Domain \union {"identity", "merge", "record", "registry",
      "resolution"})
    EXCEPT !.reworded = {"errors", "failures", "identity", "links",
        "merge", "properties", "record", "registry", "resolution", "role",
        "versioning"},
    !.typed = {"errors", "merge", "registry"},
    !.checked = OpeningContextLinks]

PositionDigestLinks ==
  Of("en_passant", {"target"})
    \union Of("fen", {"active_color", "castling", "placement"})
    \union Of("variant", {"identity", "variants"})

PositionDigestLint ==
  [Closed({"digest", "encoding", "failures", "id", "identity", "parse",
      "properties", "role"})
    EXCEPT !.reworded = {"digest", "encoding", "failures", "identity",
        "parse", "properties", "role"},
    !.typed = {"digest"},
    !.checked = PositionDigestLinks]

ProgressLinks == Of("queue", {"identifiers"})

ProgressLint ==
  [Closed(Domain \union {"identifiers", "record", "request", "semantics"})
    EXCEPT !.typed = {"record", "request"},
    !.checked = ProgressLinks]

ProvenanceLinks ==
  Of("import", {"idempotency", "sources"})
    \union Of("opening_context", {"identity"})
    \union Of("route_edge", {"identity"})
    \union Of("transposition_node", {"identity"})

ProvenanceLint ==
  [Closed(Domain \union {"merge", "record", "source_entry", "targets"})
    EXCEPT !.reworded = {"errors", "failures", "links", "merge",
        "properties", "record", "role", "source_entry", "targets",
        "versioning"},
    !.typed = {"errors", "merge", "record", "targets"},
    !.checked = ProvenanceLinks]

QueueLint ==
  [Closed(Domain \union {"identifiers", "record", "request", "semantics",
      "state"})
    EXCEPT !.typed = {"record", "request", "state"}]

RateLimitLinks ==
  Of("control_plane", {"account", "auth", "errors", "privacy",
      "schema_version"})
    \union Of("control_plane_errors", {"source"})
    \union Of("limit", {"id", "role"})
    \union Of("openapi", {"error_responses", "links"})

RateLimitLint ==
  [Closed({"buckets", "id", "links", "privacy", "request", "results",
      "role", "source", "unresolved", "versioning"})
    EXCEPT !.phrases = Of("control_plane", {"idempotency"}),
    !.checked = RateLimitLinks]

RedactionLint == Closed(Domain \union {"identifiers", "request", "semantics"})

RestartLinks == Of("queue", {"identifiers", "state"})

RestartLint ==
  [Closed(Domain \union {"identifiers", "record", "request", "semantics"})
    EXCEPT !.typed = {"record", "request"},
    !.checked = RestartLinks]

RestoreLint ==
  [Closed(Domain \union {"identifiers", "oracle_boundary", "record",
      "semantics"})
    EXCEPT !.typed = {"record"}]

RetryLinks == Of("queue", {"identifiers", "state"})

RetryLint ==
  [Closed(Domain \union {"identifiers", "record", "request", "semantics"})
    EXCEPT !.typed = {"record", "request"},
    !.checked = RetryLinks]

RollbackLint ==
  [Closed(Domain \union {"identifiers", "oracle_boundary", "record",
      "semantics"})
    EXCEPT !.typed = {"record"}]

RouteEdgeLinks ==
  Of("fen", {"active_color", "castling", "fields", "placement"})
    \union Of("legal_moves", {"move_model"})
    \union Of("position_digest", {"digest", "role"})
    \union Of("transposition_node", {"identity", "record"})
    \union Of("variant", {"variants"})

RouteEdgeLint ==
  [Closed(Domain \union {"identity", "merge", "move", "record"})
    EXCEPT !.reworded = {"errors", "failures", "identity", "links",
        "merge", "move", "properties", "record", "role", "versioning"},
    !.typed = {"errors", "merge", "move"},
    !.checked = RouteEdgeLinks]

SanLinks ==
  Of("castling", {"rights"})
    \union Of("legal_moves", {"move_model"})
    \union Of("turn", {"state"})

SanLint ==
  [Closed(Chess \union {"base_path", "castling_link", "context",
      "disambiguation", "grammar", "links", "resolution_failures",
      "serialization", "suffix", "tokens"})
    EXCEPT !.reworded = {"castling_link", "context", "disambiguation",
        "grammar", "resolution_failures", "serialization", "suffix", "tokens",
        "versioning"},
    !.phrases = Of("san", {"versioning"}),
    !.typed = {"errors"},
    !.grown = {"errors"},
    !.free = {"base_path"},
    !.checked = SanLinks]

SensitiveFlagLint ==
  Closed(Domain \union {"identifiers", "record", "semantics"})

TranspositionNodeLinks ==
  Of("en_passant", {"target"})
    \union Of("fen", {"active_color", "castling", "fields", "placement"})
    \union Of("position_digest", {"digest", "identity", "role"})
    \union Of("variant", {"identity", "variants"})

TranspositionNodeLint ==
  [Closed(Domain \union {"identity", "merge", "record"})
    EXCEPT !.reworded = {"errors", "failures", "identity", "links",
        "merge", "properties", "record", "role", "versioning"},
    !.typed = {"errors", "merge"},
    !.checked = TranspositionNodeLinks]

TurnLint ==
  [Closed(Chess \union {"base_path", "invariants", "state", "termination",
      "transition", "variant_link"})
    EXCEPT !.reworded = {"state", "termination", "transition",
        "variant_link", "versioning"},
    !.phrases = Of("turn", {"versioning"}),
    !.grown = {"errors"},
    !.free = {"base_path"},
    !.linted = {"variant"}]

UciLinks ==
  Of("fen", {"en_passant", "fields", "position_rules"})
    \union Of("legal_moves", {"move_model"})
    \union Of("variant", {"variants"})

UciLint ==
  [Closed(Chess \union {"base_path", "bestmove_semantics",
      "engine_responses", "go_parameters", "gui_commands", "info_fields",
      "lifecycle", "links", "move_encoding", "option_markers", "option_types",
      "position_validation", "resolution_failures", "serialization",
      "setoption_semantics", "transport"})
    EXCEPT !.reworded = {"bestmove_semantics", "engine_responses",
        "go_parameters", "gui_commands", "info_fields", "lifecycle",
        "move_encoding", "option_markers", "option_types",
        "position_validation", "resolution_failures", "serialization",
        "setoption_semantics", "transport", "versioning"},
    !.phrases = Of("uci", {"versioning"}),
    !.typed = {"errors", "go_parameters", "info_fields"},
    !.grown = {"errors"},
    !.free = {"base_path"},
    !.checked = UciLinks]

\* The "registry" is what variants.entries says beyond the grammar of ids
\* and the start position of "standard", which "variants" pins: any entry may
\* come, go or be renamed as long as each is coherent.
VariantTexts == {"fen", "identity", "privacy", "variants", "versioning"}

VariantLint ==
  [Closed({"base_path", "errors", "id", "registry"} \union VariantTexts)
    EXCEPT !.reworded = VariantTexts,
    !.phrases = Of("variant", VariantTexts),
    !.grown = {"errors"},
    !.free = {"base_path", "registry"}]

VersionLint ==
  [Closed(Domain \union {"content_addressing", "fields", "identity",
      "lineage", "merge", "record"})
    EXCEPT !.typed = {"fields", "identity", "merge", "record"}]

WalLint ==
  [Closed(Domain \union {"identifiers", "oracle_boundary", "record",
      "registry", "semantics"})
    EXCEPT !.typed = {"record"}]

\* The control-plane contract is checked for coherence and hardly pinned.
\* Its transport and areas fall into what the lints of its siblings tell
\* apart: "account" is how register and login are called, "route" the fields
\* of provider_routing.route, "operations" which operations there are, and
\* "calls" their methods, paths, flags, fields and errors with the lists of
\* operations under "transport".
ControlPlaneFree ==
  {"schema_version", "name", "base_path", "errors", "operations", "account",
   "route", "calls"}

ControlPlaneTexts ==
  {"versioning", "auth", "idempotency", "error_note", "privacy", "cost",
   "recovery"}

ControlPlaneLint ==
  [Closed(ControlPlaneFree \union ControlPlaneTexts)
    EXCEPT !.open = TRUE,
    !.reworded = ControlPlaneTexts,
    !.phrases = Of("control_plane", {"versioning", "auth", "idempotency"}),
    !.free = ControlPlaneFree]

\* Every contract, with its lint.
Lint ==
  [ai_adapter |-> AiAdapterLint,
   atomic_edit |-> AtomicEditLint,
   backup |-> BackupLint,
   byom |-> ByomLint,
   cancel |-> CancelLint,
   castling |-> CastlingLint,
   cloud_off |-> CloudOffLint,
   collision |-> CollisionLint,
   conflict |-> ConflictLint,
   control_plane |-> ControlPlaneLint,
   control_plane_errors |-> ControlPlaneErrorsLint,
   control_plane_versioning |-> ControlPlaneVersioningLint,
   corruption |-> CorruptionLint,
   crash_resume |-> CrashResumeLint,
   dead_letter |-> DeadLetterLint,
   delete |-> DeleteLint,
   diff |-> DiffLint,
   en_passant |-> EnPassantLint,
   events |-> EventsLint,
   export |-> ExportLint,
   fen |-> FenLint,
   idempotency |-> IdempotencyLint,
   import |-> ImportLint,
   jobs_idempotency |-> JobsIdempotencyLint,
   legal_moves |-> LegalMovesLint,
   lichess_response |-> LichessResponseLint,
   limit |-> LimitLint,
   local_model |-> LocalModelLint,
   migration |-> MigrationLint,
   openapi |-> OpenapiLint,
   opening_context |-> OpeningContextLint,
   position_digest |-> PositionDigestLint,
   progress |-> ProgressLint,
   provenance |-> ProvenanceLint,
   queue |-> QueueLint,
   rate_limit |-> RateLimitLint,
   redaction |-> RedactionLint,
   restart |-> RestartLint,
   restore |-> RestoreLint,
   retry |-> RetryLint,
   rollback |-> RollbackLint,
   route_edge |-> RouteEdgeLint,
   san |-> SanLint,
   sensitive_flag |-> SensitiveFlagLint,
   transposition_node |-> TranspositionNodeLint,
   turn |-> TurnLint,
   uci |-> UciLint,
   variant |-> VariantLint,
   version |-> VersionLint,
   wal |-> WalLint]

Contracts == DOMAIN Lint

\* A deviation of a contract file: in section s of contract c, something
\* was "reworded" (a rule's text, no phrase a lint looks for being lost),
\* "typed" (an equal value of another type), "grown" (an enumeration with
\* other members beside the required ones), "edited" (another value, of the
\* form the section has), "broken" (a value that has not this form) or "gone"
\* (the section is missing); or a phrase is "unsaid", so that the lint of
\* contract `lint` misses it; or there is a section nobody declares ("stray").
\* Where a section is checked for form only, all that keeps the form is an edit.
Differences == {"reworded", "typed", "grown", "edited", "gone"}

Looking(c, s) == {k \in Contracts : <<c, s>> \in Lint[k].phrases}

Deviations(c) ==
  LET l == Lint[c]
  IN  [contract : {c}, section : l.sections \ l.free, kind : Differences]
        \union [contract : {c}, section : l.free,
                kind : {"edited", "broken", "gone"}]
        \union [contract : {c}, section : {"undeclared"}, kind : {"stray"}]
        \union UNION {[contract : {c}, section : {s}, kind : {"unsaid"},
                       lint : Looking(c, s)] : s \in l.sections}

\* Mutation: the pins are compared with what is there, nothing asks whether
\* a section is.
BadAccepts(d) ==
  LET l == Lint[d.contract]
  IN  \/ d.kind = "reworded" /\ d.section \in l.reworded
      \/ d.kind = "unsaid" /\ d.section \in l.reworded /\ d.lint # d.contract
      \/ d.kind = "typed" /\ d.section \in l.typed
      \/ d.kind = "grown" /\ d.section \in l.grown
      \/ d.kind = "edited" /\ d.section \in l.free
      \/ d.kind \in {"stray", "gone"}

\* The lint of a contract compares its own file: close_envelope wants the
\* declared sections and no other, the pins refuse what is not equal.
Accepts(d) ==
  LET l == Lint[d.contract]
  IN  \/ d.kind = "reworded" /\ d.section \in l.reworded
      \/ d.kind = "unsaid" /\ d.section \in l.reworded /\ d.lint # d.contract
      \/ d.kind = "typed" /\ d.section \in l.typed
      \/ d.kind = "grown" /\ d.section \in l.grown
      \/ d.kind = "edited" /\ d.section \in l.free
      \/ d.kind = "stray" /\ l.open

\* What the lint of contract c says of deviation d, wherever it is: its own
\* file, the files it lints in full, the sections it compares and the phrases
\* it looks for.
Refuses(c, d) ==
  \/ d.contract \in {c} \union Lint[c].linted /\ ~Accepts(d)
  \/ /\ <<d.contract, d.section>> \in Lint[c].checked
     /\ d.kind \in {"edited", "broken", "gone"}
  \/ d.kind = "unsaid" /\ d.lint = c
=============================================================================
