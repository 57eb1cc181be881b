------------------------------ MODULE Tracers ------------------------------
(***************************************************************************)
(* The tracing wrappers around the engines (the *_instrument.py files).  A *)
(* wrapper calls its engine, appends a row to its trace and hands on what  *)
(* the engine returned or raised.  Calls may overlap: an engine's callback *)
(* or another thread calls the wrapper again before a call has ended.      *)
(*                                                                         *)
(* Three styles.  "late": the row is numbered when it is written; a failed *)
(* write is dropped.  "early": the number is taken before the engine is    *)
(* called; a failed write starts the trace anew with a mark.  "plain": as  *)
(* early, and nothing is caught but a failure to read the error's fields.  *)
(* What a row says of the arguments and the result is left out.            *)
(***************************************************************************)
EXTENDS Integers, Sequences, FiniteSets, SequencesExt

CONSTANTS
    MaxTraced,  \* bound: calls
    Mark        \* the row {"__opaque__": "trace-append-failed"}

Wrapper(style, ops) == [style |-> style, ops |-> ops]

\* The wrappers of the job engines.
QueueTracer == Wrapper("late", {"apply"})
RestartTracer == Wrapper("late", {"restart"})
RetryTracer == Wrapper("late", {"decide"})
DeadLetterTracer == Wrapper("late", {"bury"})
ProgressTracer == Wrapper("late", {"report"})
LimitTracer == Wrapper("late", {"admit"})

\* The wrappers of the desktop's privacy engines.
ByomTracer == Wrapper("late", {"register", "record", "send", "transition"})
CloudTracer == Wrapper("late", {"register", "record", "verdict", "transition"})
ModelTracer == Wrapper("late", {"register", "record", "verdict", "transition"})
DeleteTracer == Wrapper("late", {"register", "record", "access", "delete"})
FlagTracer ==
    Wrapper("late", {"register", "record", "verdict", "transition", "rollback"})
RedactionTracer == Wrapper("late", {"redact", "emit_text"})

\* The wrappers of the store.
WalTracer == Wrapper("early", {"append", "replay"})
BackupTracer == Wrapper("early", {"backup", "verify"})
RestoreTracer == Wrapper("early", {"restore"})
ExportTracer == Wrapper("early", {"export"})
RollbackTracer == Wrapper("early", {"rollback"})

\* The wrappers of the graph, the control plane and the chess runtimes.
DiffTracer == Wrapper("early", {"state_id", "compute", "validate_diff", "apply"})
VersionTracer == Wrapper("early", {"insert", "merge"})
ContextTracer == Wrapper("early", {"insert", "merge"})
ProvenanceTracer == Wrapper("early", {"insert", "merge"})
ClientTracer == Wrapper("early", {"call", "entitlements"})
CompareTracer == Wrapper("early", {"compare"})
VariantTracer == Wrapper("early", {"parse_position", "identity", "project_additive"})
TurnTracer == Wrapper("plain", {"apply"})
CastlingTracer == Wrapper("plain", {"apply"})

Tracers ==
    {QueueTracer, RestartTracer, RetryTracer, DeadLetterTracer, ProgressTracer,
     LimitTracer, ByomTracer, CloudTracer, ModelTracer, DeleteTracer, FlagTracer,
     RedactionTracer, WalTracer, BackupTracer, RestoreTracer, ExportTracer,
     RollbackTracer, DiffTracer, VersionTracer, ContextTracer, ProvenanceTracer,
     ClientTracer, CompareTracer, VariantTracer, TurnTracer, CastlingTracer}

Outcomes == {"accept", "reject", "crash"}

VARIABLES
    tracer,      \* the wrapper at work
    container,   \* "list", or "other" when somebody replaced _trace
    rows,        \* the rows of _trace
    inflight,    \* calls begun and not ended: call -> [op, seq]
    delivered,   \* history: [op, engine, given] of each ended call
    overlapped,  \* history: two calls were in flight at once
    lost         \* history: rows were lost

tracerVars == <<tracer, container, rows, inflight, delivered, overlapped, lost>>

Begun == Cardinality(DOMAIN inflight) + Len(delivered)

TracersInit ==
    /\ tracer \in Tracers
    /\ container = "list" /\ rows = <<>>
    /\ inflight = [c \in {} |-> 0] /\ delivered = <<>>
    /\ overlapped = FALSE /\ lost = FALSE

\* _seq
Seq0 == IF container = "list" THEN Len(rows) ELSE 0

Begin(op) ==
    /\ Begun < MaxTraced /\ op \in tracer.ops
    /\ tracer.style = "plain" => container = "list"
    /\ LET c == CHOOSE n \in 1 .. MaxTraced : n \notin DOMAIN inflight
       IN  inflight' = [d \in DOMAIN inflight \union {c} |->
               IF d = c THEN [op |-> op, seq |-> Seq0] ELSE inflight[d]]
    /\ overlapped' = (overlapped \/ inflight # [c \in {} |-> 0])
    /\ UNCHANGED <<tracer, container, rows, delivered, lost>>

\* len(self._records) fails before the engine is called.
BeginFails(op) ==
    /\ Begun < MaxTraced /\ op \in tracer.ops
    /\ tracer.style = "plain" /\ container # "list"
    /\ delivered' = Append(delivered, [op |-> op, engine |-> "uncalled", given |-> "crash"])
    /\ UNCHANGED <<tracer, container, rows, inflight, overlapped, lost>>

Kept == IF container = "list" THEN rows ELSE <<>>
Row(seq, op, outcome) == [seq |-> seq, op |-> op, outcome |-> outcome]

\* The engine has ended with an outcome, the row is written and the caller gets
\* that outcome.
End(c, outcome) ==
    LET call == inflight[c]
        seq == IF tracer.style = "late" THEN Len(Kept) ELSE call.seq
    IN  /\ tracer.style = "plain" => container = "list"
        /\ rows' = Append(Kept, Row(seq, call.op, outcome)) /\ container' = "list"
        /\ delivered' = Append(delivered,
               [op |-> call.op, engine |-> outcome, given |-> outcome])
        /\ inflight' = [d \in DOMAIN inflight \ {c} |-> inflight[d]]
        /\ UNCHANGED <<tracer, overlapped, lost>>

BadEndFails(c, outcome) ==
    LET call == inflight[c]
    IN  /\ tracer.style # "plain"
        /\ rows' = (IF tracer.style = "late" THEN Kept ELSE <<Mark>>)
        /\ container' = "list" /\ lost' = TRUE
        /\ delivered' = Append(delivered,
               [op |-> call.op, engine |-> outcome, given |-> "crash"])
        /\ inflight' = [d \in DOMAIN inflight \ {c} |-> inflight[d]]
        /\ UNCHANGED <<tracer, overlapped>>
\* The row cannot be written.
EndFails(c, outcome) ==
    LET call == inflight[c]
    IN  /\ tracer.style # "plain"
        /\ rows' = (IF tracer.style = "late" THEN Kept ELSE <<Mark>>)
        /\ container' = "list" /\ lost' = TRUE
        /\ delivered' = Append(delivered,
               [op |-> call.op, engine |-> outcome, given |-> outcome])
        /\ inflight' = [d \in DOMAIN inflight \ {c} |-> inflight[d]]
        /\ UNCHANGED <<tracer, overlapped>>

\* plain: a row whose fields cannot be read is written without them; one that
\* cannot be written takes the place of the engine's outcome.
EndDegraded(c, outcome) ==
    /\ tracer.style = "plain" /\ container = "list"
    /\ rows' = Append(rows, Row(inflight[c].seq, inflight[c].op, "record_degraded"))
    /\ delivered' = Append(delivered,
           [op |-> inflight[c].op, engine |-> outcome, given |-> outcome])
    /\ inflight' = [d \in DOMAIN inflight \ {c} |-> inflight[d]]
    /\ UNCHANGED <<tracer, container, overlapped, lost>>
EndReplaced(c, outcome) ==
    /\ tracer.style = "plain" /\ lost' = TRUE
    /\ delivered' = Append(delivered,
           [op |-> inflight[c].op, engine |-> outcome, given |-> "crash"])
    /\ inflight' = [d \in DOMAIN inflight \ {c} |-> inflight[d]]
    /\ UNCHANGED <<tracer, container, rows, overlapped>>

\* Somebody assigns something to _trace that is no list.
Tamper ==
    /\ container = "list" /\ container' = "other" /\ rows' = <<>> /\ lost' = TRUE
    /\ UNCHANGED <<tracer, inflight, delivered, overlapped>>

TracersNext ==
    \/ \E op \in tracer.ops : Begin(op) \/ BeginFails(op)
    \/ \E c \in DOMAIN inflight, outcome \in Outcomes :
          \/ End(c, outcome) \/ EndFails(c, outcome)
          \/ EndDegraded(c, outcome) \/ EndReplaced(c, outcome)
    \/ Tamper

TracersSpec == TracersInit /\ [][TracersNext]_tracerVars
-----------------------------------------------------------------------------
\* Whatever becomes of the trace, the caller is given what the engine returned
\* or raised ("diagnostics must never replace a policy result or exception");
\* the plain wrappers promise it only while their list can be written.
Neutral ==
    \A i \in DOMAIN delivered :
        tracer.style # "plain" \/ ~ lost => delivered[i].given = delivered[i].engine

\* As long as no row was lost there is one row per ended call, in the order in
\* which the calls ended, and it tells the call's outcome, overlapping calls
\* included.
RowPerCall ==
    ~ lost =>
        /\ Len(rows) = Len(delivered)
        /\ \A i \in DOMAIN rows :
              /\ rows[i].op = delivered[i].op
              /\ rows[i].outcome \in {delivered[i].engine, "record_degraded"}

\* The number of a row is its place: always where it is given late, under
\* tampering and overlap too; where it is taken early, as long as calls come
\* one after the other and no row is lost.
NumberedByPlace ==
    tracer.style = "late" \/ ~ (overlapped \/ lost) =>
        \A i \in DOMAIN rows : rows[i].seq = i - 1

\* What a trace promises: the caller gets the engine's outcome, and the rows tell
\* it, one for each call, at the row's own place.
TraceTrue == Neutral /\ RowPerCall /\ NumberedByPlace

\* "seq is strictly increasing from 0" (tools/castling_instrument.py).
SeqIncreasing ==
    tracer = CastlingTracer /\ ~ lost =>
        \A i, j \in DOMAIN rows : i < j => rows[i].seq < rows[j].seq
=============================================================================
