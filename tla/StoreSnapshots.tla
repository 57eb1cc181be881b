--------------------------- MODULE StoreSnapshots ---------------------------
(***************************************************************************)
(* The copies the store gives away: backup receipts (store/backup.py),     *)
(* their restore (store/restore.py) and exported documents                 *)
(* (store/export.py), over the write-ahead log of StoreLog, which is       *)
(* appended to, damaged and repaired meanwhile.                            *)
(*                                                                         *)
(* The serializer, the parser and the exporter are the caller's and may    *)
(* answer anything; a restore returns a state and changes none.  A state   *)
(* digest stands for the state it digests, a backup id for the four fields *)
(* it digests.  A text is the canonical text of a state, or another text   *)
(* that an honest parser reads as a state.                                 *)
(***************************************************************************)
EXTENDS StoreLog, FiniteSets

CONSTANTS
    MaxIssued,  \* bound: receipts and documents issued
    Liars       \* which of "serializer", "exporter" may lie

VARIABLE issued    \* history: what backup and export have returned

snapshotVars == <<log, acked, issued>>

Identities == {Identity[r] : r \in Records}
\* What graph.node accepts: every record under its own identity.
States == UNION {{s \in [D -> Records] : \A i \in D : Identity[s[i]] = i} :
                   D \in SUBSET Identities}
Misfiled == (UNION {[D -> Records] : D \in SUBSET Identities}) \ States

Canonical(s) == [canonical |-> TRUE, reads |-> s]
Texts == [canonical : BOOLEAN, reads : States]

EmptyState == StateOf(<<>>)

\* What a serializer or an exporter answers: the canonical text or, when it
\* lies, another text that reads the same or the text of another state.
Renderings(state, who) ==
    {Canonical(state)} \union
    (IF who \in Liars THEN {[canonical |-> FALSE, reads |-> state], Canonical(EmptyState)}
     ELSE {})

Digest(head, sid, count, bundle) == <<head, sid, count, bundle>>
Receipt(head, sid, count, bundle) ==
    [id |-> Digest(head, sid, count, bundle),
     head |-> head, sid |-> sid, count |-> count, bundle |-> bundle]

SnapshotInit ==
    /\ LogInit
    /\ issued = {}

\* backup: any log but one that replays is a corrupt source.  The bundle is
\* any text the serializer returns.
Backup(bundle) ==
    LET state == StateOf(OpsOf(log))
        receipt == Receipt(Tip(log), state, Len(log), bundle)
    IN  /\ Cardinality(issued) < MaxIssued
        /\ Replays(log)
        /\ bundle \in Renderings(state, "serializer")
        /\ issued' = issued \union
              {[kind |-> "backup", id |-> receipt.id, head |-> receipt.head,
                sid |-> receipt.sid, count |-> receipt.count, bundle |-> receipt.bundle]}
        /\ UNCHANGED <<log, acked>>

\* export: the document is compared with the local rendering.
Export(document) ==
    LET state == StateOf(OpsOf(log))
    IN  /\ Cardinality(issued) < MaxIssued
        /\ Replays(log)
        /\ document \in Renderings(state, "exporter")
        /\ document = Canonical(state)
        /\ issued' = issued \union
              {[kind |-> "export", head |-> Tip(log), sid |-> state,
                count |-> Cardinality(DOMAIN state), bundle |-> document]}
        /\ UNCHANGED <<log, acked>>

\* verify: local, no oracle.
BadVerifies(receipt) ==
    /\ receipt.count = 0 => receipt.head = Genesis /\ receipt.sid = EmptyState
    /\ receipt.count > 0 => receipt.head # Genesis
Verifies(receipt) ==
    /\ receipt.count = 0 => receipt.head = Genesis /\ receipt.sid = EmptyState
    /\ receipt.count > 0 => receipt.head # Genesis
    /\ receipt.id = Digest(receipt.head, receipt.sid, receipt.count, receipt.bundle)

\* What restore accepts from the parser.
Restores(receipt, parsed) ==
    /\ Verifies(receipt)
    /\ parsed \in States                     \* every record under its identity
    /\ parsed = receipt.sid                  \* the recomputed state id
    /\ Canonical(parsed) = receipt.bundle    \* the reserialized text

\* What became of a receipt on its shelf: one field may have rotted, or
\* somebody has written another one around its head with an id that fits.
Rotted(receipt) ==
    {[receipt EXCEPT !.sid = s] : s \in States}
    \union {[receipt EXCEPT !.bundle = t] : t \in Texts}
    \union {[receipt EXCEPT !.count = n] : n \in 0 .. MaxLog}
    \union {[receipt EXCEPT !.head = Genesis]}
Forged(receipt) ==
    {Receipt(receipt.head, s, n, Canonical(s)) : s \in States, n \in 0 .. MaxLog}

KeptReceipts ==
    {[id |-> c.id, head |-> c.head, sid |-> c.sid, count |-> c.count, bundle |-> c.bundle] :
       c \in {d \in issued : d.kind = "backup"}}

\* The log's own steps; no copy depends on what the caller made durable.
LogSteps ==
    \/ \E op \in Ops : AppendEntry(op, op.rec, FALSE)
    \/ Resume
    \/ \E target \in 0 .. Len(log) : Rollback(target)
    \/ Fault

SnapshotNext ==
    \/ LogSteps /\ UNCHANGED issued
    \/ \E text \in Texts : Backup(text) \/ Export(text)

SnapshotSpec == SnapshotInit /\ [][SnapshotNext]_snapshotVars
-----------------------------------------------------------------------------
\* What is issued is about a state graph.node accepts.
CopiesTypeOK ==
    \A c \in issued : c.sid \in States /\ c.bundle \in Texts /\ c.count <= MaxLog

\* All that was ever issued for one head of the log, by backup or export, is
\* of one state, although the log has been cut, has rotted and has been
\* appended to in between: a copy is never taken of a log that does not replay.
OneStatePerHead ==
    \A c, d \in issued : c.head = d.head => c.sid = d.sid

\* An exported document says what the log says at its head, whatever the
\* exporter returns (export.yaml, the output bound to the local rendering).
DocumentsTrue ==
    \A c \in issued : c.kind = "export" => c.bundle = Canonical(c.sid)

\* Whatever the parser returns, a receipt as backup made it restores to the
\* very state of the log it was taken from and one that has rotted is refused
\* before anything is parsed; a forged one, which nothing tells from a true one,
\* does at least not pretend that an empty log had a state (backup.yaml
\* head_count_consistency).
RestoredAsTaken ==
    \A kept \in KeptReceipts :
        /\ \A parsed \in States \union Misfiled :
              Restores(kept, parsed) => parsed = kept.sid
        /\ \A receipt \in Rotted(kept) \ {kept} : ~ Verifies(receipt)
        /\ \A receipt \in Forged(kept) :
              receipt.count = 0 /\ Restores(receipt, receipt.sid) =>
                  receipt.sid = EmptyState

\* A receipt that nobody touched and whose serializer was honest can always be
\* restored with an honest parser, however the log has fared since.
Restorable ==
    \A kept \in KeptReceipts : kept.bundle = Canonical(kept.sid) => Restores(kept, kept.sid)

\* What is issued is true of the log, restores to what was taken or is refused,
\* and one head of the log is one state.
StatesSurvive ==
    /\ CopiesTypeOK
    /\ DocumentsTrue
    /\ Restorable
    /\ RestoredAsTaken
    /\ OneStatePerHead

\* "deterministic: same-log-same-backup-receipt" (backup.yaml): two receipts of
\* one log are equal.
SameLogSameReceipt ==
    \A c, d \in issued :
        c.kind = "backup" /\ d.kind = "backup" /\ c.head = d.head => c = d
=============================================================================
