----------------------------- MODULE EventLedger -----------------------------
(***************************************************************************)
(* The outbox of server/control_plane_events.py: a SQLite file that        *)
(* several publishers open, each running Ledger.publish as one transaction *)
(* (BEGIN IMMEDIATE, read, insert row by row, COMMIT) that an error or a   *)
(* crash may end at any point.  A publisher that dies does not know        *)
(* whether it committed and may send its batch again.                      *)
(*                                                                         *)
(* The file holds at most one transaction that writes; SQLite rolls the    *)
(* transaction of a dead process back.  An in-memory ledger dies with its  *)
(* process; its host hydrates the next one from the list it read before.   *)
(***************************************************************************)
EXTENDS Integers, FiniteSets, Sequences, SequencesExt

CONSTANTS
    Publishers,  \* processes that hold a Ledger on the file
    Proposals,   \* the batches a publisher may send, sequences of events
    Errors,      \* _ERRORS: the error codes each operation may fail with
    InMemory,    \* TRUE for Ledger(":memory:"), which one process holds
    MaxCalls,    \* bound of the model: calls of publish, events and restarts
    NoOne, NoCode

LedgerConstants ==
    /\ InMemory \in BOOLEAN
    /\ InMemory => \A p, q \in Publishers : p = q
    /\ MaxCalls \in Nat
    /\ NoOne \notin Publishers
    /\ \A batch \in Proposals : batch \in Seq(Range(batch))

VARIABLES
    outbox,   \* the committed rows, in the order of their ordinals
    rotten,   \* ordinals of rows whose stored envelope no longer decodes
    holder,   \* the publisher whose transaction is open, or NoOne
    call,     \* the call each publisher is in
    answer,   \* how the publisher's last call ended
    acked,    \* history: batches whose publish returned a count
    kept,     \* the list the host read through the events property
    up,       \* FALSE between the restart of a memory ledger and hydration
    calls     \* calls made

ledgerVars == <<outbox, rotten, holder, call, answer, acked, kept, up, calls>>

Stream == INSTANCE EventStream WITH stream <- outbox

\* validate, in the order of its checks; "ok" for an envelope of version 1.
Verdict(e) ==
    CASE e.version # 1 -> "unsupported_version"
      [] e.version = 1 /\ e.op \notin DOMAIN Errors -> "unknown_name"
      [] e.version = 1 /\ e.op \in DOMAIN Errors
           /\ e.outcome \notin {"succeeded", "failed"} -> "malformed_event"
      [] e.version = 1 /\ e.op \in DOMAIN Errors
           /\ e.outcome \in {"succeeded", "failed"} ->
         IF e.name # <<e.op, e.outcome>> THEN "unknown_name"
         ELSE IF e.outcome = "failed" THEN
              IF e.code \in Errors[e.op] THEN "ok" ELSE "malformed_event"
         ELSE IF e.code = NoCode THEN "ok" ELSE "malformed_event"

\* The refusal of the first event that is not valid.
FirstRefusal(batch) ==
    LET bad == {i \in DOMAIN batch : Verdict(batch[i]) # "ok"}
    IN  IF bad = {} THEN "ok"
        ELSE Verdict(batch[CHOOSE i \in bad : \A j \in bad : i <= j])

Idle == [phase |-> "idle", hydrates |-> FALSE, batch |-> <<>>, todo |-> <<>>,
         work |-> <<>>]

\* The call of p ends; its transaction, if any, is closed.
Ends(p, how) ==
    /\ call' = [call EXCEPT ![p] = Idle]
    /\ answer' = [answer EXCEPT ![p] = how]
    /\ holder' = IF holder = p THEN NoOne ELSE holder

\* publish before it touches the file: validation and the conflicts inside
\* the batch.
Publish(p, batch) ==
    /\ call[p].phase = "idle" /\ calls < MaxCalls /\ up
    /\ calls' = calls + 1
    /\ IF FirstRefusal(batch) # "ok" THEN Ends(p, FirstRefusal(batch))
       ELSE IF Stream!Contradicts(batch, batch) THEN Ends(p, "duplicate_conflict")
       ELSE /\ call' = [call EXCEPT ![p] = [Idle EXCEPT
                           !.phase = "asking", !.batch = batch,
                           !.todo = Stream!New(<<>>, batch)]]
            /\ UNCHANGED <<holder, answer>>
    /\ UNCHANGED <<outbox, rotten, acked, kept, up>>

\* The events setter: every row is replaced by the list.
Hydrate(p) ==
    /\ InMemory /\ ~up /\ call[p].phase = "idle"
    /\ call' = [call EXCEPT ![p] = [Idle EXCEPT
                   !.phase = "asking", !.hydrates = TRUE, !.todo = kept]]
    /\ UNCHANGED <<outbox, rotten, holder, answer, acked, kept, up, calls>>

BadBegin(p) ==
    /\ call[p].phase = "asking"
    /\ holder' = p
    /\ call' = [call EXCEPT
          ![p].phase = IF call[p].hydrates THEN "writing" ELSE "reading",
          ![p].work = IF call[p].hydrates THEN <<>> ELSE outbox]
    /\ UNCHANGED <<outbox, rotten, answer, acked, kept, up, calls>>

\* BEGIN IMMEDIATE takes the write lock of the file.
Begin(p) ==
    /\ call[p].phase = "asking" /\ holder = NoOne
    /\ holder' = p
    /\ call' = [call EXCEPT
          ![p].phase = IF call[p].hydrates THEN "writing" ELSE "reading",
          ![p].work = IF call[p].hydrates THEN <<>> ELSE outbox]
    /\ UNCHANGED <<outbox, rotten, answer, acked, kept, up, calls>>

\* The lock was not free before SQLite's timeout.
Busy(p) ==
    /\ call[p].phase = "asking" /\ holder \notin {NoOne, p}
    /\ Ends(p, "publication_failure")
    /\ UNCHANGED <<outbox, rotten, acked, kept, up, calls>>

\* The rows are read and decoded, and the batch compared with them.
Check(p) ==
    /\ call[p].phase = "reading"
    /\ IF rotten # {} THEN Ends(p, "publication_failure")
       ELSE IF Stream!Contradicts(call[p].work, call[p].todo)
       THEN Ends(p, "duplicate_conflict")
       ELSE /\ call' = [call EXCEPT
                  ![p].phase = "writing",
                  ![p].todo = Stream!New(call[p].work, @)]
            /\ UNCHANGED <<holder, answer>>
    /\ UNCHANGED <<outbox, rotten, acked, kept, up, calls>>

BadInsert(p) ==
    /\ call[p].phase = "writing" /\ call[p].todo # <<>>
    /\ outbox' = Append(outbox, Head(call[p].todo))
    /\ call' = [call EXCEPT ![p].work = Append(@, Head(call[p].todo)),
                            ![p].todo = Tail(@)]
    /\ UNCHANGED <<rotten, holder, answer, acked, kept, up, calls>>

\* One INSERT; event_id is UNIQUE.
Insert(p) ==
    /\ call[p].phase = "writing" /\ call[p].todo # <<>>
    /\ IF Stream!Knows(call[p].work, Head(call[p].todo))
       THEN Ends(p, "publication_failure")
       ELSE /\ call' = [call EXCEPT ![p].work = Append(@, Head(call[p].todo)),
                                    ![p].todo = Tail(@)]
            /\ UNCHANGED <<holder, answer>>
    /\ UNCHANGED <<outbox, rotten, acked, kept, up, calls>>

\* An error of the file, a COMMIT that SQLite refuses, or fail_commit.
Fail(p) ==
    /\ call[p].phase \in {"reading", "writing"}
    /\ Ends(p, "publication_failure")
    /\ UNCHANGED <<outbox, rotten, acked, kept, up, calls>>

\* COMMIT: the rows of the transaction become those of the file.
Commit(p) ==
    /\ call[p].phase = "writing" /\ call[p].todo = <<>>
    /\ outbox' = call[p].work
    /\ rotten' = IF call[p].hydrates THEN {} ELSE rotten
    /\ call' = [call EXCEPT ![p].phase = "committed"]
    /\ holder' = NoOne
    /\ up' = TRUE
    /\ UNCHANGED <<answer, acked, kept, calls>>

\* publish returns the count of rows.
Return(p) ==
    /\ call[p].phase = "committed"
    /\ Ends(p, "committed")
    /\ acked' = IF call[p].hydrates THEN acked ELSE acked \union {call[p].batch}
    /\ UNCHANGED <<outbox, rotten, kept, up, calls>>

\* The events property: refuses if a row does not decode.
ReadEvents(p) ==
    /\ call[p].phase = "idle" /\ up /\ rotten = {} /\ kept # outbox
    /\ calls < MaxCalls
    /\ kept' = outbox
    /\ calls' = calls + 1
    /\ UNCHANGED <<outbox, rotten, holder, call, answer, acked, up>>

\* The process of p dies; what it published in memory is gone, and what the
\* host had read of it is what it can give back.
Crash(p) ==
    /\ call[p].phase # "idle" \/ InMemory
    /\ up /\ calls < MaxCalls
    /\ calls' = calls + 1
    /\ Ends(p, "unknown")
    /\ IF InMemory
       THEN /\ outbox' = <<>> /\ rotten' = {} /\ up' = FALSE
            /\ acked' = {b \in acked : \A i \in DOMAIN b : Stream!Knows(kept, b[i])}
       ELSE UNCHANGED <<outbox, rotten, up, acked>>
    /\ UNCHANGED kept

\* A stored envelope is damaged.
Rot(i) ==
    /\ holder = NoOne /\ rotten = {} /\ calls < MaxCalls
    /\ rotten' = {i}
    /\ calls' = calls + 1
    /\ UNCHANGED <<outbox, holder, call, answer, acked, kept, up>>

LedgerInit ==
    /\ outbox = <<>> /\ rotten = {} /\ holder = NoOne
    /\ call = [p \in Publishers |-> Idle]
    /\ answer = [p \in Publishers |-> "none"]
    /\ acked = {} /\ kept = <<>> /\ up = TRUE /\ calls = 0

LedgerNext ==
    \/ \E p \in Publishers :
        \/ \E batch \in Proposals : Publish(p, batch)
        \/ Hydrate(p) \/ Begin(p) \/ Busy(p) \/ Check(p) \/ Insert(p)
        \/ Fail(p) \/ Commit(p) \/ Return(p) \/ ReadEvents(p) \/ Crash(p)
    \/ \E i \in DOMAIN outbox : Rot(i)

LedgerSpec == LedgerInit /\ [][LedgerNext]_ledgerVars
-----------------------------------------------------------------------------
\* Every committed row holds a valid envelope, at most one call is inside a
\* transaction, and it is the one that holds the file (Ledger.publish).
LedgerTypeOK ==
    /\ \A i \in DOMAIN outbox : Verdict(outbox[i]) = "ok"
    /\ rotten \subseteq DOMAIN outbox
    /\ {p \in Publishers : call[p].phase \in {"reading", "writing"}} =
          (IF holder = NoOne THEN {} ELSE {holder})
    /\ acked \subseteq Proposals
    /\ answer \in [Publishers ->
          {"none", "unknown", "committed", "publication_failure",
           "duplicate_conflict", "malformed_event", "unknown_name",
           "unsupported_version"}]

\* Every event of a batch whose publish returned a count stays in the outbox
\* with the content it was published with, whatever other publishers do.
AckedWhole ==
    up => \A batch \in acked : \A k \in DOMAIN batch :
        \E i \in DOMAIN outbox : outbox[i] = batch[k]

\* A consumer that reads committed rows has read a beginning of the stream,
\* never a row that a later rollback takes back (the events property).
ReadStays == up => IsPrefix(kept, outbox)

\* What the outbox is worth at any time, to publishers and to readers.
OutboxWhole == LedgerTypeOK /\ AckedWhole /\ ReadStays

\* The outbox changes as the promised stream does: by whole batches.
StreamPromise == Stream!StreamSpec
=============================================================================
