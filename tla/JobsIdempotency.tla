--------------------------- MODULE JobsIdempotency ---------------------------
(***************************************************************************)
(* Keyed exactly-once apply over one queue state and one receipt ledger:   *)
(* JobsIdempotencyEngine of server/jobs_idempotency.py, beside the other   *)
(* programs that change the same queue state without knowing the ledger,   *)
(* the bare QueueEngine and the worker restart.                            *)
(*                                                                         *)
(* state_id is a digest of the canonical state, so the state itself stands *)
(* for it; a fingerprint is a digest of the request, so the request stands *)
(* for it.  A receipt's sequence is its index.  One call is one step: the  *)
(* untrusted fingerprinter runs inside it, on copies, and everything it    *)
(* may have rewritten is restored before the commit.                       *)
(***************************************************************************)
EXTENDS JobsQueue, Sequences

CONSTANTS
    IdemKeys,    \* idempotency keys
    Bypassing,   \* which programs bypass the ledger: "queue", "restart"
    OtherCalls,  \* bound: calls that bypass the ledger
    Divergent    \* what a fingerprinter that lies answers

IdemConstants ==
    /\ Bypassing \subseteq {"queue", "restart"}
    /\ OtherCalls \in Nat

VARIABLES
    ledger,   \* the receipts
    effects,  \* history: queue transitions committed for each idempotency key
    others    \* history: calls that bypassed the ledger

idemVars == <<jobs, next_seq, ledger, effects, others>>

StateId == [jobs |-> jobs, next_seq |-> next_seq]

Requests ==
    [op : {"enqueue"}, key : Keys, priority : Priorities, payload : Payloads]
    \cup [op : {"claim"}, worker : Workers, now : Times, lease : Leases]
    \cup [op : {"ack", "nack"}, key : Keys, worker : Workers, now : Times]

\* QueueEngine.apply where it succeeds.  The engine rejects the other requests.
QueueApply(req) ==
    \/ /\ req.op = "enqueue"
       /\ \/ Enqueue(req.key, req.priority, req.payload)
          \/ EnqueueAgain(req.key, req.priority, req.payload)
    \/ /\ req.op = "claim"
       /\ \/ ClaimNone(req.now, req.lease)
          \/ \E k \in Keys : ClaimJob(req.worker, req.now, req.lease, k)
    \/ req.op = "ack" /\ Ack(req.key, req.worker, req.now)
    \/ req.op = "nack" /\ Nack(req.key, req.worker, req.now)

-----------------------------------------------------------------------------
\* _validate_ledger: unique keys, chained state ids, the last one live.
\* The Bad... definitions are faulty variants, never used.

LedgerValid(log, live) ==
    /\ \A i, j \in DOMAIN log : log[i].key = log[j].key => i = j
    /\ \A i \in 1 .. Len(log) - 1 : log[i + 1].prior = log[i].state
    /\ log # <<>> => log[Len(log)].state = live

\* The receipts stored for a key, at most one.
BadStored(key) ==
    {i \in {Len(ledger)} \ {0} : ledger[i].key = key}
Stored(key) == {i \in DOMAIN ledger : ledger[i].key = key}

\* Binding the fingerprinter's token to the request.
Bound(token, req) == token = req

StoredReceipt(key, token) ==
    [key |-> key, fingerprint |-> token, prior |-> StateId, state |-> StateId']

\* An unseen key: one queue transition and one receipt, together.
ApplyNew(key, req, token) ==
    /\ LedgerValid(ledger, StateId)
    /\ Bound(token, req)
    /\ Stored(key) = {}
    /\ QueueApply(req)
    /\ ledger' = Append(ledger, StoredReceipt(key, token))
    /\ effects' = [effects EXCEPT ![key] = @ + 1]
    /\ UNCHANGED others

\* A seen key with the same request returns the stored receipt.  With another
\* request (key_conflict), with a ledger that does not validate
\* (corrupt_ledger) or with a lying fingerprinter (divergent_fingerprint) the
\* call fails, and changes as little.
Replay(key, req, token) ==
    /\ LedgerValid(ledger, StateId)
    /\ Bound(token, req)
    /\ \E i \in Stored(key) : ledger[i].fingerprint = token
    /\ UNCHANGED idemVars

\* QueueEngine.apply or restart, called by a program without the ledger.
Bypass(req) ==
    /\ "queue" \in Bypassing
    /\ others < OtherCalls
    /\ QueueApply(req)
    /\ others' = others + 1
    /\ UNCHANGED <<ledger, effects>>

BypassRestart(w, now) ==
    /\ "restart" \in Bypassing
    /\ others < OtherCalls
    /\ Restart(w, now)
    /\ others' = others + 1
    /\ UNCHANGED <<ledger, effects>>

IdemInit ==
    /\ Init
    /\ ledger = <<>>
    /\ effects = [key \in IdemKeys |-> 0]
    /\ others = 0

IdemNext ==
    \/ \E key \in IdemKeys, req \in Requests : \E token \in {req, Divergent} :
          ApplyNew(key, req, token) \/ Replay(key, req, token)
    \/ \E req \in Requests : Bypass(req)
    \/ \E w \in Workers, now \in Times : BypassRestart(w, now)

IdemSpec == IdemInit /\ [][IdemNext]_idemVars

-----------------------------------------------------------------------------
IdemTypeOK ==
    /\ TypeOK
    /\ \A i \in DOMAIN ledger :
          ledger[i].key \in IdemKeys /\ ledger[i].fingerprint \in Requests
    /\ effects \in [IdemKeys -> Nat]
    /\ others \in 0..OtherCalls

\* A key takes effect at most once, whatever retries, conflicts and foreign
\* calls happen in between, and the receipts say which keys did: a receipt is
\* there exactly for the keys whose transition was committed.
ExactlyOnce ==
    \A key \in IdemKeys :
        /\ effects[key] <= 1
        /\ effects[key] = 1 <=> \E i \in DOMAIN ledger : ledger[i].key = key

\* As long as every change of the queue goes through the engine its own ledger
\* validates, so every retry is answered.
KeyedOnlyValid == others = 0 => LedgerValid(ledger, StateId)

\* The receipts form one chain of states, also after foreign calls.
Chained ==
    \A i \in 1 .. Len(ledger) - 1 : ledger[i + 1].prior = ledger[i].state

\* What a caller with a key may rely on: a keyed request takes effect once, and a
\* ledger that is valid names the queue's live state and nothing else.
KeyedOnce == IdemTypeOK /\ ExactlyOnce /\ KeyedOnlyValid /\ Chained

\* A ledger that a foreign call has made stale stays stale: the queue never
\* comes back to a state it has left, since no operation refunds an attempt,
\* reopens a job or forgets one.  The engine then never commits again, and
\* never mistakes the new history for the old one (jobs_idempotency.yaml
\* "rollback").
StaleForever ==
    [][~ LedgerValid(ledger, StateId) =>
          /\ ~ LedgerValid(ledger', StateId')
          /\ UNCHANGED <<ledger, effects>>]_idemVars

\* jobs_idempotency.yaml "idempotent": a repeated identical keyed request
\* returns the identical receipt.  It can only while the ledger validates.
RepeatsAnswered == ledger # <<>> => LedgerValid(ledger, StateId)

=============================================================================
