-------------------------- MODULE StoreIdempotency --------------------------
(***************************************************************************)
(* Keyed exactly-once append over one log and one receipt ledger:          *)
(* IdempotencyEngine of store/idempotency.py, beside the programs that     *)
(* change the same log without knowing the ledger, the bare append of      *)
(* store/wal.py and the rollback of store/rollback.py.                     *)
(*                                                                         *)
(* A fingerprint is a digest of op and payload, so the operation stands    *)
(* for it.  One call is one step, as in JobsIdempotency; here a receipt    *)
(* names a log entry instead of a state.                                   *)
(***************************************************************************)
EXTENDS StoreLog

CONSTANTS
    IdemKeys,   \* idempotency keys
    Divergent   \* what a fingerprinter that lies answers

VARIABLES
    ledger,  \* the receipts
    origin,  \* history: origin[key] is the log that key was committed with
    undone   \* history: keys whose entry a rollback has removed

idemVars == <<log, acked, ledger, origin, undone>>

-----------------------------------------------------------------------------
\* _validate_ledger.  The Bad... definitions are faulty variants, never used.
BadLedgerNoEntryId(receipts, l) ==
    /\ \A i, j \in DOMAIN receipts :
          /\ receipts[i].key = receipts[j].key => i = j
          /\ i < j => receipts[i].sequence < receipts[j].sequence
    /\ \A i \in DOMAIN receipts :
          /\ receipts[i].sequence <= Len(l)
          /\ l[receipts[i].sequence].op = receipts[i].fingerprint

LedgerValid(receipts, l) ==
    /\ \A i, j \in DOMAIN receipts :
          /\ receipts[i].key = receipts[j].key => i = j
          /\ i < j => receipts[i].sequence < receipts[j].sequence
    /\ \A i \in DOMAIN receipts :
          /\ receipts[i].sequence <= Len(l)
          /\ l[receipts[i].sequence].id = receipts[i].entry
          /\ l[receipts[i].sequence].op = receipts[i].fingerprint

\* The receipt stored for a key, if there is one.
Stored(key) == {i \in DOMAIN ledger : ledger[i].key = key}

\* An unseen key: the entry and its receipt, together.
ApplyNew(key, op, token) ==
    /\ Replays(log)
    /\ LedgerValid(ledger, log)
    /\ token = op
    /\ Stored(key) = {}
    /\ AppendEntry(op, op.rec, FALSE)
    /\ ledger' = Append(ledger, [key |-> key, fingerprint |-> token,
                                 entry |-> Tip(log'), sequence |-> Len(log')])
    /\ origin' = [origin EXCEPT ![key] = OpsOf(log')]
    /\ UNCHANGED undone

\* A seen key with the same operation returns the stored receipt.  Another
\* operation (key_conflict), an invalid log or ledger (corrupt_source,
\* corrupt_ledger) or a lying fingerprinter is refused and changes as little.
Replay(key, op, token) ==
    /\ Replays(log)
    /\ LedgerValid(ledger, log)
    /\ token = op
    /\ \E i \in Stored(key) : ledger[i].fingerprint = token
    /\ UNCHANGED idemVars

\* A caller that appends without a key.
AppendBare(op) ==
    /\ AppendEntry(op, op.rec, FALSE)
    /\ UNCHANGED <<ledger, origin, undone>>

RollbackBare(target) ==
    /\ Rollback(target)
    /\ undone' = undone \cup {key \in IdemKeys : Len(origin[key]) > target}
    /\ UNCHANGED <<ledger, origin>>

IdemInit ==
    /\ LogInit
    /\ ledger = <<>>
    /\ origin = [key \in IdemKeys |-> <<>>]
    /\ undone = {}

IdemNext ==
    \/ \E key \in IdemKeys, op \in Ops : \E token \in {op, Divergent} :
          ApplyNew(key, op, token) \/ Replay(key, op, token)
    \/ \E op \in Ops : AppendBare(op)
    \/ \E target \in 0 .. Len(log) : RollbackBare(target)

IdemSpec == IdemInit /\ [][IdemNext]_idemVars

-----------------------------------------------------------------------------
\* A key is committed at most once, whatever is appended or rolled back around
\* it: not even a rollback of its entry lets it be committed again.
CommittedOnce ==
    [][\A key \in IdemKeys :
         origin[key] # <<>> => origin'[key] = origin[key]]_idemVars

\* Appends without a key and rollbacks that reach no receipt leave the ledger
\* valid, so that every retry is answered.
LedgerFollows == undone = {} => LedgerValid(ledger, log)

\* A receipt that is answered tells the truth about the whole history before it:
\* while the ledger validates, the log still begins with the very log each of
\* its keys was committed with.
AnswersTrue ==
    LedgerValid(ledger, log) =>
        \A key \in IdemKeys : IsPrefix(origin[key], OpsOf(log))

\* What a ledger that is kept beside the log is worth.
KeyedTrue == LedgerFollows /\ AnswersTrue

\* idempotency.yaml "rollback": a log rolled back past a receipt makes the stale
\* ledger fail closed, never replayed.
StaleNeverReplayed == undone # {} => ~ LedgerValid(ledger, log)

=============================================================================
