-------------------------- MODULE IdentityAdmission --------------------------
(***************************************************************************)
(* decide() of server/identity_admission.py, inside the transaction its    *)
(* contract asks of the caller: the counters, the idempotency record and   *)
(* the identity effect are committed together or not at all.               *)
(*                                                                         *)
(* Two fixed windows count an attempt, one of its account and one of its   *)
(* source.  The clock is the caller's and may step back.                   *)
(***************************************************************************)
EXTENDS Integers, FiniteSets, Functions

CONSTANTS
    Callers,   \* processes that serve register and login
    Attempts,  \* records [key, body, op, account, source] clients may send
    Capacity,  \* policy: attempts per window, of each scope
    Window,    \* policy: length of the window, of each scope
    MaxTime,   \* bound of the model: the clock
    NoAttempt

Scopes == {"account", "source"}

AdmissionConstants ==
    /\ Capacity \in [Scopes -> Nat \ {0}]
    /\ Window \in [Scopes -> Nat \ {0}]
    /\ MaxTime \in Nat

VARIABLES
    store,   \* committed counters: (operation, scope, id) -> [slot, count]
    done,    \* committed idempotency records: attempts that took effect
    now,     \* the clock
    tx,      \* the transaction of each caller
    history  \* the effects that took place: the attempt and its time

admissionVars == <<store, done, now, tx, history>>

Identifier(a, scope) == IF scope = "account" THEN a.account ELSE a.source
Bucket(a, scope) == <<a.op, scope, Identifier(a, scope)>>
Slot(t, scope) == t \div Window[scope]

\* What the bucket of the attempt holds; a missing one counts nothing.
Held(state, a, scope, t) ==
    IF Bucket(a, scope) \in DOMAIN state THEN state[Bucket(a, scope)]
    ELSE [slot |-> Slot(t, scope), count |-> 0]

\* The count in the window of time t.
Count(state, a, scope, t) ==
    IF Held(state, a, scope, t).slot = Slot(t, scope)
    THEN Held(state, a, scope, t).count ELSE 0

\* The bucket is of a later window, or holds more than it may.
Ahead(state, a, scope, t) ==
    LET held == Held(state, a, scope, t)
    IN  \/ held.slot > Slot(t, scope)
        \/ held.slot = Slot(t, scope) /\ held.count > Capacity[scope]

\* decide of an attempt that is not replayed.
Decide(state, a, t) ==
    LET Verdict(scope) ==
            IF Ahead(state, a, scope, t) THEN "internal"
            ELSE IF Count(state, a, scope, t) >= Capacity[scope]
            THEN "rate_limited" ELSE "admit"
    IN  IF Verdict("account") # "admit" THEN Verdict("account")
        ELSE Verdict("source")

\* The snapshot decide returns: both buckets with one attempt more.
Counted(state, a, t) ==
    [b \in DOMAIN state \union {Bucket(a, scope) : scope \in Scopes} |->
        IF \E scope \in Scopes : b = Bucket(a, scope)
        THEN LET scope == CHOOSE s \in Scopes : b = Bucket(a, s)
             IN  [slot |-> Slot(t, scope), count |-> Count(state, a, scope, t) + 1]
        ELSE state[b]]

NoTx == [attempt |-> NoAttempt, state |-> <<>>, at |-> 0, answer |-> "none"]
Open(c) == tx[c].attempt # NoAttempt

BadBeginAttempt(c, a) ==
    /\ ~Open(c)
    /\ tx' = [tx EXCEPT ![c] = [attempt |-> a, state |-> store, at |-> now,
                                answer |-> "none"]]
    /\ UNCHANGED <<store, done, now, history>>

\* The caller opens its transaction and reads the snapshot and the clock.
BeginAttempt(c, a) ==
    /\ \A d \in Callers : ~Open(d)
    /\ tx' = [tx EXCEPT ![c] = [attempt |-> a, state |-> store, at |-> now,
                                answer |-> "none"]]
    /\ UNCHANGED <<store, done, now, history>>

Prior(c) == {d \in done : d.key = tx[c].attempt.key}

\* The idempotency lookup, then decide.
Decided(c) ==
    /\ Open(c) /\ tx[c].answer = "none"
    /\ IF Prior(c) # {}
       THEN tx' = [tx EXCEPT ![c].answer =
                IF \E d \in Prior(c) : d.body = tx[c].attempt.body
                THEN "replay" ELSE "idempotency_conflict"]
       ELSE LET verdict == Decide(tx[c].state, tx[c].attempt, tx[c].at)
            IN  tx' = [tx EXCEPT
                  ![c].answer = verdict,
                  ![c].state = IF verdict = "admit"
                               THEN Counted(@, tx[c].attempt, tx[c].at) ELSE @]
    /\ UNCHANGED <<store, done, now, history>>

\* The effect and the counters are committed.
CommitAttempt(c) ==
    /\ Open(c) /\ tx[c].answer = "admit"
    /\ store' = tx[c].state
    /\ done' = done \union {tx[c].attempt}
    /\ history' = history \union {[attempt |-> tx[c].attempt, at |-> tx[c].at]}
    /\ tx' = [tx EXCEPT ![c] = NoTx]
    /\ UNCHANGED now

\* A refusal, a replay, a failed effect or a crash: nothing is committed.
Refused(c) ==
    /\ Open(c)
    /\ tx' = [tx EXCEPT ![c] = NoTx]
    /\ UNCHANGED <<store, done, now, history>>

\* The clock is read as any time: it may step back.
SetClock(t) == t # now /\ now' = t /\ UNCHANGED <<store, done, tx, history>>

AdmissionInit ==
    /\ store = [b \in {} |-> 0] /\ done = {} /\ now = 0
    /\ tx = [c \in Callers |-> NoTx] /\ history = {}

AdmissionNext ==
    \/ \E c \in Callers :
        \/ \E a \in Attempts : BeginAttempt(c, a)
        \/ Decided(c) \/ CommitAttempt(c) \/ Refused(c)
    \/ \E t \in 0..MaxTime : SetClock(t)

AdmissionSpec == AdmissionInit /\ [][AdmissionNext]_admissionVars
-----------------------------------------------------------------------------
InBucket(b, slot) ==
    {e \in history : \E scope \in Scopes :
        b = Bucket(e.attempt, scope) /\ Slot(e.at, scope) = slot}

\* However callers race, fail and retry, and wherever the clock jumps, no
\* window of an account or of a source sees more effects than its capacity.
LimitHeld ==
    \A e \in history : \A scope \in Scopes :
        Cardinality(InBucket(Bucket(e.attempt, scope), Slot(e.at, scope)))
            <= Capacity[scope]

\* The counters are exact: what a bucket counts are the effects in its window,
\* so a refused, failed or replayed attempt has used nothing up.
CountsExact ==
    \A b \in DOMAIN store :
        store[b].count = Cardinality(InBucket(b, store[b].slot))

\* An attempt takes effect once however often its client sends it.
EffectOnce ==
    \A d, e \in history : d.attempt.key = e.attempt.key => d = e

\* What admission promises, whatever its callers do.
AdmissionExact == LimitHeld /\ CountsExact /\ EffectOnce
=============================================================================
