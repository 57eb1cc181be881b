------------------------------ MODULE StoreLog ------------------------------
(***************************************************************************)
(* The write-ahead log of the graph store and the three programs that cut  *)
(* it: WalEngine (store/wal.py), crash resume (store/crash_resume.py), the *)
(* corruption scan (store/corruption.py) and the rollback                  *)
(* (store/rollback.py).                                                    *)
(*                                                                         *)
(* An entry id is a digest of the sequence, the op, the canonical payload  *)
(* and the prior id; the chain it digests stands for it, so an id is the   *)
(* sequence of everything committed up to the entry, and its length is the *)
(* entry's sequence number.  Everything that makes an entry malformed is   *)
(* one value, Garbled.                                                     *)
(*                                                                         *)
(* The caller of these programs is not in the repository.  It decides when *)
(* the log is durable and passes that position to a resume as its          *)
(* checkpoint; a crash spares the entries up to there, bit rot does not.   *)
(***************************************************************************)
EXTENDS Integers, Sequences, SequencesExt

CONSTANTS
    Records,     \* node records
    Identity,    \* Identity[r]: the identity of record r
    MaxLog,      \* bound: entries in the log
    Faults,      \* which of "crash", "rot", "lie" happen
    OtherText,   \* a canonical payload no honest canonicalizer returns
    Garbled,     \* canonical JSON that is no WAL entry
    Odd,         \* the same, outside the domain of the corruption scan only
    Alien        \* no canonical JSON at all

LogConstants ==
    /\ MaxLog \in Nat
    /\ Faults \subseteq {"crash", "rot", "lie"}
    /\ OtherText \notin Records

VARIABLES
    log,    \* the entries
    acked   \* history: the operations the caller has made durable

vars == <<log, acked>>

Ops == [kind : {"put", "delete"}, rec : Records]
Wreckage == {Garbled, Odd, Alien}

-----------------------------------------------------------------------------
\* The chain.  A definition named Bad... is not used: it is a faulty variant of
\* the one after it, and shows that a property can fail.

Genesis == <<>>

\* _derive_entry_id; `text` is what the canonicalizer returned.
Derive(op, text, prior) == Append(prior, <<op.kind, text>>)

Entry(op, text, prior) ==
    [op |-> op, id |-> Derive(op, text, prior), prior |-> prior]

Tip(l) == IF l = <<>> THEN Genesis ELSE Last(l).id
Cut(l, n) == SubSeq(l, 1, n)

\* One entry under _validate_entry and _rederive, after an entry with id tip.
BadRederives(entry, text, tip) == entry.op \in Ops /\ entry.prior = tip
Rederives(entry, text, tip) ==
    /\ entry.op \in Ops
    /\ entry.prior = tip
    /\ entry.id = Derive(entry.op, text, tip)

\* The log replays under the trusted canonicalizer.
Replays(l) ==
    \A i \in DOMAIN l : Rederives(l[i], l[i].op.rec, Tip(Cut(l, i - 1)))

\* Some canonicalizer passes the log: an id need not be the honest one.
Accepted(l) ==
    \A i \in DOMAIN l : \E text \in Records \cup {OtherText} :
        Rederives(l[i], text, Tip(Cut(l, i - 1)))

\* _valid_prefix_length, the search downwards.
BadValidLength(l) ==
    CHOOSE k \in 0 .. Len(l) :
        /\ \A i \in 1 .. k : l[i].op \in Ops
        /\ k < Len(l) => l[k + 1].op \notin Ops
ValidLength(l) ==
    CHOOSE k \in 0 .. Len(l) :
        /\ Replays(Cut(l, k))
        /\ \A n \in k + 1 .. Len(l) : ~ Replays(Cut(l, n))

\* _verified_prefix, the binary search.
BadBinaryLength(l) ==
    LET search[span \in (0 .. Len(l)) \X (0 .. Len(l))] ==
          LET good == span[1]
              bad  == span[2]
              mid  == (good + bad) \div 2
          IN IF bad - good <= 1 THEN good
             ELSE IF Replays(Cut(l, mid)) THEN search[<<mid, bad>>]
                                          ELSE search[<<good, mid>>]
    IN IF Replays(l) THEN Len(l) ELSE search[<<0, Len(l) - 1>>]
BinaryLength(l) ==
    LET search[span \in (0 .. Len(l)) \X (0 .. Len(l))] ==
          LET good == span[1]
              bad  == span[2]
              mid  == (good + bad) \div 2
          IN IF bad - good <= 1 THEN good
             ELSE IF Replays(Cut(l, mid)) THEN search[<<mid, bad>>]
                                          ELSE search[<<good, mid>>]
    IN IF Replays(l) THEN Len(l) ELSE search[<<0, Len(l)>>]

OpsOf(l) == [i \in DOMAIN l |-> l[i].op]

\* The fold of replay: the records by identity.
BadApply(state, op) ==
    LET id == Identity[op.rec]
    IN IF op.kind = "put"
       THEN [i \in DOMAIN state \cup {id} |-> IF i \in DOMAIN state THEN state[i] ELSE op.rec]
       ELSE [i \in DOMAIN state \ {id} |-> state[i]]
Apply(state, op) ==
    LET id == Identity[op.rec]
    IN IF op.kind = "put"
       THEN [i \in DOMAIN state \cup {id} |-> IF i = id THEN op.rec ELSE state[i]]
       ELSE [i \in DOMAIN state \ {id} |-> state[i]]
StateOf(ops) ==
    LET after[n \in 0 .. Len(ops)] ==
          IF n = 0 THEN [i \in {} |-> 0] ELSE Apply(after[n - 1], ops[n])
    IN after[Len(ops)]

-----------------------------------------------------------------------------
\* The programs.  A refused call changes nothing and is a stuttering step.

\* append: the canonicalizer is honest, or answers with another text for the
\* new payload only.  The caller may then make the log durable.
AppendEntry(op, text, durable) ==
    /\ Len(log) < MaxLog
    /\ IF text = op.rec THEN Replays(log) ELSE "lie" \in Faults /\ Accepted(log)
    /\ log' = Append(log, Entry(op, text, Tip(log)))
    /\ acked' = IF durable THEN OpsOf(log') ELSE acked

\* resume, with the caller's durable position as the checkpoint.
Resume ==
    LET k == ValidLength(log)
    IN /\ Len(acked) <= Len(log)
       /\ Len(acked) <= k
       /\ \A i \in k + 1 .. Len(log) : log[i].op # Alien
       /\ log' = Cut(log, k)
       /\ UNCHANGED acked

\* scan: it knows no checkpoint.  The caller learns the verified count.
Scan(max_loss) ==
    LET k == BinaryLength(log)
    IN /\ \A i \in DOMAIN log : log[i].op \notin {Alien, Odd}
       /\ k < Len(log)
       /\ Len(log) - k <= max_loss
       /\ log' = Cut(log, k)
       /\ acked' = IF k < Len(acked) THEN Cut(acked, k) ELSE acked

\* rollback to a position the caller chose.
Rollback(target) ==
    /\ Replays(log)
    /\ log' = Cut(log, target)
    /\ acked' = IF target < Len(acked) THEN Cut(acked, target) ELSE acked

-----------------------------------------------------------------------------
\* The environment.

\* Damage replaces an entry's payload, by another one or by wreckage, in an
\* entry that is not damaged yet.
Damage(i, what) ==
    /\ log[i].op \in Ops
    /\ \E text \in {log[i].op.rec, OtherText} :
          Rederives(log[i], text, log[i].prior)
    /\ what # log[i].op
    /\ log' = [log EXCEPT ![i].op = what]

\* A crash loses a part of the log behind the durable position, or tears one
\* entry there.
Crash ==
    /\ "crash" \in Faults
    /\ \/ \E n \in Len(acked) .. Len(log) - 1 : log' = Cut(log, n)
       \/ \E i \in Len(acked) + 1 .. Len(log), what \in {Garbled, Odd} : Damage(i, what)

\* Bit rot reaches every entry, durable or not.
Rot ==
    /\ "rot" \in Faults
    /\ \E i \in DOMAIN log, what \in Ops \cup Wreckage : Damage(i, what)

Fault == (Crash \/ Rot) /\ UNCHANGED acked

LogInit == log = <<>> /\ acked = <<>>

LogNext ==
    \/ \E op \in Ops, text \in Records \cup {OtherText}, durable \in BOOLEAN :
          text \in {op.rec, OtherText} /\ AppendEntry(op, text, durable)
    \/ Resume
    \/ \E max_loss \in 1 .. MaxLog : Scan(max_loss)
    \/ \E target \in 0 .. Len(log) : Rollback(target)
    \/ Fault

LogSpec == LogInit /\ [][LogNext]_vars

\* After a crash somebody resumes the store.
FairLogSpec == LogSpec /\ WF_vars(Resume)

-----------------------------------------------------------------------------
\* What the log says: the operations of its longest prefix that replays.
Visible == OpsOf(Cut(log, ValidLength(log)))

\* The shape of the log: an entry's sequence number is its position, and the
\* durable part is a part of the log.
LogTypeOK ==
    /\ \A i \in DOMAIN log :
          /\ log[i].op \in Ops \cup Wreckage
          /\ Len(log[i].id) = i
    /\ Len(acked) <= Len(log)
    /\ Len(log) <= MaxLog

\* No durable operation is ever answered with another one: whatever was damaged
\* or lied about, an entry of the replayable prefix at a durable position holds
\* the very operation that was made durable there.
AckedIntact ==
    \A i \in 1 .. Len(acked) : i <= ValidLength(log) => log[i].op = acked[i]

\* As long as only crashes happen, the durable operations replay, in their
\* order, at every moment (crash_resume.yaml "durability").
Durable == IsPrefix(acked, Visible)

\* As long as only crashes happen, nothing but a rollback takes a durable
\* operation away: the corruption scan, which knows no checkpoint, does not.
DurableKept == [][Len(acked') < Len(acked) => Replays(log)]_vars

\* A repair, be it a resume or a scan, leaves exactly the longest prefix that
\* replays: no valid entry is dropped, none of the tail behind the first
\* invalid entry is kept.  The two programs search for it differently.
RepairExact ==
    [][~ Replays(log) /\ Replays(log') =>
          \E k \in 0 .. Len(log) :
             /\ log' = Cut(log, k)
             /\ \A n \in k + 1 .. Len(log) : ~ Replays(Cut(log, n))]_vars

\* The replayed state is the last put of each identity with no delete after it.
LastWriterState ==
    LET Touching(id) == {i \in DOMAIN Visible : Identity[Visible[i].rec] = id}
        LastOp(id) == CHOOSE i \in Touching(id) : \A j \in Touching(id) : j <= i
        live == {id \in {Identity[r] : r \in Records} :
                   Touching(id) # {} /\ Visible[LastOp(id)].kind = "put"}
    IN StateOf(Visible) = [id \in live |-> Visible[LastOp(id)].rec]

\* After a crash the log is whole again some day: a resume never refuses what a
\* crash leaves, torn entries included.
Heals == [](~ Replays(log) => <>Replays(log))

\* Under damage, lies and repairs the visible history only ever grows by one
\* operation at its end or is cut: see VersionedLog.
History == INSTANCE VersionedLog WITH history <- Visible, Operations <- Ops
Versioned == History!Spec
-----------------------------------------------------------------------------
\* What the log is worth under any fault: its shape, and no durable operation in
\* it answered with another.
LogIntact == LogTypeOK /\ AckedIntact

\* What a reader gets after any crash: everything durable, and of it the last
\* writer's state.
DurableReads == Durable /\ LastWriterState

\* What the repairs do to a crashed log: they take nothing durable away, and one
\* of them heals it.
RepairsKeep == DurableKept /\ Heals
=============================================================================
