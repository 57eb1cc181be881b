------------------------- MODULE IncrementalUpdates -------------------------
(***************************************************************************)
(* The incremental update job (ingest/incremental.py): every pinned        *)
(* snapshot that is not on record is ingested and put on record, one that  *)
(* is on record with another hash is a conflict, and a delta manifest at   *)
(* the end says what was done.  The ingest function may raise and the      *)
(* process may die at any moment.                                          *)
(***************************************************************************)
EXTENDS Integers, Sequences, FiniteSets, SequencesExt

CONSTANTS
    PinLists,    \* lists of pins [id, sha]
    MaxUpdates, MaxFailures,  \* bounds: runs, failures of any kind
    NoUpdate

VARIABLES
    applied,   \* applied_snapshots: id -> sha
    data,      \* what the ingest function has stored: sequence of pins
    update,    \* the run under way: pins, position, entries; or NoUpdate
    delta,     \* the delta manifest on disk, or NoUpdate
    told,      \* pins some manifest has told as ingested
    updates, failures

\* The pins of the lists, and what a run has come to.
Pinned == UNION {ToSet(pins) : pins \in PinLists}
Entries == [pin : Pinned,
            action : {"ingested", "skipped_unchanged", "conflict_hash_changed"}]
Updates == [pins : PinLists, at : Nat \ {0}, entries : Seq(Entries), ingested : BOOLEAN]
UpdateConstants ==
    /\ \A pins \in PinLists : pins \in Seq(ToSet(pins))
    /\ \A pin \in Pinned : pin = [id |-> pin.id, sha |-> pin.sha]
    /\ NoUpdate \notin Updates

updateVars == <<applied, data, update, delta, told, updates, failures>>
UpdateInit ==
    /\ applied = [x \in {} |-> NoUpdate] /\ data = <<>> /\ update = NoUpdate
    /\ delta = NoUpdate /\ told = {} /\ updates = 0 /\ failures = 0

StartUpdate == \E pins \in PinLists :
    /\ update = NoUpdate /\ updates < MaxUpdates /\ updates' = updates + 1
    /\ update' = [pins |-> pins, at |-> 1, entries |-> <<>>, ingested |-> FALSE]
    /\ UNCHANGED <<applied, data, delta, told, failures>>

Pin == update.pins[update.at]
AtPin == update # NoUpdate /\ update.at <= Len(update.pins)
Entry(action) == [update EXCEPT !.at = @ + 1, !.ingested = FALSE,
                             !.entries = Append(@, [pin |-> Pin, action |-> action])]

Ingest ==
    /\ AtPin /\ Pin.id \notin DOMAIN applied /\ ~ update.ingested
    /\ data' = Append(data, Pin) /\ update' = [update EXCEPT !.ingested = TRUE]
    /\ UNCHANGED <<applied, delta, told, updates, failures>>
PutOnRecord ==
    /\ AtPin /\ update.ingested
    /\ applied' = [x \in DOMAIN applied \union {Pin.id} |->
                      IF x = Pin.id THEN Pin.sha ELSE applied[x]]
    /\ update' = Entry("ingested")
    /\ UNCHANGED <<data, delta, told, updates, failures>>
Skip ==
    /\ AtPin /\ Pin.id \in DOMAIN applied /\ ~ update.ingested
    /\ update' = Entry(IF applied[Pin.id] = Pin.sha THEN "skipped_unchanged" ELSE "conflict_hash_changed")
    /\ UNCHANGED <<applied, data, delta, told, updates, failures>>

IngestedIn(entries) == {entries[n].pin : n \in {k \in DOMAIN entries : entries[k].action = "ingested"}}
Publish ==
    /\ update # NoUpdate /\ update.at > Len(update.pins)
    /\ delta' = update.entries /\ told' = told \union IngestedIn(update.entries)
    /\ update' = NoUpdate
    /\ UNCHANGED <<applied, data, updates, failures>>

\* The ingest function raises, or the process dies: the run is over, and no
\* manifest is written.
Fail ==
    /\ update # NoUpdate /\ failures < MaxFailures /\ failures' = failures + 1
    /\ update' = NoUpdate /\ UNCHANGED <<applied, data, delta, told, updates>>

UpdateNext == StartUpdate \/ Ingest \/ PutOnRecord \/ Skip \/ Publish \/ Fail
UpdateSpec == UpdateInit /\ [][UpdateNext]_updateVars
-----------------------------------------------------------------------------
\* A failure costs one repeated ingest at most, and only of the snapshot it
\* interrupted: nothing on record is ever ingested again.
RecordedOnce == [][\A id \in DOMAIN applied :
    /\ id \in DOMAIN applied' /\ applied'[id] = applied[id]
    /\ data' # data => Last(data').id # id]_updateVars

\* What is on record has been ingested with the hash the record says, and a
\* repetition is owed to a failure.
RecordsTrue ==
    /\ \A id \in DOMAIN applied : \E n \in DOMAIN data :
          data[n] = [id |-> id, sha |-> applied[id]]
    /\ Len(data) <= Cardinality(DOMAIN applied) + failures
          + (IF update # NoUpdate /\ update.ingested THEN 1 ELSE 0)

\* When no run is under way, the manifests have told of every change that is on
\* record.
DeltasComplete ==
    update = NoUpdate => \A id \in DOMAIN applied : [id |-> id, sha |-> applied[id]] \in told

\* The same content is ingested once, under whatever name it is pinned.
ContentOnce == failures = 0 => \A i, j \in DOMAIN data : data[i].sha = data[j].sha => i = j
=============================================================================
