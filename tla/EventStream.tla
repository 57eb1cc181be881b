----------------------------- MODULE EventStream -----------------------------
(***************************************************************************)
(* What the ledger of server/control_plane_events.py promises: a stream of *)
(* events to which a batch is appended whole, each event once.             *)
(***************************************************************************)
EXTENDS Integers, Sequences

CONSTANT
    Proposals  \* the batches a publisher may send, sequences of events

VARIABLE stream

Knows(rows, event) == \E i \in DOMAIN rows : rows[i].id = event.id

\* What a batch adds to rows: its events whose id is not there, each once.
New(rows, batch) ==
    LET added[n \in 0 .. Len(batch)] ==
          IF n = 0 THEN <<>>
          ELSE IF Knows(rows, batch[n]) \/ Knows(added[n - 1], batch[n])
          THEN added[n - 1]
          ELSE Append(added[n - 1], batch[n])
    IN added[Len(batch)]

\* The batch says something else of an id than rows do.
Contradicts(rows, batch) ==
    \E i \in DOMAIN rows, j \in DOMAIN batch :
        rows[i].id = batch[j].id /\ rows[i] # batch[j]

StreamInit == stream = <<>>

Extend(batch) ==
    /\ ~Contradicts(batch, batch)
    /\ ~Contradicts(stream, batch)
    /\ stream' = stream \o New(stream, batch)

StreamNext == \E batch \in Proposals : Extend(batch)

StreamSpec == StreamInit /\ [][StreamNext]_stream
=============================================================================
