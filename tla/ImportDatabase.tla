--------------------------- MODULE ImportDatabase ---------------------------
(***************************************************************************)
(* The importer of ingest/streaming.py over its SQLite database: rows are  *)
(* keyed by content, inserted unless they are there, and committed every   *)
(* few games.  A process may die at any moment, which loses what it has    *)
(* not committed, and two may import at once: the database has one writer. *)
(***************************************************************************)
EXTENDS Integers, Sequences, FiniteSets, FiniteSetsExt

CONSTANTS
    Procs,
    Inputs,       \* files: [source, games], the games as content keys
    Limits,       \* values of the parameter limit, or Nothing
    Every,        \* games between two commits (500)
    MaxRuns, MaxCrashes,  \* bounds: runs started, processes that die
    Nothing               \* None: no limit, no writer, no input

VARIABLES
    rows,     \* committed rows: key -> [seq, source]
    log,      \* import_runs: what each finished run says of itself
    tx,       \* rows inserted and not yet committed, per process
    writer,   \* the process that holds the write lock, or Nothing
    run,      \* what each process is doing
    runs, crashes

DbConstants == Nothing \notin Procs

dbVars == <<rows, log, tx, writer, run, runs, crashes>>
NoRows == [k \in {} |-> Nothing]
Idle == [pc |-> "idle", input |-> [source |-> Nothing, games |-> <<>>], limit |-> Nothing,
         emitted |-> 0, inserted |-> 0]

DbInit ==
    /\ rows = NoRows /\ log = <<>> /\ tx = [p \in Procs |-> NoRows]
    /\ writer = Nothing /\ run = [p \in Procs |-> Idle] /\ runs = 0 /\ crashes = 0

Merged(old, new) ==
    [k \in DOMAIN old \union DOMAIN new |-> IF k \in DOMAIN old THEN old[k] ELSE new[k]]

Start(p, input, limit) ==
    /\ run[p].pc = "idle" /\ runs < MaxRuns /\ runs' = runs + 1
    /\ run' = [run EXCEPT ![p] = [Idle EXCEPT !.pc = "game", !.input = input, !.limit = limit]]
    /\ UNCHANGED <<rows, log, tx, writer, crashes>>

Limited(p, emitted) == run[p].limit # Nothing /\ emitted >= run[p].limit
More(p) == run[p].emitted < Len(run[p].input.games) /\ ~ (run[p].emitted > 0 /\ Limited(p, run[p].emitted))

BadInsertReplace(p) ==
    LET seq == run[p].emitted
        key == run[p].input.games[seq + 1]
        row == [k \in {key} |-> [seq |-> seq, source |-> run[p].input.source]]
    IN  /\ run[p].pc = "game" /\ More(p) /\ writer \in {Nothing, p}
        /\ writer' = p
        /\ tx' = [tx EXCEPT ![p] = Merged(row, @)]
        /\ run' = [run EXCEPT ![p].emitted = @ + 1, ![p].inserted = @ + 1,
              ![p].pc = IF ~ Limited(p, seq + 1) /\ (seq + 1) % Every = 0 THEN "flush" ELSE "game"]
        /\ UNCHANGED <<rows, log, runs, crashes>>
\* INSERT OR IGNORE: the statement takes the write lock whatever it inserts.
Insert(p) ==
    LET seq == run[p].emitted
        key == run[p].input.games[seq + 1]
        new == key \notin DOMAIN rows \union DOMAIN tx[p]
        row == [k \in {key} |-> [seq |-> seq, source |-> run[p].input.source]]
    IN  /\ run[p].pc = "game" /\ More(p) /\ writer \in {Nothing, p}
        /\ writer' = p
        /\ tx' = IF new THEN [tx EXCEPT ![p] = Merged(@, row)] ELSE tx
        /\ run' = [run EXCEPT ![p].emitted = @ + 1, ![p].inserted = @ + IF new THEN 1 ELSE 0,
              ![p].pc = IF ~ Limited(p, seq + 1) /\ (seq + 1) % Every = 0 THEN "flush" ELSE "game"]
        /\ UNCHANGED <<rows, log, runs, crashes>>

Committed(p) ==
    /\ rows' = Merged(tx[p], rows)
    /\ tx' = [tx EXCEPT ![p] = NoRows]
    /\ writer' = IF writer = p THEN Nothing ELSE writer
BadFlush(p) ==
    /\ run[p].pc = "flush" /\ Committed(p)
    /\ run' = [run EXCEPT ![p].pc = "game", ![p].emitted = 0]
    /\ UNCHANGED <<log, runs, crashes>>
Flush(p) ==
    /\ run[p].pc = "flush" /\ Committed(p)
    /\ run' = [run EXCEPT ![p].pc = "game"]
    /\ UNCHANGED <<log, runs, crashes>>
BadCommitGames(p) ==
    /\ run[p].pc = "game" /\ ~ More(p)
    /\ run' = [run EXCEPT ![p].pc = "record"]
    /\ tx' = [tx EXCEPT ![p] = NoRows] /\ writer' = IF writer = p THEN Nothing ELSE writer
    /\ UNCHANGED <<rows, log, runs, crashes>>
CommitGames(p) ==
    /\ run[p].pc = "game" /\ ~ More(p) /\ Committed(p)
    /\ run' = [run EXCEPT ![p].pc = "record"]
    /\ UNCHANGED <<log, runs, crashes>>
\* The row of the run, in a transaction of its own.
Record(p) ==
    /\ run[p].pc = "record" /\ writer = Nothing
    /\ log' = Append(log, [input |-> run[p].input, emitted |-> run[p].emitted,
                           inserted |-> run[p].inserted])
    /\ run' = [run EXCEPT ![p] = Idle]
    /\ UNCHANGED <<rows, tx, writer, runs, crashes>>

\* SQLite waits five seconds for the write lock, then the statement raises.
TimeOut(p) ==
    /\ writer \notin {Nothing, p} /\ ((run[p].pc = "game" /\ More(p)) \/ run[p].pc = "record")
    /\ run' = [run EXCEPT ![p] = Idle]
    /\ UNCHANGED <<rows, log, tx, writer, runs, crashes>>
\* The process dies.
Crash(p) ==
    /\ run[p].pc # "idle" /\ crashes < MaxCrashes /\ crashes' = crashes + 1
    /\ tx' = [tx EXCEPT ![p] = NoRows]
    /\ writer' = IF writer = p THEN Nothing ELSE writer
    /\ run' = [run EXCEPT ![p] = Idle]
    /\ UNCHANGED <<rows, log, runs>>

Step(p) == Insert(p) \/ Flush(p) \/ CommitGames(p) \/ Record(p) \/ TimeOut(p)
DbNext == \E p \in Procs :
    \/ \E input \in Inputs, limit \in Limits : Start(p, input, limit)
    \/ Step(p)
    \/ Crash(p)
DbSpec == DbInit /\ [][DbNext]_dbVars
\* A run goes on: a statement is served or raises.
FairDbSpec == DbSpec /\ \A p \in Procs : WF_dbVars(Step(p))
-----------------------------------------------------------------------------
\* A run that is on record has its games in the database, up to its limit,
\* whatever died before it or wrote beside it.
RecordedIsStored == \A n \in DOMAIN log : \A k \in 1 .. log[n].emitted :
    log[n].input.games[k] \in DOMAIN rows

\* A game keeps the place it was first seen at: importing again or elsewhere
\* changes no row and removes none.
FirstSeenStays == [][\A k \in DOMAIN rows :
    k \in DOMAIN rows' /\ rows'[k] = rows[k]]_dbVars

\* No two runs count one row, and if every run came to its end every row is
\* counted.
Counted ==
    LET counted == MapThenSumSet(LAMBDA n : log[n].inserted, DOMAIN log)
    IN  /\ counted <= Cardinality(DOMAIN rows)
        /\ runs = Len(log) /\ (\A p \in Procs : run[p].pc = "idle")
             => counted = Cardinality(DOMAIN rows)

\* Every run ends: two importers share the database without waiting for each
\* other for ever.
RunsEnd == \A p \in Procs : run[p].pc # "idle" ~> run[p].pc = "idle"
=============================================================================
