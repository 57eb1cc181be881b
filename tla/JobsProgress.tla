----------------------------- MODULE JobsProgress -----------------------------
(***************************************************************************)
(* Progress reports: report() of server/jobs_progress.py.                  *)
(*                                                                         *)
(* The function keeps nothing.  A reporter hands its last record back with *)
(* every request, and the record's progress_id is a digest of the record,  *)
(* so the fields stand for it (`sealed` is the content the identifier was  *)
(* computed from).  Any reporter may start over without a record, pass its *)
(* record to another reporter, or damage it.                               *)
(***************************************************************************)
EXTENDS Integers, Sequences

CONSTANTS
    Reporters,  \* workers that report on the job
    Totals,     \* totals a first report may fix
    LastNow,    \* MAX_NOW
    BP,         \* BP
    MaxReports  \* bound of the model: reports in one chain

ProgressConstants ==
    /\ Totals \subseteq Nat \ {0}
    /\ LastNow \in Nat
    /\ BP \in Nat \ {0}
    /\ MaxReports \in Nat

VARIABLES
    last,   \* the record each reporter holds, <<>> for None
    chain   \* history: the records of the chain that ends in that record

progressVars == <<last, chain>>

Moments == 0..LastNow

Percent(done, total) == (done * BP) \div total

\* _progress_id: the fields of the record without the identifier.
Content(worker, done, total, percent, at, previous) ==
    <<worker, done, total, percent, at, previous>>

Record(worker, done, total, at, previous) ==
    LET content == Content(worker, done, total, Percent(done, total), at,
                           previous)
    IN  [worker |-> worker, done |-> done, total |-> total,
         percent |-> Percent(done, total), at |-> at, previous |-> previous,
         sealed |-> content]

PreviousOK(r) ==
    /\ r.total >= 1
    /\ r.done \in 0..r.total
    /\ r.at \in Moments
    /\ r.percent = Percent(r.done, r.total)
    /\ r.sealed = Content(r.worker, r.done, r.total, r.percent, r.at,
                          r.previous)

ChainOK(r, worker, done, total, now) ==
    /\ r.worker = worker
    /\ r.total = total
    /\ r.done < r.total
    /\ done >= r.done
    /\ now >= r.at

\* A reporter that received another's record, or damaged its own, holds a record
\* whose chain it does not know.
report(w, done, total, now) ==
    /\ done <= total
    /\ last[w] # <<>> =>
         PreviousOK(last[w]) /\ ChainOK(last[w], w, done, total, now)
    /\ LET previous == IF last[w] = <<>> THEN <<>> ELSE last[w].sealed
           record == Record(w, done, total, now, previous)
       IN  /\ last' = [last EXCEPT ![w] = record]
           /\ chain' = [chain EXCEPT ![w] = Append(@, record)]

StartOver(w) ==
    /\ last' = [last EXCEPT ![w] = <<>>]
    /\ chain' = [chain EXCEPT ![w] = <<>>]

\* The job moves to another worker, and the record with it.
HandOver(v, w) ==
    /\ last[v] # <<>>
    /\ last' = [last EXCEPT ![w] = last[v]]
    /\ chain' = [chain EXCEPT ![w] = chain[v]]

\* One field of the record is changed and the identifier kept.
Damage(w) ==
    /\ last[w] # <<>>
    /\ \E r \in {[last[w] EXCEPT !.done = d] : d \in 0..last[w].total}
               \cup {[last[w] EXCEPT !.at = 0]}
               \cup {[last[w] EXCEPT !.total = t] : t \in Totals} :
          last' = [last EXCEPT ![w] = r]
    /\ UNCHANGED chain

ProgressInit ==
    /\ last = [w \in Reporters |-> <<>>]
    /\ chain = [w \in Reporters |-> <<>>]

ProgressNext ==
    \E w \in Reporters :
        \/ /\ Len(chain[w]) < MaxReports
           /\ \E total \in Totals, now \in Moments : \E done \in 0..total :
                report(w, done, total, now)
        \/ StartOver(w)
        \/ \E v \in Reporters : HandOver(v, w)
        \/ Damage(w)

ProgressSpec == ProgressInit /\ [][ProgressNext]_progressVars

-----------------------------------------------------------------------------
(***************************************************************************)
(* Properties.                                                             *)
(***************************************************************************)

\* Along a chain, whoever held its records meanwhile and whatever was damaged in
\* between, work done, share and time never go back, the total stays, and
\* nothing follows the report of completion.
ChainMonotone ==
    \A w \in Reporters : \A i, j \in DOMAIN chain[w] : i < j =>
        /\ chain[w][i].total = chain[w][j].total
        /\ chain[w][i].worker = chain[w][j].worker
        /\ chain[w][i].done <= chain[w][j].done
        /\ chain[w][i].percent <= chain[w][j].percent
        /\ chain[w][i].at <= chain[w][j].at
        /\ chain[w][i].done < chain[w][i].total

\* A report says 100 percent exactly when the job is complete, and a record the
\* function issued is never refused as corrupt.
IssuedHonest ==
    \A w \in Reporters : \A i \in DOMAIN chain[w] :
        /\ PreviousOK(chain[w][i])
        /\ chain[w][i].percent = BP <=> chain[w][i].done = chain[w][i].total
=============================================================================
