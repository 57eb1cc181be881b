---------------------------- MODULE PrivacyDelete ----------------------------
(***************************************************************************)
(* The deletion of a collection (desktop/privacy/delete.py): a tombstone,  *)
(* then one erase per local store, each of which may fail and may call     *)
(* back into the deleter; several callers retry, and a call may be         *)
(* interrupted between two erases.                                         *)
(***************************************************************************)
EXTENDS Integers, Sequences, FiniteSets, SequencesExt

CONSTANTS
    Stores,         \* the declared stores, in order
    Callers,        \* calls of delete under way at once
    LastRev,        \* the largest revision
    FirstRevs,      \* revisions the collection may start from
    MaxCalls,       \* bound: calls of delete
    Absent

VARIABLES
    col,     \* the collection: [state, rev, pending], or Absent
    holds,   \* stores that hold data of the collection
    call,    \* caller -> the stores it has yet to erase and those that failed
    decided, \* revisions for which the user decided to delete
    calls    \* calls of delete so far

\* What the deleter keeps of a collection; Absent is nothing of this.
Records == [state : {"live", "deleted"}, rev : 0 .. LastRev, pending : Seq(ToSet(Stores))]
DeleteConstants ==
    /\ Stores \in Seq(ToSet(Stores))
    /\ LastRev \in Nat /\ FirstRevs \subseteq 0 .. LastRev
    /\ Absent \notin Records

deleteVars == <<col, holds, call, decided, calls>>
NoCall == [todo |-> <<>>, left |-> <<>>, active |-> FALSE]

DeleteInit ==
    /\ col = Absent /\ holds = {} /\ call = [k \in Callers |-> NoCall]
    /\ decided = {} /\ calls = 0

\* A deleted collection is never registered again.
Register == \E rev \in FirstRevs :
    /\ col = Absent /\ col' = [state |-> "live", rev |-> rev, pending |-> <<>>]
    /\ UNCHANGED <<holds, call, decided, calls>>

\* What reads and writes ask before they touch a store.
Access == col # Absent /\ col.state = "live"
Write == \E s \in ToSet(Stores) :
    /\ Access /\ holds' = holds \union {s} /\ UNCHANGED <<col, call, decided, calls>>

Decide ==
    /\ col # Absent /\ col.state = "live" /\ decided' = decided \union {col.rev}
    /\ UNCHANGED <<col, holds, call, calls>>

\* delete, up to its first erase: the tombstone names every store still to erase.
Tombstone(k, expected, approved) ==
    /\ ~ call[k].active /\ calls < MaxCalls
    /\ col # Absent /\ expected = col.rev
    /\ col.state = "deleted" \/ approved
    /\ LET targets == IF col.state = "deleted" THEN col.pending ELSE Stores
           rev == IF col.state = "deleted" \/ col.rev = LastRev THEN col.rev ELSE col.rev + 1
       IN  /\ col' = [state |-> "deleted", rev |-> rev, pending |-> targets]
           /\ call' = [call EXCEPT ![k] = [todo |-> targets, left |-> <<>>, active |-> TRUE]]
    /\ calls' = calls + 1 /\ UNCHANGED <<holds, decided>>

\* A caller sends the revision it knows of, with the decision of the user if
\* there is one for that revision.
Delete(k) == \E expected \in 0 .. LastRev : Tombstone(k, expected, expected \in decided)

\* One erase, which works or raises.  A store that holds nothing may raise too.
Erase(k) ==
    /\ call[k].active /\ call[k].todo # <<>>
    /\ \/ /\ holds' = holds \ {Head(call[k].todo)}
          /\ call' = [call EXCEPT ![k].todo = Tail(@)]
       \/ /\ holds' = holds
          /\ call' = [call EXCEPT ![k].todo = Tail(@),
                                  ![k].left = Append(@, Head(call[k].todo))]
    /\ UNCHANGED <<col, decided, calls>>

Settle(k) ==
    /\ call[k].active /\ call[k].todo = <<>>
    /\ col' = [col EXCEPT !.pending = call[k].left]
    /\ call' = [call EXCEPT ![k] = NoCall]
    /\ UNCHANGED <<holds, decided, calls>>

\* An interrupt passes through "except Exception" and ends the call.
Interrupt(k) ==
    /\ call[k].active /\ call' = [call EXCEPT ![k] = NoCall]
    /\ UNCHANGED <<col, holds, decided, calls>>

DeleteNext ==
    \/ Register \/ Write \/ Decide
    \/ \E k \in Callers : Delete(k) \/ Erase(k) \/ Settle(k) \/ Interrupt(k)
DeleteSpec == DeleteInit /\ [][DeleteNext]_deleteVars
-----------------------------------------------------------------------------
\* No data is forgotten: a store that still holds data of a deleted collection
\* is pending, so that a retry erases it, however the calls overlapped, failed
\* or were interrupted.
NothingForgotten ==
    col # Absent /\ col.state = "deleted" => holds \subseteq ToSet(col.pending)

\* Nothing is deleted but by a decision of the user for the collection as it
\* was shown, and a deleted collection is neither read nor written again.
Irreversible ==
    [][/\ (col # Absent /\ col.state = "live" /\ col'.state = "deleted") => col.rev \in decided
       /\ (col # Absent /\ col.state = "deleted")
            => col'.state = "deleted" /\ col'.rev = col.rev /\ holds' \subseteq holds]_deleteVars

\* A decided deletion is never refused, at the largest revision neither.
NeverRefused ==
    (col # Absent /\ col.state = "live" /\ col.rev \in decided /\ calls < MaxCalls)
        => \A k \in Callers : ~ call[k].active => ENABLED Delete(k)
=============================================================================
