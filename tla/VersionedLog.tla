---------------------------- MODULE VersionedLog ----------------------------
(***************************************************************************)
(* What the store promises, without chains, damage or checkpoints: one     *)
(* history of operations that grows at its end or is cut short.  Nothing   *)
(* in the middle is ever rewritten, reordered or brought back.             *)
(***************************************************************************)
EXTENDS Naturals, Sequences

CONSTANT Operations

VARIABLE history

Commit(op) == history' = Append(history, op)

CutTo(n) == history' = SubSeq(history, 1, n)

Init == history = <<>>

Next ==
    \/ \E op \in Operations : Commit(op)
    \/ \E n \in 0 .. Len(history) - 1 : CutTo(n)

Spec == Init /\ [][Next]_history
=============================================================================
