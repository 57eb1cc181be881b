----------------------------- MODULE MCJobsQueue -----------------------------
(***************************************************************************)
(* JobsQueue on a small instance: every interleaving of the operations,    *)
(* with clocks that need not agree.                                        *)
(***************************************************************************)
EXTENDS JobsQueue, TLC

\* Workers are interchangeable, and so are the dedupe keys: jobs are ordered by
\* priority and seq only.
Symmetry == Permutations(Workers) \cup Permutations(Keys)
=============================================================================
