--------------------------- MODULE OpeningContext ---------------------------
(***************************************************************************)
(* The opening contexts of graph/opening_context.py.  A path of moves is   *)
(* resolved to the longest opening of a registry that begins it; a table   *)
(* keeps what each path was resolved to and merges other tables, which may *)
(* have been filled under another edition of the registry.                 *)
(***************************************************************************)
EXTENDS Integers, Sequences, FiniteSets, SequencesExt

CONSTANTS
    Tables,
    Moves,       \* legal move texts
    MaxMoves,    \* bound of the model: moves of a path
    Registry,    \* registry of each table: a set of [moves, code, name]
    MaxInserts,  \* bound of the model: inserts
    None         \* none_sentinel

Paths == UNION {[1..n -> Moves] : n \in 0..MaxMoves}
Openings == UNION {Registry[t] : t \in Tables}

ContextConstants ==
    /\ \A o \in Openings : o.moves \in Paths /\ o.code # None /\ o.name # None
    /\ \A t \in Tables : \A o, p \in Registry[t] :
          o # p => o.moves # p.moves /\ o.code # p.code
    /\ MaxInserts \in Nat

VARIABLES
    contexts,  \* _records of each table: path -> <<code, name>>
    inserts

contextVars == <<contexts, inserts>>

\* resolve: the longest opening that begins the path.
Resolve(registry, path) ==
    LET fits == {o \in registry : IsPrefix(o.moves, path)}
        best == CHOOSE o \in fits : \A p \in fits : Len(p.moves) <= Len(o.moves)
    IN  IF fits = {} THEN <<None, None>> ELSE <<best.code, best.name>>

\* merge: every path both tables have means the same in both, and every new
\* one means what this table's registry says (_validate).
Mergeable(t, u) ==
    /\ \A path \in DOMAIN contexts[t] \intersect DOMAIN contexts[u] :
          contexts[t][path] = contexts[u][path]
    /\ \A path \in DOMAIN contexts[u] \ DOMAIN contexts[t] :
          contexts[u][path] = Resolve(Registry[t], path)

ContextInit ==
    contexts = [t \in Tables |-> [p \in {} |-> None]] /\ inserts = 0

Insert(t, path) ==
    /\ inserts < MaxInserts /\ inserts' = inserts + 1
    /\ contexts' = [contexts EXCEPT ![t] =
          [p \in DOMAIN @ \union {path} |->
              IF p = path THEN Resolve(Registry[t], path) ELSE contexts[t][p]]]

Merge(t, u) ==
    /\ t # u /\ Mergeable(t, u)
    /\ contexts' = [contexts EXCEPT ![t] =
          [p \in DOMAIN @ \union DOMAIN contexts[u] |->
              IF p \in DOMAIN contexts[t] THEN contexts[t][p] ELSE contexts[u][p]]]
    /\ UNCHANGED inserts

ContextNext == \E t \in Tables :
    \/ \E path \in Paths : Insert(t, path)
    \/ \E u \in Tables : Merge(t, u)

ContextSpec == ContextInit /\ [][ContextNext]_contextVars
-----------------------------------------------------------------------------
\* However tables are merged, each says of every path what its own registry
\* says, so a table can always be written and validated again (_validate).
OwnRegistry ==
    \A t \in Tables : \A path \in DOMAIN contexts[t] :
        contexts[t][path] = Resolve(Registry[t], path)

\* A longer path is in the opening of its beginning or in a longer opening:
\* the context of a line changes exactly where an opening's last move is
\* played (resolve).
NamesAtTheMove ==
    \A t \in Tables : \A path \in DOMAIN contexts[t] : path # <<>> =>
        LET before == Resolve(Registry[t], Front(path))
        IN  contexts[t][path] # before <=> \E o \in Registry[t] : o.moves = path
=============================================================================
