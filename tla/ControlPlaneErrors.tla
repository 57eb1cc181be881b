-------------------------- MODULE ControlPlaneErrors --------------------------
(***************************************************************************)
(* The classifier of server/control_plane_errors.py: what it says of every *)
(* payload a control plane may send.  A payload is a tree, kept as a       *)
(* function from paths (sequences of keys, Item for an element of a list)  *)
(* to what stands there; it grows by one node a step.                      *)
(***************************************************************************)
EXTENDS Integers, Sequences, FiniteSets

CONSTANTS
    Enum,          \* texts that are codes of the contract's closed enum
    Texts,         \* the other texts, by what they hold (see TextOK)
    Keys,          \* keys that a payload may be given
    ChessKeys,     \* keys with a word of CHESS_TOKENS
    SecretKeys,    \* keys of _SECRET_KEYS or with the words provider and key
    RunKeys,       \* keys with a run of 32 token characters
    Declared,      \* the response fields that each operation declares
    Statuses,      \* HTTP statuses
    Seeds,         \* payloads to start from
    PayloadDepth,  \* _MAX_DEPTH
    MaxItems,      \* _MAX_ITEMS
    MaxChanges     \* bound of the model: changes to a payload of Seeds

\* An element of a list.
Item == "[]"
Containers == {"dict", "list"}
Scalars == {"none", "bool", "number"}
Leaves == Scalars \union {"nan", "other"} \union Texts \union Enum

\* What a path may consist of: keys, those of an error among them.
PathKeys == Keys \union {"error", "code", "message", "retryable"} \union {Item}

Parent(path) == SubSeq(path, 1, Len(path) - 1)
LastKey(path) == path[Len(path)]

\* What JSON decodes to: only objects and lists have anything below them, and
\* everything stands below the root.
IsTree(tree) ==
    /\ IsFiniteSet(DOMAIN tree) /\ <<>> \in DOMAIN tree
    /\ \A p \in DOMAIN tree :
        /\ p \in Seq(PathKeys)
        /\ tree[p] \in Leaves \union Containers
        /\ \A n \in 0..Len(p) : SubSeq(p, 1, n) \in DOMAIN tree
        /\ p # <<>> =>
            /\ tree[Parent(p)] \in Containers
            /\ tree[Parent(p)] = "list" <=> LastKey(p) = Item

ErrorsConstants ==
    /\ ChessKeys \union SecretKeys \union RunKeys \subseteq Keys /\ Item \notin Keys
    /\ \A op \in DOMAIN Declared : Declared[op] \subseteq Keys
    /\ "None" \notin DOMAIN Declared
    /\ Statuses \subseteq Nat
    /\ \A seed \in Seeds : IsTree(seed)
    /\ PayloadDepth \in Nat /\ MaxItems \in Nat /\ MaxChanges \in Nat

VARIABLES
    payload,  \* the tree
    changes   \* changes made to it

payloadVars == <<payload, changes>>

Nodes == DOMAIN payload
Child(path, key) == Append(path, key)
Children(path) == {p \in Nodes \ {<<>>} : Parent(p) = path}

\* _text_ok, _has_fen_placement and _TOKEN_RUN on a text.
TextOK(t, isError) ==
    /\ t \notin {"surrogate", "placement"}
    /\ isError => t # "token run"

\* _key_ok
KeyOK(key, declared, isError) ==
    /\ key \notin ChessKeys
    /\ key \in declared \/ key \notin SecretKeys
    /\ isError => key \notin RunKeys

\* What _value_ok asks of one value and of the keys below it.
NodeOK(path, declared, isError) ==
    /\ Len(path) <= PayloadDepth
    /\ payload[path] \notin {"nan", "other"}
    /\ payload[path] \in Texts \union Enum => TextOK(payload[path], isError)
    /\ Cardinality(Children(path)) <= MaxItems
    /\ payload[path] = "dict" =>
          \A c \in Children(path) : KeyOK(LastKey(c), declared, isError)

BadValueOK(declared, isError) ==
    LET ok[path \in Nodes] ==
            /\ NodeOK(path, declared, isError)
            /\ \A c \in Children(path) : ok[c]
    IN  ok

\* _value_ok: the fields an operation declares are excused at the top only.
ValueOK(declared, isError) ==
    LET ok[path \in Nodes] ==
            /\ NodeOK(path, IF path = <<>> THEN declared ELSE {}, isError)
            /\ \A c \in Children(path) : ok[c]
    IN  ok

\* _declared_fields; an operation is a member of Declared, or None.
DeclaredFields(status, op) ==
    IF op \in DOMAIN Declared /\ status < 300 THEN Declared[op] ELSE {}

At(key) == Child(<<"error">>, key)

\* The checks of classify on the error object.
ErrorOK ==
    /\ <<"error">> \in Nodes /\ payload[<<"error">>] = "dict"
    /\ {At("code"), At("message"), At("retryable")} \subseteq Nodes
    /\ payload[At("code")] \in Enum
    /\ payload[At("message")] \in (Texts \union Enum) \ {"surrogate", "secret"}
    /\ payload[At("retryable")] = "bool"

\* classify: status, operation, payload, in this order, each of them refusing.
Classify(status, op) ==
    IF /\ status \in (200..299) \union (400..599)
       /\ op = "None" \/ op \in DOMAIN Declared
       /\ payload[<<>>] = "dict"
       /\ ValueOK(DeclaredFields(status, op), status >= 400)[<<>>]
    THEN IF status < 300 THEN <<"success">>
         ELSE IF ErrorOK THEN <<"error", payload[At("code")]>>
         ELSE <<"refused">>
    ELSE <<"refused">>

PayloadInit == payload \in Seeds /\ changes = 0

Add(path, key, what) ==
    /\ changes < MaxChanges /\ changes' = changes + 1
    /\ payload[path] \in Containers
    /\ payload[path] = "list" <=> key = Item
    /\ Child(path, key) \notin Nodes
    /\ payload' = [p \in Nodes \union {Child(path, key)} |->
                      IF p \in Nodes THEN payload[p] ELSE what]

Replace(path, what) ==
    /\ payload[path] \notin Containers /\ payload[path] # what
    /\ payload' = [payload EXCEPT ![path] = what]
    /\ changes < MaxChanges /\ changes' = changes + 1

PayloadNext == \E path \in Nodes, what \in Leaves \union Containers :
    \/ \E key \in Keys \union {Item} : Add(path, key, what)
    \/ Replace(path, what)

PayloadSpec == PayloadInit /\ [][PayloadNext]_payloadVars
-----------------------------------------------------------------------------
KnownOps == DOMAIN Declared \union {"None"}
Accepted(status, op) == Classify(status, op) # <<"refused">>

\* Nothing of an accepted payload, at any depth, names chess content or holds
\* a placement; a secret key stands only at the top of the success of an
\* operation that declares it; an error holds no run of token characters
\* (_value_ok and _key_ok).
NothingHidden ==
    \A status \in Statuses, op \in KnownOps : Accepted(status, op) =>
        /\ \A path \in Nodes : payload[path] \notin {"surrogate", "placement"}
        /\ \A path \in Nodes \ {<<>>} :
            /\ LastKey(path) \notin ChessKeys
            /\ LastKey(path) \in SecretKeys =>
                  Len(path) = 1 /\ status < 300 /\ op # "None"
            /\ status >= 400 =>
                  LastKey(path) \notin RunKeys /\ payload[path] # "token run"

\* A success is refused for a reason only: it is too deep or too wide, or a
\* text, a key or a value in it is one that is not allowed where it stands.
RefusedForCause ==
    \A op \in DOMAIN Declared : \A status \in Statuses \intersect (200..299) :
        \/ Accepted(status, op)
        \/ payload[<<>>] # "dict"
        \/ \E path \in Nodes :
            \/ Len(path) > PayloadDepth \/ Cardinality(Children(path)) > MaxItems
            \/ payload[path] \in {"surrogate", "placement", "nan", "other"}
            \/ /\ path # <<>>
               /\ \/ LastKey(path) \in ChessKeys
                  \/ /\ LastKey(path) \in SecretKeys
                     /\ path \notin {<<key>> : key \in Declared[op]}

\* No payload that comes through hides anything, and no success without a fault
\* is held back (classify).
PayloadsSound == NothingHidden /\ RefusedForCause
==============================================================================
