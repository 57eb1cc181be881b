------------------------ MODULE ControlPlaneVersioning ------------------------
(***************************************************************************)
(* The compatibility verdict of server/control_plane_versioning.py, used   *)
(* the way a contract evolves: a draft is edited freely and released when  *)
(* compare accepts it against the last release of its major version.       *)
(*                                                                         *)
(* A contract is the set of its operations; what compare requires to be    *)
(* equal as a whole (the rest of the contract block, an area's texts) is   *)
(* one field, meta.                                                        *)
(***************************************************************************)
EXTENDS Integers, Sequences, FiniteSets, Functions

CONSTANTS
    OpNames,     \* area.operation names
    Paths,       \* request paths
    FieldNames,  \* names of fields
    ChessNames,  \* field names with a word of CHESS_TOKENS
    Codes,       \* codes of the contract's closed enum
    Drafts,      \* contracts to start from
    Shapes,      \* operations an edit may put
    Specs,       \* fields an edit may put
    Majors,      \* major versions of base_path
    MaxMinor,    \* bound of the model: 2147483647 in the code
    MaxEdits,    \* bound of the model: edits of the draft, in all
    MaxReleases, \* bound of the model: releases
    FieldDepth   \* depth to which objects nest, 8 in the code

VersioningConstants ==
    /\ ChessNames \subseteq FieldNames
    /\ Majors \subseteq Nat \ {0}
    /\ MaxMinor \in Nat /\ MaxEdits \in Nat /\ MaxReleases \in Nat
    /\ FieldDepth \in Nat
    /\ \A doc \in Drafts :
          DOMAIN doc = {"major", "meta", "public", "readOnly", "ops"} /\ doc.major \in Majors

VARIABLES
    draft,     \* the contract being edited
    minor,     \* the minor version the draft will be released with
    releases,  \* the contracts released, each with its minor version
    edits      \* edits made

versionVars == <<draft, minor, releases, edits>>

\* A list of fields keeps every field at the path of names that leads to it, the
\* fields of an object below the object.  A single field stands at <<>>.
NoFields == [p \in {} |-> 0]
Field(type, required) == [type |-> type, required |-> required]
Leaf(required) == [p \in {<<>>} |-> Field("string", required)]
Object(required, fields) ==
    [p \in {<<>>} \union DOMAIN fields |->
        IF p = <<>> THEN Field("object", required) ELSE fields[p]]

\* The field named n alone, and a list without it.
Under(n, spec) == [p \in {<<n>> \o q : q \in DOMAIN spec} |-> spec[Tail(p)]]
Lacking(fields, n) == Restrict(fields, {p \in DOMAIN fields : p[1] # n})

Above(p) == SubSeq(p, 1, Len(p) - 1)

\* The fields of the object at p, and the required ones.
Level(fields, p) == {q \in DOMAIN fields : Above(q) = p}
Required(fields, p) == {q \in Level(fields, p) : fields[q].required}

\* _fields
FieldsOK(fields) ==
    \A p \in DOMAIN fields :
        /\ p[Len(p)] \notin ChessNames
        /\ fields[p].type = "object" => Len(p) < FieldDepth

\* _source: the contract is well formed.
Valid(doc) ==
    /\ DOMAIN doc.ops # {}
    /\ \A a, b \in DOMAIN doc.ops :
          doc.ops[a].path = doc.ops[b].path => a = b
    /\ doc.public = {a \in DOMAIN doc.ops : doc.ops[a].auth = "public"}
    /\ doc.readOnly = {a \in DOMAIN doc.ops : ~doc.ops[a].mutating}
    /\ \A a \in DOMAIN doc.ops :
          LET op == doc.ops[a]
          IN  /\ FieldsOK(op.request) /\ FieldsOK(op.response)
              /\ op.method = "GET" => ~op.mutating /\ op.request = NoFields
              /\ op.errors # {} /\ op.errors \subseteq Codes

BadAdditiveFields(before, after) ==
    /\ \A p \in DOMAIN before :
        /\ p \in DOMAIN after
        /\ before[p].type = after[p].type
        /\ before[p].type = "object" \/ before[p] = after[p]
    /\ \A p \in DOMAIN after \ DOMAIN before :
          Above(p) \in DOMAIN before \union {<<>>} => ~after[p].required

\* _additive_fields: every old field is unchanged, every new one optional; what
\* is below a new one is free.
AdditiveFields(before, after) ==
    /\ \A p \in DOMAIN before : p \in DOMAIN after /\ before[p] = after[p]
    /\ \A p \in DOMAIN after \ DOMAIN before :
          Above(p) \in DOMAIN before \union {<<>>} => ~after[p].required

\* The allowlists grow by the new operations they are about, and by no other.
ListsGrow(old, new, added) ==
    /\ new.readOnly = old.readOnly \union {a \in added : ~new.ops[a].mutating}
    /\ new.public = old.public \union {a \in added : new.ops[a].auth = "public"}

\* An old operation is in the new contract with nothing but its fields added to.
OpKept(old, new, a) ==
    /\ a \in DOMAIN new.ops
    /\ \A key \in {"method", "path", "auth", "mutating", "errors"} :
          old.ops[a][key] = new.ops[a][key]
    /\ AdditiveFields(old.ops[a].request, new.ops[a].request)
    /\ AdditiveFields(old.ops[a].response, new.ops[a].response)

RouteOf(doc, a) == <<doc.ops[a].method, doc.ops[a].path>>

\* _same_major
SameMajor(old, new) ==
    LET added == DOMAIN new.ops \ DOMAIN old.ops
    IN  /\ ListsGrow(old, new, added)
        /\ old.meta = new.meta
        /\ \A a \in DOMAIN old.ops : OpKept(old, new, a)
        /\ \A a \in added, b \in DOMAIN old.ops : RouteOf(new, a) # RouteOf(old, b)

\* compare: TRUE, FALSE, or refused for a malformed or decreasing version.
Compare(old, new, oldMinor, newMinor) ==
    IF \/ ~Valid(old) \/ ~Valid(new) \/ new.major < old.major
       \/ new.major = old.major /\ newMinor < oldMinor
    THEN "refused"
    ELSE IF new.major = old.major /\ ~SameMajor(old, new) THEN "breaking"
    ELSE "compatible"

Latest == releases[Len(releases)]

VersionInit ==
    /\ draft \in Drafts
    /\ minor = 0 /\ releases = <<>> /\ edits = 0

Release ==
    /\ Valid(draft) /\ Len(releases) < MaxReleases
    /\ releases # <<>> =>
          Compare(Latest.doc, draft, Latest.minor, minor) = "compatible"
    /\ releases' = Append(releases, [doc |-> draft, minor |-> minor])
    /\ UNCHANGED <<draft, minor, edits>>

Edit(doc) ==
    /\ edits < MaxEdits /\ doc # draft
    /\ draft' = doc
    /\ edits' = edits + 1
    /\ UNCHANGED <<minor, releases>>

PutOp(a, op) == Edit([draft EXCEPT
    !.ops = [b \in DOMAIN @ \union {a} |-> IF b = a THEN op ELSE draft.ops[b]],
    !.public = IF op.auth = "public" THEN @ \union {a} ELSE @ \ {a},
    !.readOnly = IF op.mutating THEN @ \ {a} ELSE @ \union {a}])

RemoveOp(a) == Edit([draft EXCEPT !.ops = Restrict(@, DOMAIN @ \ {a}),
                                  !.public = @ \ {a}, !.readOnly = @ \ {a}])

\* The request or the response of an operation gets or loses a field.
PutField(a, side, n, spec) ==
    Edit([draft EXCEPT !.ops[a][side] =
             LET field == Under(n, spec)
                 rest == Lacking(@, n)
             IN  [p \in DOMAIN field \union DOMAIN rest |->
                     IF p \in DOMAIN field THEN field[p] ELSE rest[p]]])
RemoveField(a, side, n) ==
    Edit([draft EXCEPT !.ops[a][side] = Lacking(@, n)])

Number(v, m) ==
    /\ <<v, m>> # <<draft.major, minor>>
    /\ edits < MaxEdits /\ edits' = edits + 1
    /\ draft' = [draft EXCEPT !.major = v]
    /\ minor' = m
    /\ UNCHANGED releases

VersionNext ==
    \/ Release
    \/ \E v \in Majors, m \in 0..MaxMinor : Number(v, m)
    \/ \E a \in OpNames, op \in Shapes : PutOp(a, op)
    \/ \E a \in DOMAIN draft.ops :
        \/ RemoveOp(a)
        \/ \E side \in {"request", "response"}, n \in FieldNames :
            \/ \E spec \in Specs : PutField(a, side, n, spec)
            \/ <<n>> \in DOMAIN draft.ops[a][side] /\ RemoveField(a, side, n)

VersionSpec == VersionInit /\ [][VersionNext]_versionVars
-----------------------------------------------------------------------------
\* What may be sent on one level: these fields, some of them left out.
MaySend(fields, p) == {s \in SUBSET Level(fields, p) : Required(fields, p) \subseteq s}

\* Everything written to one list of fields is understood by a reader of another.
Understood(written, read, extra) ==
    \A p \in {<<>>} \union (DOMAIN written \intersect DOMAIN read) :
        /\ p # <<>> => written[p].type = read[p].type
        /\ \A s \in MaySend(written, p) :
              Required(read, p) \subseteq s /\ (extra \/ s \subseteq Level(read, p))

\* A client built for an earlier release still works with every later release
\* of its major version, although compare only ever saw neighbours: its
\* routes, authorisation and errors are the same, its requests are accepted
\* and the responses hold what it relies on (compare and _same_major).
OldClientsWork ==
    \A i \in DOMAIN releases : \A j \in i..Len(releases) :
        LET old == releases[i].doc
            new == releases[j].doc
        IN  old.major = new.major => \A a \in DOMAIN old.ops :
            /\ a \in DOMAIN new.ops
            /\ RouteOf(old, a) = RouteOf(new, a)
            /\ old.ops[a].auth = new.ops[a].auth
            /\ new.ops[a].errors \subseteq old.ops[a].errors
            /\ Understood(old.ops[a].request, new.ops[a].request, FALSE)
            /\ Understood(new.ops[a].response, old.ops[a].response, TRUE)

\* Versions only go up, and a draft that changes nothing is compatible
\* (compare on a contract and itself).
VersionsOrdered ==
    /\ \A i, j \in DOMAIN releases : i < j =>
        \/ releases[i].doc.major < releases[j].doc.major
        \/ /\ releases[i].doc.major = releases[j].doc.major
           /\ releases[i].minor <= releases[j].minor
    /\ Valid(draft) => Compare(draft, draft, minor, minor) = "compatible"

\* A contract keeps its word: to old clients, and in its numbers.
VersionsSound == OldClientsWork /\ VersionsOrdered
================================================================================
