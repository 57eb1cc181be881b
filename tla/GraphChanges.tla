---------------------------- MODULE GraphChanges ----------------------------
(***************************************************************************)
(* Two users edit copies of one graph state.  graph/diff.py computes the   *)
(* difference that is sent to the other, and applies what arrives, which   *)
(* may have been altered or be meant for another state; graph/conflict.py  *)
(* compares the two edits with their base.                                 *)
(*                                                                         *)
(* A state is a function from canonical identities to records, and a       *)
(* record is what identity does not fix: its digest.  A state identifier   *)
(* (a hash of the content) is the state itself.                            *)
(***************************************************************************)
EXTENDS Integers, FiniteSets, Functions, FiniteSetTheorems, TLAPS

CONSTANTS
    Nodes,        \* canonical identities
    NodeDigests,  \* digests of the right format
    Right,        \* the digest that position_digest derives from a record
    MaxSteps      \* bound of the model: edits and alterations

ChangesConstants == Right \in NodeDigests /\ MaxSteps \in Nat

VARIABLES
    base, left, right,  \* the common state and the two edited ones
    diff,               \* the difference under way, as it arrives
    steps               \* edits and alterations made

changesVars == <<base, left, right, diff, steps>>

States == UNION {[keys -> NodeDigests] : keys \in SUBSET Nodes}
Keys(state) == DOMAIN state
\* The state without a node.
Nothing == [n \in {} |-> Right]

-----------------------------------------------------------------------------
\* graph/diff.py

\* _validate_state: every digest is the one its position has.
Valid(state) == \A n \in Keys(state) : state[n] = Right

\* compute
Compute(from, to) ==
    [base |-> from, target |-> to,
     added |-> Restrict(to, Keys(to) \ Keys(from)),
     removed |-> Restrict(from, Keys(from) \ Keys(to)),
     changed |-> [n \in {n \in Keys(from) \intersect Keys(to) : from[n] # to[n]} |->
                    [base |-> from[n], target |-> to[n]]]]

\* validate_diff
DiffOK(d) ==
    /\ Valid(d.added) /\ Valid(d.removed)
    /\ \A n \in Keys(d.changed) :
        /\ d.changed[n].base = Right /\ d.changed[n].target = Right
        /\ d.changed[n].base # d.changed[n].target
    /\ Keys(d.added) \intersect Keys(d.removed) = {}
    /\ (Keys(d.added) \union Keys(d.removed)) \intersect Keys(d.changed) = {}
    /\ (Keys(d.added) \union Keys(d.removed) \union Keys(d.changed) = {})
          <=> d.base = d.target

\* The state with the three sections carried out.
Carried(d, state) ==
    [n \in (Keys(state) \ Keys(d.removed)) \union Keys(d.added) |->
        IF n \in Keys(d.added) THEN d.added[n]
        ELSE IF n \in Keys(d.changed) THEN d.changed[n].target ELSE state[n]]

BadApply(d, state) ==
    IF /\ DiffOK(d) /\ Valid(state)
       /\ state = d.base /\ Keys(d.added) \intersect Keys(state) = {}
       /\ \A n \in Keys(d.removed) : n \in Keys(state) /\ state[n] = d.removed[n]
       /\ \A n \in Keys(d.changed) : n \in Keys(state) /\ state[n] = d.changed[n].base
    THEN <<"applied", Carried(d, state)>> ELSE <<"refused">>

\* apply: the new state, or a refusal that leaves the old one alone.
Apply(d, state) ==
    IF /\ DiffOK(d) /\ Valid(state)
       /\ state = d.base /\ Keys(d.added) \intersect Keys(state) = {}
       /\ \A n \in Keys(d.removed) : n \in Keys(state) /\ state[n] = d.removed[n]
       /\ \A n \in Keys(d.changed) : n \in Keys(state) /\ state[n] = d.changed[n].base
       /\ Carried(d, state) = d.target
    THEN <<"applied", Carried(d, state)>> ELSE <<"refused">>

-----------------------------------------------------------------------------
\* graph/conflict.py

\* _changes
Changes(from, to) ==
    [n \in {n \in Keys(from) \union Keys(to) :
              n \in Keys(from) \intersect Keys(to) => to[n] # from[n]} |->
        IF n \notin Keys(from) THEN <<"added", to[n]>>
        ELSE IF n \notin Keys(to) THEN <<"removed", from[n]>>
        ELSE <<"changed", to[n]>>]

\* What detect says of an identity both sides changed.
Kind(mine, theirs) ==
    IF mine[1] = theirs[1] /\ (mine[1] = "removed" \/ mine = theirs) THEN "none"
    ELSE IF mine[1] # theirs[1] THEN "changed_vs_removed"
    ELSE IF mine[1] = "added" THEN "added_differently"
    ELSE "both_changed_differently"

\* detect, on sides that both diverge from the base.
Detect(b, l, r) ==
    LET mine == Changes(b, l)
        theirs == Changes(b, r)
        both == DOMAIN mine \intersect DOMAIN theirs
    IN  [n \in {n \in both : Kind(mine[n], theirs[n]) # "none"} |->
            Kind(mine[n], theirs[n])]

-----------------------------------------------------------------------------
ChangesInit ==
    /\ base \in States /\ left = base /\ right = base
    /\ diff = Compute(Nothing, Nothing) /\ steps = 0

Edits(state) ==
    {Restrict(state, Keys(state) \ {n}) : n \in Keys(state)}
    \union {[m \in Keys(state) \union {n} |-> IF m = n THEN d ELSE state[m]] :
               n \in Nodes, d \in NodeDigests}

Step == steps < MaxSteps /\ steps' = steps + 1

EditLeft == Step /\ left' \in Edits(left) /\ UNCHANGED <<base, right, diff>>
EditRight == Step /\ right' \in Edits(right) /\ UNCHANGED <<base, left, diff>>

\* The left user sends what changed.
Send ==
    /\ Valid(base) /\ Valid(left)
    /\ diff' = Compute(base, left)
    /\ UNCHANGED <<base, left, right, steps>>

\* One part of the difference is altered on its way.
Alter ==
    /\ Step
    /\ \/ \E s \in States : diff' = [diff EXCEPT !.base = s]
       \/ \E s \in States : diff' = [diff EXCEPT !.target = s]
       \/ \E s \in Edits(diff.added) : diff' = [diff EXCEPT !.added = s]
       \/ \E s \in Edits(diff.removed) : diff' = [diff EXCEPT !.removed = s]
    /\ UNCHANGED <<base, left, right>>

ChangesNext == EditLeft \/ EditRight \/ Send \/ Alter

ChangesSpec == ChangesInit /\ [][ChangesNext]_changesVars
-----------------------------------------------------------------------------
\* A difference rebuilds exactly the state it was computed for, out of the
\* state it was computed from (compute and apply).
RoundTrip ==
    Valid(base) /\ Valid(left) =>
        Apply(Compute(base, left), base) = <<"applied", left>>

\* Whatever arrives, a state is changed only from the state the difference
\* names to the state it names, and every addition and removal it lists is
\* carried out (apply).
AppliedAsNamed ==
    Apply(diff, right)[1] = "applied" =>
        /\ right = diff.base /\ Apply(diff, right)[2] = diff.target
        /\ \A n \in Keys(diff.added) : n \in Keys(diff.target) \ Keys(right)
        /\ \A n \in Keys(diff.removed) : n \in Keys(right) \ Keys(diff.target)

\* The record an identity has in a state, or none.
In(state, n) == IF n \in Keys(state) THEN <<state[n]>> ELSE <<>>

\* A three-way merge of an identity: one side's word stands where the other
\* side left the base alone.
Takes(b, mine, theirs, n) ==
    IF In(mine, n) = In(b, n) THEN {In(theirs, n)}
    ELSE IF In(theirs, n) = In(b, n) THEN {In(mine, n)}
    ELSE {In(mine, n), In(theirs, n)}

\* The detector reports exactly the identities on which merging the two edits
\* depends on whose edit wins, with left and right exchangeable (detect).
ConflictsExact ==
    left # base /\ right # base =>
        /\ \A n \in Nodes : n \in DOMAIN Detect(base, left, right) <=>
              Cardinality(Takes(base, left, right, n)) > 1
        /\ Detect(base, left, right) = Detect(base, right, left)

\* A difference carries over, or is refused, as a whole, and a conflict is
\* reported exactly if two users changed one node differently.
EditsWhole == RoundTrip /\ AppliedAsNamed /\ ConflictsExact

-----------------------------------------------------------------------------
(***************************************************************************)
(* Proofs.  What a difference says of an identity is told by its record in *)
(* the two states, or the lack of one: In(from, n) and In(to, n).          *)
(***************************************************************************)

LEMMA RestrictIs ==
    ASSUME NEW state, NEW S
    PROVE  /\ Keys(Restrict(state, S)) = S
           /\ \A n \in S : Restrict(state, S)[n] = state[n]
BY DEF Restrict, Keys

LEMMA SameState ==
    ASSUME NEW s \in States, NEW t \in States, Keys(s) = Keys(t),
           \A n \in Keys(s) : s[n] = t[n]
    PROVE  s = t
BY DEF States, Keys

\* Between valid states a difference is one of identities alone: it changes none.
LEMMA ComputeIs ==
    ASSUME NEW from \in States, NEW to \in States, Valid(from), Valid(to)
    PROVE  LET d == Compute(from, to)
           IN  /\ d.base = from /\ d.target = to
               /\ Keys(d.added) = Keys(to) \ Keys(from)
               /\ Keys(d.removed) = Keys(from) \ Keys(to)
               /\ Keys(d.changed) = {}
               /\ \A n \in Keys(d.added) : d.added[n] = to[n]
               /\ \A n \in Keys(d.removed) : d.removed[n] = from[n]
<1> DEFINE added == Restrict(to, Keys(to) \ Keys(from))
           removed == Restrict(from, Keys(from) \ Keys(to))
           C == {n \in Keys(from) \cap Keys(to) : from[n] # to[n]}
           changed == [n \in C |-> [base |-> from[n], target |-> to[n]]]
           d == [base |-> from, target |-> to, added |-> added, removed |-> removed,
                 changed |-> changed]
<1>1. C = {}
  BY DEF Valid
<1>2. Keys(changed) = {}
  BY <1>1 DEF Keys
<1>3. /\ Keys(added) = Keys(to) \ Keys(from) /\ Keys(removed) = Keys(from) \ Keys(to)
      /\ \A n \in Keys(added) : added[n] = to[n]
      /\ \A n \in Keys(removed) : removed[n] = from[n]
  BY RestrictIs
<1>4. Compute(from, to) = d
  BY DEF Compute
<1> HIDE DEF added, removed, changed
<1>5. QED
  BY <1>2, <1>3, <1>4

\* A difference that was computed is applied, and gives the state it was computed for.
LEMMA AppliedBack ==
    ASSUME NEW from \in States, NEW to \in States, Valid(from), Valid(to)
    PROVE  Apply(Compute(from, to), from) = <<"applied", to>>
<1> DEFINE d == Compute(from, to)
<1>1. /\ d.base = from /\ d.target = to
      /\ Keys(d.added) = Keys(to) \ Keys(from)
      /\ Keys(d.removed) = Keys(from) \ Keys(to)
      /\ Keys(d.changed) = {}
      /\ \A n \in Keys(d.added) : d.added[n] = to[n]
      /\ \A n \in Keys(d.removed) : d.removed[n] = from[n]
  BY ComputeIs
<1> HIDE DEF d
<1>2. Valid(d.added) /\ Valid(d.removed)
  BY <1>1 DEF Valid
<1>3. Keys(d.added) \cup Keys(d.removed) \cup Keys(d.changed) = {} <=> d.base = d.target
  <2>1. ASSUME Keys(d.added) \cup Keys(d.removed) \cup Keys(d.changed) = {}
        PROVE  from = to
    <3>1. Keys(from) = Keys(to)
      BY <1>1, <2>1
    <3>2. \A n \in Keys(from) : from[n] = to[n]
      BY <3>1 DEF Valid
    <3>3. QED
      BY <3>1, <3>2, SameState
  <2>2. QED
    BY <1>1, <2>1
<1>4. DiffOK(d)
  BY <1>1, <1>2, <1>3 DEF DiffOK
<1>5. Carried(d, from) = to
  <2> DEFINE S == (Keys(from) \ Keys(d.removed)) \cup Keys(d.added)
             at(n) == IF n \in Keys(d.added) THEN d.added[n]
                      ELSE IF n \in Keys(d.changed) THEN d.changed[n].target ELSE from[n]
             c == [n \in S |-> at(n)]
  <2>1. S = Keys(to)
    BY <1>1
  <2>2. \A n \in S : at(n) = to[n]
    BY <1>1, <2>1 DEF Valid
  <2>3. to = [n \in Keys(to) |-> to[n]]
    BY DEF States, Keys
  <2>4. Carried(d, from) = c
    BY DEF Carried
  <2> HIDE DEF S, at
  <2>5. c = to
    BY <2>1, <2>2, <2>3
  <2>6. QED
    BY <2>4, <2>5
<1>6. /\ from = d.base /\ Keys(d.added) \cap Keys(from) = {}
      /\ \A n \in Keys(d.removed) : n \in Keys(from) /\ from[n] = d.removed[n]
      /\ \A n \in Keys(d.changed) : n \in Keys(from) /\ from[n] = d.changed[n].base
  BY <1>1
<1>7. Apply(d, from) = <<"applied", to>>
  BY <1>1, <1>4, <1>5, <1>6 DEF Apply
<1>8. QED
  BY <1>7 DEF d

\* Whatever the difference, what apply does to a state is what the difference names.
LEMMA AppliedIsNamed ==
    ASSUME NEW d, NEW state, Apply(d, state)[1] = "applied"
    PROVE  /\ state = d.base /\ Apply(d, state)[2] = d.target
           /\ \A n \in Keys(d.added) : n \in Keys(d.target) \ Keys(state)
           /\ \A n \in Keys(d.removed) : n \in Keys(state) \ Keys(d.target)
<1> DEFINE Fits == /\ DiffOK(d) /\ Valid(state)
                   /\ state = d.base /\ Keys(d.added) \cap Keys(state) = {}
                   /\ \A n \in Keys(d.removed) : n \in Keys(state) /\ state[n] = d.removed[n]
                   /\ \A n \in Keys(d.changed) : n \in Keys(state) /\ state[n] = d.changed[n].base
                   /\ Carried(d, state) = d.target
           target == Carried(d, state)
<1>1. Apply(d, state) = IF Fits THEN <<"applied", target>> ELSE <<"refused">>
  BY DEF Apply
<1>2. Keys(target) = (Keys(state) \ Keys(d.removed)) \cup Keys(d.added)
  BY DEF Carried, Keys
<1> HIDE DEF target
<1>3. Fits
  <2> HIDE DEF Fits
  <2>1. <<"refused">>[1] # "applied"
    OBVIOUS
  <2>2. QED
    BY <1>1, <2>1
<1>4. target = d.target /\ Apply(d, state)[2] = d.target
  <2>1. Apply(d, state) = <<"applied", target>>
    BY <1>1, <1>3
  <2>2. target = d.target
    BY <1>3 DEF target
  <2>3. QED
    BY <2>1, <2>2
<1>5. Keys(d.added) \cap Keys(d.removed) = {}
  BY <1>3 DEF DiffOK
<1>6. QED
  BY <1>2, <1>3, <1>4, <1>5

-----------------------------------------------------------------------------
\* An edit changes an identity exactly if the two states tell different things of it.
LEMMA ChangedIs ==
    ASSUME NEW from \in States, NEW to \in States, NEW n
    PROVE  /\ n \in DOMAIN Changes(from, to) <=> In(to, n) # In(from, n)
           /\ n \in DOMAIN Changes(from, to) =>
                 Changes(from, to)[n] =
                     IF n \notin Keys(from) THEN <<"added", to[n]>>
                     ELSE IF n \notin Keys(to) THEN <<"removed", from[n]>>
                     ELSE <<"changed", to[n]>>
<1>1. n \in DOMAIN Changes(from, to)
         <=> /\ n \in Keys(from) \cup Keys(to)
             /\ n \in Keys(from) \cap Keys(to) => to[n] # from[n]
  BY DEF Changes
<1>2. \A x, y : <<x>> # <<>> /\ (<<x>> = <<y>> <=> x = y)
  OBVIOUS
<1>3. n \in DOMAIN Changes(from, to) <=> In(to, n) # In(from, n)
  BY <1>1, <1>2 DEF In
<1>4. QED
  BY <1>3 DEF Changes

\* Of an identity both sides changed, a conflict is reported exactly if they differ,
\* and the same one whichever side is asked first.
LEMMA KindIs ==
    ASSUME NEW b \in States, NEW l \in States, NEW r \in States, NEW n,
           n \in DOMAIN Changes(b, l), n \in DOMAIN Changes(b, r)
    PROVE  /\ Kind(Changes(b, l)[n], Changes(b, r)[n]) # "none" <=> In(l, n) # In(r, n)
           /\ Kind(Changes(b, l)[n], Changes(b, r)[n])
                 = Kind(Changes(b, r)[n], Changes(b, l)[n])
<1> DEFINE mine == Changes(b, l)[n]
           theirs == Changes(b, r)[n]
<1>1. mine = IF n \notin Keys(b) THEN <<"added", l[n]>>
             ELSE IF n \notin Keys(l) THEN <<"removed", b[n]>> ELSE <<"changed", l[n]>>
  BY ChangedIs
<1>2. theirs = IF n \notin Keys(b) THEN <<"added", r[n]>>
               ELSE IF n \notin Keys(r) THEN <<"removed", b[n]>> ELSE <<"changed", r[n]>>
  BY ChangedIs
<1>3. (n \in Keys(b) \/ n \in Keys(l)) /\ (n \in Keys(b) \/ n \in Keys(r))
  BY DEF Changes
<1>4. \A x, y : <<x>> # <<>> /\ (<<x>> = <<y>> <=> x = y)
  OBVIOUS
<1> HIDE DEF mine, theirs
<1>5. Kind(mine, theirs) # "none" <=> In(l, n) # In(r, n)
  <2>1. CASE n \notin Keys(b)
    BY <1>1, <1>2, <1>3, <1>4, <2>1 DEF Kind, In
  <2>2. CASE n \in Keys(b) /\ n \notin Keys(l)
    BY <1>1, <1>2, <1>4, <2>2 DEF Kind, In
  <2>3. CASE n \in Keys(b) /\ n \in Keys(l)
    BY <1>1, <1>2, <1>4, <2>3 DEF Kind, In
  <2>4. QED
    BY <2>1, <2>2, <2>3
<1>6. Kind(mine, theirs) = Kind(theirs, mine)
  BY DEF Kind
<1>7. QED
  BY <1>5, <1>6 DEF mine, theirs

LEMMA DetectIs ==
    ASSUME NEW b \in States, NEW l \in States, NEW r \in States
    PROVE  /\ \A n : n \in DOMAIN Detect(b, l, r)
                 <=> /\ In(l, n) # In(b, n) /\ In(r, n) # In(b, n)
                     /\ In(l, n) # In(r, n)
           /\ Detect(b, l, r) = Detect(b, r, l)
<1> DEFINE mine == Changes(b, l)
           theirs == Changes(b, r)
           S == {n \in DOMAIN mine \cap DOMAIN theirs : Kind(mine[n], theirs[n]) # "none"}
           T == {n \in DOMAIN theirs \cap DOMAIN mine : Kind(theirs[n], mine[n]) # "none"}
<1>1. /\ Detect(b, l, r) = [n \in S |-> Kind(mine[n], theirs[n])]
      /\ Detect(b, r, l) = [n \in T |-> Kind(theirs[n], mine[n])]
  BY DEF Detect
<1>2. \A n : /\ n \in DOMAIN mine <=> In(l, n) # In(b, n)
             /\ n \in DOMAIN theirs <=> In(r, n) # In(b, n)
  BY ChangedIs
<1>3. \A n \in DOMAIN mine \cap DOMAIN theirs :
          /\ Kind(mine[n], theirs[n]) # "none" <=> In(l, n) # In(r, n)
          /\ Kind(mine[n], theirs[n]) = Kind(theirs[n], mine[n])
  BY KindIs
<1> HIDE DEF mine, theirs
<1>4. S = T /\ \A n \in S : Kind(mine[n], theirs[n]) = Kind(theirs[n], mine[n])
  BY <1>3
<1>5. \A n : n \in S <=> /\ In(l, n) # In(b, n) /\ In(r, n) # In(b, n)
                         /\ In(l, n) # In(r, n)
  BY <1>2, <1>3
<1> HIDE DEF S, T
<1>6. [n \in S |-> Kind(mine[n], theirs[n])] = [n \in T |-> Kind(theirs[n], mine[n])]
  BY <1>4
<1>7. QED
  BY <1>1, <1>5, <1>6

\* A merge is undecided where both words stand and differ.
LEMMA TakesIs ==
    ASSUME NEW b, NEW l, NEW r, NEW n
    PROVE  Cardinality(Takes(b, l, r, n)) > 1
              <=> /\ In(l, n) # In(b, n) /\ In(r, n) # In(b, n)
                  /\ In(l, n) # In(r, n)
<1> DEFINE x == In(l, n)
           y == In(r, n)
<1>1. /\ Cardinality({x}) = 1 /\ Cardinality({y}) = 1
      /\ x # y => Cardinality({x, y}) = 2
  <2>1. IsFiniteSet({x}) /\ Cardinality({x}) = 1 /\ Cardinality({y}) = 1
    BY FS_Singleton
  <2>2. x # y => Cardinality({x} \cup {y}) = Cardinality({x}) + 1
    BY <2>1, FS_AddElement
  <2>3. {x, y} = {x} \cup {y}
    OBVIOUS
  <2>4. QED
    BY <2>1, <2>2, <2>3
<1>2. x = y => Cardinality({x, y}) = 1
  <2>1. x = y => {x, y} = {x}
    OBVIOUS
  <2>2. QED
    BY <1>1, <2>1
<1>3. Takes(b, l, r, n) =
          IF x = In(b, n) THEN {y} ELSE IF y = In(b, n) THEN {x} ELSE {x, y}
  BY DEF Takes
<1> HIDE DEF x, y
<1>4. Cardinality(Takes(b, l, r, n)) > 1 <=> x # In(b, n) /\ y # In(b, n) /\ x # y
  BY <1>1, <1>2, <1>3
<1>5. QED
  BY <1>4 DEF x, y

-----------------------------------------------------------------------------
\* Of the states it is enough to know that they are states.
ChangesInv == base \in States /\ left \in States /\ right \in States

LEMMA EditsAreStates ==
    ASSUME NEW state \in States, NEW new \in Edits(state)
    PROVE  new \in States
<1>1. CASE \E n \in Keys(state) : new = Restrict(state, Keys(state) \ {n})
  BY <1>1 DEF States, Keys, Restrict
<1>2. CASE \E n \in Nodes, d \in NodeDigests :
              new = [m \in Keys(state) \union {n} |-> IF m = n THEN d ELSE state[m]]
  BY <1>2 DEF States, Keys
<1>3. QED
  BY <1>1, <1>2 DEF Edits

\* For any states, however they were edited and whatever has become of a difference
\* under way: it carries a state over as it names or not at all, and the conflicts
\* reported are those the merge depends on.
THEOREM EditsStayWhole == ChangesSpec => []EditsWhole
<1>1. ChangesInit => ChangesInv
  BY DEF ChangesInit, ChangesInv
<1>2. ASSUME ChangesInv, [ChangesNext]_changesVars PROVE ChangesInv'
  <2>1. CASE EditLeft
    BY <1>2, <2>1, EditsAreStates DEF EditLeft, ChangesInv
  <2>2. CASE EditRight
    BY <1>2, <2>2, EditsAreStates DEF EditRight, ChangesInv
  <2>3. CASE Send
    BY <1>2, <2>3 DEF Send, ChangesInv
  <2>4. CASE Alter
    BY <1>2, <2>4 DEF Alter, ChangesInv
  <2>5. CASE UNCHANGED changesVars
    BY <1>2, <2>5 DEF changesVars, ChangesInv
  <2>6. QED
    BY <1>2, <2>1, <2>2, <2>3, <2>4, <2>5 DEF ChangesNext
<1>3. ASSUME ChangesInv PROVE EditsWhole
  <2>1. RoundTrip
    BY <1>3, AppliedBack DEF ChangesInv, RoundTrip
  <2>2. AppliedAsNamed
    BY AppliedIsNamed DEF AppliedAsNamed
  <2>3. ConflictsExact
    BY <1>3, DetectIs, TakesIs DEF ChangesInv, ConflictsExact
  <2>4. QED
    BY <2>1, <2>2, <2>3 DEF EditsWhole
<1>4. QED
  BY <1>1, <1>2, <1>3, PTL DEF ChangesSpec
=============================================================================
