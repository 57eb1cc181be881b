------------------------------- MODULE Consent -------------------------------
(***************************************************************************)
(* What the privacy stores promise together: nothing opens but by an       *)
(* approval the user gave for it, an approval opens at most once, and      *)
(* anything may be closed at any time.                                     *)
(***************************************************************************)
CONSTANT Approvals  \* records with the field subject

VARIABLES open,     \* subjects that are open
          given,    \* approvals the user has given
          used      \* approvals that have opened their subject

ConsentInit == open = {} /\ given = {} /\ used = {}

Give(a) == given' = given \union {a} /\ UNCHANGED <<open, used>>
\* Opening one subject may close others, as accepting new terms closes the old.
Open(a) ==
    /\ a \in given \ used /\ used' = used \union {a}
    /\ open' \subseteq open \union {a.subject} /\ a.subject \in open'
    /\ UNCHANGED given
Close == open' \subseteq open /\ UNCHANGED <<given, used>>

ConsentNext == (\E a \in Approvals : Give(a) \/ Open(a)) \/ Close
ConsentSpec == ConsentInit /\ [][ConsentNext]_<<open, given, used>>
=============================================================================
