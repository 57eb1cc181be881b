---------------------------- MODULE ApprovalGate ----------------------------
(***************************************************************************)
(* The approval gate of brand/approval.py: a proposal is committed only    *)
(* after somebody with the capability, or with a grant from a user for     *)
(* this action and target, has approved exactly what is committed.         *)
(* Proposals hold objects that change under the gate's eyes.               *)
(***************************************************************************)
EXTENDS Integers, Sequences, FiniteSets, SequencesExt

CONSTANTS
    Proposals,     \* proposal objects
    Approvers,     \* registry: identity -> role
    Grants,        \* sequence of [grantee, by, action, scope, capability, expires]
    Contents,      \* what a proposal may say: [action, target, after]
    Destructive,   \* actions that need the destructive capability
    Covered,       \* pairs <<scope, target>>: the target is in the scope
    MaxTime,       \* bound: ticks of the clock
    MaxApproved, MaxCommits, MaxMutated,  \* bounds: calls and changes
    NoApproval

VARIABLES
    says,       \* what each proposal says now
    approvals,  \* artifact -> the approval that is to be used, or NoApproval
    audit,      \* the audit log
    now,        \* the clock
    history,    \* approvals ever given, in order
    mutated     \* changes of proposals

gateVars == <<says, approvals, audit, now, history, mutated>>

GateInit ==
    /\ says \in [Proposals -> Contents]
    /\ approvals = [a \in Contents |-> NoApproval]
    /\ audit = <<>> /\ now = 0 /\ history = <<>> /\ mutated = 0

Capability(action) ==
    IF action \in Destructive THEN "user-data-destructive" ELSE "user-data-write"
Covers(grant, a) == grant.action = a.action /\ <<grant.scope, a.target>> \in Covered

Confers(grant, who, a) ==
    /\ grant.grantee = who /\ Covers(grant, a)
    /\ grant.by \in DOMAIN Approvers /\ Approvers[grant.by] = "user"
    /\ grant.capability = Capability(a.action) /\ now < grant.expires
\* _authorize: by role, or by the first grant that confers it; a destructive
\* action never by a grant.
Authority(who, a) ==
    IF Approvers[who] = "user" THEN "role"
    ELSE IF /\ a.action \notin Destructive
            /\ \E n \in DOMAIN Grants : Confers(Grants[n], who, a)
    THEN "grant" ELSE NoApproval

ApproveProposal(p, who) ==
    LET a == says[p]
        approval == [artifact |-> a, who |-> who, authority |-> Authority(who, a), at |-> now]
    IN  /\ Len(history) < MaxApproved
        /\ who \in DOMAIN Approvers /\ Authority(who, a) # NoApproval
        /\ approvals' = [approvals EXCEPT ![a] = approval]
        /\ history' = Append(history, approval)
        /\ UNCHANGED <<says, audit, now, mutated>>

BadCommitProposal(p) ==
    LET a == says[p]
    IN  /\ Len(audit) < MaxCommits /\ approvals[a] # NoApproval
        /\ audit' = Append(audit, [artifact |-> a, approval |-> approvals[a], after |-> Len(history)])
        /\ UNCHANGED <<says, approvals, now, history, mutated>>
\* The artifact is made anew from what the proposal says at this moment; the
\* approval is used up.
CommitProposal(p) ==
    LET a == says[p]
    IN  /\ Len(audit) < MaxCommits /\ approvals[a] # NoApproval
        /\ approvals' = [approvals EXCEPT ![a] = NoApproval]
        /\ audit' = Append(audit, [artifact |-> a, approval |-> approvals[a], after |-> Len(history)])
        /\ UNCHANGED <<says, now, history, mutated>>

Mutate(p) == \E c \in Contents :
    /\ mutated < MaxMutated /\ says' = [says EXCEPT ![p] = c] /\ mutated' = mutated + 1
    /\ UNCHANGED <<approvals, audit, now, history>>
Tick == now < MaxTime /\ now' = now + 1 /\ UNCHANGED <<says, approvals, audit, history, mutated>>

GateNext ==
    \/ \E p \in Proposals :
          \/ \E who \in DOMAIN Approvers : ApproveProposal(p, who)
          \/ CommitProposal(p) \/ Mutate(p)
    \/ Tick
GateSpec == GateInit /\ [][GateNext]_gateVars
-----------------------------------------------------------------------------
\* Every commit is of an artifact somebody approved since that artifact was
\* last committed, so no approval is used twice and none for another artifact,
\* whatever the proposal said when it was approved.
OneCommitPerApproval == \A n \in DOMAIN audit : \E k \in 1 .. audit[n].after :
    /\ history[k] = audit[n].approval /\ history[k].artifact = audit[n].artifact
    /\ \A m \in 1 .. n - 1 : audit[m].artifact = audit[n].artifact => audit[m].after < k

\* Authority comes from a user: what a commit did was approved by a user, or,
\* if it destroys nothing, by somebody a user had given a grant for it that had
\* not expired when the approval was given.
AuthorityFromUser == \A n \in DOMAIN audit :
    LET by == audit[n].approval
        a == audit[n].artifact
    IN  \/ Approvers[by.who] = "user"
        \/ /\ a.action \notin Destructive
           /\ \E k \in DOMAIN Grants :
                 /\ Grants[k].grantee = by.who /\ Approvers[Grants[k].by] = "user"
                 /\ Grants[k].action = a.action /\ <<Grants[k].scope, a.target>> \in Covered
                 /\ by.at < Grants[k].expires
=============================================================================
