---------------------------- MODULE MCControlPlane ----------------------------
(***************************************************************************)
(* The control plane on small instances in one run: the client and the     *)
(* server it talks to (ControlPlaneClient), the event ledger on disk and   *)
(* in memory (EventLedger), the admission of registrations and logins      *)
(* (IdentityAdmission), the checks of payloads (ControlPlaneErrors) and of *)
(* contract versions (ControlPlaneVersioning).  `part` says which of them  *)
(* a behaviour is about; the variables of the others stay as they began.   *)
(* The properties of the modules that this one extends are checked as they *)
(* stand there.                                                            *)
(***************************************************************************)
EXTENDS ControlPlaneClient, EventLedger, IdentityAdmission, ControlPlaneErrors,
        ControlPlaneVersioning

CONSTANTS
    Parts,       \* the parts a run explores
    a1, a2,      \* e-mail addresses
    p1, p2,      \* publishers
    c1, c2,      \* callers of the admission
    anna, ben, nat

VARIABLES
    part,
    memory, memRotten, memHolder, memCall, memAnswer, memAcked, memKept, memUp,
    memCalls    \* a ledger in memory

\* What a part of the client's calls may use of the bounds: some operations, the
\* bodies of accounts, so many calls and so much time.  The refresh comes unasked.
Using(ops, accounts, many, last) ==
    /\ \A i \in DOMAIN stack' :
          /\ stack'[i].op \in ops \union {"refresh"}
          /\ stack'[i].op \in Public => stack'[i].body \in accounts
    /\ AtRest /\ started' # started => started < many
    /\ clock' <= last

SessionOps == {"register", "login", "refresh", "logout", "delete_account", "entitlements"}
QuotaOps == {"login", "reserve", "commit", "release"}
ClientOps == SessionOps \union QuotaOps

\* The operations that are neither about the session nor about the quota.
LiveOps == {"login", "checkout", "subscription", "register_key", "revoke_key", "route"}

-----------------------------------------------------------------------------
\* Events: batches that repeat, contradict and break the envelope's rules.
Envelope(id, op, outcome, code) ==
    [id |-> id, version |-> 1, op |-> op, outcome |-> outcome,
     name |-> <<op, outcome>>, code |-> code]

One == Envelope("id1", "login", "succeeded", NoCode)
Other == Envelope("id1", "login", "failed", "rate_limited")
Two == Envelope("id2", "logout", "succeeded", NoCode)

Invalid ==
    {[Two EXCEPT !.version = 2],
     Envelope("id2", "unheard", "succeeded", NoCode),
     Envelope("id2", "login", "pending", NoCode),
     [Two EXCEPT !.name = <<"login", "succeeded">>],
     Envelope("id2", "logout", "failed", "rate_limited"),
     Envelope("id2", "logout", "succeeded", "internal")}

CatalogErrors == [op \in {"login", "logout"} |->
    IF op = "login" THEN {"rate_limited", "internal"} ELSE {"internal"}]

Batches ==
    {<<One>>, <<Other>>, <<One, Two>>, <<Two, Other>>, <<Two, One, One>>,
     <<One, Other>>} \union {<<One, e>> : e \in Invalid}

\* A ledger in memory, beside the extended one, which two processes have on one
\* file.
Memory ==
    INSTANCE EventLedger WITH
        Publishers <- {p1}, InMemory <- TRUE, MaxCalls <- 6,
        outbox <- memory, rotten <- memRotten, holder <- memHolder,
        call <- memCall, answer <- memAnswer, acked <- memAcked,
        kept <- memKept, up <- memUp, calls <- memCalls

-----------------------------------------------------------------------------
\* Admission: a retry with the same key, with another body, and two accounts
\* behind one source.
Admit(key, body, who) ==
    [key |-> key, body |-> body, op |-> "login", account |-> who, source |-> nat]

SmallAttempts ==
    {Admit(1, "a", anna), Admit(2, "a", anna), Admit(2, "b", anna),
     Admit(3, "a", ben), Admit(4, "a", ben)}
Small == [scope \in {"account", "source"} |-> IF scope = "account" THEN 1 ELSE 2]

-----------------------------------------------------------------------------
\* Payloads: an object, one nested object or list, a secret, an error envelope,
\* each with up to two changes.
FirstPayloads ==
    {[p \in {<<>>} |-> "dict"],
     [p \in {<<>>, <<"plain">>} |-> "dict"],
     [p \in {<<>>, <<"plain">>} |-> IF p = <<>> THEN "dict" ELSE "list"],
     [p \in {<<>>, <<"token">>, <<"plain">>} |->
        IF p = <<>> THEN "dict" ELSE "words"],
     [p \in {<<>>, <<"error">>} \union
            {<<"error", key>> : key \in {"code", "message", "retryable"}} |->
        IF Len(p) < 2 THEN "dict"
        ELSE CASE p[2] = "code" -> "auth_invalid"
               [] p[2] = "message" -> "words"
               [] p[2] = "retryable" -> "bool"]}

LoginFields == [op \in {"login"} |-> {"token", "plain"}]

-----------------------------------------------------------------------------
\* Versions: a contract of one operation with a nested response, three edits.
Inner(required) == Under("f", Leaf(required))

Post(path, auth) ==
    [method |-> "POST", path |-> path, auth |-> auth, mutating |-> TRUE,
     errors |-> {"internal"}, request |-> NoFields, response |-> NoFields]
Get(path) == [Post(path, "required") EXCEPT !.method = "GET", !.mutating = FALSE]

SmallShapes ==
    {Post("/x", "required"), Post("/y", "public"), Get("/x"), Get("/y"),
     [Post("/y", "required") EXCEPT !.method = "GET"]}
SmallSpecs ==
    {Leaf(TRUE), Leaf(FALSE), Object(TRUE, Inner(TRUE)),
     Object(FALSE, Inner(TRUE)), Object(TRUE, Inner(FALSE))}
FirstDrafts ==
    {[major |-> 1, meta |-> "texts", public |-> {}, readOnly |-> {},
      ops |-> [a \in {"a.put"} |-> [Post("/x", "required") EXCEPT
                  !.response = Under("f", Object(TRUE, Inner(TRUE)))]]]}

ASSUME ServerConstants /\ ClientConstants
ASSUME LedgerConstants /\ Memory!LedgerConstants
ASSUME AdmissionConstants
ASSUME ErrorsConstants
ASSUME VersioningConstants

-----------------------------------------------------------------------------
memoryVars == <<memory, memRotten, memHolder, memCall, memAnswer, memAcked,
                memKept, memUp, memCalls>>
others == <<memoryVars, payloadVars, versionVars>>
controlVars == <<part, clientVars, ledgerVars, admissionVars, others>>

\* Only ControlPlaneErrors begins in more than one state.
ControlInit ==
    /\ part \in Parts
    /\ ClientInit
    /\ LedgerInit /\ Memory!LedgerInit
    /\ AdmissionInit
    /\ PayloadInit
    /\ part # "errors" => payload = [p \in {<<>>} |-> "dict"]
    /\ VersionInit

ControlNext ==
    /\ UNCHANGED part
    /\ \/ /\ part = "session"
          /\ ClientNext /\ Using(SessionOps, Accounts, 3, 4)
          /\ UNCHANGED <<ledgerVars, admissionVars, others>>
       \/ /\ part = "quota"
          /\ ClientNext /\ Using(QuotaOps, {a1}, 4, 3)
          /\ UNCHANGED <<ledgerVars, admissionVars, others>>
       \/ /\ part = "live"
          /\ ClientNext
          /\ UNCHANGED <<ledgerVars, admissionVars, others>>
       \/ /\ part = "disk"
          /\ LedgerNext
          /\ UNCHANGED <<clientVars, admissionVars, others>>
       \/ /\ part = "memory"
          /\ Memory!LedgerNext
          /\ UNCHANGED <<clientVars, ledgerVars, admissionVars, payloadVars, versionVars>>
       \/ /\ part = "admission"
          /\ AdmissionNext
          /\ UNCHANGED <<clientVars, ledgerVars, others>>
       \/ /\ part = "errors"
          /\ PayloadNext
          /\ UNCHANGED <<clientVars, ledgerVars, admissionVars, memoryVars, versionVars>>
       \/ /\ part = "versioning"
          /\ VersionNext
          /\ UNCHANGED <<clientVars, ledgerVars, admissionVars, memoryVars, payloadVars>>

ControlSpec == ControlInit /\ [][ControlNext]_controlVars

\* The fairness of FairClientSpec, for the part that checks liveness.
LiveStep(step) ==
    /\ part = "live"
    /\ step
    /\ UNCHANGED <<part, ledgerVars, admissionVars, others>>
LivePreflight == LiveStep(Preflight)
LiveAttemptEnds ==
    LiveStep(Unanswered \/ Overloaded \/ Garbled \/ Answered)

FairControlSpec ==
    /\ ControlSpec
    /\ WF_controlVars(LivePreflight)
    /\ WF_controlVars(LiveAttemptEnds)

-----------------------------------------------------------------------------
\* Over time: every call of the client ends (ControlPlaneClient), and a ledger in
\* memory keeps what it promised through restarts (EventLedger).
ServicesKept ==
    /\ EveryCallEnds
    /\ [](part = "memory" => Memory!OutboxWhole)
=============================================================================
