-------------------------- MODULE ControlPlaneClient --------------------------
(***************************************************************************)
(* The consumer of the control plane: ControlPlaneClient of                *)
(* server/control_plane_client.py, against the reference server and over a *)
(* transport that may fail before or after the server has acted.           *)
(*                                                                         *)
(* One call runs at a time, but it is not one step: it waits for its       *)
(* transport between attempts, and may first run another call, the refresh *)
(* of the token.  `stack` is the stack of the calls under way, the last    *)
(* one on top.  Time passes at any moment, on both sides alike.            *)
(*                                                                         *)
(* The shapes of requests and replies and the scan for echoed key material *)
(* are abstracted to one question: a reply that the client refuses is      *)
(* "garbled".                                                              *)
(***************************************************************************)
EXTENDS ControlPlaneServer, Sequences

CONSTANTS
    Ops,          \* operations the application calls
    MaxAttempts,  \* max_attempts
    Skew,         \* refresh_skew_seconds
    CacheTTL,     \* cache_ttl_seconds of the entitlements
    LastTime,     \* bound of the model: the clock
    MaxStarted    \* bound of the model: calls the application begins

ClientConstants ==
    /\ Ops \subseteq Operations
    /\ MaxAttempts \in 1..10
    /\ Skew \in Nat
    /\ CacheTTL \in Nat
    /\ LastTime \in Nat
    /\ MaxStarted \in Nat

VARIABLES
    clock,         \* the time
    srv,           \* the server's state
    token,         \* token, None without a session
    expires,       \* token_expires_at
    account,       \* account_id
    cache,         \* _entitlements: a set with the payload and fetched_at
    reservations,  \* _reservations
    stack,         \* the stack of calls
    started,       \* how many calls have begun; the last one's number
    events,        \* history: the events published, in order
    executed,      \* history: calls whose outcome was decided by the call
    told           \* history: the last answer to the application

session == <<token, expires, account, cache, reservations>>
clientVars == <<clock, srv, session, stack, started, events, executed, told>>

AtRest == stack = <<>>
Top  == stack[Len(stack)]

NoAnswer == [op |-> None, outcome |-> "none", code |-> "ok", source |-> None,
             body |-> None]

AuthCodes == {"auth_expired", "auth_invalid"}

\* _unreachable tells failures apart by code and HTTP status.  The code of three
\* of them is internal, but a transport that raises ("unreachable") and an error
\* reply that violates the contract ("malformed") leave no status, a server
\* error has a 5xx, and a refused success reply ("garbled") its 2xx.
Unreachable(code) == code \in {"unreachable", "malformed", "server_error"}

-----------------------------------------------------------------------------
\* A session is cleared without forgetting the account or its reservations.
ClearSession ==
    /\ token' = None
    /\ expires' = 0
    /\ cache' = {}

\* entitlements(): the fallback when the call it makes fails with `code`.
Cached(at) == \E e \in cache : at - e.at < CacheTTL

\* What the application is told when the call on top of the stack ends, and the
\* stack falls back to the call below or to nothing.  A nested refresh that
\* succeeds lets the call below go on; one that fails ends it too.
Tell(frame, outcome, code, source) ==
    [op |-> frame.op, outcome |-> outcome, code |-> code, source |-> source,
     body |-> frame.body]

FailAnswer(code) ==
    IF stack[1].op = "entitlements" /\ Unreachable(code)
    THEN Tell(stack[1], "succeeded", "ok",
              IF Cached(clock) THEN "cache" ELSE "free")
    ELSE Tell(stack[1], "failed", code, None)

\* _record_event publishes one event, or the publisher refuses: then the refusal
\* is what the application gets, whatever the outcome was.
PublishEvent(frame, outcome, say) ==
    \/ /\ events' = Append(events, [id |-> frame.id, op |-> frame.op,
                                    outcome |-> outcome])
       /\ told' = say
    \/ /\ UNCHANGED events
       /\ told' = Tell(stack[1], "refused", "publication_failure", None)

\* The call on top fails with `code` after it was sent: an event, and the end of
\* every call on the stack.
FailCall(code) ==
    /\ PublishEvent(Top, "failed", FailAnswer(code))
    /\ stack' = <<>>
    /\ executed' = executed \cup {Top.id}

\* Preflight refusals record nothing.

Refuse(code) ==
    /\ told' = FailAnswer(code)
    /\ stack' = <<>>
    /\ UNCHANGED <<events, executed>>

-----------------------------------------------------------------------------
Frame(op, body, id) ==
    [op |-> op, body |-> body, id |-> id, pc |-> "preflight", attempt |-> 0]

\* What the application can ask: it names a reservation or a key it was given.
Bodies(op) ==
    CASE op \in Public -> Accounts
      [] op \in {"commit", "release"} -> 1..srv.reserved
      [] op = "revoke_key" -> 1..srv.registered_keys
      [] OTHER -> {None}

Expired(rid) == rid \in DOMAIN reservations /\ clock >= reservations[rid]

\* _reservation_shortcut: an expired reservation is answered without the server.
\* It is forgotten, so that a second request goes through.
Shortcut(op, rid) == op \in {"commit", "release"} /\ Expired(rid)

Call(op, body) ==
    LET frame == Frame(op, body, started + 1)
    IN  /\ AtRest
        /\ started < MaxStarted
        /\ started' = started + 1
        /\ IF Shortcut(op, body)
           THEN /\ reservations' = Without(reservations, body)
                /\ UNCHANGED <<token, expires, account, cache, stack>>
                /\ executed' = executed \cup {frame.id}
                /\ \/ /\ events' = Append(events,
                           [id |-> frame.id, op |-> op,
                            outcome |-> IF op = "release" THEN "succeeded"
                                                          ELSE "failed"])
                      /\ told' = Tell(frame,
                           IF op = "release" THEN "succeeded" ELSE "failed",
                           IF op = "release" THEN "ok"
                           ELSE "quota_reservation_expired", "shortcut")
                   \/ /\ UNCHANGED events
                      /\ told' = Tell(frame, "refused",
                                        "publication_failure", None)
           ELSE /\ stack' = <<frame>>
                /\ told' = NoAnswer
                /\ UNCHANGED <<session, events, executed>>
        /\ UNCHANGED <<clock, srv>>

\* _ensure_token.  A token that ends within the skew is refreshed first, except
\* for the refresh itself.
Preflight ==
    /\ ~ AtRest
    /\ Top.pc = "preflight"
    /\ IF Top.op \notin Public /\ token = None
       THEN /\ Refuse("auth_invalid")
            /\ UNCHANGED <<session, started>>
       ELSE IF Top.op \notin Public /\ clock >= expires
       THEN /\ ClearSession
            /\ UNCHANGED <<account, reservations, started>>
            /\ Refuse("auth_expired")
       ELSE IF /\ Top.op \notin Public \cup {"refresh"}
               /\ clock >= expires - Skew
       THEN /\ started' = started + 1
            /\ stack' = <<[Top EXCEPT !.pc = "send"],
                          Frame("refresh", None, started + 1)>>
            /\ UNCHANGED <<session, events, executed, told>>
       ELSE /\ stack' = [stack EXCEPT ![Len(stack)].pc = "send"]
            /\ UNCHANGED <<session, started, events, executed, told>>
    /\ UNCHANGED <<clock, srv>>

\* _after_success
BadAfterSuccessKept(op, body, payload) ==
    CASE op \in Public \cup {"refresh"} ->
           /\ account' = payload.account
           /\ token' = payload.token
           /\ expires' = payload.expires
           /\ UNCHANGED <<cache, reservations>>
      [] op \in SelfDestructive ->
           /\ ClearSession
           /\ account' = None
           /\ reservations' = <<>>
      [] op = "entitlements" ->
           /\ cache' = {[owner |-> payload.owner, at |-> clock]}
           /\ UNCHANGED <<token, expires, account, reservations>>
      [] OTHER -> UNCHANGED session

AfterSuccess(op, body, payload) ==
    CASE op \in Public ->
           /\ account' = payload.account
           /\ token' = payload.token
           /\ expires' = payload.expires
           /\ cache' = {}
           /\ UNCHANGED reservations
      [] op = "refresh" ->
           /\ token' = payload.token
           /\ expires' = payload.expires
           /\ UNCHANGED <<account, cache, reservations>>
      [] op \in SelfDestructive ->
           /\ ClearSession
           /\ account' = None
           /\ reservations' = <<>>
      [] op = "entitlements" ->
           /\ cache' = {[owner |-> payload.owner, at |-> clock]}
           /\ UNCHANGED <<token, expires, account, reservations>>
      [] op = "reserve" ->
           /\ reservations' = Put(reservations, payload.rid, payload.expires)
           /\ UNCHANGED <<token, expires, account, cache>>
      [] op \in {"commit", "release"} ->
           /\ reservations' = Without(reservations, body)
           /\ UNCHANGED <<token, expires, account, cache>>
      [] OTHER -> UNCHANGED session

\* _headers: the token as it is now, and one key for all attempts of a call.
BadRequest(frame) ==
    [op |-> frame.op, body |-> frame.body, id |-> frame.id,
     token |-> IF frame.op \in Public THEN None ELSE token,
     key |-> <<frame.id, frame.attempt>>]

Request(frame) ==
    [op |-> frame.op, body |-> frame.body, id |-> frame.id,
     token |-> IF frame.op \in Public THEN None ELSE token,
     key |-> IF Mutating(frame.op) THEN frame.id ELSE None]

\* One attempt of _send ends without an answer to go by: another one follows, or
\* the call fails with the last reason.

BadTryAgain(code) ==
    /\ stack' = [stack EXCEPT ![Len(stack)].attempt = (@ + 1) % MaxAttempts]
    /\ UNCHANGED <<events, executed, told>>

TryAgain(code) ==
    IF Top.attempt + 1 < MaxAttempts
    THEN /\ stack' = [stack EXCEPT ![Len(stack)].attempt = @ + 1]
         /\ UNCHANGED <<events, executed, told>>
    ELSE FailCall(code)

\* The transport raises: the server may have acted or not.
Unanswered ==
    /\ ~ AtRest
    /\ Top.pc = "send"
    /\ \/ UNCHANGED srv
       \/ srv' = Handle(srv, Request(Top), clock).srv
    /\ TryAgain("unreachable")
    /\ UNCHANGED <<clock, session, started>>

\* The server is up and cannot serve: a retryable error, 5xx.
Overloaded ==
    /\ ~ AtRest
    /\ Top.pc = "send"
    /\ TryAgain("server_error")
    /\ UNCHANGED <<clock, srv, session, started>>

\* A reply that violates the contract: refused, and not tried again.
Garbled ==
    /\ ~ AtRest
    /\ Top.pc = "send"
    /\ srv' = Handle(srv, Request(Top), clock).srv
    /\ FailCall("garbled") \/ FailCall("malformed")
    /\ UNCHANGED <<clock, session, started>>

Answered ==
    /\ ~ AtRest
    /\ Top.pc = "send"
    /\ LET reply == Handle(srv, Request(Top), clock)
       IN  /\ srv' = reply.srv
           /\ CASE reply.code = "ok" ->
                     /\ AfterSuccess(Top.op, Top.body, reply.payload)
                     /\ executed' = executed \cup {Top.id}
                     /\ \/ /\ events' = Append(events,
                                [id |-> Top.id, op |-> Top.op,
                                 outcome |-> "succeeded"])
                           /\ stack' = SubSeq(stack, 1, Len(stack) - 1)
                           /\ told' = IF Len(stack) > 1 THEN told
                                        ELSE Tell(Top, "succeeded", "ok",
                                                  "live")
                        \/ /\ UNCHANGED events
                           /\ stack' = <<>>
                           /\ told' = Tell(stack[1], "refused",
                                             "publication_failure", None)
                [] reply.code \in AuthCodes ->
                     /\ ClearSession
                     /\ UNCHANGED <<account, reservations>>
                     /\ FailCall(reply.code)
                [] reply.code \notin AuthCodes \cup {"ok"} ->
                     /\ UNCHANGED session
                     /\ IF reply.retryable THEN TryAgain(reply.code)
                        ELSE FailCall(reply.code)
    /\ UNCHANGED <<clock, started>>

Tick ==
    /\ clock < LastTime
    /\ clock' = clock + 1
    /\ UNCHANGED <<srv, session, stack, started, events, executed, told>>

-----------------------------------------------------------------------------
ClientInit ==
    /\ clock = 0
    /\ srv = [EmptyServer EXCEPT !.accounts = Accounts]
    /\ token = None
    /\ expires = 0
    /\ account = None
    /\ cache = {}
    /\ reservations = <<>>
    /\ stack = <<>>
    /\ started = 0
    /\ events = <<>>
    /\ executed = {}
    /\ told = NoAnswer

ClientNext ==
    \/ \E op \in Ops : \E body \in Bodies(op) : Call(op, body)
    \/ Preflight
    \/ Unanswered
    \/ Overloaded
    \/ Garbled
    \/ Answered
    \/ Tick

ClientSpec == ClientInit /\ [][ClientNext]_clientVars

\* A transport answers or raises in the end: every attempt ends.
FairClientSpec ==
    ClientSpec
      /\ WF_clientVars(Preflight)
      /\ WF_clientVars(Unanswered \/ Overloaded \/ Garbled \/ Answered)

-----------------------------------------------------------------------------
(***************************************************************************)
(* Properties.                                                             *)
(***************************************************************************)

\* Types.
ClientTypeOK ==
    /\ token \in Nat \cup {None}
    /\ account \in Accounts \cup {None}
    /\ Len(stack) <= 2
    /\ \A i \in DOMAIN stack : stack[i].attempt \in 0..(MaxAttempts - 1)
    /\ \A rid \in DOMAIN reservations : rid \in 1..srv.reserved

\* One logical call takes effect on the server at most once, however many of its
\* attempts reach the server and however many replies are lost: its attempts
\* carry one Idempotency-Key.
OneEffect == \A id \in DOMAIN srv.effects : srv.effects[id] = 1

\* Every unit of quota is free, held by an open reservation, or committed: no
\* retry, expiry or lost reply makes units or loses them.
QuotaConserved ==
    srv.units + Need * (Cardinality(DOMAIN srv.reservations)
                          + Cardinality(srv.committed)) = Units

\* The token the client holds is its account's, and the client gives it up no
\* later than the server does, or the server has revoked it already.
SessionAgrees ==
    token \in DOMAIN srv.tokens =>
        /\ srv.tokens[token].account = account
        /\ expires <= srv.tokens[token].expires

\* Cached entitlements belong to the account of the session, and there are none
\* without a session: what one account may do is never shown to another, in
\* whatever order logins, refreshes, failures and deletions come.
CacheOwned ==
    cache # {} => token # None /\ \A e \in cache : e.owner = account

\* The events are about calls whose outcome the call decided, one event each, and
\* a call reported as succeeded took effect on the server, except for the release
\* of an expired reservation, which the client answers itself.
EventTruth ==
    /\ \A i, j \in DOMAIN events : events[i].id = events[j].id => i = j
    /\ \A i \in DOMAIN events :
         /\ events[i].id \in executed
         /\ events[i].outcome = "succeeded" /\ Mutating(events[i].op)
              => events[i].id \in DOMAIN srv.effects \/ events[i].op = "release"

\* Client and server agree about the token, what is cached belongs to the session,
\* and an outcome that is told happened, whatever the transport loses in the middle
\* of a nested refresh.
SessionSound == ClientTypeOK /\ SessionAgrees /\ CacheOwned /\ EventTruth

\* A call that is repeated after a lost reply takes effect once, and units are
\* neither lost nor made.
EffectsOnce == OneEffect /\ QuotaConserved

\* "return {}  # expired: already released": when the client answers the release
\* of an expired reservation itself, the reservation was not used up.
ShortcutTruthful ==
    told.op = "release" /\ told.source = "shortcut"
      => told.body \notin srv.committed

\* Every call ends: attempts are bounded, a refresh starts no other refresh.
EveryCallEnds == ~ AtRest ~> AtRest

=============================================================================
