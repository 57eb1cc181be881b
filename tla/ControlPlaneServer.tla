-------------------------- MODULE ControlPlaneServer --------------------------
(***************************************************************************)
(* The reference control plane of tools/control_plane_mock.py: bearer      *)
(* tokens, idempotency records and the effects of the operations, as a     *)
(* function from the server's state and a request to its next state and    *)
(* the reply.                                                              *)
(*                                                                         *)
(* Tokens, reservations and key references are numbered in the order they  *)
(* are minted.  A body that the schema refuses changes nothing and is left *)
(* out; so are the payloads no client keeps (checkout URLs, prices).       *)
(***************************************************************************)
EXTENDS Integers, FiniteSets, Functions

CONSTANTS
    Accounts,   \* e-mail addresses, each with the right password
    None,       \* no token, no account
    TokenTTL,   \* lifetime of a token
    HoldTTL,    \* hold_seconds of a reservation
    Units,      \* quota_units at the start
    Need        \* estimated_units of a reservation

ServerConstants ==
    /\ TokenTTL \in Nat \ {0}
    /\ HoldTTL \in Nat \ {0}
    /\ Units \in Nat
    /\ Need \in 1..Units
    /\ None \notin Nat

Public          == {"register", "login"}
SelfDestructive == {"logout", "delete_account"}
ReadOnly        == {"entitlements", "subscription", "route"}
Mutating(op)    == op \notin ReadOnly
Operations ==
    Public \cup SelfDestructive \cup ReadOnly \cup
    {"refresh", "reserve", "commit", "release", "checkout", "register_key", "revoke_key"}

EmptyServer ==
    [accounts |-> {}, tokens |-> <<>>, minted |-> 0, idempotency |-> <<>>,
     reservations |-> <<>>, reserved |-> 0, units |-> Units, keys |-> {},
     registered_keys |-> 0,
     \* history: what became of reservations, and the effects of each key
     committed |-> {}, refunded |-> {}, effects |-> <<>>]

Put(f, x, y) == [z \in DOMAIN f \cup {x} |-> IF z = x THEN y ELSE f[z]]
Without(f, x) == Restrict(f, DOMAIN f \ {x})

Ok(srv, payload) == [srv |-> srv, code |-> "ok", retryable |-> FALSE,
                     payload |-> payload]
Err(srv, code, retryable) ==
    [srv |-> srv, code |-> code, retryable |-> retryable, payload |-> None]

-----------------------------------------------------------------------------
\* _bearer
Bearer(srv, token, now) ==
    CASE token = None -> "missing"
      [] token # None /\ token \notin DOMAIN srv.tokens -> "unknown"
      [] token \in DOMAIN srv.tokens /\ now > srv.tokens[token].expires
            -> "expired"
      [] OTHER -> "ok"

\* _mint
Mint(srv, account, now) ==
    LET token == srv.minted + 1
    IN  Ok([srv EXCEPT !.minted = token,
                       !.tokens = Put(@, token, [account |-> account,
                                                 expires |-> now + TokenTTL])],
           [account |-> account, token |-> token, expires |-> now + TokenTTL])

Register(srv, account, now) ==
    IF account \in srv.accounts THEN Err(srv, "conflict", FALSE)
    ELSE Mint([srv EXCEPT !.accounts = @ \cup {account}], account, now)

Login(srv, account, now) ==
    IF account \notin srv.accounts THEN Err(srv, "auth_invalid", FALSE)
    ELSE Mint(srv, account, now)

Logout(srv, token) == Ok([srv EXCEPT !.tokens = Without(@, token)], None)

DeleteAccount(srv, account) ==
    Ok([srv EXCEPT !.accounts = @ \ {account},
                   !.tokens = Restrict(@, {t \in DOMAIN @ :
                                             @[t].account # account})], None)

Reserve(srv, now) ==
    IF Need > srv.units THEN Err(srv, "quota_exhausted", TRUE)
    ELSE LET rid == srv.reserved + 1
         IN  Ok([srv EXCEPT !.units = @ - Need, !.reserved = rid,
                            !.reservations = Put(@, rid, now + HoldTTL)],
                [rid |-> rid, expires |-> now + HoldTTL])

\* A commit takes the whole reservation.
CommitUnits(srv, rid, now) ==
    IF rid \notin DOMAIN srv.reservations THEN Err(srv, "not_found", FALSE)
    ELSE LET popped == [srv EXCEPT !.reservations = Without(@, rid)]
         IN  IF now > srv.reservations[rid]
             THEN Err([popped EXCEPT !.units = @ + Need,
                                     !.refunded = @ \cup {rid}],
                      "quota_reservation_expired", TRUE)
             ELSE Ok([popped EXCEPT !.committed = @ \cup {rid}], None)

ReleaseUnits(srv, rid) ==
    IF rid \notin DOMAIN srv.reservations THEN Err(srv, "not_found", FALSE)
    ELSE Ok([srv EXCEPT !.reservations = Without(@, rid), !.units = @ + Need,
                        !.refunded = @ \cup {rid}], None)

RegisterKey(srv) ==
    LET ref == srv.registered_keys + 1
    IN  Ok([srv EXCEPT !.keys = @ \cup {ref}, !.registered_keys = ref], ref)

RevokeKey(srv, ref) ==
    IF ref \notin srv.keys THEN Err(srv, "not_found", FALSE)
    ELSE Ok([srv EXCEPT !.keys = @ \ {ref}], None)

\* Without a key of its own the account is routed to the platform.
Route(srv) == Ok(srv, IF srv.keys = {} THEN None ELSE Cardinality(srv.keys))

\* _logic: the dispatch on the operation's name.
Logic(srv, req, account, now) ==
    CASE req.op = "register"       -> Register(srv, req.body, now)
      [] req.op = "login"          -> Login(srv, req.body, now)
      [] req.op = "refresh"        -> Mint(srv, account, now)
      [] req.op = "logout"         -> Logout(srv, req.token)
      [] req.op = "delete_account" -> DeleteAccount(srv, account)
      [] req.op = "entitlements"   -> Ok(srv, [owner |-> account])
      [] req.op = "reserve"        -> Reserve(srv, now)
      [] req.op = "commit"         -> CommitUnits(srv, req.body, now)
      [] req.op = "release"        -> ReleaseUnits(srv, req.body)
      [] req.op = "checkout"       -> Ok(srv, now)
      [] req.op = "subscription"   -> Err(srv, "not_found", FALSE)
      [] req.op = "register_key"   -> RegisterKey(srv)
      [] req.op = "revoke_key"     -> RevokeKey(srv, req.body)
      [] req.op = "route"          -> Route(srv)

\* An outcome of a mutating operation, error or not, is recorded under its key.
Recorded(result, scope, req) ==
    [result EXCEPT
       !.srv.idempotency = Put(@, scope, [body |-> req.body,
                                          code |-> result.code,
                                          retryable |-> result.retryable,
                                          payload |-> result.payload]),
       !.srv.effects = IF result.code = "ok"
                       THEN Put(@, req.id, 1 + IF req.id \in DOMAIN @
                                               THEN @[req.id] ELSE 0)
                       ELSE @]

\* The same key with another body is a conflict.
Replayed(srv, scope, req) ==
    LET prior == srv.idempotency[scope]
    IN  IF prior.body # req.body THEN Err(srv, "idempotency_conflict", FALSE)
        ELSE [srv |-> srv, code |-> prior.code, retryable |-> prior.retryable,
              payload |-> prior.payload]

\* What a key is scoped by: the credential presented, or the account.
Scope(srv, req) ==
    IF req.op \in SelfDestructive THEN <<"cred", req.token, req.op, req.key>>
    ELSE IF req.op \in Public THEN <<"public", req.op, req.key>>
    ELSE <<srv.tokens[req.token].account, req.op, req.key>>

\* The replay lookup of a self-destructive operation comes before the token is
\* checked: its success has revoked the token.
Handle(srv, req, now) ==
    IF /\ req.op \in SelfDestructive
       /\ Scope(srv, req) \in DOMAIN srv.idempotency
    THEN Replayed(srv, Scope(srv, req), req)
    ELSE IF req.op \notin Public /\ Bearer(srv, req.token, now) # "ok"
    THEN Err(srv, IF Bearer(srv, req.token, now) = "expired"
                  THEN "auth_expired" ELSE "auth_invalid", FALSE)
    ELSE LET account == IF req.op \in Public THEN None
                        ELSE srv.tokens[req.token].account
         IN  IF ~ Mutating(req.op) THEN Logic(srv, req, account, now)
             ELSE IF Scope(srv, req) \in DOMAIN srv.idempotency
                  THEN Replayed(srv, Scope(srv, req), req)
                  ELSE Recorded(Logic(srv, req, account, now),
                                Scope(srv, req), req)

=============================================================================
