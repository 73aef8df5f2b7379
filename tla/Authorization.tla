---------------------------- MODULE Authorization ----------------------------
(***************************************************************************)
(* Authorization over BLE: the service that grants it for a limited time   *)
(* (core/authorization.rs), the flag of the BLE session that the handlers  *)
(* consult (transport/ble/session.rs), and handle_auth_write, which sets   *)
(* the one and then the other (transport/ble/characteristics.rs).          *)
(*                                                                         *)
(* Time is a counter.  The service's state is the instant until which it   *)
(* is authorized, 0 being Unauthorized.                                    *)
(*                                                                         *)
(* A definition Name_Slip is a mistake that the properties have to notice: *)
(* see "Sensitivity" in the README.                                        *)
(***************************************************************************)
EXTENDS Naturals, FiniteSets, GattApplication

CONSTANTS
    Centrals,           \* the BLE clients
    Timeout,            \* AUTHORIZATION_TIMEOUT: 300 seconds in the code
    MaxTime,            \* bound: when the clock stops
    MaxKeys             \* bound: how many keys are presented

ASSUME AuthorizationAssumption ==
    Timeout \in Nat \ {0} /\ MaxTime \in Nat \ {0} /\ MaxKeys \in Nat

VARIABLES
    now,                \* Instant::now()
    expiresAt,          \* AuthorizationService.state
    sessionFlag,        \* BleSession.authorized
    \* handle_auth_write for each central
    pc,                 \* where it is
    deadline,           \* the expires_at it computed
    response,           \* what its last request returned
    \* the other handlers
    admitted,           \* the last instant at which check_authorized passed
    \* history
    keys,               \* how many keys were presented
    granted             \* when each central's last right key was found right

vars == <<now, expiresAt, sessionFlag, pc, deadline, response, admitted, keys, granted>>

Init ==
    /\ now = 1
    /\ expiresAt = 0
    /\ sessionFlag = FALSE
    /\ pc = [c \in Centrals |-> "idle"]
    /\ deadline = [c \in Centrals |-> 0]
    /\ response = [c \in Centrals |-> "none"]
    /\ admitted = 0
    /\ keys = 0
    /\ granted = [c \in Centrals |-> 0]

\* AuthorizationState::is_authorized.
IsAuthorized_Always == expiresAt # 0
IsAuthorized == now < expiresAt

Respond(c, r) == response' = [response EXCEPT ![c] = r]

-----------------------------------------------------------------------------
(* handle_auth_write and AuthorizationService::authorize                    *)

\* A key of another length, or with another hash: nothing is changed.
PresentWrongKey(c) ==
    /\ Takes(AUTH_KEY, "write") /\ pc[c] = "idle"
    /\ Respond(c, "Failed")
    /\ UNCHANGED <<now, expiresAt, sessionFlag, pc, deadline, admitted, keys, granted>>

\* The hash matches.  The deadline is computed before the lock is awaited.
DeadlineFrom_Twice(t) == t + 2 * Timeout
DeadlineFrom(t) == t + Timeout

PresentKey(c) ==
    /\ Takes(AUTH_KEY, "write") /\ pc[c] = "idle" /\ keys < MaxKeys
    /\ keys' = keys + 1
    /\ deadline' = [deadline EXCEPT ![c] = DeadlineFrom(now)]
    /\ granted' = [granted EXCEPT ![c] = now]
    /\ pc' = [pc EXCEPT ![c] = "matched"]
    /\ UNCHANGED <<now, expiresAt, sessionFlag, response, admitted>>

\* The service is authorized until the deadline, even if another handler has
\* stored a later one.
Grant(c) ==
    /\ pc[c] = "matched"
    /\ expiresAt' = deadline[c]
    /\ pc' = [pc EXCEPT ![c] = "granted"]
    /\ UNCHANGED <<now, sessionFlag, deadline, response, admitted, keys, granted>>

\* set_authorized(true) on the session; nothing in the program ever sets it to
\* false again.
SetFlag(c) ==
    /\ pc[c] = "granted"
    /\ sessionFlag' = TRUE
    /\ pc' = [pc EXCEPT ![c] = "idle"]
    /\ Respond(c, "Accepted")
    /\ UNCHANGED <<now, expiresAt, deadline, admitted, keys, granted>>

-----------------------------------------------------------------------------
(* check_authorized, at the entry of every other handler, asks the session. *)

Passes_Anybody == TRUE
Passes_WhileAuthorized == IsAuthorized
Passes == sessionFlag

Request(c) ==
    /\ pc[c] = "idle"
    /\ \/ Passes /\ admitted' = now /\ Respond(c, "Served")
       \/ ~Passes /\ Respond(c, "NotAuthorized") /\ UNCHANGED admitted
    /\ UNCHANGED <<now, expiresAt, sessionFlag, pc, deadline, keys, granted>>

Tick ==
    /\ now < MaxTime
    /\ now' = now + 1
    /\ UNCHANGED <<expiresAt, sessionFlag, pc, deadline, response, admitted, keys, granted>>

-----------------------------------------------------------------------------
Next ==
    \/ \E c \in Centrals :
          \/ PresentWrongKey(c) \/ PresentKey(c) \/ Grant(c) \/ SetFlag(c)
          \/ Request(c)
    \/ Tick

Spec == Init /\ [][Next]_vars

-----------------------------------------------------------------------------
(* Properties                                                               *)

Instants == 0..(MaxTime + Timeout)

\* The types of the variables.
TypeOK ==
    /\ now \in 1..MaxTime
    /\ expiresAt \in Instants
    /\ sessionFlag \in BOOLEAN
    /\ pc \in [Centrals -> {"idle", "matched", "granted"}]
    /\ deadline \in [Centrals -> Instants]
    /\ response \in [Centrals -> {"none", "Failed", "Accepted", "Served", "NotAuthorized"}]
    /\ admitted \in 0..MaxTime
    /\ keys \in 0..MaxKeys
    /\ granted \in [Centrals -> 0..MaxTime]

\* The service is authorized only within the timeout after a right key was
\* presented, however the handlers of several centrals overtake each other.
GrantIsRecent ==
    IsAuthorized => \E c \in Centrals : granted[c] # 0 /\ now < granted[c] + Timeout

\* No handler ran before a right key was presented.
AdmittedAfterGrant == admitted # 0 => \E c \in Centrals : granted[c] # 0

\* A central that has presented a right key is served for as long as a grant
\* lasts: nothing takes that away, not the handler of another central that
\* stores an earlier deadline over its own, and no wrong key of its own or of
\* another.  Nothing is said of a central whose timeout has passed.
AcceptedIsServed ==
    [][\A c \in Centrals :
         response'[c] = "NotAuthorized" /\ response[c] # response'[c]
            => granted[c] = 0 \/ now >= granted[c] + Timeout]_vars

\* "Service validates and grants 5-minute authorization" (README): a handler
\* runs only while the service is authorized.
AdmittedWhileAuthorized == [][admitted' # admitted => IsAuthorized]_vars
=============================================================================
