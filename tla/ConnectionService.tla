-------------------------- MODULE ConnectionService --------------------------
(***************************************************************************)
(* The WiFi connection service (core/connector.rs): a state machine behind *)
(* a read-write lock, one background task per accepted connect call, and a *)
(* disconnect that first waits for the backend and then, in a second       *)
(* critical section, clears the state machine, whatever happened meanwhile.*)
(*                                                                         *)
(* Attempts are numbered as they are accepted.  An address or an error is  *)
(* represented by the number of the attempt that published it, 0 being the *)
(* None of the code.                                                       *)
(*                                                                         *)
(* Of the backend only its replies matter here: any of those its interface *)
(* allows.  What they mean to the network is in WpactrlBackend.            *)
(***************************************************************************)
EXTENDS Naturals

CONSTANTS
    Callers,            \* the handlers of the transports that call the service
    Ssids,              \* the networks they ask for
    NoSsid,             \* None
    MaxAttempts,        \* bound: how many attempts are accepted
    MaxDisconnects      \* bound: how many times disconnect() is called

ASSUME ConnectionAssumption ==
    /\ MaxAttempts \in Nat /\ MaxDisconnects \in Nat
    /\ NoSsid \notin Ssids

VARIABLES
    \* ConnectionStateMachine
    connState,          \* ConnectionState
    connSsid,           \* Option<String>
    ipAddress,          \* Option<String>: the attempt that got it, or 0
    connError,          \* Option<String>: the attempt that failed with it, or 0
    \* the background tasks
    attempts,           \* how many have been spawned: the accepted connects
    task,               \* where each of them is
    target,             \* the network it is to join
    poll,               \* what backend.status() told it
    \* the callers
    caller,             \* where each of them is in disconnect()
    reply,              \* what its last call returned; of status(), the state
    seen,               \* the attempt whose address status() showed it, or 0
    ticket,             \* the last attempt of which it was told Ok, or 0
    \* history
    disconnects,        \* how many disconnect calls there were
    strays              \* the attempts that ran while one was in progress

machine == <<connState, connSsid, ipAddress, connError>>
tasks == <<attempts, task, target, poll>>
callerVars == <<caller, reply, seen, ticket>>
history == <<disconnects, strays>>
vars == <<machine, tasks, callerVars, history>>

Attempts == 1..MaxAttempts
ConnectionStates == {"Idle", "Connecting", "Connected", "Failed"}
TaskStates == {"unborn", "connecting", "polling", "up", "err", "done"}
Polls == {"none", "down", "no address", "address", "err"}
CallerStates == {"ready", "disconnecting", "clearing"}
Replies == ConnectionStates \cup {"none", "Ok", "OperationInProgress", "BackendError"}

\* The tasks that have been spawned and have not published yet.
InFlight ==
    {t \in Attempts : task[t] \in {"connecting", "polling", "up", "err"}}

\* A disconnect() has been called and has not returned.
Disconnecting == \E c \in Callers : caller[c] # "ready"

Init ==
    /\ connState = "Idle" /\ connSsid = NoSsid /\ ipAddress = 0 /\ connError = 0
    /\ attempts = 0
    /\ task = [t \in Attempts |-> "unborn"]
    /\ target = [t \in Attempts |-> NoSsid]
    /\ poll = [t \in Attempts |-> "none"]
    /\ caller = [c \in Callers |-> "ready"]
    /\ reply = [c \in Callers |-> "none"]
    /\ seen = [c \in Callers |-> 0] /\ ticket = [c \in Callers |-> 0]
    /\ disconnects = 0 /\ strays = {}

-----------------------------------------------------------------------------
(* ConnectionStateMachine: what each method does to the fields.             *)
(* As in ScanService, Name_Slip is a mistake the properties must notice.    *)

CanConnect_NotConnecting == connState \in {"Idle", "Connected", "Failed"}
CanConnect_Always == TRUE
CanConnect == connState \in {"Idle", "Failed"}

MachineConnect_KeepError(s) ==
    /\ connState' = "Connecting" /\ connSsid' = s /\ ipAddress' = 0
    /\ UNCHANGED connError
MachineConnect_KeepSsid(s) ==
    /\ connState' = "Connecting" /\ ipAddress' = 0 /\ connError' = 0
    /\ connSsid' = IF connSsid = NoSsid THEN s ELSE connSsid
MachineConnect(s) ==
    connState' = "Connecting" /\ connSsid' = s /\ ipAddress' = 0 /\ connError' = 0

\* The ssid stays what the last connect or disconnect made it.
MachineComplete(t) ==
    /\ connState' = "Connected" /\ ipAddress' = t /\ connError' = 0
    /\ UNCHANGED connSsid

MachineFail_Ignore(t) == UNCHANGED machine
MachineFail_OtherEnum(t) ==
    /\ connState' = "Error" /\ connError' = t /\ ipAddress' = 0
    /\ UNCHANGED connSsid
MachineFail(t) ==
    /\ connState' = "Failed" /\ connError' = t /\ ipAddress' = 0
    /\ UNCHANGED connSsid

MachineDisconnect ==
    connState' = "Idle" /\ connSsid' = NoSsid /\ ipAddress' = 0 /\ connError' = 0

-----------------------------------------------------------------------------
(* ConnectionService::connect                                               *)

Connect(c, s) ==
    /\ attempts < MaxAttempts /\ caller[c] = "ready"
    /\ CanConnect
    /\ MachineConnect(s)
    /\ attempts' = attempts + 1
    /\ task' = [task EXCEPT ![attempts + 1] = "connecting"]
    /\ target' = [target EXCEPT ![attempts + 1] = s]
    /\ reply' = [reply EXCEPT ![c] = "Ok"]
    /\ ticket' = [ticket EXCEPT ![c] = attempts + 1]
    /\ strays' = IF Disconnecting THEN strays \cup {attempts + 1} ELSE strays
    /\ UNCHANGED <<poll, caller, seen, disconnects>>

\* The `?` on the state machine's answer: nothing is spawned.
RefuseConnect(c) ==
    /\ caller[c] = "ready"
    /\ ~CanConnect
    /\ reply' = [reply EXCEPT ![c] = "OperationInProgress"]
    /\ UNCHANGED <<machine, tasks, caller, seen, ticket, history>>

-----------------------------------------------------------------------------
(* The background task                                                      *)

\* backend.connect() succeeds; the task sleeps and asks for the status.
BackendConnect(t) ==
    /\ task[t] = "connecting"
    /\ task' = [task EXCEPT ![t] = "polling"]
    /\ UNCHANGED <<machine, attempts, target, poll, callerVars, history>>

\* backend.connect() fails.
BackendConnectFails(t) ==
    /\ task[t] = "connecting"
    /\ task' = [task EXCEPT ![t] = "err"]
    /\ UNCHANGED <<machine, attempts, target, poll, callerVars, history>>

\* backend.status() returns.  Ok leads to complete_connect whatever the state
\* in it and whether or not it holds an address ("0.0.0.0" stands in).
BackendStatus(t) ==
    /\ task[t] = "polling"
    /\ \E r \in {"down", "no address", "address", "err"} :
          /\ poll' = [poll EXCEPT ![t] = r]
          /\ task' = [task EXCEPT ![t] = IF r = "err" THEN "err" ELSE "up"]
    /\ UNCHANGED <<machine, attempts, target, callerVars, history>>

CompleteConnect(t) ==
    /\ task[t] = "up"
    /\ MachineComplete(t)
    /\ task' = [task EXCEPT ![t] = "done"]
    /\ UNCHANGED <<attempts, target, poll, callerVars, history>>

FailConnect(t) ==
    /\ task[t] = "err"
    /\ MachineFail(t)
    /\ task' = [task EXCEPT ![t] = "done"]
    /\ UNCHANGED <<attempts, target, poll, callerVars, history>>

-----------------------------------------------------------------------------
(* ConnectionService::disconnect                                            *)

\* Allowed in every state; no running attempt is stopped.
CallDisconnect(c) ==
    /\ disconnects < MaxDisconnects /\ caller[c] = "ready"
    /\ caller' = [caller EXCEPT ![c] = "disconnecting"]
    /\ disconnects' = disconnects + 1
    /\ strays' = strays \cup InFlight
    /\ UNCHANGED <<machine, tasks, reply, seen, ticket>>

BackendDisconnect(c) ==
    /\ caller[c] = "disconnecting"
    /\ caller' = [caller EXCEPT ![c] = "clearing"]
    /\ UNCHANGED <<machine, tasks, reply, seen, ticket, history>>

\* The `?` on the backend's answer: the state machine is left as it is.
BackendDisconnectFails(c) ==
    /\ caller[c] = "disconnecting"
    /\ caller' = [caller EXCEPT ![c] = "ready"]
    /\ reply' = [reply EXCEPT ![c] = "BackendError"]
    /\ UNCHANGED <<machine, tasks, seen, ticket, history>>

Clear(c) ==
    /\ caller[c] = "clearing"
    /\ MachineDisconnect
    /\ caller' = [caller EXCEPT ![c] = "ready"]
    /\ reply' = [reply EXCEPT ![c] = "Ok"]
    /\ UNCHANGED <<tasks, seen, ticket, history>>

-----------------------------------------------------------------------------
(* ConnectionService::state and status                                      *)

ReadStatus(c) ==
    /\ caller[c] = "ready"
    /\ reply' = [reply EXCEPT ![c] = connState]
    /\ seen' = [seen EXCEPT ![c] = ipAddress]
    /\ UNCHANGED <<machine, tasks, caller, ticket, history>>

-----------------------------------------------------------------------------
BackendReturns(t) ==
    BackendConnect(t) \/ BackendConnectFails(t) \/ BackendStatus(t)

Publish(t) == CompleteConnect(t) \/ FailConnect(t)

Next ==
    \/ \E c \in Callers, s \in Ssids : Connect(c, s)
    \/ \E c \in Callers :
          \/ RefuseConnect(c) \/ ReadStatus(c) \/ CallDisconnect(c)
          \/ BackendDisconnect(c) \/ BackendDisconnectFails(c) \/ Clear(c)
    \/ \E t \in Attempts :
          \/ BackendConnect(t) \/ BackendConnectFails(t) \/ BackendStatus(t)
          \/ CompleteConnect(t) \/ FailConnect(t)

Spec == Init /\ [][Next]_vars

\* The runtime polls a task that can make progress, and the backend answers.
Fairness ==
    /\ \A t \in Attempts : WF_vars(BackendReturns(t)) /\ WF_vars(Publish(t))
    /\ \A c \in Callers :
          /\ WF_vars(BackendDisconnect(c) \/ BackendDisconnectFails(c))
          /\ WF_vars(Clear(c))

FairSpec == Spec /\ Fairness

-----------------------------------------------------------------------------
(* Properties                                                               *)

\* The types of the variables.
TypeOK ==
    /\ connState \in ConnectionStates
    /\ connSsid \in Ssids \cup {NoSsid}
    /\ ipAddress \in 0..MaxAttempts /\ connError \in 0..MaxAttempts
    /\ attempts \in 0..MaxAttempts
    /\ task \in [Attempts -> TaskStates]
    /\ target \in [Attempts -> Ssids \cup {NoSsid}]
    /\ poll \in [Attempts -> Polls]
    /\ caller \in [Callers -> CallerStates]
    /\ reply \in [Callers -> Replies]
    /\ seen \in [Callers -> 0..MaxAttempts]
    /\ ticket \in [Callers -> 0..MaxAttempts]
    /\ disconnects \in 0..MaxDisconnects /\ strays \in SUBSET Attempts

\* Connecting is never a dead end: the state machine shows it only while the
\* task of the last accepted attempt is on its way to publish, in every order
\* of disconnects and late tasks.
ConnectingHasTask == connState = "Connecting" => attempts \in InFlight

\* Unless a disconnect and an attempt overlapped, at most one attempt runs, the
\* last accepted one, and only while the state machine shows Connecting.
SingleAttempt ==
    strays = {} => \A t \in InFlight : t = attempts /\ connState = "Connecting"

\* The address and the error on display agree with the state, belong to the
\* last accepted attempt (unless one overlapped with a disconnect), and Idle
\* shows no network.
OutcomeIsLatest ==
    /\ connState = "Connected" <=> ipAddress # 0
    /\ connState = "Failed" <=> connError # 0
    /\ connState = "Idle" => connSsid = NoSsid
    /\ strays = {} => {ipAddress, connError} \subseteq {0, attempts}

\* Unless a disconnect and an attempt overlapped, Connected names the network
\* the caller of the last accepted connect asked for.
ConnectedToTarget ==
    strays = {} /\ connState = "Connected" => connSsid = target[attempts]

\* A caller that was told Ok by connect never afterwards is shown the success
\* of an earlier attempt, whoever else connects in between.
FreshForCaller ==
    strays = {} => \A c \in Callers : reply[c] = "Connected" => seen[c] >= ticket[c]

\* Unless a disconnect and an attempt overlapped, only an accepted connect or a
\* disconnect takes the service out of Idle, Connected or Failed: no background
\* task does.
OutcomeIsStable ==
    [][(connState # "Connecting" /\ strays = {} /\ attempts' = attempts
            /\ UNCHANGED caller)
        => UNCHANGED machine]_vars

\* An attempt ends: Connecting does not last.
AttemptEnds == (connState = "Connecting") ~> (connState # "Connecting")

\* "2: Success (scan complete/connected)": the README on the state values.
ConnectedMeansAssociated ==
    connState = "Connected" => poll[ipAddress] \in {"no address", "address"}

-----------------------------------------------------------------------------
(* The service is an asynchronous operation that can be repeated after it   *)
(* failed, and that a disconnect withdraws.                                 *)

Promise == INSTANCE AsyncOperation WITH
    Outcomes <- {"Connected", "Failed"},
    Restartable <- {"Failed"},
    calls <- attempts,
    open <- InFlight,
    outcome <- CASE connState = "Idle" -> "none"
                 [] connState = "Connecting" -> "pending"
                 [] OTHER -> connState,
    answers <- IF ipAddress # 0 THEN ipAddress ELSE connError

\* For every order of connects, disconnects and late tasks: an attempt is
\* accepted only while none is pending or has succeeded, each attempt is
\* published at most once, under its own number, and a disconnect that goes
\* through leaves nothing on display.
ImplementsPromise == Promise!Spec
=============================================================================
