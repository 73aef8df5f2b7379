----------------------------- MODULE ScanService -----------------------------
(***************************************************************************)
(* The WiFi scanning service (core/scanner.rs): a state machine behind a   *)
(* read-write lock, and one background task per accepted start_scan call.  *)
(*                                                                         *)
(* Every access of the code takes the lock for one method of the state     *)
(* machine and releases it again, so each such access is one atomic step.  *)
(* Between the accesses the task waits for the backend and the callers do  *)
(* what they like.                                                         *)
(*                                                                         *)
(* The networks a scan returns are represented by the number of the scan:  *)
(* scanResults = 2 stands for "the networks the backend returned to the    *)
(* second scan", and 0 for the None of the code.  Errors likewise.         *)
(***************************************************************************)
EXTENDS Naturals

CONSTANTS
    Callers,        \* the handlers of the transports that call the service
    MaxScans,       \* bound: how many scans are accepted
    MaxResets       \* bound: how many times reset() is called

ASSUME ScanAssumption == MaxScans \in Nat /\ MaxResets \in Nat

VARIABLES
    \* ScanStateMachine
    scanState,      \* ScanState
    scanResults,    \* Option<Vec<WifiNetwork>>: the scan they come from, or 0
    scanError,      \* Option<String>: the scan that failed with it, or 0
    \* the background tasks
    scans,          \* how many have been spawned: the accepted start_scan calls
    task,           \* where each of them is
    \* the callers
    reply,          \* what the last call of each caller returned
    got,            \* the networks it holds, by their scan; 0 if none
    ticket,         \* the last scan of which it was told Ok; 0 if none
    \* history
    resets,         \* how many resets there were
    strays          \* the scans that were running when one of them came

machine == <<scanState, scanResults, scanError>>
callerVars == <<reply, got, ticket>>
history == <<resets, strays>>
vars == <<machine, scans, task, callerVars, history>>

Scans == 1..MaxScans
ScanStates == {"Idle", "Scanning", "Finished", "Error"}
Replies == {"none", "Ok", "OperationInProgress", "Results", "NoScanResults"}
TaskStates == {"unborn", "scanning", "ok", "err", "done"}

\* The tasks that have been spawned and have not published yet.
InFlight == {t \in Scans : task[t] \in {"scanning", "ok", "err"}}

Init ==
    /\ scanState = "Idle" /\ scanResults = 0 /\ scanError = 0
    /\ scans = 0
    /\ task = [t \in Scans |-> "unborn"]
    /\ reply = [c \in Callers |-> "none"]
    /\ got = [c \in Callers |-> 0]
    /\ ticket = [c \in Callers |-> 0]
    /\ resets = 0 /\ strays = {}

-----------------------------------------------------------------------------
(* ScanStateMachine: what each method does to the three fields.             *)
(*                                                                          *)
(* A definition whose name ends in a capitalised word after an underscore   *)
(* is a slip the properties have to notice, not part of the specification:  *)
(* see "Sensitivity" in the README.                                         *)

CanStart_Always == TRUE
CanStart == scanState \in {"Idle", "Finished", "Error"}

MachineStart_KeepResults ==
    scanState' = "Scanning" /\ scanError' = 0 /\ UNCHANGED scanResults
MachineStart == scanState' = "Scanning" /\ scanResults' = 0 /\ scanError' = 0

MachineComplete_KeepState(t) ==
    scanResults' = t /\ scanError' = 0 /\ UNCHANGED scanState
MachineComplete(t) ==
    scanState' = "Finished" /\ scanResults' = t /\ scanError' = 0

MachineFail_Ignore(t) == UNCHANGED machine
MachineFail_OtherEnum(t) ==
    scanState' = "Failed" /\ scanResults' = 0 /\ scanError' = t
MachineFail(t) == scanState' = "Error" /\ scanResults' = 0 /\ scanError' = t

MachineReset == scanState' = "Idle" /\ scanResults' = 0 /\ scanError' = 0

-----------------------------------------------------------------------------
(* ScanService::start_scan                                                  *)

\* The state machine leaves any state but Scanning, dropping what it showed;
\* the task is spawned before the caller gets its Ok.
StartScan(c) ==
    /\ scans < MaxScans
    /\ CanStart
    /\ MachineStart
    /\ scans' = scans + 1
    /\ task' = [task EXCEPT ![scans + 1] = "scanning"]
    /\ reply' = [reply EXCEPT ![c] = "Ok"]
    /\ ticket' = [ticket EXCEPT ![c] = scans + 1]
    /\ UNCHANGED <<got, history>>

\* The `?` on the state machine's answer: nothing is spawned.
RefuseScan(c) ==
    /\ ~CanStart
    /\ reply' = [reply EXCEPT ![c] = "OperationInProgress"]
    /\ UNCHANGED <<machine, scans, task, got, ticket, history>>

-----------------------------------------------------------------------------
(* The background task                                                      *)

\* backend.scan() returns; the task has not got the lock yet.
BackendScan(t) ==
    /\ task[t] = "scanning"
    /\ \E r \in {"ok", "err"} : task' = [task EXCEPT ![t] = r]
    /\ UNCHANGED <<machine, scans, callerVars, history>>

\* The task publishes its networks, whatever the state is by now.
CompleteScan(t) ==
    /\ task[t] = "ok"
    /\ MachineComplete(t)
    /\ task' = [task EXCEPT ![t] = "done"]
    /\ UNCHANGED <<scans, callerVars, history>>

\* The task publishes its error, whatever the state is by now.
FailScan(t) ==
    /\ task[t] = "err"
    /\ MachineFail(t)
    /\ task' = [task EXCEPT ![t] = "done"]
    /\ UNCHANGED <<scans, callerVars, history>>

-----------------------------------------------------------------------------
(* ScanService::results, and reset                                          *)

\* results() clones the networks on display, or reports that there are none.
ReadResults(c) ==
    /\ got' = [got EXCEPT ![c] = scanResults]
    /\ reply' = [reply EXCEPT ![c] =
                    IF scanResults = 0 THEN "NoScanResults" ELSE "Results"]
    /\ UNCHANGED <<machine, scans, task, ticket, history>>

\* reset() does not ask whether a scan is running, and does not stop it.
Reset ==
    /\ resets < MaxResets
    /\ MachineReset
    /\ resets' = resets + 1
    /\ strays' = strays \cup InFlight
    /\ UNCHANGED <<scans, task, callerVars>>

-----------------------------------------------------------------------------
Publish(t) == CompleteScan(t) \/ FailScan(t)

Next ==
    \/ \E c \in Callers : StartScan(c) \/ RefuseScan(c) \/ ReadResults(c)
    \/ \E t \in Scans : BackendScan(t) \/ CompleteScan(t) \/ FailScan(t)
    \/ Reset

Spec == Init /\ [][Next]_vars

\* The runtime polls a task that can make progress, and the backend answers.
Fairness == \A t \in Scans : WF_vars(BackendScan(t)) /\ WF_vars(Publish(t))

FairSpec == Spec /\ Fairness

-----------------------------------------------------------------------------
(* Properties                                                               *)

\* The types of the variables.
TypeOK ==
    /\ scanState \in ScanStates
    /\ scanResults \in 0..MaxScans /\ scanError \in 0..MaxScans
    /\ scans \in 0..MaxScans
    /\ task \in [Scans -> TaskStates]
    /\ reply \in [Callers -> Replies]
    /\ got \in [Callers -> 0..MaxScans]
    /\ ticket \in [Callers -> 0..MaxScans]
    /\ resets \in 0..MaxResets /\ strays \in SUBSET Scans

\* Scanning is never a dead end: the state machine shows it only while the
\* task of the last accepted scan is on its way to publish.  This holds for
\* every order of resets and late tasks, and is what lets callers poll.
ScanningHasTask == scanState = "Scanning" => scans \in InFlight

\* Unless a reset met a running scan, at most one scan runs, the last accepted
\* one, and only while the state machine shows Scanning ("Returns an error if a
\* scan is already in progress").
SingleFlight ==
    strays = {} => \A t \in InFlight : t = scans /\ scanState = "Scanning"

\* The networks or the error on display are those of the last accepted scan,
\* never of an earlier one that came in late (unless a reset let it).
OutcomeIsLatest ==
    /\ scanState = "Finished" <=> scanResults # 0
    /\ scanState = "Error" <=> scanError # 0
    /\ strays = {} => {scanResults, scanError} \subseteq {0, scans}

\* A caller that was told Ok never afterwards reads networks older than the
\* scan it started, whoever else starts scans in between.
FreshForCaller ==
    strays = {} => \A c \in Callers : reply[c] = "Results" => got[c] >= ticket[c]

\* What is on display goes away only when a caller starts a scan or resets:
\* no background task ever replaces a published outcome.
OutcomeIsStable ==
    [][(scanState \in {"Finished", "Error"} /\ scans' = scans /\ resets' = resets
            /\ strays = {})
        => UNCHANGED machine]_vars

\* A scan ends: Scanning does not last.
ScanEnds == (scanState = "Scanning") ~> (scanState # "Scanning")

-----------------------------------------------------------------------------
(* The service is an asynchronous operation.                                *)

Promise == INSTANCE AsyncOperation WITH
    Outcomes <- {"Finished", "Error"},
    Restartable <- {"Finished", "Error"},
    calls <- scans,
    open <- InFlight,
    outcome <- CASE scanState = "Idle" -> "none"
                 [] scanState = "Scanning" -> "pending"
                 [] OTHER -> scanState,
    answers <- IF scanResults # 0 THEN scanResults ELSE scanError

\* For every order of calls, resets and late tasks: a scan is accepted only
\* while none is shown as running, each accepted scan is published at most
\* once, under its own number, and a reset leaves nothing on display.
ImplementsPromise == Promise!Spec
=============================================================================
