------------------------ MODULE ConnectionServiceProofs ------------------------
(***************************************************************************)
(* Proofs about the connection service, for any callers and networks and   *)
(* any number of attempts and disconnects.                                 *)
(***************************************************************************)
EXTENDS ConnectionService, TLAPS

\* Attempts are numbered in the order they were accepted, and a task has left
\* "unborn" exactly when its attempt was accepted.
TasksAreNumbered == \A t \in Attempts : task[t] = "unborn" <=> t > attempts

\* No caller holds a ticket for an attempt that was not accepted.
TicketsAreIssued == \A c \in Callers : ticket[c] <= attempts

\* Every attempt that runs beside a disconnect is known to do so.
OverlapsAreKnown == Disconnecting => InFlight \subseteq strays

\* The network on display is the one the running attempt is to join.
TargetOnDisplay ==
    strays = {} /\ connState = "Connecting" => connSsid = target[attempts]

\* The inductive invariant.
IInv ==
    /\ TypeOK
    /\ TasksAreNumbered
    /\ TicketsAreIssued
    /\ OverlapsAreKnown
    /\ TargetOnDisplay
    /\ ConnectingHasTask
    /\ SingleAttempt
    /\ OutcomeIsLatest
    /\ ConnectedToTarget
    /\ FreshForCaller

-----------------------------------------------------------------------------
\* Type correctness: every step leaves every variable in its type.
THEOREM TypeCorrect == Spec => []TypeOK
<1> USE ConnectionAssumption DEF ConnectionAssumption
<1>1. Init => TypeOK
  BY DEF Init, TypeOK, Attempts, ConnectionStates, TaskStates, Polls,
         CallerStates, Replies
<1>2. TypeOK /\ [Next]_vars => TypeOK'
  <2> SUFFICES ASSUME TypeOK, [Next]_vars
               PROVE  TypeOK'
    OBVIOUS
  <2> USE DEF TypeOK
  <2>1. ASSUME NEW c \in Callers, NEW s \in Ssids, Connect(c, s)
        PROVE  TypeOK'
    BY <2>1 DEF Connect, MachineConnect,
         Attempts, ConnectionStates, TaskStates, Replies
  <2>2. ASSUME NEW c \in Callers, RefuseConnect(c)
        PROVE  TypeOK'
    BY <2>2 DEF RefuseConnect, machine, tasks, history,
         Replies
  <2>3. ASSUME NEW c \in Callers, ReadStatus(c)
        PROVE  TypeOK'
    BY <2>3 DEF ReadStatus, machine, tasks, history,
         Replies
  <2>4. ASSUME NEW c \in Callers, CallDisconnect(c)
        PROVE  TypeOK'
    <3>1. strays' \in SUBSET Attempts
      BY <2>4 DEF CallDisconnect, InFlight
    <3> QED
      BY <2>4, <3>1 DEF CallDisconnect, machine, tasks, CallerStates
  <2>5. ASSUME NEW c \in Callers, BackendDisconnect(c)
        PROVE  TypeOK'
    BY <2>5 DEF BackendDisconnect, machine, tasks, history,
         CallerStates
  <2>6. ASSUME NEW c \in Callers, BackendDisconnectFails(c)
        PROVE  TypeOK'
    BY <2>6 DEF BackendDisconnectFails, machine, tasks, history,
         CallerStates, Replies
  <2>7. ASSUME NEW c \in Callers, Clear(c)
        PROVE  TypeOK'
    BY <2>7 DEF Clear, MachineDisconnect, tasks, history,
         ConnectionStates, CallerStates, Replies
  <2>8. ASSUME NEW t \in Attempts, BackendConnect(t)
        PROVE  TypeOK'
    BY <2>8 DEF BackendConnect, machine, callerVars, history,
         TaskStates
  <2>9. ASSUME NEW t \in Attempts, BackendConnectFails(t)
        PROVE  TypeOK'
    BY <2>9 DEF BackendConnectFails, machine, callerVars, history,
         TaskStates
  <2>10. ASSUME NEW t \in Attempts, BackendStatus(t)
         PROVE  TypeOK'
    BY <2>10 DEF BackendStatus, machine, callerVars, history,
         TaskStates, Polls
  <2>11. ASSUME NEW t \in Attempts, CompleteConnect(t)
         PROVE  TypeOK'
    BY <2>11 DEF CompleteConnect, MachineComplete, callerVars, history,
         Attempts, TaskStates, ConnectionStates
  <2>12. ASSUME NEW t \in Attempts, FailConnect(t)
         PROVE  TypeOK'
    BY <2>12 DEF FailConnect, MachineFail, callerVars, history,
         Attempts, TaskStates, ConnectionStates
  <2>13. CASE UNCHANGED vars
    BY <2>13 DEF vars, machine, tasks, callerVars, history
  <2> QED
    BY <2>1, <2>2, <2>3, <2>4, <2>5, <2>6, <2>7, <2>8, <2>9, <2>10, <2>11,
       <2>12, <2>13 DEF Next
<1> QED
  BY <1>1, <1>2, PTL DEF Spec

-----------------------------------------------------------------------------
\* The invariant behind every safety property of the service.
THEOREM Inductive == Spec => []IInv
<1> USE ConnectionAssumption DEF ConnectionAssumption
<1>1. Init => IInv
  BY DEF Init, IInv, TypeOK, TasksAreNumbered, TicketsAreIssued, OverlapsAreKnown,
         TargetOnDisplay, ConnectingHasTask, SingleAttempt,
         OutcomeIsLatest, ConnectedToTarget, FreshForCaller, InFlight, Attempts,
         Disconnecting, ConnectionStates, TaskStates, Polls, CallerStates, Replies
<1>2. IInv /\ TypeOK' /\ [Next]_vars => IInv'
  <2> SUFFICES ASSUME IInv, TypeOK', [Next]_vars
               PROVE  IInv'
    OBVIOUS
  <2> USE DEF IInv, TypeOK, Attempts, TasksAreNumbered, TicketsAreIssued,
              OverlapsAreKnown, TargetOnDisplay,
              ConnectingHasTask, SingleAttempt, OutcomeIsLatest,
              ConnectedToTarget, FreshForCaller, InFlight, Disconnecting
  <2>1. ASSUME NEW c \in Callers, NEW s \in Ssids, Connect(c, s)
        PROVE  IInv'
    <3> USE <2>1 DEF Connect, CanConnect, MachineConnect, Disconnecting
    <3>1. TasksAreNumbered' /\ TicketsAreIssued'
      OBVIOUS
    <3>2. OverlapsAreKnown'
      OBVIOUS
    <3>3. ConnectingHasTask' /\ SingleAttempt'
      OBVIOUS
    <3>4. OutcomeIsLatest' /\ FreshForCaller'
      OBVIOUS
    <3>5. TargetOnDisplay' /\ ConnectedToTarget'
      OBVIOUS
    <3> QED
      BY <3>1, <3>2, <3>3, <3>4, <3>5
  <2>2. ASSUME NEW c \in Callers, RefuseConnect(c)
        PROVE  IInv'
    BY <2>2 DEF RefuseConnect, machine, tasks, history
  <2>3. ASSUME NEW c \in Callers, ReadStatus(c)
        PROVE  IInv'
    BY <2>3 DEF ReadStatus, machine, tasks, history
  <2>4. ASSUME NEW c \in Callers, CallDisconnect(c)
        PROVE  IInv'
    <3> USE <2>4 DEF CallDisconnect, machine, tasks
    <3>1. TasksAreNumbered' /\ TicketsAreIssued'
      OBVIOUS
    <3>2. OverlapsAreKnown'
      OBVIOUS
    <3>3. ConnectingHasTask' /\ SingleAttempt'
      OBVIOUS
    <3>4. OutcomeIsLatest' /\ FreshForCaller'
      OBVIOUS
    <3>5. TargetOnDisplay' /\ ConnectedToTarget'
      OBVIOUS
    <3> QED
      BY <3>1, <3>2, <3>3, <3>4, <3>5
  <2>5. ASSUME NEW c \in Callers, BackendDisconnect(c)
        PROVE  IInv'
    BY <2>5 DEF BackendDisconnect, machine, tasks, history
  <2>6. ASSUME NEW c \in Callers, BackendDisconnectFails(c)
        PROVE  IInv'
    BY <2>6 DEF BackendDisconnectFails, machine, tasks, history
  <2>7. ASSUME NEW c \in Callers, Clear(c)
        PROVE  IInv'
    <3> USE <2>7 DEF Clear, MachineDisconnect, tasks, history
    <3>1. TasksAreNumbered' /\ TicketsAreIssued'
      OBVIOUS
    <3>2. OverlapsAreKnown'
      OBVIOUS
    <3>3. ConnectingHasTask' /\ SingleAttempt'
      OBVIOUS
    <3>4. OutcomeIsLatest' /\ FreshForCaller'
      OBVIOUS
    <3>5. TargetOnDisplay' /\ ConnectedToTarget'
      OBVIOUS
    <3> QED
      BY <3>1, <3>2, <3>3, <3>4, <3>5
  <2>8. ASSUME NEW t \in Attempts, BackendConnect(t)
        PROVE  IInv'
    BY <2>8 DEF BackendConnect, machine, callerVars, history
  <2>9. ASSUME NEW t \in Attempts, BackendConnectFails(t)
        PROVE  IInv'
    BY <2>9 DEF BackendConnectFails, machine, callerVars, history
  <2>10. ASSUME NEW t \in Attempts, BackendStatus(t)
         PROVE  IInv'
    BY <2>10 DEF BackendStatus, machine, callerVars, history
  <2>11. ASSUME NEW t \in Attempts, CompleteConnect(t)
         PROVE  IInv'
    <3> USE <2>11 DEF CompleteConnect, MachineComplete, callerVars, history
    <3>1. TasksAreNumbered' /\ TicketsAreIssued'
      OBVIOUS
    <3>2. OverlapsAreKnown'
      OBVIOUS
    <3>3. ConnectingHasTask' /\ SingleAttempt'
      OBVIOUS
    <3>4. OutcomeIsLatest' /\ FreshForCaller'
      OBVIOUS
    <3>5. TargetOnDisplay' /\ ConnectedToTarget'
      OBVIOUS
    <3> QED
      BY <3>1, <3>2, <3>3, <3>4, <3>5
  <2>12. ASSUME NEW t \in Attempts, FailConnect(t)
         PROVE  IInv'
    <3> USE <2>12 DEF FailConnect, MachineFail, callerVars, history
    <3>1. TasksAreNumbered' /\ TicketsAreIssued'
      OBVIOUS
    <3>2. OverlapsAreKnown'
      OBVIOUS
    <3>3. ConnectingHasTask' /\ SingleAttempt'
      OBVIOUS
    <3>4. OutcomeIsLatest' /\ FreshForCaller'
      OBVIOUS
    <3>5. TargetOnDisplay' /\ ConnectedToTarget'
      OBVIOUS
    <3> QED
      BY <3>1, <3>2, <3>3, <3>4, <3>5
  <2>13. CASE UNCHANGED vars
    BY <2>13 DEF vars, machine, tasks, callerVars, history
  <2> QED
    BY <2>1, <2>2, <2>3, <2>4, <2>5, <2>6, <2>7, <2>8, <2>9, <2>10, <2>11,
       <2>12, <2>13 DEF Next
<1> QED
  BY <1>1, <1>2, TypeCorrect, PTL DEF Spec

-----------------------------------------------------------------------------
\* Unless a disconnect overlapped, one attempt runs at a time, the latest.
THEOREM OneAttemptAtATime == Spec => []SingleAttempt
<1>1. IInv => SingleAttempt
  BY DEF IInv
<1> QED
  BY <1>1, Inductive, PTL

\* Connecting is shown only while a task will publish, in every interleaving of
\* disconnects and late tasks: nobody polls a dead attempt.
THEOREM NoDeadEnd == Spec => []ConnectingHasTask
<1>1. IInv => ConnectingHasTask
  BY DEF IInv
<1> QED
  BY <1>1, Inductive, PTL

\* What is on display agrees with the state and comes from the latest attempt.
THEOREM LatestOutcome == Spec => []OutcomeIsLatest
<1>1. IInv => OutcomeIsLatest
  BY DEF IInv
<1> QED
  BY <1>1, Inductive, PTL

\* Connected names the network that was asked for.
THEOREM RightNetwork == Spec => []ConnectedToTarget
<1>1. IInv => ConnectedToTarget
  BY DEF IInv
<1> QED
  BY <1>1, Inductive, PTL

\* No caller is shown the success of an attempt older than its own.
THEOREM FreshStatus == Spec => []FreshForCaller
<1>1. IInv => FreshForCaller
  BY DEF IInv
<1> QED
  BY <1>1, Inductive, PTL

\* Only an accepted connect or a disconnect moves a settled service.
THEOREM StableOutcome == Spec => OutcomeIsStable
<1>1. IInv /\ [Next]_vars =>
        [(connState # "Connecting" /\ strays = {} /\ attempts' = attempts
            /\ UNCHANGED caller) => UNCHANGED machine]_vars
  <2> SUFFICES ASSUME IInv, [Next]_vars, connState # "Connecting", strays = {},
                      attempts' = attempts, UNCHANGED caller
               PROVE  UNCHANGED machine
    OBVIOUS
  <2> USE ConnectionAssumption DEF ConnectionAssumption, IInv, TypeOK
  <2>1. ~ \E c \in Callers, s \in Ssids : Connect(c, s)
    BY DEF Connect
  <2>2. ~ \E t \in Attempts : CompleteConnect(t) \/ FailConnect(t)
    BY DEF CompleteConnect, FailConnect, SingleAttempt, InFlight
  <2>3. ~ \E c \in Callers : Clear(c)
    BY DEF Clear, CallerStates
  <2>4. ASSUME NEW c \in Callers,
               \/ RefuseConnect(c) \/ ReadStatus(c) \/ CallDisconnect(c)
               \/ BackendDisconnect(c) \/ BackendDisconnectFails(c)
        PROVE  UNCHANGED machine
    BY <2>4 DEF RefuseConnect, ReadStatus, CallDisconnect, BackendDisconnect,
                BackendDisconnectFails
  <2>5. ASSUME NEW t \in Attempts,
               BackendConnect(t) \/ BackendConnectFails(t) \/ BackendStatus(t)
        PROVE  UNCHANGED machine
    BY <2>5 DEF BackendConnect, BackendConnectFails, BackendStatus
  <2>6. CASE UNCHANGED vars
    BY <2>6 DEF vars
  <2> QED
    BY <2>1, <2>2, <2>3, <2>4, <2>5, <2>6 DEF Next
<1> QED
  BY <1>1, Inductive, PTL DEF Spec, OutcomeIsStable

-----------------------------------------------------------------------------
\* The service does for any callers, networks and number of attempts and
\* disconnects what AsyncOperation promises: every step of it is a step of the
\* promise, or none.
THEOREM KeepsPromise == Spec => ImplementsPromise
<1> USE ConnectionAssumption DEF ConnectionAssumption
<1>1. Init => Promise!Init
  BY DEF Init, Promise!Init, InFlight
<1>2. IInv /\ TypeOK' /\ [Next]_vars => [Promise!Next]_(Promise!vars)
  <2> SUFFICES ASSUME IInv, TypeOK', [Next]_vars
               PROVE  Promise!Next \/ UNCHANGED Promise!vars
    OBVIOUS
  <2> USE DEF IInv, TypeOK, ConnectionStates, OutcomeIsLatest, Promise!vars
  <2>1. ASSUME NEW c \in Callers, NEW s \in Ssids, Connect(c, s)
        PROVE  Promise!Start
    <3>1. InFlight' = InFlight \cup {attempts + 1}
      BY <2>1 DEF Connect, InFlight, Attempts
    <3> QED
      BY <2>1, <3>1 DEF Connect, CanConnect, MachineConnect, Promise!Start
  <2>2. ASSUME NEW t \in Attempts, CompleteConnect(t)
        PROVE  t \in InFlight /\ Promise!Settle(t)
    <3>1. t \in InFlight /\ InFlight' = InFlight \ {t}
      BY <2>2 DEF CompleteConnect, InFlight
    <3>2. t # 0
      BY DEF Attempts
    <3> QED
      BY <2>2, <3>1, <3>2 DEF CompleteConnect, MachineComplete, Promise!Settle
  <2>3. ASSUME NEW t \in Attempts, FailConnect(t)
        PROVE  t \in InFlight /\ Promise!Settle(t)
    <3>1. t \in InFlight /\ InFlight' = InFlight \ {t}
      BY <2>3 DEF FailConnect, InFlight
    <3> QED
      BY <2>3, <3>1 DEF FailConnect, MachineFail, Promise!Settle
  <2>4. ASSUME NEW c \in Callers, Clear(c)
        PROVE  Promise!Withdraw
    <3>1. InFlight' = InFlight
      BY <2>4 DEF Clear, tasks, InFlight
    <3> QED
      BY <2>4, <3>1 DEF Clear, MachineDisconnect, tasks, Promise!Withdraw
  <2>5. ASSUME NEW c \in Callers,
               \/ RefuseConnect(c) \/ ReadStatus(c) \/ CallDisconnect(c)
               \/ BackendDisconnect(c) \/ BackendDisconnectFails(c)
        PROVE  UNCHANGED Promise!vars
    BY <2>5 DEF RefuseConnect, ReadStatus, CallDisconnect, BackendDisconnect,
                BackendDisconnectFails, machine, tasks, InFlight
  <2>6. ASSUME NEW t \in Attempts,
               BackendConnect(t) \/ BackendConnectFails(t) \/ BackendStatus(t)
        PROVE  UNCHANGED Promise!vars
    <3>1. InFlight' = InFlight
      BY <2>6 DEF BackendConnect, BackendConnectFails, BackendStatus, InFlight
    <3> QED
      BY <2>6, <3>1 DEF BackendConnect, BackendConnectFails, BackendStatus, machine
  <2>7. CASE UNCHANGED vars
    BY <2>7 DEF vars, machine, tasks, InFlight
  <2> QED
    BY <2>1, <2>2, <2>3, <2>4, <2>5, <2>6, <2>7 DEF Next, Promise!Next
<1> QED
  BY <1>1, <1>2, Inductive, TypeCorrect, PTL DEF Spec, ImplementsPromise, Promise!Spec
=============================================================================
