--------------------------- MODULE UnixSocketProofs ---------------------------
(***************************************************************************)
(* The safety of UnixSocket, for any set of clients and networks, any      *)
(* kinds of lines and any number of lines and of requests.                 *)
(***************************************************************************)
EXTENDS UnixSocket, FiniteSetTheorems, SequenceTheorems, TLAPS

USE UnixSocketAssumption DEF UnixSocketAssumption

-----------------------------------------------------------------------------
(* The invariant                                                            *)

\* The handler is at a request, and has not written its response.
Waiting == {"scan started", "connect started", "disconnecting", "responding"}

\* The requests of client c among its first n lines.
RequestsUpTo(c, n) == {i \in RequestsOf(c) : i <= n}

\* A handler has answered the requests among the lines it has read, the one it
\* is at excepted.
Counted(c) ==
    /\ read[c] <= Len(asked[c])
    /\ pc[c] \in {"none", "reading"} =>
          Cardinality(RequestsUpTo(c, read[c])) = Len(received[c])
    /\ pc[c] \in Waiting =>
          /\ read[c] \in RequestsOf(c)
          /\ Cardinality(RequestsUpTo(c, read[c])) = Len(received[c]) + 1

\* There is no handler before there is a connection, and only one that is at a
\* disconnect request is in disconnect().
Placed(c) ==
    /\ socket[c] = "none" => pc[c] = "none"
    /\ caller[c] # "ready" => pc[c] = "disconnecting"

\* A scan was published, an attempt was, and one whose backend reported a state.
ScanPublished == \E t \in 1..scans : scanTask[t] = "done"
AttemptPublished == \E t \in 1..attempts : task[t] = "done"
StatusPublished ==
    \E t \in 1..attempts :
        task[t] = "done" /\ poll[t] \in {"down", "no address", "address"}

\* What the services show agrees with what their tasks have published.
ScanFacts ==
    /\ \A t \in Scan!Scans : scanTask[t] = "unborn" <=> t > scans
    /\ scanState \in {"Finished", "Error"} \/ scanResults # 0 => ScanPublished
ConnFacts ==
    /\ \A t \in Conn!Attempts :
          /\ task[t] = "unborn" <=> t > attempts
          /\ task[t] = "up" => poll[t] \in {"down", "no address", "address"}
    /\ connState = "Connected" => StatusPublished
    /\ connState = "Failed" => AttemptPublished

\* A response that says a may be sent.
Fact(a) ==
    /\ a \in {"Finished", "Error", "networks"} => ScanPublished
    /\ a = "Connected" => StatusPublished
    /\ a = "Failed" => AttemptPublished

AnswersAreFacts == \A c \in Clients : Fact(answer[c])

\* The inductive invariants: of the counting, and of what is told.
CountInv ==
    /\ TypeOK /\ IsFiniteSet(AllSent)
    /\ \A c \in Clients : Counted(c) /\ Placed(c)
    /\ AnswersInOrder

FactInv == TypeOK /\ ScanFacts /\ ConnFacts /\ AnswersAreFacts /\ ToldAfterTheFact

-----------------------------------------------------------------------------
(* The services below                                                       *)

\* Every step is a step of each service, or leaves it alone.
LEMMA ScanSteps == [Next]_vars => [Scan!Next]_(Scan!vars)
<1> SUFFICES ASSUME [Next]_vars PROVE [Scan!Next]_(Scan!vars)
  OBVIOUS
<1> USE DEF Scan!vars, Scan!machine, Scan!callerVars, Scan!history, scanVars
<1>1. ASSUME NEW c \in Clients, HandleScan(c) \/ HandleGetScanResults(c)
      PROVE  [Scan!Next]_(Scan!vars)
  <2>1. Scan!StartScan(c) \/ Scan!RefuseScan(c) \/ Scan!ReadResults(c)
    BY <1>1 DEF HandleScan, HandleGetScanResults
  <2> QED
    BY <2>1 DEF Scan!Next
<1>2. ASSUME NEW t \in Scan!Scans, ScanTask(t) PROVE [Scan!Next]_(Scan!vars)
  <2>1. Scan!BackendScan(t) \/ Scan!CompleteScan(t) \/ Scan!FailScan(t)
    BY <1>2 DEF ScanTask
  <2> QED
    BY <2>1 DEF Scan!Next
<1>3. ASSUME NEW c \in Clients,
             \/ Accept(c) \/ (\E k \in Kinds : Send(c, k)) \/ Leave(c)
             \/ SkipBlank(c) \/ SkipGarbage(c) \/ ReadFails(c) \/ ReadEof(c)
             \/ ScanStarted(c) \/ BadPsk(c) \/ TornPsk(c) \/ HandleConnect(c)
             \/ ConnectStarted(c) \/ HandleDisconnect(c) \/ DisconnectWait(c)
             \/ DisconnectDone(c) \/ HandleGetStatus(c)
             \/ SendResponse(c) \/ SendFails(c)
      PROVE  UNCHANGED scanVars
  BY <1>3 DEF Accept, Send, Leave, SkipBlank, SkipGarbage, ReadFails, ReadEof,
     ScanStarted, BadPsk, TornPsk, HandleConnect, ConnectStarted, HandleDisconnect,
     DisconnectWait, DisconnectDone, HandleGetStatus, SendResponse, SendFails
<1>4. ASSUME NEW t \in Conn!Attempts, ConnectTask(t) PROVE UNCHANGED scanVars
  BY <1>4 DEF ConnectTask
<1>5. CASE Finished \/ UNCHANGED vars
  BY <1>5 DEF Finished, vars
<1> QED
  BY <1>1, <1>2, <1>3, <1>4, <1>5 DEF Next

\* And of the connection service.
LEMMA ConnSteps == [Next]_vars => [Conn!Next]_(Conn!vars)
<1> SUFFICES ASSUME [Next]_vars PROVE [Conn!Next]_(Conn!vars)
  OBVIOUS
<1> USE DEF Conn!vars, Conn!machine, Conn!tasks, Conn!callerVars, Conn!history, connVars
<1>1. ASSUME NEW c \in Clients, HandleConnect(c) PROVE [Conn!Next]_(Conn!vars)
  <2>1. (\E s \in Ssids : Conn!Connect(c, s)) \/ Conn!RefuseConnect(c)
    BY <1>1 DEF HandleConnect
  <2> QED
    BY <2>1 DEF Conn!Next
<1>2. ASSUME NEW c \in Clients,
             \/ HandleDisconnect(c) \/ DisconnectWait(c) \/ DisconnectDone(c)
             \/ HandleGetStatus(c)
      PROVE  [Conn!Next]_(Conn!vars)
  <2>1. \/ Conn!CallDisconnect(c) \/ Conn!BackendDisconnect(c)
        \/ Conn!BackendDisconnectFails(c) \/ Conn!Clear(c) \/ Conn!ReadStatus(c)
    BY <1>2 DEF HandleDisconnect, DisconnectWait, DisconnectDone, HandleGetStatus
  <2> QED
    BY <2>1 DEF Conn!Next
<1>3. ASSUME NEW t \in Conn!Attempts, ConnectTask(t) PROVE [Conn!Next]_(Conn!vars)
  <2>1. \/ Conn!BackendConnect(t) \/ Conn!BackendConnectFails(t)
        \/ Conn!BackendStatus(t) \/ Conn!CompleteConnect(t) \/ Conn!FailConnect(t)
    BY <1>3 DEF ConnectTask, Conn!BackendReturns
  <2> QED
    BY <2>1 DEF Conn!Next
<1>4. ASSUME NEW c \in Clients,
             \/ Accept(c) \/ (\E k \in Kinds : Send(c, k)) \/ Leave(c)
             \/ SkipBlank(c) \/ SkipGarbage(c) \/ ReadFails(c) \/ ReadEof(c)
             \/ HandleScan(c) \/ ScanStarted(c) \/ HandleGetScanResults(c)
             \/ BadPsk(c) \/ TornPsk(c) \/ ConnectStarted(c)
             \/ SendResponse(c) \/ SendFails(c)
      PROVE  UNCHANGED connVars
  BY <1>4 DEF Accept, Send, Leave, SkipBlank, SkipGarbage, ReadFails, ReadEof,
     HandleScan, ScanStarted, HandleGetScanResults, BadPsk, TornPsk, ConnectStarted,
     SendResponse, SendFails
<1>5. ASSUME NEW t \in Scan!Scans, ScanTask(t) PROVE UNCHANGED connVars
  BY <1>5 DEF ScanTask
<1>6. CASE Finished \/ UNCHANGED vars
  BY <1>6 DEF Finished, vars
<1> QED
  BY <1>1, <1>2, <1>3, <1>4, <1>5, <1>6 DEF Next

\* The transport calls the services as they may be called, whatever its clients
\* send and when they leave: what is proved of the services holds under it.
THEOREM ImplementsServices == Spec => Scan!Spec /\ Conn!Spec
<1>1. Init => Scan!Init /\ Conn!Init
  BY DEF Init
<1> QED
  BY <1>1, ScanSteps, ConnSteps, PTL DEF Spec, Scan!Spec, Conn!Spec

\* The steps of the scanning service keep its types.
LEMMA ScanType == Scan!TypeOK /\ [Scan!Next]_(Scan!vars) => Scan!TypeOK'
<1> SUFFICES ASSUME Scan!TypeOK, [Scan!Next]_(Scan!vars)
             PROVE  Scan!TypeOK'
  OBVIOUS
<1> USE DEF Scan!TypeOK, Scan!Scans, Scan!ScanStates, Scan!TaskStates, Scan!Replies
<1>1. ASSUME NEW c \in Clients, Scan!StartScan(c)
      PROVE  Scan!TypeOK'
  BY <1>1 DEF Scan!StartScan, Scan!MachineStart, Scan!history
<1>2. ASSUME NEW c \in Clients, Scan!RefuseScan(c) \/ Scan!ReadResults(c)
      PROVE  Scan!TypeOK'
  BY <1>2 DEF Scan!RefuseScan, Scan!ReadResults, Scan!machine, Scan!history
<1>3. ASSUME NEW t \in Scan!Scans, Scan!BackendScan(t)
      PROVE  Scan!TypeOK'
  BY <1>3 DEF Scan!BackendScan, Scan!machine, Scan!callerVars, Scan!history
<1>4. ASSUME NEW t \in Scan!Scans, Scan!CompleteScan(t)
      PROVE  Scan!TypeOK'
  BY <1>4 DEF Scan!CompleteScan, Scan!MachineComplete, Scan!callerVars, Scan!history
<1>5. ASSUME NEW t \in Scan!Scans, Scan!FailScan(t)
      PROVE  Scan!TypeOK'
  BY <1>5 DEF Scan!FailScan, Scan!MachineFail, Scan!callerVars, Scan!history
<1>6. ASSUME Scan!Reset
      PROVE  Scan!TypeOK'
  BY <1>6 DEF Scan!Reset
<1>7. CASE UNCHANGED Scan!vars
  BY <1>7 DEF Scan!vars, Scan!machine, Scan!callerVars, Scan!history
<1> QED
  BY <1>1, <1>2, <1>3, <1>4, <1>5, <1>6, <1>7 DEF Scan!Next

\* The steps of the connection service keep its types.
LEMMA ConnType == Conn!TypeOK /\ [Conn!Next]_(Conn!vars) => Conn!TypeOK'
<1> SUFFICES ASSUME Conn!TypeOK, [Conn!Next]_(Conn!vars)
             PROVE  Conn!TypeOK'
  OBVIOUS
<1> USE DEF Conn!TypeOK
<1>1. ASSUME NEW c \in Clients, NEW s \in Ssids, Conn!Connect(c, s)
      PROVE  Conn!TypeOK'
  BY <1>1 DEF Conn!Connect, Conn!MachineConnect, Conn!Attempts, Conn!ConnectionStates,
              Conn!TaskStates, Conn!Replies
<1>2. ASSUME NEW c \in Clients, Conn!RefuseConnect(c) \/ Conn!ReadStatus(c)
      PROVE  Conn!TypeOK'
  BY <1>2 DEF Conn!RefuseConnect, Conn!ReadStatus, Conn!machine, Conn!tasks,
              Conn!history, Conn!Replies
<1>3. ASSUME NEW c \in Clients, Conn!CallDisconnect(c)
      PROVE  Conn!TypeOK'
  <2>1. strays' \in SUBSET Conn!Attempts
    BY <1>3 DEF Conn!CallDisconnect, Conn!InFlight
  <2> QED
    BY <1>3, <2>1 DEF Conn!CallDisconnect, Conn!machine, Conn!tasks, Conn!CallerStates
<1>4. ASSUME NEW c \in Clients,
             Conn!BackendDisconnect(c) \/ Conn!BackendDisconnectFails(c)
      PROVE  Conn!TypeOK'
  BY <1>4 DEF Conn!BackendDisconnect, Conn!BackendDisconnectFails, Conn!machine,
              Conn!tasks, Conn!history, Conn!CallerStates, Conn!Replies
<1>5. ASSUME NEW c \in Clients, Conn!Clear(c)
      PROVE  Conn!TypeOK'
  BY <1>5 DEF Conn!Clear, Conn!MachineDisconnect, Conn!tasks, Conn!history,
              Conn!ConnectionStates, Conn!CallerStates, Conn!Replies
<1>6. ASSUME NEW t \in Conn!Attempts,
             Conn!BackendConnect(t) \/ Conn!BackendConnectFails(t)
      PROVE  Conn!TypeOK'
  BY <1>6 DEF Conn!BackendConnect, Conn!BackendConnectFails, Conn!machine,
              Conn!callerVars, Conn!history, Conn!TaskStates
<1>7. ASSUME NEW t \in Conn!Attempts, Conn!BackendStatus(t)
      PROVE  Conn!TypeOK'
  BY <1>7 DEF Conn!BackendStatus, Conn!machine, Conn!callerVars, Conn!history,
              Conn!TaskStates, Conn!Polls
<1>8. ASSUME NEW t \in Conn!Attempts, Conn!CompleteConnect(t)
      PROVE  Conn!TypeOK'
  BY <1>8 DEF Conn!CompleteConnect, Conn!MachineComplete, Conn!callerVars,
              Conn!history, Conn!Attempts, Conn!TaskStates, Conn!ConnectionStates
<1>9. ASSUME NEW t \in Conn!Attempts, Conn!FailConnect(t)
      PROVE  Conn!TypeOK'
  BY <1>9 DEF Conn!FailConnect, Conn!MachineFail, Conn!callerVars, Conn!history,
              Conn!Attempts, Conn!TaskStates, Conn!ConnectionStates
<1>10. CASE UNCHANGED Conn!vars
  BY <1>10 DEF Conn!vars, Conn!machine, Conn!tasks, Conn!callerVars, Conn!history
<1> QED
  BY <1>1, <1>2, <1>3, <1>4, <1>5, <1>6, <1>7, <1>8, <1>9, <1>10 DEF Conn!Next

-----------------------------------------------------------------------------
(* What the services show is published, and stays so                        *)

\* A scan whose outcome is on display has been published, and stays so.
LEMMA ScanFactsStay ==
    ASSUME Scan!TypeOK, ScanFacts, [Scan!Next]_(Scan!vars)
    PROVE  ScanFacts' /\ (ScanPublished => ScanPublished')
<1> USE DEF Scan!TypeOK, Scan!Scans
<1>1. ASSUME scans' >= scans, scans' \in 0..MaxScans,
             \A t \in 1..scans : scanTask[t] = "done" => scanTask'[t] = "done"
      PROVE  ScanPublished => ScanPublished'
  BY <1>1 DEF ScanPublished
<1>2. ASSUME UNCHANGED <<scanState, scanResults>>,
             \A t \in Scan!Scans : scanTask'[t] = "unborn" <=> t > scans',
             ScanPublished => ScanPublished'
      PROVE  ScanFacts'
  BY <1>2 DEF ScanFacts
<1>3. ASSUME NEW c \in Clients, Scan!StartScan(c)
      PROVE  ScanFacts' /\ (ScanPublished => ScanPublished')
  <2>1. /\ scans' = scans + 1 /\ scans' \in 0..MaxScans
        /\ scanState' = "Scanning" /\ scanResults' = 0
        /\ scanTask' = [scanTask EXCEPT ![scans + 1] = "scanning"]
    BY <1>3 DEF Scan!StartScan, Scan!MachineStart
  <2>2. \A t \in 1..scans : scanTask'[t] = scanTask[t]
    BY <2>1
  <2>3. ScanPublished => ScanPublished'
    BY <1>1, <2>1, <2>2
  <2>4. \A t \in Scan!Scans : scanTask'[t] = "unborn" <=> t > scans'
    BY <2>1 DEF ScanFacts
  <2> QED
    BY <2>1, <2>3, <2>4 DEF ScanFacts
<1>4. ASSUME NEW c \in Clients, Scan!RefuseScan(c) \/ Scan!ReadResults(c)
      PROVE  ScanFacts' /\ (ScanPublished => ScanPublished')
  <2>1. UNCHANGED <<scanState, scanResults, scans, scanTask>>
    BY <1>4 DEF Scan!RefuseScan, Scan!ReadResults, Scan!machine
  <2> QED
    BY <1>1, <1>2, <2>1 DEF ScanFacts
<1>5. ASSUME NEW t \in Scan!Scans, Scan!BackendScan(t)
      PROVE  ScanFacts' /\ (ScanPublished => ScanPublished')
  <2>1. /\ UNCHANGED <<scanState, scanResults, scans>>
        /\ \E r \in {"ok", "err"} : scanTask' = [scanTask EXCEPT ![t] = r]
        /\ scanTask[t] = "scanning"
    BY <1>5 DEF Scan!BackendScan, Scan!machine
  <2>2. ScanPublished => ScanPublished'
    BY <1>1, <2>1
  <2>3. \A u \in Scan!Scans : scanTask'[u] = "unborn" <=> u > scans'
    BY <2>1 DEF ScanFacts
  <2> QED
    BY <1>2, <2>1, <2>2, <2>3
<1>6. ASSUME NEW t \in Scan!Scans, Scan!CompleteScan(t) \/ Scan!FailScan(t)
      PROVE  ScanFacts' /\ (ScanPublished => ScanPublished')
  <2>1. /\ scans' = scans /\ scanTask' = [scanTask EXCEPT ![t] = "done"]
        /\ scanTask[t] \in {"ok", "err"}
    BY <1>6 DEF Scan!CompleteScan, Scan!FailScan
  <2>2. t \in 1..scans /\ scanTask'[t] = "done"
    BY <2>1 DEF ScanFacts
  <2>3. ScanPublished'
    BY <2>1, <2>2 DEF ScanPublished
  <2>4. \A u \in Scan!Scans : scanTask'[u] = "unborn" <=> u > scans'
    BY <2>1 DEF ScanFacts
  <2> QED
    BY <2>3, <2>4 DEF ScanFacts
<1>7. ASSUME Scan!Reset
      PROVE  ScanFacts' /\ (ScanPublished => ScanPublished')
  BY <1>7 DEF Scan!Reset
<1>8. CASE UNCHANGED Scan!vars
  <2>1. UNCHANGED <<scanState, scanResults, scans, scanTask>>
    BY <1>8 DEF Scan!vars, Scan!machine
  <2> QED
    BY <1>1, <1>2, <2>1 DEF ScanFacts
<1> QED
  BY <1>3, <1>4, <1>5, <1>6, <1>7, <1>8 DEF Scan!Next

\* So has an attempt whose outcome is on display.
LEMMA ConnFactsStay ==
    ASSUME Conn!TypeOK, ConnFacts, [Conn!Next]_(Conn!vars)
    PROVE  /\ ConnFacts'
           /\ AttemptPublished => AttemptPublished'
           /\ StatusPublished => StatusPublished'
<1> DEFINE Numbered ==
             \A t \in Conn!Attempts :
                /\ task[t] = "unborn" <=> t > attempts
                /\ task[t] = "up" => poll[t] \in {"down", "no address", "address"}
           Stay == /\ AttemptPublished => AttemptPublished'
                   /\ StatusPublished => StatusPublished'
<1> USE DEF Conn!Attempts
<1> USE DEF Conn!TypeOK
<1>0. Numbered
  BY DEF ConnFacts
<1>1. ASSUME attempts' >= attempts, attempts' \in 0..MaxAttempts,
             \A t \in 1..attempts : task[t] = "done" =>
                task'[t] = "done" /\ poll'[t] = poll[t]
      PROVE  Stay
  <2>1. \A t \in 1..attempts : t \in 1..attempts'
    BY <1>1
  <2>2. AttemptPublished => AttemptPublished'
    BY <1>1, <2>1, Zenon DEF AttemptPublished
  <2>3. StatusPublished => StatusPublished'
    BY <1>1, <2>1, Zenon DEF StatusPublished
  <2> QED
    BY <2>2, <2>3
<1>2. ASSUME connState' \in {connState, "Idle", "Connecting"}, Numbered', Stay
      PROVE  ConnFacts' /\ Stay
  BY <1>2 DEF ConnFacts
<1>3. ASSUME NEW c \in Clients, NEW s \in Ssids, Conn!Connect(c, s)
      PROVE  ConnFacts' /\ Stay
  <2>1. /\ attempts' = attempts + 1 /\ attempts' \in 0..MaxAttempts
        /\ connState' = "Connecting" /\ poll' = poll
        /\ task' = [task EXCEPT ![attempts + 1] = "connecting"]
    BY <1>3 DEF Conn!Connect, Conn!MachineConnect
  <2>2. \A t \in 1..attempts : task'[t] = task[t]
    BY <2>1
  <2>3. Stay
    BY <1>1, <2>1, <2>2
  <2>4. Numbered'
    <3>1. attempts + 1 \in Conn!Attempts /\ task'[attempts + 1] = "connecting"
      BY <2>1
    <3>2. \A t \in Conn!Attempts : t # attempts + 1 => task'[t] = task[t]
      BY <2>1
    <3>3. \A t \in Conn!Attempts :
             t # attempts + 1 => (t > attempts' <=> t > attempts)
      BY <2>1
    <3> SUFFICES ASSUME NEW u \in Conn!Attempts
                 PROVE  /\ task'[u] = "unborn" <=> u > attempts'
                        /\ task'[u] = "up" =>
                              poll'[u] \in {"down", "no address", "address"}
      OBVIOUS
    <3>4. CASE u = attempts + 1
      BY <2>1, <3>1, <3>4
    <3>5. CASE u # attempts + 1
      BY <1>0, <2>1, <3>2, <3>3, <3>5
    <3> QED
      BY <3>4, <3>5
  <2> QED
    BY <1>2, <2>1, <2>3, <2>4
<1>4. ASSUME NEW c \in Clients,
             \/ Conn!RefuseConnect(c) \/ Conn!ReadStatus(c) \/ Conn!CallDisconnect(c)
             \/ Conn!BackendDisconnect(c) \/ Conn!BackendDisconnectFails(c)
             \/ Conn!Clear(c)
      PROVE  ConnFacts' /\ Stay
  <2>1. connState' \in {connState, "Idle"} /\ UNCHANGED <<attempts, task, poll>>
    BY <1>4 DEF Conn!RefuseConnect, Conn!ReadStatus, Conn!CallDisconnect,
       Conn!BackendDisconnect, Conn!BackendDisconnectFails, Conn!Clear,
       Conn!MachineDisconnect, Conn!machine, Conn!tasks
  <2>2. Stay
    BY <1>1, <2>1
  <2>3. Numbered'
    BY <1>0, <2>1
  <2> QED
    BY <1>2, <2>1, <2>2, <2>3
<1>5. ASSUME NEW t \in Conn!Attempts,
             Conn!BackendConnect(t) \/ Conn!BackendConnectFails(t)
      PROVE  ConnFacts' /\ Stay
  <2>1. /\ UNCHANGED <<connState, attempts, poll>>
        /\ \E r \in {"polling", "err"} : task' = [task EXCEPT ![t] = r]
        /\ task[t] = "connecting"
    BY <1>5 DEF Conn!BackendConnect, Conn!BackendConnectFails, Conn!machine
  <2>2. Stay
    BY <1>1, <2>1
  <2>3. Numbered'
    BY <1>0, <2>1
  <2> QED
    BY <1>2, <2>1, <2>2, <2>3
<1>6. ASSUME NEW t \in Conn!Attempts, Conn!BackendStatus(t)
      PROVE  ConnFacts' /\ Stay
  <2>1. UNCHANGED <<connState, attempts>> /\ task[t] = "polling"
    BY <1>6 DEF Conn!BackendStatus, Conn!machine
  <2>2. attempts' >= attempts /\ attempts' \in 0..MaxAttempts
    BY <2>1
  <2>3. \A u \in 1..attempts : u \in Conn!Attempts
    OBVIOUS
  <2>4. PICK r \in {"down", "no address", "address", "err"} :
           /\ poll' = [poll EXCEPT ![t] = r]
           /\ task' = [task EXCEPT ![t] = IF r = "err" THEN "err" ELSE "up"]
    BY <1>6 DEF Conn!BackendStatus
  <2>5. \A u \in Conn!Attempts : u # t => task'[u] = task[u] /\ poll'[u] = poll[u]
    BY <2>4
  <2>6. \A u \in 1..attempts : task[u] = "done" =>
           task'[u] = "done" /\ poll'[u] = poll[u]
    BY <2>1, <2>3, <2>5, Zenon
  <2>7. Stay
    BY <1>1, <2>2, <2>6
  <2>8. Numbered'
    BY <1>0, <2>1, <2>4
  <2> QED
    BY <1>2, <2>1, <2>7, <2>8
<1>7. ASSUME NEW t \in Conn!Attempts, Conn!CompleteConnect(t) \/ Conn!FailConnect(t)
      PROVE  ConnFacts' /\ Stay
  <2>1. /\ UNCHANGED <<attempts, poll>> /\ task' = [task EXCEPT ![t] = "done"]
        /\ \/ task[t] = "up" /\ connState' = "Connected"
           \/ task[t] = "err" /\ connState' = "Failed"
    BY <1>7 DEF Conn!CompleteConnect, Conn!FailConnect, Conn!MachineComplete,
       Conn!MachineFail
  <2>2. t \in 1..attempts /\ task'[t] = "done"
    <3>1. ~ (t > attempts) /\ t \in 1..MaxAttempts
      BY <1>0, <2>1
    <3>2. task'[t] = "done"
      BY <2>1
    <3> QED
      BY <3>1, <3>2
  <2>3. AttemptPublished'
    BY <2>1, <2>2 DEF AttemptPublished
  <2>4. task[t] = "up" => StatusPublished'
    BY <1>0, <2>1, <2>2 DEF StatusPublished
  <2>5. Stay
    BY <1>1, <2>1
  <2>6. Numbered'
    BY <1>0, <2>1
  <2> QED
    BY <2>1, <2>3, <2>4, <2>5, <2>6 DEF ConnFacts
<1>8. CASE UNCHANGED Conn!vars
  <2>1. UNCHANGED <<connState, attempts, task, poll>>
    BY <1>8 DEF Conn!vars, Conn!machine, Conn!tasks
  <2>2. Stay
    BY <1>1, <2>1
  <2>3. Numbered'
    BY <1>0, <2>1
  <2> QED
    BY <1>2, <2>1, <2>2, <2>3
<1> QED
  BY <1>3, <1>4, <1>5, <1>6, <1>7, <1>8 DEF Conn!Next

\* What was published stays so, whatever the transport does.
LEMMA FactsStay ==
    ASSUME TypeOK, ScanFacts, ConnFacts, [Next]_vars
    PROVE  /\ ScanFacts' /\ ConnFacts'
           /\ ScanPublished => ScanPublished'
           /\ AttemptPublished => AttemptPublished'
           /\ StatusPublished => StatusPublished'
<1>1. ScanFacts' /\ (ScanPublished => ScanPublished')
  BY ScanSteps, ScanFactsStay DEF TypeOK
<1>2. /\ ConnFacts'
      /\ AttemptPublished => AttemptPublished'
      /\ StatusPublished => StatusPublished'
  BY ConnSteps, ConnFactsStay DEF TypeOK
<1> QED
  BY <1>1, <1>2

-----------------------------------------------------------------------------
(* What a step does to the lines and responses of a client                  *)

Accepts(c) ==
    pc[c] = "none" /\ Goto(c, "reading") /\ UNCHANGED <<asked, received, read>>

Writes(c) ==
    \E k \in Kinds :
        /\ Room(k) /\ asked' = [asked EXCEPT ![c] = Append(@, k)]
        /\ UNCHANGED <<received, pc, read>>

TakesRequest(c) ==
    /\ (\E k \in Requests : NextLineIs(c, k)) /\ ReadOn(c)
    /\ \E l \in Waiting \cup {"gone"} : Goto(c, l)
    /\ UNCHANGED <<asked, received>>

PassesOver(c) ==
    /\ (\E k \in Lines \ Requests : NextLineIs(c, k)) /\ ReadOn(c)
    /\ UNCHANGED <<asked, received, pc>>

GoesOn(c) ==
    pc[c] \in Waiting /\ Goto(c, "responding") /\ UNCHANGED <<asked, received, read>>

Replies(c) ==
    /\ pc[c] = "responding" /\ Goto(c, "reading")
    /\ received' = [received EXCEPT ![c] =
                        Append(@, [id |-> read[c], is |-> answer[c]])]
    /\ UNCHANGED <<asked, read>>

Stops(c) == Goto(c, "gone") /\ UNCHANGED <<asked, received, read>>

Moves(c) ==
    \/ Accepts(c) \/ Writes(c) \/ TakesRequest(c) \/ PassesOver(c)
    \/ GoesOn(c) \/ Replies(c) \/ Stops(c)

\* Every step moves one client in one of these ways, or none.
LEMMA StepsAreMoves ==
    ASSUME TypeOK, \A c \in Clients : Placed(c), [Next]_vars
    PROVE  \/ \E c \in Clients : Moves(c)
           \/ UNCHANGED <<asked, received, pc, read>>
<1> USE DEF Respond, client, handler
<1>1. ASSUME NEW c \in Clients, Accept(c) PROVE Accepts(c)
  BY <1>1 DEF Accept, Accepts, Placed
<1>2. ASSUME NEW c \in Clients, NEW k \in Kinds, Send(c, k) PROVE Writes(c)
  BY <1>2 DEF Send, Writes
<1>3. ASSUME NEW c \in Clients, SkipBlank(c) \/ SkipGarbage(c) PROVE PassesOver(c)
  <2>1. "blank" \in Lines \ Requests /\ "garbage" \in Lines \ Requests
    BY DEF Lines, Requests, BadConnects
  <2> QED
    BY <1>3, <2>1 DEF SkipBlank, SkipGarbage, PassesOver
<1>4. ASSUME NEW c \in Clients, ReadFails(c) \/ ReadEof(c) \/ SendFails(c)
      PROVE  Stops(c)
  BY <1>4 DEF ReadFails, ReadEof, SendFails, Stops
<1>5. ASSUME NEW c \in Clients,
             \/ HandleScan(c) \/ HandleGetScanResults(c) \/ BadPsk(c) \/ TornPsk(c)
             \/ HandleConnect(c) \/ HandleDisconnect(c) \/ HandleGetStatus(c)
      PROVE  TakesRequest(c)
  <2>1. \E k \in Requests : NextLineIs(c, k)
    BY <1>5 DEF HandleScan, HandleGetScanResults, BadPsk, TornPsk, HandleConnect,
       HandleDisconnect, HandleGetStatus, Requests, BadConnects
  <2>2. \E l \in Waiting \cup {"gone"} : Goto(c, l)
    BY <1>5 DEF HandleScan, HandleGetScanResults, BadPsk, TornPsk, HandleConnect,
       HandleDisconnect, HandleGetStatus, Waiting
  <2>3. ReadOn(c) /\ UNCHANGED <<asked, received>>
    BY <1>5 DEF HandleScan, HandleGetScanResults, BadPsk, TornPsk, HandleConnect,
       HandleDisconnect, HandleGetStatus
  <2> QED
    BY <2>1, <2>2, <2>3 DEF TakesRequest
<1>6. ASSUME NEW c \in Clients, ScanStarted(c) \/ ConnectStarted(c) PROVE GoesOn(c)
  BY <1>6 DEF ScanStarted, ConnectStarted, GoesOn, Waiting
<1>7. ASSUME NEW c \in Clients, DisconnectDone(c) PROVE GoesOn(c)
  <2>1. caller[c] # "ready"
    BY <1>7 DEF DisconnectDone, Conn!BackendDisconnectFails, Conn!Clear
  <2>2. pc[c] \in Waiting
    BY <2>1 DEF Placed, Waiting
  <2> QED
    BY <1>7, <2>2 DEF DisconnectDone, GoesOn
<1>8. ASSUME NEW c \in Clients, SendResponse(c) PROVE Replies(c)
  BY <1>8 DEF SendResponse, Replies
<1>9. ASSUME NEW c \in Clients, Leave(c) \/ DisconnectWait(c)
      PROVE  UNCHANGED <<asked, received, pc, read>>
  BY <1>9 DEF Leave, DisconnectWait
<1>10. ASSUME NEW t, ScanTask(t) \/ ConnectTask(t)
       PROVE  UNCHANGED <<asked, received, pc, read>>
  BY <1>10 DEF ScanTask, ConnectTask
<1>11. CASE Finished \/ UNCHANGED vars
  BY <1>11 DEF Finished, vars
<1> HIDE DEF Respond, client, handler
<1> QED
  BY <1>1, <1>2, <1>3, <1>4, <1>5, <1>6, <1>7, <1>8, <1>9, <1>10, <1>11
     DEF Next, Moves

\* A handler stays where its connection and its calls have it.
LEMMA PlacedStays ==
    ASSUME TypeOK, \A c \in Clients : Placed(c), [Next]_vars, NEW d \in Clients
    PROVE  Placed(d)'
<1> USE DEF Placed
<1>0. /\ socket \in [Clients -> {"none", "open", "half", "closed"}]
      /\ pc \in [Clients -> {"none", "reading", "scan started", "connect started",
                             "disconnecting", "responding", "gone"}]
      /\ caller \in [Clients -> {"ready", "disconnecting", "clearing"}]
  BY DEF TypeOK, Conn!TypeOK, Conn!CallerStates
<1>1. ASSUME NEW c \in Clients, pc[c] \notin {"none", "disconnecting"},
             \E l : l # "none" /\ Goto(c, l),
             UNCHANGED <<socket, caller>>
      PROVE  Placed(d)'
  <2>1. PICK l : l # "none" /\ Goto(c, l)
    BY <1>1
  <2>2. pc' = [pc EXCEPT ![c] = l]
    BY <2>1 DEF Goto
  <2>3. socket[c] # "none" /\ caller[c] = "ready"
    BY <1>0, <1>1
  <2> QED
    BY <1>0, <1>1, <2>2, <2>3
<1>2. ASSUME NEW c \in Clients, Accept(c) PROVE Placed(d)'
  <2>1. caller[c] = "ready" /\ caller' = caller
    BY <1>0, <1>2 DEF Accept, connVars
  <2> QED
    BY <1>0, <1>2, <2>1 DEF Accept, Goto
<1>3. ASSUME NEW c \in Clients,
             \/ (\E k \in Kinds : Send(c, k)) \/ SkipBlank(c) \/ SkipGarbage(c)
      PROVE  Placed(d)'
  BY <1>3 DEF Send, SkipBlank, SkipGarbage, connVars, client, handler
<1>4. ASSUME NEW c \in Clients, Leave(c) PROVE Placed(d)'
  BY <1>0, <1>4 DEF Leave, connVars, handler
<1>5. ASSUME NEW c \in Clients,
             \/ ReadFails(c) \/ ReadEof(c) \/ SendFails(c) \/ SendResponse(c)
             \/ BadPsk(c) \/ TornPsk(c)
      PROVE  Placed(d)'
  BY <1>1, <1>5 DEF ReadFails, ReadEof, SendFails, SendResponse, BadPsk, TornPsk,
     NextLineIs, Respond, connVars, client
<1>6. ASSUME NEW c \in Clients,
             \/ HandleScan(c) \/ ScanStarted(c) \/ HandleGetScanResults(c)
             \/ ConnectStarted(c)
      PROVE  Placed(d)'
  BY <1>1, <1>6 DEF HandleScan, ScanStarted, HandleGetScanResults, ConnectStarted,
     NextLineIs, Respond, connVars, client
<1>7. ASSUME NEW c \in Clients, HandleConnect(c) \/ HandleGetStatus(c)
      PROVE  Placed(d)'
  BY <1>1, <1>7 DEF HandleConnect, HandleGetStatus, NextLineIs, Respond, client,
     Conn!Connect, Conn!RefuseConnect, Conn!ReadStatus
<1>8. ASSUME NEW c \in Clients, HandleDisconnect(c) PROVE Placed(d)'
  <2>1. /\ pc' = [pc EXCEPT ![c] = "disconnecting"] /\ socket' = socket
        /\ caller' = [caller EXCEPT ![c] = "disconnecting"] /\ pc[c] = "reading"
    BY <1>8 DEF HandleDisconnect, NextLineIs, Goto, client, Conn!CallDisconnect
  <2> QED
    BY <1>0, <2>1
<1>9. ASSUME NEW c \in Clients, DisconnectWait(c) PROVE Placed(d)'
  <2>1. /\ caller' = [caller EXCEPT ![c] = "clearing"] /\ caller[c] = "disconnecting"
        /\ UNCHANGED <<socket, pc>>
    BY <1>9 DEF DisconnectWait, Conn!BackendDisconnect, client, handler
  <2> QED
    BY <1>0, <2>1
<1>10. ASSUME NEW c \in Clients, DisconnectDone(c) PROVE Placed(d)'
  <2>1. /\ caller' = [caller EXCEPT ![c] = "ready"] /\ caller[c] # "ready"
        /\ pc' = [pc EXCEPT ![c] = "responding"] /\ socket' = socket
    BY <1>10 DEF DisconnectDone, Conn!BackendDisconnectFails, Conn!Clear, Respond,
       Goto, client
  <2> QED
    BY <1>0, <2>1
<1>11. ASSUME NEW t, ScanTask(t) PROVE Placed(d)'
  BY <1>11 DEF ScanTask, connVars, client, handler
<1>12. ASSUME NEW t, ConnectTask(t) PROVE Placed(d)'
  BY <1>12 DEF ConnectTask, Conn!BackendReturns, Conn!BackendConnect,
     Conn!BackendConnectFails, Conn!BackendStatus, Conn!CompleteConnect,
     Conn!FailConnect, Conn!callerVars, client, handler
<1>13. CASE Finished \/ UNCHANGED vars
  BY <1>13 DEF Finished, vars, connVars, client, handler
<1> QED
  BY <1>2, <1>3, <1>4, <1>5, <1>6, <1>7, <1>8, <1>9, <1>10, <1>11, <1>12, <1>13
     DEF Next

-----------------------------------------------------------------------------
(* Counting lines                                                           *)

\* The lines of a client are a sequence no longer than may be.
LEMMA LinesAreSequence ==
    ASSUME TypeOK, NEW c \in Clients
    PROVE  /\ asked[c] \in Seq(Kinds) /\ Len(asked[c]) \in 0..MaxLines
           /\ DOMAIN asked[c] = 1..Len(asked[c])
<1>1. asked[c] \in Seq(Kinds) /\ Len(asked[c]) <= MaxLines
  BY DEF TypeOK
<1>2. Len(asked[c]) \in Nat /\ DOMAIN asked[c] = 1..Len(asked[c])
  BY <1>1, LenProperties
<1> QED
  BY <1>1, <1>2

\* A client that has sent as many lines as there may be leaves no room.
LEMMA RoomIsLeft ==
    ASSUME TypeOK, IsFiniteSet(AllSent), Cardinality(AllSent) < MaxLines,
           NEW c \in Clients
    PROVE  Len(asked[c]) < MaxLines
<1> DEFINE own == {c} \X (1..MaxLines)
<1>1. SUFFICES ASSUME Len(asked[c]) = MaxLines PROVE FALSE
  BY LinesAreSequence
<1>2. own \subseteq AllSent
  BY <1>1 DEF AllSent
<1>3. /\ IsFiniteSet({c}) /\ Cardinality({c}) = 1
      /\ IsFiniteSet(1..MaxLines) /\ Cardinality(1..MaxLines) = MaxLines
  <2>1. 1 \in Int /\ MaxLines \in Int /\ ~ (1 > MaxLines /\ MaxLines # 0)
    OBVIOUS
  <2>2. IsFiniteSet(1..MaxLines)
        /\ Cardinality(1..MaxLines) = IF 1 > MaxLines THEN 0 ELSE MaxLines - 1 + 1
    BY <2>1, FS_Interval
  <2>3. IsFiniteSet({c}) /\ Cardinality({c}) = 1
    BY FS_Singleton
  <2> QED
    BY <2>1, <2>2, <2>3
<1>4. Cardinality(own) = 1 * MaxLines
  BY <1>3, FS_Product
<1> HIDE DEF own
<1>5. Cardinality(own) <= Cardinality(AllSent) /\ Cardinality(AllSent) \in Nat
  BY <1>2, FS_Subset, FS_CardinalityType
<1> QED
  BY <1>4, <1>5

\* One more line is sent at most.
LEMMA SentStaysFinite ==
    ASSUME TypeOK, IsFiniteSet(AllSent), NEW c \in Clients, NEW k \in Kinds,
           asked' = [asked EXCEPT ![c] = Append(@, k)]
    PROVE  IsFiniteSet(AllSent')
<1> DEFINE more == AllSent \cup {<<c, Len(asked[c]) + 1>>}
<1>1. /\ asked[c] \in Seq(Kinds) /\ asked'[c] = Append(asked[c], k)
      /\ \A d \in Clients : d # c => asked'[d] = asked[d]
  BY DEF TypeOK
<1>2. Len(asked[c]) \in Nat /\ Len(asked'[c]) = Len(asked[c]) + 1
  BY <1>1
<1>3. AllSent' \subseteq more
  <2> SUFFICES ASSUME NEW d \in Clients, NEW i \in 1..MaxLines, i <= Len(asked'[d])
               PROVE  <<d, i>> \in more
    BY DEF AllSent
  <2>1. CASE d = c /\ i = Len(asked[c]) + 1
    BY <2>1
  <2>2. CASE d # c \/ i # Len(asked[c]) + 1
    <3>1. i <= Len(asked[d])
      BY <1>1, <1>2, <2>2
    <3> QED
      BY <3>1 DEF AllSent
  <2> QED
    BY <2>1, <2>2
<1>4. IsFiniteSet(more)
  BY FS_AddElement
<1> HIDE DEF more
<1> QED
  BY <1>3, <1>4, FS_Subset

\* The requests of a client are finitely many.
LEMMA RequestsAreFinite ==
    ASSUME TypeOK, NEW c \in Clients, NEW S, S \subseteq RequestsOf(c)
    PROVE  IsFiniteSet(S) /\ Cardinality(S) \in Nat
<1>1. DOMAIN asked[c] = 1..Len(asked[c]) /\ Len(asked[c]) \in Nat
  BY LinesAreSequence
<1>2. S \subseteq 1..Len(asked[c])
  BY <1>1 DEF RequestsOf
<1>3. IsFiniteSet(1..Len(asked[c]))
  BY <1>1, FS_Interval
<1> QED
  BY <1>2, <1>3, FS_Subset, FS_CardinalityType

\* The request a handler takes next is counted, a line it passes over is not.
LEMMA NextIsCounted ==
    ASSUME TypeOK, NEW c \in Clients, NEW k, NextLineIs(c, k)
    PROVE  /\ k \in Requests =>
                /\ read[c] + 1 \in RequestsOf(c)
                /\ Cardinality(RequestsUpTo(c, read[c] + 1))
                     = Cardinality(RequestsUpTo(c, read[c])) + 1
           /\ k \notin Requests =>
                RequestsUpTo(c, read[c] + 1) = RequestsUpTo(c, read[c])
<1> DEFINE n == read[c]
<1>1. /\ n \in Nat /\ n + 1 \in DOMAIN asked[c] /\ asked[c][n + 1] = k
      /\ DOMAIN asked[c] \subseteq Nat
  <2>1. n < Len(asked[c]) /\ asked[c][n + 1] = k
    BY DEF NextLineIs
  <2>2. n \in 0..MaxLines
    BY DEF TypeOK
  <2> HIDE DEF n
  <2> QED
    BY <2>1, <2>2, LinesAreSequence
<1> HIDE DEF n
<1>2. ASSUME k \notin Requests
      PROVE  RequestsUpTo(c, n + 1) = RequestsUpTo(c, n)
  BY <1>1, <1>2 DEF RequestsUpTo, RequestsOf
<1>3. ASSUME k \in Requests
      PROVE  /\ n + 1 \in RequestsOf(c)
             /\ Cardinality(RequestsUpTo(c, n + 1))
                  = Cardinality(RequestsUpTo(c, n)) + 1
  <2>1. n + 1 \in RequestsOf(c)
    BY <1>1, <1>3 DEF RequestsOf
  <2>2. RequestsUpTo(c, n + 1) = RequestsUpTo(c, n) \cup {n + 1}
    BY <1>1, <2>1 DEF RequestsUpTo, RequestsOf
  <2>3. n + 1 \notin RequestsUpTo(c, n)
    BY <1>1 DEF RequestsUpTo
  <2>4. IsFiniteSet(RequestsUpTo(c, n))
    BY RequestsAreFinite DEF RequestsUpTo
  <2> QED
    BY <2>1, <2>2, <2>3, <2>4, FS_AddElement
<1> QED
  BY <1>2, <1>3 DEF n

\* Before the request a handler is at there is one less than up to it.
LEMMA BeforeIsOneLess ==
    ASSUME TypeOK, NEW c \in Clients, NEW n \in RequestsOf(c)
    PROVE  Cardinality({i \in RequestsOf(c) : i < n})
             = Cardinality(RequestsUpTo(c, n)) - 1
<1>1. n \in Nat /\ RequestsOf(c) \subseteq Nat
  BY LinesAreSequence DEF RequestsOf
<1>2. {i \in RequestsOf(c) : i < n} = RequestsUpTo(c, n) \ {n}
  BY <1>1 DEF RequestsUpTo
<1>3. n \in RequestsUpTo(c, n)
  BY <1>1 DEF RequestsUpTo
<1>4. IsFiniteSet(RequestsUpTo(c, n))
  BY RequestsAreFinite DEF RequestsUpTo
<1> QED
  BY <1>2, <1>3, <1>4, FS_RemoveElement

\* What a client sends later changes nothing about the lines it has sent.
LEMMA LinesStay ==
    ASSUME TypeOK, NEW c \in Clients, Len(asked'[c]) \in Nat,
           DOMAIN asked'[c] = 1..Len(asked'[c]), Len(asked[c]) <= Len(asked'[c]),
           \A i \in 1..Len(asked[c]) : asked'[c][i] = asked[c][i]
    PROVE  /\ RequestsOf(c) \subseteq RequestsOf(c)'
           /\ \A n \in 0..Len(asked[c]) :
                 /\ {i \in RequestsOf(c)' : i <= n} = RequestsUpTo(c, n)
                 /\ {i \in RequestsOf(c)' : i < n} = {i \in RequestsOf(c) : i < n}
<1>1. Len(asked[c]) \in Nat /\ DOMAIN asked[c] = 1..Len(asked[c])
  BY LinesAreSequence
<1>2. \A i \in 1..Len(asked[c]) : i \in RequestsOf(c)' <=> i \in RequestsOf(c)
  BY <1>1 DEF RequestsOf
<1>3. /\ RequestsOf(c) \subseteq 1..Len(asked[c])
      /\ RequestsOf(c)' \subseteq 1..Len(asked'[c])
  BY <1>1 DEF RequestsOf
<1> HIDE DEF RequestsOf
<1> QED
  BY <1>1, <1>2, <1>3 DEF RequestsUpTo

-----------------------------------------------------------------------------
(* The invariant is inductive                                               *)

Responses == [id : 1..MaxLines, is : Answers]

\* The invariant holds at the start, when nobody is connected.
LEMMA InitInvs == Init => CountInv /\ FactInv
<1> SUFFICES ASSUME Init PROVE CountInv /\ FactInv
  OBVIOUS
<1>1. Scan!TypeOK
  BY DEF Init, Scan!Init, Scan!TypeOK, Scan!Scans, Scan!ScanStates, Scan!TaskStates,
         Scan!Replies
<1>2. Conn!TypeOK
  BY DEF Init, Conn!Init, Conn!TypeOK, Conn!Attempts, Conn!ConnectionStates,
         Conn!TaskStates, Conn!Polls, Conn!CallerStates, Conn!Replies
<1>3. /\ \A c \in Clients : /\ asked[c] = <<>> /\ received[c] = <<>> /\ read[c] = 0
                            /\ pc[c] = "none" /\ answer[c] = "none"
      /\ \A c \in Clients : caller[c] = "ready"
  BY DEF Init, Conn!Init
<1>4. /\ \A S : <<>> \in Seq(S)
      /\ Len(<<>>) = 0 /\ DOMAIN <<>> = {}
  BY EmptySeq
<1>5. TypeOK
  <2>1. asked \in [Clients -> Seq(Kinds)] /\ received \in [Clients -> Seq(Responses)]
    <3> HIDE DEF Responses
    <3> QED
      BY <1>4 DEF Init
  <2>2. \A c \in Clients : Len(asked[c]) <= MaxLines
    BY <1>3, <1>4
  <2>3. "none" \in Answers
    BY DEF Answers
  <2>4. /\ socket \in [Clients -> {"none", "open", "half", "closed"}]
        /\ pc \in [Clients -> {"none", "reading", "scan started", "connect started",
                               "disconnecting", "responding", "gone"}]
        /\ read \in [Clients -> 0..MaxLines] /\ answer \in [Clients -> Answers]
    BY <2>3 DEF Init
  <2> QED
    BY <1>1, <1>2, <2>1, <2>2, <2>4, Zenon DEF TypeOK, Responses
<1>6. IsFiniteSet(AllSent)
  <2>1. AllSent = {}
    BY <1>3, <1>4 DEF AllSent
  <2> QED
    BY <2>1, FS_EmptySet
<1>7. \A c \in Clients : Counted(c) /\ Placed(c)
  <2>1. \A c \in Clients : RequestsUpTo(c, 0) = {}
    BY <1>3, <1>4 DEF RequestsUpTo, RequestsOf
  <2>2. Cardinality({}) = 0
    BY FS_EmptySet
  <2>3. \A c \in Clients : Len(asked[c]) = 0 /\ Len(received[c]) = 0
    BY <1>3, <1>4
  <2>4. \A c \in Clients :
           read[c] = 0 /\ Cardinality(RequestsUpTo(c, read[c])) = 0
    BY <1>3, <2>1, <2>2
  <2>5. \A c \in Clients : pc[c] \notin Waiting
    BY <1>3 DEF Waiting
  <2> QED
    BY <1>3, <2>3, <2>4, <2>5 DEF Counted, Placed
<1>8. AnswersInOrder /\ ToldAfterTheFact
  BY <1>3, <1>4 DEF AnswersInOrder, ToldAfterTheFact
<1>9. ScanFacts /\ ConnFacts
  BY DEF Init, Scan!Init, Conn!Init, ScanFacts, ConnFacts, Scan!Scans, Conn!Attempts
<1>10. AnswersAreFacts
  BY <1>3 DEF AnswersAreFacts, Fact
<1> QED
  BY <1>5, <1>6, <1>7, <1>8, <1>9, <1>10 DEF CountInv, FactInv

\* Every step keeps the types.
LEMMA NextType == CountInv /\ [Next]_vars => TypeOK'
<1> SUFFICES ASSUME CountInv, [Next]_vars PROVE TypeOK'
  OBVIOUS
<1>0. TypeOK /\ \A c \in Clients : Counted(c) /\ Placed(c)
  BY DEF CountInv
<1>1. Scan!TypeOK' /\ Conn!TypeOK'
  BY <1>0, ScanSteps, ConnSteps, ScanType, ConnType DEF TypeOK
<1>2. socket' \in [Clients -> {"none", "open", "half", "closed"}]
  <2>1. socket \in [Clients -> {"none", "open", "half", "closed"}]
    BY <1>0 DEF TypeOK
  <2>2. ASSUME NEW c \in Clients, Accept(c) \/ Leave(c)
        PROVE  socket' \in [Clients -> {"none", "open", "half", "closed"}]
    BY <2>1, <2>2 DEF Accept, Leave
  <2>3. CASE UNCHANGED socket
    BY <2>1, <2>3
  <2> QED
    BY <2>2, <2>3 DEF Next, Send, SkipBlank, SkipGarbage, ReadFails, ReadEof,
       HandleScan, ScanStarted, HandleGetScanResults, BadPsk, TornPsk, HandleConnect,
       ConnectStarted, HandleDisconnect, DisconnectWait, DisconnectDone,
       HandleGetStatus, SendResponse, SendFails, ScanTask, ConnectTask, Finished,
       client, vars
<1>3. answer' \in [Clients -> Answers]
  <2>1. answer \in [Clients -> Answers]
    BY <1>0 DEF TypeOK
  <2>2. scanState \in Answers /\ connState \in Answers
    BY <1>0 DEF TypeOK, Scan!TypeOK, Conn!TypeOK, Answers
  <2>3. /\ "none" \in Answers /\ "ok" \in Answers /\ "networks" \in Answers
        /\ "scan_in_progress" \in Answers /\ "invalid_state" \in Answers
        /\ "invalid_params" \in Answers /\ "backend_error" \in Answers
    BY DEF Answers
  <2>4. ASSUME NEW c \in Clients, NEW a \in Answers, answer' = [answer EXCEPT ![c] = a]
        PROVE  answer' \in [Clients -> Answers]
    BY <2>1, <2>4
  <2>5. ASSUME NEW c \in Clients,
               \/ HandleScan(c) \/ ScanStarted(c) \/ HandleGetScanResults(c)
               \/ BadPsk(c) \/ HandleConnect(c) \/ ConnectStarted(c)
               \/ DisconnectDone(c) \/ HandleGetStatus(c)
               \/ SendResponse(c) \/ SendFails(c)
        PROVE  UNCHANGED answer \/ \E a \in Answers : answer' = [answer EXCEPT ![c] = a]
    BY <2>2, <2>3, <2>5 DEF HandleScan, ScanStarted, HandleGetScanResults, BadPsk,
       HandleConnect, ConnectStarted, DisconnectDone, HandleGetStatus, SendResponse,
       SendFails, Respond
  <2>6. CASE UNCHANGED answer
    BY <2>1, <2>6
  <2> QED
    BY <2>4, <2>5, <2>6 DEF Next, Accept, Leave, Send, SkipBlank, SkipGarbage,
       ReadFails, ReadEof, TornPsk, HandleDisconnect, DisconnectWait, ScanTask,
       ConnectTask, Finished, handler, vars
<1>4. /\ asked' \in [Clients -> Seq(Kinds)]
      /\ \A c \in Clients : Len(asked'[c]) <= MaxLines
  <2>1. asked \in [Clients -> Seq(Kinds)] /\ \A c \in Clients : Len(asked[c]) <= MaxLines
    BY <1>0 DEF TypeOK
  <2>2. CASE UNCHANGED asked
    BY <2>1, <2>2
  <2>3. ASSUME NEW c \in Clients, Writes(c)
        PROVE  /\ asked' \in [Clients -> Seq(Kinds)]
               /\ \A d \in Clients : Len(asked'[d]) <= MaxLines
    <3>1. PICK k \in Kinds : Room(k) /\ asked' = [asked EXCEPT ![c] = Append(@, k)]
      BY <2>3 DEF Writes
    <3>2. Len(asked[c]) < MaxLines
      BY <1>0, <3>1, RoomIsLeft DEF Room, CountInv
    <3>3. /\ Append(asked[c], k) \in Seq(Kinds)
          /\ Len(Append(asked[c], k)) <= MaxLines
      BY <2>1, <3>2
    <3> QED
      BY <2>1, <3>1, <3>3
  <2> QED
    BY <1>0, <2>2, <2>3, StepsAreMoves DEF Moves, Accepts, TakesRequest, PassesOver,
       GoesOn, Replies, Stops
<1>5. received' \in [Clients -> Seq(Responses)]
  <2>1. received \in [Clients -> Seq(Responses)]
    BY <1>0 DEF TypeOK, Responses
  <2>2. CASE UNCHANGED received
    BY <2>1, <2>2
  <2>3. ASSUME NEW c \in Clients, Replies(c)
        PROVE  received' \in [Clients -> Seq(Responses)]
    <3>1. read[c] \in 1..MaxLines
      <4>1. read[c] \in RequestsOf(c)
        BY <1>0, <2>3 DEF Replies, Counted, Waiting
      <4> QED
        BY <1>0, <4>1, LinesAreSequence DEF RequestsOf
    <3>2. [id |-> read[c], is |-> answer[c]] \in Responses
      BY <1>0, <3>1 DEF Responses, TypeOK
    <3>3. Append(received[c], [id |-> read[c], is |-> answer[c]]) \in Seq(Responses)
      <4> HIDE DEF Responses
      <4> QED
        BY <2>1, <3>2
    <3> HIDE DEF Responses
    <3> QED
      BY <2>1, <2>3, <3>3 DEF Replies
  <2> QED
    BY <1>0, <2>2, <2>3, StepsAreMoves DEF Moves, Accepts, Writes, TakesRequest,
       PassesOver, GoesOn, Stops
<1>6. pc' \in [Clients -> {"none", "reading", "scan started", "connect started",
                           "disconnecting", "responding", "gone"}]
  BY <1>0, StepsAreMoves DEF TypeOK, Moves, Accepts, Writes, TakesRequest, PassesOver,
     GoesOn, Replies, Stops, Goto, Waiting
<1>7. read' \in [Clients -> 0..MaxLines]
  <2>1. read \in [Clients -> 0..MaxLines]
    BY <1>0 DEF TypeOK
  <2>2. CASE UNCHANGED read
    BY <2>1, <2>2
  <2>3. ASSUME NEW c \in Clients, TakesRequest(c) \/ PassesOver(c)
        PROVE  read' \in [Clients -> 0..MaxLines]
    <3>1. read[c] < Len(asked[c]) /\ read' = [read EXCEPT ![c] = @ + 1]
      BY <2>3 DEF TakesRequest, PassesOver, NextLineIs, ReadOn
    <3>2. read[c] + 1 \in 0..MaxLines
      BY <1>0, <2>1, <3>1, LinesAreSequence
    <3> QED
      BY <2>1, <3>1, <3>2
  <2> QED
    BY <1>0, <2>2, <2>3, StepsAreMoves DEF Moves, Accepts, Writes, GoesOn, Replies, Stops
<1> QED
  BY <1>1, <1>2, <1>3, <1>4, <1>5, <1>6, <1>7, Zenon DEF TypeOK, Responses

\* A client's requests stay counted, and its responses in order, while its
\* handler stays where it is.
LEMMA StaysCounted ==
    ASSUME CountInv, NEW c \in Clients, Len(asked'[c]) \in Nat,
           DOMAIN asked'[c] = 1..Len(asked'[c]), Len(asked[c]) <= Len(asked'[c]),
           \A i \in 1..Len(asked[c]) : asked'[c][i] = asked[c][i],
           pc'[c] = pc[c], read'[c] = read[c], received'[c] = received[c]
    PROVE  Counted(c)'
<1>0. TypeOK /\ Counted(c)
  BY DEF CountInv
<1>1. /\ RequestsOf(c) \subseteq RequestsOf(c)'
      /\ \A n \in 0..Len(asked[c]) :
            {i \in RequestsOf(c)' : i <= n} = RequestsUpTo(c, n)
  BY <1>0, LinesStay
<1>2. read[c] \in 0..Len(asked[c]) /\ Len(asked[c]) \in Nat
  <2>1. read[c] \in 0..MaxLines
    BY <1>0 DEF TypeOK
  <2>2. read[c] <= Len(asked[c])
    BY <1>0 DEF Counted
  <2> QED
    BY <1>0, <2>1, <2>2, LinesAreSequence
<1>3. RequestsUpTo(c, read[c])' = RequestsUpTo(c, read[c])
  <2>1. {i \in RequestsOf(c)' : i <= read[c]} = RequestsUpTo(c, read[c])
    BY <1>1, <1>2
  <2> QED
    BY <2>1 DEF RequestsUpTo
<1>4. read'[c] <= Len(asked'[c])
  BY <1>2
<1> QED
  BY <1>0, <1>1, <1>3, <1>4 DEF Counted

\* The responses of client c answer its requests in their order.
Ordered(c) ==
    \A j \in DOMAIN received[c] :
        /\ received[c][j].id \in RequestsOf(c)
        /\ Cardinality({i \in RequestsOf(c) : i < received[c][j].id}) = j - 1

\* Nor do they disturb the answers a client already has.
LEMMA StaysOrdered ==
    ASSUME TypeOK, NEW c \in Clients, Ordered(c), Len(asked'[c]) \in Nat,
           DOMAIN asked'[c] = 1..Len(asked'[c]), Len(asked[c]) <= Len(asked'[c]),
           \A i \in 1..Len(asked[c]) : asked'[c][i] = asked[c][i],
           received'[c] = received[c]
    PROVE  Ordered(c)'
<1>1. /\ RequestsOf(c) \subseteq RequestsOf(c)'
      /\ \A n \in 0..Len(asked[c]) :
            {i \in RequestsOf(c)' : i < n} = {i \in RequestsOf(c) : i < n}
  BY LinesStay
<1>2. RequestsOf(c) \subseteq 0..Len(asked[c])
  BY LinesAreSequence DEF RequestsOf
<1> QED
  BY <1>1, <1>2 DEF Ordered

\* Every step keeps the count: one request more is read, or one answer more is sent.
LEMMA NextCounted == CountInv /\ TypeOK' /\ [Next]_vars => CountInv'
<1> SUFFICES ASSUME CountInv, TypeOK', [Next]_vars PROVE CountInv'
  OBVIOUS
<1>0. TypeOK /\ IsFiniteSet(AllSent) /\ \A c \in Clients : Counted(c) /\ Placed(c)
  BY DEF CountInv
<1>1. \A c \in Clients : Placed(c)'
  BY <1>0, PlacedStays
<1>2. \A c \in Clients : Ordered(c)
  BY DEF CountInv, AnswersInOrder, Ordered
<1>3. ASSUME IsFiniteSet(AllSent'), \A c \in Clients : Counted(c)' /\ Ordered(c)'
      PROVE  CountInv'
  BY <1>1, <1>3 DEF CountInv, AnswersInOrder, Ordered
<1>4. ASSUME UNCHANGED asked PROVE IsFiniteSet(AllSent')
  BY <1>0, <1>4 DEF AllSent
<1>5. ASSUME NEW d \in Clients, asked'[d] = asked[d], received'[d] = received[d]
      PROVE  Ordered(d)'
  BY <1>0, <1>2, <1>5, LinesAreSequence, StaysOrdered
<1>6. ASSUME NEW d \in Clients, asked'[d] = asked[d], pc'[d] = pc[d],
             read'[d] = read[d], received'[d] = received[d]
      PROVE  Counted(d)'
  BY <1>0, <1>6, LinesAreSequence, StaysCounted
<1>7. CASE UNCHANGED <<asked, received, pc, read>>
  BY <1>3, <1>4, <1>5, <1>6, <1>7
<1>8. ASSUME NEW c \in Clients, Moves(c), UNCHANGED asked, Counted(c)',
             \A d \in Clients : d # c => pc'[d] = pc[d] /\ read'[d] = read[d]
                                         /\ received'[d] = received[d],
             Ordered(c)'
      PROVE  CountInv'
  BY <1>3, <1>4, <1>5, <1>6, <1>8
<1>9. ASSUME NEW c \in Clients, Moves(c) PROVE CountInv'
  <2>0. /\ pc \in [Clients -> {"none", "reading", "scan started", "connect started",
                               "disconnecting", "responding", "gone"}]
        /\ read \in [Clients -> 0..MaxLines]
    BY <1>0 DEF TypeOK
  <2>1. Len(asked[c]) \in Nat /\ read[c] \in Nat
    <3>1. Len(asked[c]) \in Nat
      BY <1>0, LinesAreSequence
    <3>2. read[c] \in 0..MaxLines
      BY <2>0
    <3> QED
      BY <3>1, <3>2
  <2>2. CASE Accepts(c)
    <3>1. /\ UNCHANGED <<asked, received, read>> /\ pc[c] = "none"
          /\ pc' = [pc EXCEPT ![c] = "reading"]
      BY <2>2 DEF Accepts, Goto
    <3>2. Counted(c)'
      <4>1. pc'[c] = "reading" /\ "reading" \notin Waiting
        BY <2>0, <3>1 DEF Waiting
      <4>2. RequestsUpTo(c, read[c])' = RequestsUpTo(c, read[c])
        BY <3>1 DEF RequestsUpTo, RequestsOf
      <4> QED
        BY <1>0, <3>1, <4>1, <4>2 DEF Counted
    <3>3. \A d \in Clients : d # c => pc'[d] = pc[d]
      BY <2>0, <3>1
    <3> QED
      BY <1>5, <1>8, <1>9, <3>1, <3>2, <3>3
  <2>3. CASE Writes(c)
    <3>1. PICK k \in Kinds : asked' = [asked EXCEPT ![c] = Append(@, k)]
      BY <2>3 DEF Writes
    <3>2. UNCHANGED <<received, pc, read>>
      BY <2>3 DEF Writes
    <3>3. IsFiniteSet(AllSent')
      BY <1>0, <3>1, SentStaysFinite
    <3>4. ASSUME NEW d \in Clients
          PROVE  /\ Len(asked'[d]) \in Nat /\ DOMAIN asked'[d] = 1..Len(asked'[d])
                 /\ Len(asked[d]) <= Len(asked'[d])
                 /\ \A i \in 1..Len(asked[d]) : asked'[d][i] = asked[d][i]
      <4>1. asked[d] \in Seq(Kinds) /\ Len(asked[d]) \in Nat
            /\ DOMAIN asked[d] = 1..Len(asked[d])
        BY <1>0, LinesAreSequence
      <4>2. asked'[d] = asked[d] \/ asked'[d] = Append(asked[d], k)
        BY <1>0, <3>1 DEF TypeOK
      <4>3. CASE asked'[d] = asked[d]
        BY <4>1, <4>3
      <4>4. CASE asked'[d] = Append(asked[d], k)
        <5>1. /\ Append(asked[d], k) \in Seq(Kinds)
              /\ Len(Append(asked[d], k)) = Len(asked[d]) + 1
              /\ \A i \in 1..Len(asked[d]) : Append(asked[d], k)[i] = asked[d][i]
          BY <4>1, AppendProperties
        <5>2. DOMAIN Append(asked[d], k) = 1..Len(Append(asked[d], k))
          BY <5>1, LenProperties
        <5> QED
          BY <4>1, <4>4, <5>1, <5>2
      <4> QED
        BY <4>2, <4>3, <4>4
    <3>5. \A d \in Clients : Counted(d)'
      BY <3>2, <3>4, StaysCounted
    <3>6. \A d \in Clients : Ordered(d)'
      BY <1>0, <1>2, <3>2, <3>4, StaysOrdered
    <3> QED
      BY <1>3, <3>3, <3>5, <3>6
  <2>4. CASE TakesRequest(c)
    <3>1. PICK k \in Requests : NextLineIs(c, k)
      BY <2>4 DEF TakesRequest
    <3>2. PICK l \in Waiting \cup {"gone"} : pc' = [pc EXCEPT ![c] = l]
      BY <2>4 DEF TakesRequest, Goto
    <3>3. /\ UNCHANGED <<asked, received>> /\ pc[c] = "reading"
          /\ read' = [read EXCEPT ![c] = @ + 1] /\ read[c] < Len(asked[c])
      BY <2>4 DEF TakesRequest, ReadOn, NextLineIs
    <3>4. /\ pc'[c] \in Waiting \cup {"gone"} /\ read'[c] = read[c] + 1
          /\ \A d \in Clients : d # c => pc'[d] = pc[d] /\ read'[d] = read[d]
      BY <2>0, <3>2, <3>3
    <3>5. Counted(c)'
      <4>1. /\ read[c] + 1 \in RequestsOf(c)
            /\ Cardinality(RequestsUpTo(c, read[c] + 1))
                 = Cardinality(RequestsUpTo(c, read[c])) + 1
        BY <1>0, <3>1, NextIsCounted
      <4>2. Cardinality(RequestsUpTo(c, read[c])) = Len(received[c])
        BY <1>0, <3>3 DEF Counted
      <4>3. /\ RequestsUpTo(c, read[c])' = RequestsUpTo(c, read[c] + 1)
            /\ RequestsOf(c)' = RequestsOf(c)
        BY <3>3, <3>4 DEF RequestsUpTo, RequestsOf
      <4>4. read'[c] <= Len(asked'[c])
        BY <2>1, <3>3, <3>4
      <4>5. pc'[c] \notin {"none", "reading"}
        BY <3>4 DEF Waiting
      <4> QED
        BY <3>3, <3>4, <4>1, <4>2, <4>3, <4>4, <4>5 DEF Counted
    <3> QED
      BY <1>5, <1>8, <1>9, <3>3, <3>4, <3>5
  <2>5. CASE PassesOver(c)
    <3>1. PICK k \in Lines \ Requests : NextLineIs(c, k)
      BY <2>5 DEF PassesOver
    <3>2. /\ UNCHANGED <<asked, received, pc>> /\ pc[c] = "reading"
          /\ read' = [read EXCEPT ![c] = @ + 1] /\ read[c] < Len(asked[c])
      BY <2>5 DEF PassesOver, ReadOn, NextLineIs
    <3>3. /\ read'[c] = read[c] + 1
          /\ \A d \in Clients : d # c => read'[d] = read[d]
      BY <2>0, <3>2
    <3>4. Counted(c)'
      <4>1. RequestsUpTo(c, read[c] + 1) = RequestsUpTo(c, read[c])
        BY <1>0, <3>1, NextIsCounted
      <4>2. Cardinality(RequestsUpTo(c, read[c])) = Len(received[c])
        BY <1>0, <3>2 DEF Counted
      <4>3. RequestsUpTo(c, read[c])' = RequestsUpTo(c, read[c] + 1)
        BY <3>2, <3>3 DEF RequestsUpTo, RequestsOf
      <4>4. read'[c] <= Len(asked'[c])
        BY <2>1, <3>2, <3>3
      <4>5. pc'[c] \notin Waiting
        BY <3>2 DEF Waiting
      <4> QED
        BY <3>2, <4>1, <4>2, <4>3, <4>4, <4>5 DEF Counted
    <3> QED
      BY <1>5, <1>8, <1>9, <3>2, <3>3, <3>4
  <2>6. CASE GoesOn(c)
    <3>1. /\ UNCHANGED <<asked, received, read>> /\ pc[c] \in Waiting
          /\ pc' = [pc EXCEPT ![c] = "responding"]
      BY <2>6 DEF GoesOn, Goto
    <3>2. Counted(c)'
      <4>1. pc'[c] = "responding"
        BY <2>0, <3>1
      <4>2. /\ RequestsUpTo(c, read[c])' = RequestsUpTo(c, read[c])
            /\ RequestsOf(c)' = RequestsOf(c)
        BY <3>1 DEF RequestsUpTo, RequestsOf
      <4> QED
        BY <1>0, <3>1, <4>1, <4>2 DEF Counted
    <3>3. \A d \in Clients : d # c => pc'[d] = pc[d]
      BY <2>0, <3>1
    <3> QED
      BY <1>5, <1>8, <1>9, <3>1, <3>2, <3>3
  <2>7. CASE Replies(c)
    <3> DEFINE e == [id |-> read[c], is |-> answer[c]]
    <3>1. /\ UNCHANGED <<asked, read>> /\ pc[c] = "responding"
          /\ pc' = [pc EXCEPT ![c] = "reading"]
          /\ received' = [received EXCEPT ![c] = Append(@, e)]
      BY <2>7 DEF Replies, Goto
    <3>2. /\ read[c] \in RequestsOf(c)
          /\ Cardinality(RequestsUpTo(c, read[c])) = Len(received[c]) + 1
      BY <1>0, <3>1 DEF Counted, Waiting
    <3>3. /\ received[c] \in Seq(Responses) /\ e \in Responses
      <4>1. read[c] \in 1..MaxLines
        BY <1>0, <3>2, LinesAreSequence DEF RequestsOf
      <4> QED
        BY <1>0, <4>1 DEF TypeOK, Responses
    <3>4. \A d \in Clients : d # c => pc'[d] = pc[d] /\ received'[d] = received[d]
      BY <1>0, <2>0, <3>1 DEF TypeOK
    <3>5. pc'[c] = "reading" /\ received'[c] = Append(received[c], e)
      BY <1>0, <2>0, <3>1 DEF TypeOK
    <3> HIDE DEF Responses, e
    <3>6. /\ Append(received[c], e) \in Seq(Responses)
          /\ Len(Append(received[c], e)) = Len(received[c]) + 1
          /\ Append(received[c], e)[Len(received[c]) + 1] = e
          /\ \A j \in 1..Len(received[c]) : Append(received[c], e)[j] = received[c][j]
      BY <3>3, AppendProperties
    <3>7. Counted(c)'
      <4>1. RequestsUpTo(c, read[c])' = RequestsUpTo(c, read[c])
        BY <3>1 DEF RequestsUpTo, RequestsOf
      <4>2. "reading" \notin Waiting
        BY DEF Waiting
      <4>3. read'[c] <= Len(asked'[c])
        BY <1>0, <3>1 DEF Counted
      <4> QED
        BY <3>1, <3>2, <3>5, <3>6, <4>1, <4>2, <4>3 DEF Counted
    <3>8. Ordered(c)'
      <4>1. Cardinality({i \in RequestsOf(c) : i < read[c]}) = Len(received[c])
        <5>1. Cardinality({i \in RequestsOf(c) : i < read[c]})
                = Cardinality(RequestsUpTo(c, read[c])) - 1
          BY <1>0, <3>2, BeforeIsOneLess
        <5>2. Len(received[c]) \in Nat
          BY <3>3
        <5> QED
          BY <3>2, <5>1, <5>2
      <4>2. RequestsOf(c)' = RequestsOf(c)
        BY <3>1 DEF RequestsOf
      <4>3. DOMAIN received[c] = 1..Len(received[c]) /\ Len(received[c]) \in Nat
            /\ DOMAIN Append(received[c], e) = 1..(Len(received[c]) + 1)
        BY <3>3, <3>6, LenProperties
      <4> SUFFICES ASSUME NEW j \in 1..(Len(received[c]) + 1)
                   PROVE  /\ received'[c][j].id \in RequestsOf(c)
                          /\ Cardinality({i \in RequestsOf(c) : i < received'[c][j].id})
                               = j - 1
        BY <3>5, <4>2, <4>3 DEF Ordered
      <4>4. CASE j = Len(received[c]) + 1
        <5>1. received'[c][j].id = read[c]
          BY <3>5, <3>6, <4>4 DEF e
        <5> QED
          BY <3>2, <4>1, <4>3, <4>4, <5>1
      <4>5. CASE j # Len(received[c]) + 1
        <5>1. j \in DOMAIN received[c] /\ received'[c][j] = received[c][j]
          BY <3>5, <3>6, <4>3, <4>5
        <5> QED
          BY <1>2, <5>1 DEF Ordered
      <4> QED
        BY <4>4, <4>5
    <3> QED
      BY <1>8, <1>9, <3>1, <3>4, <3>7, <3>8
  <2>8. CASE Stops(c)
    <3>1. UNCHANGED <<asked, received, read>> /\ pc' = [pc EXCEPT ![c] = "gone"]
      BY <2>8 DEF Stops, Goto
    <3>2. Counted(c)'
      <4>1. pc'[c] = "gone" /\ "gone" \notin Waiting
        BY <2>0, <3>1 DEF Waiting
      <4> QED
        BY <1>0, <3>1, <4>1 DEF Counted
    <3>3. \A d \in Clients : d # c => pc'[d] = pc[d]
      BY <2>0, <3>1
    <3> QED
      BY <1>5, <1>8, <1>9, <3>1, <3>2, <3>3
  <2> QED
    BY <1>9, <2>2, <2>3, <2>4, <2>5, <2>6, <2>7, <2>8 DEF Moves
<1> QED
  BY <1>0, <1>7, <1>9, StepsAreMoves

\* What a handler is about to answer is a fact, or the error it is: it takes
\* what it says from the services as they are at that step.
LEMMA NextAnswers ==
    ASSUME TypeOK, ScanFacts, ConnFacts, AnswersAreFacts, [Next]_vars
    PROVE  \A d \in Clients : Fact(answer'[d])
<1>0. answer \in [Clients -> Answers] /\ \A d \in Clients : Fact(answer[d])
  BY DEF TypeOK, AnswersAreFacts
<1>1. CASE UNCHANGED answer
  BY <1>0, <1>1
<1>2. ASSUME NEW c \in Clients, NEW a, Fact(a), answer' = [answer EXCEPT ![c] = a]
      PROVE  \A d \in Clients : Fact(answer'[d])
  BY <1>0, <1>2
<1>3. /\ Fact("none") /\ Fact("ok") /\ Fact("scan_in_progress")
      /\ Fact("invalid_state") /\ Fact("invalid_params") /\ Fact("backend_error")
      /\ scanResults # 0 => Fact("networks")
  BY DEF Fact, ScanFacts
<1>4. Fact(scanState)
  <2>1. scanState \in {"Idle", "Scanning", "Finished", "Error"}
    BY DEF TypeOK, Scan!TypeOK, Scan!ScanStates
  <2> QED
    BY <2>1 DEF Fact, ScanFacts
<1>5. Fact(connState)
  <2>1. connState \in {"Idle", "Connecting", "Connected", "Failed"}
    BY DEF TypeOK, Conn!TypeOK, Conn!ConnectionStates
  <2> QED
    BY <2>1 DEF Fact, ConnFacts
<1>6. ASSUME NEW c \in Clients,
             \/ HandleScan(c) \/ ScanStarted(c) \/ HandleGetScanResults(c)
             \/ BadPsk(c) \/ HandleConnect(c) \/ ConnectStarted(c)
             \/ DisconnectDone(c) \/ HandleGetStatus(c)
             \/ SendResponse(c) \/ SendFails(c)
      PROVE  UNCHANGED answer \/ \E a : Fact(a) /\ answer' = [answer EXCEPT ![c] = a]
  BY <1>3, <1>4, <1>5, <1>6, Zenon DEF HandleScan, ScanStarted,
     HandleGetScanResults, BadPsk, HandleConnect, ConnectStarted, DisconnectDone,
     HandleGetStatus, SendResponse, SendFails, Respond
<1> QED
  BY <1>1, <1>2, <1>6 DEF Next, Accept, Leave, Send, SkipBlank, SkipGarbage,
     ReadFails, ReadEof, TornPsk, HandleDisconnect, DisconnectWait, ScanTask,
     ConnectTask, Finished, handler, vars

\* Every step keeps the facts, and what a client was told of them.
LEMMA NextFacts == CountInv /\ FactInv /\ TypeOK' /\ [Next]_vars => FactInv'
<1> SUFFICES ASSUME CountInv, FactInv, TypeOK', [Next]_vars PROVE FactInv'
  OBVIOUS
<1>0. /\ TypeOK /\ ScanFacts /\ ConnFacts /\ AnswersAreFacts /\ ToldAfterTheFact
      /\ \A c \in Clients : Placed(c)
  BY DEF FactInv, CountInv
<1>1. /\ ScanFacts' /\ ConnFacts'
      /\ ScanPublished => ScanPublished'
      /\ AttemptPublished => AttemptPublished'
      /\ StatusPublished => StatusPublished'
  BY <1>0, FactsStay
<1>2. AnswersAreFacts'
  <2>1. \A d \in Clients : Fact(answer'[d])
    BY <1>0, NextAnswers
  <2> QED
    BY <1>1, <2>1 DEF AnswersAreFacts, Fact
<1>3. \A d \in Clients : \A j \in DOMAIN received'[d] : Fact(received'[d][j].is)
  <2>1. \A d \in Clients : \A j \in DOMAIN received[d] : Fact(received[d][j].is)
    BY <1>0 DEF ToldAfterTheFact, Fact, ScanPublished, AttemptPublished, StatusPublished
  <2>2. CASE UNCHANGED received
    BY <2>1, <2>2
  <2>3. ASSUME NEW c \in Clients, Replies(c), NEW d \in Clients,
               NEW j \in DOMAIN received'[d]
        PROVE  Fact(received'[d][j].is)
    <3> DEFINE e == [id |-> read[c], is |-> answer[c]]
    <3>1. received' = [received EXCEPT ![c] = Append(@, e)]
      BY <2>3 DEF Replies
    <3>2. /\ received[c] \in Seq(Responses)
          /\ received'[c] \in Seq(Responses) /\ received'[c] = Append(received[c], e)
          /\ d # c => received'[d] = received[d]
      BY <1>0, <3>1 DEF TypeOK, Responses
    <3>3. Fact(e.is)
      BY <1>0, <2>3 DEF AnswersAreFacts
    <3> HIDE DEF Responses, e
    <3>4. /\ Len(received[c]) \in Nat /\ DOMAIN received[c] = 1..Len(received[c])
          /\ DOMAIN received'[c] = 1..Len(received'[c])
          /\ Len(received'[c]) = Len(received[c]) + 1
          /\ received'[c][Len(received[c]) + 1] = e
          /\ \A i \in 1..Len(received[c]) : received'[c][i] = received[c][i]
      <4>1. e \in Responses
        <5>1. read[c] \in RequestsOf(c)
          BY <2>3 DEF CountInv, Counted, Replies, Waiting
        <5>2. read[c] \in 1..MaxLines
          BY <1>0, <5>1, LinesAreSequence DEF RequestsOf
        <5> QED
          BY <1>0, <5>2 DEF TypeOK, Responses, e
      <4> QED
        BY <3>2, <4>1, AppendProperties, LenProperties
    <3>5. CASE d # c
      BY <2>1, <2>3, <3>2, <3>5
    <3>6. CASE d = c /\ j = Len(received[c]) + 1
      BY <3>3, <3>4, <3>6
    <3>7. CASE d = c /\ j # Len(received[c]) + 1
      <4>1. j \in DOMAIN received[c] /\ received'[c][j] = received[c][j]
        BY <2>3, <3>4, <3>7
      <4> QED
        BY <2>1, <3>7, <4>1
    <3> QED
      BY <3>5, <3>6, <3>7
  <2> QED
    BY <1>0, <2>2, <2>3, StepsAreMoves DEF Moves, Accepts, Writes, TakesRequest,
       PassesOver, GoesOn, Stops
<1>4. ToldAfterTheFact'
  BY <1>1, <1>3 DEF ToldAfterTheFact, Fact, ScanPublished, AttemptPublished,
     StatusPublished
<1> QED
  BY <1>1, <1>2, <1>4 DEF FactInv

-----------------------------------------------------------------------------
(* The theorems                                                             *)

\* The invariant behind the order of the responses: a handler has answered as
\* many requests as there are among the lines it has read.
THEOREM RequestsAreCounted == Spec => []CountInv
BY InitInvs, NextType, NextCounted, PTL DEF Spec

\* Type correctness: every step leaves every variable in its type.
THEOREM TypeCorrect == Spec => []TypeOK
<1>1. CountInv => TypeOK
  BY DEF CountInv
<1> QED
  BY <1>1, RequestsAreCounted, PTL

\* For any clients and any lines, blank, unparsable or refused: a client that
\* sends without waiting may match responses to its requests by counting.
THEOREM AnswersComeInOrder == Spec => []AnswersInOrder
<1>1. CountInv => AnswersInOrder
  BY DEF CountInv
<1> QED
  BY <1>1, RequestsAreCounted, PTL

\* For any clients: none is told of an outcome before a task has published one,
\* though the state it is shown is read after its request was handled.
THEOREM ToldOnlyFacts == Spec => []ToldAfterTheFact
<1>1. FactInv => ToldAfterTheFact
  BY DEF FactInv
<1> QED
  BY <1>1, InitInvs, NextFacts, RequestsAreCounted, TypeCorrect, PTL DEF Spec
=============================================================================
