------------------------------ MODULE ScanProofs ------------------------------
(***************************************************************************)
(* Proofs about the scanning service, for any set of callers and any       *)
(* number of scans and resets, and about its scans over wpa_supplicant,    *)
(* for any lists of the radio and any lines in them.                       *)
(***************************************************************************)
EXTENDS WpactrlScan, WellFoundedInduction, TLAPS

-----------------------------------------------------------------------------
(* The scanning service, over any backend                                   *)

\* Tasks are numbered in the order their calls were accepted, and a task has
\* left "unborn" exactly when its call was accepted.
TasksAreNumbered == \A t \in Scans : task[t] = "unborn" <=> t > scans

\* No caller holds a ticket for a scan that was not accepted.
TicketsAreIssued == \A c \in Callers : ticket[c] <= scans

\* The inductive invariant.
IInv ==
    /\ TypeOK
    /\ TasksAreNumbered
    /\ TicketsAreIssued
    /\ ScanningHasTask
    /\ SingleFlight
    /\ OutcomeIsLatest
    /\ FreshForCaller

-----------------------------------------------------------------------------
\* Type correctness: every step leaves every variable in its type.
THEOREM TypeCorrect == Spec => []TypeOK
<1> USE ScanAssumption DEF ScanAssumption
<1>1. Init => TypeOK
  BY DEF Init, TypeOK, Scans, ScanStates, TaskStates, Replies
<1>2. TypeOK /\ [Next]_vars => TypeOK'
  <2> SUFFICES ASSUME TypeOK, [Next]_vars
               PROVE  TypeOK'
    OBVIOUS
  <2> USE DEF TypeOK, Scans, ScanStates, TaskStates, Replies
  <2>1. ASSUME NEW c \in Callers, StartScan(c)
        PROVE  TypeOK'
    BY <2>1 DEF StartScan, MachineStart, history
  <2>2. ASSUME NEW c \in Callers, RefuseScan(c)
        PROVE  TypeOK'
    BY <2>2 DEF RefuseScan, machine, history
  <2>3. ASSUME NEW c \in Callers, ReadResults(c)
        PROVE  TypeOK'
    BY <2>3 DEF ReadResults, machine, history
  <2>4. ASSUME NEW t \in Scans, BackendScan(t)
        PROVE  TypeOK'
    BY <2>4 DEF BackendScan, machine, callerVars, history
  <2>5. ASSUME NEW t \in Scans, CompleteScan(t)
        PROVE  TypeOK'
    BY <2>5 DEF CompleteScan, MachineComplete, callerVars, history
  <2>6. ASSUME NEW t \in Scans, FailScan(t)
        PROVE  TypeOK'
    BY <2>6 DEF FailScan, MachineFail, callerVars, history
  <2>7. CASE Reset
    <3>1. strays' \in SUBSET Scans
      BY <2>7 DEF Reset, InFlight
    <3> QED
      BY <2>7, <3>1 DEF Reset, MachineReset, callerVars
  <2>8. CASE UNCHANGED vars
    BY <2>8 DEF vars, machine, callerVars, history
  <2> QED
    BY <2>1, <2>2, <2>3, <2>4, <2>5, <2>6, <2>7, <2>8 DEF Next
<1> QED
  BY <1>1, <1>2, PTL DEF Spec

-----------------------------------------------------------------------------
\* The invariant behind every safety property of the service: it is kept by
\* each action, so it holds in every reachable state.
THEOREM Inductive == Spec => []IInv
<1> USE ScanAssumption DEF ScanAssumption
<1>1. Init => IInv
  BY DEF Init, IInv, TypeOK, TasksAreNumbered, TicketsAreIssued, ScanningHasTask,
         SingleFlight, OutcomeIsLatest, FreshForCaller, InFlight,
         Scans, ScanStates, TaskStates, Replies
<1>2. IInv /\ TypeOK' /\ [Next]_vars => IInv'
  <2> SUFFICES ASSUME IInv, TypeOK', [Next]_vars
               PROVE  IInv'
    OBVIOUS
  <2> USE DEF IInv, TypeOK, Scans, ScanStates, TaskStates, Replies,
              TasksAreNumbered, TicketsAreIssued, ScanningHasTask, SingleFlight,
              OutcomeIsLatest, FreshForCaller, InFlight
  <2>1. ASSUME NEW c \in Callers, StartScan(c)
        PROVE  IInv'
    <3> USE <2>1 DEF StartScan, CanStart, MachineStart, history
    <3>1. TasksAreNumbered' /\ TicketsAreIssued' /\ OutcomeIsLatest'
      OBVIOUS
    <3>2. ScanningHasTask'
      OBVIOUS
    <3>3. SingleFlight'
      OBVIOUS
    <3>4. FreshForCaller'
      OBVIOUS
    <3> QED
      BY <3>1, <3>2, <3>3, <3>4
  <2>2. ASSUME NEW c \in Callers, RefuseScan(c)
        PROVE  IInv'
    BY <2>2 DEF RefuseScan, machine, history
  <2>3. ASSUME NEW c \in Callers, ReadResults(c)
        PROVE  IInv'
    BY <2>3 DEF ReadResults, machine, history
  <2>4. ASSUME NEW t \in Scans, BackendScan(t)
        PROVE  IInv'
    BY <2>4 DEF BackendScan, machine, callerVars, history
  <2>5. ASSUME NEW t \in Scans, CompleteScan(t)
        PROVE  IInv'
    BY <2>5 DEF CompleteScan, MachineComplete, callerVars, history
  <2>6. ASSUME NEW t \in Scans, FailScan(t)
        PROVE  IInv'
    <3> USE <2>6 DEF FailScan, MachineFail, callerVars, history
    <3>1. t <= scans /\ (strays = {} => t = scans)
      OBVIOUS
    <3>2. TasksAreNumbered' /\ TicketsAreIssued' /\ FreshForCaller'
      OBVIOUS
    <3>3. ScanningHasTask' /\ OutcomeIsLatest'
      BY <3>1
    <3>4. SingleFlight'
      BY <3>1
    <3> QED
      BY <3>2, <3>3, <3>4
  <2>7. CASE Reset
    BY <2>7 DEF Reset, MachineReset, callerVars
  <2>8. CASE UNCHANGED vars
    BY <2>8 DEF vars, machine, callerVars, history
  <2> QED
    BY <2>1, <2>2, <2>3, <2>4, <2>5, <2>6, <2>7, <2>8 DEF Next
<1> QED
  BY <1>1, <1>2, TypeCorrect, PTL DEF Spec

-----------------------------------------------------------------------------
\* Unless a reset met a running scan, at most one scan is in flight, and it is
\* the last one accepted.
THEOREM OneScanAtATime == Spec => []SingleFlight
<1>1. IInv => SingleFlight
  BY DEF IInv
<1> QED
  BY <1>1, Inductive, PTL

\* The state machine never shows Scanning without a task that will publish.
THEOREM NoDeadEnd == Spec => []ScanningHasTask
<1>1. IInv => ScanningHasTask
  BY DEF IInv
<1> QED
  BY <1>1, Inductive, PTL

\* What is on display agrees with the state and comes from the latest scan.
THEOREM LatestOutcome == Spec => []OutcomeIsLatest
<1>1. IInv => OutcomeIsLatest
  BY DEF IInv
<1> QED
  BY <1>1, Inductive, PTL

\* No caller reads networks older than the scan it was told it had started.
THEOREM FreshResults == Spec => []FreshForCaller
<1>1. IInv => FreshForCaller
  BY DEF IInv
<1> QED
  BY <1>1, Inductive, PTL

\* Only a new scan or a reset removes what is on display.
THEOREM StableOutcome == Spec => OutcomeIsStable
<1>1. IInv /\ [Next]_vars =>
        [(scanState \in {"Finished", "Error"} /\ scans' = scans
            /\ resets' = resets /\ strays = {}) => UNCHANGED machine]_vars
  <2> SUFFICES ASSUME IInv, [Next]_vars, scanState \in {"Finished", "Error"},
                      scans' = scans, resets' = resets, strays = {}
               PROVE  UNCHANGED machine
    OBVIOUS
  <2> USE ScanAssumption DEF ScanAssumption, IInv, TypeOK
  <2>1. ~ \E c \in Callers : StartScan(c)
    BY DEF StartScan
  <2>2. ~ \E t \in Scans : CompleteScan(t) \/ FailScan(t)
    BY DEF CompleteScan, FailScan, SingleFlight, InFlight, Scans
  <2>3. ~ Reset
    BY DEF Reset
  <2>4. CASE \E c \in Callers : RefuseScan(c) \/ ReadResults(c)
    BY <2>4 DEF RefuseScan, ReadResults
  <2>5. CASE \E t \in Scans : BackendScan(t)
    BY <2>5 DEF BackendScan
  <2>6. CASE UNCHANGED vars
    BY <2>6 DEF vars
  <2> QED
    BY <2>1, <2>2, <2>3, <2>4, <2>5, <2>6 DEF Next
<1> QED
  BY <1>1, Inductive, PTL DEF Spec, OutcomeIsStable

-----------------------------------------------------------------------------
\* The service does for any number of callers, scans and resets what
\* AsyncOperation promises: every step of it is a step of the promise, or none.
THEOREM KeepsPromise == Spec => ImplementsPromise
<1> USE ScanAssumption DEF ScanAssumption
<1>1. Init => Promise!Init
  BY DEF Init, Promise!Init, InFlight
<1>2. IInv /\ TypeOK' /\ [Next]_vars => [Promise!Next]_(Promise!vars)
  <2> SUFFICES ASSUME IInv, TypeOK', [Next]_vars
               PROVE  Promise!Next \/ UNCHANGED Promise!vars
    OBVIOUS
  <2> USE DEF IInv, TypeOK, ScanStates, OutcomeIsLatest, Promise!vars
  <2>1. ASSUME NEW c \in Callers, StartScan(c)
        PROVE  Promise!Start
    <3>1. InFlight' = InFlight \cup {scans + 1}
      BY <2>1 DEF StartScan, InFlight, Scans
    <3> QED
      BY <2>1, <3>1 DEF StartScan, CanStart, MachineStart, Promise!Start
  <2>2. ASSUME NEW t \in Scans, CompleteScan(t)
        PROVE  t \in InFlight /\ Promise!Settle(t)
    <3>1. t \in InFlight /\ InFlight' = InFlight \ {t}
      BY <2>2 DEF CompleteScan, InFlight
    <3>2. t # 0
      BY DEF Scans
    <3> QED
      BY <2>2, <3>1, <3>2 DEF CompleteScan, MachineComplete, Promise!Settle
  <2>3. ASSUME NEW t \in Scans, FailScan(t)
        PROVE  t \in InFlight /\ Promise!Settle(t)
    <3>1. t \in InFlight /\ InFlight' = InFlight \ {t}
      BY <2>3 DEF FailScan, InFlight
    <3> QED
      BY <2>3, <3>1 DEF FailScan, MachineFail, Promise!Settle
  <2>4. CASE Reset
    <3>1. InFlight' = InFlight
      BY <2>4 DEF Reset, InFlight
    <3>2. Promise!Withdraw
      BY <2>4, <3>1 DEF Reset, MachineReset, Promise!Withdraw
    <3> QED
      BY <3>2 DEF Promise!Next
  <2>5. CASE \E c \in Callers : RefuseScan(c) \/ ReadResults(c)
    BY <2>5 DEF RefuseScan, ReadResults, machine, InFlight
  <2>6. ASSUME NEW t \in Scans, BackendScan(t)
        PROVE  UNCHANGED Promise!vars
    <3>1. InFlight' = InFlight
      BY <2>6 DEF BackendScan, InFlight
    <3> QED
      BY <2>6, <3>1 DEF BackendScan, machine
  <2>7. CASE UNCHANGED vars
    BY <2>7 DEF vars, machine, InFlight
  <2> QED
    BY <2>1, <2>2, <2>3, <2>4, <2>5, <2>6, <2>7 DEF Next, Promise!Next
<1> QED
  BY <1>1, <1>2, Inductive, TypeCorrect, PTL DEF Spec, ImplementsPromise, Promise!Spec

-----------------------------------------------------------------------------
(* The backend: the tasks and the lists of the radio                        *)

\* No time runs backwards: the list a task took, or a caller started from, is
\* not newer than the one held, and later tasks were asked for later.
ListsAreOrdered ==
    /\ \A t \in Scans : asked[t] <= held
    /\ \A s, t \in Scans : s <= t /\ t <= scans => asked[s] <= asked[t]

\* The radio was done in time for task t, and so its list is newer.
Prompt(t) == t \in sought \ late

\* What a task that is not late knows when it wakes, and what it took.
WokeOnTime ==
    \A t \in Scans : step[t] = "awake" /\ Prompt(t) => held > asked[t]
TookNewer ==
    \A t \in Scans :
        t = scanResults \/ task[t] = "ok" \/ (\E c \in Callers : got[c] = t)
            => step[t] = "awake" /\ (Prompt(t) => taken[t] > asked[t])

\* A task seeks the radio before it sleeps, and is of an accepted scan.
InOrder ==
    /\ \A t \in Scans : step[t] = "trigger" => t \notin sought
    /\ \A t \in Scans : step[t] # "trigger" => t <= scans

BackendInv ==
    /\ BackendTypeOK
    /\ TasksAreNumbered
    /\ ListsAreOrdered
    /\ WokeOnTime
    /\ TookNewer
    /\ InOrder

-----------------------------------------------------------------------------
\* Every step of the composition is a step of the scanning service or leaves
\* it alone: what is proved of the service holds over this backend.
THEOREM ServiceUnchanged == BackendSpec => Spec
<1>1. BackendInit => Init
  BY DEF BackendInit
<1>2. [BackendNext]_allVars => [Next]_vars
  <2> SUFFICES ASSUME [BackendNext]_allVars
               PROVE  Next \/ UNCHANGED vars
    OBVIOUS
  <2>1. ASSUME NEW c \in Callers, Request(c)
        PROVE  Next
    BY <2>1 DEF Request, Next
  <2>2. CASE Service
    BY <2>2 DEF Service, Next
  <2>3. ASSUME NEW t \in Scans, TriggerFails(t) \/ Collect(t) \/ CollectFails(t)
        PROVE  Next
    BY <2>3 DEF TriggerFails, Collect, CollectFails, Next
  <2>4. ASSUME NEW t \in Scans, Trigger(t) \/ Wake(t)
        PROVE  UNCHANGED vars
    BY <2>4 DEF Trigger, Wake
  <2>5. CASE RadioStarts \/ RadioDone
    BY <2>5 DEF RadioStarts, RadioDone
  <2>6. CASE UNCHANGED allVars
    BY <2>6 DEF allVars
  <2> QED
    BY <2>1, <2>2, <2>3, <2>4, <2>5, <2>6 DEF BackendNext
<1> QED
  BY <1>1, <1>2, PTL DEF BackendSpec, Spec

-----------------------------------------------------------------------------
\* The invariant that relates the tasks to the lists of the radio.
THEOREM BackendInductive == BackendSpec => []BackendInv
<1> USE ScanAssumption DEF ScanAssumption
<1>0. MaxLists \in Nat
  BY WpactrlScanAssumption DEF WpactrlScanAssumption
<1>1. BackendInit => BackendInv
  <2> SUFFICES ASSUME BackendInit
               PROVE  BackendInv
    OBVIOUS
  <2> USE DEF BackendInit, Init
  <2>1. TypeOK /\ TasksAreNumbered
    BY DEF TypeOK, TasksAreNumbered, Scans, ScanStates, TaskStates, Replies
  <2>2. BackendTypeOK
    <3>1. 0 \in 0..MaxLists /\ held = 0
      BY <1>0
    <3> QED
      BY <2>1, <3>1, Zenon DEF BackendTypeOK
  <2>3. ListsAreOrdered
    BY DEF ListsAreOrdered
  <2>4. WokeOnTime /\ InOrder
    BY DEF WokeOnTime, InOrder
  <2>5. TookNewer
    BY DEF TookNewer, Scans
  <2> QED
    BY <2>1, <2>2, <2>3, <2>4, <2>5 DEF BackendInv
<1>2. BackendInv /\ TypeOK' /\ [BackendNext]_allVars => BackendInv'
  <2> SUFFICES ASSUME BackendInv, TypeOK', [BackendNext]_allVars
               PROVE  BackendInv'
    OBVIOUS
  <2> USE <1>0 DEF BackendInv, BackendTypeOK, TasksAreNumbered, ListsAreOrdered,
              WokeOnTime, TookNewer, InOrder, Prompt, TypeOK, Scans, TaskStates
  <2>1. ASSUME NEW c \in Callers, Request(c)
        PROVE  BackendInv'
    <3> USE <2>1 DEF Request, StartScan, MachineStart, supplicant, backend, history
    <3>1. BackendTypeOK'
      OBVIOUS
    <3>2. TasksAreNumbered' /\ InOrder'
      OBVIOUS
    <3>3. ListsAreOrdered'
      OBVIOUS
    <3>4. step[scans + 1] = "trigger"
      BY DEF InOrder
    <3>5. WokeOnTime'
      BY <3>4
    <3>6. TookNewer'
      BY <3>4
    <3> QED
      BY <3>1, <3>2, <3>3, <3>5, <3>6
  <2>2. CASE Service
    <3> USE DEF backendVars, supplicant, backend, asking
    <3>1. ASSUME NEW c \in Callers, RefuseScan(c), UNCHANGED backendVars
          PROVE  BackendInv'
      BY <3>1 DEF RefuseScan, machine, history
    <3>2. ASSUME NEW c \in Callers, ReadResults(c), UNCHANGED backendVars
          PROVE  BackendInv'
      <4> USE <3>2 DEF ReadResults, machine, history
      <4>1. BackendTypeOK' /\ TasksAreNumbered' /\ ListsAreOrdered' /\ WokeOnTime'
              /\ InOrder'
        OBVIOUS
      <4>2. \A d \in Callers : got'[d] \in {got[d], scanResults}
        OBVIOUS
      <4>3. TookNewer'
        BY <4>2
      <4> QED
        BY <4>1, <4>3
    <3>3. ASSUME NEW t \in Scans, CompleteScan(t), UNCHANGED backendVars
          PROVE  BackendInv'
      BY <3>3 DEF CompleteScan, MachineComplete, callerVars, history
    <3>4. ASSUME NEW t \in Scans, FailScan(t), UNCHANGED backendVars
          PROVE  BackendInv'
      <4> USE <3>4 DEF FailScan, MachineFail, callerVars, history
      <4>1. BackendTypeOK' /\ ListsAreOrdered' /\ WokeOnTime' /\ InOrder'
        OBVIOUS
      <4>2. TasksAreNumbered'
        OBVIOUS
      <4>3. TookNewer'
        OBVIOUS
      <4> QED
        BY <4>1, <4>2, <4>3
    <3>5. ASSUME Reset, UNCHANGED backendVars
          PROVE  BackendInv'
      BY <3>5 DEF Reset, MachineReset, callerVars
    <3> QED
      BY <2>2, <3>1, <3>2, <3>3, <3>4, <3>5 DEF Service
  <2> USE DEF supplicant, backend, asking, BackendScan, machine, callerVars,
              history
  <2>3. ASSUME NEW t \in Scans, TriggerFails(t)
        PROVE  BackendInv'
    BY <2>3 DEF TriggerFails
  <2>4. ASSUME NEW t \in Scans, Trigger(t)
        PROVE  BackendInv'
    <3> USE <2>4 DEF Trigger, Goto, vars
    <3>1. BackendTypeOK' /\ TasksAreNumbered'
      OBVIOUS
    <3>2. ListsAreOrdered'
      OBVIOUS
    <3>3. WokeOnTime'
      OBVIOUS
    <3>4. TookNewer'
      OBVIOUS
    <3>5. InOrder'
      <4>1. t <= scans
        OBVIOUS
      <4>2. \A s \in Scans : s # t =>
              /\ step'[s] = step[s]
              /\ s \in sought' <=> s \in sought
        OBVIOUS
      <4>3. step'[t] = "asleep"
        OBVIOUS
      <4> QED
        BY <4>1, <4>2, <4>3
    <3> QED
      BY <3>1, <3>2, <3>3, <3>4, <3>5
  <2>5. ASSUME NEW t \in Scans, Wake(t)
        PROVE  BackendInv'
    <3> USE <2>5 DEF Wake, Goto, vars
    <3>1. BackendTypeOK' /\ TasksAreNumbered'
      OBVIOUS
    <3>2. ListsAreOrdered'
      OBVIOUS
    <3>3. WokeOnTime'
      OBVIOUS
    <3>4. TookNewer'
      OBVIOUS
    <3>5. InOrder'
      OBVIOUS
    <3> QED
      BY <3>1, <3>2, <3>3, <3>4, <3>5
  <2>6. ASSUME NEW t \in Scans, Collect(t)
        PROVE  BackendInv'
    BY <2>6 DEF Collect
  <2>7. ASSUME NEW t \in Scans, CollectFails(t)
        PROVE  BackendInv'
    BY <2>7 DEF CollectFails
  <2>8. CASE RadioStarts
    BY <2>8 DEF RadioStarts, vars
  <2>9. CASE RadioDone
    <3>1. radio' = FALSE /\ held < MaxLists /\ held' = held + 1
      BY <2>9, Zenon DEF RadioDone
    <3>0. UNCHANGED <<vars, backend, asking>>
      BY <2>9, Zenon DEF RadioDone
    <3> USE <3>0, <3>1 DEF vars
    <3>2. BackendTypeOK'
      <4>1. held' \in 0..MaxLists
        OBVIOUS
      <4>2. radio' \in BOOLEAN
        BY <3>1, Zenon
      <4> QED
        BY <4>1, <4>2, Zenon
    <3>3. TasksAreNumbered' /\ InOrder'
      OBVIOUS
    <3>4. ListsAreOrdered' /\ WokeOnTime'
      OBVIOUS
    <3>5. TookNewer'
      OBVIOUS
    <3> QED
      BY <3>2, <3>3, <3>4, <3>5
  <2>10. CASE UNCHANGED allVars
    BY <2>10 DEF allVars, backendVars, vars
  <2> QED
    BY <2>1, <2>2, <2>3, <2>4, <2>5, <2>6, <2>7, <2>8, <2>9, <2>10
       DEF BackendNext
<1> QED
  BY <1>1, <1>2, TypeCorrect, ServiceUnchanged, PTL DEF BackendSpec

\* Type correctness of the composition.
THEOREM BackendTypeCorrect == BackendSpec => []BackendTypeOK
<1>1. BackendInv => BackendTypeOK
  BY DEF BackendInv
<1> QED
  BY <1>1, BackendInductive, PTL

-----------------------------------------------------------------------------
\* A caller never holds networks older than its request, if the radio scanned
\* for the task they come from and was done before the three seconds were over.
THEOREM PromptScansAreFresh == BackendSpec => []FreshForCallerIfPrompt
<1>1. BackendInv /\ IInv => FreshForCallerIfPrompt
  <2> SUFFICES ASSUME BackendInv, IInv, NEW c \in Callers,
                      reply[c] = "Results", ticket[c] # 0,
                      strays = {}, got[c] \in sought \ late
               PROVE  taken[got[c]] > asked[ticket[c]]
    BY DEF FreshForCallerIfPrompt
  <2> USE DEF BackendInv, BackendTypeOK, IInv, TypeOK
  <2>1. got[c] \in Scans /\ ticket[c] \in Scans
    BY ScanAssumption DEF ScanAssumption, Scans
  <2>2. ticket[c] <= got[c]
    BY DEF FreshForCaller
  <2>3. step[got[c]] = "awake" /\ taken[got[c]] > asked[got[c]]
    BY <2>1 DEF TookNewer, Prompt
  <2>4. got[c] <= scans
    BY <2>1, <2>3 DEF InOrder
  <2>5. asked[ticket[c]] <= asked[got[c]]
    BY <2>1, <2>2, <2>4 DEF ListsAreOrdered
  <2>6. /\ asked[ticket[c]] \in Nat /\ asked[got[c]] \in Nat
        /\ taken[got[c]] \in Nat
    BY <2>1, WpactrlScanAssumption DEF WpactrlScanAssumption
  <2> QED
    BY <2>3, <2>5, <2>6
<1> QED
  BY <1>1, BackendInductive, Inductive, ServiceUnchanged, PTL

-----------------------------------------------------------------------------
\* No frequency is given the channel of another: what frequency_to_channel
\* returns for any number is 0 or the channel with that centre frequency.
THEOREM ChannelIsRight ==
    ASSUME NEW f \in Int, ChannelOf(f) # 0
    PROVE  CentreFrequency(ChannelOf(f)) = f
<1>1. PICK p \in ChannelTable : p[1] = f
  BY DEF ChannelOf
<1>2. (CHOOSE q \in ChannelTable : q[1] = f) \in ChannelTable
      /\ (CHOOSE q \in ChannelTable : q[1] = f)[1] = f
  BY <1>1
<1>3. \A q \in ChannelTable : CentreFrequency(q[2]) = q[1]
  BY DEF ChannelTable, CentreFrequency
<1> QED
  BY <1>1, <1>2, <1>3 DEF ChannelOf

\* The whole 2.4 GHz band is known: none of its channels is shown as 0.
LEMMA BandIsKnown ==
    ASSUME NEW k \in 1..14
    PROVE  /\ 0 <= CentreFrequency(k) /\ CentreFrequency(k) <= 65535
           /\ ChannelOf(CentreFrequency(k)) # 0
<1>1. /\ 0 <= CentreFrequency(k) /\ CentreFrequency(k) <= 65535
      /\ <<CentreFrequency(k), k>> \in ChannelTable
  <2>1. CASE k = 14
    BY <2>1 DEF ChannelTable, CentreFrequency
  <2>2. CASE k # 14
    <3>1. CentreFrequency(k) = 2407 + 5 * k
      BY <2>2 DEF CentreFrequency
    <3>2. k \in {1, 2, 3, 4, 5, 6, 7, 8, 9, 10, 11, 12, 13}
      BY <2>2
    <3> QED
      BY <3>1, <3>2 DEF ChannelTable
  <2> QED
    BY <2>1, <2>2
<1>2. ASSUME NEW f, <<f, k>> \in ChannelTable PROVE ChannelOf(f) # 0
  <2>1. \A q \in ChannelTable : q[2] # 0
    BY DEF ChannelTable
  <2>2. \E p \in ChannelTable : p[1] = f
    BY <1>2
  <2>3. (CHOOSE q \in ChannelTable : q[1] = f) \in ChannelTable
    BY <2>2
  <2> QED
    BY <2>1, <2>2, <2>3 DEF ChannelOf
<1> QED
  BY <1>1, <1>2

-----------------------------------------------------------------------------
(* The parser, for every list of lines                                      *)

\* Induction up to n, from the least number that is not in S.
LEMMA InductionUpTo ==
    ASSUME NEW n \in Nat, NEW S,
           0 \in S, \A k \in 0..n : k # 0 /\ k - 1 \in S => k \in S
    PROVE  0..n \subseteq S
<1> DEFINE T == (0..n) \ S
<1>1. SUFFICES ASSUME T # {} PROVE FALSE
  OBVIOUS
<1>2. T \subseteq Nat
  OBVIOUS
<1>3. PICK k \in T : \A j \in T : ~ (<<j, k>> \in OpToRel(<, Nat))
  <2> HIDE DEF T
  <2> QED
    BY <1>1, <1>2, WFMin, NatLessThanWellFounded, Zenon
<1>4. \A j \in T : ~ (j < k)
  BY <1>2, <1>3 DEF OpToRel
<1>5. k # 0 /\ k - 1 \in 0..n
  BY <1>2
<1> QED
  BY <1>4, <1>5

\* One turn of the loop, and a function that makes the first n of them.
Turn(lines, before, i) ==
    IF HasColumns(lines[i]) THEN Append(before, Network(lines[i])) ELSE before
Turns(lines, n, f) ==
    f = [i \in 0..n |-> IF i = 0 THEN <<>> ELSE Turn(lines, f[i - 1], i)]

\* The loop runs: there is such a function for every number of lines.
LEMMA LoopRuns ==
    ASSUME NEW lines, NEW n \in Nat
    PROVE  \E f : Turns(lines, n, f)
<1> DEFINE S == {m \in 0..n : \E f : Turns(lines, m, f)}
<1>1. 0 \in S
  <2>1. Turns(lines, 0, [i \in 0..0 |-> <<>>])
    BY DEF Turns
  <2> QED
    BY <2>1
<1>2. ASSUME NEW k \in 0..n, k # 0, k - 1 \in S
      PROVE  k \in S
  <2>1. PICK f : Turns(lines, k - 1, f)
    BY <1>2
  <2> DEFINE g == [i \in 0..k |-> IF i = k THEN Turn(lines, f[k - 1], k) ELSE f[i]]
  <2>2. \A i \in 0..(k - 1) :
           f[i] = IF i = 0 THEN <<>> ELSE Turn(lines, f[i - 1], i)
    BY <2>1 DEF Turns
  <2>3. \A i \in 0..k : g[i] = IF i = 0 THEN <<>> ELSE Turn(lines, g[i - 1], i)
    <3> SUFFICES ASSUME NEW i \in 0..k
                 PROVE  g[i] = IF i = 0 THEN <<>> ELSE Turn(lines, g[i - 1], i)
      OBVIOUS
    <3>1. CASE i = k
      <4>1. g[i - 1] = f[k - 1]
        BY <1>2, <3>1
      <4> QED
        BY <1>2, <3>1, <4>1
    <3>2. CASE i = 0
      BY <1>2, <2>2, <3>2
    <3>3. CASE i # k /\ i # 0
      <4>1. i \in 0..(k - 1) /\ g[i] = f[i] /\ g[i - 1] = f[i - 1]
        BY <3>3
      <4> QED
        BY <2>2, <3>3, <4>1
    <3> QED
      BY <3>1, <3>2, <3>3
  <2>4. Turns(lines, k, g)
    <3>1. g = [i \in 0..k |-> g[i]]
      OBVIOUS
    <3> HIDE DEF g
    <3> QED
      BY <2>3, <3>1, Zenon DEF Turns
  <2> QED
    BY <2>4
<1> HIDE DEF S
<1>3. 0..n \subseteq S
  BY <1>1, <1>2, InductionUpTo
<1> QED
  BY <1>3 DEF S

\* Hence the networks after each turn are what the loop says.
LEMMA LoopIs ==
    ASSUME NEW lines, Len(lines) \in Nat
    PROVE  \A i \in 0..Len(lines) :
             ParsedUpTo(lines)[i] =
               IF i = 0 THEN <<>> ELSE Turn(lines, ParsedUpTo(lines)[i - 1], i)
<1>1. ParsedUpTo(lines) = CHOOSE f : Turns(lines, Len(lines), f)
  BY DEF ParsedUpTo, Turns, Turn
<1>2. Turns(lines, Len(lines), ParsedUpTo(lines))
  BY <1>1, LoopRuns
<1> QED
  BY <1>2, Zenon DEF Turns

\* The networks r are those of the lines among the first n that have enough
\* columns, each once and in their order: place[i] is the line of the i-th.
KeepsLines(lines, n, r) ==
    /\ r \in Seq({Network(line) : line \in Line})
    /\ \E place \in [1..Len(r) -> 1..n] :
          /\ \A i \in 1..Len(r) : r[i] = Network(lines[place[i]])
          /\ \A i, k \in 1..Len(r) : i < k => place[i] < place[k]
          /\ \A j \in 1..n :
                lines[j].columns >= 5 <=> \E i \in 1..Len(r) : place[i] = j

\* One turn keeps the line it is at, or passes over it.
LEMMA TurnKeepsLines ==
    ASSUME NEW lines \in Seq(Line), NEW k \in 1..Len(lines), NEW r,
           KeepsLines(lines, k - 1, r)
    PROVE  KeepsLines(lines, k, Turn(lines, r, k))
<1> DEFINE N == {Network(line) : line \in Line}
           e == Network(lines[k])
<1>1. r \in Seq(N) /\ Len(r) \in Nat
  BY DEF KeepsLines
<1>2. PICK place \in [1..Len(r) -> 1..(k - 1)] :
         /\ \A i \in 1..Len(r) : r[i] = Network(lines[place[i]])
         /\ \A i, m \in 1..Len(r) : i < m => place[i] < place[m]
         /\ \A j \in 1..(k - 1) :
               lines[j].columns >= 5 <=> \E i \in 1..Len(r) : place[i] = j
  BY DEF KeepsLines
<1>3. \A i \in 1..Len(r) : place[i] \in 1..k /\ place[i] < k
  BY <1>2
<1>4. CASE ~ HasColumns(lines[k])
  <2>1. Turn(lines, r, k) = r /\ ~ (lines[k].columns >= 5)
    BY <1>4 DEF Turn, HasColumns
  <2>2. place \in [1..Len(r) -> 1..k]
    BY <1>2, <1>3
  <2>3. \A j \in 1..k :
           lines[j].columns >= 5 <=> \E i \in 1..Len(r) : place[i] = j
    BY <1>2, <1>3, <2>1
  <2>4. \A i \in 1..Len(r) : r[i] = Network(lines[place[i]])
    BY <1>2
  <2>5. \A i, m \in 1..Len(r) : i < m => place[i] < place[m]
    BY <1>2
  <2>6. r \in Seq({Network(line) : line \in Line})
    BY <1>1
  <2>7. KeepsLines(lines, k, r)
    BY <2>2, <2>3, <2>4, <2>5, <2>6 DEF KeepsLines
  <2> QED
    BY <2>1, <2>7
<1>5. CASE HasColumns(lines[k])
  <2> DEFINE s == Append(r, e)
             at == [i \in 1..Len(s) |-> IF i = Len(s) THEN k ELSE place[i]]
  <2>1. Turn(lines, r, k) = s /\ lines[k].columns >= 5
    BY <1>5 DEF Turn, HasColumns
  <2>2. lines[k] \in Line /\ e \in N
    OBVIOUS
  <2>3. /\ s \in Seq(N) /\ Len(s) = Len(r) + 1 /\ s[Len(s)] = e
        /\ \A i \in 1..Len(r) : s[i] = r[i]
    <3> HIDE DEF N, e
    <3> QED
      BY <1>1, <2>2
  <2> HIDE DEF N, e, s
  <2>4. /\ at[Len(s)] = k
        /\ \A i \in 1..Len(s) : i # Len(s) => i \in 1..Len(r) /\ at[i] = place[i]
    BY <1>1, <2>3
  <2>5. at \in [1..Len(s) -> 1..k]
    BY <1>1, <1>3, <2>3, <2>4
  <2> HIDE DEF at
  <2>6. \A i \in 1..Len(s) : s[i] = Network(lines[at[i]])
    BY <1>2, <2>3, <2>4 DEF e
  <2>7. \A i, m \in 1..Len(s) : i < m => at[i] < at[m]
    BY <1>1, <1>2, <1>3, <2>3, <2>4
  <2>8. \A j \in 1..k :
           lines[j].columns >= 5 <=> \E i \in 1..Len(s) : at[i] = j
    <3>1. ASSUME NEW j \in 1..(k - 1)
          PROVE  lines[j].columns >= 5 <=> \E i \in 1..Len(s) : at[i] = j
      <4>1. \A i \in 1..Len(r) : i \in 1..Len(s) /\ at[i] = place[i]
        BY <1>1, <2>3, <2>4
      <4>2. at[Len(s)] # j
        BY <2>4
      <4> QED
        BY <1>2, <2>4, <4>1, <4>2
    <3>2. Len(s) \in 1..Len(s) /\ at[Len(s)] = k
      BY <1>1, <2>3, <2>4
    <3> QED
      BY <2>1, <3>1, <3>2
  <2> QED
    BY <2>1, <2>3, <2>5, <2>6, <2>7, <2>8 DEF KeepsLines, N
<1> QED
  BY <1>4, <1>5

\* What parse_scan_results returns, for every list of lines: the networks of all
\* lines with enough columns, each once, in the order of the list.
THEOREM ParserKeepsLines ==
    ASSUME NEW lines \in Seq(Line)
    PROVE  KeepsLines(lines, Len(lines), parse_scan_results(lines))
<1> DEFINE n == Len(lines)
           S == {k \in 0..n : KeepsLines(lines, k, ParsedUpTo(lines)[k])}
<1>1. n \in Nat
  OBVIOUS
<1>2. \A k \in 0..n : ParsedUpTo(lines)[k] =
         IF k = 0 THEN <<>> ELSE Turn(lines, ParsedUpTo(lines)[k - 1], k)
  BY <1>1, LoopIs
<1>3. 0 \in S
  <2>1. KeepsLines(lines, 0, <<>>)
    <3>1. <<>> \in Seq({Network(line) : line \in Line}) /\ Len(<<>>) = 0
      <4> DEFINE N == {Network(line) : line \in Line}
      <4>1. <<>> \in Seq(N) /\ Len(<<>>) = 0
        <5> HIDE DEF N
        <5> QED
          OBVIOUS
      <4> QED
        BY <4>1
    <3>2. [i \in 1..0 |-> i] \in [1..0 -> 1..0] /\ 1..0 = {}
      OBVIOUS
    <3> QED
      BY <3>1, <3>2, Zenon DEF KeepsLines
  <2> QED
    BY <1>1, <1>2, <2>1
<1>4. ASSUME NEW k \in 0..n, k # 0, k - 1 \in S
      PROVE  k \in S
  <2>1. KeepsLines(lines, k, Turn(lines, ParsedUpTo(lines)[k - 1], k))
    BY <1>4, TurnKeepsLines
  <2> QED
    BY <1>2, <1>4, <2>1
<1>5. 0..n \subseteq S
  <2> HIDE DEF S, n
  <2> QED
    BY <1>1, <1>3, <1>4, InductionUpTo
<1> QED
  BY <1>1, <1>5 DEF parse_scan_results

-----------------------------------------------------------------------------
\* The networks on display are those of the list that was taken.
THEOREM NetworksAreThoseOfTheList == BackendSpec => []NetworksMatchTheList
<1>1. BackendTypeOK => NetworksMatchTheList
  <2> SUFFICES ASSUME BackendTypeOK, scanResults # 0
               PROVE  NetworksMatchTheList
    BY DEF NetworksMatchTheList
  <2> DEFINE list == Lists[taken[scanResults]]
             networks == parse_scan_results(list)
  <2>1. list \in Seq(Line)
    <3>1. scanResults \in Scans
      BY ScanAssumption DEF ScanAssumption, BackendTypeOK, TypeOK, Scans
    <3>2. taken[scanResults] \in 0..MaxLists
      BY <3>1 DEF BackendTypeOK
    <3> QED
      BY <3>2, WpactrlScanAssumption DEF WpactrlScanAssumption
  <2> HIDE DEF list
  <2>2. \A j \in 1..Len(list) :
           list[j].columns >= 5 => From(Network(list[j]), list[j])
    <3> SUFFICES ASSUME NEW j \in 1..Len(list), list[j].columns >= 5
                 PROVE  From(Network(list[j]), list[j])
      OBVIOUS
    <3> DEFINE f == list[j].frequency
    <3>0. list[j] \in Line
      BY <2>1
    <3>1. f \in Int
      BY <3>0 DEF Line
    <3> HIDE DEF f
    <3>2. ChannelOf(0) = 0
      BY DEF ChannelOf, ChannelTable
    <3>3. Network(list[j]).channel = ChannelOf(ParsedU16(f))
      BY DEF Network, f
    <3>4. ParsedU16(f) \in {0, f}
      BY DEF ParsedU16
    <3>5. ChannelOf(f) # 0 => CentreFrequency(ChannelOf(f)) = f
      BY <3>1, ChannelIsRight
    <3>6. ASSUME NEW k \in 1..14, CentreFrequency(k) = f
          PROVE  ChannelOf(ParsedU16(f)) # 0
      <4>1. 0 <= f /\ f <= 65535 /\ ChannelOf(f) # 0
        BY <3>6, BandIsKnown
      <4> QED
        BY <4>1 DEF ParsedU16
    <3>7. /\ Network(list[j]).mac = list[j].mac /\ Network(list[j]).ssid = list[j].ssid
          /\ Network(list[j]).rssi = ParsedI16(list[j].level)
      BY DEF Network
    <3>8. /\ Network(list[j]).channel # 0 =>
                CentreFrequency(Network(list[j]).channel) = f
          /\ Network(list[j]).channel = 0 => \A k \in 1..14 : CentreFrequency(k) # f
      BY <3>2, <3>3, <3>4, <3>5, <3>6
    <3> QED
      BY <3>7, <3>8 DEF From, ParsedI16, f
  <2>3. KeepsLines(list, Len(list), networks)
    BY <2>1, ParserKeepsLines
  <2> HIDE DEF networks
  <2>4. PICK place \in [1..Len(networks) -> 1..Len(list)] :
           /\ \A i \in 1..Len(networks) : networks[i] = Network(list[place[i]])
           /\ \A j \in 1..Len(list) :
                 list[j].columns >= 5 <=> \E i \in 1..Len(networks) : place[i] = j
    BY <2>3 DEF KeepsLines
  <2>5. DOMAIN list = 1..Len(list) /\ DOMAIN networks = 1..Len(networks)
    BY <2>1, <2>3 DEF KeepsLines
  <2>6. \A i \in DOMAIN networks : \E j \in DOMAIN list : From(networks[i], list[j])
    BY <2>2, <2>4, <2>5
  <2>7. \A j \in DOMAIN list : list[j].columns >= 5 =>
           \E i \in DOMAIN networks : From(networks[i], list[j])
    BY <2>2, <2>4, <2>5
  <2> QED
    BY <2>6, <2>7, Zenon DEF NetworksMatchTheList, Networks, networks, list
<1> QED
  BY <1>1, BackendTypeCorrect, PTL
=============================================================================
