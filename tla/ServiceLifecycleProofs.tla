------------------------ MODULE ServiceLifecycleProofs ------------------------
(***************************************************************************)
(* The safety of ServiceLifecycle, for any number of programs at one path, *)
(* any options and any number of faults.                                   *)
(***************************************************************************)
EXTENDS ServiceLifecycle, TLAPS

USE LifecycleAssumption DEF LifecycleAssumption

-----------------------------------------------------------------------------
(* Types                                                                    *)

\* What the options of a program are.
LEMMA ConfigType ==
  ASSUME config \in Deployments, NEW i \in Programs
  PROVE  /\ config[i].installed \in BOOLEAN /\ config[i].ble \in BOOLEAN
         /\ config[i].secret \in BOOLEAN /\ config[i].unix \in BOOLEAN
         /\ config[i].activated \in BOOLEAN
<1>1. config \in [Programs -> Options]
  OBVIOUS
<1>2. config[i] \in Options
  BY <1>1
<1> QED
  BY <1>2 DEF Options

\* The end of the tasks keeps the types of what it touches.
LEMMA TasksGoneType ==
  ASSUME TypeOK, NEW i \in Programs, TasksGone(i)
  PROVE  /\ unixTask' \in [Programs -> UnixTasks]
         /\ bleTask' \in [Programs -> {"none", "subscribing", "running", "ended"}]
         /\ bleStep' \in [Programs -> 0..LastBleStep]
         /\ published' \in [Programs -> BOOLEAN]
         /\ file' \in Programs \cup {"none", "dead"}
         /\ client' \in [Programs -> {"away", "queued", "served"}]
<1> USE DEF TypeOK, TasksGone
<1>1. unixTask' \in [Programs -> UnixTasks]
  BY DEF UnixTasks
<1>2. bleTask' \in [Programs -> {"none", "subscribing", "running", "ended"}]
  OBVIOUS
<1>3. bleStep' \in [Programs -> 0..LastBleStep]
  BY DEF LastBleStep
<1>4. published' \in [Programs -> BOOLEAN]
  OBVIOUS
<1>5. file' \in Programs \cup {"none", "dead"}
  OBVIOUS
<1>6. client' \in [Programs -> {"away", "queued", "served"}]
  OBVIOUS
<1> QED
  BY <1>1, <1>2, <1>3, <1>4, <1>5, <1>6

LEMMA DownType ==
  ASSUME TypeOK, NEW i \in Programs, NEW how \in {"success", "failure"},
         Down(i, how), UNCHANGED config, faults' \in 0..MaxFaults
  PROVE  TypeOK'
<1>1. /\ unixTask' \in [Programs -> UnixTasks]
      /\ bleTask' \in [Programs -> {"none", "subscribing", "running", "ended"}]
      /\ bleStep' \in [Programs -> 0..LastBleStep]
      /\ published' \in [Programs -> BOOLEAN]
      /\ file' \in Programs \cup {"none", "dead"}
      /\ client' \in [Programs -> {"away", "queued", "served"}]
  BY TasksGoneType DEF Down
<1>2. phase' \in [Programs -> Phases]
  BY DEF Down, TypeOK, Phases
<1>3. status' \in [Programs -> {"none", "success", "failure"}]
  BY DEF Down, TypeOK
<1>4. pending' \in [Programs -> BOOLEAN] /\ blocking' \in [Programs -> BOOLEAN]
  BY DEF Down, TypeOK
<1> QED
  BY <1>1, <1>2, <1>3, <1>4 DEF TypeOK

LEMMA StopType ==
  ASSUME TypeOK, NEW i \in Programs, Stop(i)
  PROVE  TypeOK'
<1>1. /\ unixTask' \in [Programs -> UnixTasks]
      /\ bleTask' \in [Programs -> {"none", "subscribing", "running", "ended"}]
      /\ bleStep' \in [Programs -> 0..LastBleStep]
      /\ published' \in [Programs -> BOOLEAN]
      /\ file' \in Programs \cup {"none", "dead"}
      /\ client' \in [Programs -> {"away", "queued", "served"}]
  BY TasksGoneType DEF Stop
<1>2. phase' \in [Programs -> Phases]
  BY DEF Stop, Goto, TypeOK, Phases
<1> QED
  BY <1>1, <1>2 DEF Stop, TypeOK

LEMMA InitType == Init => TypeOK
<1> SUFFICES ASSUME Init PROVE TypeOK
  OBVIOUS
<1> USE DEF Init
<1>1. phase \in [Programs -> Phases] /\ unixTask \in [Programs -> UnixTasks]
  BY DEF Phases, UnixTasks
<1>2. bleStep \in [Programs -> 0..LastBleStep] /\ faults \in 0..MaxFaults
  BY DEF LastBleStep
<1>3. /\ pending \in [Programs -> BOOLEAN] /\ published \in [Programs -> BOOLEAN]
      /\ blocking \in [Programs -> BOOLEAN]
  OBVIOUS
<1> QED
  BY <1>1, <1>2, <1>3 DEF TypeOK

LEMMA NextType == TypeOK /\ [Next]_vars => TypeOK'
<1> SUFFICES ASSUME TypeOK, [Next]_vars PROVE TypeOK'
  OBVIOUS
<1> USE DEF mains, transports, others
<1>0. ASSUME Fault PROVE faults' \in 0..MaxFaults
  BY <1>0 DEF TypeOK, Fault
<1>1. ASSUME NEW i \in Programs, Start(i) PROVE TypeOK'
  BY <1>1 DEF Start, Goto, TypeOK, Phases
<1>2. ASSUME NEW i \in Programs, RefuseOptions(i) PROVE TypeOK'
  BY <1>2, DownType DEF RefuseOptions, TypeOK
<1>3. ASSUME NEW i \in Programs, SpawnUnix(i) PROVE TypeOK'
  <2>1. phase' \in [Programs -> Phases]
    BY <1>3 DEF SpawnUnix, Goto, TypeOK, Phases
  <2>2. unixTask' \in [Programs -> UnixTasks]
    BY <1>3 DEF SpawnUnix, TypeOK, UnixTasks
  <2> QED
    BY <1>3, <2>1, <2>2 DEF SpawnUnix, TypeOK
<1>4. ASSUME NEW i \in Programs, BleFails(i) PROVE TypeOK'
  <2>1. CASE BleFailureIsFatal(i)
    BY <1>4, <2>1, DownType DEF BleFails, TypeOK
  <2>2. CASE ~BleFailureIsFatal(i)
    BY <1>4, <2>2 DEF BleFails, Goto, TypeOK, Phases
  <2> QED
    BY <2>1, <2>2
<1>5. ASSUME NEW i \in Programs, BleAnswers(i) PROVE TypeOK'
  <2>1. bleStep' \in [Programs -> 0..LastBleStep]
    BY <1>5 DEF BleAnswers, TypeOK, LastBleStep
  <2>2. published' \in [Programs -> BOOLEAN]
    BY <1>5 DEF BleAnswers, TypeOK
  <2> QED
    BY <1>5, <2>1, <2>2 DEF BleAnswers, TypeOK
<1>6. ASSUME NEW i \in Programs, BleStarted(i) PROVE TypeOK'
  <2>1. phase' \in [Programs -> Phases]
    BY <1>6 DEF BleStarted, Goto, TypeOK, Phases
  <2>2. published' \in [Programs -> BOOLEAN]
    BY <1>6 DEF BleStarted, TypeOK
  <2> QED
    BY <1>6, <2>1, <2>2 DEF BleStarted, TypeOK
<1>7. ASSUME NEW i \in Programs, SignalArrives(i) \/ AllTasksCompleted(i) PROVE TypeOK'
  BY <1>7, StopType DEF SignalArrives, AllTasksCompleted
<1>8. ASSUME NEW i \in Programs, Exit(i) PROVE TypeOK'
  BY <1>8, DownType DEF Exit, TypeOK
<1>9. ASSUME NEW i \in Programs, TakeListener(i) PROVE TypeOK'
  <2>1. unixTask' \in [Programs -> UnixTasks]
    BY <1>9 DEF TakeListener, GoUnix, TypeOK, UnixTasks
  <2> QED
    BY <1>9, <2>1 DEF TakeListener, TypeOK
<1>10. ASSUME NEW i \in Programs, RemoveFile(i) PROVE TypeOK'
  <2>1. unixTask' \in [Programs -> UnixTasks]
    BY <1>10 DEF RemoveFile, GoUnix, TypeOK, UnixTasks
  <2> QED
    BY <1>10, <2>1 DEF RemoveFile, TypeOK
<1>11. ASSUME NEW i \in Programs, Bind(i) PROVE TypeOK'
  <2>1. unixTask' \in [Programs -> UnixTasks]
    BY <1>11 DEF Bind, GoUnix, TypeOK, UnixTasks
  <2> QED
    BY <1>11, <2>1 DEF Bind, TypeOK
<1>12. ASSUME NEW i \in Programs, ListenerFails(i) PROVE TypeOK'
  <2>1. unixTask' \in [Programs -> UnixTasks]
    BY <1>12 DEF ListenerFails, GoUnix, TypeOK, UnixTasks
  <2> QED
    BY <1>0, <1>12, <2>1 DEF ListenerFails, TypeOK
<1>13. ASSUME NEW i \in Programs, Accept(i) \/ ClientConnects(i) \/ ClientLeaves(i)
       PROVE TypeOK'
  BY <1>13 DEF Accept, ClientConnects, ClientLeaves, TypeOK
<1>14. ASSUME NEW i \in Programs, EventLoop(i) PROVE TypeOK'
  BY <1>14 DEF EventLoop, TypeOK
<1>15. ASSUME NEW i \in Programs, BackendWorks(i) \/ BackendReturns(i) PROVE TypeOK'
  <2>1. blocking' \in [Programs -> BOOLEAN]
    BY <1>15 DEF BackendWorks, BackendReturns, TypeOK
  <2> QED
    BY <1>15, <2>1 DEF BackendWorks, BackendReturns, TypeOK
<1>16. ASSUME NEW i \in Programs, Signal(i) PROVE TypeOK'
  <2>1. CASE HandlesSignals(i)
    <3>1. pending' \in [Programs -> BOOLEAN]
      BY <1>16, <2>1 DEF Signal, TypeOK
    <3> QED
      BY <1>0, <1>16, <2>1, <3>1 DEF Signal, TypeOK
  <2>2. CASE ~HandlesSignals(i)
    BY <1>0, <1>16, <2>2, DownType DEF Signal, TypeOK
  <2> QED
    BY <2>1, <2>2
<1>17. ASSUME NEW i \in Programs, Crash(i) PROVE TypeOK'
  BY <1>0, <1>17, DownType DEF Crash
<1>18. CASE UNCHANGED vars
  BY <1>18 DEF vars, TypeOK
<1> QED
  BY <1>1, <1>2, <1>3, <1>4, <1>5, <1>6, <1>7, <1>8, <1>9, <1>10, <1>11, <1>12,
     <1>13, <1>14, <1>15, <1>16, <1>17, <1>18 DEF Next, Main, Tasks, Rest

-----------------------------------------------------------------------------
(* The invariant                                                            *)

Standalone(i) == config[i].unix /\ ~config[i].activated

\* A task of the socket is one that was asked for, of a process that is past
\* its options and not on its way out.
Placed ==
    \A i \in Programs :
        /\ unixTask[i] # "none" => config[i].unix /\ phase[i] \in {"ble", "select"}
        /\ unixTask[i] \in {"remove", "bind", "bound"} => Standalone(i)

\* The socket at the path is that of a program which listens.
Owned == \A i \in Programs : file = i => unixTask[i] = "bound"

\* Before main waits it has spawned what it could.
Spawned ==
    \A i \in Programs :
        /\ phase[i] \in {"ble", "select"} => config[i].ble \/ config[i].unix
        /\ phase[i] \in {"ble", "select"} /\ config[i].unix => unixTask[i] # "none"
        /\ phase[i] = "select" /\ ~config[i].unix => bleTask[i] # "none"

\* Nothing has gone wrong.
NoSignals ==
    \A i \in Programs : ~pending[i] /\ (unixTask[i] = "ended" => Standalone(i))

\* Who is through leaves a listener at the path, or somebody about to bind: a
\* file that must be removed is there until somebody is, and nobody is about to
\* bind over a dead one.
Succession ==
    /\ (\E i \in Programs : unixTask[i] \in {"bound", "ended"}) =>
          file \in Programs \/ \E k \in Programs : unixTask[k] = "bind"
    /\ (\E i \in Programs : unixTask[i] = "remove") =>
          file # "none" \/ \E k \in Programs : unixTask[k] = "bind"
    /\ (\E i \in Programs : unixTask[i] = "bind") => file # "dead"

Structure == TypeOK /\ Placed /\ Owned /\ Spawned

IInv == Structure /\ (faults = 0 => NoSignals /\ Succession)

LEMMA InitIInv == Init => IInv
<1> SUFFICES ASSUME Init PROVE IInv
  OBVIOUS
<1>1. Placed /\ Owned /\ Spawned
  BY DEF Init, Placed, Owned, Spawned
<1>2. NoSignals /\ Succession
  BY DEF Init, NoSignals, Succession
<1> QED
  BY <1>1, <1>2, InitType DEF IInv, Structure

-----------------------------------------------------------------------------
(* Structure is inductive                                                   *)

\* The end of the tasks, whatever becomes of main.
LEMMA TasksGoneStructure ==
  ASSUME Structure, NEW i \in Programs, TasksGone(i), UNCHANGED config,
         NEW p \in {"off", "stopping"}, phase' = [phase EXCEPT ![i] = p]
  PROVE  Placed' /\ Owned' /\ Spawned'
<1> USE DEF Structure, TypeOK, TasksGone
<1>1. Placed'
  BY DEF Placed, Standalone
<1>2. Owned'
  BY DEF Owned
<1>3. Spawned'
  BY DEF Spawned
<1> QED
  BY <1>1, <1>2, <1>3

LEMMA DownStructure ==
  ASSUME Structure, NEW i \in Programs, NEW how, Down(i, how), UNCHANGED config
  PROVE  Placed' /\ Owned' /\ Spawned'
  BY TasksGoneStructure DEF Down

LEMMA StopStructure ==
  ASSUME Structure, NEW i \in Programs, Stop(i)
  PROVE  Placed' /\ Owned' /\ Spawned'
  BY TasksGoneStructure DEF Stop, Goto

\* A step of the task of the socket up to its end, with what it does to the
\* file.
LEMMA UnixStructure ==
  ASSUME Structure, NEW i \in Programs, UNCHANGED others,
         NEW u \in {"remove", "bind", "activated", "bound", "ended"}, GoUnix(i, u),
         unixTask[i] \in {"listener", "remove", "bind"},
         u \in {"remove", "bind", "bound"} => Standalone(i),
         file' \in {file, "none", i}, file' = i => file = i \/ u = "bound"
  PROVE  Placed' /\ Owned' /\ Spawned'
<1> USE DEF Structure, TypeOK, GoUnix, others, mains
<1>1. Placed'
  BY DEF Placed, Standalone
<1>2. Owned'
  BY DEF Owned
<1>3. Spawned'
  BY DEF Spawned
<1> QED
  BY <1>1, <1>2, <1>3

LEMMA NextStructure == Structure /\ [Next]_vars => Structure'
<1> SUFFICES ASSUME Structure, [Next]_vars PROVE Structure'
  OBVIOUS
<1>0. TypeOK'
  BY NextType DEF Structure
<1> SUFFICES Placed' /\ Owned' /\ Spawned'
  BY <1>0 DEF Structure
<1> USE DEF mains, transports
<1>1. ASSUME NEW i \in Programs, Start(i) PROVE Placed' /\ Owned' /\ Spawned'
  BY <1>1 DEF Start, Goto, Structure, TypeOK, Placed, Owned, Spawned, Standalone
<1>2. ASSUME NEW i \in Programs, RefuseOptions(i) PROVE Placed' /\ Owned' /\ Spawned'
  BY <1>2, DownStructure DEF RefuseOptions
<1>3. ASSUME NEW i \in Programs, SpawnUnix(i) PROVE Placed' /\ Owned' /\ Spawned'
  <2> USE <1>3 DEF SpawnUnix, Goto, Structure, TypeOK
  <2>0. unixTask[i] = "none"
    BY DEF Placed
  <2>1. Placed'
    BY <2>0 DEF Placed, Standalone
  <2>2. Owned'
    BY <2>0 DEF Owned
  <2>3. Spawned'
    <3>1. config[i].ble \/ config[i].unix
      BY DEF Valid
    <3> QED
      BY <2>0, <3>1 DEF Spawned
  <2> QED
    BY <2>1, <2>2, <2>3
<1>4. ASSUME NEW i \in Programs, BleFails(i) PROVE Placed' /\ Owned' /\ Spawned'
  <2>1. CASE BleFailureIsFatal(i)
    BY <1>4, <2>1, DownStructure DEF BleFails
  <2>2. CASE ~BleFailureIsFatal(i)
    <3> USE <1>4, <2>2 DEF BleFails, BleFailureIsFatal, Goto, Structure, TypeOK
    <3>1. Placed' /\ Owned'
      BY DEF Placed, Owned, Standalone
    <3>2. Spawned'
      BY DEF Spawned
    <3> QED
      BY <3>1, <3>2
  <2> QED
    BY <2>1, <2>2
<1>5. ASSUME NEW i \in Programs, BleStarted(i) PROVE Placed' /\ Owned' /\ Spawned'
  <2> USE <1>5 DEF BleStarted, Goto, Structure, TypeOK
  <2>1. Placed' /\ Owned'
    BY DEF Placed, Owned, Standalone
  <2>2. Spawned'
    BY DEF Spawned
  <2> QED
    BY <2>1, <2>2
<1>6. ASSUME NEW i \in Programs, SignalArrives(i) \/ AllTasksCompleted(i)
      PROVE Placed' /\ Owned' /\ Spawned'
  BY <1>6, StopStructure DEF SignalArrives, AllTasksCompleted
<1>7. ASSUME NEW i \in Programs, Exit(i) \/ Crash(i) PROVE Placed' /\ Owned' /\ Spawned'
  BY <1>7, DownStructure DEF Exit, Crash
<1>8. ASSUME NEW i \in Programs, TakeListener(i) PROVE Placed' /\ Owned' /\ Spawned'
  <2> DEFINE u == IF IsActivated(i) THEN "activated"
                  ELSE IF MustRemove THEN "remove" ELSE "bind"
  <2>1. unixTask[i] = "listener" /\ GoUnix(i, u) /\ UNCHANGED <<others, file>>
    BY <1>8 DEF TakeListener
  <2>2. u \in {"remove", "bind", "bound"} => Standalone(i)
    BY <2>1 DEF Structure, Placed, Standalone, IsActivated
  <2>3. u \in {"remove", "bind", "activated", "bound", "ended"}
    OBVIOUS
  <2> HIDE DEF u
  <2> QED
    BY <2>1, <2>2, <2>3, UnixStructure
<1>9. ASSUME NEW i \in Programs, RemoveFile(i) PROVE Placed' /\ Owned' /\ Spawned'
  <2>1. Standalone(i) /\ file' # i /\ UNCHANGED others
    BY <1>9 DEF RemoveFile, Structure, Placed
  <2>2. CASE file = "none"
    BY <1>9, <2>1, <2>2, UnixStructure DEF RemoveFile
  <2>3. CASE file # "none"
    BY <1>9, <2>1, <2>3, UnixStructure DEF RemoveFile
  <2> QED
    BY <2>2, <2>3
<1>10. ASSUME NEW i \in Programs, Bind(i) PROVE Placed' /\ Owned' /\ Spawned'
  <2>1. Standalone(i) /\ UNCHANGED others
    BY <1>10 DEF Bind, Structure, Placed
  <2>2. CASE file = "none"
    BY <1>10, <2>1, <2>2, UnixStructure DEF Bind
  <2>3. CASE file # "none"
    BY <1>10, <2>1, <2>3, UnixStructure DEF Bind
  <2> QED
    BY <2>2, <2>3
<1>11. ASSUME NEW i \in Programs, ListenerFails(i) PROVE Placed' /\ Owned' /\ Spawned'
  BY <1>11, UnixStructure DEF ListenerFails
<1>12. ASSUME NEW i \in Programs, EventLoop(i) PROVE Placed' /\ Owned' /\ Spawned'
  <2> USE <1>12 DEF EventLoop, Structure, TypeOK
  <2>1. Placed' /\ Owned'
    BY DEF Placed, Owned, Standalone
  <2>2. Spawned'
    BY DEF Spawned
  <2> QED
    BY <2>1, <2>2
<1>13. ASSUME UNCHANGED <<config, phase, unixTask, bleTask, file>>
       PROVE Placed' /\ Owned' /\ Spawned'
  BY <1>13 DEF Structure, Placed, Owned, Spawned, Standalone
<1>14. ASSUME NEW i \in Programs, Signal(i) PROVE Placed' /\ Owned' /\ Spawned'
  <2>1. CASE HandlesSignals(i)
    BY <1>13, <1>14, <2>1 DEF Signal
  <2>2. CASE ~HandlesSignals(i)
    BY <1>14, <2>2, DownStructure DEF Signal
  <2> QED
    BY <2>1, <2>2
<1>15. ASSUME NEW i \in Programs,
              \/ BleAnswers(i) \/ Accept(i) \/ ClientConnects(i) \/ ClientLeaves(i)
              \/ BackendWorks(i) \/ BackendReturns(i)
       PROVE Placed' /\ Owned' /\ Spawned'
  BY <1>13, <1>15 DEF BleAnswers, Accept, ClientConnects, ClientLeaves,
                      BackendWorks, BackendReturns, others
<1>16. CASE Rest \/ UNCHANGED vars
  BY <1>13, <1>16 DEF Rest, vars
<1> QED
  BY <1>1, <1>2, <1>3, <1>4, <1>5, <1>6, <1>7, <1>8, <1>9, <1>10, <1>11, <1>12,
     <1>14, <1>15, <1>16 DEF Next, Main, Tasks

-----------------------------------------------------------------------------
(* While nothing goes wrong                                                 *)

Calm == NoSignals /\ Succession

\* A process that ends holds no listener: the others go on as they were.
LEMMA TasksGoneCalm ==
  ASSUME Structure, Calm, NEW i \in Programs, TasksGone(i), UNCHANGED config,
         unixTask[i] \in {"none", "ended"}, \A j \in Programs : pending'[j] => pending[j]
  PROVE  Calm'
<1> USE DEF Structure, TypeOK, TasksGone, Calm
<1>1. file' = file
  BY DEF Owned
<1>2. \A j \in Programs : unixTask'[j] \in {unixTask[j], "none"}
  OBVIOUS
<1>3. \A j \in Programs : unixTask[j] = "bind" => unixTask'[j] = "bind"
  OBVIOUS
<1>4. NoSignals'
  BY <1>2 DEF NoSignals, Standalone
<1>5. Succession'
  BY <1>1, <1>2, <1>3 DEF Succession
<1> QED
  BY <1>4, <1>5

LEMMA DownCalm ==
  ASSUME Structure, Calm, NEW i \in Programs, NEW how, Down(i, how), UNCHANGED config,
         unixTask[i] \in {"none", "ended"}
  PROVE  Calm'
<1>1. \A j \in Programs : pending'[j] => pending[j]
  BY DEF Down, Structure, TypeOK
<1> QED
  BY <1>1, TasksGoneCalm DEF Down

\* What goes on beside the listeners does not matter.
LEMMA AsideCalm ==
  ASSUME Calm, UNCHANGED <<config, pending, unixTask, file>>
  PROVE  Calm'
  BY DEF Calm, NoSignals, Succession, Standalone

LEMMA NextCalm == IInv /\ [Next]_vars /\ faults' = 0 => Calm'
<1> SUFFICES ASSUME IInv, [Next]_vars, faults' = 0 PROVE Calm'
  OBVIOUS
<1>0. /\ Structure /\ TypeOK /\ Placed /\ Owned /\ faults \in Nat
      /\ ~Fault /\ faults = 0 /\ Calm
  <2>1. Structure /\ TypeOK /\ Placed /\ Owned
    BY DEF IInv, Structure
  <2>2. faults \in Nat
    BY <2>1 DEF TypeOK
  <2>3. ~Fault
    BY <2>2 DEF Fault
  <2>4. faults = 0
    <3>1. faults' = faults \/ Fault
      BY DEF Next, vars, Main, Tasks, Rest, Start, RefuseOptions, SpawnUnix,
             BleFails, BleAnswers, BleStarted, SignalArrives, AllTasksCompleted,
             Stop, Exit, TakeListener, RemoveFile, Bind, ListenerFails, Accept,
             EventLoop, Signal, Crash, ClientConnects, ClientLeaves,
             BackendWorks, BackendReturns
    <3> QED
      BY <2>3, <3>1
  <2> QED
    BY <2>1, <2>2, <2>3, <2>4 DEF IInv, Calm
<1> USE <1>0 DEF mains, transports, others
<1>1. ASSUME NEW i \in Programs, RefuseOptions(i) PROVE Calm'
  <2>1. unixTask[i] = "none"
    BY <1>1 DEF RefuseOptions, Placed, TypeOK
  <2> QED
    BY <1>1, <2>1, DownCalm DEF RefuseOptions
<1>2. ASSUME NEW i \in Programs, SpawnUnix(i) PROVE Calm'
  <2> USE <1>2 DEF SpawnUnix
  <2>1. unixTask[i] = "none"
    BY DEF Placed, TypeOK
  <2>2. \A j \in Programs : unixTask'[j] \in {unixTask[j], "listener"}
    BY DEF TypeOK
  <2>3. \A j \in Programs : unixTask[j] = "bind" => unixTask'[j] = "bind"
    BY <2>1 DEF TypeOK
  <2>4. NoSignals'
    BY <2>2 DEF Calm, NoSignals, Standalone
  <2>5. Succession'
    BY <2>2, <2>3 DEF Calm, Succession
  <2> QED
    BY <2>4, <2>5 DEF Calm
<1>3. ASSUME NEW i \in Programs, BleFails(i) PROVE Calm'
  <2>1. CASE BleFailureIsFatal(i)
    <3>1. unixTask[i] = "none"
      BY <2>1 DEF BleFailureIsFatal, Placed, TypeOK
    <3> QED
      BY <1>3, <2>1, <3>1, DownCalm DEF BleFails
  <2>2. CASE ~BleFailureIsFatal(i)
    BY <1>3, <2>2, AsideCalm DEF BleFails
  <2> QED
    BY <2>1, <2>2
<1>4. ASSUME NEW i \in Programs, AllTasksCompleted(i) PROVE Calm'
  BY <1>4, TasksGoneCalm DEF AllTasksCompleted, Stop
<1>5. ASSUME NEW i \in Programs, SignalArrives(i) PROVE Calm'
  BY <1>5 DEF SignalArrives, Calm, NoSignals
<1>6. ASSUME NEW i \in Programs, Exit(i) PROVE Calm'
  <2>1. unixTask[i] = "none"
    BY <1>6 DEF Exit, Placed, TypeOK
  <2> QED
    BY <1>6, <2>1, DownCalm DEF Exit
<1>7. ASSUME NEW i \in Programs, TakeListener(i) PROVE Calm'
  <2> USE <1>7 DEF TakeListener, GoUnix, TypeOK
  <2>1. NoSignals'
    BY DEF Calm, NoSignals, Standalone
  <2>2. \A j \in Programs : unixTask[j] = "bind" => unixTask'[j] = "bind"
    OBVIOUS
  <2>3. (\E j \in Programs : unixTask'[j] \in {"bound", "ended"}) =>
            file' \in Programs \/ \E k \in Programs : unixTask'[k] = "bind"
    <3>1. \A j \in Programs : unixTask'[j] \in {"bound", "ended"} => unixTask[j] = unixTask'[j]
      OBVIOUS
    <3> QED
      BY <2>2, <3>1 DEF Calm, Succession
  <2>4. (\E j \in Programs : unixTask'[j] = "remove") =>
            file' # "none" \/ \E k \in Programs : unixTask'[k] = "bind"
    <3>1. CASE file = "none"
      <4>1. \A j \in Programs : unixTask'[j] = "remove" => unixTask[j] = "remove"
        BY <3>1 DEF MustRemove
      <4> QED
        BY <2>2, <4>1 DEF Calm, Succession
    <3>2. CASE file # "none"
      BY <3>2
    <3> QED
      BY <3>1, <3>2
  <2>5. (\E j \in Programs : unixTask'[j] = "bind") => file' # "dead"
    <3>1. CASE file = "none"
      BY <3>1
    <3>2. CASE file # "none"
      <4>1. \A j \in Programs : unixTask'[j] = "bind" => unixTask[j] = "bind"
        BY <3>2 DEF MustRemove
      <4> QED
        BY <4>1 DEF Calm, Succession
    <3> QED
      BY <3>1, <3>2
  <2> QED
    BY <2>1, <2>3, <2>4, <2>5 DEF Calm, Succession
<1>8. ASSUME NEW i \in Programs, RemoveFile(i) PROVE Calm'
  <2> USE <1>8 DEF RemoveFile, GoUnix, TypeOK
  <2>1. NoSignals'
    BY DEF Calm, NoSignals, Placed, Standalone
  <2>2. \E k \in Programs : unixTask'[k] = "bind"
    <3>1. CASE file = "none"
      BY <3>1 DEF Calm, Succession
    <3>2. CASE file # "none"
      BY <3>2
    <3> QED
      BY <3>1, <3>2
  <2>3. file' # "dead"
    OBVIOUS
  <2> QED
    BY <2>1, <2>2, <2>3 DEF Calm, Succession
<1>9. ASSUME NEW i \in Programs, Bind(i) PROVE Calm'
  <2> USE <1>9 DEF Bind, GoUnix, TypeOK
  <2>1. NoSignals'
    BY DEF Calm, NoSignals, Placed, Standalone
  <2>2. file' \in Programs
    BY DEF Calm, Succession
  <2>3. file' \notin {"none", "dead"}
    BY <2>2
  <2> QED
    BY <2>1, <2>2, <2>3 DEF Calm, Succession
<1>10. ASSUME NEW i \in Programs, ListenerFails(i) \/ Signal(i) \/ Crash(i) PROVE Calm'
  BY <1>10 DEF ListenerFails, Signal, Crash
<1>11. ASSUME NEW i \in Programs,
              \/ Start(i) \/ BleAnswers(i) \/ BleStarted(i) \/ Accept(i) \/ EventLoop(i)
              \/ ClientConnects(i) \/ ClientLeaves(i)
              \/ BackendWorks(i) \/ BackendReturns(i)
       PROVE Calm'
  BY <1>11, AsideCalm DEF Start, BleAnswers, BleStarted, Accept, EventLoop,
     ClientConnects, ClientLeaves, BackendWorks, BackendReturns
<1>12. CASE Rest \/ UNCHANGED vars
  BY <1>12, AsideCalm DEF Rest, vars
<1> QED
  BY <1>1, <1>2, <1>3, <1>4, <1>5, <1>6, <1>7, <1>8, <1>9, <1>10, <1>11, <1>12
     DEF Next, Main, Tasks

LEMMA Inductive == Spec => []IInv
<1>1. IInv /\ [Next]_vars => IInv'
  BY NextStructure, NextCalm DEF IInv, Calm
<1> QED
  BY InitIInv, <1>1, PTL DEF Spec

-----------------------------------------------------------------------------
(* The theorems                                                             *)

\* The types of the variables.
THEOREM TypeCorrect == Spec => []TypeOK
<1>1. IInv => TypeOK
  BY DEF IInv, Structure
<1> QED
  BY <1>1, Inductive, PTL

\* However many programs take the path from one another, in whatever order, one
\* of them listens there in the end, as long as nothing fails.
THEOREM PathIsListenedAt == Spec => []SomebodyListens
<1>1. ASSUME IInv PROVE SomebodyListens
  <2> DEFINE own == {i \in Programs : phase[i] # "off" /\ Standalone(i)}
  <2> SUFFICES ASSUME faults = 0, own # {},
                      \A i \in own : unixTask[i] \in {"bound", "ended"}
               PROVE  \E i \in own : file = i /\ unixTask[i] = "bound"
    BY DEF SomebodyListens, Standalone
  <2>1. Succession /\ Placed /\ Owned
    BY <1>1 DEF IInv, Structure
  <2>2. \A k \in Programs : unixTask[k] \in {"bind", "bound"} => k \in own
    BY <2>1 DEF Placed
  <2>3. file \in Programs
    <3>1. ~\E k \in Programs : unixTask[k] = "bind"
      BY <2>2
    <3>2. \E i \in Programs : unixTask[i] \in {"bound", "ended"}
      OBVIOUS
    <3> QED
      BY <2>1, <3>1, <3>2 DEF Succession
  <2>4. unixTask[file] = "bound"
    BY <2>1, <2>3 DEF Owned
  <2> QED
    BY <2>2, <2>3, <2>4
<1> QED
  BY <1>1, Inductive, PTL

\* main waits only for tasks it has spawned, whatever its options and however
\* far the start of BLE came.
THEOREM MainWaitsForSomething == Spec => []WaitsForSomething
<1>1. IInv => WaitsForSomething
  BY DEF IInv, Structure, Spawned, WaitsForSomething
<1> QED
  BY <1>1, Inductive, PTL

\* No failure of BLE, and nothing another program does, ends the task that
\* holds a listener.
THEOREM ListenersOutliveBle == Spec => ListenerOutlivesBle
<1> DEFINE Outlives ==
      \A i \in Programs : Listens(i) /\ ~Listens(i)' => pending[i] \/ faults' # faults
<1>1. ASSUME IInv, [Next]_vars PROVE [Outlives]_vars
  <2> SUFFICES ASSUME NEW i \in Programs, Listens(i), ~Listens(i)', ~pending[i],
                      faults' = faults
               PROVE FALSE
    OBVIOUS
  <2>1. Structure /\ TypeOK /\ Placed /\ faults \in Nat
    BY <1>1 DEF IInv, Structure, TypeOK
  <2>2. ~Fault
    BY <2>1 DEF Fault
  <2>3. unixTask[i] \in {"activated", "bound"}
    BY DEF Listens
  <2>4. ~UNCHANGED <<config, unixTask>>
    BY DEF Listens
  <2>5. ASSUME NEW j \in Programs, NEW u, GoUnix(j, u), UNCHANGED config,
               unixTask[j] \in {"none", "listener", "remove", "bind", "ended"}
        PROVE FALSE
    BY <2>1, <2>3, <2>5 DEF GoUnix, Listens, TypeOK
  <2>6. ASSUME NEW j \in Programs, TasksGone(j), UNCHANGED config,
               unixTask[j] \in {"none", "ended"} \/ pending[j]
        PROVE FALSE
    BY <2>1, <2>3, <2>6 DEF TasksGone, Listens, TypeOK
  <2>7. ASSUME NEW j \in Programs, Main(j) PROVE FALSE
    <3>1. CASE RefuseOptions(j)
      BY <2>1, <2>6, <3>1 DEF RefuseOptions, Down, Placed
    <3>2. CASE SpawnUnix(j)
      <4>1. unixTask[j] = "none"
        BY <2>1, <3>2 DEF SpawnUnix, Placed
      <4> QED
        BY <2>1, <2>3, <2>4, <3>2, <4>1 DEF SpawnUnix, Listens, TypeOK
    <3>3. CASE BleFails(j)
      BY <2>1, <2>4, <2>6, <3>3 DEF BleFails, BleFailureIsFatal, Down, Placed, transports
    <3>4. CASE SignalArrives(j) \/ AllTasksCompleted(j)
      BY <2>6, <3>4 DEF SignalArrives, AllTasksCompleted, Stop
    <3>5. CASE Exit(j)
      BY <2>1, <2>6, <3>5 DEF Exit, Down, Placed
    <3>6. CASE Start(j) \/ BleAnswers(j) \/ BleStarted(j)
      BY <2>4, <3>6 DEF Start, BleAnswers, BleStarted, transports
    <3> QED
      BY <2>7, <3>1, <3>2, <3>3, <3>4, <3>5, <3>6 DEF Main
  <2>8. ASSUME NEW j \in Programs, Tasks(j) PROVE FALSE
    BY <2>2, <2>4, <2>5, <2>8 DEF Tasks, TakeListener, RemoveFile, Bind,
       ListenerFails, Accept, EventLoop, others
  <2>9. ASSUME NEW j \in Programs,
               \/ Signal(j) \/ Crash(j) \/ ClientConnects(j) \/ ClientLeaves(j)
               \/ BackendWorks(j) \/ BackendReturns(j)
        PROVE FALSE
    BY <2>2, <2>4, <2>9 DEF Signal, Crash, ClientConnects, ClientLeaves,
       BackendWorks, BackendReturns, transports
  <2>10. ~UNCHANGED vars
    BY <2>4 DEF vars, transports
  <2> QED
    BY <1>1, <2>7, <2>8, <2>9, <2>10 DEF Next, Rest
<1> QED
  BY <1>1, Inductive, PTL DEF Spec, ListenerOutlivesBle
=============================================================================
