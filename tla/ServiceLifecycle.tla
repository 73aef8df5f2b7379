-------------------------- MODULE ServiceLifecycle ---------------------------
(***************************************************************************)
(* The life of the program (main.rs): it validates its options, spawns the *)
(* task of the Unix socket, starts BLE step by step, and then waits for a  *)
(* signal or for the end of all tasks.  The task of the socket takes the   *)
(* listener of the service manager or makes one of its own at its path;    *)
(* all that make their own share one path.                                 *)
(*                                                                         *)
(* BlueZ (through the bluer library), the service manager (Restart=        *)
(* on-failure, a socket that starts the service) and the clients are       *)
(* external.  A call to BlueZ may fail or never be answered.               *)
(***************************************************************************)
EXTENDS Naturals

CONSTANTS
    Programs,       \* instances of the program
    Deployments,    \* which of them are installed, and their options
    MaxFaults       \* bound: signals, crashes and I/O errors

\* Which transports are enabled, whether there is a --ble-secret, and whether
\* the service manager has made the socket.
Options == [installed : BOOLEAN, ble : BOOLEAN, secret : BOOLEAN,
            unix : BOOLEAN, activated : BOOLEAN]

ASSUME LifecycleAssumption ==
    /\ MaxFaults \in Nat
    /\ Deployments \in SUBSET [Programs -> Options]
    /\ {"none", "dead"} \cap Programs = {}

VARIABLES
    config,         \* CliArgs
    phase,          \* where main is
    status,         \* how the last process ended, while there is no next one
    pending,        \* a signal has been caught
    unixTask, bleTask,  \* the tasks
    bleStep,        \* the calls to BlueZ that were answered
    published,      \* BlueZ serves the application
    blocking,       \* a thread waits for wpa_supplicant
    file,           \* what is at the path: nothing, a dead socket, or whose
    client,         \* a client of each program's socket
    faults

mains == <<phase, status, pending>>
transports == <<unixTask, bleTask, bleStep, published>>
vars == <<config, mains, transports, blocking, file, client, faults>>

Phases == {"off", "parsed", "ble", "select", "stopping"}
UnixTasks == {"none", "listener", "remove", "bind", "activated", "bound", "ended"}

\* start_ble_transport: Session::new, default_adapter, set_powered, set_alias,
\* set_discoverable, set_pairable and serve_gatt_application.
LastBleStep == 7

Init ==
    /\ config \in Deployments
    /\ phase = [i \in Programs |-> "off"]
    /\ status = [i \in Programs |-> "none"]
    /\ pending = [i \in Programs |-> FALSE]
    /\ unixTask = [i \in Programs |-> "none"]
    /\ bleTask = [i \in Programs |-> "none"]
    /\ bleStep = [i \in Programs |-> 0]
    /\ published = [i \in Programs |-> FALSE]
    /\ blocking = [i \in Programs |-> FALSE]
    /\ file \in {"none", "dead"}
    /\ client = [i \in Programs |-> "away"]
    /\ faults = 0

Fault == faults < MaxFaults /\ faults' = faults + 1

-----------------------------------------------------------------------------
(* The end of a process                                                     *)

\* The tasks are gone, and their sockets closed; nothing removes the file.  A
\* client that was not accepted yet stays with a socket of the manager, until
\* the manager closes that (Start).
TasksGone(i) ==
    /\ unixTask' = [unixTask EXCEPT ![i] = "none"]
    /\ bleTask' = [bleTask EXCEPT ![i] = "none"]
    /\ bleStep' = [bleStep EXCEPT ![i] = 0]
    /\ published' = [published EXCEPT ![i] = FALSE]
    /\ file' = IF file = i THEN "dead" ELSE file
    /\ client' = [client EXCEPT ![i] =
                    IF config[i].activated /\ @ = "queued" THEN @ ELSE "away"]

Down(i, how) ==
    /\ phase' = [phase EXCEPT ![i] = "off"]
    /\ status' = [status EXCEPT ![i] = how]
    /\ pending' = [pending EXCEPT ![i] = FALSE]
    /\ blocking' = [blocking EXCEPT ![i] = FALSE]
    /\ TasksGone(i)

\* A panic of main, or SIGKILL.
Crash(i) ==
    /\ phase[i] # "off" /\ Fault
    /\ Down(i, "failure")
    /\ UNCHANGED config

-----------------------------------------------------------------------------
(* main                                                                     *)

Goto(i, p) == phase' = [phase EXCEPT ![i] = p]

\* The manager starts the program at boot, after a failure, and for a client
\* that waits at its socket.  The socket is part of the service: to restart the
\* service after a failure is to restart the socket, and whoever waits there
\* is cut off.
Start(i) ==
    /\ phase[i] = "off" /\ config[i].installed
    /\ status[i] # "success" \/ (config[i].activated /\ client[i] = "queued")
    /\ Goto(i, "parsed")
    /\ status' = [status EXCEPT ![i] = "none"]
    /\ client' = [client EXCEPT ![i] = IF status[i] = "failure" THEN "away" ELSE @]
    /\ UNCHANGED <<config, pending, transports, blocking, file, faults>>

Valid(i) ==
    /\ config[i].ble \/ config[i].unix
    /\ config[i].ble => config[i].secret

RefuseOptions(i) ==
    /\ phase[i] = "parsed" /\ ~Valid(i)
    /\ Down(i, "failure")
    /\ UNCHANGED <<config, faults>>

SpawnUnix(i) ==
    /\ phase[i] = "parsed" /\ Valid(i)
    /\ unixTask' = [unixTask EXCEPT ![i] = IF config[i].unix THEN "listener" ELSE @]
    /\ Goto(i, IF config[i].ble THEN "ble" ELSE "select")
    /\ UNCHANGED <<config, status, pending, bleTask, bleStep, published,
                   blocking, file, client, faults>>

\* A failed start of BLE is fatal only when there is no other transport.
BleFailureIsFatal_Always(i) == TRUE
BleFailureIsFatal_Never(i) == FALSE
BleFailureIsFatal(i) == ~config[i].unix

BleFails(i) ==
    /\ phase[i] = "ble" /\ bleStep[i] < LastBleStep
    /\ IF BleFailureIsFatal(i) THEN Down(i, "failure")
       ELSE Goto(i, "select") /\ UNCHANGED <<status, pending, transports,
                                             blocking, file, client>>
    /\ UNCHANGED <<config, faults>>

\* BleAdapter::new, start and GattServer::register, up to the answer of BlueZ
\* to each.  The last one publishes the application.
BleAnswers_Again(i) ==
    /\ phase[i] = "ble"
    /\ bleStep' = [bleStep EXCEPT ![i] = @ + 1]
    /\ UNCHANGED <<config, mains, unixTask, bleTask, published, blocking, file,
                   client, faults>>
BleAnswers(i) ==
    /\ phase[i] = "ble" /\ bleStep[i] < LastBleStep
    /\ bleStep' = [bleStep EXCEPT ![i] = @ + 1]
    /\ published' = [published EXCEPT ![i] = (bleStep'[i] = LastBleStep)]
    /\ UNCHANGED <<config, mains, unixTask, bleTask, blocking, file, client, faults>>

\* register returns; the handle of the application, which nobody keeps, goes.
BleStarted(i) ==
    /\ phase[i] = "ble" /\ bleStep[i] = LastBleStep
    /\ published' = [published EXCEPT ![i] = FALSE]
    /\ bleTask' = [bleTask EXCEPT ![i] = "subscribing"]
    /\ Goto(i, "select")
    /\ UNCHANGED <<config, status, pending, unixTask, bleStep, blocking, file,
                   client, faults>>

\* Handlers of SIGINT and SIGTERM are there from the first poll of the select.
HandlesSignals_Early(i) == phase[i] # "off"
HandlesSignals(i) == phase[i] \in {"select", "stopping"}

\* Without a handler the process dies, which the manager takes for success.
Signal(i) ==
    /\ phase[i] # "off" /\ Fault
    /\ IF HandlesSignals(i)
       THEN /\ pending' = [pending EXCEPT ![i] = TRUE]
            /\ UNCHANGED <<phase, status, transports, blocking, file, client>>
       ELSE Down(i, "success")
    /\ UNCHANGED config

\* main returns Ok: the tasks are dropped.
Stop(i) ==
    /\ Goto(i, "stopping")
    /\ TasksGone(i)
    /\ UNCHANGED <<config, status, pending, blocking, faults>>

SignalArrives(i) == phase[i] = "select" /\ pending[i] /\ Stop(i)

AllTasksCompleted(i) ==
    /\ phase[i] = "select"
    /\ {unixTask[i], bleTask[i]} \subseteq {"none", "ended"}
    /\ Stop(i)

\* The runtime waits for its blocking threads.
Exit(i) ==
    /\ phase[i] = "stopping" /\ ~blocking[i]
    /\ Down(i, "success")
    /\ UNCHANGED <<config, faults>>

-----------------------------------------------------------------------------
(* The task of the Unix socket: get_listener, step by step                  *)

others == <<config, mains, bleTask, bleStep, published, blocking>>
GoUnix(i, u) == unixTask' = [unixTask EXCEPT ![i] = u]

IsActivated_Never(i) == FALSE
IsActivated(i) == config[i].activated

MustRemove_Never == FALSE
MustRemove == file # "none"

TakeListener(i) ==
    /\ unixTask[i] = "listener"
    /\ GoUnix(i, IF IsActivated(i) THEN "activated"
                 ELSE IF MustRemove THEN "remove" ELSE "bind")
    /\ UNCHANGED <<others, file, client, faults>>

\* Another program may have removed the file meanwhile ...
RemoveFile(i) ==
    /\ unixTask[i] = "remove"
    /\ IF file = "none" THEN GoUnix(i, "ended") ELSE GoUnix(i, "bind")
    /\ file' = "none"
    /\ UNCHANGED <<others, client, faults>>

\* ... or bound a socket of its own.  A client of one that is removed has
\* nobody to be accepted by unless that is its program.
Bind(i) ==
    /\ unixTask[i] = "bind"
    /\ IF file = "none" THEN GoUnix(i, "bound") /\ file' = i
       ELSE GoUnix(i, "ended") /\ UNCHANGED file
    /\ UNCHANGED <<others, client, faults>>

\* Any other error of these calls ends the task.
ListenerFails(i) ==
    /\ unixTask[i] \in {"listener", "remove", "bind"} /\ Fault
    /\ GoUnix(i, "ended")
    /\ UNCHANGED <<others, file, client>>

Listens(i) == unixTask[i] = IF config[i].activated THEN "activated" ELSE "bound"

Accept(i) ==
    /\ client[i] = "queued" /\ Listens(i)
    /\ client' = [client EXCEPT ![i] = "served"]
    /\ UNCHANGED <<others, unixTask, file, faults>>

-----------------------------------------------------------------------------
(* The task of BLE, the clients and the backend                             *)

\* events() is answered, or not; the stream ends when BlueZ goes away.
EventLoop(i) ==
    /\ bleTask[i] \in {"subscribing", "running"}
    /\ \E s \in {"running", "ended"} \ {bleTask[i]} :
          bleTask' = [bleTask EXCEPT ![i] = s]
    /\ UNCHANGED <<config, mains, unixTask, bleStep, published, blocking, file,
                   client, faults>>

ClientConnects(i) ==
    /\ client[i] = "away"
    /\ config[i].activated \/ (file = i /\ unixTask[i] = "bound")
    /\ client' = [client EXCEPT ![i] = "queued"]
    /\ UNCHANGED <<config, mains, transports, blocking, file, faults>>

ClientLeaves(i) ==
    /\ client[i] = "served"
    /\ client' = [client EXCEPT ![i] = "away"]
    /\ UNCHANGED <<config, mains, transports, blocking, file, faults>>

\* A request of a client puts a thread to work, which outlives the client.
BackendWorks(i) ==
    /\ client[i] = "served" /\ ~blocking[i]
    /\ blocking' = [blocking EXCEPT ![i] = TRUE]
    /\ UNCHANGED <<config, mains, transports, file, client, faults>>

BackendReturns(i) ==
    /\ blocking[i]
    /\ blocking' = [blocking EXCEPT ![i] = FALSE]
    /\ UNCHANGED <<config, mains, transports, file, client, faults>>

-----------------------------------------------------------------------------
Main(i) ==
    \/ Start(i) \/ RefuseOptions(i) \/ SpawnUnix(i) \/ BleFails(i)
    \/ BleAnswers(i) \/ BleStarted(i) \/ SignalArrives(i)
    \/ AllTasksCompleted(i) \/ Exit(i)

Tasks(i) ==
    \/ TakeListener(i) \/ RemoveFile(i) \/ Bind(i) \/ ListenerFails(i)
    \/ Accept(i) \/ EventLoop(i)

\* Every program has ended well or waits in its select.
Rest ==
    /\ \A i \in Programs : config[i].installed =>
          phase[i] = "select" \/ (phase[i] = "off" /\ status[i] = "success")
    /\ UNCHANGED vars

Next ==
    \/ \E i \in Programs :
          \/ Main(i) \/ Tasks(i)
          \/ Signal(i) \/ Crash(i)
          \/ ClientConnects(i) \/ ClientLeaves(i)
          \/ BackendWorks(i) \/ BackendReturns(i)
    \/ Rest

Spec == Init /\ [][Next]_vars

\* The processor runs what can run, the manager does its work, and a request to
\* wpa_supplicant ends.  BlueZ may leave any call unanswered for ever.
Fairness ==
    \A i \in Programs :
       /\ WF_vars(Start(i) \/ RefuseOptions(i) \/ SpawnUnix(i))
       /\ WF_vars(SignalArrives(i) \/ AllTasksCompleted(i) \/ Exit(i))
       /\ WF_vars(TakeListener(i) \/ RemoveFile(i) \/ Bind(i))
       /\ WF_vars(Accept(i)) /\ WF_vars(BackendReturns(i))

FairSpec == Spec /\ Fairness

-----------------------------------------------------------------------------
(* Properties                                                               *)

\* The types of the variables.
TypeOK ==
    /\ config \in Deployments
    /\ phase \in [Programs -> Phases]
    /\ status \in [Programs -> {"none", "success", "failure"}]
    /\ unixTask \in [Programs -> UnixTasks]
    /\ bleTask \in [Programs -> {"none", "subscribing", "running", "ended"}]
    /\ bleStep \in [Programs -> 0..LastBleStep]
    /\ {pending, published, blocking} \subseteq [Programs -> BOOLEAN]
    /\ file \in Programs \cup {"none", "dead"}
    /\ client \in [Programs -> {"away", "queued", "served"}]
    /\ faults \in 0..MaxFaults

\* Programs that make their listeners at the same path take it from one another
\* between two steps of get_listener.  Whatever the order, once they are all
\* through, one of them listens at the path, even over a dead socket.
SomebodyListens ==
    LET own == {i \in Programs : phase[i] # "off" /\ config[i].unix
                                     /\ ~config[i].activated}
    IN  (/\ faults = 0 /\ own # {}
         /\ \A i \in own : unixTask[i] \in {"bound", "ended"})
            => \E i \in own : file = i /\ unixTask[i] = "bound"

\* main never waits with no transport at all.
WaitsForSomething ==
    \A i \in Programs :
        phase[i] = "select" => {unixTask[i], bleTask[i]} # {"none"}

\* Nothing that goes wrong with BLE, at any step, ends a listener that serves:
\* that takes a signal, a crash or an I/O error.
ListenerOutlivesBle ==
    [][\A i \in Programs :
         Listens(i) /\ ~Listens(i)' => pending[i] \/ faults' # faults]_vars

\* A signal ends the process, even when BlueZ never answers.
SignalIsObeyed == \A i \in Programs : pending[i] ~> phase[i] = "off"

\* A client that connected is served, whatever BlueZ does and whatever signals
\* come: one that finds the program on its way out is served by the next
\* process, if the service manager keeps the socket.  It is not when the task
\* of the socket or the whole program fails, or when a program ends that made
\* its socket itself.
ClientIsServed ==
    \A i \in Programs :
        client[i] = "queued" /\ Valid(i) /\ config[i].unix
            ~> \/ client[i] = "served"
               \/ unixTask[i] = "ended" \/ status[i] = "failure"
               \/ ~config[i].activated /\ phase[i] = "off"

\* "The BLE interface exposes three GATT services": README.md:149.
PublishedWhileRunning ==
    \A i \in Programs : bleTask[i] = "running" => published[i]
=============================================================================
