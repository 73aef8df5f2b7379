# A specification of the WiFi commissioning service

TLA+ modules, TLC configurations and TLAPS proofs for
`wifi-commissioning-service`: a daemon that lets a phone (over BLE) or a local
program (over a Unix socket) scan for WiFi networks and connect the device to
one of them through wpa_supplicant.

Paths such as `core/scanner.rs` are relative to `src/src/`.

## 1. The system

```
 BLE centrals          Unix socket clients
      |                       |
 GATT server            socket server            transport/
 characteristics        one task per client
 one session            request handler
      |                       |
      +------ services -------+                  core/
   Authorization  Scan  Connection
                   |       |
                 WifiBackend                     backend/
```

Everything runs on one multi-threaded tokio runtime. Handlers and background
tasks are async functions: they interleave at their awaits, and shared state is
behind `RwLock`s that are taken for one access at a time and released again.
Hence the grain of every module: **one step is what the code does between two
points at which it has released its locks.**

| component | state | operations | what makes it hard |
|---|---|---|---|
| Scanning service `core/scanner.rs` | `state`, `results`, `error` behind one lock; the tasks it spawned, which nothing refers to | `start_scan`, `state`, `results`, `reset` | the task publishes later than the check that allowed it; reset does not know of it |
| Connection service `core/connector.rs` | `state`, `ssid`, `ip_address`, `error`; spawned tasks | `connect`, `disconnect`, `state`, `status` | disconnect is two steps around a backend call and meets attempts in flight; one look at the link decides |
| Authorization `core/authorization.rs` | the deadline | `authorize`, `is_authorized` | time; the deadline is computed before the lock |
| BLE session `transport/ble/session.rs` | `authorized`, SSID and PSK buffers, one for all centrals | setters, `get_ssid`, `clear_buffers` | shared by all centrals; the flag is a copy of a fact that expires |
| Characteristics `transport/ble/characteristics.rs` | `result_offset`, one for all centrals | eight handlers | each handler has several awaits between reading and writing shared state |
| Unix socket `transport/unix_socket` | per client: what was read, what is being answered | the loop of a client, five requests | pipelined requests, lines that are no requests, peers that leave |
| Backend `backend/wpactrl_backend.rs` | wpa_supplicant's, outside the program, which outlives it | `scan`, `connect`, `disconnect`, `status`, the parsers | sequences of commands that fail in the middle; a scan whose end nobody announces; restarts |
| GATT application `transport/ble/gatt.rs`, `uuids.rs` | which requests each characteristic takes | `register` | a registration that lasts as long as a handle |
| Program `main.rs`, `adapter.rs`, `server.rs` (`get_listener`) | the tasks of the transports, the file at the socket's path | start, signals, end | tasks that end unnoticed, calls that are never answered, two programs with one path |

The hazards, each at its line and with the properties aimed at it, are in
`PROJECT.json`.

## 2. The modules

| module | models | composes |
|---|---|---|
| `AsyncOperation` | what a long-running operation promises a caller: accepted only while no outcome is awaited, settled at most once, what is on display is the outcome of a call that was open until then; an operation can be withdrawn | |
| `ScanService` | `core/scanner.rs` | implements `AsyncOperation` |
| `WpactrlScan` | `scan` of `backend/wpactrl_backend.rs` with its sleep, its parser and its channel table | extends `ScanService` |
| `ConnectionService` | `core/connector.rs` | implements `AsyncOperation` |
| `WpactrlBackend` | `connect`, `disconnect` and `status` of `backend/wpactrl_backend.rs`, command by command | `ConnectionService` |
| `WpactrlRestart` | the program killed and started again while wpa_supplicant keeps running | extends `WpactrlBackend` |
| `GattApplication` | the characteristics of `transport/ble/gatt.rs` and the requests each takes | used by the three modules below |
| `BleScan` | the scan characteristics | `ScanService` |
| `BleConnect` | the connect characteristics and the session's buffers | `ConnectionService` |
| `Authorization` | `core/authorization.rs`, the session's flag, `handle_auth_write`, `check_authorized` | |
| `UnixSocket` | the server, the session and the request handler of the Unix socket | `ScanService`, `ConnectionService` |
| `ServiceLifecycle` | `main.rs`, `adapter.rs`, `register` of `gatt.rs`, `get_listener` of `server.rs` | |
| `...Proofs` | theorems about the module they are named after; `ScanProofs`, about `ScanService` and `WpactrlScan` | |
| `MC...` | what TLC needs beside a module: model values, symmetry, definitions for constants | |

The map from each definition to its lines is in `PROJECT.json`. What is worth
knowing beside it:

**ScanService.** The variables `scanState`, `scanResults`, `scanError` are the
fields of `ScanStateMachine`. Results and errors are represented by the number
of the scan they come from (0 for `None`), so that "whose results are these" is
a comparison. `task[t]` follows the task of the t-th accepted scan: waiting for
the backend (`scanning`), back with an answer (`ok`, `err`), published (`done`).
`ticket[c]` is the scan caller `c` was last told Ok for, `got[c]` the networks it
holds. `InFlight`, the tasks that have not published, are the open calls of
`AsyncOperation`, and a reset withdraws. `strays` records the scans that were
running when a reset came: the code makes its promises only while there are none.

**WpactrlScan.** The one step `BackendScan` of a task becomes SCAN, three seconds
of sleep, and SCAN_RESULTS, each of which may fail, with or without effect. The
radio (external) scans when it is asked to and of its own accord, and the lists
it brings are numbered: "is this list newer than the request" is a comparison,
too. `sought` has the tasks whose SCAN left the radio scanning, `late` those of
them that woke before its list came; nothing in the program knows of either. A
line of SCAN_RESULTS is its columns, where a number out of range stands for a
text that does not parse; `parse_scan_results` and `frequency_to_channel` are
written out.

**ConnectionService.** As `ScanService`, with the two steps of `disconnect`
(`caller[c]` goes from `ready` through `disconnecting` and `clearing`) and the
status call between connecting and publishing. The backend is any reply its
interface allows. `strays` records the attempts that overlapped with a disconnect.

**WpactrlBackend.** `command[t]` is the next command of attempt `t`, and
`network[t]` what ADD_NETWORK created for it. One step is one request: the
connection service's own steps are used as they are, and the last command of an
attempt is its `BackendConnect`. wpa_supplicant (external) is its list of
networks and whether it was told to disconnect since the last selection; every
request is answered OK or FAIL, or returns an error after which the command may
or may not have been obeyed. It is assumed to start without networks of its own,
and DISCONNECT to keep it off all of them until SELECT_NETWORK. An ADD_NETWORK
that is answered FAIL leaves the attempt with that word for an id, which
wpa_supplicant reads as the number 0: its further commands go to the first
network, if there is one, which may be an earlier attempt's (`Addressed`; the
networks count from 1 here, and `network[t] = 0` is an attempt without one of
its own). The reads of
`status` that nothing uses (the SSID) are left out. The history variables
`refused`, `deaf` and `dropped` say which commands got a FAIL, which nobody
reads, and which attempt a DISCONNECT was meant for.

**WpactrlRestart.** `Kill` makes the service as `new()` makes it and leaves
wpa_supplicant as it is, in the middle of whatever an attempt was doing;
`inherited` remembers what could be joined at that moment.

**GattApplication.** A function from characteristics to the operations they take.
An action of `BleScan`, `BleConnect` or `Authorization` that serves a request has
`Takes(characteristic, operation)` as a guard.

**BleScan.** `pc[c]` is where the handler that serves central `c` waits, `at[c]`
the offset it read, `got[c]` (of ScanService) its own copy of the results.
Of a JSON text only its length matters: scan `t` fills `Length[t]` bytes.
A central follows the documented protocol: it joins the chunks it is given until
an empty one, and one that drops its connection starts again. `undisturbed` has
the central that asked for the last scan as long as nobody else started a scan or
moved the offset. The Unix socket scans beside the centrals (`Others`).

**BleConnect.** A name is written in two parts, so that appending, mixing and
leaving behind are visible; some names are cut in the middle of a UTF-8
character, so that half a name is not always a string. A PSK stands for the
network it was derived for. A central may drop its connection half-way (`Drop`):
no handler is told, what it wrote stays in the session, and a handler at work for
it goes on. One read of a characteristic is one call of its handler.
`Room` keeps the bound on accepted connects: within it a request may come at any
time, beyond it only while the service would refuse it.

**Authorization.** The clock is a counter that moves between any two steps.
`granted[c]` is when the last right key of central `c` was checked, whatever
became of the deadline the service then stored.

**UnixSocket.** A line is what it is ("scan", "garbage", ...), its index is its
id. The handler reads a line and takes the first critical section in one step,
because nothing before that section concerns anybody else.

**ServiceLifecycle.** `phase[i]` is where `main` of program `i` is; `bleStep[i]`
counts the calls to BlueZ that were answered, `unixTask[i]` follows
`get_listener` through its look at the path, `remove_file` and `bind`; `file` is
what lies at the path all programs share. BlueZ (external) answers, fails or is
silent for ever. The service manager (external) starts a program at boot, five
seconds after a failure, and for a client of a socket it holds. A client that
waits at such a socket waits there while a program ends with success and the next
one starts; but the socket's unit is `PartOf=` the service, so that a restart
after a failure restarts the socket and cuts the client off (`Start`). A panic of
`main` and SIGKILL are one action, `Crash`. `blocking[i]` is a thread that waits for
wpa_supplicant, which the runtime waits for when `main` returns.

## 3. Model checking

`tlc -config <run>.cfg <module>` in this directory; the list is in
`PROJECT.json`. Passing runs:

| run | bounds | shows |
|---|---|---|
| `scan_service` | 2 callers, 2 scans, 1 reset, 2 lists of the radio | over the backend, `ScanService` implements `AsyncOperation`; Scanning is never a dead end; one scan at a time; the outcome on display is the last scan's; a caller reads a list completed after it asked whenever the radio was done within the sleep; the networks are those of the list; a scan ends |
| `connection_service` | 2 callers, 2 networks, 2 attempts, 2 disconnects | the same for connections (except that an attempt ends, see `unix_live`), and Connected names the right network |
| `wpactrl_backend` | 2 callers, 2 attempts, 1 disconnect, 1 kill | no network mixes two attempts but the first, and that only for an attempt whose ADD_NETWORK got a FAIL; Connected leaves only the network asked for to be joined, with its own name and key; Idle leaves none but what a killed process left |
| `ble_scan_shared` | 2 centrals, 1 Unix client, 2 scans, 1 dropped connection | slices are within bounds, undisturbed transfers are whole, Finished comes with results |
| `ble_connect_shared` | 2 centrals that may drop their connections, 2 networks, 1 accepted connect and any number that are refused, 1 disconnect, 3 parts in the buffer | an undisturbed central connects to its own network with its own key; nothing is left behind |
| `authorization` | 2 centrals, 3 keys, 7 ticks, timeout of 2 | the grant is recent, nobody is admitted before it, a central with a right key is not turned away before its timeout has passed |
| `unix_socket` | 2 clients, 2 lines of 10 kinds in all | answers in order, no outcome told before its time |
| `unix_live` | 2 clients, 2 lines of 6 kinds in all | requests are answered whatever the other client does, after garbage, too; attempts end |
| `service_lifecycle` | one program of 7 kinds, or two with one path; 2 signals, crashes or I/O errors | somebody listens at a path that programs take from one another; `main` waits for something; no failure of BLE takes a listener away; a signal ends the program though BlueZ is silent; a client is served, by the next process if need be, unless its program fails or takes its own socket away |

The services, under both transports and the backend, are checked through
`INSTANCE` or `EXTENDS`: the type invariants of the modules above contain those
of the services, whose actions they use as they are.

**Why the bounds are enough.** The services treat all callers alike and keep
only the last outcome, so that what can go wrong takes at most an older task, a
newer one, a caller of each, and one reset or disconnect to let the older task
stray: two scans and a reset, two attempts and two disconnects contain every such
meeting. One kill has an attempt before it and one after. Two lists let one scan
miss its own and take it in the next; the lines of `MCLists` have channels of
both bands, frequencies between and above them, values that do not fit their
types, and a line that was cut off. On the socket two lines are a client that
pipelines, or two clients that meet; in `unix_live` they ask for no scan, whose
end is `ScanEnds`. Three parts in the SSID buffer are a whole
name and a part of another. In TLC's instance both names are cut inside a
character, so that the two networks are interchangeable and most mixtures of
names are refused as no text; the theorems are for any names. The chunk size is 2 and the texts have 3 and 4 bytes:
a text that ends inside a chunk and one that ends with a chunk; the real numbers
(100 bytes, some thousands) differ only in how many whole chunks come before. A
timeout of 2 ticks has an instant inside and 7 ticks let it pass twice. Two
faults let a program be told to stop while it fails, or fail twice. For
all the safety properties the theorems below remove the bounds.

The channel table is evaluated over every value of a `u16`, and over all channels
of the 2.4 GHz band (`TableIsRight`).

A bound on accepted operations is in the guard of the operation (`scans <
MaxScans`); where a handler would be left waiting because of it, the bound is
applied to the request instead (`Room`), so that it never looks like a deadlock
or excuses a liveness property.

**Fairness.** Weak fairness on the steps of background tasks (tokio polls a task
that can go on, and `backend.scan`, `connect`, `status` and `disconnect` return:
each is a sequence of socket requests with the timeout of the wpactrl client
and, in `scan`, a three-second sleep), on the loop of a client of the socket,
and on nothing a client does. In `ServiceLifecycle`: on `main` outside BlueZ, on
the steps of `get_listener` and `accept`, on the return of a blocking thread, and
on the start of the program by the service manager; none on the radio, on
clients, or on any answer of BlueZ. Weak fairness is enough: no lock is held
across an await on anything but another lock that is released at once.

**Symmetry** is used in safety runs only, over callers, networks, centrals and
clients, none of which a specification names.

**Sensitivity.** For each property of each passing run there is a slip: a
definition `Name_Slip` in front of `Name` (where Slip says what slipped:
`CanStart_Always`, `Collect_Unslept`) that changes it the way a mistake in
that code would (the guard of `start_scan` dropped, the sleep before SCAN_RESULTS
left out, the offset not reset, the buffers half cleared, a refused
connect taken for an accepted one, the authorization's deadline asked for the flag, a blank line answered,
a failed start of BLE always fatal, ...). With the slip in place of the
definition the run reports the property violated. The pairs are listed as
"mutants" in `PROJECT.json`.

## 4. Where the code and its documents disagree

Each of these is a run of its own whose one property is the sentence quoted, and
which TLC refutes:

| run | the sentence | what happens |
|---|---|---|
| `connection_associated` | "2: Success (scan complete/connected)" (README.md:176) | Connected is published whatever the status call says of the link |
| `authorization_expiry` | "grants 5-minute authorization" (README.md:169) | the flag the handlers ask never expires |
| `gatt_published` | "The BLE interface exposes three GATT services" (README.md:149) | `register` drops the handle of the application at the end of the statement (gatt.rs:222), which unregisters it before the event loop runs |

What the BLE modules show, they show of an application that is kept published,
as `register` means it to be.

The models, or the reading they took, show these as well; no run is kept for them:

- "Connected network SSID (if connected)" (types.rs:85): a disconnect during an
  attempt leaves Connected without an SSID.
- "-32602 Invalid params" (Unix client README:230): a PSK of 64 bytes with a
  character across two pairs of them makes `decode_psk` panic (request.rs:48);
  the client's connection ends without an answer.
- "-32700 Parse error" (Unix client README:227): a line that does not parse is
  not answered (`SkipGarbage`).
- "Returns an error if a scan is already in progress" (scanner.rs:95): a reset
  during a scan lets a second one start beside it. Nothing calls `reset` today.
- "returns the discovered networks" (wifi_backend.rs:16): `scan` takes the list
  held after three seconds, which may be older than the call
  (`FreshForCallerIfPrompt` says when it is not).
- "Read JSON array of discovered networks in 100-byte chunks" (web client
  README:42): a scan that finishes in mid-transfer changes the text under the
  offset; hence `undisturbed` in `UndisturbedTransferIsWhole`.
- "Start scan should reset offset" (characteristics.rs:570): a read that has
  located its chunk stores the end of it after another central's reset.
- "Network SSID (up to 32 bytes UTF-8)" (wifi_backend.rs:23): what a refused
  connect, or a central that dropped its connection, left is prefixed to the
  next name and sent on; hence `abandoned` in
  `NothingLeftBehind`.
- "Connect to a WiFi network using SSID and pre-shared key"
  (wifi_backend.rs:20): a FAIL that answers
  ADD_NETWORK is passed on as the network id, and the further commands write over
  the first network; hence the exception in `OwnCredentials`. That `connect` then
  returns Ok excuses refused commands in `OnlyTargetJoinable`.
- "Scan already in progress" (jsonrpc.rs:111): also said of a connect that meets
  another connect (`HandleConnect`).
- README.md:156 and 163 give the state characteristics notifications and
  README.md:218 those of the socket: the `notify` flags are off (gatt.rs:113,
  210) and nothing is ever sent. The web client subscribes all the same, and
  reads a count of records from, and selects them by, the characteristic that
  takes only control commands here.
- README.md:193 has a method `authorize` and README.md:208 a passphrase for a
  PSK: requests have no such method, and a PSK is 64 hexadecimal digits.
- README.md:143: "All transports and background tasks are properly cleaned up on
  shutdown". `stop` and `unregister` have no caller; the file at the path and
  the discoverable adapter stay. Starting again copes with the file
  (`SomebodyListens`), and so a second program with the same path displaces the
  first silently.
- A start of BLE that fails half-way leaves the adapter powered and discoverable.
- A program all of whose transports have ended exits with success, and so
  `Restart=on-failure` does not start it again.
- README.md:241 and `Type=notify` in the unit promise a notification of systemd,
  which no line sends; the unit passes `-b`, and the program knows no such option;
  clients look for `omnectWifiConfig`, and the program is called `WiFi-Setup`.

## 5. Proofs

TLAPS (`tlapm ScanProofs.tla`, and likewise the other modules of that name) checks the theorems for every set of callers, centrals, networks and
programs and every value of the bounds, from the named assumptions of the modules
alone (the bounds are natural numbers, `NoSsid` is no SSID, texts are not empty,
...). A property is seldom inductive as it stands; each module of proofs defines
an invariant that is, `IInv` or one named for what it says, proves `Init => IInv`
and `IInv /\ [Next]_vars => IInv'` with one step per action or kind of step, and
gets the invariants of the runs from it.

**The services** (`ScanProofs`, `ConnectionServiceProofs`). `IInv` says in
addition

- where the tasks are: a task is `unborn` exactly if its number is beyond the
  count of accepted operations;
- what each state means: Scanning (Connecting) has the last task in flight, an
  outcome has its number and no other;
- without strays, that only the last task can be in flight and only in that
  state: this is what the guard of `start_scan` gives, and what keeps a late task
  from publishing over a later outcome;
- that no ticket and no number in a caller's hands is beyond the count, and that
  what a caller holds is at least its ticket once it read after it.

`StableOutcome` is the action property from the same invariant. `KeepsPromise` is
the refinement, for every order of resets, disconnects and late tasks: every
initial state maps to an initial state of `AsyncOperation`, and every step to
`Start`, `Settle`, `Withdraw` or a stutter. It rests on the part of `IInv` that
ties the state to the numbers on display, and on the task that publishes being
one of `InFlight` and leaving it.

**What uses the services.** `ServiceUnchanged` (`WpactrlScan` over `ScanService`),
`ImplementsService` (`BleScan` over `ScanService`, `WpactrlBackend` and
`BleConnect` over `ConnectionService`) and `ImplementsServices` (`UnixSocket` over
both) show every step of the composition to be a step of the
service or to leave it alone, so that the theorems about the services hold there.

**The scan of the backend** (`ScanProofs`). `PromptScansAreFresh` needs
that later tasks were asked for later and nothing runs backwards
(`ListsAreOrdered`), what a task that is not late knows when it wakes
(`WokeOnTime`), and that this survives in what it took, published, and callers
read (`TookNewer`). The freshness of the service (`FreshResults`) does the rest.
`ChannelIsRight` says of the table that it gives no frequency a channel but its
own, `BandIsKnown` that no channel of the 2.4 GHz band is missing from it.

**The parser of SCAN_RESULTS** (`ScanProofs`). `ParsedUpTo` is the loop over the
lines as a recursive function, and `ParserKeepsLines` holds for every sequence of
lines, as long as may be: every network comes from a line with columns enough,
every such line has one, and they are in the order of the list. The induction is
over a set, not over an operator: the turns after which `KeepsLines` holds contain
the first and, with each, the next, and were one left out there would be a least
one (`InductionUpTo`, from the well-foundedness of < on the natural numbers); that
the recursive function exists at all, so that a turn is what its equation says,
is shown the same way (`LoopRuns`). With the channel table this gives
`NetworksAreThoseOfTheList` for every list of the radio.

**The Unix socket** (`UnixSocketProofs`). Two invariants:

- `CountInv`, for the order of the answers. A handler has answered as many
  requests as there are among the lines it has read, the one it is at excepted
  (`Counted`), whatever lines that are no requests lie between them, and what a
  client has sent is finite, so that there is room for a line of its own
  (`RoomIsLeft`). Every step is one of seven kinds of move of one client or none
  (`StepsAreMoves`), and the count is argued over these. `Placed` says where a
  handler is while its connection or its call is not at rest.
- `FactInv`, for what is told. A state on display has a task behind it that
  published it (`ScanFacts`, `ConnFacts`), what was published stays so
  (`FactsStay`), and a response that is ready says nothing else
  (`AnswersAreFacts`). As published tasks never become unpublished, it does no
  harm that the state a response shows is read after the step that handled the
  request, nor that the response is written later still.

**The commands of the backend** (`WpactrlBackendProofs`). `OwnCredentialsAlways`
needs to know whose a network is: what is written into one is of an attempt whose
commands go there, the one that added it or, in the first network, one whose
ADD_NETWORK got a FAIL (`Owner`, `Owned`); no two attempts have the same
(`Distinct`), and an attempt
that has one never adds another, because an ADD_NETWORK that was obeyed but
reported an error has ended it (`AddsOne`). `TargetAlone` and `IdleInherits` come
from `JoinInv`: without overlaps one attempt runs at most, what it has done so far
is what its commands say, the name and the key in its network included
(`Prepared`), once it has sent them all its network may
be joined alone or a disconnect came since (`Reached`), and a disconnect about to
clear the state was obeyed (`Cleared`). All of them hold across restarts.

**The scan characteristics** (`BleScanProofs`). A central that nobody disturbed
is in step (`UndisturbedInStep`): it has the beginning of the text on display up
to the shared offset, or nothing at the offset 0, and its handler works on the
same text and offset. That slices are within bounds follows from the lengths of
the texts alone, whatever the interleaving.

**The connect characteristics** (`BleConnectProofs`). The buffers hold what an
undisturbed central has written so far, and the copies of its handler are equal
to them (`UndisturbedHasBuffers`); what the buffers hold is of a central that has
begun, of a request that failed, or of a central that went away
(`BuffersHaveOwner`).

**Authorization** (`AuthorizationProofs`). Every deadline, stored or still in a
handler's hands, is covered by some central's right key (`Deadlines`), whatever
follows from a right key has one behind it (`Grants`), and once the handler of a
right key has returned the flag of the session is up (`Remembered`).
`AcceptedAreServed` rests on the handlers asking this flag: over the deadline,
which another handler may set back, it would not hold, as the slip
`Passes_WhileAuthorized` shows. What the flag gives beyond the timeout is no
promise of the program but the finding of `authorization_expiry`.

**The life cycle** (`ServiceLifecycleProofs`). `Structure` says which tasks each
phase has and that the file at the path is of a program that listens. For
`SomebodyListens` it takes `Succession`: whoever is through leaves a listener, or
somebody about to bind; a file that must be removed is there until somebody is;
and nobody is about to bind over a dead one.

**Only model-checked**: liveness (`ScanEnds`, `AttemptEnds`,
`RequestsAreAnswered`, `SignalIsObeyed`, `ClientIsServed`), which is out of this
prover's reach.

## 6. Not modelled

- The mock backend, the tests, the example clients: not part of the program.
- `error.rs`, and the conversions of the domain and protocol types: names and
  formats. What decides over them is modelled where it is used (`decode_psk`, a
  line that does not parse, the parser of SCAN_RESULTS).
- `AuthorizationService::clear`, `stop`, `unregister`, `send_notification` and
  `CharacteristicNotifier`: no caller. `config/settings.rs`: no user.
- Of `status` in the backend, the lookup of the SSID, which nothing uses; of the
  options, those that decide about names and paths only.
- A link that is lost later: the program has no step that would notice.

## 7. Plan

What is left: one composition of both transports over both services, if TLC can
bear it. The theorems about the services hold there by the argument of
`ImplementsServices`, and those about either transport as far as the other is
among the callers already (`Others` of `BleScan`).

The list of runs stays short: a new question takes the place of a lesser one.
