----------------------------- MODULE UnixSocket -----------------------------
(***************************************************************************)
(* The Unix socket transport (transport/unix_socket) over the scanning and *)
(* the connection service.                                                 *)
(*                                                                         *)
(* One task per client reads a line, handles it and writes the response,   *)
(* and only then reads the next line.  Clients write as many lines as they *)
(* like meanwhile, shut down their side or go away, and the handlers of    *)
(* the clients interleave at their awaits.                                 *)
(*                                                                         *)
(* A line is represented by what it is, and its place among the lines of   *)
(* its client stands for the id it carries, which the response repeats.    *)
(***************************************************************************)
EXTENDS Naturals, Sequences, FiniteSets

CONSTANTS
    Clients,
    Kinds,              \* the kinds of lines that are sent: a part of Lines
    Ssids, NoSsid,      \* as in ConnectionService
    MaxLines,           \* bound: how many lines are sent
    MaxScans,           \* bound: how many scan requests are sent
    MaxAttempts,        \* bound: how many connect requests are sent
    MaxDisconnects      \* bound: how many disconnect requests are sent

\* The requests of the protocol.  A connect request comes with a PSK of 64 hex
\* digits, with a bad one, or with one in which a character of several bytes
\* lies across two of its 32 pairs of bytes.
BadConnects == {"connect bad psk", "connect torn psk"}
Requests == {"scan", "get_scan_results", "connect", "disconnect", "get_status"}
    \cup BadConnects

\* Besides these a line can be blank, not parse, or not even be UTF-8.
Lines == Requests \cup {"blank", "garbage", "binary"}

ASSUME UnixSocketAssumption ==
    /\ Kinds \subseteq Lines /\ MaxLines \in Nat
    /\ MaxScans \in Nat /\ MaxAttempts \in Nat /\ MaxDisconnects \in Nat
    /\ NoSsid \notin Ssids

VARIABLES
    \* ScanService
    scanState, scanResults, scanError, scans, scanTask, scanReply, got,
    scanTicket, resets, scanStrays,
    \* ConnectionService
    connState, connSsid, ipAddress, connError, attempts, task, target, poll,
    caller, reply, seen, ticket, disconnects, strays,
    \* the clients
    socket,             \* their end of the connection
    asked,              \* the lines they have sent
    received,           \* the responses they have received
    \* handle_client
    pc,                 \* where it is
    read,               \* how many lines it has read
    answer              \* the response it is about to send, or "none"

Scan == INSTANCE ScanService WITH
    Callers <- Clients, MaxResets <- 0, task <- scanTask, reply <- scanReply,
    ticket <- scanTicket, strays <- scanStrays
Conn == INSTANCE ConnectionService WITH Callers <- Clients

scanVars == <<scanState, scanResults, scanError, scans, scanTask, scanReply,
              got, scanTicket, resets, scanStrays>>
connVars == <<connState, connSsid, ipAddress, connError, attempts, task, target,
              poll, caller, reply, seen, ticket, disconnects, strays>>
client == <<socket, asked, received>>
handler == <<pc, read, answer>>
vars == <<scanVars, connVars, client, handler>>

\* What a response says: the state of a scan or of the connection, that the
\* networks follow or all is well, or an error.
Answers == Scan!ScanStates \cup Conn!ConnectionStates \cup
    {"none", "ok", "networks", "scan_in_progress", "invalid_state",
     "invalid_params", "parse_error", "backend_error"}

Init ==
    /\ Scan!Init /\ Conn!Init
    /\ socket = [c \in Clients |-> "none"]
    /\ asked = [c \in Clients |-> <<>>]
    /\ received = [c \in Clients |-> <<>>]
    /\ pc = [c \in Clients |-> "none"]
    /\ read = [c \in Clients |-> 0]
    /\ answer = [c \in Clients |-> "none"]

Goto(c, l) == pc' = [pc EXCEPT ![c] = l]

\* The handler has its response.
Respond(c, a) == Goto(c, "responding") /\ answer' = [answer EXCEPT ![c] = a]

-----------------------------------------------------------------------------
(* The clients                                                              *)

Accept(c) ==
    /\ socket[c] = "none"
    /\ socket' = [socket EXCEPT ![c] = "open"]
    /\ Goto(c, "reading")
    /\ UNCHANGED <<scanVars, connVars, asked, received, read, answer>>

\* The bounds of the services are bounds on what is asked of them.
AllSent == {s \in Clients \X (1..MaxLines) : s[2] <= Len(asked[s[1]])}
Sent(k) == Cardinality({s \in AllSent : asked[s[1]][s[2]] = k})
Room(k) ==
    /\ Cardinality(AllSent) < MaxLines
    /\ k = "scan" => Sent(k) < MaxScans
    /\ k = "connect" => Sent(k) < MaxAttempts
    /\ k = "disconnect" => Sent(k) < MaxDisconnects

Send(c, k) ==
    /\ socket[c] = "open" /\ Room(k)
    /\ asked' = [asked EXCEPT ![c] = Append(@, k)]
    /\ UNCHANGED <<scanVars, connVars, socket, received, handler>>

\* The client shuts down its side and goes on reading, or closes the socket.
Leave(c) ==
    /\ \/ socket[c] = "open" /\ socket' = [socket EXCEPT ![c] = "half"]
       \/ socket[c] \in {"open", "half"} /\ socket' = [socket EXCEPT ![c] = "closed"]
    /\ UNCHANGED <<scanVars, connVars, asked, received, handler>>

-----------------------------------------------------------------------------
(* handle_client: the lines that are not requests                           *)
(* As in ScanService, Name_Slip is a mistake the properties must notice.    *)

NextLineIs(c, k) ==
    pc[c] = "reading" /\ read[c] < Len(asked[c]) /\ asked[c][read[c] + 1] = k

ReadOn(c) == read' = [read EXCEPT ![c] = @ + 1]

SkipBlank_Answer(c) ==
    /\ NextLineIs(c, "blank")
    /\ ReadOn(c) /\ Respond(c, "parse_error")
    /\ UNCHANGED <<scanVars, connVars, client>>
SkipBlank(c) ==
    /\ NextLineIs(c, "blank")
    /\ ReadOn(c)
    /\ UNCHANGED <<scanVars, connVars, client, pc, answer>>

\* What does not parse is logged, and not answered.
SkipGarbage(c) ==
    /\ NextLineIs(c, "garbage")
    /\ ReadOn(c)
    /\ UNCHANGED <<scanVars, connVars, client, pc, answer>>

\* The `?` on read_line: bytes that are no text end the connection, and so
\* does an error on a socket whose client has closed it.
ReadFails(c) ==
    /\ \/ NextLineIs(c, "binary")
       \/ pc[c] = "reading" /\ socket[c] = "closed"
    /\ Goto(c, "gone")
    /\ UNCHANGED <<scanVars, connVars, client, read, answer>>

ReadEof(c) ==
    /\ pc[c] = "reading" /\ read[c] = Len(asked[c])
    /\ socket[c] \in {"half", "closed"}
    /\ Goto(c, "gone")
    /\ UNCHANGED <<scanVars, connVars, client, read, answer>>

-----------------------------------------------------------------------------
(* RequestHandler: a request and the first critical section of its handler  *)
(* are one step, since what precedes it concerns nobody else.               *)

\* start_scan()
HandleScan(c) ==
    /\ NextLineIs(c, "scan") /\ ReadOn(c)
    /\ \/ Scan!StartScan(c) /\ Goto(c, "scan started") /\ UNCHANGED answer
       \/ Scan!RefuseScan(c) /\ Respond(c, "scan_in_progress")
    /\ UNCHANGED <<connVars, client>>

\* The response to a scan request shows the state some time later.
ScanStarted(c) ==
    /\ pc[c] = "scan started"
    /\ Respond(c, scanState)
    /\ UNCHANGED <<scanVars, connVars, client, read>>

HandleGetScanResults(c) ==
    /\ NextLineIs(c, "get_scan_results") /\ ReadOn(c)
    /\ Scan!ReadResults(c)
    /\ Respond(c, IF scanResults = 0 THEN "invalid_state" ELSE "networks")
    /\ UNCHANGED <<connVars, client>>

BadPsk_Silent(c) ==
    /\ NextLineIs(c, "connect bad psk") /\ ReadOn(c)
    /\ UNCHANGED <<scanVars, connVars, client, pc, answer>>
BadPsk(c) ==
    /\ NextLineIs(c, "connect bad psk") /\ ReadOn(c)
    /\ Respond(c, "invalid_params")
    /\ UNCHANGED <<scanVars, connVars, client>>

\* decode_psk slices a string in the middle of a character: the handler panics,
\* and its task ends with the connection.  It holds no lock.
TornPsk(c) ==
    /\ NextLineIs(c, "connect torn psk") /\ ReadOn(c)
    /\ Goto(c, "gone")
    /\ UNCHANGED <<scanVars, connVars, client, answer>>

\* connect(): a refusal is reported as a scan in progress, too.
HandleConnect(c) ==
    /\ NextLineIs(c, "connect") /\ ReadOn(c)
    /\ \/ /\ \E s \in Ssids : Conn!Connect(c, s)
          /\ Goto(c, "connect started") /\ UNCHANGED answer
       \/ Conn!RefuseConnect(c) /\ Respond(c, "scan_in_progress")
    /\ UNCHANGED <<scanVars, client>>

ConnectStarted_Ok(c) ==
    /\ pc[c] = "connect started"
    /\ Respond(c, "Connected")
    /\ UNCHANGED <<scanVars, connVars, client, read>>
ConnectStarted(c) ==
    /\ pc[c] = "connect started"
    /\ Respond(c, connState)
    /\ UNCHANGED <<scanVars, connVars, client, read>>

HandleDisconnect(c) ==
    /\ NextLineIs(c, "disconnect") /\ ReadOn(c)
    /\ Conn!CallDisconnect(c)
    /\ Goto(c, "disconnecting")
    /\ UNCHANGED <<scanVars, client, answer>>

DisconnectWait(c) ==
    /\ Conn!BackendDisconnect(c)
    /\ UNCHANGED <<scanVars, client, handler>>

DisconnectDone(c) ==
    /\ \/ Conn!BackendDisconnectFails(c) /\ Respond(c, "backend_error")
       \/ Conn!Clear(c) /\ Respond(c, "ok")
    /\ UNCHANGED <<scanVars, client, read>>

HandleGetStatus(c) ==
    /\ NextLineIs(c, "get_status") /\ ReadOn(c)
    /\ Conn!ReadStatus(c)
    /\ Respond(c, connState)
    /\ UNCHANGED <<scanVars, client>>

-----------------------------------------------------------------------------
(* UnixSocketSession::send_response                                         *)

SendResponse(c) ==
    /\ pc[c] = "responding" /\ socket[c] # "closed"
    /\ received' = [received EXCEPT ![c] =
                        Append(@, [id |-> read[c], is |-> answer[c]])]
    /\ Goto(c, "reading") /\ answer' = [answer EXCEPT ![c] = "none"]
    /\ UNCHANGED <<scanVars, connVars, socket, asked, read>>

\* Writing to a client that has gone fails, and ends the loop with lines
\* unread; what the request has started goes on.
SendFails(c) ==
    /\ pc[c] = "responding" /\ socket[c] = "closed"
    /\ Goto(c, "gone") /\ answer' = [answer EXCEPT ![c] = "none"]
    /\ UNCHANGED <<scanVars, connVars, client, read>>

-----------------------------------------------------------------------------
\* The background tasks of the services.
ScanTask(t) ==
    /\ Scan!BackendScan(t) \/ Scan!CompleteScan(t) \/ Scan!FailScan(t)
    /\ UNCHANGED <<connVars, client, handler>>

ConnectTask(t) ==
    /\ Conn!BackendReturns(t) \/ Conn!CompleteConnect(t) \/ Conn!FailConnect(t)
    /\ UNCHANGED <<scanVars, client, handler>>

Handle(c) ==
    \/ SkipBlank(c) \/ SkipGarbage(c) \/ ReadFails(c) \/ ReadEof(c)
    \/ HandleScan(c) \/ ScanStarted(c) \/ HandleGetScanResults(c)
    \/ BadPsk(c) \/ TornPsk(c) \/ HandleConnect(c) \/ ConnectStarted(c)
    \/ HandleDisconnect(c) \/ DisconnectWait(c) \/ DisconnectDone(c)
    \/ HandleGetStatus(c)
    \/ SendResponse(c) \/ SendFails(c)

\* Everything the program and its clients may do has been done.
Finished ==
    /\ \A c \in Clients : pc[c] = "gone"
    /\ Scan!InFlight = {} /\ Conn!InFlight = {}
    /\ UNCHANGED vars

Next ==
    \/ \E c \in Clients :
          \/ Accept(c) \/ (\E k \in Kinds : Send(c, k)) \/ Leave(c)
          \/ SkipBlank(c) \/ SkipGarbage(c) \/ ReadFails(c) \/ ReadEof(c)
          \/ HandleScan(c) \/ ScanStarted(c) \/ HandleGetScanResults(c)
          \/ BadPsk(c) \/ TornPsk(c) \/ HandleConnect(c) \/ ConnectStarted(c)
          \/ HandleDisconnect(c) \/ DisconnectWait(c) \/ DisconnectDone(c)
          \/ HandleGetStatus(c)
          \/ SendResponse(c) \/ SendFails(c)
    \/ \E t \in Scan!Scans : ScanTask(t)
    \/ \E t \in Conn!Attempts : ConnectTask(t)
    \/ Finished

Spec == Init /\ [][Next]_vars

\* The runtime runs handlers and tasks that can go on, and the backend answers.
Fairness ==
    /\ \A c \in Clients : WF_vars(Handle(c))
    /\ \A t \in Scan!Scans : WF_vars(ScanTask(t))
    /\ \A t \in Conn!Attempts : WF_vars(ConnectTask(t))

FairSpec == Spec /\ Fairness

-----------------------------------------------------------------------------
(* Properties                                                               *)

\* The types of the variables.
TypeOK ==
    /\ Scan!TypeOK /\ Conn!TypeOK
    /\ socket \in [Clients -> {"none", "open", "half", "closed"}]
    /\ asked \in [Clients -> Seq(Kinds)]
    /\ \A c \in Clients : Len(asked[c]) <= MaxLines
    /\ received \in [Clients -> Seq([id : 1..MaxLines, is : Answers])]
    /\ pc \in [Clients -> {"none", "reading", "scan started", "connect started",
                           "disconnecting", "responding", "gone"}]
    /\ read \in [Clients -> 0..MaxLines]
    /\ answer \in [Clients -> Answers]

\* The lines of client c that are requests.
RequestsOf(c) == {i \in DOMAIN asked[c] : asked[c][i] \in Requests}

\* A client that sends several requests without waiting gets one response for
\* each of them, in their order, with nothing in between for the lines that are
\* no requests: it may match responses to requests by counting.
AnswersInOrder ==
    \A c \in Clients : \A j \in DOMAIN received[c] :
        /\ received[c][j].id \in RequestsOf(c)
        /\ Cardinality({i \in RequestsOf(c) : i < received[c][j].id}) = j - 1

\* No client is told of a success or a failure before a background task has
\* published one, although the handlers ask for the state in a second critical
\* section, after the one that started the operation.
ToldAfterTheFact ==
    \A c \in Clients : \A j \in DOMAIN received[c] :
        /\ received[c][j].is \in {"Finished", "Error", "networks"} =>
              \E t \in 1..scans : scanTask[t] = "done"
        /\ received[c][j].is = "Connected" =>
              \E t \in 1..attempts :
                  task[t] = "done" /\ poll[t] \in {"down", "no address", "address"}
        /\ received[c][j].is = "Failed" => \E t \in 1..attempts : task[t] = "done"

\* A request that was sent on a connection that both sides keep is answered,
\* whatever the other clients do, and whatever this one sends besides.
Pending(c) ==
    /\ socket[c] \in {"open", "half"} /\ pc[c] # "gone"
    /\ Cardinality(RequestsOf(c)) > Len(received[c])

RequestsAreAnswered == \A c \in Clients : Pending(c) ~> ~Pending(c)

\* An attempt that a client started ends, whether or not the client stays to
\* hear of it: Connecting does not last.
AttemptEnds == Conn!AttemptEnds
=============================================================================
