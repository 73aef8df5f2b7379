------------------------------- MODULE BleScan -------------------------------
(***************************************************************************)
(* The scan characteristics of the GATT server                             *)
(* (transport/ble/characteristics.rs) over the scanning service.           *)
(*                                                                         *)
(* A handler is an async function: it runs from one await to the next, and *)
(* the handlers of different centrals, the background tasks and the other  *)
(* transport interleave at the awaits.  One CharacteristicHandler, and so  *)
(* one result_offset, serves every central.  A central has one request     *)
(* outstanding at a time, as its ATT bearer requires.                      *)
(*                                                                         *)
(* The results leave in chunks of MaxChunk bytes of their JSON text.  What *)
(* matters of that text is its length, and which part of it a chunk is.    *)
(*                                                                         *)
(* A definition Name_Slip is a mistake that the properties have to notice: *)
(* see "Sensitivity" in the README.                                        *)
(***************************************************************************)
EXTENDS Naturals, FiniteSets, GattApplication

CONSTANTS
    Centrals,           \* the BLE clients
    Others,             \* handlers of the Unix socket that start scans, too
    MaxScans,           \* bound: how many scans are accepted
    MaxReconnects,      \* bound: how often a central drops its connection
    MaxChunk,           \* MAX_CHUNK_SIZE: 100 bytes in the code
    Length              \* the bytes of JSON that each scan's results fill

ASSUME BleScanAssumption ==
    /\ MaxScans \in Nat /\ MaxReconnects \in Nat
    /\ MaxChunk \in Nat \ {0}
    /\ Length \in [1..MaxScans -> Nat \ {0}]    \* "[]" at least

VARIABLES
    \* ScanService
    scanState, scanResults, scanError, scans, task, reply, got, ticket,
    resets, strays,
    \* BleSession and CharacteristicHandler, shared by all centrals
    authorized,         \* BleSession.authorized
    offset,             \* result_offset
    \* the handler that serves each central
    pc,                 \* where it is
    at,                 \* the offset it read, 0 outside the handler
    \* the centrals
    response,           \* what the last request returned, if it has
    doc,                \* the part of a JSON text received in this transfer
    transfer,           \* how the last transfer ended
    \* history
    reconnects,         \* how many connections were dropped
    undisturbed         \* the centrals that had the service to themselves since
                        \* the last scan they asked for

Scan == INSTANCE ScanService WITH
    Callers <- Centrals \cup Others, MaxResets <- 0

scanVars == <<scanState, scanResults, scanError, scans, task, reply, got,
              ticket, resets, strays>>
clientVars == <<response, doc, transfer>>
history == <<reconnects, undisturbed>>
bleVars == <<authorized, offset, pc, at, clientVars, history>>
vars == <<scanVars, bleVars>>

\* No part of any text.
Nothing == [scan |-> 0, upto |-> 0]
\* Parts that do not add up to the beginning of one text.
Broken == [scan |-> 0, upto |-> 1]

Init ==
    /\ Scan!Init
    /\ authorized = FALSE
    /\ offset = 0
    /\ pc = [c \in Centrals |-> "idle"]
    /\ at = [c \in Centrals |-> 0]
    /\ response = [c \in Centrals |-> "none"]
    /\ doc = [c \in Centrals |-> Nothing]
    /\ transfer = [c \in Centrals |-> "none"]
    /\ reconnects = 0 /\ undisturbed = {}

\* What central c does to the offset and the results disturbs all the others.
Disturb(c) == undisturbed' = undisturbed \cap {c}

Respond(c, r) == response' = [response EXCEPT ![c] = r]
Goto(c, l) == pc' = [pc EXCEPT ![c] = l]

-----------------------------------------------------------------------------
(* The session: the flag that check_authorized reads.                       *)

\* handle_auth_write with the right key (Authorization has all of it).
Authorize(c) ==
    /\ Takes(AUTH_KEY, "write") /\ pc[c] = "idle" /\ ~authorized
    /\ authorized' = TRUE
    /\ Respond(c, "Ok")
    /\ UNCHANGED <<scanVars, offset, pc, at, doc, transfer, history>>

\* Every handler returns here when the session is not authorized.  The flag is
\* never cleared, so the check and the handler's first effect are one step.
NotAuthorized(c) ==
    /\ pc[c] = "idle" /\ ~authorized
    /\ Respond(c, "NotAuthorized")
    /\ UNCHANGED <<scanVars, authorized, offset, pc, at, doc, transfer, history>>

\* The request reaches its handler, which goes on.
Enter(c, ch, op) == Takes(ch, op) /\ pc[c] = "idle" /\ authorized

\* A request the characteristic does not take, such as to subscribe to a state,
\* to read the control or to write the state, does not reach the program.
NotSupported(c) ==
    /\ pc[c] = "idle"
    /\ \E ch \in DOMAIN build_scan_service, op \in Operations : ~Takes(ch, op)
    /\ Respond(c, "NotSupported")
    /\ UNCHANGED <<scanVars, authorized, offset, pc, at, doc, transfer, history>>

-----------------------------------------------------------------------------
(* handle_scan_control_write                                                *)

\* The bound on scans, kept free for the handlers that are about to start one.
Room == scans + Cardinality({c \in Centrals : pc[c] = "control"}) < MaxScans

OffsetOnControl_Keep == offset
OffsetOnControl == 0

\* The value is 1: the offset goes back to the start before the service is
\* asked.  The central gives up whatever it had received.
ControlWrite(c) ==
    /\ Enter(c, SCAN_CONTROL, "write") /\ Room
    /\ offset' = OffsetOnControl
    /\ doc' = [doc EXCEPT ![c] = Nothing]
    /\ transfer' = [transfer EXCEPT ![c] = "none"]
    /\ Goto(c, "control") /\ Respond(c, "none")
    /\ undisturbed' = {c}
    /\ UNCHANGED <<scanVars, authorized, at, reconnects>>

\* service.start_scan() returns Ok, or OperationInProgress and the offset stays
\* at the start all the same.
ControlStart(c) ==
    /\ pc[c] = "control"
    /\ \/ Scan!StartScan(c) /\ Respond(c, "Ok") /\ Disturb(c)
       \/ Scan!RefuseScan(c) /\ Respond(c, "Failed") /\ UNCHANGED undisturbed
    /\ Goto(c, "idle")
    /\ UNCHANGED <<authorized, offset, at, doc, transfer, reconnects>>

\* An empty value, or one that is not 1.
ControlInvalid(c) ==
    /\ Enter(c, SCAN_CONTROL, "write")
    /\ Respond(c, "InvalidValueLength")
    /\ UNCHANGED <<scanVars, authorized, offset, pc, at, doc, transfer, history>>

-----------------------------------------------------------------------------
(* handle_scan_state_read                                                   *)

StateRead(c) ==
    /\ Enter(c, SCAN_STATE, "read")
    /\ Respond(c, scanState)
    /\ UNCHANGED <<scanVars, authorized, offset, pc, at, doc, transfer, history>>

-----------------------------------------------------------------------------
(* handle_scan_results_read                                                 *)

Least(m, n) == IF m <= n THEN m ELSE n

\* What the central makes of the bytes from..to of the text of scan s.
Received(c, s, from, to) ==
    doc' = [doc EXCEPT ![c] =
        IF \/ @ = Nothing /\ from = 0
           \/ @.scan = s /\ @.upto = from
        THEN [scan |-> s, upto |-> to]
        ELSE Broken]

\* An empty answer ends the transfer; one that had not begun has no outcome.
TransferEnds(c) ==
    /\ Respond(c, "empty")
    /\ transfer' = [transfer EXCEPT ![c] =
          CASE doc[c] = Nothing -> @
            [] doc[c] = Broken -> "broken"
            [] OTHER -> IF doc[c].upto = Length[doc[c].scan] THEN "whole" ELSE "broken"]
    /\ doc' = [doc EXCEPT ![c] = Nothing]

\* Without results the answer is empty and the offset stays where it is.
ResultsNone(c) ==
    /\ Enter(c, SCAN_RESULTS, "read")
    /\ scanResults = 0
    /\ Scan!ReadResults(c)
    /\ TransferEnds(c)
    /\ UNCHANGED <<authorized, offset, pc, at, history>>

\* The handler takes its own copy of the results...
ResultsCopy(c) ==
    /\ Enter(c, SCAN_RESULTS, "read")
    /\ scanResults # 0
    /\ Scan!ReadResults(c)
    /\ Goto(c, "copied") /\ Respond(c, "none")
    /\ UNCHANGED <<authorized, offset, at, doc, transfer, history>>

\* ... reads the shared offset ...
ResultsOffset(c) ==
    /\ pc[c] = "copied"
    /\ at' = [at EXCEPT ![c] = offset]
    /\ Goto(c, "located")
    /\ UNCHANGED <<scanVars, authorized, offset, clientVars, history>>

\* ... and, past the end of its copy, starts over,
AtEnd(c) == at[c] >= Length[got[c]]

OffsetAtEnd(c) == 0

ResultsEnd(c) ==
    /\ pc[c] = "located" /\ AtEnd(c)
    /\ offset' = OffsetAtEnd(c)
    /\ TransferEnds(c)
    /\ Disturb(c)
    /\ Goto(c, "idle") /\ at' = [at EXCEPT ![c] = 0]
    /\ UNCHANGED <<scanVars, authorized, reconnects>>

\* or serves the next chunk of it and moves the shared offset behind it.
ChunkEnd_Uncapped(c) == at[c] + MaxChunk
ChunkEnd(c) == Least(at[c] + MaxChunk, Length[got[c]])

ResultsChunk(c) ==
    /\ pc[c] = "located" /\ ~AtEnd(c)
    /\ offset' = ChunkEnd(c)
    /\ Received(c, got[c], at[c], ChunkEnd(c))
    /\ Respond(c, "chunk")
    /\ Disturb(c)
    /\ Goto(c, "idle") /\ at' = [at EXCEPT ![c] = 0]
    /\ UNCHANGED <<scanVars, authorized, transfer, reconnects>>

-----------------------------------------------------------------------------
(* The environment                                                          *)

\* The central drops its connection and comes back: it forgets what it had
\* received, and the server keeps the offset.
Reconnect(c) ==
    /\ reconnects < MaxReconnects /\ pc[c] = "idle"
    /\ reconnects' = reconnects + 1
    /\ doc' = [doc EXCEPT ![c] = Nothing]
    /\ undisturbed' = undisturbed \ {c}
    /\ UNCHANGED <<scanVars, authorized, offset, pc, at, response, transfer>>

\* A scan over the Unix socket.
OtherScan(u) ==
    /\ Room
    /\ \/ Scan!StartScan(u) /\ undisturbed' = {}
       \/ Scan!RefuseScan(u) /\ UNCHANGED undisturbed
    /\ UNCHANGED <<authorized, offset, pc, at, clientVars, reconnects>>

Background(t) ==
    /\ Scan!BackendScan(t) \/ Scan!CompleteScan(t) \/ Scan!FailScan(t)
    /\ UNCHANGED bleVars

Next ==
    \/ \E c \in Centrals :
          \/ Authorize(c) \/ NotAuthorized(c) \/ NotSupported(c)
          \/ ControlWrite(c) \/ ControlStart(c) \/ ControlInvalid(c)
          \/ StateRead(c)
          \/ ResultsNone(c) \/ ResultsCopy(c) \/ ResultsOffset(c)
          \/ ResultsEnd(c) \/ ResultsChunk(c)
          \/ Reconnect(c)
    \/ \E u \in Others : OtherScan(u)
    \/ \E t \in Scan!Scans : Background(t)

Spec == Init /\ [][Next]_vars

-----------------------------------------------------------------------------
(* Properties                                                               *)

\* The offset lies within some text.
Offsets == {0} \cup UNION {0..Length[t] : t \in Scan!Scans}

\* The types of the variables.
TypeOK ==
    /\ Scan!TypeOK
    /\ authorized \in BOOLEAN
    /\ offset \in Offsets
    /\ pc \in [Centrals -> {"idle", "control", "copied", "located"}]
    /\ at \in [Centrals -> Offsets]
    /\ response \in [Centrals -> {"none", "Ok", "Failed", "NotAuthorized",
                        "NotSupported", "InvalidValueLength", "empty", "chunk"} \cup Scan!ScanStates]
    /\ doc \in [Centrals -> [scan : 0..MaxScans, upto : Offsets]]
    /\ transfer \in [Centrals -> {"none", "whole", "broken"}]
    /\ reconnects \in 0..MaxReconnects
    /\ undisturbed \in SUBSET Centrals

\* The slice bytes[offset..end] a handler takes is within the copy it took the
\* results from, whoever moved the shared offset in the meantime, and it is
\* not empty: the program does not panic and an empty answer always means
\* the end.
SliceInBounds ==
    \A c \in Centrals : pc[c] = "located" /\ ~AtEnd(c) =>
        /\ got[c] # 0
        /\ at[c] < ChunkEnd(c) /\ ChunkEnd(c) <= Length[got[c]]
        /\ ChunkEnd(c) - at[c] <= MaxChunk

\* A central that asked for a scan, and that nobody disturbed since, has received
\* the whole JSON text of one scan when its transfer comes to its end: no byte
\* is lost, repeated, or taken from another scan.
UndisturbedTransferIsWhole == \A c \in undisturbed : transfer[c] # "broken"

\* A central that had the service to itself and was told that its scan is
\* finished finds results, however its own requests to scan were repeated.
FinishedMeansResults ==
    \A c \in undisturbed : response[c] = "Finished" => scanResults # 0
=============================================================================
