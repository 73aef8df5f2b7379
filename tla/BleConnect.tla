------------------------------ MODULE BleConnect ------------------------------
(***************************************************************************)
(* The connect characteristics of the GATT server                          *)
(* (transport/ble/characteristics.rs and session.rs) over the connection   *)
(* service.                                                                *)
(*                                                                         *)
(* A central hands over a network in pieces: it writes the SSID in one or  *)
(* more parts, which the session accumulates, then the PSK, and then asks  *)
(* to connect.  All centrals write into the buffers of the one BleSession. *)
(*                                                                         *)
(* Here every name is written in two parts, so that a name is a sequence   *)
(* of two parts and the buffer a sequence of parts.                        *)
(*                                                                         *)
(* A central may drop its connection at any point: nothing tells the       *)
(* session, and what was written stays.                                    *)
(*                                                                         *)
(* A definition Name_Slip is a mistake that the properties have to notice: *)
(* see "Sensitivity" in the README.                                        *)
(***************************************************************************)
EXTENDS Naturals, Sequences, FiniteSets, GattApplication

CONSTANTS
    Centrals,           \* the BLE clients
    Networks,           \* the networks they connect the device to
    MidCharacter,       \* those whose first part ends inside a UTF-8 character
    NoSsid,             \* None of the connection service
    NoNetwork,          \* no network: None of the session's PSK
    MaxParts,           \* bound: how many parts the buffer holds
    MaxAttempts,        \* bound: how many connects are accepted
    MaxDisconnects      \* bound: how many disconnects are requested

ASSUME BleConnectAssumption ==
    /\ MidCharacter \subseteq Networks
    /\ NoNetwork \notin Networks
    /\ MaxParts \in Nat
    /\ MaxAttempts \in Nat /\ MaxDisconnects \in Nat

VARIABLES
    \* ConnectionService
    connState, connSsid, ipAddress, connError, attempts, task, target, poll,
    caller, reply, seen, ticket, disconnects, strays,
    \* BleSession, shared by all centrals
    authorized, ssidBuffer, pskBuffer,
    \* the handler that serves each central
    pc,                 \* where it is
    ssid, psk,          \* what it copied from the session
    \* the centrals
    wants,              \* the network it is handing over
    step,               \* how much of it has been written
    \* history
    undisturbed,        \* the centrals that started on empty buffers and into
                        \* whose network no other central has come
    abandoned           \* 1 if a connect request failed, or a central dropped
                        \* its connection half-way, since the last clear

Part == Networks \X {1, 2}
Name(n) == <<<<n, 1>>, <<n, 2>>>>
Names == UNION {[1..k -> Part] : k \in 0..MaxParts}

Conn == INSTANCE ConnectionService WITH Callers <- Centrals, Ssids <- Names

connVars == <<connState, connSsid, ipAddress, connError, attempts, task, target,
              poll, caller, reply, seen, ticket, disconnects, strays>>
session == <<authorized, ssidBuffer, pskBuffer>>
handler == <<pc, ssid, psk>>
client == <<wants, step>>
history == <<undisturbed, abandoned>>
vars == <<connVars, session, handler, client, history>>

Init ==
    /\ Conn!Init
    /\ authorized = FALSE
    /\ ssidBuffer = <<>> /\ pskBuffer = NoNetwork
    /\ pc = [c \in Centrals |-> "idle"]
    /\ ssid = [c \in Centrals |-> <<>>] /\ psk = [c \in Centrals |-> NoNetwork]
    /\ wants = [c \in Centrals |-> NoNetwork]
    /\ step = [c \in Centrals |-> "start"]
    /\ undisturbed = {} /\ abandoned = 0

Goto(c, l) == pc' = [pc EXCEPT ![c] = l]
Step(c, s) == step' = [step EXCEPT ![c] = s]

\* After a connect request the central starts over.
StartOver(c) == Step(c, "start") /\ wants' = [wants EXCEPT ![c] = NoNetwork]

\* The request reaches its handler, which goes on.
Enter(c, ch, op) == Takes(ch, op) /\ pc[c] = "idle" /\ authorized

\* handle_auth_write with the right key (Authorization has all of it).
Authorize(c) ==
    /\ Takes(AUTH_KEY, "write") /\ pc[c] = "idle" /\ ~authorized
    /\ authorized' = TRUE
    /\ UNCHANGED <<connVars, ssidBuffer, pskBuffer, handler, wants, step, history>>

-----------------------------------------------------------------------------
(* handle_ssid_write and handle_psk_write: one critical section each.  A PSK  *)
(* that is not 32 bytes long changes nothing, nor does any request before     *)
(* the session is authorized.                                                 *)

Appended(part) == Append(ssidBuffer, part)

FirstSsidWrite(c, n) ==
    /\ Enter(c, CONNECT_SSID, "write") /\ Len(ssidBuffer) < MaxParts /\ step[c] = "start"
    /\ ssidBuffer' = Appended(<<n, 1>>)
    /\ wants' = [wants EXCEPT ![c] = n] /\ Step(c, "begun")
    /\ undisturbed' = IF ssidBuffer = <<>> /\ pskBuffer = NoNetwork THEN {c} ELSE {}
    /\ UNCHANGED <<connVars, authorized, pskBuffer, handler, abandoned>>

SecondSsidWrite(c) ==
    /\ Enter(c, CONNECT_SSID, "write") /\ Len(ssidBuffer) < MaxParts /\ step[c] = "begun"
    /\ ssidBuffer' = Appended(<<wants[c], 2>>)
    /\ Step(c, "named")
    /\ undisturbed' = undisturbed \cap {c}
    /\ UNCHANGED <<connVars, authorized, pskBuffer, handler, wants, abandoned>>

PskWrite(c) ==
    /\ Enter(c, CONNECT_PSK, "write") /\ step[c] = "named"
    /\ pskBuffer' = wants[c]
    /\ Step(c, "keyed")
    /\ undisturbed' = undisturbed \cap {c}
    /\ UNCHANGED <<connVars, authorized, ssidBuffer, handler, wants, abandoned>>

-----------------------------------------------------------------------------
(* handle_connect_control_write, value 1                                    *)

\* The buffer is UTF-8 unless a part that ends inside a character is not
\* followed by the rest of it, or the rest comes without its beginning.
IsUtf8(b) ==
    \A n \in MidCharacter, i \in 1..Len(b) :
        /\ b[i] = <<n, 1>> => i < Len(b) /\ b[i + 1] = <<n, 2>>
        /\ b[i] = <<n, 2>> => i > 1 /\ b[i - 1] = <<n, 1>>

\* The handler returns, and its copies go.
Return(c) ==
    /\ Goto(c, "idle") /\ StartOver(c)
    /\ ssid' = [ssid EXCEPT ![c] = <<>>] /\ psk' = [psk EXCEPT ![c] = NoNetwork]

\* The request fails: the buffers stay as they are.
ConnectFailed(c) == Return(c) /\ abandoned' = 1

\* The handlers that are about to ask the service for an attempt.
Asking == {c \in Centrals : pc[c] \in {"named", "keyed"}}

\* The bound on attempts, kept free for them.  When it is used up a request may
\* still come while the service would refuse it, one at a time; should the
\* service be ready for it in the end, it waits for ever.
Room ==
    \/ attempts + Cardinality(Asking) < MaxAttempts
    \/ Asking = {} /\ ~Conn!CanConnect

GetSsid(c) ==
    /\ Enter(c, CONNECT_CONTROL, "write") /\ Room
    /\ \/ /\ IsUtf8(ssidBuffer)
          /\ ssid' = [ssid EXCEPT ![c] = ssidBuffer]
          /\ Goto(c, "named")
          /\ UNCHANGED <<psk, client, abandoned>>
       \/ ~IsUtf8(ssidBuffer) /\ ConnectFailed(c)
    /\ UNCHANGED <<connVars, session, undisturbed>>

GetPsk(c) ==
    /\ pc[c] = "named"
    /\ \/ /\ pskBuffer # NoNetwork
          /\ psk' = [psk EXCEPT ![c] = pskBuffer]
          /\ Goto(c, "keyed")
          /\ UNCHANGED <<ssid, client, abandoned>>
       \/ pskBuffer = NoNetwork /\ ConnectFailed(c)
    /\ UNCHANGED <<connVars, session, undisturbed>>

\* service.connect(): the service takes over the copies, or refuses.
Refused_Ignored(c) == Goto(c, "accepted") /\ UNCHANGED <<ssid, psk, client, abandoned>>
Refused(c) == ConnectFailed(c)

Connect(c) ==
    /\ pc[c] = "keyed"
    /\ \/ /\ Conn!Connect(c, ssid[c])
          /\ Goto(c, "accepted")
          /\ UNCHANGED <<ssid, psk, client, abandoned>>
       \/ Conn!RefuseConnect(c) /\ Refused(c)
    /\ UNCHANGED <<session, undisturbed>>

\* clear_buffers() under one write lock of the session: also what another
\* central wrote since the copies were taken.
ClearedPsk_Keep == pskBuffer
ClearedPsk == NoNetwork

ClearBuffers(c) ==
    /\ pc[c] = "accepted"
    /\ ssidBuffer' = <<>> /\ pskBuffer' = ClearedPsk
    /\ undisturbed' = undisturbed \cap {c} /\ abandoned' = 0
    /\ Return(c)
    /\ UNCHANGED <<connVars, authorized>>

-----------------------------------------------------------------------------
(* handle_connect_control_write, value 2, and handle_connect_state_read     *)

Disconnect(c) ==
    /\ Enter(c, CONNECT_CONTROL, "write")
    /\ Conn!CallDisconnect(c)
    /\ Goto(c, "disconnecting")
    /\ UNCHANGED <<session, ssid, psk, client, history>>

DisconnectWait(c) ==
    /\ Conn!BackendDisconnect(c)
    /\ UNCHANGED <<session, handler, client, history>>

DisconnectDone(c) ==
    /\ Conn!BackendDisconnectFails(c) \/ Conn!Clear(c)
    /\ Goto(c, "idle")
    /\ UNCHANGED <<session, ssid, psk, wants, step, history>>

\* The handler answers with the state, and neither the session nor the central's
\* next request depends on it.
StateRead(c) == Enter(c, CONNECT_STATE, "read") /\ UNCHANGED vars

-----------------------------------------------------------------------------
\* The central drops its connection in the middle of handing over a network and
\* will begin again.  The session keeps what it wrote, and a handler that is at
\* work for it goes on.
Drop(c) ==
    /\ step[c] # "start" /\ StartOver(c)
    /\ undisturbed' = undisturbed \ {c} /\ abandoned' = 1
    /\ UNCHANGED <<connVars, session, handler>>

\* The background task of an attempt.
Background(t) ==
    /\ Conn!BackendReturns(t) \/ Conn!CompleteConnect(t) \/ Conn!FailConnect(t)
    /\ UNCHANGED <<session, handler, client, history>>

Next ==
    \/ \E c \in Centrals :
          \/ Authorize(c)
          \/ \E n \in Networks : FirstSsidWrite(c, n)
          \/ SecondSsidWrite(c) \/ PskWrite(c)
          \/ GetSsid(c) \/ GetPsk(c) \/ Connect(c) \/ ClearBuffers(c)
          \/ Disconnect(c) \/ DisconnectWait(c) \/ DisconnectDone(c)
          \/ StateRead(c) \/ Drop(c)
    \/ \E t \in Conn!Attempts : Background(t)

Spec == Init /\ [][Next]_vars

-----------------------------------------------------------------------------
(* Properties                                                               *)

\* The types of the variables.
TypeOK ==
    /\ Conn!TypeOK
    /\ authorized \in BOOLEAN
    /\ ssidBuffer \in Names /\ pskBuffer \in Networks \cup {NoNetwork}
    /\ pc \in [Centrals -> {"idle", "named", "keyed", "accepted", "disconnecting"}]
    /\ ssid \in [Centrals -> Names]
    /\ psk \in [Centrals -> Networks \cup {NoNetwork}]
    /\ wants \in [Centrals -> Networks \cup {NoNetwork}]
    /\ step \in [Centrals -> {"start", "begun", "named", "keyed"}]
    /\ undisturbed \in SUBSET Centrals /\ abandoned \in {0, 1}

\* The attempt that is started for a central that had the buffers to itself
\* joins the network this central handed over, with the key of that network.
UndisturbedConnectsOwn ==
    [][\A c \in undisturbed : step[c] = "keyed" /\ pc[c] = "keyed" /\ pc'[c] = "accepted" =>
            target'[attempts'] = Name(wants[c]) /\ psk[c] = wants[c]]_vars

\* When no central is handing over a network, the session holds no part of a
\* name and no key, unless a connect request failed, or a central dropped its
\* connection half-way, since they were cleared: an accepted connect leaves
\* nothing behind that could come before the next name, not even what such a
\* request or such a central had left before it.
NothingLeftBehind ==
    (\A c \in Centrals : step[c] = "start" /\ pc[c] = "idle") /\ abandoned = 0
        => ssidBuffer = <<>> /\ pskBuffer = NoNetwork
=============================================================================
