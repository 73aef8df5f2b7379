---------------------------- MODULE WpactrlBackend ----------------------------
(***************************************************************************)
(* connect, disconnect and status of the wpa_supplicant backend            *)
(* (backend/wpactrl_backend.rs), called by the connection service: each    *)
(* command is a request of its own on the control socket, and the commands *)
(* of an attempt interleave with those of another one and with DISCONNECT. *)
(*                                                                         *)
(* A request is answered OK or FAIL, or the call returns Err, and then the *)
(* command may or may not have been obeyed.  The code looks for Err only,  *)
(* so a FAIL that answers ADD_NETWORK becomes the id of a network.         *)
(*                                                                         *)
(* wpa_supplicant itself is external.  It starts without networks and may  *)
(* join one that is enabled and has a name and a key, unless it was told   *)
(* to disconnect and no network was selected since.  An SSID and a PSK are *)
(* represented by the attempt they were given to.                          *)
(***************************************************************************)
EXTENDS Naturals, Sequences

CONSTANTS Callers, Ssids, NoSsid, MaxAttempts, MaxDisconnects

ASSUME WpactrlAssumption == MaxAttempts \in Nat /\ MaxDisconnects \in Nat

VARIABLES
    \* ConnectionService
    connState, connSsid, ipAddress, connError, attempts, task, target, poll,
    caller, reply, seen, ticket, disconnects, strays,
    \* WpactrlBackend::connect and status, for each attempt
    command,            \* the next one to send; after STATUS, "ip"
    network,            \* what ADD_NETWORK created for it, or 0
    \* wpa_supplicant
    nets,               \* its networks; a network's id is its place
    released,           \* DISCONNECT was obeyed, and no SELECT_NETWORK since
    \* history
    refused,            \* the attempts one of whose commands got a FAIL
    dropped,            \* the last attempt when a DISCONNECT was last obeyed
    deaf                \* the last DISCONNECT that was answered got a FAIL

Conn == INSTANCE ConnectionService

connVars == <<connState, connSsid, ipAddress, connError, attempts, task, target,
              poll, caller, reply, seen, ticket, disconnects, strays>>
sequence == <<command, network>>
supplicant == <<nets, released>>
drops == <<dropped, deaf>>
vars == <<connVars, sequence, supplicant, refused, drops>>

Commands == {"add", "ssid", "psk", "enable", "select", "ip"}
Network == [name : 0..MaxAttempts, key : 0..MaxAttempts, enabled : BOOLEAN]

Init ==
    /\ Conn!Init
    /\ command = [t \in Conn!Attempts |-> "add"]
    /\ network = [t \in Conn!Attempts |-> 0]
    /\ nets = <<>> /\ released = FALSE
    /\ refused = {} /\ dropped = 0 /\ deaf = FALSE

\* The networks wpa_supplicant may join.
Joinable ==
    {n \in DOMAIN nets :
        ~released /\ nets[n].enabled /\ nets[n].name # 0 /\ nets[n].key # 0}

-----------------------------------------------------------------------------
(* connect                                                                  *)

\* The call goes on, or, after the last command, returns Ok.
Proceed(t) ==
    IF command[t] = "select" THEN Conn!BackendConnect(t) /\ UNCHANGED command
    ELSE /\ command' = [command EXCEPT ![t] =
                CASE @ = "add" -> "ssid" [] @ = "ssid" -> "psk"
                  [] @ = "psk" -> "enable" [] @ = "enable" -> "select"]
         /\ UNCHANGED connVars

\* One request of attempt t, which wpa_supplicant obeys or does not.  A socket
\* that cannot be opened is an "add" that was not obeyed.
Request(t, cmd, obeyed) ==
    /\ task[t] = "connecting" /\ command[t] = cmd
    /\ \/ Proceed(t) /\ refused' = IF obeyed THEN refused ELSE refused \cup {t}
       \/ Conn!BackendConnectFails(t) /\ UNCHANGED <<command, refused>>
    /\ UNCHANGED drops

AddNetwork(t, obeyed) ==
    /\ Request(t, "add", obeyed)
    /\ IF obeyed
       THEN /\ nets' = Append(nets, [name |-> 0, key |-> 0, enabled |-> FALSE])
            /\ network' = [network EXCEPT ![t] = Len(nets) + 1]
       ELSE UNCHANGED <<nets, network>>
    /\ UNCHANGED released

\* The network the commands of attempt t name.  If ADD_NETWORK got a FAIL, that
\* word is the id, and wpa_supplicant, which reads a number, takes it for 0, the
\* id of its first network.
Addressed_Newest(t) == Len(nets)
Addressed(t) == IF network[t] = 0 THEN 1 ELSE network[t]

SetSsid(t, obeyed) ==
    /\ obeyed => Addressed(t) \in DOMAIN nets
    /\ Request(t, "ssid", obeyed)
    /\ nets' = IF obeyed THEN [nets EXCEPT ![Addressed(t)].name = t] ELSE nets
    /\ UNCHANGED <<network, released>>

SetPsk(t, obeyed) ==
    /\ obeyed => Addressed(t) \in DOMAIN nets
    /\ Request(t, "psk", obeyed)
    /\ nets' = IF obeyed THEN [nets EXCEPT ![Addressed(t)].key = t] ELSE nets
    /\ UNCHANGED <<network, released>>

EnableNetwork(t, obeyed) ==
    /\ obeyed => Addressed(t) \in DOMAIN nets
    /\ Request(t, "enable", obeyed)
    /\ nets' = IF obeyed THEN [nets EXCEPT ![Addressed(t)].enabled = TRUE] ELSE nets
    /\ UNCHANGED <<network, released>>

\* SELECT_NETWORK disables the other networks.
Selected_Also(n) == [nets EXCEPT ![n].enabled = TRUE]
Selected(n) == [m \in DOMAIN nets |-> [nets[m] EXCEPT !.enabled = (m = n)]]

SelectNetwork(t, obeyed) ==
    /\ obeyed => Addressed(t) \in DOMAIN nets
    /\ Request(t, "select", obeyed)
    /\ nets' = IF obeyed THEN Selected(Addressed(t)) ELSE nets
    /\ released' = (released /\ ~obeyed)
    /\ UNCHANGED network

-----------------------------------------------------------------------------
(* disconnect and status                                                    *)

Disconnect_IfConnected(c, obeyed) ==
    /\ \/ Conn!BackendDisconnect(c) /\ deaf' = (~obeyed /\ connState = "Connected")
       \/ Conn!BackendDisconnectFails(c) /\ UNCHANGED deaf
    /\ released' = (released \/ (obeyed /\ connState = "Connected"))
    /\ dropped' = IF obeyed THEN attempts ELSE dropped
    /\ UNCHANGED <<sequence, nets, refused>>
Disconnect(c, obeyed) ==
    /\ \/ Conn!BackendDisconnect(c) /\ deaf' = ~obeyed
       \/ Conn!BackendDisconnectFails(c) /\ UNCHANGED deaf
    /\ released' = (released \/ obeyed)
    /\ dropped' = IF obeyed THEN attempts ELSE dropped
    /\ UNCHANGED <<sequence, nets, refused>>

\* STATUS says COMPLETED, which takes an association; the call goes on to ask
\* for the SSID and then the address, and none of what it hears is an error.
Completed(t) ==
    /\ task[t] = "polling" /\ command[t] = "select"
    /\ Joinable # {}
    /\ command' = [command EXCEPT ![t] = "ip"]
    /\ UNCHANGED <<connVars, network, supplicant, refused, drops>>

\* The call returns: with the address or without, or with another state, or,
\* STATUS having failed, with Err.
Status(t) ==
    /\ Conn!BackendStatus(t)
    /\ poll'[t] \in {"no address", "address"} <=> command[t] = "ip"
    /\ UNCHANGED <<sequence, supplicant, refused, drops>>

-----------------------------------------------------------------------------
(* The callers and the rest of the task.  A refused connect and a look at   *)
(* the status do not get as far as the backend.                             *)

Service ==
    /\ \/ \E c \in Callers, s \in Ssids : Conn!Connect(c, s)
       \/ \E c \in Callers : Conn!CallDisconnect(c)
       \/ \E c \in Callers : Conn!Clear(c)
       \/ \E t \in Conn!Attempts : Conn!CompleteConnect(t)
       \/ \E t \in Conn!Attempts : Conn!FailConnect(t)
    /\ UNCHANGED <<sequence, supplicant, refused, drops>>

\* Nobody is waiting for anything.
Rest == Conn!InFlight = {} /\ ~Conn!Disconnecting /\ UNCHANGED vars

Next ==
    \/ \E t \in Conn!Attempts, obeyed \in BOOLEAN :
          \/ AddNetwork(t, obeyed) \/ SetSsid(t, obeyed) \/ SetPsk(t, obeyed)
          \/ EnableNetwork(t, obeyed) \/ SelectNetwork(t, obeyed)
    \/ \E c \in Callers, obeyed \in BOOLEAN : Disconnect(c, obeyed)
    \/ \E t \in Conn!Attempts : Completed(t) \/ Status(t)
    \/ Service
    \/ Rest

Spec == Init /\ [][Next]_vars

-----------------------------------------------------------------------------
(* Properties                                                               *)

\* The types of the variables, those of the connection service included.
TypeOK ==
    /\ Conn!TypeOK
    /\ command \in [Conn!Attempts -> Commands]
    /\ network \in [Conn!Attempts -> 0..Len(nets)]
    /\ nets \in Seq(Network) /\ released \in BOOLEAN
    /\ refused \in SUBSET Conn!Attempts
    /\ dropped \in 0..MaxAttempts /\ deaf \in BOOLEAN

\* However the commands of the attempts interleave, fail or are lost, no network
\* gets the name of one attempt and the key of another, but for one: the first
\* network, when one of the two is an attempt whose ADD_NETWORK got a FAIL.
OwnCredentials ==
    \A n \in DOMAIN nets :
        LET name == nets[n].name
            key == nets[n].key
        IN  name # 0 /\ key # 0 =>
                \/ name = key
                \/ n = 1 /\ (network[name] = 0 \/ network[key] = 0)

\* Unless an attempt and a disconnect overlapped, Connected means that
\* wpa_supplicant may join the network of the last attempt, by the name and the
\* key of that attempt, and no other, not even one an attempt that failed
\* half-way has enabled or written over; or else a disconnect came since, as one
\* that takes effect and then reports an error does.
\* Excused: an attempt one of whose commands got a FAIL, which nobody reads.
OnlyTargetJoinable ==
    strays = {} /\ connState = "Connected" /\ attempts \notin refused =>
        \/ /\ Joinable = {network[attempts]}
           /\ nets[network[attempts]].name = attempts
           /\ nets[network[attempts]].key = attempts
        \/ released /\ dropped = attempts
=============================================================================
