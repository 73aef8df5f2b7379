------------------------ MODULE WpactrlBackendProofs ------------------------
(***************************************************************************)
(* However many attempts interleave their commands, and however often the  *)
(* program is killed, no network of wpa_supplicant but its first gets the  *)
(* name of one attempt and the key of another, and the first only from an  *)
(* attempt whose ADD_NETWORK got a FAIL; and Connected and Idle mean what  *)
(* they say of what wpa_supplicant may join.  Command by command, the      *)
(* backend gives the connection service only the replies that              *)
(* ConnectionService expects.                                              *)
(***************************************************************************)
EXTENDS WpactrlRestart, TLAPS

\* Attempt t is past its ADD_NETWORK, which created network n, or nothing, and
\* then n is the first.
Owner(t, n) ==
    /\ command[t] # "add"
    /\ network[t] = n \/ (network[t] = 0 /\ n = 1)

\* What is written into a network is of an attempt whose commands go there.
Owned ==
    \A n \in DOMAIN nets :
        /\ nets[n].name # 0 => Owner(nets[n].name, n)
        /\ nets[n].key # 0 => Owner(nets[n].key, n)

\* No two attempts have the same network.
Distinct ==
    \A t, u \in Conn!Attempts : network[t] # 0 /\ network[t] = network[u] => t = u

\* An attempt that has a network never adds another one: if its ADD_NETWORK was
\* obeyed but reported an error, it has ended.
AddsOne ==
    \A t \in Conn!Attempts :
        /\ task[t] = "connecting" \/ network[t] # 0 => t <= attempts
        /\ network[t] # 0 /\ command[t] = "add" => task[t] # "connecting"

IInv ==
    /\ attempts \in Nat /\ task \in [Conn!Attempts -> Conn!TaskStates]
    /\ command \in [Conn!Attempts -> Commands]
    /\ nets \in Seq(Network) /\ network \in [Conn!Attempts -> 0..Len(nets)]
    /\ Owned /\ Distinct /\ AddsOne

-----------------------------------------------------------------------------
\* A request changes of the service only the task that sends it, which leaves
\* "connecting" unless it has a further command.
LEMMA RequestStep ==
    ASSUME IInv, NEW t \in Conn!Attempts, NEW cmd, cmd # "ip",
           NEW obeyed \in BOOLEAN, Request(t, cmd, obeyed)
    PROVE  /\ UNCHANGED attempts
           /\ task' \in [Conn!Attempts -> Conn!TaskStates]
           /\ command' \in [Conn!Attempts -> Commands]
           /\ \A u \in Conn!Attempts : u # t =>
                 task'[u] = task[u] /\ command'[u] = command[u]
           /\ task[t] = "connecting" /\ command[t] = cmd
           /\ task'[t] = "connecting" \/ cmd # "add" => command'[t] # "add"
<1> USE DEF IInv
<1>1. CASE Proceed(t)
  <2>1. CASE command[t] = "select"
    BY <1>1, <2>1 DEF Proceed, Request, Conn!BackendConnect, Conn!TaskStates
  <2>2. CASE command[t] # "select"
    <3>1. UNCHANGED <<task, attempts>>
      BY <1>1, <2>2 DEF Proceed, connVars
    <3>2. /\ command' \in [Conn!Attempts -> Commands]
          /\ \A u \in Conn!Attempts : u # t => command'[u] = command[u]
          /\ command'[t] # "add"
      BY <1>1, <2>2 DEF Proceed, Request, Commands
    <3> QED
      BY <3>1, <3>2 DEF Request
  <2> QED
    BY <2>1, <2>2
<1>2. CASE Conn!BackendConnectFails(t) /\ UNCHANGED command
  BY <1>2 DEF Request, Conn!BackendConnectFails, Conn!TaskStates
<1> QED
  BY <1>1, <1>2 DEF Request

\* A network holds numbers of attempts, or 0.
LEMMA NamesAreAttempts ==
    ASSUME IInv, NEW n \in DOMAIN nets
    PROVE  nets[n].name \in 0..MaxAttempts /\ nets[n].key \in 0..MaxAttempts
<1>1. nets[n] \in Network
  BY DEF IInv
<1> QED
  BY <1>1 DEF Network

\* A request that writes only its own attempt into its own network keeps the
\* invariant.
LEMMA SetStep ==
    ASSUME IInv, NEW t \in Conn!Attempts, NEW cmd, cmd \notin {"add", "ip"},
           NEW obeyed \in BOOLEAN,
           Request(t, cmd, obeyed), network' = network,
           nets' \in Seq(Network), Len(nets') = Len(nets),
           \A n \in DOMAIN nets :
               /\ \/ nets'[n].name = nets[n].name
                  \/ (nets'[n].name = t /\ Addressed(t) = n)
               /\ \/ nets'[n].key = nets[n].key
                  \/ (nets'[n].key = t /\ Addressed(t) = n)
    PROVE  IInv'
<1> USE DEF IInv
<1>1. DOMAIN nets' = DOMAIN nets
  OBVIOUS
<1>4. Addressed(t) = network[t] \/ (network[t] = 0 /\ Addressed(t) = 1)
  BY DEF Addressed
<1>5. command'[t] # "add"
  BY RequestStep
<1>6. \A u \in Conn!Attempts : \A n \in DOMAIN nets : Owner(u, n) => Owner(u, n)'
  BY <1>5, RequestStep DEF Owner
<1>7. \A n \in DOMAIN nets : nets[n].name \in 0..MaxAttempts /\ nets[n].key \in 0..MaxAttempts
  BY NamesAreAttempts
<1>8. ASSUME NEW n \in DOMAIN nets, NEW u, u # 0, u = nets'[n].name \/ u = nets'[n].key
      PROVE  Owner(u, n)'
  <2>1. CASE u = t /\ Addressed(t) = n
    BY <1>4, <1>5, <2>1 DEF Owner
  <2>2. CASE u = nets[n].name \/ u = nets[n].key
    <3>1. Owner(u, n)
      BY <1>8, <2>2 DEF Owned
    <3>2. u \in Conn!Attempts
      BY <1>7, <1>8, <2>2 DEF Conn!Attempts
    <3> QED
      BY <1>6, <3>1, <3>2
  <2> QED
    BY <1>8, <2>1, <2>2
<1>9. Owned'
  BY <1>1, <1>8 DEF Owned, Owner
<1>2. Owned' /\ Distinct'
  BY <1>9 DEF Distinct
<1>3. AddsOne'
  BY RequestStep DEF AddsOne
<1> QED
  BY <1>2, <1>3, RequestStep

\* Every step of the service itself leaves the invariant as it is.
LEMMA ServiceStep ==
    ASSUME IInv, UNCHANGED <<sequence, nets>>,
           attempts' \in Nat, attempts <= attempts',
           task' \in [Conn!Attempts -> Conn!TaskStates],
           \A t \in Conn!Attempts : task'[t] = "connecting" =>
               task[t] = "connecting" \/ (t > attempts /\ t <= attempts')
    PROVE  IInv'
<1> USE DEF IInv, sequence
<1>1. Owned' /\ Distinct'
  BY DEF Owned, Owner, Distinct
<1>2. AddsOne'
  BY WpactrlAssumption DEF AddsOne, Conn!Attempts, WpactrlAssumption
<1> QED
  BY <1>1, <1>2

-----------------------------------------------------------------------------
\* The invariant holds at the start and is kept by every step.
LEMMA IInvInit == Init => IInv
BY WpactrlAssumption
   DEF WpactrlAssumption, Init, IInv, Conn!Init, Conn!Attempts, Conn!TaskStates,
       Commands, Owned, Owner, Distinct, AddsOne

LEMMA IInvStep == IInv /\ [Next]_vars => IInv'
<1> USE WpactrlAssumption DEF WpactrlAssumption
<1> SUFFICES ASSUME IInv, [Next]_vars
             PROVE  IInv'
  OBVIOUS
<1>1. ASSUME NEW t \in Conn!Attempts, NEW obeyed \in BOOLEAN, AddNetwork(t, obeyed)
      PROVE  IInv'
  <2>0. /\ UNCHANGED attempts
        /\ task' \in [Conn!Attempts -> Conn!TaskStates]
        /\ command' \in [Conn!Attempts -> Commands]
        /\ \A u \in Conn!Attempts : u # t =>
              task'[u] = task[u] /\ command'[u] = command[u]
        /\ task[t] = "connecting" /\ command[t] = "add"
        /\ task'[t] = "connecting" => command'[t] # "add"
    <3>1. Request(t, "add", obeyed) /\ "add" # "ip"
      BY <1>1 DEF AddNetwork
    <3> QED
      BY <3>1, RequestStep
  <2>5. \A n \in DOMAIN nets : nets[n].name \in 0..MaxAttempts /\ nets[n].key \in 0..MaxAttempts
    BY NamesAreAttempts
  <2>6. ASSUME NEW u, NEW n \in DOMAIN nets, u \in {nets[n].name, nets[n].key}, u # 0
        PROVE  /\ u \in Conn!Attempts /\ u # t /\ Owner(u, n)
               /\ network'[u] = network[u] => Owner(u, n)'
    <3>1. Owner(u, n)
      BY <2>6 DEF IInv, Owned
    <3>2. u \in Conn!Attempts
      BY <2>5, <2>6 DEF Conn!Attempts
    <3>3. u # t
      BY <2>0, <3>1 DEF Owner
    <3> QED
      BY <2>0, <3>1, <3>2, <3>3 DEF Owner
  <2>1. CASE ~obeyed
    <3>1. UNCHANGED <<nets, network>>
      BY <1>1, <2>1 DEF AddNetwork
    <3>2. ASSUME NEW n \in DOMAIN nets, NEW u, u \in {nets[n].name, nets[n].key}, u # 0
          PROVE  Owner(u, n)'
      BY <2>6, <3>1, <3>2
    <3>3. Owned'
      BY <3>1, <3>2 DEF Owned, Owner
    <3> QED
      BY <2>0, <3>1, <3>3 DEF IInv, Distinct, AddsOne
  <2>2. CASE obeyed
    <3> DEFINE blank == [name |-> 0, key |-> 0, enabled |-> FALSE]
    <3>1. /\ nets' = Append(nets, blank) /\ Request(t, "add", obeyed)
          /\ network' = [network EXCEPT ![t] = Len(nets) + 1]
      BY <1>1, <2>2 DEF AddNetwork
    <3>2. blank \in Network /\ blank.name = 0 /\ blank.key = 0
      BY DEF Network
    <3> HIDE DEF blank
    <3>3. /\ nets' \in Seq(Network) /\ Len(nets') = Len(nets) + 1
          /\ \A n \in DOMAIN nets : n \in DOMAIN nets' /\ nets'[n] = nets[n]
          /\ \A n \in DOMAIN nets' : n \in DOMAIN nets \/ nets'[n] = blank
          /\ Len(nets) \in Nat /\ DOMAIN nets = 1..Len(nets)
      BY <3>1, <3>2 DEF IInv
    <3>4. network[t] = 0
      BY <2>0 DEF IInv, AddsOne
    <3>5. network' \in [Conn!Attempts -> 0..Len(nets')]
      BY <3>1, <3>3 DEF IInv
    <3>6. Owned'
      <4>1. ASSUME NEW n \in DOMAIN nets', NEW u, u \in {nets'[n].name, nets'[n].key}, u # 0
            PROVE  Owner(u, n)'
        <5>1. nets'[n] # blank
          BY <3>2, <4>1
        <5>2. n \in DOMAIN nets /\ nets'[n] = nets[n]
          BY <3>3, <4>1, <5>1
        <5>3. u \in Conn!Attempts /\ u # t
          BY <2>6, <4>1, <5>2
        <5>4. network'[u] = network[u]
          BY <3>1, <5>3 DEF IInv
        <5> QED
          BY <2>6, <4>1, <5>2, <5>4
      <4> QED
        BY <4>1 DEF Owned, Owner
    <3>7. Distinct'
      BY <3>1, <3>3 DEF IInv, Distinct
    <3>8. AddsOne'
      BY <2>0, <3>1, <3>4 DEF IInv, AddsOne
    <3> QED
      BY <2>0, <3>1, <3>3, <3>5, <3>6, <3>7, <3>8 DEF IInv
  <2> QED
    BY <2>1, <2>2
<1>2. ASSUME NEW t \in Conn!Attempts, NEW obeyed \in BOOLEAN, SetSsid(t, obeyed)
      PROVE  IInv'
  <2>1. /\ Request(t, "ssid", obeyed) /\ UNCHANGED network
        /\ obeyed => Addressed(t) \in DOMAIN nets
        /\ nets' = IF obeyed THEN [nets EXCEPT ![Addressed(t)].name = t] ELSE nets
    BY <1>2 DEF SetSsid
  <2>2. CASE obeyed
    <3>1. nets \in Seq(Network) /\ Addressed(t) \in DOMAIN nets
      BY <2>1, <2>2 DEF IInv
    <3>2. [nets[Addressed(t)] EXCEPT !.name = t] \in Network
      <4>1. nets[Addressed(t)] \in Network
        BY <3>1
      <4> QED
        BY <4>1 DEF Network, Conn!Attempts
    <3>3. /\ nets' \in Seq(Network) /\ Len(nets') = Len(nets)
          /\ \A n \in DOMAIN nets : n # Addressed(t) => nets'[n] = nets[n]
          /\ nets'[Addressed(t)] = [nets[Addressed(t)] EXCEPT !.name = t]
      BY <2>1, <2>2, <3>1, <3>2
    <3>4. \A n \in DOMAIN nets : nets[n] \in Network
      BY <3>1
    <3>5. \A n \in DOMAIN nets :
             /\ \/ nets'[n].name = nets[n].name
                \/ (nets'[n].name = t /\ Addressed(t) = n)
             /\ \/ nets'[n].key = nets[n].key
                \/ (nets'[n].key = t /\ Addressed(t) = n)
      BY <3>3, <3>4 DEF Network
    <3> QED
      BY <2>1, <3>3, <3>5, SetStep
  <2>3. CASE ~obeyed
    <3>1. nets' = nets /\ nets' \in Seq(Network)
      BY <2>1, <2>3 DEF IInv
    <3> QED
      BY <2>1, <3>1, SetStep
  <2> QED
    BY <2>2, <2>3
<1>3. ASSUME NEW t \in Conn!Attempts, NEW obeyed \in BOOLEAN, SetPsk(t, obeyed)
      PROVE  IInv'
  <2>1. /\ Request(t, "psk", obeyed) /\ UNCHANGED network
        /\ obeyed => Addressed(t) \in DOMAIN nets
        /\ nets' = IF obeyed THEN [nets EXCEPT ![Addressed(t)].key = t] ELSE nets
    BY <1>3 DEF SetPsk
  <2>2. CASE obeyed
    <3>1. nets \in Seq(Network) /\ Addressed(t) \in DOMAIN nets
      BY <2>1, <2>2 DEF IInv
    <3>2. [nets[Addressed(t)] EXCEPT !.key = t] \in Network
      <4>1. nets[Addressed(t)] \in Network
        BY <3>1
      <4> QED
        BY <4>1 DEF Network, Conn!Attempts
    <3>3. /\ nets' \in Seq(Network) /\ Len(nets') = Len(nets)
          /\ \A n \in DOMAIN nets : n # Addressed(t) => nets'[n] = nets[n]
          /\ nets'[Addressed(t)] = [nets[Addressed(t)] EXCEPT !.key = t]
      BY <2>1, <2>2, <3>1, <3>2
    <3>4. \A n \in DOMAIN nets : nets[n] \in Network
      BY <3>1
    <3>5. \A n \in DOMAIN nets :
             /\ \/ nets'[n].name = nets[n].name
                \/ (nets'[n].name = t /\ Addressed(t) = n)
             /\ \/ nets'[n].key = nets[n].key
                \/ (nets'[n].key = t /\ Addressed(t) = n)
      BY <3>3, <3>4 DEF Network
    <3> QED
      BY <2>1, <3>3, <3>5, SetStep
  <2>3. CASE ~obeyed
    <3>1. nets' = nets /\ nets' \in Seq(Network)
      BY <2>1, <2>3 DEF IInv
    <3> QED
      BY <2>1, <3>1, SetStep
  <2> QED
    BY <2>2, <2>3
<1>4. ASSUME NEW t \in Conn!Attempts, NEW obeyed \in BOOLEAN,
             EnableNetwork(t, obeyed)
      PROVE  IInv'
  <2>1. /\ Request(t, "enable", obeyed) /\ UNCHANGED network
        /\ obeyed => Addressed(t) \in DOMAIN nets
        /\ nets' = IF obeyed THEN [nets EXCEPT ![Addressed(t)].enabled = TRUE] ELSE nets
    BY <1>4 DEF EnableNetwork
  <2>2. CASE obeyed
    <3>1. nets \in Seq(Network) /\ Addressed(t) \in DOMAIN nets
      BY <2>1, <2>2 DEF IInv
    <3>2. [nets[Addressed(t)] EXCEPT !.enabled = TRUE] \in Network
      <4>1. nets[Addressed(t)] \in Network
        BY <3>1
      <4> QED
        BY <4>1 DEF Network, Conn!Attempts
    <3>3. /\ nets' \in Seq(Network) /\ Len(nets') = Len(nets)
          /\ \A n \in DOMAIN nets : n # Addressed(t) => nets'[n] = nets[n]
          /\ nets'[Addressed(t)] = [nets[Addressed(t)] EXCEPT !.enabled = TRUE]
      BY <2>1, <2>2, <3>1, <3>2
    <3>4. \A n \in DOMAIN nets : nets[n] \in Network
      BY <3>1
    <3>5. \A n \in DOMAIN nets :
             /\ \/ nets'[n].name = nets[n].name
                \/ (nets'[n].name = t /\ Addressed(t) = n)
             /\ \/ nets'[n].key = nets[n].key
                \/ (nets'[n].key = t /\ Addressed(t) = n)
      BY <3>3, <3>4 DEF Network
    <3> QED
      BY <2>1, <3>3, <3>5, SetStep
  <2>3. CASE ~obeyed
    <3>1. nets' = nets /\ nets' \in Seq(Network)
      BY <2>1, <2>3 DEF IInv
    <3> QED
      BY <2>1, <3>1, SetStep
  <2> QED
    BY <2>2, <2>3
<1>5. ASSUME NEW t \in Conn!Attempts, NEW obeyed \in BOOLEAN,
             SelectNetwork(t, obeyed)
      PROVE  IInv'
  <2>1. /\ Request(t, "select", obeyed) /\ UNCHANGED network
        /\ nets' = IF obeyed THEN Selected(Addressed(t)) ELSE nets
    BY <1>5 DEF SelectNetwork
  <2>2. CASE obeyed
    <3>1. /\ nets' \in Seq(Network) /\ Len(nets') = Len(nets)
          /\ \A n \in DOMAIN nets :
                nets'[n].name = nets[n].name /\ nets'[n].key = nets[n].key
      <4>1. nets \in Seq(Network) /\ nets' = Selected(Addressed(t))
        BY <2>1, <2>2 DEF IInv
      <4>2. \A n \in DOMAIN nets : nets[n] \in Network
        BY <4>1
      <4>3. ASSUME NEW n \in DOMAIN nets
            PROVE  /\ nets'[n] \in Network
                   /\ nets'[n].name = nets[n].name /\ nets'[n].key = nets[n].key
        <5>1. CASE n = Addressed(t)
          <6>1. nets'[n] = [nets[n] EXCEPT !.enabled = TRUE]
            BY <4>1, <5>1, Zenon DEF Selected
          <6> QED
            BY <4>1, <4>2, <6>1 DEF Network
        <5>2. CASE n # Addressed(t)
          <6>1. nets'[n] = [nets[n] EXCEPT !.enabled = FALSE]
            BY <4>1, <5>2, Zenon DEF Selected
          <6> QED
            BY <4>1, <4>2, <6>1 DEF Network
        <5> QED
          BY <5>1, <5>2
      <4>4. nets' \in Seq(Network) /\ Len(nets') = Len(nets)
        BY <4>1, <4>3 DEF Selected
      <4> QED
        BY <4>1, <4>3, <4>4
    <3> QED
      BY <2>1, <3>1, SetStep
  <2>3. CASE ~obeyed
    <3>1. nets' = nets /\ nets' \in Seq(Network)
      BY <2>1, <2>3 DEF IInv
    <3> QED
      BY <2>1, <3>1, SetStep
  <2> QED
    BY <2>2, <2>3
<1>6. ASSUME NEW c \in Callers, NEW obeyed \in BOOLEAN, Disconnect(c, obeyed)
      PROVE  IInv'
  <2>1. UNCHANGED <<sequence, nets>>
    BY <1>6 DEF Disconnect
  <2>2. UNCHANGED <<attempts, task>>
    BY <1>6 DEF Disconnect, Conn!BackendDisconnect,
         Conn!BackendDisconnectFails, Conn!tasks
  <2> QED
    BY <2>1, <2>2, ServiceStep DEF IInv
<1>7. ASSUME NEW t \in Conn!Attempts, Status(t)
      PROVE  IInv'
  <2>1. Conn!BackendStatus(t) /\ UNCHANGED <<sequence, nets>>
    BY <1>7 DEF Status, supplicant
  <2>2. /\ attempts' = attempts /\ task[t] = "polling"
        /\ task' = [task EXCEPT ![t] = "up"] \/ task' = [task EXCEPT ![t] = "err"]
    BY <2>1 DEF Conn!BackendStatus
  <2> QED
    BY <2>1, <2>2, ServiceStep DEF IInv, Conn!TaskStates
<1>11. ASSUME NEW t \in Conn!Attempts, Completed(t)
       PROVE  IInv'
  <2>1. /\ UNCHANGED <<attempts, task, nets, network>>
        /\ command' = [command EXCEPT ![t] = "ip"]
    BY <1>11 DEF Completed, connVars, supplicant
  <2> USE <2>1 DEF IInv
  <2>2. command' \in [Conn!Attempts -> Commands]
    BY DEF Commands
  <2>3. \A u \in Conn!Attempts : command[u] # "add" => command'[u] # "add"
    OBVIOUS
  <2>4. \A n \in DOMAIN nets : nets[n].name \in 0..MaxAttempts /\ nets[n].key \in 0..MaxAttempts
    BY NamesAreAttempts
  <2>5. Owned'
    BY <2>3, <2>4 DEF Owned, Owner, Conn!Attempts
  <2>6. Distinct' /\ AddsOne'
    BY DEF Distinct, AddsOne
  <2> QED
    BY <2>2, <2>5, <2>6
<1>8. CASE Service
  <2>1. ASSUME NEW c \in Callers, NEW s \in Ssids, Conn!Connect(c, s)
        PROVE  IInv'
    BY <1>8, <2>1, ServiceStep DEF IInv, Service, supplicant, Conn!Connect,
         Conn!Attempts, Conn!TaskStates
  <2>2. ASSUME NEW c \in Callers, Conn!CallDisconnect(c) \/ Conn!Clear(c)
        PROVE  IInv'
    BY <1>8, <2>2, ServiceStep DEF IInv, Service, supplicant,
         Conn!CallDisconnect, Conn!Clear, Conn!tasks
  <2>3. ASSUME NEW t \in Conn!Attempts, Conn!CompleteConnect(t) \/ Conn!FailConnect(t)
        PROVE  IInv'
    BY <1>8, <2>3, ServiceStep DEF IInv, Service, supplicant,
         Conn!CompleteConnect, Conn!FailConnect, Conn!TaskStates
  <2> QED
    BY <1>8, <2>1, <2>2, <2>3 DEF Service
<1>9. CASE UNCHANGED vars
  BY <1>9, ServiceStep DEF IInv, vars, connVars, sequence, supplicant
<1>10. CASE Rest
  BY <1>9, <1>10 DEF Rest
<1> QED
  BY <1>1, <1>2, <1>3, <1>4, <1>5, <1>6, <1>7, <1>8, <1>9, <1>10, <1>11
     DEF Next

LEMMA IInvOwn == IInv => OwnCredentials
<1> SUFFICES ASSUME IInv, NEW n \in DOMAIN nets,
                    nets[n].name # 0, nets[n].key # 0
             PROVE  \/ nets[n].name = nets[n].key
                    \/ /\ n = 1
                       /\ network[nets[n].name] = 0 \/ network[nets[n].key] = 0
  BY DEF OwnCredentials
<1>1. nets[n] \in Network /\ n # 0
  BY DEF IInv
<1>2. nets[n].name \in Conn!Attempts /\ nets[n].key \in Conn!Attempts
  BY <1>1 DEF Network, Conn!Attempts
<1>3. Owner(nets[n].name, n) /\ Owner(nets[n].key, n)
  BY DEF IInv, Owned
<1>4. CASE network[nets[n].name] = n /\ network[nets[n].key] = n
  BY <1>1, <1>2, <1>4, Zenon DEF IInv, Distinct
<1> QED
  BY <1>3, <1>4 DEF Owner

-----------------------------------------------------------------------------
\* No network has the name of one attempt and the key of another, but the first
\* if the ADD_NETWORK of one of the two got a FAIL, for any number of attempts
\* and disconnects and every order of their commands.
THEOREM OwnCredentialsAlways == Spec => []OwnCredentials
BY IInvInit, IInvStep, IInvOwn, PTL DEF Spec

\* A kill at any command of an attempt keeps it as well.
LEMMA IInvRestart == IInv /\ [RestartNext]_restartVars => IInv'
<1>1. ASSUME IInv, Kill
      PROVE  IInv'
  BY <1>1, ServiceStep DEF IInv, Kill, sequence, supplicant, Conn!TaskStates
<1>2. ASSUME IInv, UNCHANGED restartVars
      PROVE  IInv'
  BY <1>2, IInvStep DEF restartVars
<1> QED
  BY <1>1, <1>2, IInvStep DEF RestartNext

\* The same when the program is killed, any number of times and at any command
\* of an attempt, and started again over the networks it left behind.
THEOREM OwnCredentialsAcrossRestarts == RestartSpec => []OwnCredentials
<1>1. RestartInit => IInv
  BY IInvInit DEF RestartInit
<1> QED
  BY <1>1, IInvRestart, IInvOwn, PTL DEF RestartSpec

-----------------------------------------------------------------------------
\* Every step is a step of the connection service, or leaves it alone.
LEMMA ServiceSteps == [Next]_vars => [Conn!Next]_(Conn!vars)
<1> SUFFICES ASSUME [Next]_vars
             PROVE  Conn!Next \/ UNCHANGED Conn!vars
  OBVIOUS
<1>1. connVars' = connVars => UNCHANGED Conn!vars
  BY DEF connVars, Conn!vars, Conn!machine, Conn!tasks, Conn!callerVars,
       Conn!history
<1>2. ASSUME NEW t \in Conn!Attempts, NEW cmd, NEW obeyed \in BOOLEAN,
             Request(t, cmd, obeyed)
      PROVE  Conn!Next \/ UNCHANGED Conn!vars
  BY <1>1, <1>2 DEF Request, Proceed, Conn!Next
<1>3. ASSUME NEW t \in Conn!Attempts, NEW obeyed \in BOOLEAN,
             \/ AddNetwork(t, obeyed) \/ SetSsid(t, obeyed) \/ SetPsk(t, obeyed)
             \/ EnableNetwork(t, obeyed) \/ SelectNetwork(t, obeyed)
      PROVE  Conn!Next \/ UNCHANGED Conn!vars
  BY <1>2, <1>3 DEF AddNetwork, SetSsid, SetPsk, EnableNetwork, SelectNetwork
<1>4. ASSUME NEW c \in Callers, NEW obeyed \in BOOLEAN, Disconnect(c, obeyed)
      PROVE  Conn!Next
  BY <1>4 DEF Disconnect, Conn!Next
<1>5. ASSUME NEW t \in Conn!Attempts, Status(t)
      PROVE  Conn!Next
  BY <1>5 DEF Status, Conn!Next
<1>8. ASSUME NEW t \in Conn!Attempts, Completed(t)
      PROVE  UNCHANGED Conn!vars
  BY <1>1, <1>8 DEF Completed
<1>6. CASE Service
  BY <1>6 DEF Service, Conn!Next
<1>7. CASE Rest \/ UNCHANGED vars
  BY <1>1, <1>7 DEF Rest, vars
<1> QED
  BY <1>3, <1>4, <1>5, <1>6, <1>7, <1>8 DEF Next

\* Command by command, the backend and its callers behave as ConnectionService:
\* each step is one of its steps or changes nothing of it.  What is proved of
\* the service therefore holds over this backend.
THEOREM ImplementsService == Spec => Conn!Spec
<1>1. Init => Conn!Init
  BY DEF Init
<1> QED
  BY <1>1, ServiceSteps, PTL DEF Spec, Conn!Spec

-----------------------------------------------------------------------------
(* What wpa_supplicant may join                                             *)

\* A task has left "unborn" exactly when its attempt was accepted, and it begins
\* with the first command.
Numbered ==
    \A t \in Conn!Attempts :
        /\ task[t] = "unborn" <=> t > attempts
        /\ t > attempts => command[t] = "add"

\* Every attempt that runs beside a disconnect is known to do so.
OverlapsAreKnown == Conn!Disconnecting => Conn!InFlight \subseteq strays

\* An attempt that heard no FAIL has done so far what its commands say.
Prepared ==
    strays = {} =>
        \A t \in Conn!Attempts : task[t] = "connecting" /\ t \notin refused =>
            /\ command[t] # "add" => network[t] # 0
            /\ command[t] \in {"psk", "enable", "select"} => nets[network[t]].name = t
            /\ command[t] \in {"enable", "select"} => nets[network[t]].key = t

\* An attempt that has sent them all may be joined alone, until a disconnect.
Reached ==
    /\ strays = {} /\ attempts \notin refused
    /\ \/ connState = "Connected"
       \/ \E t \in Conn!Attempts : task[t] \in {"polling", "up"}
    => \/ /\ Joinable = {network[attempts]}
          /\ nets[network[attempts]].name = attempts
          /\ nets[network[attempts]].key = attempts
       \/ released /\ dropped = attempts

\* A disconnect that is about to clear the state machine was obeyed.
Cleared ==
    strays = {} /\ ~deaf /\ (\E c \in Callers : caller[c] = "clearing") => released

\* The inductive invariant of the backend with its restarts.
JoinInv ==
    /\ IInv /\ RestartTypeOK
    /\ Numbered /\ OverlapsAreKnown /\ Conn!SingleAttempt
    /\ Prepared /\ Reached /\ Cleared /\ IdleJoinsOnlyInherited

\* Without overlaps, whoever is in flight is the last attempt, the state is
\* Connecting and no disconnect is in progress.
LEMMA Alone ==
    ASSUME JoinInv, strays = {}, NEW t \in Conn!InFlight
    PROVE  /\ t = attempts /\ connState = "Connecting"
           /\ ~Conn!Disconnecting
BY DEF JoinInv, OverlapsAreKnown, Conn!SingleAttempt

\* A step that adds nothing to what may be joined and leaves the attempts alone.
LEMMA FrameStep ==
    ASSUME JoinInv, IInv', RestartTypeOK',
           UNCHANGED <<attempts, task, command, network, nets, refused, connState,
                       kills, inherited>>,
           strays \subseteq strays',
           OverlapsAreKnown',
           \/ UNCHANGED <<released, dropped>>
           \/ released' /\ dropped' = attempts,
           strays' = {} => Cleared',
           strays' = {} => deaf' \/ ~deaf \/ released'
    PROVE  JoinInv'
<1> USE DEF JoinInv
<1>1. strays' = {} => strays = {}
  OBVIOUS
<1>2. Numbered' /\ Conn!SingleAttempt' /\ Prepared' /\ Cleared'
  BY <1>1 DEF Numbered, Conn!SingleAttempt, Conn!InFlight, Prepared, Cleared
<1>3. CASE UNCHANGED <<released, dropped>>
  <2>1. Joinable' = Joinable
    BY <1>3 DEF Joinable
  <2>2. Reached'
    BY <1>1, <1>3, <2>1 DEF Reached
  <2>3. IdleJoinsOnlyInherited'
    BY <1>1, <1>3, <2>1 DEF IdleJoinsOnlyInherited, Joinable
  <2> QED
    BY <1>2, <2>2, <2>3
<1>4. CASE released' /\ dropped' = attempts
  <2>1. Joinable' = {}
    BY <1>4 DEF Joinable
  <2> QED
    BY <1>2, <1>4, <2>1 DEF Reached, IdleJoinsOnlyInherited
<1> QED
  BY <1>3, <1>4

-----------------------------------------------------------------------------
(* Types                                                                    *)

LEMMA ServiceType == Conn!TypeOK /\ [Conn!Next]_(Conn!vars) => Conn!TypeOK'
<1> SUFFICES ASSUME Conn!TypeOK, [Conn!Next]_(Conn!vars)
             PROVE  Conn!TypeOK'
  OBVIOUS
<1> USE WpactrlAssumption DEF WpactrlAssumption, Conn!TypeOK
<1>1. ASSUME NEW c \in Callers, NEW s \in Ssids, Conn!Connect(c, s)
      PROVE  Conn!TypeOK'
  BY <1>1 DEF Conn!Connect, Conn!MachineConnect, Conn!Attempts, Conn!ConnectionStates,
              Conn!TaskStates, Conn!Replies
<1>2. ASSUME NEW c \in Callers, Conn!RefuseConnect(c) \/ Conn!ReadStatus(c)
      PROVE  Conn!TypeOK'
  BY <1>2 DEF Conn!RefuseConnect, Conn!ReadStatus, Conn!machine, Conn!tasks,
              Conn!history, Conn!Replies
<1>3. ASSUME NEW c \in Callers, Conn!CallDisconnect(c)
      PROVE  Conn!TypeOK'
  <2>1. strays' \in SUBSET Conn!Attempts
    BY <1>3 DEF Conn!CallDisconnect, Conn!InFlight
  <2> QED
    BY <1>3, <2>1 DEF Conn!CallDisconnect, Conn!machine, Conn!tasks, Conn!CallerStates
<1>4. ASSUME NEW c \in Callers,
             Conn!BackendDisconnect(c) \/ Conn!BackendDisconnectFails(c)
      PROVE  Conn!TypeOK'
  BY <1>4 DEF Conn!BackendDisconnect, Conn!BackendDisconnectFails, Conn!machine,
              Conn!tasks, Conn!history, Conn!CallerStates, Conn!Replies
<1>5. ASSUME NEW c \in Callers, Conn!Clear(c)
      PROVE  Conn!TypeOK'
  BY <1>5 DEF Conn!Clear, Conn!MachineDisconnect, Conn!tasks, Conn!history,
              Conn!ConnectionStates, Conn!CallerStates, Conn!Replies
<1>6. ASSUME NEW t \in Conn!Attempts,
             Conn!BackendConnect(t) \/ Conn!BackendConnectFails(t)
      PROVE  Conn!TypeOK'
  BY <1>6 DEF Conn!BackendConnect, Conn!BackendConnectFails, Conn!machine,
              Conn!callerVars, Conn!history, Conn!TaskStates
<1>7. ASSUME NEW t \in Conn!Attempts, Conn!BackendStatus(t)
      PROVE  Conn!TypeOK'
  BY <1>7 DEF Conn!BackendStatus, Conn!machine, Conn!callerVars, Conn!history,
              Conn!TaskStates, Conn!Polls
<1>8. ASSUME NEW t \in Conn!Attempts, Conn!CompleteConnect(t)
      PROVE  Conn!TypeOK'
  BY <1>8 DEF Conn!CompleteConnect, Conn!MachineComplete, Conn!callerVars,
              Conn!history, Conn!Attempts, Conn!TaskStates, Conn!ConnectionStates
<1>9. ASSUME NEW t \in Conn!Attempts, Conn!FailConnect(t)
      PROVE  Conn!TypeOK'
  BY <1>9 DEF Conn!FailConnect, Conn!MachineFail, Conn!callerVars, Conn!history,
              Conn!Attempts, Conn!TaskStates, Conn!ConnectionStates
<1>10. CASE UNCHANGED Conn!vars
  BY <1>10 DEF Conn!vars, Conn!machine, Conn!tasks, Conn!callerVars, Conn!history
<1> QED
  BY <1>1, <1>2, <1>3, <1>4, <1>5, <1>6, <1>7, <1>8, <1>9, <1>10 DEF Conn!Next

\* A request changes of the service only the task that sends it.
LEMMA RequestFrame ==
    ASSUME IInv, NEW t \in Conn!Attempts, NEW cmd, NEW obeyed \in BOOLEAN,
           Request(t, cmd, obeyed)
    PROVE  /\ UNCHANGED <<connState, attempts, caller, strays, drops>>
           /\ refused' \in {refused, refused \cup {t}}
           /\ task[t] = "connecting" /\ command[t] = cmd
           /\ \/ task'[t] = "err"
              \/ task'[t] = "connecting" /\ cmd # "select"
              \/ task'[t] = "polling" /\ cmd = "select"
           /\ \A u \in Conn!Attempts : u # t =>
                 task'[u] = task[u] /\ command'[u] = command[u]
           /\ task' \in [Conn!Attempts -> Conn!TaskStates]
           /\ task'[t] # "err" /\ ~obeyed => t \in refused'
<1> USE DEF IInv
<1>1. CASE Proceed(t) /\ refused' = IF obeyed THEN refused ELSE refused \cup {t}
  <2>1. CASE command[t] = "select"
    BY <1>1, <2>1 DEF Proceed, Request, Conn!BackendConnect, Conn!TaskStates, drops,
                      Conn!machine, Conn!callerVars, Conn!history
  <2>2. CASE command[t] # "select"
    <3>1. \A u \in Conn!Attempts : u # t => command'[u] = command[u]
      BY <1>1, <2>2 DEF Proceed
    <3>2. UNCHANGED connVars
      BY <1>1, <2>2 DEF Proceed
    <3> QED
      BY <1>1, <2>2, <3>1, <3>2 DEF Request, connVars
  <2> QED
    BY <2>1, <2>2
<1>2. CASE Conn!BackendConnectFails(t) /\ UNCHANGED <<command, refused>>
  BY <1>2 DEF Request, Conn!BackendConnectFails, Conn!TaskStates, drops, Conn!machine,
              Conn!callerVars, Conn!history
<1> QED
  BY <1>1, <1>2 DEF Request

\* After a command that is not the last one the next one follows.
LEMMA NextCommand ==
    ASSUME IInv, NEW t \in Conn!Attempts, NEW cmd, NEW obeyed \in BOOLEAN,
           Request(t, cmd, obeyed), task'[t] = "connecting"
    PROVE  /\ cmd = "add" => command'[t] = "ssid"
           /\ cmd = "ssid" => command'[t] = "psk"
           /\ cmd = "psk" => command'[t] = "enable"
           /\ cmd = "enable" => command'[t] = "select"
<1>1. ~Conn!BackendConnectFails(t) /\ command[t] = cmd /\ cmd # "select"
  BY RequestFrame DEF IInv, Request, Conn!BackendConnectFails
<1> QED
  BY <1>1 DEF Request, Proceed, IInv

LEMMA NetsGrow ==
    ASSUME IInv, IInv', NEW t \in Conn!Attempts, NEW obeyed \in BOOLEAN,
           \/ AddNetwork(t, obeyed) \/ SetSsid(t, obeyed) \/ SetPsk(t, obeyed)
           \/ EnableNetwork(t, obeyed) \/ SelectNetwork(t, obeyed)
    PROVE  DOMAIN nets \subseteq DOMAIN nets'
<1>1. nets \in Seq(Network)
  BY DEF IInv
<1>2. CASE AddNetwork(t, obeyed)
  BY <1>1, <1>2 DEF AddNetwork
<1>3. CASE SetSsid(t, obeyed) \/ SetPsk(t, obeyed) \/ EnableNetwork(t, obeyed)
  BY <1>1, <1>3 DEF SetSsid, SetPsk, EnableNetwork
<1>4. CASE SelectNetwork(t, obeyed)
  BY <1>1, <1>4 DEF SelectNetwork, Selected
<1> QED
  BY <1>2, <1>3, <1>4

LEMMA NextType ==
    IInv /\ IInv' /\ RestartTypeOK /\ [RestartNext]_restartVars => RestartTypeOK'
<1> USE WpactrlAssumption, RestartAssumption DEF WpactrlAssumption, RestartAssumption
<1> SUFFICES ASSUME IInv, IInv', RestartTypeOK, [RestartNext]_restartVars
             PROVE  RestartTypeOK'
  OBVIOUS
<1>0. /\ command' \in [Conn!Attempts -> Commands]
      /\ network' \in [Conn!Attempts -> 0..Len(nets')] /\ nets' \in Seq(Network)
  BY DEF IInv
<1>1. ASSUME [Next]_vars PROVE Conn!TypeOK'
  BY <1>1, ServiceSteps, ServiceType DEF RestartTypeOK, TypeOK
<1>2. ASSUME NEW t \in Conn!Attempts, NEW obeyed \in BOOLEAN,
             \/ AddNetwork(t, obeyed) \/ SetSsid(t, obeyed) \/ SetPsk(t, obeyed)
             \/ EnableNetwork(t, obeyed) \/ SelectNetwork(t, obeyed),
             UNCHANGED <<kills, inherited>>
      PROVE  RestartTypeOK'
  <2>1. Next
    BY <1>2 DEF Next
  <2>2. PICK cmd : Request(t, cmd, obeyed)
    BY <1>2 DEF AddNetwork, SetSsid, SetPsk, EnableNetwork, SelectNetwork
  <2>3. /\ refused' \in SUBSET Conn!Attempts /\ UNCHANGED <<dropped, deaf>>
    BY <2>2, RequestFrame DEF RestartTypeOK, TypeOK, drops
  <2>4. released' \in BOOLEAN
    <3>1. released \in BOOLEAN
      BY DEF RestartTypeOK, TypeOK
    <3>2. released' = released \/ released' = (released /\ ~obeyed)
      BY <1>2 DEF AddNetwork, SetSsid, SetPsk, EnableNetwork, SelectNetwork
    <3> QED
      BY <3>1, <3>2
  <2>5. inherited' \in SUBSET DOMAIN nets'
    BY <1>2, NetsGrow DEF RestartTypeOK
  <2> QED
    BY <1>0, <1>1, <1>2, <2>1, <2>3, <2>4, <2>5 DEF RestartTypeOK, TypeOK
<1>3. ASSUME NEW c \in Callers, NEW obeyed \in BOOLEAN, Disconnect(c, obeyed),
             UNCHANGED <<kills, inherited>>
      PROVE  RestartTypeOK'
  <2>1. Next
    BY <1>3 DEF Next
  <2>2. released' \in BOOLEAN /\ deaf' \in BOOLEAN
    <3>1. released \in BOOLEAN /\ deaf \in BOOLEAN
      BY DEF RestartTypeOK, TypeOK
    <3>2. /\ released' = (released \/ obeyed)
          /\ deaf' = deaf \/ deaf' = ~obeyed
      BY <1>3 DEF Disconnect
    <3> QED
      BY <3>1, <3>2
  <2>3. dropped' \in 0..MaxAttempts
    BY <1>3 DEF Disconnect, RestartTypeOK, TypeOK, Conn!TypeOK
  <2> QED
    BY <1>0, <1>1, <1>3, <2>1, <2>2, <2>3 DEF RestartTypeOK, TypeOK, Disconnect
<1>4. ASSUME [Next]_vars, UNCHANGED <<nets, released, refused, drops, kills, inherited>>
      PROVE  RestartTypeOK'
  BY <1>0, <1>1, <1>4 DEF RestartTypeOK, TypeOK, drops
<1>5. CASE Kill
  <2>1. Conn!TypeOK'
    BY <1>5 DEF Kill, RestartTypeOK, TypeOK, Conn!TypeOK, Conn!MachineDisconnect,
                Conn!ConnectionStates, Conn!TaskStates, Conn!CallerStates, Conn!Replies
  <2>2. inherited' \in SUBSET DOMAIN nets'
    BY <1>5 DEF Kill, Joinable, supplicant
  <2>3. kills' \in 0..MaxKills
    BY <1>5 DEF Kill, RestartTypeOK
  <2> QED
    BY <1>0, <1>5, <2>1, <2>2, <2>3 DEF Kill, RestartTypeOK, TypeOK, supplicant
<1>6. ASSUME NEW t \in Conn!Attempts, Completed(t) \/ Status(t),
             UNCHANGED <<kills, inherited>>
      PROVE  RestartTypeOK'
  <2>1. Next
    BY <1>6 DEF Next
  <2> QED
    BY <1>4, <1>6, <2>1 DEF Completed, Status, supplicant
<1>7. CASE (Service \/ Rest) /\ UNCHANGED <<kills, inherited>>
  <2>1. Next
    BY <1>7 DEF Next
  <2> QED
    BY <1>4, <1>7, <2>1 DEF Service, Rest, vars, supplicant
<1>8. CASE UNCHANGED restartVars
  BY <1>4, <1>8 DEF restartVars, vars, supplicant
<1> QED
  BY <1>2, <1>3, <1>5, <1>6, <1>7, <1>8 DEF RestartNext, Next

-----------------------------------------------------------------------------
(* JoinInv is inductive                                                     *)

LEMMA JoinInit == RestartInit => JoinInv
<1> USE WpactrlAssumption, RestartAssumption DEF WpactrlAssumption, RestartAssumption
<1> SUFFICES ASSUME RestartInit PROVE JoinInv
  OBVIOUS
<1>1. IInv
  BY IInvInit DEF RestartInit
<1>2. RestartTypeOK
  <2>1. Conn!TypeOK
    BY DEF RestartInit, Init, Conn!Init, Conn!TypeOK, Conn!Attempts,
           Conn!ConnectionStates, Conn!TaskStates, Conn!Polls, Conn!CallerStates,
           Conn!Replies
  <2>2. kills \in 0..MaxKills /\ dropped \in 0..MaxAttempts
    BY DEF RestartInit, Init
  <2> QED
    BY <1>1, <2>1, <2>2 DEF RestartInit, Init, RestartTypeOK, TypeOK, IInv
<1>3. Numbered /\ OverlapsAreKnown /\ Conn!SingleAttempt /\ Prepared
  BY DEF RestartInit, Init, Conn!Init, Numbered, OverlapsAreKnown, Prepared,
         Conn!SingleAttempt, Conn!InFlight, Conn!Disconnecting, Conn!Attempts
<1>4. Reached /\ Cleared /\ IdleJoinsOnlyInherited
  BY DEF RestartInit, Init, Conn!Init, Reached, Cleared, IdleJoinsOnlyInherited,
         Joinable
<1> QED
  BY <1>1, <1>2, <1>3, <1>4 DEF JoinInv

\* A request keeps the invariant if it does for its own attempt what Prepared
\* and Reached ask for: the other conjuncts speak of nothing a request changes,
\* or of times when there is none.
LEMMA RequestJoin ==
    ASSUME JoinInv, IInv', RestartTypeOK',
           NEW t \in Conn!Attempts, NEW cmd, NEW obeyed \in BOOLEAN,
           Request(t, cmd, obeyed), UNCHANGED <<kills, inherited>>,
           strays = {} /\ t \notin refused' /\ task'[t] = "connecting" =>
               /\ command'[t] # "add" => network'[t] # 0
               /\ command'[t] \in {"psk", "enable", "select"}
                      => nets'[network'[t]].name = t
               /\ command'[t] \in {"enable", "select"} => nets'[network'[t]].key = t,
           strays = {} /\ t \notin refused' /\ task'[t] = "polling" =>
               /\ Joinable' = {network'[t]}
               /\ nets'[network'[t]].name = t /\ nets'[network'[t]].key = t
    PROVE  JoinInv'
<1> USE DEF JoinInv
<1>1. /\ UNCHANGED <<connState, attempts, caller, strays, drops>>
      /\ task[t] = "connecting" /\ t \in Conn!InFlight
      /\ task'[t] \in {"err", "connecting", "polling"}
      /\ \A u \in Conn!Attempts : u # t =>
            task'[u] = task[u] /\ command'[u] = command[u]
  BY RequestFrame DEF Conn!InFlight
<1>2. Conn!InFlight' = Conn!InFlight
  BY <1>1 DEF Conn!InFlight
<1>3. Numbered'
  BY <1>1 DEF Numbered
<1>4. OverlapsAreKnown' /\ Conn!SingleAttempt'
  BY <1>1, <1>2 DEF OverlapsAreKnown, Conn!SingleAttempt, Conn!Disconnecting
<1>5. strays' = {} => t = attempts /\ connState = "Connecting" /\ ~Conn!Disconnecting
  BY <1>1, Alone
<1>6. strays' = {} => \A u \in Conn!Attempts : u # t =>
          task'[u] \notin {"connecting", "polling", "up"}
  <2>1. strays' = {} => \A u \in Conn!InFlight : u = t
    BY <1>1, <1>5, Alone
  <2> QED
    BY <1>2, <2>1 DEF Conn!InFlight
<1>7. Prepared'
  BY <1>1, <1>6 DEF Prepared
<1>8. Reached'
  BY <1>1, <1>5, <1>6 DEF Reached
<1>9. Cleared' /\ IdleJoinsOnlyInherited'
  BY <1>1, <1>5 DEF Cleared, IdleJoinsOnlyInherited, Conn!Disconnecting
<1> QED
  BY <1>3, <1>4, <1>7, <1>8, <1>9

\* The commands of an attempt.
LEMMA CommandsJoin ==
    ASSUME JoinInv, IInv', RestartTypeOK', UNCHANGED <<kills, inherited>>,
           NEW t \in Conn!Attempts, NEW obeyed \in BOOLEAN,
           \/ AddNetwork(t, obeyed) \/ SetSsid(t, obeyed) \/ SetPsk(t, obeyed)
           \/ EnableNetwork(t, obeyed) \/ SelectNetwork(t, obeyed)
    PROVE  JoinInv'
<1> USE DEF JoinInv
<1>0. /\ IInv /\ nets \in Seq(Network) /\ network \in [Conn!Attempts -> 0..Len(nets)]
      /\ DOMAIN nets = 1..Len(nets) /\ Len(nets) \in Nat
      /\ \A n \in DOMAIN nets : nets[n] \in Network
      /\ t # 0
  BY DEF IInv, Conn!Attempts
\* What the attempt has done before.
<1>1. ASSUME NEW cmd, Request(t, cmd, obeyed), t \notin refused', strays = {}
      PROVE  /\ cmd # "add" =>
                    network[t] # 0 /\ Addressed(t) = network[t] /\ network[t] \in DOMAIN nets
             /\ cmd \in {"psk", "enable", "select"} => nets[network[t]].name = t
             /\ cmd \in {"enable", "select"} => nets[network[t]].key = t
  <2>1. task[t] = "connecting" /\ command[t] = cmd /\ t \notin refused
    BY <1>0, <1>1, RequestFrame
  <2> QED
    BY <1>0, <1>1, <2>1 DEF Prepared, Addressed
<1>2. CASE AddNetwork(t, obeyed)
  <2>1. Request(t, "add", obeyed)
    BY <1>2 DEF AddNetwork
  <2>2. task'[t] = "connecting" => command'[t] = "ssid"
    BY <1>0, <2>1, NextCommand
  <2>3. ASSUME strays = {}, t \notin refused', task'[t] = "connecting"
        PROVE  network'[t] # 0
    <3>1. obeyed
      BY <1>0, <2>1, <2>3, RequestFrame
    <3>2. network'[t] = Len(nets) + 1
      BY <1>0, <1>2, <3>1 DEF AddNetwork
    <3> QED
      BY <1>0, <3>2
  <2>4. task'[t] # "polling"
    BY <1>0, <2>1, RequestFrame
  <2> QED
    BY <2>1, <2>2, <2>3, <2>4, RequestJoin
<1>3. CASE SetSsid(t, obeyed)
  <2>1. /\ Request(t, "ssid", obeyed) /\ UNCHANGED network
        /\ nets' = IF obeyed THEN [nets EXCEPT ![Addressed(t)].name = t] ELSE nets
    BY <1>3 DEF SetSsid
  <2>2. task'[t] = "connecting" => command'[t] = "psk"
    BY <1>0, <2>1, NextCommand
  <2>3. ASSUME strays = {}, t \notin refused', task'[t] = "connecting"
        PROVE  /\ network'[t] # 0
               /\ nets'[network'[t]].name = t
    <3>1. obeyed
      BY <1>0, <2>1, <2>3, RequestFrame
    <3>2. network[t] # 0 /\ Addressed(t) = network[t] /\ network[t] \in DOMAIN nets
      BY <1>1, <2>1, <2>3
    <3>3. nets'[network[t]] = [nets[network[t]] EXCEPT !.name = t]
      BY <1>0, <2>1, <3>1, <3>2
    <3> QED
      BY <1>0, <1>1, <2>1, <2>3, <3>2, <3>3 DEF Network
  <2>4. task'[t] # "polling"
    BY <1>0, <2>1, RequestFrame
  <2> QED
    BY <2>1, <2>2, <2>3, <2>4, RequestJoin
<1>4. CASE SetPsk(t, obeyed)
  <2>1. /\ Request(t, "psk", obeyed) /\ UNCHANGED network
        /\ nets' = IF obeyed THEN [nets EXCEPT ![Addressed(t)].key = t] ELSE nets
    BY <1>4 DEF SetPsk
  <2>2. task'[t] = "connecting" => command'[t] = "enable"
    BY <1>0, <2>1, NextCommand
  <2>3. ASSUME strays = {}, t \notin refused', task'[t] = "connecting"
        PROVE  /\ network'[t] # 0
               /\ nets'[network'[t]].name = t
               /\ nets'[network'[t]].key = t
    <3>1. obeyed
      BY <1>0, <2>1, <2>3, RequestFrame
    <3>2. network[t] # 0 /\ Addressed(t) = network[t] /\ network[t] \in DOMAIN nets
      BY <1>1, <2>1, <2>3
    <3>3. nets'[network[t]] = [nets[network[t]] EXCEPT !.key = t]
      BY <1>0, <2>1, <3>1, <3>2
    <3> QED
      BY <1>0, <1>1, <2>1, <2>3, <3>2, <3>3 DEF Network
  <2>4. task'[t] # "polling"
    BY <1>0, <2>1, RequestFrame
  <2> QED
    BY <2>1, <2>2, <2>3, <2>4, RequestJoin
<1>5. CASE EnableNetwork(t, obeyed)
  <2>1. /\ Request(t, "enable", obeyed) /\ UNCHANGED network
        /\ nets' = IF obeyed THEN [nets EXCEPT ![Addressed(t)].enabled = TRUE] ELSE nets
    BY <1>5 DEF EnableNetwork
  <2>2. task'[t] = "connecting" => command'[t] = "select"
    BY <1>0, <2>1, NextCommand
  <2>3. ASSUME strays = {}, t \notin refused', task'[t] = "connecting"
        PROVE  /\ network'[t] # 0
               /\ nets'[network'[t]].name = t
               /\ nets'[network'[t]].key = t
    <3>1. obeyed
      BY <1>0, <2>1, <2>3, RequestFrame
    <3>2. network[t] # 0 /\ Addressed(t) = network[t] /\ network[t] \in DOMAIN nets
      BY <1>1, <2>1, <2>3
    <3>3. nets'[network[t]] = [nets[network[t]] EXCEPT !.enabled = TRUE]
      BY <1>0, <2>1, <3>1, <3>2
    <3> QED
      BY <1>0, <1>1, <2>1, <2>3, <3>2, <3>3 DEF Network
  <2>4. task'[t] # "polling"
    BY <1>0, <2>1, RequestFrame
  <2> QED
    BY <2>1, <2>2, <2>3, <2>4, RequestJoin
<1>6. CASE SelectNetwork(t, obeyed)
  <2>1. /\ Request(t, "select", obeyed) /\ UNCHANGED network
        /\ nets' = IF obeyed THEN Selected(Addressed(t)) ELSE nets
        /\ released' = (released /\ ~obeyed)
    BY <1>6 DEF SelectNetwork
  <2>2. task'[t] # "connecting"
    BY <1>0, <2>1, RequestFrame
  <2>3. ASSUME strays = {}, t \notin refused', task'[t] = "polling"
        PROVE  /\ Joinable' = {network'[t]}
               /\ nets'[network'[t]].name = t /\ nets'[network'[t]].key = t
    <3>1. obeyed
      BY <1>0, <2>1, <2>3, RequestFrame
    <3>2. /\ network[t] \in DOMAIN nets /\ Addressed(t) = network[t]
          /\ nets[network[t]].name = t /\ nets[network[t]].key = t
      BY <1>1, <2>1, <2>3
    <3>3. DOMAIN nets' = DOMAIN nets /\ ~released'
      BY <2>1, <3>1 DEF Selected
    <3>4. ASSUME NEW n \in DOMAIN nets
          PROVE  /\ nets'[n].enabled <=> n = network[t]
                 /\ nets'[n].name = nets[n].name /\ nets'[n].key = nets[n].key
      <4>1. nets'[n] = [nets[n] EXCEPT !.enabled = (n = network[t])]
        BY <2>1, <3>1, <3>2, Zenon DEF Selected
      <4>2. CASE n = network[t]
        <5>1. nets'[n] = [nets[n] EXCEPT !.enabled = TRUE]
          BY <4>1, <4>2, Zenon
        <5> QED
          BY <1>0, <4>2, <5>1 DEF Network
      <4>3. CASE n # network[t]
        <5>1. nets'[n] = [nets[n] EXCEPT !.enabled = FALSE]
          BY <4>1, <4>3, Zenon
        <5> QED
          BY <1>0, <4>3, <5>1 DEF Network
      <4> QED
        BY <4>2, <4>3
    <3>5. nets'[network[t]].name = t /\ nets'[network[t]].key = t
      BY <1>0, <3>2, <3>4
    <3> QED
      BY <1>0, <2>1, <3>2, <3>3, <3>4, <3>5 DEF Joinable
  <2> QED
    BY <2>1, <2>2, <2>3, RequestJoin
<1> QED
  BY <1>2, <1>3, <1>4, <1>5, <1>6

\* A disconnect, up to the answer of the backend.
LEMMA DisconnectJoin ==
    ASSUME JoinInv, IInv', RestartTypeOK', UNCHANGED <<kills, inherited>>,
           NEW c \in Callers, NEW obeyed \in BOOLEAN, Disconnect(c, obeyed)
    PROVE  JoinInv'
<1> USE DEF JoinInv
<1>1. /\ UNCHANGED <<attempts, task, command, network, nets, refused, connState,
                      strays>>
      /\ caller[c] = "disconnecting"
      /\ \A d \in Callers : d # c => caller'[d] = caller[d]
      /\ \/ caller'[c] = "clearing" /\ deaf' = ~obeyed
         \/ caller'[c] = "ready" /\ deaf' = deaf
      /\ caller \in [Callers -> Conn!CallerStates]
  BY DEF Disconnect, sequence, Conn!BackendDisconnect, Conn!BackendDisconnectFails,
         Conn!machine, Conn!tasks, Conn!history, RestartTypeOK, TypeOK, Conn!TypeOK
<1>2. /\ released' = (released \/ obeyed)
      /\ dropped' = IF obeyed THEN attempts ELSE dropped
  BY DEF Disconnect
<1>3. OverlapsAreKnown'
  BY <1>1 DEF OverlapsAreKnown, Conn!Disconnecting, Conn!InFlight
<1>4. released \in BOOLEAN /\ deaf \in BOOLEAN
  BY DEF RestartTypeOK, TypeOK
<1>5. CASE obeyed
  <2>1. released' /\ dropped' = attempts
    BY <1>2, <1>5
  <2>2. Cleared'
    BY <2>1 DEF Cleared
  <2> QED
    BY <1>1, <1>3, <2>1, <2>2, FrameStep
<1>6. CASE ~obeyed
  <2>1. UNCHANGED <<released, dropped>>
    BY <1>2, <1>4, <1>6
  <2>2. Cleared'
    <3>1. CASE caller'[c] = "clearing" /\ deaf'
      BY <3>1 DEF Cleared
    <3>2. CASE caller'[c] = "ready" /\ deaf' = deaf
      BY <1>1, <2>1, <3>2 DEF Cleared
    <3> QED
      BY <1>1, <1>6, <3>1, <3>2
  <2>3. deaf' \/ ~deaf
    BY <1>1, <1>6
  <2> QED
    BY <1>1, <1>3, <2>1, <2>2, <2>3, FrameStep
<1> QED
  BY <1>5, <1>6

\* Every other step of the program: it leaves wpa_supplicant as it is.
LEMMA OtherJoin ==
    ASSUME JoinInv, IInv', RestartTypeOK', UNCHANGED <<kills, inherited>>,
           (\E t \in Conn!Attempts : Completed(t) \/ Status(t)) \/ Service
    PROVE  JoinInv'
<1> USE DEF JoinInv
<1>0. /\ UNCHANGED <<nets, released, refused, dropped, deaf, network>>
      /\ Joinable' = Joinable
      /\ Conn!TypeOK
  BY DEF Completed, Status, Service, supplicant, drops, sequence, Joinable,
         RestartTypeOK, TypeOK
\* The attempt is asked for its address: nobody but its status call goes on.
<1>1. ASSUME NEW t \in Conn!Attempts, Completed(t) PROVE JoinInv'
  <2>1. /\ UNCHANGED <<connState, attempts, task, caller, strays>>
        /\ task[t] = "polling" /\ command' = [command EXCEPT ![t] = "ip"]
    BY <1>1 DEF Completed, connVars
  <2>2. Numbered'
    BY <2>1 DEF Numbered, IInv
  <2>3. OverlapsAreKnown' /\ Conn!SingleAttempt'
    BY <2>1 DEF OverlapsAreKnown, Conn!SingleAttempt, Conn!InFlight, Conn!Disconnecting
  <2>4. Prepared'
    BY <1>0, <2>1 DEF Prepared, IInv
  <2>5. Reached' /\ Cleared' /\ IdleJoinsOnlyInherited'
    BY <1>0, <2>1 DEF Reached, Cleared, IdleJoinsOnlyInherited
  <2> QED
    BY <2>2, <2>3, <2>4, <2>5
\* One task of an attempt in flight goes on, or publishes.
<1>2. ASSUME NEW t \in Conn!Attempts, t \in Conn!InFlight,
             UNCHANGED <<attempts, caller, strays, command>>,
             NEW l, task' = [task EXCEPT ![t] = l],
             l \in {"up", "err", "done"}, task[t] # "connecting",
             l = "up" => task[t] = "polling",
             \/ UNCHANGED connState
             \/ l = "done" /\ connState' = "Failed"
             \/ l = "done" /\ connState' = "Connected" /\ task[t] = "up"
      PROVE  JoinInv'
  <2>0. task \in [Conn!Attempts -> Conn!TaskStates]
    BY DEF IInv
  <2>1. Numbered'
    BY <1>2, <2>0 DEF Numbered, Conn!InFlight
  <2>2. Conn!InFlight' \subseteq Conn!InFlight
    BY <1>2, <2>0 DEF Conn!InFlight
  <2>3. OverlapsAreKnown'
    BY <1>2, <2>2 DEF OverlapsAreKnown, Conn!Disconnecting
  <2>4. strays' = {} => t = attempts /\ connState = "Connecting" /\ ~Conn!Disconnecting
    BY <1>2, Alone
  <2>5. Conn!SingleAttempt'
    <3>1. CASE UNCHANGED connState
      BY <1>2, <2>2, <3>1 DEF Conn!SingleAttempt
    <3>2. CASE l = "done"
      <4>1. Conn!InFlight' \subseteq Conn!InFlight \ {t}
        BY <1>2, <2>0, <3>2 DEF Conn!InFlight
      <4>2. strays' = {} => Conn!InFlight' = {}
        BY <1>2, <2>4, <4>1, Alone
      <4> QED
        BY <4>2 DEF Conn!SingleAttempt
    <3> QED
      BY <1>2, <3>1, <3>2
  <2>6. Prepared'
    BY <1>0, <1>2, <2>0 DEF Prepared
  <2>7. Reached'
    <3>1. ASSUME strays' = {}, connState' = "Connected"
          PROVE  task[t] = "up"
      BY <1>2, <2>4, <3>1
    <3>2. ASSUME NEW u \in Conn!Attempts, task'[u] \in {"polling", "up"}
          PROVE  \E v \in Conn!Attempts : task[v] \in {"polling", "up"}
      BY <1>2, <2>0, <3>2
    <3> QED
      BY <1>0, <1>2, <3>1, <3>2 DEF Reached
  <2>8. Cleared' /\ IdleJoinsOnlyInherited'
    BY <1>0, <1>2, <2>4 DEF Cleared, IdleJoinsOnlyInherited
  <2> QED
    BY <2>1, <2>3, <2>5, <2>6, <2>7, <2>8
<1>3. ASSUME NEW t \in Conn!Attempts, Status(t) PROVE JoinInv'
  <2>1. /\ Conn!BackendStatus(t) /\ UNCHANGED command
    BY <1>3 DEF Status, sequence
  <2>2. /\ task[t] = "polling" /\ UNCHANGED <<connState, attempts, caller, strays>>
        /\ task' = [task EXCEPT ![t] = "up"] \/ task' = [task EXCEPT ![t] = "err"]
    BY <2>1 DEF Conn!BackendStatus, Conn!machine, Conn!callerVars, Conn!history
  <2>3. t \in Conn!InFlight
    BY <2>2 DEF Conn!InFlight
  <2> QED
    BY <1>2, <2>1, <2>2, <2>3
<1>4. ASSUME NEW t \in Conn!Attempts, Service, Conn!CompleteConnect(t) PROVE JoinInv'
  <2>1. /\ task[t] = "up" /\ UNCHANGED <<attempts, caller, strays, command>>
        /\ task' = [task EXCEPT ![t] = "done"] /\ connState' = "Connected"
    BY <1>4 DEF Service, Conn!CompleteConnect, Conn!MachineComplete, Conn!callerVars,
                Conn!history, sequence
  <2>2. t \in Conn!InFlight
    BY <2>1 DEF Conn!InFlight
  <2> QED
    BY <1>2, <2>1, <2>2
<1>5. ASSUME NEW t \in Conn!Attempts, Service, Conn!FailConnect(t) PROVE JoinInv'
  <2>1. /\ task[t] = "err" /\ UNCHANGED <<attempts, caller, strays, command>>
        /\ task' = [task EXCEPT ![t] = "done"] /\ connState' = "Failed"
    BY <1>5 DEF Service, Conn!FailConnect, Conn!MachineFail, Conn!callerVars,
                Conn!history, sequence
  <2>2. t \in Conn!InFlight
    BY <2>1 DEF Conn!InFlight
  <2> QED
    BY <1>2, <2>1, <2>2
\* A new attempt, which is known to overlap with a disconnect if there is one.
<1>6. ASSUME NEW c \in Callers, NEW s \in Ssids, Service, Conn!Connect(c, s)
      PROVE  JoinInv'
  <2>1. /\ attempts < MaxAttempts /\ attempts' = attempts + 1
        /\ connState \in {"Idle", "Failed"} /\ connState' = "Connecting"
        /\ task' = [task EXCEPT ![attempts + 1] = "connecting"]
        /\ strays' = IF Conn!Disconnecting THEN strays \cup {attempts + 1} ELSE strays
        /\ UNCHANGED <<caller, command>>
    BY <1>6 DEF Service, Conn!Connect, Conn!CanConnect, Conn!MachineConnect, sequence
  <2>2. /\ attempts \in 0..MaxAttempts /\ attempts + 1 \in Conn!Attempts
        /\ task \in [Conn!Attempts -> Conn!TaskStates]
    BY <1>0, <2>1, WpactrlAssumption DEF Conn!TypeOK, Conn!Attempts, WpactrlAssumption
  <2>3. Conn!InFlight' = Conn!InFlight \cup {attempts + 1}
    BY <2>1, <2>2 DEF Conn!InFlight
  <2>4. Numbered'
    BY <2>1, <2>2 DEF Numbered, Conn!Attempts
  <2>5. OverlapsAreKnown'
    BY <2>1, <2>3 DEF OverlapsAreKnown, Conn!Disconnecting
  <2>6. strays' = {} => strays = {} /\ ~Conn!Disconnecting /\ Conn!InFlight = {}
    BY <2>1, Alone
  <2>7. Conn!SingleAttempt'
    BY <2>1, <2>3, <2>6 DEF Conn!SingleAttempt
  <2>8. Prepared'
    <3>1. command[attempts + 1] = "add"
      BY <2>2 DEF Numbered
    <3> QED
      BY <1>0, <2>1, <2>2, <2>6, <3>1 DEF Prepared
  <2>9. Reached'
    <3>1. strays' = {} => \A u \in Conn!Attempts : task'[u] \notin {"polling", "up"}
      BY <2>1, <2>2, <2>6 DEF Conn!InFlight
    <3> QED
      BY <2>1, <3>1 DEF Reached
  <2>10. Cleared' /\ IdleJoinsOnlyInherited'
    BY <1>0, <2>1, <2>6 DEF Cleared, IdleJoinsOnlyInherited
  <2> QED
    BY <2>4, <2>5, <2>7, <2>8, <2>9, <2>10
\* A disconnect begins, and every attempt that runs is known to overlap with it.
<1>7. ASSUME NEW c \in Callers, Service, Conn!CallDisconnect(c) PROVE JoinInv'
  <2>1. /\ UNCHANGED <<attempts, task, command, connState>>
        /\ caller' = [caller EXCEPT ![c] = "disconnecting"]
        /\ strays' = strays \cup Conn!InFlight
    BY <1>7 DEF Service, Conn!CallDisconnect, Conn!machine, Conn!tasks, sequence
  <2>2. OverlapsAreKnown'
    BY <2>1 DEF OverlapsAreKnown, Conn!InFlight
  <2>3. strays' = {} => Cleared'
    BY <1>0, <2>1 DEF Cleared, Conn!TypeOK
  <2> QED
    BY <1>0, <2>1, <2>2, <2>3, FrameStep
\* It clears the state machine: it was obeyed, or somebody heard a FAIL.
<1>8. ASSUME NEW c \in Callers, Service, Conn!Clear(c) PROVE JoinInv'
  <2>1. /\ UNCHANGED <<attempts, task, command, strays>> /\ connState' = "Idle"
        /\ caller[c] = "clearing" /\ caller' = [caller EXCEPT ![c] = "ready"]
    BY <1>8 DEF Service, Conn!Clear, Conn!MachineDisconnect, Conn!tasks, Conn!history,
                sequence
  <2>2. Conn!InFlight' = Conn!InFlight
    BY <2>1 DEF Conn!InFlight
  <2>3. Conn!Disconnecting /\ (Conn!Disconnecting' => Conn!Disconnecting)
    BY <2>1 DEF Conn!Disconnecting
  <2>4. strays = {} => Conn!InFlight = {}
    BY <2>3, Alone
  <2>5. Numbered' /\ OverlapsAreKnown' /\ Conn!SingleAttempt'
    BY <2>1, <2>2, <2>3, <2>4 DEF Numbered, OverlapsAreKnown, Conn!SingleAttempt
  <2>6. Prepared' /\ Reached'
    BY <1>0, <2>1, <2>4 DEF Prepared, Reached, Conn!InFlight
  <2>7. Cleared'
    BY <1>0, <2>1 DEF Cleared, Conn!TypeOK
  <2>8. IdleJoinsOnlyInherited'
    BY <1>0, <2>1 DEF Cleared, IdleJoinsOnlyInherited, Joinable
  <2> QED
    BY <2>5, <2>6, <2>7, <2>8
<1> QED
  BY <1>1, <1>3, <1>4, <1>5, <1>6, <1>7, <1>8 DEF Service

\* The program is killed: nobody is in flight any more, and what may be joined
\* is what the new process inherits.
LEMMA KillJoin ==
    ASSUME JoinInv, IInv', RestartTypeOK', Kill
    PROVE  JoinInv'
<1> USE DEF JoinInv
<1>1. /\ UNCHANGED <<attempts, command>> /\ connState' = "Idle" /\ inherited' = Joinable
      /\ caller' = [c \in Callers |-> "ready"]
      /\ task' = [t \in Conn!Attempts |->
                    IF t \in Conn!InFlight THEN "done" ELSE task[t]]
  BY DEF Kill, Conn!MachineDisconnect, sequence
<1>2. Conn!InFlight' = {}
  BY <1>1 DEF Conn!InFlight
<1>3. Numbered'
  BY <1>1 DEF Numbered, Conn!InFlight
<1>4. OverlapsAreKnown' /\ Conn!SingleAttempt'
  BY <1>2 DEF OverlapsAreKnown, Conn!SingleAttempt
<1>5. Prepared' /\ Reached'
  BY <1>1, <1>2 DEF Prepared, Reached, Conn!InFlight
<1>6. Cleared'
  BY <1>1 DEF Cleared
<1>7. IdleJoinsOnlyInherited'
  <2>1. Joinable' = Joinable
    BY DEF Kill, supplicant, Joinable
  <2> QED
    BY <1>1, <2>1 DEF IdleJoinsOnlyInherited
<1> QED
  BY <1>3, <1>4, <1>5, <1>6, <1>7

LEMMA JoinStep == JoinInv /\ [RestartNext]_restartVars => JoinInv'
<1> SUFFICES ASSUME JoinInv, [RestartNext]_restartVars PROVE JoinInv'
  OBVIOUS
<1>0. IInv' /\ RestartTypeOK'
  BY IInvRestart, NextType DEF JoinInv
<1>1. CASE Kill
  BY <1>0, <1>1, KillJoin
<1>2. CASE UNCHANGED restartVars
  <2>1. Joinable' = Joinable /\ Conn!InFlight' = Conn!InFlight
        /\ Conn!Disconnecting' = Conn!Disconnecting
    BY <1>2 DEF restartVars, vars, connVars, supplicant, Joinable, Conn!InFlight,
                Conn!Disconnecting
  <2>2. Numbered' /\ OverlapsAreKnown' /\ Conn!SingleAttempt' /\ Prepared'
    BY <1>2, <2>1 DEF restartVars, vars, connVars, sequence, supplicant, JoinInv,
                      Numbered, OverlapsAreKnown, Conn!SingleAttempt, Prepared
  <2>3. Reached' /\ Cleared' /\ IdleJoinsOnlyInherited'
    BY <1>2, <2>1 DEF restartVars, vars, connVars, sequence, supplicant, drops, JoinInv,
                      Reached, Cleared, IdleJoinsOnlyInherited
  <2> QED
    BY <1>0, <2>2, <2>3 DEF JoinInv
<1>3. CASE Next /\ UNCHANGED <<kills, inherited>>
  <2>1. CASE Rest
    BY <1>2, <1>3, <2>1 DEF Rest, restartVars
  <2> QED
    BY <1>0, <1>3, <2>1, CommandsJoin, DisconnectJoin, OtherJoin DEF Next
<1> QED
  BY <1>1, <1>2, <1>3 DEF RestartNext

LEMMA JoinAlways == RestartSpec => []JoinInv
BY JoinInit, JoinStep, PTL DEF RestartSpec

-----------------------------------------------------------------------------
\* The types of the variables, those of the connection service included.
THEOREM RestartTypeCorrect == RestartSpec => []RestartTypeOK
<1>1. JoinInv => RestartTypeOK
  BY DEF JoinInv
<1> QED
  BY <1>1, JoinAlways, PTL

\* Unless an attempt and a disconnect overlapped, or a FAIL went unread, Connected
\* means that the network of the last attempt, with its own name and key, may be
\* joined and no other, for any number of attempts, disconnects and restarts, and
\* whatever those that failed half-way have left behind.
THEOREM TargetAlone == RestartSpec => []OnlyTargetJoinable
<1>1. JoinInv => OnlyTargetJoinable
  BY DEF JoinInv, Reached, OnlyTargetJoinable
<1> QED
  BY <1>1, JoinAlways, PTL

\* While Idle is shown, wpa_supplicant may join only what the last process to be
\* killed left behind.
THEOREM IdleInherits == RestartSpec => []IdleJoinsOnlyInherited
<1>1. JoinInv => IdleJoinsOnlyInherited
  BY DEF JoinInv
<1> QED
  BY <1>1, JoinAlways, PTL
=============================================================================
