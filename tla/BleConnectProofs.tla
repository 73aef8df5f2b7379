-------------------------- MODULE BleConnectProofs --------------------------
(***************************************************************************)
(* The safety of BleConnect, for any set of centrals and networks, any     *)
(* capacity of the buffer and any number of attempts and disconnects.      *)
(***************************************************************************)
EXTENDS BleConnect, SequenceTheorems, TLAPS

USE BleConnectAssumption DEF BleConnectAssumption

-----------------------------------------------------------------------------
(* The invariant                                                            *)

\* The session's buffers hold what central c has written so far, and the copies
\* its handler took are equal to them.
HasBuffers(c) ==
    /\ step[c] = "begun" => ssidBuffer = <<<<wants[c], 1>>>> /\ pskBuffer = NoNetwork
    /\ step[c] = "named" => ssidBuffer = Name(wants[c]) /\ pskBuffer = NoNetwork
    /\ step[c] = "keyed" => ssidBuffer = Name(wants[c]) /\ pskBuffer = wants[c]
    /\ pc[c] \in {"named", "keyed", "accepted"} => ssid[c] = ssidBuffer
    /\ pc[c] \in {"keyed", "accepted"} => psk[c] = pskBuffer

UndisturbedHasBuffers == \A c \in undisturbed : HasBuffers(c)

\* What the buffers hold is of a central that has begun to hand over a network,
\* or is left from a connect request that failed or a central that went away.
BuffersHaveOwner ==
    abandoned = 0 /\ (ssidBuffer # <<>> \/ pskBuffer # NoNetwork)
        => \E c \in Centrals : step[c] # "start"

\* A central that has begun knows which network it hands over.
BegunMeansWants == \A c \in Centrals : step[c] # "start" => wants[c] \in Networks

\* The inductive invariant.
IInv == TypeOK /\ BegunMeansWants /\ UndisturbedHasBuffers /\ BuffersHaveOwner

-----------------------------------------------------------------------------
(* Names                                                                    *)

LEMMA EmptyIsName == <<>> \in Names
<1>1. <<>> \in [1..0 -> Part] /\ 0 \in 0..MaxParts
  OBVIOUS
<1> QED
  BY <1>1 DEF Names

\* A part fits where there is room for it.
LEMMA AppendedIsName ==
    ASSUME NEW part \in Part, ssidBuffer \in Names, Len(ssidBuffer) < MaxParts
    PROVE  Appended(part) \in Names
<1>1. PICK k \in 0..MaxParts : ssidBuffer \in [1..k -> Part]
  BY DEF Names
<1>2. ssidBuffer \in Seq(Part) /\ Len(ssidBuffer) = k
  <2>1. k \in Nat
    OBVIOUS
  <2>2. ssidBuffer \in Seq(Part)
    BY <1>1, <2>1, SeqDef
  <2>3. DOMAIN ssidBuffer = 1..k
    BY <1>1
  <2> QED
    BY <2>1, <2>2, <2>3, LenProperties
<1>3. Append(ssidBuffer, part) \in Seq(Part)
      /\ Len(Append(ssidBuffer, part)) = k + 1
  BY <1>2, AppendProperties
<1>4. Append(ssidBuffer, part) \in [1..(k + 1) -> Part]
  BY <1>3, LenProperties
<1>5. k + 1 \in 0..MaxParts
  BY <1>2
<1> QED
  BY <1>4, <1>5 DEF Names, Appended

\* The two parts of a name, one after the other, are the name.
LEMMA PartsMakeName ==
    ASSUME NEW n \in Networks
    PROVE  /\ Append(<<>>, <<n, 1>>) = <<<<n, 1>>>>
           /\ Append(<<<<n, 1>>>>, <<n, 2>>) = Name(n)
<1> DEFINE p == <<n, 1>>
           q == <<n, 2>>
<1> HIDE DEF p, q
<1>1. p \in {p, q} /\ q \in {p, q}
  OBVIOUS
<1>2. Append(<<>>, p) = <<p>>
  <2>1. <<>> \in Seq({p, q}) /\ Len(<<>>) = 0
    BY EmptySeq
  <2>2. /\ Append(<<>>, p) \in Seq({p, q}) /\ Len(Append(<<>>, p)) = 1
        /\ Append(<<>>, p)[1] = p
    BY <1>1, <2>1, AppendProperties
  <2>3. <<p>> \in Seq({p, q}) /\ Len(<<p>>) = 1 /\ <<p>>[1] = p
    BY <1>1
  <2> QED
    BY <2>2, <2>3, SeqEqual
<1>3. Append(<<p>>, q) = <<p, q>>
  <2>1. <<p>> \in Seq({p, q}) /\ Len(<<p>>) = 1 /\ <<p>>[1] = p
    BY <1>1
  <2>2. /\ Append(<<p>>, q) \in Seq({p, q}) /\ Len(Append(<<p>>, q)) = 2
        /\ Append(<<p>>, q)[1] = p /\ Append(<<p>>, q)[2] = q
    BY <1>1, <2>1, AppendProperties
  <2>3. /\ <<p, q>> \in Seq({p, q}) /\ Len(<<p, q>>) = 2
        /\ <<p, q>>[1] = p /\ <<p, q>>[2] = q
    BY <1>1
  <2>4. \A i \in 1..2 : Append(<<p>>, q)[i] = <<p, q>>[i]
    <3>1. \A i \in 1..2 : i = 1 \/ i = 2
      OBVIOUS
    <3> QED
      BY <2>2, <2>3, <3>1
  <2> QED
    BY <2>2, <2>3, <2>4, SeqEqual
<1> QED
  BY <1>2, <1>3 DEF Name, p, q

-----------------------------------------------------------------------------
(* The connection service below                                             *)

\* Every step is a step of the connection service, or leaves it alone.
LEMMA ServiceSteps ==
    ASSUME TypeOK, [Next]_vars
    PROVE  [Conn!Next]_(Conn!vars)
<1> USE DEF Conn!vars, Conn!machine, Conn!tasks, Conn!callerVars, Conn!history, connVars
<1>1. ASSUME NEW c \in Centrals, Connect(c) PROVE [Conn!Next]_(Conn!vars)
  <2>1. ssid[c] \in Names
    BY <1>1 DEF TypeOK
  <2>2. Conn!Connect(c, ssid[c]) \/ Conn!RefuseConnect(c)
    BY <1>1 DEF Connect
  <2>3. ASSUME Conn!Connect(c, ssid[c]) PROVE Conn!Next
    BY <2>1, <2>3 DEF Conn!Next
  <2>4. ASSUME Conn!RefuseConnect(c) PROVE Conn!Next
    BY <2>4 DEF Conn!Next
  <2> QED
    BY <2>2, <2>3, <2>4
<1>2. ASSUME NEW c \in Centrals,
             Disconnect(c) \/ DisconnectWait(c) \/ DisconnectDone(c)
      PROVE  [Conn!Next]_(Conn!vars)
  <2>1. \/ Conn!CallDisconnect(c) \/ Conn!BackendDisconnect(c)
        \/ Conn!BackendDisconnectFails(c) \/ Conn!Clear(c)
    BY <1>2 DEF Disconnect, DisconnectWait, DisconnectDone
  <2>2. Conn!Next
    BY <2>1 DEF Conn!Next
  <2> QED
    BY <2>2
<1>3. ASSUME NEW t \in Conn!Attempts, Background(t) PROVE [Conn!Next]_(Conn!vars)
  <2>1. \/ Conn!BackendConnect(t) \/ Conn!BackendConnectFails(t)
        \/ Conn!BackendStatus(t) \/ Conn!CompleteConnect(t) \/ Conn!FailConnect(t)
    BY <1>3 DEF Background, Conn!BackendReturns
  <2>2. Conn!Next
    BY <2>1 DEF Conn!Next
  <2> QED
    BY <2>2
<1>4. ASSUME NEW c \in Centrals,
             \/ Authorize(c) \/ \E n \in Networks : FirstSsidWrite(c, n)
             \/ SecondSsidWrite(c) \/ PskWrite(c)
             \/ GetSsid(c) \/ GetPsk(c) \/ ClearBuffers(c) \/ StateRead(c) \/ Drop(c)
      PROVE  [Conn!Next]_(Conn!vars)
  <2>1. UNCHANGED connVars
    BY <1>4 DEF Authorize, FirstSsidWrite, SecondSsidWrite, PskWrite, GetSsid, GetPsk,
                ClearBuffers, StateRead, Drop, vars
  <2> QED
    BY <2>1
<1>5. CASE UNCHANGED vars
  BY <1>5 DEF vars
<1> QED
  BY <1>1, <1>2, <1>3, <1>4, <1>5 DEF Next

LEMMA ServiceType == Conn!TypeOK /\ [Conn!Next]_(Conn!vars) => Conn!TypeOK'
<1> SUFFICES ASSUME Conn!TypeOK, [Conn!Next]_(Conn!vars)
             PROVE  Conn!TypeOK'
  OBVIOUS
<1> USE DEF Conn!TypeOK
<1>1. ASSUME NEW c \in Centrals, NEW s \in Names, Conn!Connect(c, s)
      PROVE  Conn!TypeOK'
  BY <1>1 DEF Conn!Connect, Conn!MachineConnect, Conn!Attempts, Conn!ConnectionStates,
              Conn!TaskStates, Conn!Replies
<1>2. ASSUME NEW c \in Centrals, Conn!RefuseConnect(c) \/ Conn!ReadStatus(c)
      PROVE  Conn!TypeOK'
  BY <1>2 DEF Conn!RefuseConnect, Conn!ReadStatus, Conn!machine, Conn!tasks,
              Conn!history, Conn!Replies
<1>3. ASSUME NEW c \in Centrals, Conn!CallDisconnect(c)
      PROVE  Conn!TypeOK'
  <2>1. strays' \in SUBSET Conn!Attempts
    BY <1>3 DEF Conn!CallDisconnect, Conn!InFlight
  <2> QED
    BY <1>3, <2>1 DEF Conn!CallDisconnect, Conn!machine, Conn!tasks, Conn!CallerStates
<1>4. ASSUME NEW c \in Centrals,
             Conn!BackendDisconnect(c) \/ Conn!BackendDisconnectFails(c)
      PROVE  Conn!TypeOK'
  BY <1>4 DEF Conn!BackendDisconnect, Conn!BackendDisconnectFails, Conn!machine,
              Conn!tasks, Conn!history, Conn!CallerStates, Conn!Replies
<1>5. ASSUME NEW c \in Centrals, Conn!Clear(c)
      PROVE  Conn!TypeOK'
  BY <1>5 DEF Conn!Clear, Conn!MachineDisconnect, Conn!tasks, Conn!history,
              Conn!ConnectionStates, Conn!CallerStates, Conn!Replies
<1>6. ASSUME NEW t \in Conn!Attempts,
             Conn!BackendConnect(t) \/ Conn!BackendConnectFails(t)
      PROVE  Conn!TypeOK'
  BY <1>6 DEF Conn!BackendConnect, Conn!BackendConnectFails, Conn!machine,
              Conn!callerVars, Conn!history, Conn!TaskStates
<1>7. ASSUME NEW t \in Conn!Attempts, Conn!BackendStatus(t)
      PROVE  Conn!TypeOK'
  BY <1>7 DEF Conn!BackendStatus, Conn!machine, Conn!callerVars, Conn!history,
              Conn!TaskStates, Conn!Polls
<1>8. ASSUME NEW t \in Conn!Attempts, Conn!CompleteConnect(t)
      PROVE  Conn!TypeOK'
  BY <1>8 DEF Conn!CompleteConnect, Conn!MachineComplete, Conn!callerVars,
              Conn!history, Conn!Attempts, Conn!TaskStates, Conn!ConnectionStates
<1>9. ASSUME NEW t \in Conn!Attempts, Conn!FailConnect(t)
      PROVE  Conn!TypeOK'
  BY <1>9 DEF Conn!FailConnect, Conn!MachineFail, Conn!callerVars, Conn!history,
              Conn!Attempts, Conn!TaskStates, Conn!ConnectionStates
<1>10. CASE UNCHANGED Conn!vars
  BY <1>10 DEF Conn!vars, Conn!machine, Conn!tasks, Conn!callerVars, Conn!history
<1> QED
  BY <1>1, <1>2, <1>3, <1>4, <1>5, <1>6, <1>7, <1>8, <1>9, <1>10 DEF Conn!Next

-----------------------------------------------------------------------------
(* What a handler's step does to the variables of the BLE modules           *)

LEMMA ReturnTypes ==
    ASSUME TypeOK, NEW c \in Centrals, Return(c)
    PROVE  /\ pc' \in [Centrals ->
                          {"idle", "named", "keyed", "accepted", "disconnecting"}]
           /\ ssid' \in [Centrals -> Names]
           /\ psk' \in [Centrals -> Networks \cup {NoNetwork}]
           /\ wants' \in [Centrals -> Networks \cup {NoNetwork}]
           /\ step' \in [Centrals -> {"start", "begun", "named", "keyed"}]
BY EmptyIsName DEF TypeOK, Return, StartOver, Goto, Step

\* After a step that leaves the session and a central's handler and progress
\* alone, the central's network is in the buffers if it was there before.
LEMMA KeepsBuffers ==
    ASSUME NEW d, HasBuffers(d), UNCHANGED <<ssidBuffer, pskBuffer>>,
           pc'[d] = pc[d], ssid'[d] = ssid[d], psk'[d] = psk[d],
           wants'[d] = wants[d], step'[d] = step[d]
    PROVE  HasBuffers(d)'
BY DEF HasBuffers, Name

\* So it is after a request of the central that has come to its end.
LEMMA IdleHasBuffers ==
    ASSUME NEW d, pc'[d] = "idle", step'[d] = "start"
    PROVE  HasBuffers(d)'
BY DEF HasBuffers

LEMMA ReturnKeepsBuffers ==
    ASSUME TypeOK, NEW c \in Centrals, Return(c),
           NEW d \in Centrals, d # c => HasBuffers(d),
           d = c \/ UNCHANGED <<ssidBuffer, pskBuffer>>
    PROVE  HasBuffers(d)'
<1>1. CASE d = c
  BY <1>1, IdleHasBuffers DEF TypeOK, Return, StartOver, Goto, Step
<1>2. CASE d # c
  BY <1>2, KeepsBuffers DEF TypeOK, Return, StartOver, Goto, Step
<1> QED
  BY <1>1, <1>2

-----------------------------------------------------------------------------
(* The invariant is inductive                                               *)

LEMMA InitIInv == Init => IInv
<1> SUFFICES ASSUME Init PROVE IInv
  OBVIOUS
<1>1. Conn!TypeOK
  BY DEF Init, Conn!Init, Conn!TypeOK, Conn!Attempts, Conn!ConnectionStates,
         Conn!TaskStates, Conn!Polls, Conn!CallerStates, Conn!Replies
<1>2. TypeOK
  BY <1>1, EmptyIsName DEF Init, TypeOK
<1>3. BegunMeansWants /\ UndisturbedHasBuffers /\ BuffersHaveOwner
  BY DEF Init, BegunMeansWants, UndisturbedHasBuffers, BuffersHaveOwner
<1> QED
  BY <1>2, <1>3 DEF IInv

LEMMA NextType == TypeOK /\ BegunMeansWants /\ [Next]_vars => TypeOK'
<1> SUFFICES ASSUME TypeOK, BegunMeansWants, [Next]_vars PROVE TypeOK'
  OBVIOUS
<1>0. Conn!TypeOK'
  BY ServiceSteps, ServiceType DEF TypeOK
<1>1. ASSUME NEW c \in Centrals, Authorize(c) PROVE TypeOK'
  BY <1>0, <1>1 DEF Authorize, TypeOK, handler, history
<1>2. ASSUME NEW c \in Centrals, NEW n \in Networks, FirstSsidWrite(c, n) PROVE TypeOK'
  <2>1. ssidBuffer' \in Names
    <3>1. <<n, 1>> \in Part
      BY DEF Part
    <3> QED
      BY <1>2, <3>1, AppendedIsName DEF FirstSsidWrite, TypeOK
  <2>2. undisturbed' \in SUBSET Centrals
    BY <1>2 DEF FirstSsidWrite
  <2> QED
    BY <1>0, <1>2, <2>1, <2>2 DEF FirstSsidWrite, TypeOK, handler, Step
<1>3. ASSUME NEW c \in Centrals, SecondSsidWrite(c) PROVE TypeOK'
  <2>1. ssidBuffer' \in Names
    <3>1. <<wants[c], 2>> \in Part
      BY <1>3 DEF Part, SecondSsidWrite, BegunMeansWants
    <3> QED
      BY <1>3, <3>1, AppendedIsName DEF SecondSsidWrite, TypeOK
  <2>2. undisturbed' \in SUBSET Centrals
    BY <1>3 DEF SecondSsidWrite, TypeOK
  <2> QED
    BY <1>0, <1>3, <2>1, <2>2 DEF SecondSsidWrite, TypeOK, handler, Step
<1>4. ASSUME NEW c \in Centrals, PskWrite(c) PROVE TypeOK'
  BY <1>0, <1>4 DEF PskWrite, TypeOK, BegunMeansWants, handler, Step
<1>5. ASSUME NEW c \in Centrals, Return(c),
             UNCHANGED <<authorized, ssidBuffer, pskBuffer>>,
             abandoned' \in {0, 1}, UNCHANGED undisturbed
      PROVE  TypeOK'
  BY <1>0, <1>5, ReturnTypes DEF TypeOK
<1>6. ASSUME NEW c \in Centrals, GetSsid(c) PROVE TypeOK'
  <2>1. CASE ConnectFailed(c)
    BY <1>5, <1>6, <2>1 DEF GetSsid, ConnectFailed, session
  <2>2. CASE ~ConnectFailed(c)
    BY <1>0, <1>6, <2>2 DEF GetSsid, TypeOK, Goto, client, session
  <2> QED
    BY <2>1, <2>2
<1>7. ASSUME NEW c \in Centrals, GetPsk(c) PROVE TypeOK'
  <2>1. CASE ConnectFailed(c)
    BY <1>5, <1>7, <2>1 DEF GetPsk, ConnectFailed, session
  <2>2. CASE ~ConnectFailed(c)
    BY <1>0, <1>7, <2>2 DEF GetPsk, TypeOK, Goto, client, session
  <2> QED
    BY <2>1, <2>2
<1>8. ASSUME NEW c \in Centrals, Connect(c) PROVE TypeOK'
  <2>1. CASE ConnectFailed(c)
    BY <1>5, <1>8, <2>1 DEF Connect, Refused, ConnectFailed, session
  <2>2. CASE ~ConnectFailed(c)
    BY <1>0, <1>8, <2>2 DEF Connect, Refused, TypeOK, Goto, client, session
  <2> QED
    BY <2>1, <2>2
<1>9. ASSUME NEW c \in Centrals, ClearBuffers(c) PROVE TypeOK'
  <2>1. undisturbed' \in SUBSET Centrals
    BY <1>9 DEF ClearBuffers, TypeOK
  <2> QED
    BY <1>0, <1>9, <2>1, ReturnTypes, EmptyIsName DEF ClearBuffers, ClearedPsk, TypeOK
<1>10. ASSUME NEW c \in Centrals, Disconnect(c) \/ DisconnectDone(c) PROVE TypeOK'
  BY <1>0, <1>10 DEF Disconnect, DisconnectDone, TypeOK, Goto, session, client, history
<1>11. ASSUME NEW c \in Centrals, DisconnectWait(c) \/ StateRead(c) PROVE TypeOK'
  BY <1>0, <1>11 DEF DisconnectWait, StateRead, vars, TypeOK, handler, session, client,
                     history
<1>12. ASSUME NEW t \in Conn!Attempts, Background(t) PROVE TypeOK'
  BY <1>0, <1>12 DEF Background, TypeOK, handler, session, client, history
<1>13. CASE UNCHANGED vars
  BY <1>0, <1>13 DEF vars, TypeOK, handler, session, client, history
<1>14. ASSUME NEW c \in Centrals, Drop(c) PROVE TypeOK'
  BY <1>0, <1>14 DEF Drop, StartOver, Step, TypeOK, session, handler
<1> QED
  BY <1>1, <1>2, <1>3, <1>4, <1>6, <1>7, <1>8, <1>9, <1>10, <1>11, <1>12, <1>13, <1>14
     DEF Next

LEMMA NextWants == TypeOK /\ BegunMeansWants /\ [Next]_vars => BegunMeansWants'
<1> SUFFICES ASSUME TypeOK, BegunMeansWants, [Next]_vars PROVE BegunMeansWants'
  OBVIOUS
<1> USE DEF BegunMeansWants
<1>1. CASE UNCHANGED client
  BY <1>1 DEF client
<1>2. ASSUME NEW c \in Centrals, Return(c) PROVE BegunMeansWants'
  BY <1>2 DEF Return, StartOver, Step, TypeOK
<1>3. ASSUME NEW c \in Centrals, NEW n \in Networks, FirstSsidWrite(c, n)
      PROVE  BegunMeansWants'
  BY <1>3 DEF FirstSsidWrite, Step, TypeOK
<1>4. ASSUME NEW c \in Centrals, SecondSsidWrite(c) \/ PskWrite(c)
      PROVE  BegunMeansWants'
  BY <1>4 DEF SecondSsidWrite, PskWrite, Step, TypeOK
<1>5. ASSUME NEW c \in Centrals, GetSsid(c) \/ GetPsk(c) \/ Connect(c) \/ ClearBuffers(c)
      PROVE  Return(c) \/ UNCHANGED client
  BY <1>5 DEF GetSsid, GetPsk, Connect, Refused, ClearBuffers, ConnectFailed
<1>6. ASSUME NEW c \in Centrals,
             \/ Authorize(c) \/ Disconnect(c) \/ DisconnectWait(c) \/ DisconnectDone(c)
             \/ StateRead(c)
      PROVE  UNCHANGED client
  BY <1>6 DEF Authorize, Disconnect, DisconnectWait, DisconnectDone, StateRead, vars, client
<1>7. ASSUME NEW t \in Conn!Attempts, Background(t) PROVE UNCHANGED client
  BY <1>7 DEF Background
<1>8. CASE UNCHANGED vars
  BY <1>1, <1>8 DEF vars
<1>9. ASSUME NEW c \in Centrals, Drop(c) PROVE BegunMeansWants'
  BY <1>9 DEF Drop, StartOver, Step, TypeOK
<1> QED
  BY <1>1, <1>2, <1>3, <1>4, <1>5, <1>6, <1>7, <1>8, <1>9 DEF Next

LEMMA NextBuffers ==
    TypeOK /\ BegunMeansWants /\ UndisturbedHasBuffers /\ [Next]_vars
        => UndisturbedHasBuffers'
<1> SUFFICES ASSUME TypeOK, BegunMeansWants, UndisturbedHasBuffers, [Next]_vars,
                    NEW d \in undisturbed'
             PROVE  HasBuffers(d)'
  BY DEF UndisturbedHasBuffers
<1>0. undisturbed \in SUBSET Centrals /\ \A c \in undisturbed : HasBuffers(c)
  BY DEF TypeOK, UndisturbedHasBuffers
<1>1. ASSUME d \in undisturbed, UNCHANGED <<ssidBuffer, pskBuffer, handler, wants, step>>
      PROVE  HasBuffers(d)'
  BY <1>0, <1>1, KeepsBuffers DEF handler
<1>2. ASSUME NEW c \in Centrals, Authorize(c) \/ DisconnectWait(c) \/ StateRead(c)
      PROVE  HasBuffers(d)'
  BY <1>1, <1>2 DEF Authorize, DisconnectWait, StateRead, vars, session, client, history
\* Who writes the first part has found the buffers empty, or is not undisturbed.
<1>3. ASSUME NEW c \in Centrals, NEW n \in Networks, FirstSsidWrite(c, n)
      PROVE  HasBuffers(d)'
  <2>1. d = c /\ ssidBuffer = <<>> /\ pskBuffer = NoNetwork
    BY <1>3 DEF FirstSsidWrite
  <2>2. ssidBuffer' = <<<<n, 1>>>> /\ pskBuffer' = NoNetwork
    BY <1>3, <2>1, PartsMakeName DEF FirstSsidWrite, Appended
  <2>3. wants'[c] = n /\ step'[c] = "begun" /\ pc'[c] = "idle"
    BY <1>3 DEF FirstSsidWrite, Step, Enter, handler, TypeOK
  <2> QED
    BY <2>1, <2>2, <2>3 DEF HasBuffers
<1>4. ASSUME NEW c \in Centrals, SecondSsidWrite(c)
      PROVE  HasBuffers(d)'
  <2>1. d = c /\ d \in undisturbed /\ step[c] = "begun" /\ wants[c] \in Networks
    BY <1>4 DEF SecondSsidWrite, BegunMeansWants
  <2>2. ssidBuffer = <<<<wants[c], 1>>>> /\ pskBuffer = NoNetwork
    BY <1>0, <2>1 DEF HasBuffers
  <2>3. ssidBuffer' = Name(wants[c]) /\ pskBuffer' = NoNetwork
    BY <1>4, <2>1, <2>2, PartsMakeName DEF SecondSsidWrite, Appended
  <2>4. wants'[c] = wants[c] /\ step'[c] = "named" /\ pc'[c] = "idle"
    BY <1>4 DEF SecondSsidWrite, Step, Enter, handler, TypeOK
  <2> QED
    BY <2>1, <2>3, <2>4 DEF HasBuffers, Name
<1>5. ASSUME NEW c \in Centrals, PskWrite(c)
      PROVE  HasBuffers(d)'
  <2>1. d = c /\ d \in undisturbed /\ step[c] = "named"
    BY <1>5 DEF PskWrite
  <2>2. ssidBuffer' = Name(wants[c]) /\ pskBuffer' = wants[c]
    BY <1>0, <1>5, <2>1 DEF HasBuffers, PskWrite
  <2>3. wants'[c] = wants[c] /\ step'[c] = "keyed" /\ pc'[c] = "idle"
    BY <1>5 DEF PskWrite, Step, Enter, handler, TypeOK
  <2> QED
    BY <2>1, <2>2, <2>3 DEF HasBuffers, Name
<1>6. ASSUME NEW c \in Centrals, Return(c), d \in undisturbed,
             UNCHANGED <<ssidBuffer, pskBuffer>>
      PROVE  HasBuffers(d)'
  BY <1>0, <1>6, ReturnKeepsBuffers
\* A handler copies what the buffers hold; the others' copies stay.
<1>7. ASSUME NEW c \in Centrals, GetSsid(c) PROVE HasBuffers(d)'
  <2>1. d \in undisturbed /\ UNCHANGED <<ssidBuffer, pskBuffer>>
    BY <1>7 DEF GetSsid, session
  <2>2. CASE Return(c)
    BY <1>6, <2>1, <2>2
  <2>3. CASE ~Return(c) /\ d # c
    BY <1>0, <1>7, <2>1, <2>3, KeepsBuffers
       DEF GetSsid, ConnectFailed, Goto, client, TypeOK
  <2>4. CASE ~Return(c) /\ d = c
    <3>1. /\ ssid'[c] = ssidBuffer /\ pc'[c] = "named"
          /\ step'[c] = step[c] /\ wants'[c] = wants[c]
      BY <1>7, <2>4 DEF GetSsid, ConnectFailed, Goto, client, TypeOK
    <3> QED
      BY <1>0, <2>1, <2>4, <3>1 DEF HasBuffers, Name
  <2> QED
    BY <2>2, <2>3, <2>4
<1>8. ASSUME NEW c \in Centrals, GetPsk(c) PROVE HasBuffers(d)'
  <2>1. d \in undisturbed /\ UNCHANGED <<ssidBuffer, pskBuffer>>
    BY <1>8 DEF GetPsk, session
  <2>2. CASE Return(c)
    BY <1>6, <2>1, <2>2
  <2>3. CASE ~Return(c) /\ d # c
    BY <1>0, <1>8, <2>1, <2>3, KeepsBuffers
       DEF GetPsk, ConnectFailed, Goto, client, TypeOK
  <2>4. CASE ~Return(c) /\ d = c
    <3>1. /\ psk'[c] = pskBuffer /\ pc[c] = "named" /\ pc'[c] = "keyed"
          /\ ssid'[c] = ssid[c] /\ step'[c] = step[c] /\ wants'[c] = wants[c]
      BY <1>8, <2>4 DEF GetPsk, ConnectFailed, Goto, client, TypeOK
    <3> QED
      BY <1>0, <2>1, <2>4, <3>1 DEF HasBuffers, Name
  <2> QED
    BY <2>2, <2>3, <2>4
<1>9. ASSUME NEW c \in Centrals, Connect(c) PROVE HasBuffers(d)'
  <2>1. d \in undisturbed /\ UNCHANGED <<ssidBuffer, pskBuffer>>
    BY <1>9 DEF Connect, session
  <2>2. CASE Return(c)
    BY <1>6, <2>1, <2>2
  <2>3. CASE ~Return(c) /\ d # c
    BY <1>0, <1>9, <2>1, <2>3, KeepsBuffers
       DEF Connect, Refused, ConnectFailed, Goto, client, TypeOK
  <2>4. CASE ~Return(c) /\ d = c
    <3>1. /\ psk'[c] = psk[c] /\ pc[c] = "keyed" /\ pc'[c] = "accepted"
          /\ ssid'[c] = ssid[c] /\ step'[c] = step[c] /\ wants'[c] = wants[c]
      BY <1>9, <2>4 DEF Connect, Refused, ConnectFailed, Goto, client, TypeOK
    <3> QED
      BY <1>0, <2>1, <2>4, <3>1 DEF HasBuffers, Name
  <2> QED
    BY <2>2, <2>3, <2>4
<1>10. ASSUME NEW c \in Centrals, ClearBuffers(c) PROVE HasBuffers(d)'
  BY <1>10, ReturnKeepsBuffers DEF ClearBuffers
<1>11. ASSUME NEW c \in Centrals, Disconnect(c) \/ DisconnectDone(c) PROVE HasBuffers(d)'
  <2>1. d \in undisturbed /\ UNCHANGED <<ssidBuffer, pskBuffer, ssid, psk, wants, step>>
    BY <1>11 DEF Disconnect, DisconnectDone, session, client, history
  <2>2. pc'[d] = pc[d] \/ pc'[d] \in {"idle", "disconnecting"}
    BY <1>0, <1>11, <2>1 DEF Disconnect, DisconnectDone, Goto, TypeOK
  <2> QED
    BY <1>0, <2>1, <2>2 DEF HasBuffers, Name
<1>12. ASSUME NEW t \in Conn!Attempts, Background(t) PROVE HasBuffers(d)'
  BY <1>1, <1>12 DEF Background, session, client, history
<1>13. CASE UNCHANGED vars
  BY <1>1, <1>13 DEF vars, session, client, history
\* Who drops its connection is not undisturbed any more.
<1>14. ASSUME NEW c \in Centrals, Drop(c) PROVE HasBuffers(d)'
  <2>1. d # c /\ d \in undisturbed /\ UNCHANGED <<ssidBuffer, pskBuffer, handler>>
    BY <1>14 DEF Drop, session
  <2>2. wants'[d] = wants[d] /\ step'[d] = step[d]
    BY <1>0, <1>14, <2>1 DEF Drop, StartOver, Step, TypeOK
  <2> QED
    BY <1>0, <2>1, <2>2, KeepsBuffers DEF handler
<1> QED
  BY <1>14, <1>2, <1>3, <1>4, <1>5, <1>7, <1>8, <1>9, <1>10, <1>11, <1>12, <1>13 DEF Next

LEMMA NextOwner == TypeOK /\ BuffersHaveOwner /\ [Next]_vars => BuffersHaveOwner'
<1> SUFFICES ASSUME TypeOK, BuffersHaveOwner, [Next]_vars PROVE BuffersHaveOwner'
  OBVIOUS
<1> USE DEF BuffersHaveOwner
<1>1. ASSUME UNCHANGED <<ssidBuffer, pskBuffer, step, abandoned>>
      PROVE  BuffersHaveOwner'
  BY <1>1
<1>2. ASSUME NEW c \in Centrals, step'[c] # "start" PROVE BuffersHaveOwner'
  BY <1>2
<1>3. ASSUME NEW c \in Centrals,
             \/ \E n \in Networks : FirstSsidWrite(c, n)
             \/ SecondSsidWrite(c) \/ PskWrite(c)
      PROVE  BuffersHaveOwner'
  BY <1>2, <1>3 DEF FirstSsidWrite, SecondSsidWrite, PskWrite, Step, TypeOK
<1>4. ASSUME NEW c \in Centrals, GetSsid(c) \/ GetPsk(c) \/ Connect(c)
      PROVE  BuffersHaveOwner'
  BY <1>1, <1>4 DEF GetSsid, GetPsk, Connect, Refused, ConnectFailed, session, client
<1>5. ASSUME NEW c \in Centrals, ClearBuffers(c) PROVE BuffersHaveOwner'
  BY <1>5 DEF ClearBuffers, ClearedPsk
<1>6. ASSUME NEW c \in Centrals,
             \/ Authorize(c) \/ Disconnect(c) \/ DisconnectWait(c) \/ DisconnectDone(c)
             \/ StateRead(c)
      PROVE  BuffersHaveOwner'
  BY <1>1, <1>6 DEF Authorize, Disconnect, DisconnectWait, DisconnectDone, StateRead,
                    vars, session, client, history
<1>7. ASSUME NEW t \in Conn!Attempts, Background(t) PROVE BuffersHaveOwner'
  BY <1>1, <1>7 DEF Background, session, client, history
<1>8. CASE UNCHANGED vars
  BY <1>1, <1>8 DEF vars, session, client, history
<1>9. ASSUME NEW c \in Centrals, Drop(c) PROVE BuffersHaveOwner'
  BY <1>9 DEF Drop
<1> QED
  BY <1>3, <1>4, <1>5, <1>6, <1>7, <1>8, <1>9 DEF Next

LEMMA Inductive == Spec => []IInv
<1>1. IInv /\ [Next]_vars => IInv'
  BY NextType, NextWants, NextBuffers, NextOwner DEF IInv
<1> QED
  BY InitIInv, <1>1, PTL DEF Spec

-----------------------------------------------------------------------------
(* The theorems                                                             *)

\* The types of the variables, those of the connection service included.
THEOREM TypeCorrect == Spec => []TypeOK
<1>1. IInv => TypeOK
  BY DEF IInv
<1> QED
  BY <1>1, Inductive, PTL

\* However the centrals' requests interleave and wherever a central drops its
\* connection, an accepted connect leaves nothing in the session that could come
\* before the next name.
THEOREM NothingStaysBehind == Spec => []NothingLeftBehind
<1>1. IInv => NothingLeftBehind
  BY DEF IInv, BuffersHaveOwner, NothingLeftBehind
<1> QED
  BY <1>1, Inductive, PTL

\* A central that had the buffers to itself connects to the network it handed
\* over, with the key of that network.
THEOREM UndisturbedConnectIsOwn == Spec => UndisturbedConnectsOwn
<1>1. ASSUME IInv, [Next]_vars, NEW c \in undisturbed,
             step[c] = "keyed", pc[c] = "keyed", pc'[c] = "accepted"
      PROVE  target'[attempts'] = Name(wants[c]) /\ psk[c] = wants[c]
  <2>0. c \in Centrals /\ TypeOK
    BY <1>1 DEF IInv, TypeOK
  <2>1. ssid[c] = Name(wants[c]) /\ psk[c] = wants[c]
    BY <1>1 DEF IInv, UndisturbedHasBuffers, HasBuffers
  <2>2. Conn!Connect(c, ssid[c])
    <3> USE <1>1, <2>0 DEF TypeOK, Goto
    <3>1. ASSUME UNCHANGED handler PROVE FALSE
      BY <3>1 DEF handler
    <3>2. ASSUME NEW d \in Centrals,
                 \/ Authorize(d) \/ \E n \in Networks : FirstSsidWrite(d, n)
                 \/ SecondSsidWrite(d) \/ PskWrite(d) \/ DisconnectWait(d) \/ StateRead(d)
                 \/ Drop(d)
          PROVE  FALSE
      BY <3>1, <3>2 DEF Authorize, FirstSsidWrite, SecondSsidWrite, PskWrite,
                        DisconnectWait, StateRead, Drop, vars
    <3>3. ASSUME NEW d \in Centrals, GetSsid(d) \/ GetPsk(d) \/ ClearBuffers(d)
          PROVE  FALSE
      BY <3>3 DEF GetSsid, GetPsk, ClearBuffers, ConnectFailed, Return
    <3>4. ASSUME NEW d \in Centrals, Disconnect(d) \/ DisconnectDone(d) PROVE FALSE
      BY <3>4 DEF Disconnect, DisconnectDone
    <3>5. ASSUME NEW t \in Conn!Attempts, Background(t) PROVE FALSE
      BY <3>1, <3>5 DEF Background
    <3>6. ASSUME NEW d \in Centrals, Connect(d)
          PROVE  d = c /\ Conn!Connect(c, ssid[c])
      BY <3>6 DEF Connect, Refused, ConnectFailed, Return
    <3>7. CASE UNCHANGED vars
      BY <3>1, <3>7 DEF vars
    <3> QED
      BY <3>2, <3>3, <3>4, <3>5, <3>6, <3>7 DEF Next
  <2>3. attempts + 1 \in Conn!Attempts /\ DOMAIN target = Conn!Attempts
    BY <2>0, <2>2 DEF TypeOK, Conn!TypeOK, Conn!Attempts, Conn!Connect
  <2>4. target' = [target EXCEPT ![attempts + 1] = ssid[c]] /\ attempts' = attempts + 1
    BY <2>2 DEF Conn!Connect
  <2>5. target'[attempts'] = ssid[c]
    BY <2>3, <2>4
  <2> QED
    BY <2>1, <2>5
<1>2. IInv /\ [Next]_vars
        => [\A c \in undisturbed :
                step[c] = "keyed" /\ pc[c] = "keyed" /\ pc'[c] = "accepted" =>
                    target'[attempts'] = Name(wants[c]) /\ psk[c] = wants[c]]_vars
  BY <1>1
<1> QED
  BY <1>2, Inductive, PTL DEF Spec, UndisturbedConnectsOwn

\* The BLE handlers use the connection service as its callers do: whatever is
\* proved of ConnectionService holds under them.
THEOREM ImplementsService == Spec => Conn!Spec
<1>1. Init => Conn!Init
  BY DEF Init
<1>2. IInv /\ [Next]_vars => [Conn!Next]_(Conn!vars)
  BY ServiceSteps DEF IInv
<1> QED
  BY <1>1, <1>2, Inductive, PTL DEF Spec, Conn!Spec
=============================================================================
