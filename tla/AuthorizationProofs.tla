------------------------- MODULE AuthorizationProofs -------------------------
(***************************************************************************)
(* The properties of Authorization, for every set of centrals, every       *)
(* timeout and every bound.                                                *)
(***************************************************************************)
EXTENDS Authorization, TLAPS

USE AuthorizationAssumption DEF AuthorizationAssumption

\* No deadline is later than the timeout after some right key.
Covered(g, t) == t = 0 \/ \E c \in Centrals : g[c] # 0 /\ t <= g[c] + Timeout

Deadlines ==
    /\ \A c \in Centrals : granted[c] <= now
    /\ Covered(granted, expiresAt)
    /\ \A c \in Centrals : Covered(granted, deadline[c])

\* Whoever has got past the check of a key, and whatever follows from it, has a
\* right key behind it.
Grants ==
    /\ sessionFlag \/ admitted # 0 => \E c \in Centrals : granted[c] # 0
    /\ \A c \in Centrals : pc[c] # "idle" => granted[c] # 0

\* Once the handler of a right key has returned, the flag is up.
Remembered ==
    \A c \in Centrals : granted[c] # 0 /\ pc[c] = "idle" => sessionFlag

IInv == TypeOK /\ Deadlines /\ Grants /\ Remembered

\* A later right key covers what an earlier one did.
LEMMA StaysCovered ==
  ASSUME NEW g \in [Centrals -> Nat], NEW h \in [Centrals -> Nat], NEW t \in Nat,
         \A c \in Centrals : g[c] # 0 => h[c] # 0 /\ g[c] <= h[c], Covered(g, t)
  PROVE  Covered(h, t)
<1>1. CASE t = 0
  BY <1>1 DEF Covered
<1>2. CASE t # 0
  <2>1. PICK c \in Centrals : g[c] # 0 /\ t <= g[c] + Timeout
    BY <1>2 DEF Covered
  <2>2. h[c] # 0 /\ t <= h[c] + Timeout
    BY <2>1
  <2> QED
    BY <2>2 DEF Covered
<1> QED
  BY <1>1, <1>2

LEMMA InitIInv == Init => IInv
<1> SUFFICES ASSUME Init PROVE IInv
  OBVIOUS
<1>1. TypeOK
  <2>1. 1 \in 1..MaxTime /\ 0 \in 0..MaxTime /\ 0 \in 0..MaxKeys /\ 0 \in Instants
    BY DEF Instants
  <2>2. sessionFlag \in BOOLEAN
    BY DEF Init
  <2>3. granted \in [Centrals -> 0..MaxTime] /\ deadline \in [Centrals -> Instants]
    BY <2>1 DEF Init
  <2> QED
    BY <2>1, <2>2, <2>3 DEF Init, TypeOK
<1>2. Deadlines
  BY DEF Init, Deadlines, Covered
<1>3. Grants
  BY DEF Init, Grants
<1>4. Remembered
  BY DEF Init, Remembered
<1> QED
  BY <1>1, <1>2, <1>3, <1>4 DEF IInv

LEMMA NextType == TypeOK /\ [Next]_vars => TypeOK'
<1> SUFFICES ASSUME TypeOK, [Next]_vars PROVE TypeOK'
  OBVIOUS
<1> USE DEF TypeOK
<1>1. ASSUME NEW c \in Centrals, PresentWrongKey(c) PROVE TypeOK'
  BY <1>1 DEF PresentWrongKey, Respond
<1>2. ASSUME NEW c \in Centrals, PresentKey(c) PROVE TypeOK'
  <2> USE <1>2 DEF PresentKey
  <2>1. DeadlineFrom(now) \in Instants
    BY DEF DeadlineFrom, Instants
  <2>2. now \in 0..MaxTime /\ keys' \in 0..MaxKeys
    OBVIOUS
  <2>3. deadline' \in [Centrals -> Instants] /\ granted' \in [Centrals -> 0..MaxTime]
    BY <2>1, <2>2
  <2>4. pc' \in [Centrals -> {"idle", "matched", "granted"}]
    OBVIOUS
  <2> QED
    BY <2>2, <2>3, <2>4
<1>3. ASSUME NEW c \in Centrals, Grant(c) PROVE TypeOK'
  BY <1>3 DEF Grant
<1>4. ASSUME NEW c \in Centrals, SetFlag(c) PROVE TypeOK'
  BY <1>4 DEF SetFlag, Respond
<1>5. ASSUME NEW c \in Centrals, Request(c) PROVE TypeOK'
  BY <1>5 DEF Request, Respond
<1>6. CASE Tick \/ UNCHANGED vars
  BY <1>6 DEF Tick, vars
<1> QED
  BY <1>1, <1>2, <1>3, <1>4, <1>5, <1>6 DEF Next

LEMMA NextDeadlines == TypeOK /\ Deadlines /\ [Next]_vars => Deadlines'
<1> SUFFICES ASSUME TypeOK, Deadlines, [Next]_vars PROVE Deadlines'
  OBVIOUS
<1> USE DEF TypeOK, Instants
<1>1. ASSUME NEW c \in Centrals, PresentKey(c) PROVE Deadlines'
  <2> USE <1>1 DEF PresentKey
  <2>1. /\ granted \in [Centrals -> Nat] /\ granted' \in [Centrals -> Nat]
        /\ expiresAt \in Nat /\ \A d \in Centrals : deadline[d] \in Nat
    OBVIOUS
  <2>2. \A d \in Centrals : granted[d] # 0 => granted'[d] # 0 /\ granted[d] <= granted'[d]
    BY DEF Deadlines
  <2>3. \A t \in Nat : Covered(granted, t) => Covered(granted', t)
    BY <2>1, <2>2, StaysCovered
  <2>4. Covered(granted', now + Timeout)
    BY DEF Covered
  <2>5. \A d \in Centrals : deadline'[d] = IF d = c THEN now + Timeout ELSE deadline[d]
    BY DEF DeadlineFrom
  <2>6. \A d \in Centrals : granted'[d] <= now'
    BY DEF Deadlines
  <2> QED
    BY <2>1, <2>3, <2>4, <2>5, <2>6 DEF Deadlines
<1>2. ASSUME NEW c \in Centrals, Grant(c) PROVE Deadlines'
  BY <1>2 DEF Grant, Deadlines
<1>3. CASE Tick
  <2>1. \A d \in Centrals : granted'[d] <= now'
    BY <1>3 DEF Tick, Deadlines
  <2> QED
    BY <1>3, <2>1 DEF Tick, Deadlines
<1>4. ASSUME UNCHANGED <<now, granted, expiresAt, deadline>> PROVE Deadlines'
  BY <1>4 DEF Deadlines
<1> QED
  BY <1>1, <1>2, <1>3, <1>4 DEF Next, PresentWrongKey, SetFlag, Request, vars

LEMMA NextGrants == TypeOK /\ Grants /\ Remembered /\ [Next]_vars => Grants' /\ Remembered'
<1> SUFFICES ASSUME TypeOK, Grants, Remembered, [Next]_vars PROVE Grants' /\ Remembered'
  OBVIOUS
<1> USE DEF TypeOK, Grants, Remembered
<1>1. ASSUME NEW c \in Centrals, PresentKey(c) PROVE Grants' /\ Remembered'
  <2>1. granted'[c] # 0 /\ \A d \in Centrals : granted[d] # 0 => granted'[d] # 0
    BY <1>1 DEF PresentKey
  <2>2. \A d \in Centrals \ {c} : granted'[d] = granted[d] /\ pc'[d] = pc[d]
    BY <1>1 DEF PresentKey
  <2>3. pc'[c] = "matched" /\ UNCHANGED <<sessionFlag, admitted>>
    BY <1>1 DEF PresentKey
  <2> QED
    BY <2>1, <2>2, <2>3
<1>2. ASSUME NEW c \in Centrals, Grant(c) PROVE Grants' /\ Remembered'
  BY <1>2 DEF Grant
<1>3. ASSUME NEW c \in Centrals, SetFlag(c) PROVE Grants' /\ Remembered'
  BY <1>3 DEF SetFlag
<1>4. ASSUME NEW c \in Centrals, Request(c) PROVE Grants' /\ Remembered'
  BY <1>4 DEF Request, Passes
<1>5. ASSUME UNCHANGED <<pc, sessionFlag, admitted, granted>> PROVE Grants' /\ Remembered'
  BY <1>5
<1> QED
  BY <1>1, <1>2, <1>3, <1>4, <1>5 DEF Next, PresentWrongKey, Tick, vars

LEMMA NextIInv == IInv /\ [Next]_vars => IInv'
  BY NextType, NextDeadlines, NextGrants DEF IInv

LEMMA Inductive == Spec => []IInv
  BY InitIInv, NextIInv, PTL DEF Spec

\* The types of the variables.
THEOREM TypeCorrect == Spec => []TypeOK
<1>1. IInv => TypeOK
  BY DEF IInv
<1> QED
  BY <1>1, Inductive, PTL

\* The service is authorized only within the timeout after a right key, in
\* whatever order the handlers of however many centrals store their deadlines.
THEOREM GrantsAreRecent == Spec => []GrantIsRecent
<1>1. ASSUME IInv, IsAuthorized
      PROVE  \E c \in Centrals : granted[c] # 0 /\ now < granted[c] + Timeout
  <2>1. now \in Nat /\ expiresAt \in Nat /\ granted \in [Centrals -> Nat]
    BY <1>1 DEF IInv, TypeOK, Instants
  <2>2. now < expiresAt /\ expiresAt # 0
    BY <1>1, <2>1 DEF IsAuthorized
  <2>3. PICK c \in Centrals : granted[c] # 0 /\ expiresAt <= granted[c] + Timeout
    BY <1>1, <2>2 DEF IInv, Deadlines, Covered
  <2> QED
    BY <2>1, <2>2, <2>3
<1>2. IInv => GrantIsRecent
  BY <1>1 DEF GrantIsRecent
<1> QED
  BY <1>2, Inductive, PTL

\* No handler runs before a right key was presented.
THEOREM NobodyAdmittedBefore == Spec => []AdmittedAfterGrant
<1>1. IInv => AdmittedAfterGrant
  BY DEF IInv, Grants, AdmittedAfterGrant
<1> QED
  BY <1>1, Inductive, PTL

\* A central that has presented a right key is served until its timeout has
\* passed, whatever the handlers of other centrals store in the meantime: the
\* handlers ask the flag of the session, which the deadlines do not touch.
THEOREM AcceptedAreServed == Spec => AcceptedIsServed
<1> DEFINE Served ==
      \A c \in Centrals :
          response'[c] = "NotAuthorized" /\ response[c] # response'[c]
             => granted[c] = 0 \/ now >= granted[c] + Timeout
<1>1. ASSUME IInv, [Next]_vars PROVE [Served]_vars
  <2> SUFFICES ASSUME NEW c \in Centrals, response'[c] = "NotAuthorized",
                      response[c] # response'[c]
               PROVE granted[c] = 0
    OBVIOUS
  <2>1. Request(c) /\ ~Passes
    BY <1>1 DEF IInv, TypeOK, Next, vars, PresentWrongKey, PresentKey, Grant,
                SetFlag, Request, Tick, Respond
  <2> QED
    BY <1>1, <2>1 DEF IInv, Remembered, Passes, Request
<1> QED
  BY <1>1, Inductive, PTL DEF Spec, AcceptedIsServed
=============================================================================
