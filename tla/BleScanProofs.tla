---------------------------- MODULE BleScanProofs ----------------------------
(***************************************************************************)
(* The safety of BleScan, for any set of centrals and of clients of the    *)
(* Unix socket, any chunk size and any texts.                              *)
(***************************************************************************)
EXTENDS BleScan, TLAPS

USE BleScanAssumption DEF BleScanAssumption

-----------------------------------------------------------------------------
(* The invariant                                                            *)

\* The scanning service below: one scan at most is on its way, and what is on
\* display agrees with the state.
ServiceOK ==
    /\ \A t \in Scan!InFlight : t = scans /\ scanState = "Scanning"
    /\ scanState = "Finished" <=> scanResults # 0

\* A handler that has come past its copy of the results has results.
Copied ==
    \A c \in Centrals :
        /\ got[c] = 0 => pc[c] \notin {"copied", "located"}
        /\ pc[c] = "control" => response[c] = "none"

\* Central c has the beginning of the text on display up to the shared offset,
\* or nothing at all, and its handler works on the same text and offset.
InStep(c) ==
    /\ transfer[c] # "broken"
    /\ \/ doc[c] = Nothing /\ offset = 0
       \/ /\ pc[c] # "control"
          /\ scanResults # 0 /\ offset # 0 /\ offset <= Length[scanResults]
          /\ doc[c] = [scan |-> scanResults, upto |-> offset]
    /\ pc[c] \in {"copied", "located"} => got[c] = scanResults
    /\ pc[c] = "located" => at[c] = offset

UndisturbedInStep == \A c \in undisturbed : InStep(c)

IInv ==
    /\ TypeOK /\ ServiceOK /\ Copied
    /\ UndisturbedInStep /\ FinishedMeansResults

-----------------------------------------------------------------------------
(* Texts                                                                    *)

\* What is known of the text of each scan.
LEMMA TextLength == \A t \in Scan!Scans : Length[t] \in Nat \ {0}
  BY DEF Scan!Scans

\* Every place in a text is an offset, and an offset is a number.
LEMMA OffsetsAre ==
  /\ 0 \in Offsets /\ Offsets \subseteq Nat
  /\ \A t \in Scan!Scans : \A n \in 0..Length[t] : n \in Offsets
<1>1. \A n \in Offsets : n \in Nat
  BY TextLength DEF Offsets
<1> QED
  BY <1>1, TextLength DEF Offsets

\* The chunk at an offset inside a text lies inside it and is not empty.
LEMMA ChunkIsInside ==
  ASSUME NEW c \in Centrals, got[c] \in Scan!Scans, at[c] \in Nat, ~AtEnd(c)
  PROVE  /\ ChunkEnd(c) \in 0..Length[got[c]] /\ at[c] < ChunkEnd(c)
         /\ ChunkEnd(c) - at[c] <= MaxChunk
  BY TextLength DEF AtEnd, ChunkEnd, Least

-----------------------------------------------------------------------------
(* Steps                                                                    *)

LEMMA InitIInv == Init => IInv
<1> SUFFICES ASSUME Init PROVE IInv
  OBVIOUS
<1> USE DEF Init, Scan!Init
<1>1. Scan!TypeOK
  BY DEF Scan!TypeOK, Scan!ScanStates, Scan!TaskStates, Scan!Replies, Scan!Scans
<1>2. TypeOK
  <2>1. doc \in [Centrals -> [scan : 0..MaxScans, upto : Offsets]]
    BY OffsetsAre DEF Nothing
  <2>2. at \in [Centrals -> Offsets] /\ offset \in Offsets
    BY OffsetsAre
  <2>3. authorized \in BOOLEAN
    OBVIOUS
  <2>4. /\ pc \in [Centrals -> {"idle", "control", "copied", "located"}]
        /\ response \in [Centrals -> {"none", "Ok", "Failed", "NotAuthorized",
                "NotSupported", "InvalidValueLength", "empty", "chunk"} \cup Scan!ScanStates]
        /\ transfer \in [Centrals -> {"none", "whole", "broken"}]
        /\ reconnects \in 0..MaxReconnects /\ undisturbed \in SUBSET Centrals
    OBVIOUS
  <2> QED
    BY <1>1, <2>1, <2>2, <2>3, <2>4 DEF TypeOK
<1>3. ServiceOK
  BY DEF ServiceOK, Scan!InFlight
<1>4. Copied
  BY DEF Copied
<1>5. UndisturbedInStep /\ FinishedMeansResults
  BY DEF UndisturbedInStep, FinishedMeansResults
<1> QED
  BY <1>2, <1>3, <1>4, <1>5 DEF IInv

\* The steps of the service keep its types and its invariant.
LEMMA StartScanKeeps ==
  ASSUME Scan!TypeOK, ServiceOK, NEW c \in Centrals \cup Others, Scan!StartScan(c)
  PROVE  Scan!TypeOK' /\ ServiceOK' /\ UNCHANGED got /\ scanResults' = 0
<1> USE DEF Scan!StartScan, Scan!CanStart, Scan!MachineStart, Scan!history
<1>1. Scan!TypeOK'
  BY DEF Scan!TypeOK, Scan!ScanStates, Scan!TaskStates, Scan!Replies, Scan!Scans
<1>2. Scan!InFlight = {}
  BY DEF ServiceOK
<1>3. \A t \in Scan!InFlight' : t = scans'
  BY <1>2 DEF Scan!InFlight, Scan!TypeOK, Scan!Scans
<1>4. ServiceOK'
  BY <1>3 DEF ServiceOK
<1> QED
  BY <1>1, <1>4

LEMMA RefuseScanKeeps ==
  ASSUME Scan!TypeOK, ServiceOK, NEW c \in Centrals \cup Others, Scan!RefuseScan(c)
  PROVE  Scan!TypeOK' /\ ServiceOK' /\ UNCHANGED <<got, scanState, scanResults>>
<1> USE DEF Scan!RefuseScan, Scan!history, Scan!machine
<1>1. Scan!TypeOK'
  BY DEF Scan!TypeOK, Scan!ScanStates, Scan!TaskStates, Scan!Replies, Scan!Scans
<1>2. ServiceOK'
  BY DEF ServiceOK, Scan!InFlight
<1> QED
  BY <1>1, <1>2

LEMMA ReadResultsKeeps ==
  ASSUME Scan!TypeOK, ServiceOK, NEW c \in Centrals \cup Others, Scan!ReadResults(c)
  PROVE  /\ Scan!TypeOK' /\ ServiceOK' /\ UNCHANGED <<scanState, scanResults>>
         /\ got' = [got EXCEPT ![c] = scanResults]
<1> USE DEF Scan!ReadResults, Scan!history, Scan!machine
<1>1. Scan!TypeOK'
  BY DEF Scan!TypeOK, Scan!ScanStates, Scan!TaskStates, Scan!Replies, Scan!Scans
<1>2. ServiceOK'
  BY DEF ServiceOK, Scan!InFlight
<1> QED
  BY <1>1, <1>2

\* A task that publishes finds nothing on display: results, once shown, stay.
LEMMA BackgroundKeeps ==
  ASSUME Scan!TypeOK, ServiceOK, NEW t \in Scan!Scans,
         Scan!BackendScan(t) \/ Scan!CompleteScan(t) \/ Scan!FailScan(t)
  PROVE  /\ Scan!TypeOK' /\ ServiceOK' /\ UNCHANGED got
         /\ scanResults # 0 => scanResults' = scanResults
<1> USE DEF Scan!TypeOK, Scan!ScanStates, Scan!TaskStates, Scan!Replies, Scan!Scans,
            ServiceOK, Scan!InFlight, Scan!machine, Scan!callerVars, Scan!history
<1>1. CASE Scan!BackendScan(t)
  BY <1>1 DEF Scan!BackendScan
<1>2. CASE Scan!CompleteScan(t)
  BY <1>2 DEF Scan!CompleteScan, Scan!MachineComplete
<1>3. CASE Scan!FailScan(t)
  BY <1>3 DEF Scan!FailScan, Scan!MachineFail
<1> QED
  BY <1>1, <1>2, <1>3

\* The service at rest.
LEMMA ServiceUnchanged ==
  ASSUME Scan!TypeOK, ServiceOK, UNCHANGED scanVars
  PROVE  Scan!TypeOK' /\ ServiceOK'
  BY DEF scanVars, Scan!TypeOK, ServiceOK, Scan!InFlight

LEMMA NextService == IInv /\ [Next]_vars => Scan!TypeOK' /\ ServiceOK'
<1> SUFFICES ASSUME IInv, [Next]_vars PROVE Scan!TypeOK' /\ ServiceOK'
  OBVIOUS
<1>0. Scan!TypeOK /\ ServiceOK
  BY DEF IInv, TypeOK
<1>1. ASSUME NEW c \in Centrals, ControlStart(c) PROVE Scan!TypeOK' /\ ServiceOK'
  BY <1>0, <1>1, StartScanKeeps, RefuseScanKeeps DEF ControlStart
<1>2. ASSUME NEW u \in Others, OtherScan(u) PROVE Scan!TypeOK' /\ ServiceOK'
  BY <1>0, <1>2, StartScanKeeps, RefuseScanKeeps DEF OtherScan
<1>3. ASSUME NEW c \in Centrals, ResultsNone(c) \/ ResultsCopy(c)
      PROVE  Scan!TypeOK' /\ ServiceOK'
  BY <1>0, <1>3, ReadResultsKeeps DEF ResultsNone, ResultsCopy
<1>4. ASSUME NEW t \in Scan!Scans, Background(t) PROVE Scan!TypeOK' /\ ServiceOK'
  BY <1>0, <1>4, BackgroundKeeps DEF Background
<1>5. ASSUME UNCHANGED scanVars PROVE Scan!TypeOK' /\ ServiceOK'
  BY <1>0, <1>5, ServiceUnchanged
<1>6. ASSUME NEW c \in Centrals,
             \/ Authorize(c) \/ NotAuthorized(c) \/ NotSupported(c) \/ ControlWrite(c)
             \/ ControlInvalid(c) \/ StateRead(c) \/ ResultsOffset(c)
             \/ ResultsEnd(c) \/ ResultsChunk(c) \/ Reconnect(c)
      PROVE  Scan!TypeOK' /\ ServiceOK'
  BY <1>5, <1>6 DEF Authorize, NotAuthorized, NotSupported, ControlWrite,
     ControlInvalid, StateRead, ResultsOffset, ResultsEnd, ResultsChunk, Reconnect
<1>7. CASE UNCHANGED vars
  BY <1>5, <1>7 DEF vars
<1> QED
  BY <1>1, <1>2, <1>3, <1>4, <1>6, <1>7 DEF Next

\* The end of a transfer keeps the types of what the central holds.
LEMMA TransferEndsType ==
  ASSUME TypeOK, NEW c \in Centrals, TransferEnds(c)
  PROVE  /\ response' \in [Centrals -> {"none", "Ok", "Failed", "NotAuthorized",
                "NotSupported", "InvalidValueLength", "empty", "chunk"} \cup Scan!ScanStates]
         /\ doc' \in [Centrals -> [scan : 0..MaxScans, upto : Offsets]]
         /\ transfer' \in [Centrals -> {"none", "whole", "broken"}]
<1> USE DEF TransferEnds, TypeOK
<1>1. response' = [response EXCEPT ![c] = "empty"]
  BY DEF Respond
<1>2. doc' \in [Centrals -> [scan : 0..MaxScans, upto : Offsets]]
  BY OffsetsAre DEF Nothing
<1>3. transfer' \in [Centrals -> {"none", "whole", "broken"}]
  <2> DEFINE ended == CASE doc[c] = Nothing -> transfer[c]
                        [] doc[c] = Broken -> "broken"
                        [] OTHER -> IF doc[c].upto = Length[doc[c].scan]
                                    THEN "whole" ELSE "broken"
  <2>1. ended \in {"none", "whole", "broken"}
    OBVIOUS
  <2>2. transfer' = [transfer EXCEPT ![c] = ended]
    OBVIOUS
  <2> HIDE DEF ended
  <2> QED
    BY <2>1, <2>2
<1> QED
  BY <1>1, <1>2, <1>3

LEMMA NextType == IInv /\ [Next]_vars => TypeOK'
<1> SUFFICES ASSUME IInv, [Next]_vars PROVE TypeOK'
  OBVIOUS
<1>0. TypeOK /\ Copied /\ Scan!TypeOK'
  BY NextService DEF IInv
<1>s. ASSUME NEW c \in Centrals,
             NEW r \in {"none", "Ok", "Failed", "NotAuthorized", "NotSupported",
                        "InvalidValueLength", "empty", "chunk"} \cup Scan!ScanStates,
             Respond(c, r)
      PROVE  response' \in [Centrals -> {"none", "Ok", "Failed", "NotAuthorized",
                "NotSupported", "InvalidValueLength", "empty", "chunk"} \cup Scan!ScanStates]
  BY <1>0, <1>s DEF Respond, TypeOK
<1> USE <1>0 DEF TypeOK, clientVars, history
<1>1. ASSUME NEW c \in Centrals, Authorize(c) PROVE TypeOK'
  <2>1. authorized' \in BOOLEAN
    BY <1>1 DEF Authorize
  <2> QED
    BY <1>1, <1>s, <2>1 DEF Authorize
<1>2. ASSUME NEW c \in Centrals, NotAuthorized(c) \/ NotSupported(c) \/ ControlInvalid(c)
      PROVE TypeOK'
  BY <1>2, <1>s DEF NotAuthorized, NotSupported, ControlInvalid
<1>3. ASSUME NEW c \in Centrals, ControlWrite(c) PROVE TypeOK'
  <2>1. doc' \in [Centrals -> [scan : 0..MaxScans, upto : Offsets]]
    BY <1>3, OffsetsAre DEF ControlWrite, Nothing
  <2>2. offset' \in Offsets /\ undisturbed' \in SUBSET Centrals
    BY <1>3, OffsetsAre DEF ControlWrite, OffsetOnControl
  <2>3. /\ transfer' \in [Centrals -> {"none", "whole", "broken"}]
        /\ pc' \in [Centrals -> {"idle", "control", "copied", "located"}]
    BY <1>3 DEF ControlWrite, Goto
  <2> QED
    BY <1>3, <1>s, <2>1, <2>2, <2>3 DEF ControlWrite
<1>4. ASSUME NEW c \in Centrals, ControlStart(c) PROVE TypeOK'
  <2>1. pc' \in [Centrals -> {"idle", "control", "copied", "located"}]
    BY <1>4 DEF ControlStart, Goto
  <2>2. undisturbed' \in SUBSET Centrals
    BY <1>4 DEF ControlStart, Disturb
  <2> QED
    BY <1>4, <1>s, <2>1, <2>2 DEF ControlStart
<1>5. ASSUME NEW c \in Centrals, StateRead(c) PROVE TypeOK'
  BY <1>5, <1>s DEF StateRead, Scan!TypeOK
<1>6. ASSUME NEW c \in Centrals, ResultsNone(c) PROVE TypeOK'
  BY <1>6, TransferEndsType DEF ResultsNone
<1>7. ASSUME NEW c \in Centrals, ResultsCopy(c) PROVE TypeOK'
  <2>1. pc' \in [Centrals -> {"idle", "control", "copied", "located"}]
    BY <1>7 DEF ResultsCopy, Goto
  <2> QED
    BY <1>7, <1>s, <2>1 DEF ResultsCopy
<1>8. ASSUME NEW c \in Centrals, ResultsOffset(c) PROVE TypeOK'
  <2>1. /\ pc' \in [Centrals -> {"idle", "control", "copied", "located"}]
        /\ at' \in [Centrals -> Offsets]
    BY <1>8 DEF ResultsOffset, Goto
  <2> QED
    BY <1>8, <2>1 DEF ResultsOffset
<1>9. ASSUME NEW c \in Centrals, ResultsEnd(c) PROVE TypeOK'
  <2>1. /\ pc' \in [Centrals -> {"idle", "control", "copied", "located"}]
        /\ at' \in [Centrals -> Offsets] /\ offset' \in Offsets
    BY <1>9, OffsetsAre DEF ResultsEnd, Goto, OffsetAtEnd
  <2>2. undisturbed' \in SUBSET Centrals
    BY <1>9 DEF ResultsEnd, Disturb
  <2> QED
    BY <1>9, <2>1, <2>2, TransferEndsType DEF ResultsEnd
<1>10. ASSUME NEW c \in Centrals, ResultsChunk(c) PROVE TypeOK'
  <2>1. got[c] \in Scan!Scans
    BY <1>10 DEF ResultsChunk, Copied, Scan!TypeOK, Scan!Scans
  <2>2. ChunkEnd(c) \in Offsets
    BY <1>10, <2>1, ChunkIsInside, OffsetsAre DEF ResultsChunk
  <2>3. 1 \in Offsets
    <3>1. 1 \in 0..Length[got[c]]
      BY <2>1, TextLength
    <3> QED
      BY <2>1, <3>1, OffsetsAre
  <2>4. doc' \in [Centrals -> [scan : 0..MaxScans, upto : Offsets]]
    <3>1. [scan |-> got[c], upto |-> ChunkEnd(c)] \in [scan : 0..MaxScans, upto : Offsets]
      BY <2>1, <2>2 DEF Scan!Scans
    <3>2. Broken \in [scan : 0..MaxScans, upto : Offsets]
      BY <2>3 DEF Broken
    <3> QED
      BY <1>10, <3>1, <3>2 DEF ResultsChunk, Received
  <2>5. /\ pc' \in [Centrals -> {"idle", "control", "copied", "located"}]
        /\ at' \in [Centrals -> Offsets]
    BY <1>10, OffsetsAre DEF ResultsChunk, Goto
  <2>6. undisturbed' \in SUBSET Centrals
    BY <1>10 DEF ResultsChunk, Disturb
  <2> QED
    BY <1>10, <1>s, <2>2, <2>4, <2>5, <2>6 DEF ResultsChunk
<1>11. ASSUME NEW c \in Centrals, Reconnect(c) PROVE TypeOK'
  <2>1. doc' \in [Centrals -> [scan : 0..MaxScans, upto : Offsets]]
    BY <1>11, OffsetsAre DEF Reconnect, Nothing
  <2>2. undisturbed' \in SUBSET Centrals /\ reconnects' \in 0..MaxReconnects
    BY <1>11 DEF Reconnect
  <2> QED
    BY <1>11, <2>1, <2>2 DEF Reconnect
<1>12. ASSUME NEW u \in Others, OtherScan(u) PROVE TypeOK'
  BY <1>12 DEF OtherScan
<1>13. CASE (\E t \in Scan!Scans : Background(t)) \/ UNCHANGED vars
  BY <1>13 DEF Background, vars, bleVars
<1> QED
  BY <1>1, <1>2, <1>3, <1>4, <1>5, <1>6, <1>7, <1>8, <1>9, <1>10, <1>11, <1>12,
     <1>13 DEF Next

LEMMA NextCopied == IInv /\ [Next]_vars => Copied'
<1> SUFFICES ASSUME IInv, [Next]_vars PROVE Copied'
  OBVIOUS
<1>0. /\ TypeOK /\ Copied /\ ServiceOK /\ Scan!TypeOK
      /\ pc \in [Centrals -> {"idle", "control", "copied", "located"}]
      /\ DOMAIN response = Centrals /\ DOMAIN got = Centrals \cup Others
  BY DEF IInv, TypeOK, Scan!TypeOK
<1> USE <1>0 DEF Copied, Goto, Respond, clientVars
<1>1. ASSUME UNCHANGED got, NEW c \in Centrals, NEW r, Respond(c, r),
             \/ UNCHANGED pc /\ pc[c] = "idle"
             \/ \E p \in {"idle", "control"} : Goto(c, p) /\ (p = "control" => r = "none")
      PROVE  Copied'
  BY <1>1
<1>2. ASSUME NEW c \in Centrals,
             Authorize(c) \/ NotAuthorized(c) \/ NotSupported(c) \/ ControlInvalid(c)
                 \/ StateRead(c)
      PROVE  Copied'
  BY <1>1, <1>2 DEF Authorize, NotAuthorized, NotSupported, ControlInvalid, StateRead,
                    scanVars, Enter
<1>3. ASSUME NEW c \in Centrals, ControlWrite(c) PROVE Copied'
  BY <1>1, <1>3 DEF ControlWrite, scanVars
<1>4. ASSUME NEW c \in Centrals, ControlStart(c) PROVE Copied'
  <2>1. UNCHANGED got
    BY <1>4, StartScanKeeps, RefuseScanKeeps DEF ControlStart
  <2> QED
    BY <1>1, <1>4, <2>1 DEF ControlStart
<1>5. ASSUME NEW c \in Centrals, ResultsNone(c) PROVE Copied'
  <2>1. got' = [got EXCEPT ![c] = scanResults] /\ pc[c] = "idle" /\ UNCHANGED pc
    BY <1>5, ReadResultsKeeps DEF ResultsNone, Enter
  <2>2. response' = [response EXCEPT ![c] = "empty"]
    BY <1>5 DEF ResultsNone, TransferEnds
  <2> QED
    BY <2>1, <2>2
<1>6. ASSUME NEW c \in Centrals, ResultsCopy(c) PROVE Copied'
  <2>1. got' = [got EXCEPT ![c] = scanResults]
    BY <1>6, ReadResultsKeeps DEF ResultsCopy
  <2> QED
    BY <1>6, <2>1 DEF ResultsCopy
<1>7. ASSUME NEW c \in Centrals, ResultsOffset(c) PROVE Copied'
  BY <1>7 DEF ResultsOffset, scanVars
<1>8. ASSUME NEW c \in Centrals, ResultsEnd(c) \/ ResultsChunk(c) PROVE Copied'
  BY <1>1, <1>8 DEF ResultsEnd, ResultsChunk, TransferEnds, scanVars
<1>9. ASSUME UNCHANGED <<got, pc, response>> PROVE Copied'
  BY <1>9
<1>10. ASSUME NEW c \in Centrals, Reconnect(c) PROVE Copied'
  BY <1>9, <1>10 DEF Reconnect, scanVars
<1>11. ASSUME NEW u \in Others, OtherScan(u) PROVE Copied'
  BY <1>9, <1>11, StartScanKeeps, RefuseScanKeeps DEF OtherScan
<1>12. ASSUME NEW t \in Scan!Scans, Background(t) PROVE Copied'
  BY <1>9, <1>12, BackgroundKeeps DEF Background, bleVars
<1>13. CASE UNCHANGED vars
  BY <1>9, <1>13 DEF vars, scanVars, bleVars
<1> QED
  BY <1>2, <1>3, <1>4, <1>5, <1>6, <1>7, <1>8, <1>10, <1>11, <1>12, <1>13 DEF Next

\* A step of another central, or of nobody, leaves an undisturbed one in step,
\* as long as the offset stays and the results on display, if any.
LEMMA StaysInStep ==
  ASSUME IInv, NEW c \in undisturbed, UNCHANGED offset,
         scanResults # 0 => scanResults' = scanResults,
         pc'[c] = pc[c], at'[c] = at[c], got'[c] = got[c], doc'[c] = doc[c],
         transfer'[c] = transfer[c]
  PROVE  InStep(c)'
<1>1. InStep(c) /\ c \in Centrals /\ Copied
  BY DEF IInv, UndisturbedInStep, TypeOK
<1>2. pc[c] \in {"copied", "located"} => got[c] # 0
  BY <1>1 DEF Copied
<1> QED
  BY <1>1, <1>2 DEF InStep

LEMMA NextInStep == IInv /\ [Next]_vars => UndisturbedInStep'
<1> SUFFICES ASSUME IInv, [Next]_vars, NEW d \in undisturbed' PROVE InStep(d)'
  BY DEF UndisturbedInStep
<1>0. /\ TypeOK /\ Copied /\ ServiceOK /\ Scan!TypeOK /\ TypeOK'
      /\ undisturbed \in SUBSET Centrals
      /\ \A c \in undisturbed : InStep(c)
      /\ pc \in [Centrals -> {"idle", "control", "copied", "located"}]
      /\ at \in [Centrals -> Offsets]
      /\ DOMAIN doc = Centrals /\ DOMAIN transfer = Centrals
      /\ DOMAIN got = Centrals \cup Others
  BY NextType DEF IInv, TypeOK, Scan!TypeOK, UndisturbedInStep
<1> USE <1>0
\* What it does not touch of the central's, and the service as it is.
<1>1. ASSUME d \in undisturbed, UNCHANGED <<offset, pc, at, doc, transfer>>,
             got'[d] = got[d], scanResults # 0 => scanResults' = scanResults
      PROVE  InStep(d)'
  BY <1>1, StaysInStep
<1>2. ASSUME NEW c \in Centrals,
             Authorize(c) \/ NotAuthorized(c) \/ NotSupported(c) \/ ControlInvalid(c)
                 \/ StateRead(c)
      PROVE  InStep(d)'
  BY <1>1, <1>2 DEF Authorize, NotAuthorized, NotSupported, ControlInvalid, StateRead,
                    scanVars, history
<1>3. ASSUME NEW c \in Centrals, ControlWrite(c) PROVE InStep(d)'
  <2>1. d = c /\ doc'[c] = Nothing /\ offset' = 0 /\ transfer'[c] = "none"
        /\ pc'[c] = "control"
    BY <1>3 DEF ControlWrite, OffsetOnControl, Goto
  <2> QED
    BY <2>1 DEF InStep
<1>4. ASSUME NEW c \in Centrals, ControlStart(c) PROVE InStep(d)'
  <2> USE <1>4 DEF ControlStart, Goto
  <2>1. d \in undisturbed /\ UNCHANGED <<offset, at, doc, transfer, got>>
    BY StartScanKeeps, RefuseScanKeeps DEF Disturb
  <2>2. CASE d = c
    <3>1. doc[c] = Nothing /\ offset = 0 /\ transfer[c] # "broken"
      BY <2>1, <2>2 DEF InStep
    <3>2. pc'[c] = "idle"
      OBVIOUS
    <3> QED
      BY <2>1, <2>2, <3>1, <3>2 DEF InStep
  <2>3. CASE d # c
    <3>1. Scan!RefuseScan(c)
      BY <2>3 DEF Disturb
    <3>2. scanResults' = scanResults
      BY <3>1, RefuseScanKeeps
    <3>3. pc'[d] = pc[d]
      BY <2>1, <2>3
    <3> QED
      BY <2>1, <3>2, <3>3, StaysInStep
  <2> QED
    BY <2>2, <2>3
<1>5. ASSUME NEW c \in Centrals, ResultsNone(c) PROVE InStep(d)'
  <2> USE <1>5 DEF ResultsNone, Enter
  <2>1. d \in undisturbed /\ UNCHANGED <<offset, pc, at, scanResults>>
    BY ReadResultsKeeps DEF history
  <2>2. got' = [got EXCEPT ![c] = scanResults]
    BY ReadResultsKeeps
  <2>3. CASE d = c
    <3>1. doc[c] = Nothing /\ offset = 0 /\ transfer[c] # "broken"
      BY <2>1, <2>3 DEF InStep
    <3>2. transfer'[c] = transfer[c] /\ doc'[c] = Nothing
      BY <3>1 DEF TransferEnds, Nothing, Broken
    <3> QED
      BY <2>1, <2>3, <3>1, <3>2 DEF InStep
  <2>4. CASE d # c
    <3>1. doc'[d] = doc[d] /\ transfer'[d] = transfer[d]
      BY <2>1, <2>4 DEF TransferEnds
    <3>2. got'[d] = got[d] /\ pc'[d] = pc[d] /\ at'[d] = at[d]
      BY <2>1, <2>2, <2>4
    <3> QED
      BY <2>1, <3>1, <3>2, StaysInStep
  <2> QED
    BY <2>3, <2>4
<1>6. ASSUME NEW c \in Centrals, ResultsCopy(c) PROVE InStep(d)'
  <2> USE <1>6 DEF ResultsCopy, Enter, Goto
  <2>1. d \in undisturbed /\ UNCHANGED <<offset, at, doc, transfer, scanResults>>
    BY ReadResultsKeeps DEF history
  <2>2. got' = [got EXCEPT ![c] = scanResults]
    BY ReadResultsKeeps
  <2>3. CASE d = c
    <3>1. got'[c] = scanResults /\ pc'[c] = "copied"
      BY <2>2
    <3> QED
      BY <2>1, <2>3, <3>1 DEF InStep
  <2>4. CASE d # c
    <3>1. got'[d] = got[d] /\ pc'[d] = pc[d]
      BY <2>1, <2>2, <2>4
    <3> QED
      BY <2>1, <3>1, StaysInStep
  <2> QED
    BY <2>3, <2>4
<1>7. ASSUME NEW c \in Centrals, ResultsOffset(c) PROVE InStep(d)'
  <2> USE <1>7 DEF ResultsOffset, Goto
  <2>1. d \in undisturbed /\ UNCHANGED <<offset, doc, transfer, got, scanResults>>
    BY DEF history, clientVars, scanVars
  <2>2. CASE d = c
    BY <2>1, <2>2 DEF InStep
  <2>3. CASE d # c
    <3>1. at'[d] = at[d] /\ pc'[d] = pc[d]
      BY <2>1, <2>3
    <3> QED
      BY <2>1, <3>1, StaysInStep
  <2> QED
    BY <2>2, <2>3
\* Whoever moves the offset leaves nobody else undisturbed.
<1>8. ASSUME NEW c \in Centrals, ResultsEnd(c) PROVE InStep(d)'
  <2> USE <1>8 DEF ResultsEnd, Goto
  <2>1. d = c /\ d \in undisturbed /\ InStep(c) /\ UNCHANGED <<got, scanResults>>
    BY DEF Disturb, scanVars
  <2>2. pc'[c] = "idle" /\ offset' = 0 /\ doc'[c] = Nothing
    BY DEF OffsetAtEnd, TransferEnds
  <2>3. transfer'[c] # "broken"
    <3>0. /\ got[c] = scanResults /\ at[c] = offset /\ at[c] >= Length[got[c]]
          /\ got[c] \in Scan!Scans
      BY <2>1 DEF InStep, AtEnd, Copied, Scan!TypeOK, Scan!Scans
    <3>1. CASE doc[c] = Nothing /\ offset = 0
      BY <3>0, <3>1, TextLength
    <3>2. CASE /\ offset <= Length[scanResults] /\ scanResults # 0
               /\ doc[c] = [scan |-> scanResults, upto |-> offset]
      <4>1. offset = Length[scanResults]
        BY <3>0, <3>2, TextLength, OffsetsAre DEF TypeOK
      <4>2. doc[c] # Nothing /\ doc[c] # Broken
        BY <3>2 DEF Nothing, Broken
      <4>3. transfer'[c] = "whole"
        BY <3>2, <4>1, <4>2 DEF TransferEnds
      <4> QED
        BY <4>3
    <3> QED
      BY <2>1, <3>1, <3>2 DEF InStep
  <2> QED
    BY <2>1, <2>2, <2>3 DEF InStep
<1>9. ASSUME NEW c \in Centrals, ResultsChunk(c) PROVE InStep(d)'
  <2> USE <1>9 DEF ResultsChunk, Goto
  <2>1. /\ d = c /\ d \in undisturbed /\ InStep(c)
        /\ UNCHANGED <<got, scanResults, transfer>>
    BY DEF Disturb, scanVars
  <2>2. /\ got[c] = scanResults /\ at[c] = offset /\ got[c] \in Scan!Scans
        /\ got[c] # 0 /\ at[c] \in Nat
    BY <2>1, OffsetsAre DEF InStep, Copied, Scan!TypeOK, Scan!Scans
  <2>3. /\ ChunkEnd(c) \in 0..Length[got[c]] /\ at[c] < ChunkEnd(c)
    BY <2>2, ChunkIsInside
  <2>4. doc'[c] = [scan |-> got[c], upto |-> ChunkEnd(c)]
    <3>1. CASE doc[c] = Nothing /\ offset = 0
      BY <2>2, <3>1 DEF Received
    <3>2. CASE doc[c] = [scan |-> scanResults, upto |-> offset]
      BY <2>2, <3>2 DEF Received
    <3> QED
      BY <2>1, <3>1, <3>2 DEF InStep
  <2>5. offset' = ChunkEnd(c) /\ pc'[c] = "idle"
    OBVIOUS
  <2> QED
    BY <2>1, <2>2, <2>3, <2>4, <2>5, TextLength DEF InStep
<1>10. ASSUME NEW c \in Centrals, Reconnect(c) PROVE InStep(d)'
  <2>1. /\ d \in undisturbed /\ d # c
        /\ UNCHANGED <<offset, pc, at, transfer, got, scanResults>>
    BY <1>10 DEF Reconnect, scanVars
  <2>2. doc'[d] = doc[d]
    BY <1>10, <2>1 DEF Reconnect
  <2> QED
    BY <2>1, <2>2, StaysInStep
<1>11. ASSUME NEW u \in Others, OtherScan(u) PROVE InStep(d)'
  BY <1>1, <1>11, RefuseScanKeeps DEF OtherScan, clientVars
<1>12. ASSUME NEW t \in Scan!Scans, Background(t) PROVE InStep(d)'
  BY <1>1, <1>12, BackgroundKeeps DEF Background, bleVars, clientVars, history
<1>13. CASE UNCHANGED vars
  BY <1>1, <1>13 DEF vars, scanVars, bleVars, clientVars, history
<1> QED
  BY <1>2, <1>3, <1>4, <1>5, <1>6, <1>7, <1>8, <1>9, <1>10, <1>11, <1>12, <1>13
     DEF Next

LEMMA NextFinished == IInv /\ [Next]_vars => FinishedMeansResults'
<1> SUFFICES ASSUME IInv, [Next]_vars,
                    NEW d \in undisturbed', response'[d] = "Finished", scanResults' = 0
             PROVE  FALSE
  BY DEF FinishedMeansResults
<1>0. /\ TypeOK /\ Copied /\ ServiceOK /\ Scan!TypeOK
      /\ undisturbed \in SUBSET Centrals /\ DOMAIN response = Centrals
      /\ \A c \in undisturbed : response[c] = "Finished" => scanResults # 0
  BY DEF IInv, TypeOK, FinishedMeansResults
<1> USE <1>0
\* What is on display does not go away behind the back of the central.
<1>1. ASSUME d \in undisturbed, scanResults # 0 => scanResults' = scanResults
      PROVE  response'[d] # response[d]
  BY <1>1
<1>2. ASSUME NEW c \in Centrals, NEW r, Respond(c, r), r # "Finished",
             undisturbed' \subseteq undisturbed \cup {c},
             scanResults # 0 => scanResults' = scanResults
      PROVE  FALSE
  BY <1>1, <1>2 DEF Respond
<1>3. ASSUME NEW c \in Centrals,
             Authorize(c) \/ NotAuthorized(c) \/ NotSupported(c) \/ ControlInvalid(c)
                 \/ ControlWrite(c)
      PROVE  FALSE
  BY <1>2, <1>3 DEF Authorize, NotAuthorized, NotSupported, ControlInvalid,
                    ControlWrite, history, scanVars
<1>4. ASSUME NEW c \in Centrals, StateRead(c) PROVE FALSE
  <2>1. d \in undisturbed /\ UNCHANGED <<scanResults, scanState>>
    BY <1>4 DEF StateRead, history, scanVars
  <2>2. CASE d = c
    BY <1>4, <2>1, <2>2 DEF StateRead, Respond, ServiceOK
  <2>3. CASE d # c
    BY <1>1, <1>4, <2>1, <2>3 DEF StateRead, Respond
  <2> QED
    BY <2>2, <2>3
<1>5. ASSUME NEW c \in Centrals, ControlStart(c) PROVE FALSE
  <2>1. CASE Scan!StartScan(c)
    BY <1>5, <2>1, StartScanKeeps DEF ControlStart, Respond, Disturb, Scan!RefuseScan,
       Scan!StartScan
  <2>2. CASE Scan!RefuseScan(c)
    BY <1>2, <1>5, <2>2, RefuseScanKeeps DEF ControlStart, Scan!StartScan, Scan!RefuseScan
  <2> QED
    BY <1>5, <2>1, <2>2 DEF ControlStart
<1>6. ASSUME NEW c \in Centrals, ResultsNone(c) \/ ResultsCopy(c) PROVE FALSE
  BY <1>2, <1>6, ReadResultsKeeps DEF ResultsNone, ResultsCopy, TransferEnds, history
<1>7. ASSUME NEW c \in Centrals, ResultsEnd(c) \/ ResultsChunk(c) PROVE FALSE
  BY <1>2, <1>7 DEF ResultsEnd, ResultsChunk, TransferEnds, Disturb, scanVars
<1>8. ASSUME NEW c \in Centrals, ResultsOffset(c) \/ Reconnect(c) PROVE FALSE
  BY <1>1, <1>8 DEF ResultsOffset, Reconnect, history, clientVars, scanVars
<1>9. ASSUME NEW u \in Others, OtherScan(u) PROVE FALSE
  BY <1>1, <1>9, RefuseScanKeeps DEF OtherScan, clientVars
<1>10. ASSUME NEW t \in Scan!Scans, Background(t) PROVE FALSE
  BY <1>1, <1>10, BackgroundKeeps DEF Background, bleVars, clientVars, history
<1>11. CASE UNCHANGED vars
  BY <1>1, <1>11 DEF vars, bleVars, clientVars, history, scanVars
<1> QED
  BY <1>3, <1>4, <1>5, <1>6, <1>7, <1>8, <1>9, <1>10, <1>11 DEF Next

LEMMA Inductive == Spec => []IInv
<1>1. IInv /\ [Next]_vars => IInv'
  BY NextType, NextService, NextCopied, NextInStep, NextFinished DEF IInv
<1> QED
  BY InitIInv, <1>1, PTL DEF Spec

-----------------------------------------------------------------------------
(* The theorems                                                             *)

\* The types of the variables.
THEOREM TypeCorrect == Spec => []TypeOK
<1>1. IInv => TypeOK
  BY DEF IInv
<1> QED
  BY <1>1, Inductive, PTL

\* However many centrals move the shared offset between a handler's steps, the
\* slice it takes lies within the text it has copied and is not empty.
THEOREM SlicesAreInBounds == Spec => []SliceInBounds
<1>1. ASSUME IInv PROVE SliceInBounds
  <2> SUFFICES ASSUME NEW c \in Centrals, pc[c] = "located", ~AtEnd(c)
               PROVE  /\ got[c] # 0
                      /\ at[c] < ChunkEnd(c) /\ ChunkEnd(c) <= Length[got[c]]
                      /\ ChunkEnd(c) - at[c] <= MaxChunk
    BY DEF SliceInBounds
  <2>1. got[c] # 0 /\ got[c] \in Scan!Scans /\ at[c] \in Nat
    <3>1. Copied /\ got \in [Centrals \cup Others -> 0..MaxScans]
      BY <1>1 DEF IInv, TypeOK, Scan!TypeOK
    <3>2. at[c] \in Offsets
      BY <1>1 DEF IInv, TypeOK
    <3>3. got[c] # 0
      BY <3>1 DEF Copied
    <3>4. got[c] \in Scan!Scans
      BY <3>1, <3>3 DEF Scan!Scans
    <3>5. at[c] \in Nat
      BY <3>2, OffsetsAre
    <3> QED
      BY <3>3, <3>4, <3>5
  <2>2. /\ ChunkEnd(c) \in 0..Length[got[c]] /\ at[c] < ChunkEnd(c)
        /\ ChunkEnd(c) - at[c] <= MaxChunk
    BY <2>1, ChunkIsInside
  <2>3. Length[got[c]] \in Nat
    BY <2>1, TextLength
  <2> QED
    BY <2>1, <2>2, <2>3
<1> QED
  BY <1>1, Inductive, PTL

\* A central that nobody disturbs since it asked for a scan receives the whole
\* text of one scan, whatever the texts and the chunk size.
THEOREM UndisturbedTransfersAreWhole == Spec => []UndisturbedTransferIsWhole
<1>1. IInv => UndisturbedTransferIsWhole
  BY DEF IInv, UndisturbedInStep, InStep, UndisturbedTransferIsWhole
<1> QED
  BY <1>1, Inductive, PTL

\* Such a central finds results once it was told that its scan is finished.
THEOREM FinishedComesWithResults == Spec => []FinishedMeansResults
<1>1. IInv => FinishedMeansResults
  BY DEF IInv
<1> QED
  BY <1>1, Inductive, PTL

-----------------------------------------------------------------------------
(* The service below                                                        *)

\* A step of the handlers is a step of the scanning service, or leaves it alone.
LEMMA ServiceSteps == [Next]_vars => [Scan!Next]_(Scan!vars)
<1> SUFFICES ASSUME [Next]_vars PROVE [Scan!Next]_(Scan!vars)
  OBVIOUS
<1> USE DEF Scan!vars, Scan!machine, Scan!callerVars, Scan!history, scanVars
<1>1. ASSUME NEW c \in Centrals \cup Others,
             Scan!StartScan(c) \/ Scan!RefuseScan(c) \/ Scan!ReadResults(c)
      PROVE  [Scan!Next]_(Scan!vars)
  BY <1>1 DEF Scan!Next
<1>2. ASSUME NEW c \in Centrals, ControlStart(c) \/ ResultsNone(c) \/ ResultsCopy(c)
      PROVE  [Scan!Next]_(Scan!vars)
  <2>1. Scan!StartScan(c) \/ Scan!RefuseScan(c) \/ Scan!ReadResults(c)
    BY <1>2 DEF ControlStart, ResultsNone, ResultsCopy
  <2> QED
    BY <1>1, <2>1
<1>3. ASSUME NEW u \in Others, OtherScan(u) PROVE [Scan!Next]_(Scan!vars)
  <2>1. Scan!StartScan(u) \/ Scan!RefuseScan(u)
    BY <1>3 DEF OtherScan
  <2> QED
    BY <1>1, <2>1
<1>4. ASSUME NEW t \in Scan!Scans, Background(t) PROVE [Scan!Next]_(Scan!vars)
  <2>1. Scan!BackendScan(t) \/ Scan!CompleteScan(t) \/ Scan!FailScan(t)
    BY <1>4 DEF Background
  <2> QED
    BY <2>1 DEF Scan!Next
<1>5. ASSUME NEW c \in Centrals,
             \/ Authorize(c) \/ NotAuthorized(c) \/ NotSupported(c) \/ ControlWrite(c)
             \/ ControlInvalid(c) \/ StateRead(c) \/ ResultsOffset(c)
             \/ ResultsEnd(c) \/ ResultsChunk(c) \/ Reconnect(c)
      PROVE  UNCHANGED scanVars
  BY <1>5 DEF Authorize, NotAuthorized, NotSupported, ControlWrite, ControlInvalid,
     StateRead, ResultsOffset, ResultsEnd, ResultsChunk, Reconnect
<1>6. CASE UNCHANGED vars
  BY <1>6 DEF vars
<1> QED
  BY <1>2, <1>3, <1>4, <1>5, <1>6 DEF Next

\* The BLE handlers and those of the Unix socket use one scanning service as its
\* callers do: whatever is proved of ScanService holds under them.
THEOREM ImplementsService == Spec => Scan!Spec
<1>1. Init => Scan!Init
  BY DEF Init
<1> QED
  BY <1>1, ServiceSteps, PTL DEF Spec, Scan!Spec
=============================================================================
