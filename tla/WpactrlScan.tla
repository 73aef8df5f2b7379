----------------------------- MODULE WpactrlScan -----------------------------
(***************************************************************************)
(* scan of the wpa_supplicant backend (backend/wpactrl_backend.rs) under   *)
(* the scanning service: SCAN is requested, the task sleeps for three      *)
(* seconds, and then takes the list that SCAN_RESULTS gives.               *)
(*                                                                         *)
(* wpa_supplicant is external.  Its radio scans when it is asked to and of *)
(* its own accord, one scan at a time, and the end of each replaces the    *)
(* list it holds.  The lists are numbered in the order it comes to hold    *)
(* them.  Nothing tells the program that the radio is done.                *)
(***************************************************************************)
EXTENDS ScanService, Integers, Sequences

CONSTANTS
    MaxLists,       \* bound: how many lists the radio brings
    Lists           \* what SCAN_RESULTS says of each, without the header

\* A line is its columns; a number that is out of range stands for any text
\* that does not parse as one.
Line == [columns : Nat, mac : Nat, frequency : Int, level : Int, ssid : Nat]

ASSUME WpactrlScanAssumption ==
    MaxLists \in Nat /\ Lists \in [0..MaxLists -> Seq(Line)]

VARIABLES
    radio,          \* the radio is scanning
    held,           \* the list wpa_supplicant holds
    step,           \* where WpactrlBackend::scan is for each task
    taken,          \* the list it took, 0 before
    \* history
    asked,          \* the list held when the caller asked for the scan
    sought,         \* the tasks whose SCAN left the radio scanning
    late            \* those of them that slept too short for its list

supplicant == <<radio, held>>
backend == <<step, taken>>
asking == <<asked, sought, late>>
backendVars == <<supplicant, backend, asking>>

BackendInit ==
    /\ Init
    /\ radio = FALSE /\ held = 0
    /\ step = [t \in Scans |-> "trigger"]
    /\ taken = [t \in Scans |-> 0]
    /\ asked = [t \in Scans |-> 0]
    /\ sought = {} /\ late = {}

Goto(t, s) == step' = [step EXCEPT ![t] = s]

-----------------------------------------------------------------------------
(* parse_scan_results and frequency_to_channel                              *)

ChannelTable ==
    {<<2412, 1>>, <<2417, 2>>, <<2422, 3>>, <<2427, 4>>, <<2432, 5>>,
     <<2437, 6>>, <<2442, 7>>, <<2447, 8>>, <<2452, 9>>, <<2457, 10>>,
     <<2462, 11>>, <<2467, 12>>, <<2472, 13>>, <<2484, 14>>,
     <<5180, 36>>, <<5200, 40>>, <<5220, 44>>, <<5240, 48>>, <<5260, 52>>,
     <<5280, 56>>, <<5300, 60>>, <<5320, 64>>, <<5500, 100>>, <<5520, 104>>,
     <<5540, 108>>, <<5560, 112>>, <<5580, 116>>, <<5660, 132>>, <<5680, 136>>,
     <<5700, 140>>, <<5745, 149>>, <<5765, 153>>, <<5785, 157>>, <<5805, 161>>,
     <<5825, 165>>}

\* The channel of a frequency that is in the table, and 0 of any other.
ChannelOf(f) ==
    IF \E p \in ChannelTable : p[1] = f
    THEN (CHOOSE p \in ChannelTable : p[1] = f)[2] ELSE 0

\* parse::<u16>() or parse::<i16>() of a column, or else 0.
ParsedU16(n) == IF 0 <= n /\ n <= 65535 THEN n ELSE 0
ParsedI16(n) == IF -32768 <= n /\ n <= 32767 THEN n ELSE 0

Network(line) ==
    [ssid |-> line.ssid, mac |-> line.mac, rssi |-> ParsedI16(line.level),
     channel |-> ChannelOf(ParsedU16(line.frequency))]

\* Lines with fewer than five columns are passed over.
HasColumns_Any(line) == TRUE
HasColumns(line) == line.columns >= 5

\* The networks after each turn of the loop over the lines.
ParsedUpTo(lines) ==
    LET networks[i \in 0..Len(lines)] ==
            IF i = 0 THEN <<>>
            ELSE IF HasColumns(lines[i])
                 THEN Append(networks[i - 1], Network(lines[i]))
                 ELSE networks[i - 1]
    IN  networks

parse_scan_results(lines) == ParsedUpTo(lines)[Len(lines)]

\* The networks on display.
Networks == parse_scan_results(Lists[taken[scanResults]])

-----------------------------------------------------------------------------
(* WpactrlBackend::scan                                                     *)

\* There is no control socket, or it cannot be opened, or SCAN cannot be sent,
\* or its answer is lost when the radio may have started.
TriggerFails(t) ==
    /\ task[t] = "scanning" /\ step[t] = "trigger"
    /\ BackendScan(t) /\ task'[t] = "err"
    /\ radio' \in {radio, TRUE}
    /\ UNCHANGED <<held, backend, asking>>

\* SCAN is answered: OK, or FAIL-BUSY because the radio is scanning, or FAIL.
\* The answer is not looked at.
Trigger(t) ==
    /\ task[t] = "scanning" /\ step[t] = "trigger"
    /\ Goto(t, "asleep")
    /\ radio' \in {radio, TRUE}
    /\ sought' = IF radio' THEN sought \cup {t} ELSE sought
    /\ UNCHANGED <<vars, held, taken, asked, late>>

\* The three seconds are over, whether the radio is done or not.
Wake(t) ==
    /\ task[t] = "scanning" /\ step[t] = "asleep"
    /\ Goto(t, "awake")
    /\ late' = IF t \in sought /\ held = asked[t] THEN late \cup {t} ELSE late
    /\ UNCHANGED <<vars, supplicant, taken, asked, sought>>

\* SCAN_RESULTS is answered with the list held by now...
Collect_Unslept(t) ==
    /\ task[t] = "scanning" /\ step[t] \in {"asleep", "awake"}
    /\ BackendScan(t) /\ task'[t] = "ok"
    /\ taken' = [taken EXCEPT ![t] = held]
    /\ UNCHANGED <<supplicant, step, asking>>
Collect(t) ==
    /\ task[t] = "scanning" /\ step[t] = "awake"
    /\ BackendScan(t) /\ task'[t] = "ok"
    /\ taken' = [taken EXCEPT ![t] = held]
    /\ UNCHANGED <<supplicant, step, asking>>

\* ... or not at all.
CollectFails(t) ==
    /\ task[t] = "scanning" /\ step[t] = "awake"
    /\ BackendScan(t) /\ task'[t] = "err"
    /\ UNCHANGED <<supplicant, backend, asking>>

-----------------------------------------------------------------------------
(* The radio, the callers and the rest of the task                          *)

RadioStarts ==
    /\ ~radio /\ held < MaxLists
    /\ radio' = TRUE
    /\ UNCHANGED <<vars, held, backend, asking>>

\* At the bound the radio brings no further list: none starts.
RadioDone ==
    /\ radio /\ held < MaxLists
    /\ radio' = FALSE /\ held' = held + 1
    /\ UNCHANGED <<vars, backend, asking>>

\* start_scan is called while wpa_supplicant holds some list.
Request(c) ==
    /\ StartScan(c)
    /\ asked' = [asked EXCEPT ![scans + 1] = held]
    /\ UNCHANGED <<supplicant, backend, sought, late>>

\* The rest of the service knows nothing of the backend.
Service ==
    /\ \/ \E c \in Callers : RefuseScan(c) \/ ReadResults(c)
       \/ \E t \in Scans : CompleteScan(t) \/ FailScan(t)
       \/ Reset
    /\ UNCHANGED backendVars

Backend(t) ==
    TriggerFails(t) \/ Trigger(t) \/ Wake(t) \/ Collect(t) \/ CollectFails(t)

BackendNext ==
    \/ \E c \in Callers : Request(c)
    \/ Service
    \/ \E t \in Scans :
          \/ TriggerFails(t) \/ Trigger(t) \/ Wake(t)
          \/ Collect(t) \/ CollectFails(t)
    \/ RadioStarts
    \/ RadioDone

allVars == <<vars, backendVars>>

BackendSpec ==
    /\ BackendInit /\ [][BackendNext]_allVars
    \* Requests are answered or fail, and sleeping ends.
    /\ \A t \in Scans :
          /\ WF_allVars(Backend(t))
          /\ WF_allVars(Publish(t) /\ UNCHANGED backendVars)

-----------------------------------------------------------------------------
(* Properties                                                               *)

\* The types of the variables.
BackendTypeOK ==
    /\ TypeOK
    /\ radio \in BOOLEAN /\ held \in 0..MaxLists
    /\ step \in [Scans -> {"trigger", "asleep", "awake"}]
    /\ taken \in [Scans -> 0..MaxLists] /\ asked \in [Scans -> 0..MaxLists]
    /\ sought \in SUBSET Scans /\ late \in SUBSET Scans

\* A caller that was told Ok and reads networks holds a list that the radio
\* completed after it asked, whoever else scans in between: provided that the
\* radio did scan for the task they come from, and was done within its sleep.
\* The rest is luck: scan() does not find out that it took an older list.
FreshForCallerIfPrompt ==
    \A c \in Callers :
        (/\ reply[c] = "Results" /\ ticket[c] # 0
         /\ strays = {} /\ got[c] \in sought \ late)
            => taken[got[c]] > asked[ticket[c]]

\* The centre frequency, in MHz, of a channel of the 2.4 GHz band or, above
\* 14, of the 5 GHz band (IEEE 802.11).
CentreFrequency(k) ==
    CASE k = 14 -> 2484 [] k < 14 -> 2407 + 5 * k [] OTHER -> 5000 + 5 * k

\* What a line says of its network: the channel is that of the frequency, or 0
\* for one outside the 2.4 GHz band that the program does not know, and the
\* level is the line's, or 0 for one that is no level.
From(network, line) ==
    /\ line.columns >= 5
    /\ network.mac = line.mac /\ network.ssid = line.ssid
    /\ network.rssi = IF -32768 <= line.level /\ line.level <= 32767
                       THEN line.level ELSE 0
    /\ network.channel # 0 => CentreFrequency(network.channel) = line.frequency
    /\ network.channel = 0 => \A k \in 1..14 : CentreFrequency(k) # line.frequency

\* The networks on display are those of the well-formed lines of the list that
\* was taken, none left out and none made up.
NetworksMatchTheList ==
    scanResults # 0 =>
        LET list == Lists[taken[scanResults]]
            networks == Networks
        IN  /\ \A i \in DOMAIN networks :
                  \E j \in DOMAIN list : From(networks[i], list[j])
            /\ \A j \in DOMAIN list : list[j].columns >= 5 =>
                  \E i \in DOMAIN networks : From(networks[i], list[j])
=============================================================================
