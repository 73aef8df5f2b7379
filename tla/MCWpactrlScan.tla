---------------------------- MODULE MCWpactrlScan ----------------------------
(* Small instances of WpactrlScan for TLC.                                  *)
EXTENDS WpactrlScan, TLC

CONSTANTS c1, c2

MCCallers == {c1, c2}

\* Two lines may be of one network, and a name may be empty.
AP(n, mhz, dbm) ==
    [columns |-> 5, mac |-> n, frequency |-> mhz, level |-> dbm, ssid |-> n % 3]

\* A line that was cut off.
Torn(n) == [AP(n, 2412, -50) EXCEPT !.columns = 3]

\* Channels of both bands, frequencies between and above them, and a frequency
\* and a level that do not fit into their types.
MCLists ==
    0 :> <<>>
    @@ 1 :> <<AP(1, 2472, -50), AP(2, 2484, -90), AP(3, 5500, 0),
              AP(4, 5825, -60), AP(5, 2479, -50), AP(6, 67948, -70)>>
    @@ 2 :> <<Torn(1), AP(2, 2437, -40000), Torn(3), AP(4, 5180, -1)>>

\* The table, over all that a u16 holds; it has the whole 2.4 GHz band.
ASSUME TableIsRight ==
    /\ \A f \in 0..65535 : ChannelOf(f) # 0 => CentreFrequency(ChannelOf(f)) = f
    /\ \A k \in 1..14 : ChannelOf(CentreFrequency(k)) = k
=============================================================================
