------------------------- MODULE MCServiceLifecycle --------------------------
(* Small instances of ServiceLifecycle for TLC.                             *)
EXTENDS ServiceLifecycle

CONSTANTS a, b

Absent == [installed |-> FALSE, ble |-> FALSE, secret |-> FALSE, unix |-> FALSE,
           activated |-> FALSE]
Only(transport) == [Absent EXCEPT !.installed = TRUE, ![transport] = TRUE]
Both == [Only("unix") EXCEPT !.ble = TRUE, !.secret = TRUE]

Kinds ==
    {Absent, [Absent EXCEPT !.installed = TRUE], Only("ble"),
     [Only("ble") EXCEPT !.secret = TRUE], Only("unix"), Both,
     [Both EXCEPT !.activated = TRUE]}

\* One program of any kind, and two that make their listeners at one path.
MCDeployments ==
    {[i \in {a, b} |-> IF i = a THEN k ELSE Absent] : k \in Kinds}
    \cup {[i \in {a, b} |-> IF i = a THEN k ELSE Only("unix")] :
              k \in {Only("unix"), Both}}
=============================================================================
