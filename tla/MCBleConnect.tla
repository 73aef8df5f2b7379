---------------------------- MODULE MCBleConnect ----------------------------
(* Small instances of BleConnect for TLC.                                   *)
EXTENDS BleConnect, TLC

CONSTANTS c1, c2, n1, n2

\* Centrals, and networks whose names are cut alike, are interchangeable in
\* every safety property.
Symmetry == Permutations({c1, c2}) \cup Permutations({n1, n2})
=============================================================================
