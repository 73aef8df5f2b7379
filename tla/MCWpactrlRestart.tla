-------------------------- MODULE MCWpactrlRestart --------------------------
(* Small instances of WpactrlRestart for TLC.                               *)
EXTENDS WpactrlRestart, TLC

CONSTANTS c1, c2

\* The callers are interchangeable in every safety property.
Symmetry == Permutations({c1, c2})
=============================================================================
