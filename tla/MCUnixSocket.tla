---------------------------- MODULE MCUnixSocket ----------------------------
(* Small instances of UnixSocket for TLC.                                   *)
EXTENDS UnixSocket, TLC

CONSTANTS c1, c2, s1

\* The clients are interchangeable in every safety property.
Symmetry == Permutations({c1, c2})
=============================================================================
