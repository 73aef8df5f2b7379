------------------------- MODULE MCConnectionService -------------------------
(* Small instances of ConnectionService for TLC.                            *)
EXTENDS ConnectionService, TLC

CONSTANTS c1, c2, s1, s2

MCCallers == {c1, c2}
MCSsids == {s1, s2}

\* Callers and networks are interchangeable in every safety property.
Symmetry == Permutations(MCCallers) \cup Permutations(MCSsids)
=============================================================================
