------------------------------ MODULE MCBleScan ------------------------------
(* Small instances of BleScan for TLC.                                      *)
EXTENDS BleScan, TLC

CONSTANTS c1, c2, u1

\* The centrals are interchangeable in every safety property.
Symmetry == Permutations({c1, c2})

\* With chunks of two bytes: a text that ends inside a chunk, and one that ends
\* with a chunk.
MCLength == [t \in 1..MaxScans |-> IF t = 1 THEN 3 ELSE 4]
=============================================================================
