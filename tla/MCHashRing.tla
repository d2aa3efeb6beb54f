----------------------------- MODULE MCHashRing -----------------------------
(* A small ring for TLC.                                                   *)
EXTENDS HashRing, TLC

\* The nodes differ in nothing but where crc puts their points.
Symmetry == Permutations(Address)
=============================================================================
