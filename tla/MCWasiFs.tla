------------------------------- MODULE MCWasiFs -------------------------------
(***************************************************************************)
(* Two files, one of two bytes and an empty one.                           *)
(***************************************************************************)
EXTENDS WasiFs, TLC

CONSTANTS long, short

MCSize == [real \in RealPaths |-> IF real = long THEN 2 ELSE 0]

\* Threads and virtual paths are interchangeable.
Symmetry == Permutations(Threads) \cup Permutations(VirtualPaths)
===============================================================================
