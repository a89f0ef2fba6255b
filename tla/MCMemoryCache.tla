--------------------------- MODULE MCMemoryCache ---------------------------
(* A small instance of MemoryCache for TLC. *)
EXTENDS MemoryCache, TLC

CONSTANTS k1, t1, t2

MCKeys == {k1}
MCThreads == {t1, t2}
MCTTLs == {0, 1}
MCInputs == {1, Text}
MCDeltas == {1}
MCMinInt == -1
Symmetry == Permutations(MCThreads)
=============================================================================
