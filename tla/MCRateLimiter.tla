--------------------------- MODULE MCRateLimiter ---------------------------
(* A small instance of RateLimiter for TLC. *)
EXTENDS RateLimiter, TLC

CONSTANTS k1, t1, t2

MCKeys == {k1}
MCThreads == {t1, t2}
MCInputs == {1, Text}
MCTTLs == {1}
MCWindows == {0, 1}
MCMinInt == -4
Symmetry == Permutations(MCThreads)
=============================================================================
