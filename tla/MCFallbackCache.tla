-------------------------- MODULE MCFallbackCache --------------------------
(* Small instances of FallbackCache for TLC. *)
EXTENDS FallbackCache, TLC

CONSTANTS k1, t1, t2

MCKeys == {k1}
MCThreads == {t1, t2}
MCInputs == {1, Text}
MCMinInt == -1
Both == {"primary", "fallback"}
NoStore == {}
Symmetry == Permutations(MCThreads)
=============================================================================
