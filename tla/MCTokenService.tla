--------------------------- MODULE MCTokenService ---------------------------
(* A small instance of TokenService for TLC: three ticks to the millisecond,  *)
(* two milliseconds to the second.                                            *)
EXTENDS TokenService, TLC

CONSTANTS t1, t2, x1, c1

MCKeys == {<<"counters", "k">>}
MCPrefix == <<"app", "">>
MCThreads == {t1, t2}
MCTokens == {x1}
MCClients == {c1}
MCServiceTTLs == {-1, 1, 7}
MCRequested == {0, 1, 2}
MCInputs == {Text}
MCTTLs == {0, 1}
MCDeltas == {1}
MCMinInt == -1
Symmetry == Permutations(MCThreads)
=============================================================================
