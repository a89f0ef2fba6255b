-------------------------- MODULE MCDatabaseCache --------------------------
(* Small instances of DatabaseCache for TLC. *)
EXTENDS DatabaseCache

CONSTANTS k1, t1, t2

MCKeys == {k1}
MCThreads == {t1, t2}
MCInputs == {Text}
MCTTLs == {0, 1}
MCDeltas == {1}
MCMinInt == -2
MCDrivers == {"mysql", "sqlite"}
MCPoolSizes == {1, 2}
=============================================================================
