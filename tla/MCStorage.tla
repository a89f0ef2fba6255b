----------------------------- MODULE MCStorage -----------------------------
(* A small instance of Storage for TLC: a local default disk and a bucket,    *)
(* two local disks, a single disk, two disks without a default, or no disk.   *)
EXTENDS Storage

CONSTANTS t1, t2

MCThreads == {t1, t2}
MCConfigs == {[backends |-> [main |-> "local", avatar |-> "upyun", cdn |-> "external"],
               default |-> "main"],
              [backends |-> [main |-> "local", avatar |-> "local"], default |-> "main"],
              [backends |-> [avatar |-> "local"], default |-> ""],
              [backends |-> [main |-> "local", cdn |-> "external"], default |-> ""],
              [backends |-> <<>>, default |-> "main"]}
MCNames == {Name(0, <<"a">>), Name(1, <<"b", "..", "a">>), Name(0, <<"..", "a">>)}
MCDirs == {<<>>, <<"avatar">>}
MCGenerated == <<"g1", "g2", "g3">>
MCSizes == {1, 2}
MCLimits == {0, 2}
Symmetry == Permutations(MCThreads)
=============================================================================
