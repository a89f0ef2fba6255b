---------------------------- MODULE MCRedisConn ----------------------------
(* A small instance of RedisConn for TLC. *)
EXTENDS RedisConn

CONSTANTS t1, t2

MCThreads == {t1, t2}
MCReplyKinds == {"ok", "nil", "error"}
=============================================================================
