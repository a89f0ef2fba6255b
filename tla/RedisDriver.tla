---------------------------- MODULE RedisDriver ----------------------------
(* cache.Redis (src/cache/redis.go): every operation sends one command, or    *)
(* one script, which the server executes atomically on its own clock.         *)
(*                                                                            *)
(* Durations of the program are counted in ticks; the server knows whole      *)
(* milliseconds only and has an expiry of its own: the millisecond a row      *)
(* expires in still shows it.  A row is what the server holds under a key,    *)
(* an answer is what the driver makes of the server's reply.                  *)
(*                                                                            *)
(* The text of a key is the sequence of its segments between colons.          *)
EXTENDS CacheTypes, Sequences

CONSTANT Milli      \* ticks of the program's clock per millisecond

ASSUME MilliAssumption == Milli \in Nat \ {0}

\* TrimRight(prefix, ":") drops the empty segments at the end.
Trimmed(prefix) ==
    SubSeq(prefix, 1, CHOOSE n \in 0 .. Len(prefix) :
                        /\ n = 0 \/ prefix[n] # ""
                        /\ \A i \in n + 1 .. Len(prefix) : prefix[i] = "")

Key(prefix, key) == Trimmed(prefix) \o key

ServerTime(now) == now \div Milli

NoRow == [present |-> FALSE, value |-> Text, when |-> 0]

Row(value, when) == [present |-> TRUE, value |-> value, when |-> when]

\* What is left of a row when the server's clock shows now.
Lookup(row, now) == IF row.present /\ row.when # 0 /\ ServerTime(now) > row.when
                    THEN NoRow ELSE row

\* What a command leaves under the key, and what the driver returns for it.
\* "refused" and "overflow" are error replies of the server.
Effect(row, out, value) == [row |-> row, out |-> out, value |-> value]

\* Mutant: a ttl below a millisecond is sent as 0.
TTLMillisFloor(ttl) == IF ttl > 0 THEN ttl \div Milli ELSE 0

\* Negative durations stay negative; no command tells them from 0.
redisTTLMillis(ttl) == IF ttl <= 0 THEN 0
                       ELSE IF ttl \div Milli = 0 THEN 1 ELSE ttl \div Milli

\* The server's expiry for PX and PEXPIRE.
Expiry(now, millis) == ServerTime(now) + millis

Get(row) == Effect(row, IF row.present THEN "ok" ELSE "miss", row.value)

\* PX 0 is an error of the server.
Set(row, value, ttl, now) ==
    IF ttl <= 0 THEN Effect(Row(value, 0), "ok", 0)
    ELSE IF redisTTLMillis(ttl) = 0 THEN Effect(row, "refused", 0)
    ELSE Effect(Row(value, Expiry(now, redisTTLMillis(ttl))), "ok", 0)

\* Mutant: the script forgets the DEL.
TakeNoDel(row) == Get(row)

Take(row) == [Get(row) EXCEPT !.row = NoRow]

Exists(row) == Effect(row, "ok", IF row.present THEN 1 ELSE 0)

\* INCRBY reads a missing key as 0.
Counter(row) == IF row.present THEN row.value ELSE 0

\* The script's second step.  Mutant: PEXPIRE runs whatever the ttl; with 0 it
\* deletes the key.
ExpireAlways(row, ttl, now) ==
    IF redisTTLMillis(ttl) > 0 THEN [row EXCEPT !.when = Expiry(now, redisTTLMillis(ttl))]
    ELSE NoRow

ExpireIfPositive(row, ttl, now) ==
    IF redisTTLMillis(ttl) > 0 THEN [row EXCEPT !.when = Expiry(now, redisTTLMillis(ttl))]
    ELSE row

\* INCRBY keeps the expiry of the row and refuses to leave the int64 range.
Increment(row, delta, ttl, now) ==
    IF Counter(row) = Text THEN Effect(row, "refused", 0)
    ELSE LET next == Counter(row) + delta
         IN IF next \notin Int64 THEN Effect(row, "overflow", 0)
            ELSE Effect(ExpireIfPositive(Row(next, row.when), ttl, now), "ok", next)

\* PTTL answers -2 without a row and -1 without an expiry; the driver returns
\* ErrMiss for the first and 0 for the second.
TTL(row, now) ==
    IF ~row.present THEN Effect(row, "miss", 0)
    ELSE Effect(row, "ok", IF row.when = 0 THEN 0 ELSE (row.when - ServerTime(now)) * Milli)

Delete(row) == Effect(NoRow, "ok", 0)

\* The connection may fail before the server saw the command, or after it
\* executed it: the caller gets an error either way.
Outcomes(row, effect) == {effect, Effect(row, "lost", 0), Effect(effect.row, "lost", 0)}
=============================================================================
