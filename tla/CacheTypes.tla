----------------------------- MODULE CacheTypes -----------------------------
(* The data every cache driver of src/cache shares: keys, values, expiry      *)
(* times and the int64 arithmetic of counters.                                *)
(*                                                                            *)
(* A value is a byte string.  The drivers look inside it only in Increment,   *)
(* where strconv.ParseInt accepts the decimal form of an int64 and refuses    *)
(* everything else, so a value is either the int64 it parses to or Text.      *)
(*                                                                            *)
(* Time is a clock that starts at 1.  The expiry 0 stands for the zero        *)
(* time.Time, which every driver reads as "no expiry".                        *)
EXTENDS Integers

CONSTANTS
    Keys,       \* the keys clients use
    Text,       \* any byte string that is not the decimal form of an int64
    MinInt,     \* the int64 range, scaled down
    MaxInt

ASSUME RangeAssumption == /\ MinInt \in Int
                          /\ MaxInt \in Int
                          /\ MinInt < 0
                          /\ 0 < MaxInt

ASSUME TextAssumption == Text \notin Int

Int64 == MinInt .. MaxInt

Values == Int64 \union {Text}

\* Mutant: counters of unbounded width.
WrapNever(n) == n

\* Go's int64 addition wraps around silently.  The sum of two members of Int64
\* leaves the range by less than its width, so one wrap is enough.
Wrap(n) == IF n > MaxInt THEN n - (MaxInt - MinInt + 1)
           ELSE IF n < MinInt THEN n + (MaxInt - MinInt + 1)
           ELSE n

\* The expiry of a value written at time now: only a positive ttl sets one.
Deadline(now, ttl) == IF ttl > 0 THEN now + ttl ELSE 0

\* !expiresAt.IsZero() && !expiresAt.After(now): the test that Get, Take and
\* Increment each repeat.
Expired(expiresAt, now) == expiresAt # 0 /\ expiresAt <= now
=============================================================================
