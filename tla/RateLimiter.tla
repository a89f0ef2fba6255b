---------------------------- MODULE RateLimiter ----------------------------
(* cache.RateLimiter (src/cache/rate_limit.go) on a Memory store, its default *)
(* store.  Hit is an Increment followed by a TTL, Peek a Get followed by a    *)
(* TTL, Reset a Delete; the steps of the store are those of MemoryCache, and  *)
(* other goroutines run between any two of them.  The store is the            *)
(* application's own, so another component may write to the limiter's key.    *)
EXTENDS CacheTypes

CONSTANTS
    Threads, MaxClock, MaxWrites,       \* of the store
    Inputs,     \* the values other components store under the limiter's keys
    TTLs,       \* and the ttl arguments they pass
    Limit,      \* the limit every call passes
    Windows     \* the window arguments of Hit

ASSUME LimiterAssumption == /\ Limit \in Nat
                            /\ Windows \subseteq Int
                            /\ Inputs \subseteq Values
                            /\ TTLs \subseteq Int
                            /\ MaxClock \in Nat \ {0}
                            /\ MaxWrites \in Nat

\* A number another component stores under a key is a number of hits, and no
\* counter comes near the end of the int64 range.
ASSUME CountAssumption ==
    /\ MaxWrites <= MaxInt
    /\ \A v \in Inputs : v # Text => 0 <= v /\ v + MaxWrites <= MaxInt

VARIABLES
    items, clock, call, ret, stamps, hist,      \* the store's
    lim,        \* where each goroutine is inside Hit or Peek
    result,     \* the last RateLimitResult of each goroutine
    hits,       \* history: the hits of each key that should still count
    drift       \* history: what stale sweeps have done to the counter of each key

\* The limiter is one of the users of the store: it counts by one, with its
\* windows as the ttl.
Store == INSTANCE MemoryCache WITH TTLs <- TTLs \union Windows, Deltas <- {1}

limVars == <<lim, result>>

storeVars == <<items, clock, call, ret, stamps, hist>>

vars == <<storeVars, lim, result, hits, drift>>

\* The counter of a key is as the hits left it, has lost hits to a stale
\* sweep, or was started again after one with no expiry.
Drifts == {"none", "short", "endless"}

\* Where a goroutine is: count is what it read, truth and drift are history,
\* the hits that counted when it read its counter and that counter's drift.
Places == [at : {"idle", "counted", "get", "ttl"}, op : {"none", "Hit", "Peek"},
           key : Keys \union {"none"}, count : Int, truth : Nat, drift : Drifts]

None == [at |-> "idle", op |-> "none", key |-> "none",
         count |-> 0, truth |-> 0, drift |-> "none"]

Results == [op : {"none", "Hit", "Peek"}, out : {"ok", "error"},
            count : Int, truth : Nat, drift : Drifts]

\* RateLimitResult, with the truth and the drift of the call that made it.
Result(op, out, l) ==
    [op |-> op, out |-> out, count |-> l.count, truth |-> l.truth, drift |-> l.drift]

\* Mutant: the request that would reach the limit is refused too.
ExceededEarly(r) == Limit > 0 /\ r.count + 1 >= Limit

\* RateLimitResult.Exceeded
Exceeded(r) == Limit > 0 /\ r.count >= Limit

(* The reference the counter is measured against: every Hit counts, and each  *)
(* one with a positive window restarts the window; a number that another      *)
(* component stores under the key stands for that many hits.                  *)
Open(h) == h.counting /\ ~Expired(h.expiresAt, clock)

NoHits == [counting |-> FALSE, count |-> 0, expiresAt |-> 0]

Hits(count, expiresAt) == [counting |-> TRUE, count |-> count, expiresAt |-> expiresAt]

OneMore(h, window) ==
    Hits(IF Open(h) THEN h.count + 1 ELSE 1,
         IF window > 0 THEN clock + window ELSE IF Open(h) THEN h.expiresAt ELSE 0)

Stored(item) == IF item.value = Text THEN NoHits ELSE Hits(item.value, item.expiresAt)

Truth(k) == IF Open(hits[k]) THEN hits[k].count ELSE 0

\* What the next Hit would build on.
Counted(k) == IF Store!Live(items[k], clock) /\ items[k].value # Text
              THEN items[k].value ELSE 0

Init == /\ Store!Init
        /\ lim = [t \in Threads |-> None]
        /\ result = [t \in Threads |-> Result("none", "ok", None)]
        /\ hits = [k \in Keys |-> NoHits]
        /\ drift = [k \in Keys |-> "none"]

Free(t) == lim[t].at = "idle" /\ call[t].at = "idle"

\* A Hit without a window, on a key whose counter was swept within a window:
\* the counter starts again with no expiry and outlives the window.
Escapes(k, window) == /\ drift[k] = "short"
                      /\ window <= 0
                      /\ ~Store!Live(items[k], clock)
                      /\ Open(hits[k]) /\ hits[k].expiresAt # 0

-----------------------------------------------------------------------------
(* Hit: limiter.store.Increment(ctx, fullKey, 1, window) ... *)
Hit(t, k, window) ==
    /\ Free(t)
    /\ Store!Increment(t, k, 1, window)
    /\ hits' = [hits EXCEPT ![k] = OneMore(@, window)]
    /\ drift' = [drift EXCEPT ![k] = IF Escapes(k, window) THEN "endless" ELSE @]
    /\ lim' = [lim EXCEPT ![t] = [at |-> "counted", op |-> "Hit", key |-> k,
                                  count |-> ret'[t].value, truth |-> hits'[k].count,
                                  drift |-> drift'[k]]]
    /\ UNCHANGED result

HitFail(t, k) ==
    /\ Free(t)
    /\ Store!IncrementFail(t, k)
    /\ result' = [result EXCEPT ![t] = Result("Hit", "error", None)]
    /\ UNCHANGED <<lim, hits, drift>>

(* ... then limiter.store.TTL, whose miss is not an error. *)
HitTTL(t) ==
    /\ lim[t].at = "counted"
    /\ Store!TTL(t, lim[t].key)
    /\ lim' = [lim EXCEPT ![t].at = "ttl"]
    /\ UNCHANGED <<result, hits, drift>>

Peek(t, k) ==
    /\ Free(t)
    /\ Store!Get(t, k)
    /\ lim' = [lim EXCEPT ![t] = [at |-> "get", op |-> "Peek", key |-> k,
                                  count |-> 0, truth |-> Truth(k), drift |-> drift[k]]]
    /\ UNCHANGED <<result, hits, drift>>

(* Peek after its Get: a miss counts zero, bytes that do not parse are an     *)
(* error, a number is followed by the TTL call.                               *)
PeekMiss(t) ==
    /\ lim[t].at = "get" /\ call[t].at = "idle"
    /\ ret[t].out = "miss"
    /\ result' = [result EXCEPT ![t] = Result("Peek", "ok", lim[t])]
    /\ lim' = [lim EXCEPT ![t] = None]
    /\ UNCHANGED <<storeVars, hits, drift>>

PeekFail(t) ==
    /\ lim[t].at = "get" /\ call[t].at = "idle"
    /\ ret[t].out = "ok" /\ ret[t].value = Text
    /\ result' = [result EXCEPT ![t] = Result("Peek", "error", None)]
    /\ lim' = [lim EXCEPT ![t] = None]
    /\ UNCHANGED <<storeVars, hits, drift>>

\* Mutant: the error of ParseInt is not looked at.
PeekTTLUnparsed(t) ==
    /\ lim[t].at = "get" /\ call[t].at = "idle"
    /\ ret[t].out = "ok"
    /\ Store!TTL(t, lim[t].key)
    /\ lim' = [lim EXCEPT ![t].at = "ttl", ![t].count = ret[t].value]
    /\ UNCHANGED <<result, hits, drift>>

PeekTTL(t) ==
    /\ lim[t].at = "get" /\ call[t].at = "idle"
    /\ ret[t].out = "ok" /\ ret[t].value # Text
    /\ Store!TTL(t, lim[t].key)
    /\ lim' = [lim EXCEPT ![t].at = "ttl", ![t].count = ret[t].value]
    /\ UNCHANGED <<result, hits, drift>>

(* Hit and Peek return once TTL has, whatever it answered. *)
Finish(t) ==
    /\ lim[t].at = "ttl" /\ call[t].at = "idle"
    /\ result' = [result EXCEPT ![t] = Result(lim[t].op, "ok", lim[t])]
    /\ lim' = [lim EXCEPT ![t] = None]
    /\ UNCHANGED <<storeVars, hits, drift>>

Reset(t, k) ==
    /\ Free(t)
    /\ Store!Delete(t, k)
    /\ hits' = [hits EXCEPT ![k] = NoHits]
    /\ drift' = [drift EXCEPT ![k] = "none"]
    /\ UNCHANGED limVars

(* Another component writes to the key through the same store. *)
ForeignSet(t, k) ==
    /\ Free(t)
    /\ \E v \in Inputs, ttl \in TTLs : Store!Set(t, k, v, ttl)
    /\ UNCHANGED <<lim, result, hits, drift>>

ForeignStore(t) ==
    /\ Store!SetStore(t)
    /\ hits' = [hits EXCEPT ![call[t].key] = Stored(call[t].item)]
    /\ drift' = [drift EXCEPT ![call[t].key] = "none"]
    /\ UNCHANGED limVars

(* The inner steps of Get and TTL. *)
StoreCheck(t) ==
    /\ Store!GetCheck(t) \/ Store!TTLCheck(t)
    /\ UNCHANGED <<lim, result, hits, drift>>

StoreDrop(t) ==
    /\ Store!DropExpired(t)
    /\ drift' = [drift EXCEPT ![call[t].key] =
                    IF Store!Live(items[call[t].key], clock) THEN "short" ELSE @]
    /\ UNCHANGED <<lim, result, hits>>

Tick == Store!Tick /\ UNCHANGED <<lim, result, hits, drift>>

Next == \/ Tick
        \/ \E t \in Threads :
             \/ HitTTL(t) \/ PeekMiss(t) \/ PeekFail(t) \/ PeekTTL(t) \/ Finish(t)
             \/ ForeignStore(t) \/ StoreCheck(t) \/ StoreDrop(t)
             \/ \E k \in Keys : \/ HitFail(t, k) \/ Peek(t, k) \/ Reset(t, k)
                                \/ ForeignSet(t, k)
                                \/ \E w \in Windows : Hit(t, k, w)

Spec == Init /\ [][Next]_vars

-----------------------------------------------------------------------------
\* Types of the store (memory.go) and of the results of Hit and Peek.
TypeOK == /\ Store!TypeOK
          /\ lim \in [Threads -> Places]
          /\ result \in [Threads -> Results]
          /\ hits \in [Keys -> [counting : BOOLEAN, count : Nat, expiresAt : Nat]]
          /\ drift \in [Keys -> Drifts]

(* Nobody is refused without cause: a result that Exceeded (rate_limit.go:18) *)
(* was read while at least Limit hits of the current window counted, however  *)
(* the calls, the expiry of the window and foreign writes interleave.  Stale  *)
(* sweeps (memory.go:37-39, 136-138) lose hits but never add one, with one    *)
(* exception: a Hit without a window that follows the sweep starts a counter  *)
(* that does not expire with the window, since Increment (memory.go:93-112)   *)
(* takes the expiry from the item it no longer finds.                         *)
ExceededIsDeserved ==
    \A t \in Threads : Exceeded(result[t]) /\ result[t].drift # "endless"
                         => result[t].truth >= Limit

(* The counter in the store is exact - every hit of the window counts once -  *)
(* unless a reader's second, delayed critical section (memory.go:37-39,       *)
(* 136-138) deleted a counter that was reborn after the reader looked.        *)
ExactUnlessSwept == \A k \in Keys : drift[k] = "none" => Counted(k) = Truth(k)

(* README.md:40-42 promises "atomic counters through Increment/TTL for simple *)
(* rate-limit and retry counters": once Limit hits of a window have counted,  *)
(* every further Hit is reported as exceeded.                                 *)
LimitEnforced ==
    \A t \in Threads : result[t].op = "Hit" /\ result[t].out = "ok" /\ Limit > 0
                         /\ result[t].truth >= Limit
                       => Exceeded(result[t])
=============================================================================
