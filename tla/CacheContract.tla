--------------------------- MODULE CacheContract ---------------------------
(* What the cache.Cache interface promises its callers, whatever the driver:  *)
(* at any time the store holds unexpired entries and nothing else; Take and   *)
(* Increment are atomic, and their replies follow from the entry the key      *)
(* holds at that moment; a counter's expiry moves only when a ttl is given.   *)
(* It is a cache: an entry may also go at any time (eviction), and a plain    *)
(* read may miss.                                                             *)
EXTENDS CacheTypes

CONSTANTS Clients, TTLs, Deltas

VARIABLES store, clock, reply

vars == <<store, clock, reply>>

Gone == [present |-> FALSE, value |-> Text, expiresAt |-> 0]

Entry(v, e) == [present |-> TRUE, value |-> v, expiresAt |-> e]

\* Only Take and Increment promise anything about what they return.
Quiet == [op |-> "quiet", out |-> "ok", value |-> 0]

Reply(op, out, value) == [op |-> op, out |-> out, value |-> value]

Answer(c, r) == reply' = [reply EXCEPT ![c] = r]

Init == /\ store = [k \in Keys |-> Gone]
        /\ clock = 1
        /\ reply = [c \in Clients |-> Quiet]

(* An unexpired entry replaces whatever the key held. *)
Write(c, k) == /\ store' = [store EXCEPT ![k] = Entry(store'[k].value, store'[k].expiresAt)]
               /\ ~Expired(store'[k].expiresAt, clock)
               /\ Answer(c, Quiet)
               /\ UNCHANGED clock

(* Delete, eviction, or a write that is already past its expiry. *)
Remove(c, k) == /\ store' = [store EXCEPT ![k] = Gone]
                /\ Answer(c, Quiet)
                /\ UNCHANGED clock

Read(c) == Answer(c, Quiet) /\ UNCHANGED <<store, clock>>

Take(c, k) ==
    /\ Answer(c, IF store[k].present THEN Reply("Take", "ok", store[k].value)
                                     ELSE Reply("Take", "miss", 0))
    /\ store' = [store EXCEPT ![k] = Gone]
    /\ UNCHANGED clock

Current(k) == IF store[k].present THEN store[k].value ELSE 0

Increment(c, k, delta, ttl) ==
    /\ Current(k) # Text
    /\ LET next == Wrap(Current(k) + delta)
       IN /\ Answer(c, Reply("Increment", "ok", next))
          /\ store' = [store EXCEPT ![k] =
                         Entry(next, IF ttl > 0 THEN clock + ttl ELSE @.expiresAt)]
    /\ UNCHANGED clock

IncrementFail(c, k) ==
    /\ Current(k) = Text
    /\ Answer(c, Reply("Increment", "error", 0))
    /\ UNCHANGED <<store, clock>>

(* An entry is gone at the very tick that reaches its expiry. *)
Tick == /\ clock' = clock + 1
        /\ store' = [k \in Keys |-> IF Expired(store[k].expiresAt, clock + 1)
                                    THEN Gone ELSE store[k]]
        /\ UNCHANGED reply

Next == \/ Tick
        \/ \E c \in Clients :
             \/ Read(c)
             \/ \E k \in Keys :
                  \/ Write(c, k) \/ Remove(c, k) \/ Take(c, k) \/ IncrementFail(c, k)
                  \/ \E d \in Deltas, ttl \in TTLs : Increment(c, k, d, ttl)

Spec == Init /\ [][Next]_vars
=============================================================================
