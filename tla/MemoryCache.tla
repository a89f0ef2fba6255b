---------------------------- MODULE MemoryCache ----------------------------
(* cache.Memory (src/cache/memory.go) used by several goroutines.             *)
(*                                                                            *)
(* Take, Increment and Delete hold mu throughout, so each is one step.  Set   *)
(* reads the clock before it takes the lock.  Get, Exists and TTL read the    *)
(* item under a read lock, release it, compare the copy with the clock, and   *)
(* take the lock a second time to delete the key when the copy has expired:   *)
(* three steps between which the other goroutines run.                        *)
EXTENDS CacheTypes

CONSTANTS
    Threads,    \* goroutines that share the cache
    Inputs,     \* the values clients pass to Set
    TTLs,       \* the ttl arguments clients pass
    Deltas,     \* the delta arguments of Increment
    MaxClock,   \* bound: the last time the clock shows
    MaxWrites   \* bound: how many items are ever created

ASSUME ArgumentAssumption == /\ Inputs \subseteq Values
                             /\ TTLs \subseteq Int
                             /\ Deltas \subseteq Int64

ASSUME BoundAssumption == MaxClock \in Nat \ {0} /\ MaxWrites \in Nat

VARIABLES
    items,      \* Memory.items; an absent key holds Absent
    clock,      \* what now() returns
    call,       \* where each goroutine is between two critical sections
    ret,        \* what the last call of each goroutine returned
    stamps,     \* history: how many items have been created
    hist        \* history: what became of each item, by its stamp

vars == <<items, clock, call, ret, stamps, hist>>

Stamps == 1 .. MaxWrites

\* A memoryItem.  The stamp is not in the code: it tells two writes of the
\* same bytes apart, and 0 marks the zero memoryItem of a failed map lookup.
Items == [value : Values, expiresAt : Nat, stamp : 0 .. MaxWrites]

Absent == [value |-> Text, expiresAt |-> 0, stamp |-> 0]

Found(item) == item.stamp # 0

Live(item, now) == Found(item) /\ ~Expired(item.expiresAt, now)

\* A goroutine inside Get, Exists, TTL or Set, after the step that filled in
\* item and before the one that at names.
Calls == [at : {"idle", "check", "drop", "store"},
          op : {"none", "Get", "Exists", "TTL", "Set"},
          key : Keys \union {"none"},
          item : Items]

Idle == [at |-> "idle", op |-> "none", key |-> "none", item |-> Absent]

\* Exists reports out = "ok" for true and "miss" for false.
Replies == [op : {"none", "Get", "Exists", "TTL", "Set", "Take", "Increment", "Delete"},
            out : {"ok", "miss", "error"},
            value : Int \union {Text}]

Reply(op, out, value) == [op |-> op, out |-> out, value |-> value]

\* expiresAt of the item; how often Take handed it out; the latest time an
\* operation used it; the earliest time one treated it as expired (0: never).
Histories == [expiresAt : Nat, takes : Nat, served : Nat, missed : Nat]

Unwritten == [expiresAt |-> 0, takes |-> 0, served |-> 0, missed |-> 0]

Created(h, s, expiresAt) == [h EXCEPT ![s].expiresAt = expiresAt]

Served(h, s) == [h EXCEPT ![s].served = clock]

Missed(h, s) == [h EXCEPT ![s].missed = IF @ = 0 THEN clock ELSE @]

\* An operation looked the item up and found it usable or not.
Looked(h, item, usable) ==
    IF ~Found(item) THEN h
    ELSE IF usable THEN Served(h, item.stamp)
    ELSE Missed(h, item.stamp)

-----------------------------------------------------------------------------
Init == /\ items = [k \in Keys |-> Absent]
        /\ clock = 1
        /\ call = [t \in Threads |-> Idle]
        /\ ret = [t \in Threads |-> Reply("none", "ok", 0)]
        /\ stamps = 0
        /\ hist = [s \in Stamps |-> Unwritten]

Return(t, reply) == /\ call' = [call EXCEPT ![t] = Idle]
                    /\ ret' = [ret EXCEPT ![t] = reply]

(* Get, Exists and TTL: the item is copied under the read lock. *)
ReadItem(t, op, k) ==
    /\ call[t].at = "idle"
    /\ IF Found(items[k])
       THEN /\ call' = [call EXCEPT ![t] = [at |-> "check", op |-> op,
                                            key |-> k, item |-> items[k]]]
            /\ UNCHANGED ret
       ELSE Return(t, Reply(op, "miss", 0))
    /\ UNCHANGED <<items, clock, stamps, hist>>

Get(t, k) == ReadItem(t, "Get", k)

Exists(t, k) == ReadItem(t, "Exists", k)

TTL(t, k) == ReadItem(t, "TTL", k)

(* Get and Exists compare the copy with the clock, holding no lock. *)
GetCheck(t) ==
    /\ call[t].at = "check"
    /\ call[t].op \in {"Get", "Exists"}
    /\ IF Expired(call[t].item.expiresAt, clock)
       THEN /\ call' = [call EXCEPT ![t].at = "drop"]
            /\ hist' = Missed(hist, call[t].item.stamp)
            /\ UNCHANGED ret
       ELSE /\ Return(t, Reply(call[t].op, "ok",
                               IF call[t].op = "Get" THEN call[t].item.value ELSE 0))
            /\ hist' = Served(hist, call[t].item.stamp)
    /\ UNCHANGED <<items, clock, stamps>>

\* Mutant: an off-by-one in the subtraction of TTL.
TTLCheckLate(t) ==
    /\ call[t].at = "check"
    /\ call[t].op = "TTL"
    /\ LET item == call[t].item
           ttl  == item.expiresAt - clock
       IN IF item.expiresAt # 0 /\ ttl < 0
          THEN /\ call' = [call EXCEPT ![t].at = "drop"]
               /\ hist' = Missed(hist, item.stamp)
               /\ UNCHANGED ret
          ELSE Return(t, Reply("TTL", "ok", ttl)) /\ hist' = Served(hist, item.stamp)
    /\ UNCHANGED <<items, clock, stamps>>

(* TTL does the same by subtraction: a remaining time <= 0 means expired. *)
TTLCheck(t) ==
    /\ call[t].at = "check"
    /\ call[t].op = "TTL"
    /\ LET item == call[t].item
           ttl  == item.expiresAt - clock
       IN IF item.expiresAt = 0
          THEN Return(t, Reply("TTL", "ok", 0)) /\ hist' = Served(hist, item.stamp)
          ELSE IF ttl <= 0
          THEN /\ call' = [call EXCEPT ![t].at = "drop"]
               /\ hist' = Missed(hist, item.stamp)
               /\ UNCHANGED ret
          ELSE Return(t, Reply("TTL", "ok", ttl)) /\ hist' = Served(hist, item.stamp)
    /\ UNCHANGED <<items, clock, stamps>>

(* The sweep of Get, Exists and TTL deletes whatever the key holds by now. *)
DropExpired(t) ==
    /\ call[t].at = "drop"
    /\ items' = [items EXCEPT ![call[t].key] = Absent]
    /\ Return(t, Reply(call[t].op, "miss", 0))
    /\ UNCHANGED <<clock, stamps, hist>>

(* Set builds the item, reading the clock for its expiry ... *)
Set(t, k, v, ttl) ==
    /\ call[t].at = "idle"
    /\ stamps < MaxWrites
    /\ stamps' = stamps + 1
    /\ LET e == Deadline(clock, ttl)
       IN /\ call' = [call EXCEPT ![t] =
                        [at |-> "store", op |-> "Set", key |-> k,
                         item |-> [value |-> v, expiresAt |-> e, stamp |-> stamps + 1]]]
          /\ hist' = Created(hist, stamps + 1, e)
    /\ UNCHANGED <<items, clock, ret>>

(* ... and stores it under the lock later, perhaps after it has expired. *)
SetStore(t) ==
    /\ call[t].at = "store"
    /\ items' = [items EXCEPT ![call[t].key] = call[t].item]
    /\ Return(t, Reply("Set", "ok", 0))
    /\ UNCHANGED <<clock, stamps, hist>>

\* The history of an item Take finds: handed out, or treated as expired.
Taken(h, item) ==
    IF Live(item, clock)
    THEN [Served(h, item.stamp) EXCEPT ![item.stamp].takes = @ + 1]
    ELSE Looked(h, item, FALSE)

\* Mutant: a Take that forgets to delete.
TakeKeeps(t, k) ==
    /\ call[t].at = "idle"
    /\ Return(t, IF Live(items[k], clock) THEN Reply("Take", "ok", items[k].value)
                                          ELSE Reply("Take", "miss", 0))
    /\ hist' = Taken(hist, items[k])
    /\ UNCHANGED <<items, clock, stamps>>

Take(t, k) ==
    /\ call[t].at = "idle"
    /\ Return(t, IF Live(items[k], clock) THEN Reply("Take", "ok", items[k].value)
                                          ELSE Reply("Take", "miss", 0))
    /\ hist' = Taken(hist, items[k])
    /\ items' = [items EXCEPT ![k] = Absent]
    /\ UNCHANGED <<clock, stamps>>

\* Mutant: the expired counter is dropped but item keeps its expiry.
BaseKeepsExpiry(item) ==
    IF Live(item, clock) THEN item ELSE [Absent EXCEPT !.expiresAt = item.expiresAt]

\* The item Increment starts from: an expired one is deleted and forgotten.
Base(item) == IF Live(item, clock) THEN item ELSE Absent

Current(item) == IF Found(item) THEN item.value ELSE 0

(* Increment keeps the expiry of a live counter unless it is given a ttl. *)
Increment(t, k, delta, ttl) ==
    /\ call[t].at = "idle"
    /\ stamps < MaxWrites
    /\ LET base == Base(items[k])
           next == Wrap(Current(base) + delta)
           e    == IF ttl > 0 THEN clock + ttl ELSE base.expiresAt
       IN /\ Current(base) # Text
          /\ items' = [items EXCEPT ![k] = [value |-> next, expiresAt |-> e,
                                            stamp |-> stamps + 1]]
          /\ hist' = Created(Looked(hist, items[k], Found(base)), stamps + 1, e)
          /\ Return(t, Reply("Increment", "ok", next))
    /\ stamps' = stamps + 1
    /\ UNCHANGED clock

(* strconv.ParseInt refuses the stored bytes: nothing is written. *)
IncrementFail(t, k) ==
    /\ call[t].at = "idle"
    /\ Current(Base(items[k])) = Text
    /\ hist' = Looked(hist, items[k], TRUE)
    /\ Return(t, Reply("Increment", "error", 0))
    /\ UNCHANGED <<items, clock, stamps>>

Delete(t, k) ==
    /\ call[t].at = "idle"
    /\ items' = [items EXCEPT ![k] = Absent]
    /\ Return(t, Reply("Delete", "ok", 0))
    /\ UNCHANGED <<clock, stamps, hist>>

(* Time passes between any two steps. *)
Tick == /\ clock < MaxClock
        /\ clock' = clock + 1
        /\ UNCHANGED <<items, call, ret, stamps, hist>>

Step(t) == \/ GetCheck(t) \/ TTLCheck(t) \/ DropExpired(t) \/ SetStore(t)
           \/ \E k \in Keys :
                \/ Get(t, k) \/ Exists(t, k) \/ TTL(t, k)
                \/ Take(t, k) \/ IncrementFail(t, k) \/ Delete(t, k)
                \/ \E ttl \in TTLs : \/ \E v \in Inputs : Set(t, k, v, ttl)
                                     \/ \E d \in Deltas : Increment(t, k, d, ttl)

Next == Tick \/ \E t \in Threads : Step(t)

Spec == Init /\ [][Next]_vars

-----------------------------------------------------------------------------
\* Types; counters stay in the int64 range that Increment wraps to (memory.go).
TypeOK == /\ items \in [Keys -> Items]
          /\ clock \in 1 .. MaxClock
          /\ call \in [Threads -> Calls]
          /\ ret \in [Threads -> Replies]
          /\ stamps \in 0 .. MaxWrites
          /\ hist \in [Stamps -> Histories]

(* However Gets, Takes, Sets and their sweeps interleave, Take hands out the  *)
(* value of one write at most once (memory.go:62-78 under one lock).          *)
TakeOnce == \A s \in Stamps : hist[s].takes <= 1

(* All operations agree on when an item expires: once one of them has treated *)
(* it as expired at some time, none uses it at that time or later.  Four      *)
(* copies of the expiry test (memory.go:36, 70, 96 and the subtraction of     *)
(* 134-135) must have the same boundary, and a counter reborn after expiry    *)
(* must not be built from the expired value.                                  *)
ServedBeforeExpired ==
    \A s \in Stamps : hist[s].served # 0 /\ hist[s].missed # 0
                        => hist[s].served < hist[s].missed

(* Expired items stay in the map until an operation sweeps them.  The view    *)
(* without them, and the replies of the two atomic operations, are all that   *)
(* the contract of cache.Cache speaks of.                                     *)
LiveView == [k \in Keys |->
    [present   |-> Live(items[k], clock),
     value     |-> IF Live(items[k], clock) THEN items[k].value ELSE Text,
     expiresAt |-> IF Live(items[k], clock) THEN items[k].expiresAt ELSE 0]]

AtomicReplies == [t \in Threads |->
    IF ret[t].op \in {"Take", "Increment"} THEN ret[t]
    ELSE [op |-> "quiet", out |-> "ok", value |-> 0]]

Contract == INSTANCE CacheContract
              WITH Clients <- Threads, store <- LiveView, reply <- AtomicReplies

(* memory.go implements the contract: an expired item still in the map is     *)
(* indistinguishable from an absent one, a Set that stores an item already    *)
(* expired while it waited for the lock leaves nothing behind, and the stale  *)
(* sweeps of Get and TTL cost at most an eviction.                            *)
ImplementsContract == Contract!Spec
=============================================================================
