------------------------- MODULE MemoryCacheProofs -------------------------
(* MemoryCache, for every set of keys and goroutines and every bound.         *)
EXTENDS MemoryCache, TLAPS

(* Wrapping keeps the sum of two int64 values in the int64 range. *)
LEMMA WrapInRange ==
    ASSUME NEW a \in Int64, NEW b \in Int64
    PROVE  Wrap(a + b) \in Int64
BY RangeAssumption DEF Wrap, Int64

(* Small facts about the records of the model. *)
LEMMA AbsentIsItem == Absent \in Items /\ ~Found(Absent)
BY BoundAssumption DEF Absent, Items, Values, Found

(* A goroutine that has returned is in a well-formed state. *)
LEMMA IdleIsCall == Idle \in Calls
BY AbsentIsItem DEF Idle, Calls

(* The expiry that Set and Increment compute from the clock is a time. *)
LEMMA DeadlineIsNat ==
    ASSUME NEW c \in Nat, NEW ttl \in Int
    PROVE  Deadline(c, ttl) \in Nat
BY DEF Deadline

(* The history operators stay within Histories. *)
LEMMA HistoryTypes ==
    ASSUME NEW h \in [Stamps -> Histories], NEW s \in Stamps, clock \in Nat
    PROVE  /\ Served(h, s) \in [Stamps -> Histories]
           /\ Missed(h, s) \in [Stamps -> Histories]
           /\ \A e \in Nat : Created(h, s, e) \in [Stamps -> Histories]
BY DEF Served, Missed, Created, Histories

(* The same for an operation that found its item usable or expired ... *)
LEMMA LookedType ==
    ASSUME NEW h \in [Stamps -> Histories], NEW item \in Items, NEW b \in BOOLEAN,
           clock \in Nat
    PROVE  Looked(h, item, b) \in [Stamps -> Histories]
<1>1. CASE ~Found(item) BY <1>1 DEF Looked
<1>2. CASE Found(item)
  <2>1. item.stamp \in Stamps BY <1>2, BoundAssumption DEF Found, Items, Stamps
  <2> QED BY <2>1, <1>2, HistoryTypes DEF Looked
<1> QED BY <1>1, <1>2

(* ... and for Take. *)
LEMMA TakenType ==
    ASSUME NEW h \in [Stamps -> Histories], NEW item \in Items, clock \in Nat
    PROVE  Taken(h, item) \in [Stamps -> Histories]
<1>1. CASE Live(item, clock)
  <2>1. item.stamp \in Stamps BY <1>1, BoundAssumption DEF Live, Found, Items, Stamps
  <2>2. Served(h, item.stamp) \in [Stamps -> Histories] BY <2>1, HistoryTypes
  <2> QED BY <2>1, <2>2, <1>1 DEF Taken, Histories
<1>2. CASE ~Live(item, clock) BY <1>2, LookedType DEF Taken
<1> QED BY <1>1, <1>2

(* An item that a map lookup found has a history. *)
LEMMA StampIsStamp ==
    ASSUME NEW item \in Items, Found(item)
    PROVE  item.stamp \in Stamps
BY BoundAssumption DEF Found, Items, Stamps

(* Every operation keeps the types.  Beside TypeOK, a goroutine between two   *)
(* critical sections holds an item it found, under a key.                     *)
Typed == /\ TypeOK
         /\ \A t \in Threads : call[t].at # "idle" => /\ call[t].key \in Keys
                                                     /\ Found(call[t].item)
                                                     /\ call[t].op # "none"

(* A reader that found its copy expired goes on to the sweep with the copy. *)
LEMMA GoDrop ==
    ASSUME call \in [Threads -> Calls], NEW t \in Threads,
           call' = [call EXCEPT ![t].at = "drop"]
    PROVE  /\ call' \in [Threads -> Calls]
           /\ call'[t].at = "drop"
           /\ call'[t].op = call[t].op
           /\ call'[t].key = call[t].key
           /\ call'[t].item = call[t].item
           /\ \A u \in Threads \ {t} : call'[u] = call[u]
BY DEF Calls

(* Returning from a call, with any reply, keeps the goroutines well-formed. *)
LEMMA ReturnType ==
    ASSUME Typed, NEW t \in Threads, NEW r \in Replies, Return(t, r)
    PROVE  /\ call' \in [Threads -> Calls]
           /\ ret' \in [Threads -> Replies]
           /\ call'[t] = Idle
           /\ \A u \in Threads \ {t} : call'[u] = call[u]
           /\ \A u \in Threads : call'[u].at # "idle" => /\ call'[u].key \in Keys
                                                       /\ Found(call'[u].item)
                                                       /\ call'[u].op # "none"
<1>1. /\ call \in [Threads -> Calls] /\ ret \in [Threads -> Replies]
      /\ call' = [call EXCEPT ![t] = Idle]
      /\ ret' = [ret EXCEPT ![t] = r]
  BY DEF Typed, TypeOK, Return
<1>2. /\ call' \in [Threads -> Calls] /\ ret' \in [Threads -> Replies]
      /\ call'[t] = Idle
      /\ \A u \in Threads \ {t} : call'[u] = call[u]
  BY <1>1, IdleIsCall
<1>3. Idle.at = "idle" BY DEF Idle
<1> QED BY <1>2, <1>3 DEF Typed

(* The initial state is well-formed ... *)
LEMMA TypedInit == Init => Typed
BY AbsentIsItem, IdleIsCall, BoundAssumption
DEF Init, Typed, TypeOK, Reply, Replies, Unwritten, Histories, Idle

(* ... and every step keeps it so. *)
LEMMA TypedStep == Typed /\ [Next]_vars => Typed'
<1> SUFFICES ASSUME Typed, [Next]_vars PROVE Typed'
  OBVIOUS
<1> USE DEF Typed
<1>0. clock \in Nat /\ stamps \in Nat BY BoundAssumption DEF TypeOK
<1>1. CASE UNCHANGED vars
  BY <1>1 DEF vars, TypeOK
<1>2. CASE Tick
  <2>1. clock' \in 1 .. MaxClock BY <1>2, BoundAssumption DEF Tick, TypeOK
  <2> QED BY <1>2, <2>1 DEF Tick, TypeOK
<1>3. ASSUME NEW t \in Threads, NEW k \in Keys, NEW op \in {"Get", "Exists", "TTL"},
             ReadItem(t, op, k)
      PROVE  Typed'
  <2>1. CASE Found(items[k])
    BY <1>3, <2>1 DEF ReadItem, TypeOK, Calls
  <2>2. CASE ~Found(items[k])
    <3>1. Reply(op, "miss", 0) \in Replies BY DEF Reply, Replies
    <3>2. Return(t, Reply(op, "miss", 0)) BY <1>3, <2>2 DEF ReadItem
    <3> QED BY <3>1, <3>2, ReturnType, <1>3 DEF ReadItem, TypeOK
  <2> QED BY <2>1, <2>2
<1>4. ASSUME NEW t \in Threads, GetCheck(t) PROVE Typed'
  <2> DEFINE r == Reply(call[t].op, "ok", IF call[t].op = "Get" THEN call[t].item.value ELSE 0)
  <2>1. call[t].item.stamp \in Stamps
    BY <1>4, StampIsStamp DEF GetCheck, TypeOK, Calls
  <2>2. r \in Replies BY DEF Reply, Replies, TypeOK, Calls, Items, Values, Int64
  <2>3. hist' \in [Stamps -> Histories]
    BY <1>4, <1>0, <2>1, HistoryTypes DEF GetCheck, TypeOK
  <2>4. CASE Expired(call[t].item.expiresAt, clock)
    BY <1>4, <2>3, <2>4, GoDrop DEF GetCheck, TypeOK
  <2>5. CASE ~Expired(call[t].item.expiresAt, clock)
    <3>1. Return(t, r) BY <1>4, <2>5 DEF GetCheck
    <3> HIDE DEF r
    <3> QED BY <3>1, <2>2, <2>3, ReturnType, <1>4 DEF GetCheck, TypeOK
  <2> QED BY <2>4, <2>5
<1>5. ASSUME NEW t \in Threads, TTLCheck(t) PROVE Typed'
  <2> DEFINE item == call[t].item
             r == Reply("TTL", "ok", item.expiresAt - clock)
  <2>1. item.stamp \in Stamps /\ item.expiresAt \in Nat
    BY <1>5, StampIsStamp DEF TTLCheck, TypeOK, Calls, Items
  <2>2. r \in Replies /\ Reply("TTL", "ok", 0) \in Replies
    BY <2>1, <1>0 DEF Reply, Replies
  <2>3. hist' \in [Stamps -> Histories]
    BY <1>5, <1>0, <2>1, HistoryTypes DEF TTLCheck, TypeOK
  <2>4. CASE item.expiresAt # 0 /\ item.expiresAt - clock <= 0
    BY <1>5, <2>3, <2>4, GoDrop DEF TTLCheck, TypeOK
  <2>5. CASE ~(item.expiresAt # 0 /\ item.expiresAt - clock <= 0)
    <3>1. PICK q \in Replies : Return(t, q) BY <1>5, <2>2, <2>5 DEF TTLCheck
    <3> QED BY <3>1, <2>3, ReturnType, <1>5 DEF TTLCheck, TypeOK
  <2> QED BY <2>4, <2>5
<1>6. ASSUME NEW t \in Threads, DropExpired(t) PROVE Typed'
  <2>1. Reply(call[t].op, "miss", 0) \in Replies
    BY DEF Reply, Replies, TypeOK, Calls
  <2> QED BY <2>1, <1>6, ReturnType, AbsentIsItem DEF DropExpired, TypeOK
<1>7. ASSUME NEW t \in Threads, SetStore(t) PROVE Typed'
  <2>1. Reply("Set", "ok", 0) \in Replies BY DEF Reply, Replies
  <2>2. call[t].item \in Items BY DEF TypeOK, Calls
  <2> QED BY <2>1, <2>2, <1>7, ReturnType DEF SetStore, TypeOK
<1>8. ASSUME NEW t \in Threads, NEW k \in Keys, NEW v \in Inputs, NEW ttl \in TTLs,
             Set(t, k, v, ttl)
      PROVE  Typed'
  <2> DEFINE e == Deadline(clock, ttl)
             item == [value |-> v, expiresAt |-> e, stamp |-> stamps + 1]
             c == [at |-> "store", op |-> "Set", key |-> k, item |-> item]
  <2>1. e \in Nat BY <1>0, DeadlineIsNat, ArgumentAssumption
  <2>2. stamps + 1 \in Stamps /\ stamps' \in 0 .. MaxWrites
    BY <1>8, <1>0, BoundAssumption DEF Set, Stamps
  <2> HIDE DEF e
  <2>3. item \in Items /\ Found(item)
    BY <2>1, <2>2, <1>0, ArgumentAssumption, BoundAssumption DEF Items, Stamps, Found
  <2>4. c \in Calls BY <2>3 DEF Calls
  <2>5. hist' \in [Stamps -> Histories]
    BY <1>8, <1>0, <2>1, <2>2, HistoryTypes DEF Set, TypeOK, e
  <2>6. call' = [call EXCEPT ![t] = c] BY <1>8 DEF Set, e
  <2>7. c.at = "store" /\ c.key \in Keys /\ Found(c.item) /\ c.op # "none"
    BY <2>3
  <2> HIDE DEF c
  <2> QED BY <1>8, <2>2, <2>4, <2>5, <2>6, <2>7 DEF Set, TypeOK
<1>9. ASSUME NEW t \in Threads, NEW k \in Keys, Take(t, k) PROVE Typed'
  <2>1. PICK r \in Replies : Return(t, r)
    BY <1>9 DEF Take, Reply, Replies, TypeOK, Items, Values, Int64
  <2>2. hist' \in [Stamps -> Histories] BY <1>9, <1>0, TakenType DEF Take, TypeOK
  <2> QED BY <2>1, <2>2, <1>9, ReturnType, AbsentIsItem DEF Take, TypeOK
<1>10. ASSUME NEW t \in Threads, NEW k \in Keys, NEW d \in Deltas, NEW ttl \in TTLs,
              Increment(t, k, d, ttl)
       PROVE  Typed'
  <2> DEFINE base == Base(items[k])
             next == Wrap(Current(base) + d)
             e == IF ttl > 0 THEN clock + ttl ELSE base.expiresAt
             item == [value |-> next, expiresAt |-> e, stamp |-> stamps + 1]
  <2>1. base \in Items BY AbsentIsItem DEF Base, TypeOK
  <2>2. next \in Int64
    <3>1. Current(base) \in Int64
      BY <1>10, <2>1, RangeAssumption DEF Increment, Current, Items, Values, Int64
    <3> QED BY <3>1, WrapInRange, ArgumentAssumption
  <2>3. e \in Nat BY <2>1, <1>0, ArgumentAssumption DEF Items
  <2>4. stamps + 1 \in Stamps /\ stamps' \in 0 .. MaxWrites
    BY <1>10, <1>0, BoundAssumption DEF Increment, Stamps
  <2> HIDE DEF base, next, e
  <2>5. item \in Items
    BY <2>2, <2>3, <2>4, BoundAssumption DEF Items, Stamps, Values
  <2>6. items' = [items EXCEPT ![k] = item] BY <1>10 DEF Increment, base, next, e
  <2>7. hist' = Created(Looked(hist, items[k], Found(base)), stamps + 1, e)
    BY <1>10 DEF Increment, base, next, e
  <2>8. Looked(hist, items[k], Found(base)) \in [Stamps -> Histories]
    BY <1>0, LookedType DEF Found, TypeOK
  <2>9. hist' \in [Stamps -> Histories]
    BY <2>3, <2>4, <2>7, <2>8, <1>0, HistoryTypes
  <2>10. Return(t, Reply("Increment", "ok", next)) BY <1>10 DEF Increment, base, next
  <2>11. Reply("Increment", "ok", next) \in Replies BY <2>2 DEF Reply, Replies, Int64
  <2> HIDE DEF item
  <2>12. items' \in [Keys -> Items] BY <2>5, <2>6 DEF TypeOK
  <2> QED BY <2>4, <2>9, <2>10, <2>11, <2>12, <1>10, ReturnType DEF Increment, TypeOK
<1>11. ASSUME NEW t \in Threads, NEW k \in Keys, IncrementFail(t, k) PROVE Typed'
  <2>1. Reply("Increment", "error", 0) \in Replies BY DEF Reply, Replies
  <2>2. hist' \in [Stamps -> Histories]
    BY <1>11, <1>0, LookedType DEF IncrementFail, TypeOK
  <2> QED BY <2>1, <2>2, <1>11, ReturnType DEF IncrementFail, TypeOK
<1>12. ASSUME NEW t \in Threads, NEW k \in Keys, Delete(t, k) PROVE Typed'
  <2>1. Reply("Delete", "ok", 0) \in Replies BY DEF Reply, Replies
  <2> QED BY <2>1, <1>12, ReturnType, AbsentIsItem DEF Delete, TypeOK
<1> QED
  BY <1>1, <1>2, <1>3, <1>4, <1>5, <1>6, <1>7, <1>8, <1>9, <1>10, <1>11, <1>12
  DEF Next, Step, Get, Exists, TTL

(* Every step of memory.go keeps the types of its state: counters stay in     *)
(* the int64 range by wrapping, and a goroutine between two critical sections *)
(* carries a copy of an item that was in the map.                             *)
THEOREM TypingInvariant == Spec => []Typed
BY TypedInit, TypedStep, PTL DEF Spec
-----------------------------------------------------------------------------
(* The inductive invariant behind TakeOnce and ServedBeforeExpired.  A stamp  *)
(* names one item for ever: its record is blank until the item is created,    *)
(* whoever holds the item (the map, a Set about to store it, a reader's copy) *)
(* sees the recorded expiry, and the items that may still be taken - those in *)
(* the map or about to be stored - are held in one place and untaken.         *)
Fresh == \A s \in Stamps : s > stamps => hist[s] = Unwritten

Recorded(item) == /\ item.stamp <= stamps
                  /\ item.expiresAt = hist[item.stamp].expiresAt

Dated == /\ \A k \in Keys : Found(items[k]) => Recorded(items[k])
         /\ \A t \in Threads : call[t].at # "idle" => Recorded(call[t].item)

Storing(t) == call[t].at = "store"

Untaken == /\ \A k \in Keys : Found(items[k]) => hist[items[k].stamp].takes = 0
           /\ \A t \in Threads : Storing(t) => hist[call[t].item.stamp].takes = 0

Unique == /\ \A k, l \in Keys : Found(items[k]) /\ items[k].stamp = items[l].stamp => k = l
          /\ \A t, u \in Threads :
                Storing(t) /\ Storing(u) /\ call[t].item.stamp = call[u].item.stamp => t = u
          /\ \A t \in Threads, k \in Keys :
                Storing(t) => items[k].stamp # call[t].item.stamp

\* Used only before its expiry, treated as expired only from its expiry on.
Timely(h) == \A s \in Stamps :
                /\ h[s].served # 0 /\ h[s].expiresAt # 0 => h[s].served < h[s].expiresAt
                /\ h[s].missed # 0 => h[s].expiresAt # 0 /\ h[s].expiresAt <= h[s].missed

IInv == Typed /\ Fresh /\ Dated /\ Untaken /\ Unique /\ Timely(hist) /\ TakeOnce

\* Looking at items created so far changes neither expiries nor takes.
Kept(h, g) == \A s \in Stamps : /\ g[s].takes = h[s].takes
                                /\ g[s].expiresAt = h[s].expiresAt
                                /\ s > stamps => g[s] = h[s]

(* Using an item before its expiry keeps the history consistent ... *)
LEMMA ServedKeeps ==
    ASSUME NEW h \in [Stamps -> Histories], NEW s \in Stamps, clock \in Nat, stamps \in Nat,
           s <= stamps, Timely(h), ~Expired(h[s].expiresAt, clock)
    PROVE  Timely(Served(h, s)) /\ Kept(h, Served(h, s))
<1> DEFINE g == Served(h, s)
<1>1. /\ g[s].served = clock
      /\ g[s].expiresAt = h[s].expiresAt
      /\ g[s].takes = h[s].takes
      /\ g[s].missed = h[s].missed
      /\ \A u \in Stamps \ {s} : g[u] = h[u]
  BY DEF Served, Histories
<1>2. \A u \in Stamps : h[u].expiresAt \in Nat BY DEF Histories
<1> HIDE DEF g
<1>3. Kept(h, g) BY <1>1 DEF Kept, Stamps
<1>4. Timely(g) BY <1>1, <1>2 DEF Timely, Expired
<1> QED BY <1>3, <1>4 DEF g

(* ... and so does treating it as expired from its expiry on ... *)
LEMMA MissedKeeps ==
    ASSUME NEW h \in [Stamps -> Histories], NEW s \in Stamps, clock \in Nat, stamps \in Nat,
           s <= stamps, Timely(h), Expired(h[s].expiresAt, clock)
    PROVE  Timely(Missed(h, s)) /\ Kept(h, Missed(h, s))
<1> DEFINE g == Missed(h, s)
<1>1. /\ g[s].missed = IF h[s].missed = 0 THEN clock ELSE h[s].missed
      /\ g[s].expiresAt = h[s].expiresAt
      /\ g[s].takes = h[s].takes
      /\ g[s].served = h[s].served
      /\ \A u \in Stamps \ {s} : g[u] = h[u]
  BY DEF Missed, Histories
<1> HIDE DEF g
<1>2. Kept(h, g) BY <1>1 DEF Kept, Stamps
<1>3. Timely(g) BY <1>1 DEF Timely, Expired
<1> QED BY <1>2, <1>3 DEF g

(* ... so a lookup that tests the expiry correctly does. *)
LEMMA LookedKeeps ==
    ASSUME NEW h \in [Stamps -> Histories], NEW item \in Items, NEW b \in BOOLEAN,
           clock \in Nat, stamps \in Nat, Timely(h),
           Found(item) => item.stamp <= stamps /\ item.expiresAt = h[item.stamp].expiresAt,
           b <=> Live(item, clock)
    PROVE  Timely(Looked(h, item, b)) /\ Kept(h, Looked(h, item, b))
<1>1. CASE ~Found(item) BY <1>1 DEF Looked, Kept
<1>2. CASE Found(item)
  <2>1. item.stamp \in Stamps BY <1>2, StampIsStamp
  <2>2. CASE b BY <1>2, <2>1, <2>2, ServedKeeps DEF Looked, Live
  <2>3. CASE ~b BY <1>2, <2>1, <2>3, MissedKeeps DEF Looked, Live
  <2> QED BY <2>2, <2>3
<1> QED BY <1>1, <1>2

(* The record of an item at its creation. *)
LEMMA CreatedFields ==
    ASSUME NEW h \in [Stamps -> Histories], NEW s \in Stamps, NEW e \in Nat
    PROVE  /\ Created(h, s, e)[s].expiresAt = e
           /\ Created(h, s, e)[s].takes = h[s].takes
           /\ Created(h, s, e)[s].served = h[s].served
           /\ Created(h, s, e)[s].missed = h[s].missed
           /\ \A u \in Stamps \ {s} : Created(h, s, e)[u] = h[u]
BY DEF Created, Histories

(* Nothing is created, and every holder holds what somebody held before: the  *)
(* shape of every step except Set, SetStore, Take and Increment.              *)
LEMMA NothingNew ==
    ASSUME IInv, Typed', stamps' = stamps, Timely(hist)', Kept(hist, hist'),
           \A k \in Keys : items'[k] = items[k] \/ items'[k] = Absent,
           \A t \in Threads :
              \/ call'[t] = call[t]
              \/ call'[t].at = "idle"
              \/ call'[t].at \in {"check", "drop"} /\ call[t].at # "idle"
                    /\ call'[t].item = call[t].item
              \/ call'[t].at \in {"check", "drop"}
                    /\ \E k \in Keys : Found(items[k]) /\ call'[t].item = items[k]
    PROVE  IInv'
<1>1. /\ \A k \in Keys : items[k] \in Items /\ (Found(items[k]) => items[k].stamp \in Stamps)
      /\ \A t \in Threads : call[t].at # "idle" => call[t].item.stamp \in Stamps
  BY StampIsStamp DEF IInv, Typed, TypeOK, Calls
<1>2. ~Found(Absent) BY AbsentIsItem
<1>3. \A t \in Threads : Storing(t)' => Storing(t) /\ call'[t] = call[t]
  BY DEF Storing
<1>4. Fresh' BY DEF IInv, Fresh, Kept
<1>5. Dated' BY <1>1, <1>2 DEF IInv, Dated, Recorded, Kept
<1>6. Untaken' BY <1>1, <1>2, <1>3 DEF IInv, Untaken, Kept, Storing
<1>7. Unique'
  <2>1. \A k \in Keys : items'[k] = items[k] \/ items'[k].stamp = 0
    BY DEF Absent
  <2>2. \A t \in Threads : Storing(t)' => call'[t].item.stamp # 0
    BY <1>3, BoundAssumption, <1>1 DEF Storing, Stamps
  <2> QED BY <1>3, <2>1, <2>2 DEF IInv, Unique, Found
<1>8. TakeOnce' BY DEF IInv, TakeOnce, Kept
<1> QED BY <1>4, <1>5, <1>6, <1>7, <1>8 DEF IInv

(* A step that creates item stamps + 1 after looking at older ones. *)
LEMMA OneNew ==
    ASSUME IInv, Typed', NEW g \in [Stamps -> Histories], NEW e \in Nat,
           stamps < MaxWrites, stamps' = stamps + 1,
           Timely(g), Kept(hist, g), hist' = Created(g, stamps + 1, e)
    PROVE  /\ Fresh'
           /\ Timely(hist)'
           /\ TakeOnce'
           /\ hist'[stamps + 1].takes = 0
           /\ hist'[stamps + 1].expiresAt = e
           /\ \A s \in Stamps : s <= stamps => /\ hist'[s].takes = hist[s].takes
                                            /\ hist'[s].expiresAt = hist[s].expiresAt
<1>0. stamps \in Nat /\ stamps + 1 \in Stamps
  BY BoundAssumption DEF IInv, Typed, TypeOK, Stamps
<1> DEFINE n == stamps + 1
<1>1. /\ hist'[n].expiresAt = e
      /\ hist'[n].takes = g[n].takes
      /\ hist'[n].served = g[n].served
      /\ hist'[n].missed = g[n].missed
      /\ \A u \in Stamps \ {n} : hist'[u] = g[u]
  BY <1>0, CreatedFields
<1>2. \A s \in Stamps : s > stamps => g[s] = Unwritten
  BY DEF IInv, Fresh, Kept
<1>3. g[n].takes = 0 /\ g[n].served = 0 /\ g[n].missed = 0
  BY <1>0, <1>2 DEF Unwritten
<1>4. Fresh' BY <1>0, <1>1, <1>2 DEF Fresh, Stamps
<1>5. Timely(hist)' BY <1>1, <1>3 DEF Timely
<1>6. TakeOnce'
  <2>1. \A s \in Stamps : g[s].takes <= 1 BY DEF IInv, TakeOnce, Kept
  <2> QED BY <1>1, <1>3, <2>1 DEF TakeOnce
<1>7. \A s \in Stamps : s <= stamps => /\ hist'[s].takes = hist[s].takes
                                       /\ hist'[s].expiresAt = hist[s].expiresAt
  BY <1>0, <1>1 DEF Kept, Stamps
<1> QED BY <1>1, <1>3, <1>4, <1>5, <1>6, <1>7

(* NewMemory returns an empty map, about which nothing has happened yet. *)
LEMMA IInvInit == Init => IInv
<1> SUFFICES ASSUME Init PROVE IInv OBVIOUS
<1>1. Typed
  BY AbsentIsItem, IdleIsCall, BoundAssumption
  DEF Init, Typed, TypeOK, Reply, Replies, Unwritten, Histories, Idle
<1>2. /\ \A k \in Keys : ~Found(items[k])
      /\ \A t \in Threads : call[t].at = "idle"
      /\ \A s \in Stamps : hist[s] = Unwritten
  BY AbsentIsItem DEF Init, Idle
<1>3. Fresh BY <1>2 DEF Fresh
<1>4. Dated BY <1>2 DEF Dated
<1>5. Untaken /\ Unique BY <1>2 DEF Untaken, Unique, Storing
<1>6. Timely(hist) /\ TakeOnce BY <1>2 DEF Timely, TakeOnce, Unwritten
<1> QED BY <1>1, <1>3, <1>4, <1>5, <1>6 DEF IInv

(* Every operation preserves the inductive invariant, one case per action. *)
LEMMA IInvStep == IInv /\ Typed' /\ [Next]_vars => IInv'
<1> SUFFICES ASSUME IInv, Typed', [Next]_vars PROVE IInv'
  OBVIOUS
<1>0. /\ clock \in Nat /\ stamps \in Nat
      /\ hist \in [Stamps -> Histories]
      /\ items \in [Keys -> Items]
      /\ call \in [Threads -> Calls]
      /\ Timely(hist)
      /\ \A k \in Keys : Found(items[k]) => items[k].stamp \in Stamps /\ Recorded(items[k])
      /\ \A t \in Threads : call[t].at # "idle" =>
            /\ call[t].key \in Keys
            /\ call[t].item \in Items
            /\ Found(call[t].item)
            /\ call[t].item.stamp \in Stamps
            /\ Recorded(call[t].item)
  BY StampIsStamp, BoundAssumption DEF IInv, Dated, Typed, TypeOK, Calls
<1>k. Kept(hist, hist) BY DEF Kept
<1>i. Idle.at = "idle" BY DEF Idle
<1>r. \A t \in Threads : \A r : Return(t, r) =>
         call'[t].at = "idle" /\ \A u \in Threads \ {t} : call'[u] = call[u]
  BY <1>0, <1>i DEF Return
<1>1. CASE UNCHANGED vars
  BY <1>1, <1>0, <1>k, NothingNew DEF vars
<1>2. CASE Tick
  BY <1>2, <1>0, <1>k, NothingNew DEF Tick
<1>3. ASSUME NEW t \in Threads, NEW k \in Keys, NEW op, ReadItem(t, op, k) PROVE IInv'
  <2>1. CASE Found(items[k])
    BY <2>1, <1>3, <1>0, <1>k, NothingNew DEF ReadItem
  <2>2. CASE ~Found(items[k])
    BY <2>2, <1>3, <1>0, <1>k, <1>r, NothingNew DEF ReadItem
  <2> QED BY <2>1, <2>2
<1>4. ASSUME NEW t \in Threads, GetCheck(t) PROVE IInv'
  <2>0. call[t].at # "idle" BY <1>4 DEF GetCheck
  <2>1. CASE Expired(call[t].item.expiresAt, clock)
    <3>1. call' = [call EXCEPT ![t].at = "drop"] /\ hist' = Missed(hist, call[t].item.stamp)
      BY <2>1, <1>4 DEF GetCheck
    <3>2. Timely(hist)' /\ Kept(hist, hist')
      BY <3>1, <2>0, <2>1, <1>0, MissedKeeps DEF Recorded, Timely
    <3> QED BY <3>1, <3>2, <2>0, <1>0, <1>4, GoDrop, NothingNew DEF GetCheck
  <2>2. CASE ~Expired(call[t].item.expiresAt, clock)
    <3>1. hist' = Served(hist, call[t].item.stamp) BY <2>2, <1>4 DEF GetCheck
    <3>2. Timely(hist)' /\ Kept(hist, hist')
      BY <3>1, <2>0, <2>2, <1>0, ServedKeeps DEF Recorded, Timely
    <3> QED BY <3>2, <2>2, <1>0, <1>4, <1>r, NothingNew DEF GetCheck
  <2> QED BY <2>1, <2>2
<1>5. ASSUME NEW t \in Threads, TTLCheck(t) PROVE IInv'
  <2> DEFINE item == call[t].item
  <2>0. call[t].at # "idle" /\ item.expiresAt \in Nat
    BY <1>5, <1>0 DEF TTLCheck, Calls, Items
  <2>1. CASE item.expiresAt # 0 /\ item.expiresAt - clock <= 0
    <3>1. call' = [call EXCEPT ![t].at = "drop"] /\ hist' = Missed(hist, item.stamp)
      BY <2>1, <1>5 DEF TTLCheck
    <3>2. Expired(item.expiresAt, clock) BY <2>0, <2>1, <1>0 DEF Expired
    <3>3. Timely(hist)' /\ Kept(hist, hist')
      BY <3>1, <3>2, <2>0, <1>0, MissedKeeps DEF Recorded, Timely
    <3> QED BY <3>1, <3>3, <2>0, <1>0, <1>5, GoDrop, NothingNew DEF TTLCheck
  <2>2. CASE ~(item.expiresAt # 0 /\ item.expiresAt - clock <= 0)
    <3>1. hist' = Served(hist, item.stamp) /\ \E r : Return(t, r)
      BY <2>2, <1>5 DEF TTLCheck
    <3>2. ~Expired(item.expiresAt, clock) BY <2>0, <2>2, <1>0 DEF Expired
    <3>3. Timely(hist)' /\ Kept(hist, hist')
      BY <3>1, <3>2, <2>0, <1>0, ServedKeeps DEF Recorded, Timely
    <3> QED BY <3>1, <3>3, <1>0, <1>5, <1>r, NothingNew DEF TTLCheck
  <2> QED BY <2>1, <2>2
<1>6. ASSUME NEW t \in Threads, DropExpired(t) PROVE IInv'
  BY <1>6, <1>0, <1>k, <1>r, NothingNew DEF DropExpired
<1>7. ASSUME NEW t \in Threads, NEW k \in Keys, Delete(t, k) PROVE IInv'
  BY <1>7, <1>0, <1>k, <1>r, NothingNew DEF Delete
<1>8. ASSUME NEW t \in Threads, NEW k \in Keys, IncrementFail(t, k) PROVE IInv'
  <2>1. Live(items[k], clock)
    BY <1>8, TextAssumption, AbsentIsItem DEF IncrementFail, Base, Current
  <2>2. Timely(hist)' /\ Kept(hist, hist')
    BY <2>1, <1>8, <1>0, LookedKeeps DEF IncrementFail, Recorded, Timely
  <2> QED BY <2>2, <1>8, <1>0, <1>r, NothingNew DEF IncrementFail
<1>9. ASSUME NEW t \in Threads, SetStore(t) PROVE IInv'
  <2>0. call[t].at = "store" /\ call[t].key \in Keys BY <1>9, <1>0 DEF SetStore
  <2>1. /\ items' = [items EXCEPT ![call[t].key] = call[t].item]
        /\ hist' = hist /\ stamps' = stamps
        /\ call'[t].at = "idle"
        /\ \A u \in Threads \ {t} : call'[u] = call[u]
    BY <1>9, <1>r DEF SetStore
  <2>2. /\ items'[call[t].key] = call[t].item
        /\ \A k \in Keys \ {call[t].key} : items'[k] = items[k]
    BY <2>0, <2>1, <1>0
  <2>3. Fresh' /\ Timely(hist)' /\ TakeOnce'
    BY <2>1 DEF IInv, Fresh, Timely, TakeOnce
  <2>4. Dated' BY <2>0, <2>1, <2>2, <1>0 DEF Dated, Recorded
  <2>5. Untaken' BY <2>0, <2>1, <2>2 DEF IInv, Untaken, Storing
  <2>6. Unique' BY <2>0, <2>1, <2>2 DEF IInv, Unique, Storing
  <2> QED BY <2>3, <2>4, <2>5, <2>6 DEF IInv
<1>10. ASSUME NEW t \in Threads, NEW k \in Keys, NEW v \in Inputs, NEW ttl \in TTLs,
              Set(t, k, v, ttl)
       PROVE  IInv'
  <2> DEFINE e == Deadline(clock, ttl)
             item == [value |-> v, expiresAt |-> e, stamp |-> stamps + 1]
  <2>1. e \in Nat BY <1>0, DeadlineIsNat, ArgumentAssumption
  <2>2. /\ stamps < MaxWrites /\ stamps' = stamps + 1
        /\ hist' = Created(hist, stamps + 1, e)
        /\ items' = items
    BY <1>10 DEF Set
  <2>3. /\ call'[t].at = "store" /\ call'[t].item = item
        /\ \A u \in Threads \ {t} : call'[u] = call[u]
    BY <1>10, <1>0 DEF Set
  <2>4. item.stamp = stamps + 1 /\ item.expiresAt = e OBVIOUS
  <2> HIDE DEF e, item
  <2>5. /\ Fresh' /\ Timely(hist)' /\ TakeOnce'
        /\ hist'[stamps + 1].takes = 0 /\ hist'[stamps + 1].expiresAt = e
        /\ \A s \in Stamps : s <= stamps => /\ hist'[s].takes = hist[s].takes
                                         /\ hist'[s].expiresAt = hist[s].expiresAt
    BY <2>1, <2>2, <1>0, <1>k, OneNew
  <2>6. Dated'
    <3>1. \A i \in Items : i.stamp \in Stamps /\ Recorded(i) =>
             i.stamp <= stamps' /\ i.expiresAt = hist'[i.stamp].expiresAt
      BY <2>2, <2>5, <1>0 DEF Recorded, Stamps
    <3>2. item.stamp <= stamps' /\ item.expiresAt = hist'[item.stamp].expiresAt
      BY <2>2, <2>4, <2>5, <1>0
    <3>3. \A l \in Keys : Found(items'[l]) => Recorded(items[l])'
      BY <3>1, <3>2, <2>2, <2>3, <1>0 DEF Recorded
    <3>4. \A u \in Threads : call'[u].at # "idle" => Recorded(call[u].item)'
      BY <3>1, <3>2, <2>2, <2>3, <1>0 DEF Recorded
    <3> QED BY <3>3, <3>4 DEF Dated
  <2>7. Untaken'
    BY <2>2, <2>3, <2>4, <2>5, <1>0 DEF IInv, Untaken, Recorded, Storing
  <2>8. Unique'
    <3>1. \A l \in Keys : items[l].stamp # stamps + 1
      BY <1>0 DEF Found, Recorded
    <3>2. \A u \in Threads : Storing(u) => call[u].item.stamp # stamps + 1
      BY <1>0 DEF Storing, Recorded
    <3> QED BY <3>1, <3>2, <2>2, <2>3, <2>4 DEF IInv, Unique, Storing
  <2> QED BY <2>5, <2>6, <2>7, <2>8 DEF IInv
<1>11. ASSUME NEW t \in Threads, NEW k \in Keys, Take(t, k) PROVE IInv'
  <2>0. /\ hist' = Taken(hist, items[k]) /\ stamps' = stamps
        /\ call'[t].at = "idle"
        /\ \A u \in Threads \ {t} : call'[u] = call[u]
    BY <1>11, <1>r DEF Take
  <2>1. /\ items'[k] = Absent
        /\ \A l \in Keys \ {k} : items'[l] = items[l]
    BY <1>11, <1>0 DEF Take
  <2>2. CASE ~Live(items[k], clock)
    <3>1. Timely(hist)' /\ Kept(hist, hist')
      <4>1. hist' = Looked(hist, items[k], FALSE) BY <2>0, <2>2 DEF Taken
      <4>2. Timely(Looked(hist, items[k], FALSE)) /\ Kept(hist, Looked(hist, items[k], FALSE))
        BY <2>2, <1>0, LookedKeeps DEF Recorded
      <4> QED BY <4>1, <4>2 DEF Timely
    <3> QED BY <3>1, <2>0, <2>1, NothingNew
  <2>3. CASE Live(items[k], clock)
    <3> DEFINE s == items[k].stamp
               g == Served(hist, s)
    <3>1. s \in Stamps /\ s <= stamps BY <2>3, <1>0 DEF Live, Recorded
    <3>2. g \in [Stamps -> Histories] /\ Timely(g) /\ Kept(hist, g)
      BY <2>3, <3>1, <1>0, ServedKeeps, HistoryTypes DEF Live, Recorded
    <3>3. hist' = [g EXCEPT ![s].takes = @ + 1] BY <2>0, <2>3 DEF Taken
    <3> HIDE DEF g
    <3>4. /\ hist'[s].takes = g[s].takes + 1
          /\ hist'[s].expiresAt = g[s].expiresAt
          /\ hist'[s].served = g[s].served
          /\ hist'[s].missed = g[s].missed
          /\ \A u \in Stamps \ {s} : hist'[u] = g[u]
      BY <3>1, <3>2, <3>3 DEF Histories
    <3>5. g[s].takes = 0 BY <3>1, <3>2, <2>3 DEF IInv, Untaken, Live, Kept
    <3> HIDE DEF s
    <3>6. Fresh' BY <3>1, <3>2, <3>4, <2>0, <1>0 DEF IInv, Fresh, Kept, Stamps
    <3>7. Timely(hist)' BY <3>2, <3>4 DEF Timely
    <3>8. TakeOnce'
      <4>1. \A u \in Stamps : g[u].takes <= 1 BY <3>2 DEF IInv, TakeOnce, Kept
      <4> QED BY <4>1, <3>4, <3>5 DEF TakeOnce
    <3>9. \A u \in Stamps : hist'[u].expiresAt = hist[u].expiresAt
      BY <3>2, <3>4 DEF Kept
    <3>10. \A u \in Stamps \ {s} : hist'[u].takes = hist[u].takes
      BY <3>2, <3>4 DEF Kept
    <3>11. Dated' BY <3>9, <2>0, <2>1, <1>0, AbsentIsItem DEF Dated, Recorded
    <3>12. \A l \in Keys : Found(items'[l]) => items'[l] = items[l] /\ items[l].stamp # s
      BY <2>1, AbsentIsItem DEF IInv, Unique, s
    <3>13. \A u \in Threads : Storing(u)' => /\ Storing(u) /\ call'[u] = call[u]
                                            /\ call[u].item.stamp # s
      BY <2>0 DEF IInv, Unique, Storing, s
    <3>14. Untaken'
      BY <3>10, <3>12, <3>13, <1>0 DEF IInv, Untaken, Storing
    <3>15. Unique'
      <4>1. \A l \in Keys : items'[l] = items[l] \/ items'[l].stamp = 0
        BY <2>1 DEF Absent
      <4>2. \A u \in Threads : Storing(u)' => call'[u].item.stamp # 0
        BY <3>13, <1>0, BoundAssumption DEF Storing, Stamps
      <4> QED BY <3>13, <4>1, <4>2 DEF IInv, Unique, Found
    <3> QED BY <3>6, <3>7, <3>8, <3>11, <3>14, <3>15 DEF IInv
  <2> QED BY <2>2, <2>3
<1>12. ASSUME NEW t \in Threads, NEW k \in Keys, NEW d \in Deltas, NEW ttl \in TTLs,
              Increment(t, k, d, ttl)
       PROVE  IInv'
  <2> DEFINE base == Base(items[k])
             next == Wrap(Current(base) + d)
             e == IF ttl > 0 THEN clock + ttl ELSE base.expiresAt
             item == [value |-> next, expiresAt |-> e, stamp |-> stamps + 1]
             g == Looked(hist, items[k], Found(base))
  <2>1. base \in Items BY AbsentIsItem, <1>0 DEF Base
  <2>2. e \in Nat BY <2>1, <1>0, ArgumentAssumption DEF Items
  <2>3. Found(base) <=> Live(items[k], clock) BY AbsentIsItem DEF Base, Live
  <2>4. g \in [Stamps -> Histories] BY <1>0, LookedType DEF Found
  <2>5. Timely(g) /\ Kept(hist, g)
    BY <2>3, <1>0, LookedKeeps DEF Recorded, Found
  <2>6. /\ stamps < MaxWrites /\ stamps' = stamps + 1
        /\ hist' = Created(g, stamps + 1, e)
        /\ items' = [items EXCEPT ![k] = item]
    BY <1>12 DEF Increment
  <2>7. /\ call'[t].at = "idle"
        /\ \A u \in Threads \ {t} : call'[u] = call[u]
    BY <1>12, <1>r DEF Increment
  <2>8. item.stamp = stamps + 1 /\ item.expiresAt = e OBVIOUS
  <2> HIDE DEF base, next, e, item, g
  <2>9. items'[k] = item /\ \A l \in Keys \ {k} : items'[l] = items[l]
    BY <2>6, <1>0
  <2>10. /\ Fresh' /\ Timely(hist)' /\ TakeOnce'
         /\ hist'[stamps + 1].takes = 0 /\ hist'[stamps + 1].expiresAt = e
         /\ \A s \in Stamps : s <= stamps => /\ hist'[s].takes = hist[s].takes
                                          /\ hist'[s].expiresAt = hist[s].expiresAt
    BY <2>2, <2>4, <2>5, <2>6, <1>0, OneNew
  <2>11. Dated'
    <3>1. \A i \in Items : i.stamp \in Stamps /\ Recorded(i) =>
             i.stamp <= stamps' /\ i.expiresAt = hist'[i.stamp].expiresAt
      BY <2>6, <2>10, <1>0 DEF Recorded, Stamps
    <3>2. item.stamp <= stamps' /\ item.expiresAt = hist'[item.stamp].expiresAt
      BY <2>6, <2>8, <2>10, <1>0
    <3>3. \A l \in Keys : Found(items'[l]) => Recorded(items[l])'
      BY <3>1, <3>2, <2>9, <1>0 DEF Recorded
    <3>4. \A u \in Threads : call'[u].at # "idle" => Recorded(call[u].item)'
      BY <3>1, <3>2, <2>7, <1>0 DEF Recorded
    <3> QED BY <3>3, <3>4 DEF Dated
  <2>12. Untaken'
    BY <2>6, <2>7, <2>8, <2>9, <2>10, <1>0 DEF IInv, Untaken, Recorded, Storing
  <2>13. Unique'
    <3>1. \A l \in Keys : items[l].stamp # stamps + 1
      BY <1>0 DEF Found, Recorded
    <3>2. \A u \in Threads : Storing(u) => call[u].item.stamp # stamps + 1
      BY <1>0 DEF Storing, Recorded
    <3> QED BY <3>1, <3>2, <2>7, <2>8, <2>9 DEF IInv, Unique, Storing
  <2> QED BY <2>10, <2>11, <2>12, <2>13 DEF IInv
<1> QED
  BY <1>1, <1>2, <1>3, <1>4, <1>5, <1>6, <1>7, <1>8, <1>9, <1>10, <1>11, <1>12
  DEF Next, Step, Get, Exists, TTL

(* The inductive invariant holds throughout. *)
THEOREM IInvHolds == Spec => []IInv
BY IInvInit, IInvStep, TypingInvariant, PTL DEF Spec

(* Every value is taken at most once, for any number of goroutines. *)
THEOREM TakeOnceHolds == Spec => []TakeOnce
<1>1. IInv => TakeOnce BY DEF IInv
<1> QED BY <1>1, IInvHolds, PTL

(* All operations of the cache agree on when an item expires. *)
THEOREM ServedBeforeExpiredHolds == Spec => []ServedBeforeExpired
<1>1. IInv => ServedBeforeExpired
  <2> SUFFICES ASSUME IInv, NEW s \in Stamps, hist[s].served # 0, hist[s].missed # 0
               PROVE  hist[s].served < hist[s].missed
    BY DEF ServedBeforeExpired
  <2>1. hist[s].served \in Nat /\ hist[s].missed \in Nat /\ hist[s].expiresAt \in Nat
    BY DEF IInv, Typed, TypeOK, Histories
  <2> QED BY <2>1 DEF IInv, Timely
<1> QED BY <1>1, IInvHolds, PTL

(* Types hold: keys, items, calls in progress, replies and histories. *)
THEOREM TypeOKHolds == Spec => []TypeOK
<1>1. Typed => TypeOK BY DEF Typed
<1> QED BY <1>1, TypingInvariant, PTL

-----------------------------------------------------------------------------
(* cache.Memory implements the contract of cache.Cache, step by step.         *)

\* What the contract sees of one item at one time, and of one reply.
View(item, now) ==
    [present   |-> Live(item, now),
     value     |-> IF Live(item, now) THEN item.value ELSE Text,
     expiresAt |-> IF Live(item, now) THEN item.expiresAt ELSE 0]

Shown(r) == IF r.op \in {"Take", "Increment"} THEN r ELSE Contract!Quiet

(* The contract computes expiry and wrap-around as the driver does. *)
LEMMA SameArithmetic ==
    /\ \A e, now : Contract!Expired(e, now) = Expired(e, now)
    /\ \A n : Contract!Wrap(n) = Wrap(n)
BY DEF Contract!Expired, Expired, Contract!Wrap, Wrap

(* The contract's store and replies are these views, item by item. *)
LEMMA ViewByKey ==
    /\ LiveView = [k \in Keys |-> View(items[k], clock)]
    /\ AtomicReplies = [t \in Threads |-> Shown(ret[t])]
    /\ LiveView' = [k \in Keys |-> View(items'[k], clock')]
    /\ AtomicReplies' = [t \in Threads |-> Shown(ret'[t])]
BY DEF LiveView, View, AtomicReplies, Shown, Contract!Quiet

(* An expired item in the map is as good as none. *)
LEMMA DeadIsGone ==
    ASSUME NEW item, NEW now, ~Live(item, now)
    PROVE  View(item, now) = Contract!Gone
<1>1. Live(item, now) = FALSE BY DEF Live, Found
<1> QED BY <1>1 DEF View, Contract!Gone

(* An unexpired one shows its value and its expiry. *)
LEMMA LiveIsEntry ==
    ASSUME NEW item, NEW now, Live(item, now)
    PROVE  View(item, now) = Contract!Entry(item.value, item.expiresAt)
<1>1. Live(item, now) = TRUE BY DEF Live, Found
<1> QED BY <1>1 DEF View, Contract!Entry

(* A step that stores one item changes the view of its key only. *)
LEMMA StoreOne ==
    ASSUME Typed, NEW k \in Keys, NEW i, items' = [items EXCEPT ![k] = i], clock' = clock
    PROVE  LiveView' = [LiveView EXCEPT ![k] = View(i, clock)]
<1>1. items \in [Keys -> Items] BY DEF Typed, TypeOK
<1>2. items'[k] = i /\ \A l \in Keys \ {k} : items'[l] = items[l] BY <1>1
<1> QED BY <1>2, ViewByKey

(* A step that leaves the map alone leaves the view alone. *)
LEMMA StoreNone ==
    ASSUME items' = items, clock' = clock
    PROVE  LiveView' = LiveView
BY ViewByKey

(* A call that returns answers its own caller. *)
LEMMA AnswerOne ==
    ASSUME Typed, NEW t \in Threads, NEW r, Return(t, r)
    PROVE  AtomicReplies' = [AtomicReplies EXCEPT ![t] = Shown(r)]
<1>1. ret \in [Threads -> Replies] BY DEF Typed, TypeOK
<1>2. ret'[t] = r /\ \A u \in Threads \ {t} : ret'[u] = ret[u] BY <1>1 DEF Return
<1> QED BY <1>2, ViewByKey

(* Everything but Take and Increment is quiet, and those say what they did. *)
LEMMA ShownReplies ==
    /\ \A op, out, v : op \notin {"Take", "Increment"} =>
          Shown(Reply(op, out, v)) = Contract!Quiet
    /\ \A out, v : /\ Shown(Reply("Take", out, v)) = Contract!Reply("Take", out, v)
                   /\ Shown(Reply("Increment", out, v)) = Contract!Reply("Increment", out, v)
BY DEF Shown, Reply, Contract!Reply

(* A plain read returns. *)
LEMMA ReadStep ==
    ASSUME Typed, NEW t \in Threads, NEW op, NEW out, NEW v, op \notin {"Take", "Increment"},
           Return(t, Reply(op, out, v)), items' = items, clock' = clock
    PROVE  Contract!Read(t)
BY AnswerOne, ShownReplies, StoreNone DEF Contract!Read, Contract!Answer

(* A call that leaves its key without an unexpired item returns. *)
LEMMA RemoveStep ==
    ASSUME Typed, NEW t \in Threads, NEW k \in Keys, NEW op, NEW out, NEW v, NEW i,
           op \notin {"Take", "Increment"}, ~Live(i, clock),
           Return(t, Reply(op, out, v)), items' = [items EXCEPT ![k] = i], clock' = clock
    PROVE  Contract!Remove(t, k)
<1>1. LiveView' = [LiveView EXCEPT ![k] = Contract!Gone] BY StoreOne, DeadIsGone
<1>2. AtomicReplies' = [AtomicReplies EXCEPT ![t] = Contract!Quiet]
  BY AnswerOne, ShownReplies
<1> QED BY <1>1, <1>2 DEF Contract!Remove, Contract!Answer

(* Time drops from the view exactly the items that reach their expiry. *)
LEMMA TickStep ==
    ASSUME Typed, Tick
    PROVE  Contract!Tick
<1>1. /\ items \in [Keys -> Items] /\ clock \in Nat
      /\ clock' = clock + 1 /\ items' = items /\ ret' = ret
  BY BoundAssumption DEF Typed, TypeOK, Tick
<1>2. ASSUME NEW k \in Keys
      PROVE  View(items'[k], clock') =
                IF Expired(LiveView[k].expiresAt, clock + 1)
                THEN Contract!Gone ELSE LiveView[k]
  <2>0. items[k].expiresAt \in Nat BY <1>1 DEF Items
  <2>1. CASE Live(items[k], clock)
    <3>1. LiveView[k].expiresAt = items[k].expiresAt BY <2>1, ViewByKey DEF View
    <3>2. CASE Expired(items[k].expiresAt, clock + 1)
      <4>1. ~Live(items'[k], clock') BY <1>1, <3>2 DEF Live
      <4> QED BY <3>1, <3>2, <4>1, DeadIsGone
    <3>3. CASE ~Expired(items[k].expiresAt, clock + 1)
      <4>1. Live(items'[k], clock') BY <1>1, <2>1, <3>3 DEF Live
      <4>2. View(items'[k], clock') = View(items[k], clock)
        BY <1>1, <2>1, <4>1, LiveIsEntry
      <4> QED BY <3>1, <3>3, <4>2, ViewByKey
    <3> QED BY <3>2, <3>3
  <2>2. CASE ~Live(items[k], clock)
    <3>1. LiveView[k] = Contract!Gone BY <2>2, ViewByKey, DeadIsGone
    <3>2. ~Expired(LiveView[k].expiresAt, clock + 1)
      BY <3>1 DEF Contract!Gone, Expired
    <3>3. ~Live(items'[k], clock') BY <1>1, <2>0, <2>2 DEF Live, Expired
    <3> QED BY <3>1, <3>2, <3>3, DeadIsGone
  <2> QED BY <2>1, <2>2
<1>3. LiveView' = [k \in Keys |-> IF Expired(LiveView[k].expiresAt, clock + 1)
                                  THEN Contract!Gone ELSE LiveView[k]]
  BY <1>2, ViewByKey
<1>4. AtomicReplies' = AtomicReplies BY <1>1, ViewByKey
<1> QED BY <1>1, <1>3, <1>4, SameArithmetic DEF Contract!Tick

(* The store of Set writes an entry, or nothing when the item expired while   *)
(* Set waited for the lock.                                                   *)
LEMMA SetStoreStep ==
    ASSUME Typed, NEW t \in Threads, SetStore(t)
    PROVE  \E k \in Keys : Contract!Write(t, k) \/ Contract!Remove(t, k)
<1> DEFINE k == call[t].key
           i == call[t].item
<1>1. /\ k \in Keys /\ clock' = clock
      /\ items' = [items EXCEPT ![k] = i]
      /\ Return(t, Reply("Set", "ok", 0))
  BY DEF SetStore, Typed
<1> HIDE DEF k, i
<1>2. LiveView' = [LiveView EXCEPT ![k] = View(i, clock)] BY <1>1, StoreOne
<1>3. AtomicReplies' = [AtomicReplies EXCEPT ![t] = Contract!Quiet]
  BY <1>1, AnswerOne, ShownReplies
<1>4. CASE Live(i, clock)
  <2>1. LiveView'[k] = Contract!Entry(i.value, i.expiresAt)
    BY <1>1, <1>2, <1>4, LiveIsEntry DEF LiveView
  <2>2. LiveView'[k].value = i.value /\ LiveView'[k].expiresAt = i.expiresAt
    BY <2>1 DEF Contract!Entry
  <2>3. ~Expired(i.expiresAt, clock) BY <1>4 DEF Live
  <2>4. Contract!Write(t, k)
    <3>1. ~Contract!Expired(LiveView'[k].expiresAt, clock) BY <2>2, <2>3, SameArithmetic
    <3>2. LiveView' = [LiveView EXCEPT ![k] = Contract!Entry(LiveView'[k].value,
                                                             LiveView'[k].expiresAt)]
      BY <1>2, <1>4, <2>2, LiveIsEntry
    <3> QED BY <1>1, <1>3, <3>1, <3>2 DEF Contract!Write, Contract!Answer
  <2> QED BY <1>1, <2>4
<1>5. CASE ~Live(i, clock) BY <1>1, <1>5, RemoveStep
<1> QED BY <1>4, <1>5

(* Take hands out what the view shows and leaves nothing. *)
LEMMA TakeStep ==
    ASSUME Typed, NEW t \in Threads, NEW k \in Keys, Take(t, k)
    PROVE  Contract!Take(t, k)
<1>1. LiveView[k] = View(items[k], clock) BY ViewByKey
<1>2. /\ items' = [items EXCEPT ![k] = Absent] /\ clock' = clock
      /\ Return(t, IF Live(items[k], clock) THEN Reply("Take", "ok", items[k].value)
                                            ELSE Reply("Take", "miss", 0))
  BY DEF Take
<1>3. LiveView' = [LiveView EXCEPT ![k] = Contract!Gone]
  BY <1>2, StoreOne, AbsentIsItem, DeadIsGone DEF Live
<1>4. CASE Live(items[k], clock)
  <2>1. LiveView[k].present /\ LiveView[k].value = items[k].value
    BY <1>1, <1>4 DEF View
  <2>2. AtomicReplies' = [AtomicReplies EXCEPT ![t] = Contract!Reply("Take", "ok", items[k].value)]
    BY <1>2, <1>4, AnswerOne, ShownReplies
  <2> QED BY <1>2, <1>3, <2>1, <2>2 DEF Contract!Take, Contract!Answer
<1>5. CASE ~Live(items[k], clock)
  <2>1. ~LiveView[k].present BY <1>1, <1>5 DEF View
  <2>2. AtomicReplies' = [AtomicReplies EXCEPT ![t] = Contract!Reply("Take", "miss", 0)]
    BY <1>2, <1>5, AnswerOne, ShownReplies
  <2> QED BY <1>2, <1>3, <2>1, <2>2 DEF Contract!Take, Contract!Answer
<1> QED BY <1>4, <1>5

(* The counter Increment starts from is the one the view shows. *)
LEMMA CurrentIsShown ==
    ASSUME NEW k \in Keys
    PROVE  /\ Contract!Current(k) = Current(Base(items[k]))
           /\ LiveView[k].expiresAt = Base(items[k]).expiresAt
<1>1. LiveView[k] = View(items[k], clock) BY ViewByKey
<1>2. CASE Live(items[k], clock)
  <2>1. LiveView[k] = Contract!Entry(items[k].value, items[k].expiresAt)
    BY <1>1, <1>2, LiveIsEntry
  <2>2. Base(items[k]) = items[k] /\ Found(items[k]) BY <1>2 DEF Base, Live
  <2>3. /\ LiveView[k].present /\ LiveView[k].value = items[k].value
        /\ LiveView[k].expiresAt = items[k].expiresAt
    BY <2>1 DEF Contract!Entry
  <2> QED BY <2>2, <2>3 DEF Contract!Current, Current
<1>3. CASE ~Live(items[k], clock)
  BY <1>1, <1>3, AbsentIsItem DEF View, Contract!Current, Current, Base, Absent
<1> QED BY <1>2, <1>3

(* Increment is atomic: it adds to the counter the view shows, keeps the      *)
(* expiry it shows unless a ttl is given, and leaves an unexpired counter.    *)
LEMMA IncrementStep ==
    ASSUME Typed, NEW t \in Threads, NEW k \in Keys, NEW d \in Deltas, NEW ttl \in TTLs,
           Increment(t, k, d, ttl)
    PROVE  Contract!Increment(t, k, d, ttl)
<1> DEFINE base == Base(items[k])
           next == Wrap(Current(base) + d)
           e == IF ttl > 0 THEN clock + ttl ELSE base.expiresAt
           item == [value |-> next, expiresAt |-> e, stamp |-> stamps + 1]
<1>1. /\ Current(base) # Text
      /\ items' = [items EXCEPT ![k] = item]
      /\ Return(t, Reply("Increment", "ok", next))
      /\ clock' = clock
  BY DEF Increment
<1>2. clock \in Nat \ {0} /\ stamps \in Nat /\ ttl \in Int
  BY BoundAssumption, ArgumentAssumption DEF Typed, TypeOK
<1>3. base.expiresAt = 0 \/ ~Expired(base.expiresAt, clock)
  BY DEF Base, Live, Absent
<1>4. ~Expired(e, clock) BY <1>2, <1>3 DEF Expired
<1>5. item.stamp # 0 /\ item.value = next /\ item.expiresAt = e BY <1>2
<1>6. Contract!Current(k) = Current(base) /\ LiveView[k].expiresAt = base.expiresAt
  BY CurrentIsShown
<1> HIDE DEF base, next, e, item
<1>7. Live(item, clock) BY <1>4, <1>5 DEF Live, Found
<1>8. LiveView' = [LiveView EXCEPT ![k] = Contract!Entry(next, e)]
  <2>1. View(item, clock) = Contract!Entry(next, e) BY <1>5, <1>7, LiveIsEntry
  <2> QED BY <1>1, <2>1, StoreOne
<1>9. AtomicReplies' = [AtomicReplies EXCEPT ![t] = Contract!Reply("Increment", "ok", next)]
  BY <1>1, AnswerOne, ShownReplies
<1>10. /\ next = Wrap(Contract!Current(k) + d)
       /\ e = IF ttl > 0 THEN clock + ttl ELSE LiveView[k].expiresAt
  BY <1>6 DEF next, e
<1>11. next = Contract!Wrap(Contract!Current(k) + d) BY <1>10, SameArithmetic
<1>12. Contract!Entry(next, e) =
          Contract!Entry(next, IF ttl > 0 THEN clock + ttl ELSE LiveView[k].expiresAt)
  BY <1>10
<1> QED BY <1>1, <1>6, <1>8, <1>9, <1>11, <1>12 DEF Contract!Increment, Contract!Answer

(* Every step of memory.go is a step of the contract, or is invisible to it. *)
LEMMA StepRefines ==
    ASSUME Typed, [Next]_vars
    PROVE  [Contract!Next]_Contract!vars
<1> DEFINE Hidden == items' = items /\ clock' = clock /\ ret' = ret
<1>0. Hidden => UNCHANGED Contract!vars BY ViewByKey DEF Contract!vars
<1> HIDE DEF Hidden
<1>1. CASE UNCHANGED vars BY <1>0, <1>1 DEF vars, Hidden
<1>2. CASE Tick BY <1>2, TickStep DEF Contract!Next
<1>3. ASSUME NEW t \in Threads, NEW k \in Keys, NEW op, op \in {"Get", "Exists", "TTL"},
             ReadItem(t, op, k)
      PROVE  Hidden \/ Contract!Read(t)
  <2>1. CASE Found(items[k]) BY <1>3, <2>1 DEF ReadItem, Hidden
  <2>2. CASE ~Found(items[k])
    <3>1. /\ Return(t, Reply(op, "miss", 0)) /\ items' = items /\ clock' = clock
          /\ op \notin {"Take", "Increment"}
      BY <1>3, <2>2 DEF ReadItem
    <3> QED BY <3>1, ReadStep
  <2> QED BY <2>1, <2>2
<1>4. ASSUME NEW t \in Threads, GetCheck(t) PROVE Hidden \/ Contract!Read(t)
  <2>1. CASE Expired(call[t].item.expiresAt, clock) BY <1>4, <2>1 DEF GetCheck, Hidden
  <2>2. CASE ~Expired(call[t].item.expiresAt, clock)
    BY <1>4, <2>2, ReadStep DEF GetCheck
  <2> QED BY <2>1, <2>2
<1>5. ASSUME NEW t \in Threads, TTLCheck(t) PROVE Hidden \/ Contract!Read(t)
  <2>1. Hidden \/ \E v : Return(t, Reply("TTL", "ok", v)) BY <1>5 DEF TTLCheck, Hidden
  <2>2. items' = items /\ clock' = clock BY <1>5 DEF TTLCheck
  <2> QED BY <2>1, <2>2, ReadStep
<1>6. ASSUME NEW t \in Threads, DropExpired(t) PROVE \E k \in Keys : Contract!Remove(t, k)
  <2>1. call[t].key \in Keys /\ call[t].op \notin {"Take", "Increment"}
    BY <1>6 DEF DropExpired, Typed, TypeOK, Calls
  <2>2. ~Live(Absent, clock) BY AbsentIsItem DEF Live
  <2>3. /\ Return(t, Reply(call[t].op, "miss", 0))
        /\ items' = [items EXCEPT ![call[t].key] = Absent] /\ clock' = clock
    BY <1>6 DEF DropExpired
  <2>4. Contract!Remove(t, call[t].key) BY <2>1, <2>2, <2>3, RemoveStep
  <2> QED BY <2>1, <2>4
<1>7. ASSUME NEW t \in Threads, NEW k \in Keys, Delete(t, k) PROVE Contract!Remove(t, k)
  <2>1. ~Live(Absent, clock) BY AbsentIsItem DEF Live
  <2>2. /\ Return(t, Reply("Delete", "ok", 0))
        /\ items' = [items EXCEPT ![k] = Absent] /\ clock' = clock
    BY <1>7 DEF Delete
  <2>3. "Delete" \notin {"Take", "Increment"} OBVIOUS
  <2> QED BY <2>1, <2>2, <2>3, RemoveStep
<1>8. ASSUME NEW t \in Threads, NEW k \in Keys, IncrementFail(t, k)
      PROVE  Contract!IncrementFail(t, k)
  <2>1. /\ Current(Base(items[k])) = Text
        /\ Return(t, Reply("Increment", "error", 0)) /\ items' = items /\ clock' = clock
    BY <1>8 DEF IncrementFail
  <2> QED BY <2>1, AnswerOne, ShownReplies, StoreNone, CurrentIsShown
          DEF Contract!IncrementFail, Contract!Answer
<1>9. ASSUME NEW t \in Threads, NEW k \in Keys, NEW v \in Inputs, NEW ttl \in TTLs,
             Set(t, k, v, ttl)
      PROVE  Hidden
  BY <1>9 DEF Set, Hidden
<1>10. ASSUME NEW t \in Threads, Step(t) PROVE Hidden \/ Contract!Next
  BY <1>3, <1>4, <1>5, <1>6, <1>7, <1>8, <1>9, <1>10, SetStoreStep, TakeStep, IncrementStep
  DEF Step, Get, Exists, TTL, Contract!Next
<1> QED BY <1>0, <1>1, <1>2, <1>10 DEF Next

(* memory.go implements the contract of cache.Cache: whatever the goroutines  *)
(* do between their critical sections, callers see an atomic store of         *)
(* unexpired entries that may lose one at any time and never serves an old    *)
(* one.                                                                       *)
THEOREM ImplementsContractHolds == Spec => ImplementsContract
<1>1. Init => Contract!Init
  <2> SUFFICES ASSUME Init PROVE Contract!Init
    OBVIOUS
  <2>1. LiveView = [k \in Keys |-> Contract!Gone]
    BY ViewByKey, AbsentIsItem, DeadIsGone DEF Init, Live
  <2>2. AtomicReplies = [t \in Threads |-> Contract!Quiet]
    BY ViewByKey, ShownReplies DEF Init
  <2> QED BY <2>1, <2>2 DEF Init, Contract!Init
<1>2. Typed /\ [Next]_vars => [Contract!Next]_Contract!vars BY StepRefines
<1> QED BY <1>1, <1>2, TypingInvariant, PTL DEF Spec, ImplementsContract, Contract!Spec
=============================================================================
