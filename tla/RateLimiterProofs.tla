------------------------- MODULE RateLimiterProofs -------------------------
(* RateLimiter, for every set of keys and goroutines and every bound.  The    *)
(* limiter is shown to be a user of the store, so that what MemoryCacheProofs *)
(* proves of every use of memory.go holds under it; the invariant that ties   *)
(* the counters to the reference rests on that.                               *)
EXTENDS RateLimiter, TLAPS

\* The store again, with what is proved about it.
Mem == INSTANCE MemoryCacheProofs WITH TTLs <- TTLs \union Windows, Deltas <- {1}

(* The store meets its own assumptions when the limiter meets its. *)
LEMMA StoreAssumptions == Mem!ArgumentAssumption /\ Mem!BoundAssumption
<1>1. Mem!ArgumentAssumption
  BY LimiterAssumption, CountAssumption, RangeAssumption
  DEF Mem!Int64, Mem!Values, Int64, Values
<1>2. Mem!BoundAssumption BY LimiterAssumption
<1> QED BY <1>1, <1>2

(* Both instances of MemoryCache have the same operations. *)
LEMMA SameReads ==
    ASSUME NEW t, NEW k
    PROVE  /\ Store!Get(t, k) => Mem!Get(t, k)
           /\ Store!TTL(t, k) => Mem!TTL(t, k)
           /\ Store!GetCheck(t) => Mem!GetCheck(t)
           /\ Store!TTLCheck(t) => Mem!TTLCheck(t)
           /\ Store!DropExpired(t) => Mem!DropExpired(t)
BY Zenon DEF Store!Get, Store!TTL, Store!ReadItem, Store!Found, Store!Return, Store!Reply,
       Store!Idle, Store!Absent, Store!GetCheck, Store!TTLCheck, Store!DropExpired,
       Store!Served, Store!Missed, Store!Expired,
       Mem!Get, Mem!TTL, Mem!ReadItem, Mem!Found, Mem!Return, Mem!Reply,
       Mem!Idle, Mem!Absent, Mem!GetCheck, Mem!TTLCheck, Mem!DropExpired,
       Mem!Served, Mem!Missed, Mem!Expired

(* The same for the operations that write. *)
LEMMA SameWrites ==
    ASSUME NEW t, NEW k, NEW v, NEW ttl
    PROVE  /\ Store!Set(t, k, v, ttl) => Mem!Set(t, k, v, ttl)
           /\ Store!SetStore(t) => Mem!SetStore(t)
           /\ Store!Delete(t, k) => Mem!Delete(t, k)
           /\ Store!Increment(t, k, 1, ttl) => Mem!Increment(t, k, 1, ttl)
           /\ Store!IncrementFail(t, k) => Mem!IncrementFail(t, k)
           /\ Store!Tick => Mem!Tick
BY Zenon DEF Store!Set, Store!SetStore, Store!Delete, Store!Increment, Store!IncrementFail,
       Store!Tick, Store!Found, Store!Live, Store!Return, Store!Reply, Store!Idle,
       Store!Absent, Store!Served, Store!Missed, Store!Expired, Store!Deadline,
       Store!Created, Store!Looked, Store!Base, Store!Current, Store!Wrap,
       Mem!Set, Mem!SetStore, Mem!Delete, Mem!Increment, Mem!IncrementFail,
       Mem!Tick, Mem!Found, Mem!Live, Mem!Return, Mem!Reply, Mem!Idle,
       Mem!Absent, Mem!Served, Mem!Missed, Mem!Expired, Mem!Deadline,
       Mem!Created, Mem!Looked, Mem!Base, Mem!Current, Mem!Wrap

-----------------------------------------------------------------------------
(* The inductive invariant.  Typed is what memory.go keeps true whoever uses  *)
(* it.  Widths keeps the counters away from the end of the int64 range.       *)
(* Agreed compares the live counter of a key with the reference: the same     *)
(* expiry unless it escaped its window, never more hits, and exactly as many  *)
(* while no sweep has hit it.  Tracked does the same for what a goroutine has *)
(* read and not yet answered.                                                 *)
Typed == /\ Store!TypeOK
         /\ \A t \in Threads : call[t].at # "idle" => /\ call[t].key \in Keys
                                                     /\ Store!Found(call[t].item)
                                                     /\ call[t].op # "none"

Sized(item) == item.value # Text => /\ 0 <= item.value
                                    /\ item.value + MaxWrites <= MaxInt + stamps

Widths == /\ \A k \in Keys : Sized(items[k])
          /\ \A t \in Threads : Sized(call[t].item)

Counting(item) == Store!Live(item, clock) /\ item.value # Text

Agree(k) ==
    /\ drift[k] # "endless" /\ Counting(items[k])
         => /\ Open(hits[k])
            /\ items[k].value <= hits[k].count
            /\ items[k].expiresAt = hits[k].expiresAt
    /\ drift[k] = "none"
         => IF Counting(items[k]) THEN items[k].value = hits[k].count ELSE ~Open(hits[k])

Agreed == \A k \in Keys : Agree(k)

Fair(r) == r.drift # "endless" => r.count <= r.truth

\* A Peek whose Get is under way, and one whose Get has returned.
Reading(t) == /\ call[t].op = "Get" /\ call[t].at \in {"check", "drop"}
              /\ lim[t].drift # "endless" /\ Counting(call[t].item)
                    => call[t].item.value <= lim[t].truth

HasRead(t) == lim[t].drift # "endless" /\ ret[t].out = "ok" /\ ret[t].value # Text
                 => ret[t].value <= lim[t].truth

Track(t) == /\ lim[t].at # "idle" => lim[t].key \in Keys
            /\ Fair(lim[t]) /\ Fair(result[t])
            /\ lim[t].at = "get" /\ call[t].at # "idle" => Reading(t)
            /\ lim[t].at = "get" /\ call[t].at = "idle" => HasRead(t)

Tracked == \A t \in Threads : Track(t)

IInv == TypeOK /\ Typed /\ Widths /\ Agreed /\ Tracked

(* Every step of the limiter is a step of its store or leaves it alone. *)
LEMMA StoreStep == IInv /\ [Next]_vars => [Mem!Next]_(Mem!vars)
<1> SUFFICES ASSUME IInv, [Next]_vars PROVE Mem!Next \/ UNCHANGED Mem!vars
  OBVIOUS
<1>1. CASE UNCHANGED vars
  BY <1>1 DEF vars, storeVars, Mem!vars
<1>2. CASE Tick
  BY <1>2, SameWrites DEF Tick, Mem!Next
<1>3. ASSUME NEW t \in Threads, NEW k \in Keys,
             \/ Peek(t, k) \/ HitFail(t, k) \/ Reset(t, k)
      PROVE  Mem!Next
  <2>1. Mem!Get(t, k) \/ Mem!IncrementFail(t, k) \/ Mem!Delete(t, k)
    BY <1>3, SameReads, SameWrites DEF Peek, HitFail, Reset
  <2> QED BY <2>1 DEF Mem!Next, Mem!Step
<1>4. ASSUME NEW t \in Threads, NEW k \in Keys, NEW w \in Windows, Hit(t, k, w)
      PROVE  Mem!Next
  <2>1. Mem!Increment(t, k, 1, w) BY <1>4, SameWrites DEF Hit
  <2>2. w \in TTLs \union Windows /\ 1 \in {1} OBVIOUS
  <2> QED BY <2>1, <2>2 DEF Mem!Next, Mem!Step
<1>5. ASSUME NEW t \in Threads, NEW k \in Keys, ForeignSet(t, k)
      PROVE  Mem!Next
  <2>1. PICK v \in Inputs, ttl \in TTLs : Mem!Set(t, k, v, ttl)
    BY <1>5, SameWrites DEF ForeignSet
  <2>2. ttl \in TTLs \union Windows OBVIOUS
  <2> QED BY <2>1, <2>2 DEF Mem!Next, Mem!Step
<1>6. ASSUME NEW t \in Threads,
             \/ HitTTL(t) \/ PeekTTL(t) \/ ForeignStore(t) \/ StoreCheck(t) \/ StoreDrop(t)
      PROVE  Mem!Next
  <2>1. \/ lim[t].at # "idle" /\ Mem!TTL(t, lim[t].key)
        \/ Mem!SetStore(t) \/ Mem!GetCheck(t) \/ Mem!TTLCheck(t) \/ Mem!DropExpired(t)
    BY <1>6, SameReads, SameWrites
    DEF HitTTL, PeekTTL, ForeignStore, StoreCheck, StoreDrop
  <2>2. lim[t].at # "idle" => lim[t].key \in Keys BY DEF IInv, Tracked, Track
  <2> QED BY <2>1, <2>2 DEF Mem!Next, Mem!Step
<1>7. ASSUME NEW t \in Threads, PeekMiss(t) \/ PeekFail(t) \/ Finish(t)
      PROVE  UNCHANGED Mem!vars
  BY <1>7 DEF PeekMiss, PeekFail, Finish, storeVars, Mem!vars
<1> QED
  BY <1>1, <1>2, <1>3, <1>4, <1>5, <1>6, <1>7 DEF Next

(* The two instances of MemoryCache also have the same types ... *)
LEMMA SameTyped == Typed <=> Mem!Typed
BY Zenon DEF Typed, Store!TypeOK, Store!Items, Store!Values, Store!Int64, Store!Calls,
       Store!Replies, Store!Stamps, Store!Histories, Store!Found,
       Mem!Typed, Mem!TypeOK, Mem!Items, Mem!Values, Mem!Int64, Mem!Calls,
       Mem!Replies, Mem!Stamps, Mem!Histories, Mem!Found

(* ... which the limiter's steps keep, being the store's. *)
LEMMA TypedStep == IInv /\ [Next]_vars => Typed'
<1> SUFFICES ASSUME IInv, [Next]_vars PROVE Typed'
  OBVIOUS
<1>1. [Mem!Next]_(Mem!vars) BY StoreStep
<1>2. Mem!Typed BY SameTyped DEF IInv
<1>3. Mem!Typed'
  BY <1>1, <1>2, Mem!TypedStep, StoreAssumptions, RangeAssumption, TextAssumption
<1> QED
  BY <1>3, Zenon DEF Typed, Store!TypeOK, Store!Items, Store!Values, Store!Int64, Store!Calls,
       Store!Replies, Store!Stamps, Store!Histories, Store!Found,
       Mem!Typed, Mem!TypeOK, Mem!Items, Mem!Values, Mem!Int64, Mem!Calls,
       Mem!Replies, Mem!Stamps, Mem!Histories, Mem!Found

(* The types in the form the steps use. *)
LEMMA Shapes ==
    ASSUME IInv
    PROVE  /\ clock \in Nat /\ stamps \in 0 .. MaxWrites /\ MaxWrites \in Nat
           /\ MaxInt \in Int /\ MinInt \in Int /\ MinInt < 0
           /\ items \in [Keys -> Store!Items]
           /\ call \in [Threads -> Store!Calls]
           /\ ret \in [Threads -> Store!Replies]
           /\ lim \in [Threads -> Places]
           /\ result \in [Threads -> Results]
           /\ hits \in [Keys -> [counting : BOOLEAN, count : Nat, expiresAt : Nat]]
           /\ drift \in [Keys -> Drifts]
           /\ \A k \in Keys : /\ items[k].value \in Int \union {Text}
                              /\ items[k].expiresAt \in Nat
           /\ \A t \in Threads : /\ call[t].item \in Store!Items
                                 /\ call[t].item.value \in Int \union {Text}
                                 /\ call[t].item.expiresAt \in Nat
                                 /\ call[t].at # "idle" => call[t].key \in Keys
BY LimiterAssumption, RangeAssumption
DEF IInv, TypeOK, Typed, Store!TypeOK, Store!Items, Store!Values, Store!Int64, Store!Calls

(* What t alone sees: no counter, time nor hit changes. *)
Private(t) == /\ items' = items /\ clock' = clock /\ hits' = hits /\ drift' = drift
              /\ stamps <= stamps' /\ stamps' \in Nat
              /\ \A u \in Threads \ {t} : /\ call'[u] = call[u] /\ ret'[u] = ret[u]
                                           /\ lim'[u] = lim[u] /\ result'[u] = result[u]

(* A step of t that only t sees keeps the invariant if t's own part does. *)
LEMMA PrivateKeeps ==
    ASSUME IInv, NEW t \in Threads, Private(t), Typed',
           lim' \in [Threads -> Places], result' \in [Threads -> Results],
           Sized(call[t].item)', Track(t)'
    PROVE  IInv'
<1>1. TypeOK' BY DEF IInv, TypeOK, Typed, Private
<1>2. Widths'
  <2>1. ASSUME NEW k \in Keys PROVE Sized(items[k])'
    BY <2>1, Shapes DEF IInv, Widths, Private, Sized
  <2>2. ASSUME NEW u \in Threads \ {t} PROVE Sized(call[u].item)'
    BY <2>2, Shapes DEF IInv, Widths, Private, Sized
  <2> QED BY <2>1, <2>2 DEF Widths
<1>3. Agreed' BY DEF IInv, Agreed, Agree, Private, Counting, Open
<1>4. Tracked'
  <2>1. ASSUME NEW u \in Threads \ {t} PROVE Track(u)'
    BY <2>1 DEF IInv, Tracked, Track, Private, Fair, Reading, HasRead, Counting
  <2> QED BY <2>1 DEF Tracked
<1> QED BY <1>1, <1>2, <1>3, <1>4 DEF IInv

(* What the start of a Get or a TTL does to the goroutine. *)
LEMMA ReadEffect ==
    ASSUME IInv, NEW t \in Threads, NEW k \in Keys, NEW op, Store!ReadItem(t, op, k)
    PROVE  /\ items' = items /\ clock' = clock /\ stamps' = stamps
           /\ \A u \in Threads \ {t} : call'[u] = call[u] /\ ret'[u] = ret[u]
           /\ \/ /\ call'[t].at = "check" /\ call'[t].op = op
                 /\ call'[t].item = items[k]
              \/ /\ call'[t].at = "idle" /\ call'[t].item = Store!Absent
                 /\ ret'[t].out = "miss"
           /\ Sized(call'[t].item)
<1>1. Sized(items[k]) /\ Sized(Store!Absent) BY DEF IInv, Widths, Sized, Store!Absent
<1>2. CASE Store!Found(items[k])
  BY <1>1, <1>2, Shapes DEF Store!ReadItem
<1>3. CASE ~Store!Found(items[k])
  BY <1>1, <1>3, Shapes DEF Store!ReadItem, Store!Return, Store!Reply, Store!Idle
<1> QED BY <1>2, <1>3

(* Hit continues with its TTL. *)
LEMMA HitTTLKeeps ==
    ASSUME IInv, NEW t \in Threads, HitTTL(t), Typed'
    PROVE  IInv'
<1>1. lim[t].key \in Keys BY DEF HitTTL, IInv, Tracked, Track
<1>2. Store!ReadItem(t, "TTL", lim[t].key) BY DEF HitTTL, Store!TTL
<1>3. /\ lim' \in [Threads -> Places] /\ result' \in [Threads -> Results]
      /\ lim'[t].at = "ttl" /\ lim'[t].key = lim[t].key /\ lim'[t].count = lim[t].count
      /\ lim'[t].truth = lim[t].truth /\ lim'[t].drift = lim[t].drift
      /\ \A u \in Threads \ {t} : lim'[u] = lim[u]
  BY Shapes DEF HitTTL, Places
<1>4. Private(t) BY <1>1, <1>2, <1>3, ReadEffect, Shapes DEF HitTTL, Private
<1>5. Sized(call[t].item)' BY <1>1, <1>2, ReadEffect DEF Sized
<1>6. Track(t)' BY <1>1, <1>3 DEF HitTTL, IInv, Tracked, Track, Fair
<1> QED BY <1>3, <1>4, <1>5, <1>6, PrivateKeeps

(* Peek starts its Get: a live counter is no larger than the truth. *)
LEMMA PeekKeeps ==
    ASSUME IInv, NEW t \in Threads, NEW k \in Keys, Peek(t, k), Typed'
    PROVE  IInv'
<1>1. Store!ReadItem(t, "Get", k) BY DEF Peek, Store!Get
<1>2. Truth(k) \in Nat BY Shapes DEF Truth
<1>3. lim'[t] = [at |-> "get", op |-> "Peek", key |-> k,
                 count |-> 0, truth |-> Truth(k), drift |-> drift[k]]
  BY Shapes DEF Peek
<1>4. /\ lim' \in [Threads -> Places] /\ result' \in [Threads -> Results]
      /\ \A u \in Threads \ {t} : lim'[u] = lim[u]
  BY <1>2, Shapes DEF Peek, Places
<1>5. Private(t) BY <1>1, <1>4, ReadEffect, Shapes DEF Peek, Private
<1>6. Sized(call[t].item)' BY <1>1, ReadEffect DEF Sized
<1>7. Track(t)'
  <2>1. drift[k] # "endless" /\ Counting(items[k]) => items[k].value <= Truth(k)
    BY DEF IInv, Agreed, Agree, Truth
  <2>2. call'[t].at # "idle" => Reading(t)'
    BY <2>1, <1>1, <1>3, ReadEffect DEF Reading, Counting
  <2>3. call'[t].at = "idle" => HasRead(t)'
    BY <1>1, ReadEffect DEF HasRead
  <2>4. result'[t] = result[t] BY DEF Peek
  <2> QED BY <2>2, <2>3, <2>4, <1>2, <1>3 DEF IInv, Tracked, Track, Fair
<1> QED BY <1>4, <1>5, <1>6, <1>7, PrivateKeeps

(* Peek goes on to its TTL with what it has read. *)
LEMMA PeekTTLKeeps ==
    ASSUME IInv, NEW t \in Threads, PeekTTL(t), Typed'
    PROVE  IInv'
<1>1. lim[t].key \in Keys BY DEF PeekTTL, IInv, Tracked, Track
<1>2. Store!ReadItem(t, "TTL", lim[t].key) BY DEF PeekTTL, Store!TTL
<1>3. ret[t].value \in Int BY Shapes DEF PeekTTL, Store!Replies
<1>4. lim[t].drift # "endless" => ret[t].value <= lim[t].truth
  BY DEF PeekTTL, IInv, Tracked, Track, HasRead
<1>5. /\ lim' \in [Threads -> Places] /\ result' \in [Threads -> Results]
      /\ lim'[t].at = "ttl" /\ lim'[t].key = lim[t].key /\ lim'[t].count = ret[t].value
      /\ lim'[t].truth = lim[t].truth /\ lim'[t].drift = lim[t].drift
      /\ \A u \in Threads \ {t} : lim'[u] = lim[u]
  <2>1. lim \in [Threads -> Places] /\ lim[t] \in Places /\ result \in [Threads -> Results]
    BY Shapes
  <2>2. /\ lim' = [lim EXCEPT ![t].at = "ttl", ![t].count = ret[t].value]
        /\ result' = result
    BY DEF PeekTTL
  <2>3. PICK p : p = [lim[t] EXCEPT !.at = "ttl", !.count = ret[t].value] OBVIOUS
  <2>4. /\ p \in Places /\ p.at = "ttl" /\ p.key = lim[t].key /\ p.count = ret[t].value
        /\ p.truth = lim[t].truth /\ p.drift = lim[t].drift
    BY <1>3, <2>1, <2>3 DEF Places
  <2>5. lim' = [lim EXCEPT ![t] = p] BY <2>1, <2>2, <2>3
  <2> QED BY <2>1, <2>2, <2>4, <2>5
<1>6. Private(t) BY <1>1, <1>2, <1>5, ReadEffect, Shapes DEF PeekTTL, Private
<1>7. Sized(call[t].item)' BY <1>1, <1>2, ReadEffect DEF Sized
<1>8. Track(t)' BY <1>1, <1>4, <1>5 DEF PeekTTL, IInv, Tracked, Track, Fair
<1> QED BY <1>5, <1>6, <1>7, <1>8, PrivateKeeps

(* A goroutine that gives up or is done has nothing left to track. *)
LEMMA NoneIsPlace == /\ None \in Places /\ None.at = "idle" /\ Fair(None)
                     /\ None.count = 0 /\ None.truth = 0
BY DEF None, Places, Drifts, Fair

(* The answers: what was read is reported with its truth. *)
LEMMA AnswerKeeps ==
    ASSUME IInv, NEW t \in Threads, PeekMiss(t) \/ PeekFail(t) \/ Finish(t), Typed'
    PROVE  IInv'
<1>1. /\ lim' = [lim EXCEPT ![t] = None]
      /\ UNCHANGED <<items, clock, call, ret, stamps, hits, drift>>
  BY DEF PeekMiss, PeekFail, Finish, storeVars
<1>2. /\ lim' \in [Threads -> Places] /\ lim'[t] = None
      /\ \A u \in Threads \ {t} : lim'[u] = lim[u]
  BY <1>1, NoneIsPlace, Shapes
<1>3. PICK op \in {"none", "Hit", "Peek"}, out \in {"ok", "error"}, l \in Places :
        /\ result' = [result EXCEPT ![t] = Result(op, out, l)]
        /\ Fair(l)
  <2>1. Fair(lim[t]) /\ lim[t] \in Places BY Shapes DEF IInv, Tracked, Track
  <2>2. lim[t].op \in {"none", "Hit", "Peek"} BY <2>1 DEF Places
  <2>3. CASE PeekMiss(t) BY <2>1, <2>3 DEF PeekMiss
  <2>4. CASE PeekFail(t) BY <2>4, NoneIsPlace DEF PeekFail
  <2>5. CASE Finish(t) BY <2>1, <2>2, <2>5 DEF Finish
  <2> QED BY <2>3, <2>4, <2>5
<1>4. Result(op, out, l) \in Results /\ Fair(Result(op, out, l))
  BY <1>3 DEF Result, Results, Places, Fair
<1>5. /\ result' \in [Threads -> Results] /\ result'[t] = Result(op, out, l)
      /\ \A u \in Threads \ {t} : result'[u] = result[u]
  BY <1>3, <1>4, Shapes
<1>6. Private(t) BY <1>1, <1>2, <1>5, Shapes DEF Private
<1>7. Sized(call[t].item)' BY <1>1 DEF IInv, Widths, Sized
<1>8. Track(t)' BY <1>2, <1>4, <1>5, NoneIsPlace DEF Track, Fair
<1> QED BY <1>2, <1>5, <1>6, <1>7, <1>8, PrivateKeeps

(* A Hit that finds bytes it cannot parse. *)
LEMMA HitFailKeeps ==
    ASSUME IInv, NEW t \in Threads, NEW k \in Keys, HitFail(t, k), Typed'
    PROVE  IInv'
<1>1. /\ lim[t].at = "idle" /\ lim' = lim
      /\ UNCHANGED <<items, clock, stamps, hits, drift>>
      /\ call' = [call EXCEPT ![t] = Store!Idle]
      /\ ret' = [ret EXCEPT ![t] = Store!Reply("Increment", "error", 0)]
      /\ result' = [result EXCEPT ![t] = Result("Hit", "error", None)]
  BY DEF HitFail, Free, Store!IncrementFail, Store!Return
<1>2. Result("Hit", "error", None) \in Results /\ Fair(Result("Hit", "error", None))
  BY NoneIsPlace DEF Result, Results, Places, Fair
<1>3. lim' \in [Threads -> Places] /\ result' \in [Threads -> Results]
  BY <1>1, <1>2, Shapes
<1>4. Private(t) BY <1>1, Shapes DEF Private
<1>5. call'[t].item.value = Text BY <1>1, Shapes DEF Store!Idle, Store!Absent
<1>6. Sized(call[t].item)' BY <1>5 DEF Sized
<1>7. result'[t] = Result("Hit", "error", None) BY <1>1, Shapes
<1>8. Track(t)' BY <1>1, <1>2, <1>7 DEF Track, IInv, Tracked, Fair
<1> QED BY <1>3, <1>4, <1>6, <1>8, PrivateKeeps

(* Another component builds its item, some number of hits or text. *)
LEMMA ForeignSetKeeps ==
    ASSUME IInv, NEW t \in Threads, NEW k \in Keys, ForeignSet(t, k), Typed'
    PROVE  IInv'
<1>1. PICK v \in Inputs, ttl \in TTLs : Store!Set(t, k, v, ttl) BY DEF ForeignSet
<1>2. /\ lim[t].at = "idle" /\ lim' = lim /\ result' = result
      /\ UNCHANGED <<items, clock, ret, hits, drift>> /\ stamps' = stamps + 1
  BY <1>1 DEF ForeignSet, Free, Store!Set
<1>3. call'[t].item.value = v /\ \A u \in Threads \ {t} : call'[u] = call[u]
  BY <1>1, Shapes DEF Store!Set
<1>4. Private(t) BY <1>2, <1>3, Shapes DEF Private
<1>5. v \in Int \union {Text} BY LimiterAssumption DEF Values, Int64
<1>6. v # Text => 0 <= v /\ v + MaxWrites <= MaxInt BY CountAssumption
<1>7. Sized(call[t].item)' BY <1>2, <1>3, <1>5, <1>6, Shapes DEF Sized
<1>8. Track(t)' BY <1>2 DEF Track, IInv, Tracked, Fair
<1>9. lim' \in [Threads -> Places] /\ result' \in [Threads -> Results] BY <1>2, Shapes
<1> QED BY <1>4, <1>7, <1>8, <1>9, PrivateKeeps

(* The reader compares its copy with the clock, holding no lock. *)
LEMMA StoreCheckKeeps ==
    ASSUME IInv, NEW t \in Threads, StoreCheck(t), Typed'
    PROVE  IInv'
<1>1. /\ lim' = lim /\ result' = result /\ UNCHANGED <<items, clock, stamps, hits, drift>>
      /\ call[t].at = "check"
  BY DEF StoreCheck, Store!GetCheck, Store!TTLCheck
<1>2. \/ /\ call' = [call EXCEPT ![t].at = "drop"] /\ ret' = ret
      \/ /\ call' = [call EXCEPT ![t] = Store!Idle]
         /\ \E r : ret' = [ret EXCEPT ![t] = r]
         /\ call[t].op = "Get" => /\ ~Expired(call[t].item.expiresAt, clock)
                                  /\ ret' = [ret EXCEPT ![t] =
                                              Store!Reply("Get", "ok", call[t].item.value)]
  <2>1. CASE Store!GetCheck(t)
    BY <2>1 DEF Store!GetCheck, Store!Return, Store!Expired, Expired
  <2>2. CASE Store!TTLCheck(t)
    BY <2>2 DEF Store!TTLCheck, Store!Return
  <2> QED BY <2>1, <2>2 DEF StoreCheck
<1>3. \A u \in Threads \ {t} : call'[u] = call[u] /\ ret'[u] = ret[u]
  BY <1>2, Shapes
<1>4. Private(t) BY <1>1, <1>3, Shapes DEF Private
<1>5. Sized(call[t].item)'
  <2>1. call'[t].item = call[t].item \/ call'[t].item.value = Text
    BY <1>2, Shapes DEF Store!Calls, Store!Idle, Store!Absent
  <2> QED BY <2>1, <1>1 DEF IInv, Widths, Sized
<1>6. Track(t)'
  <2>1. CASE lim[t].at # "get" BY <2>1, <1>1 DEF Track, IInv, Tracked, Fair
  <2>2. CASE lim[t].at = "get"
    <3>1. Reading(t) BY <1>1, <2>2 DEF IInv, Tracked, Track
    <3>2. CASE call' = [call EXCEPT ![t].at = "drop"] /\ ret' = ret
      <4>1. /\ call'[t].at = "drop" /\ call'[t].op = call[t].op
            /\ call'[t].item = call[t].item
        BY <3>2, Shapes DEF Store!Calls
      <4>2. Reading(t)' BY <4>1, <3>1, <1>1 DEF Reading, Counting
      <4> QED BY <4>1, <4>2, <1>1 DEF Track, IInv, Tracked, Fair
    <3>3. CASE call' = [call EXCEPT ![t] = Store!Idle]
      <4>1. call'[t].at = "idle" BY <3>3, Shapes DEF Store!Idle
      <4>2. /\ ~Expired(call[t].item.expiresAt, clock)
            /\ ret'[t] = Store!Reply("Get", "ok", call[t].item.value)
        BY <1>2, <3>1, <4>1, <1>1, Shapes DEF Reading, Store!Calls
      <4>3. Store!Found(call[t].item) BY <1>1 DEF IInv, Typed
      <4>4. call[t].item.value # Text => Counting(call[t].item)
        BY <4>2, <4>3 DEF Counting, Store!Live, Store!Expired, Expired
      <4>5. HasRead(t)'
        BY <4>2, <4>4, <3>1, <1>1 DEF HasRead, Reading, Store!Reply
      <4> QED BY <4>1, <4>5, <1>1 DEF Track, IInv, Tracked, Fair
    <3> QED BY <3>2, <3>3, <1>2
  <2> QED BY <2>1, <2>2
<1>7. lim' \in [Threads -> Places] /\ result' \in [Threads -> Results] BY <1>1, Shapes
<1> QED BY <1>4, <1>5, <1>6, <1>7, PrivateKeeps

HitSets == [counting : BOOLEAN, count : Nat, expiresAt : Nat]

(* A step of t on the counter of k. *)
Public(t, k) == /\ clock' = clock /\ stamps <= stamps' /\ stamps' \in Nat
                /\ \A l \in Keys \ {k} : /\ items'[l] = items[l] /\ hits'[l] = hits[l]
                                          /\ drift'[l] = drift[l]
                /\ \A u \in Threads \ {t} : /\ call'[u] = call[u] /\ ret'[u] = ret[u]
                                             /\ lim'[u] = lim[u] /\ result'[u] = result[u]

(* It keeps the invariant if the parts of t and of k do. *)
LEMMA PublicKeeps ==
    ASSUME IInv, NEW t \in Threads, NEW k \in Keys, Public(t, k), Typed',
           lim' \in [Threads -> Places], result' \in [Threads -> Results],
           hits' \in [Keys -> HitSets], drift' \in [Keys -> Drifts],
           Sized(items[k])', Sized(call[t].item)', Agree(k)', Track(t)'
    PROVE  IInv'
<1>1. TypeOK' BY DEF IInv, TypeOK, Typed, HitSets
<1>2. Widths'
  <2>1. ASSUME NEW l \in Keys \ {k} PROVE Sized(items[l])'
    BY <2>1, Shapes DEF IInv, Widths, Public, Sized
  <2>2. ASSUME NEW u \in Threads \ {t} PROVE Sized(call[u].item)'
    BY <2>2, Shapes DEF IInv, Widths, Public, Sized
  <2> QED BY <2>1, <2>2 DEF Widths
<1>3. Agreed'
  <2>1. ASSUME NEW l \in Keys \ {k} PROVE Agree(l)'
    BY <2>1 DEF IInv, Agreed, Agree, Public, Counting, Open
  <2> QED BY <2>1 DEF Agreed
<1>4. Tracked'
  <2>1. ASSUME NEW u \in Threads \ {t} PROVE Track(u)'
    BY <2>1 DEF IInv, Tracked, Track, Public, Fair, Reading, HasRead, Counting
  <2> QED BY <2>1 DEF Tracked
<1> QED BY <1>1, <1>2, <1>3, <1>4 DEF IInv

(* The sizes are those of a fresh goroutine after every write. *)
LEMMA IdleFacts == /\ Store!Idle.at = "idle" /\ Store!Idle.item.value = Text
                   /\ Store!Absent.value = Text /\ ~Store!Found(Store!Absent)
                   /\ NoHits \in HitSets /\ ~NoHits.counting
BY DEF Store!Idle, Store!Absent, Store!Found, NoHits, HitSets

(* Reset deletes the counter and the hits. *)
LEMMA ResetKeeps ==
    ASSUME IInv, NEW t \in Threads, NEW k \in Keys, Reset(t, k), Typed'
    PROVE  IInv'
<1>1. /\ lim[t].at = "idle" /\ lim' = lim /\ result' = result
      /\ UNCHANGED <<clock, stamps>>
      /\ items' = [items EXCEPT ![k] = Store!Absent]
      /\ call' = [call EXCEPT ![t] = Store!Idle]
      /\ ret' = [ret EXCEPT ![t] = Store!Reply("Delete", "ok", 0)]
      /\ hits' = [hits EXCEPT ![k] = NoHits]
      /\ drift' = [drift EXCEPT ![k] = "none"]
  BY DEF Reset, Free, Store!Delete, Store!Return, limVars
<1>2. /\ items'[k] = Store!Absent /\ hits'[k] = NoHits /\ call'[t] = Store!Idle
      /\ lim' \in [Threads -> Places] /\ result' \in [Threads -> Results]
      /\ hits' \in [Keys -> HitSets] /\ drift' \in [Keys -> Drifts]
  BY <1>1, IdleFacts, Shapes DEF Drifts, HitSets
<1>3. Public(t, k) BY <1>1, Shapes DEF Public
<1>4. Sized(items[k])' /\ Sized(call[t].item)' BY <1>2, IdleFacts DEF Sized
<1>5. Agree(k)' BY <1>2, IdleFacts DEF Agree, Counting, Store!Live, Open
<1>6. Track(t)' BY <1>1 DEF Track, IInv, Tracked, Fair
<1> QED BY <1>2, <1>3, <1>4, <1>5, <1>6, PublicKeeps

(* Another component's item replaces the counter. *)
LEMMA ForeignStoreKeeps ==
    ASSUME IInv, NEW t \in Threads, ForeignStore(t), Typed'
    PROVE  IInv'
<1>0. PICK k, item : k = call[t].key /\ item = call[t].item OBVIOUS
<1>1. k \in Keys /\ call[t].at = "store" /\ Store!Found(item)
  BY <1>0 DEF ForeignStore, Store!SetStore, IInv, Typed
<1>2. /\ lim' = lim /\ result' = result /\ UNCHANGED <<clock, stamps>>
      /\ items' = [items EXCEPT ![k] = item]
      /\ call' = [call EXCEPT ![t] = Store!Idle]
      /\ ret' = [ret EXCEPT ![t] = Store!Reply("Set", "ok", 0)]
      /\ hits' = [hits EXCEPT ![k] = Stored(item)]
      /\ drift' = [drift EXCEPT ![k] = "none"]
  BY <1>0 DEF ForeignStore, Store!SetStore, Store!Return, limVars
<1>3. Sized(item) BY <1>0 DEF IInv, Widths
<1>4. /\ item.value \in Int \union {Text} /\ item.expiresAt \in Nat
      /\ Stored(item) \in HitSets
  BY <1>0, <1>3, Shapes, IdleFacts DEF Stored, Hits, HitSets, Sized
<1>5. /\ items'[k] = item /\ hits'[k] = Stored(item) /\ drift'[k] = "none"
      /\ call'[t] = Store!Idle
      /\ lim' \in [Threads -> Places] /\ result' \in [Threads -> Results]
      /\ hits' \in [Keys -> HitSets] /\ drift' \in [Keys -> Drifts]
  BY <1>1, <1>2, <1>4, IdleFacts, Shapes DEF Drifts, HitSets
<1>6. Public(t, k) BY <1>1, <1>2, Shapes DEF Public
<1>7. Sized(items[k])' BY <1>2, <1>3, <1>5 DEF Sized
<1>8. Sized(call[t].item)' BY <1>5, IdleFacts DEF Sized
<1>9. Agree(k)'
  BY <1>1, <1>4, <1>5, IdleFacts
  DEF Agree, Counting, Store!Live, Store!Expired, Open, Expired, Stored, Hits
<1>10. Track(t)'
  <2>1. lim[t].at # "get" BY <1>1 DEF IInv, Tracked, Track, Reading
  <2> QED BY <2>1, <1>2 DEF Track, IInv, Tracked, Fair
<1> QED BY <1>1, <1>5, <1>6, <1>7, <1>8, <1>9, <1>10, PublicKeeps

(* A sweep: what was counted is lost, and the reader of an expired copy has   *)
(* missed it.                                                                 *)
LEMMA StoreDropKeeps ==
    ASSUME IInv, NEW t \in Threads, StoreDrop(t), Typed'
    PROVE  IInv'
<1>0. PICK k : k = call[t].key OBVIOUS
<1>1. k \in Keys BY <1>0 DEF StoreDrop, Store!DropExpired, IInv, Typed
<1>2. /\ lim' = lim /\ result' = result /\ UNCHANGED <<clock, stamps, hits>>
      /\ items' = [items EXCEPT ![k] = Store!Absent]
      /\ call' = [call EXCEPT ![t] = Store!Idle]
      /\ ret' = [ret EXCEPT ![t] = Store!Reply(call[t].op, "miss", 0)]
      /\ drift' = [drift EXCEPT ![k] = IF Store!Live(items[k], clock) THEN "short" ELSE @]
  BY <1>0 DEF StoreDrop, Store!DropExpired, Store!Return
<1>3. /\ items'[k] = Store!Absent /\ call'[t] = Store!Idle /\ ret'[t].out = "miss"
      /\ drift'[k] = IF Store!Live(items[k], clock) THEN "short" ELSE drift[k]
      /\ lim' \in [Threads -> Places] /\ result' \in [Threads -> Results]
      /\ hits' \in [Keys -> HitSets] /\ drift' \in [Keys -> Drifts]
  BY <1>1, <1>2, Shapes DEF Drifts, HitSets, Store!Reply
<1>4. Public(t, k) BY <1>1, <1>2, Shapes DEF Public
<1>5. Sized(items[k])' /\ Sized(call[t].item)' BY <1>3, IdleFacts DEF Sized
<1>6. Agree(k)'
  BY <1>1, <1>2, <1>3, IdleFacts
  DEF Agree, Counting, Store!Live, Open, IInv, Agreed
<1>7. Track(t)'
  BY <1>2, <1>3, IdleFacts DEF Track, HasRead, IInv, Tracked, Fair
<1> QED BY <1>1, <1>3, <1>4, <1>5, <1>6, <1>7, PublicKeeps

(* What Hit's Increment leaves under k.  The sum stays in the int64 range. *)
LEMMA HitEffect ==
    ASSUME IInv, NEW t \in Threads, NEW k \in Keys, NEW w \in Windows, Hit(t, k, w)
    PROVE  /\ w \in Int /\ clock' = clock /\ stamps' = stamps + 1 /\ result' = result
           /\ Store!Live(items[k], clock) => items[k].value # Text
           /\ items' = [items EXCEPT ![k] =
                 [value     |-> Counted(k) + 1,
                  expiresAt |-> IF w > 0 THEN clock + w
                                ELSE IF Store!Live(items[k], clock) THEN items[k].expiresAt
                                ELSE 0,
                  stamp     |-> stamps + 1]]
           /\ call' = [call EXCEPT ![t] = Store!Idle]
           /\ ret' = [ret EXCEPT ![t] = Store!Reply("Increment", "ok", Counted(k) + 1)]
           /\ Counted(k) \in Nat
           /\ Counted(k) + 1 + MaxWrites <= MaxInt + stamps'
<1>1. w \in Int BY LimiterAssumption
<1>2. Store!Increment(t, k, 1, w) /\ stamps < MaxWrites BY DEF Hit, Store!Increment
<1>3. Sized(items[k]) BY DEF IInv, Widths
<1>4. ~Store!Found(Store!Absent) /\ Store!Absent.expiresAt = 0
  BY DEF Store!Found, Store!Absent
<1>5. Store!Live(items[k], clock) => items[k].value # Text
  BY <1>2 DEF Store!Increment, Store!Base, Store!Current, Store!Live
<1>6. /\ Store!Current(Store!Base(items[k])) = Counted(k)
      /\ Store!Base(items[k]).expiresAt =
            IF Store!Live(items[k], clock) THEN items[k].expiresAt ELSE 0
  BY <1>4, <1>5 DEF Counted, Store!Base, Store!Current, Store!Live
<1>7. Counted(k) \in Nat /\ Counted(k) + MaxWrites <= MaxInt + stamps
  BY <1>3, Shapes, CountAssumption DEF Counted, Sized
<1>8. Store!Wrap(Counted(k) + 1) = Counted(k) + 1
  BY <1>2, <1>7, Shapes DEF Store!Wrap
<1>9. /\ items' = [items EXCEPT ![k] =
              [value     |-> Store!Wrap(Store!Current(Store!Base(items[k])) + 1),
               expiresAt |-> IF w > 0 THEN clock + w ELSE Store!Base(items[k]).expiresAt,
               stamp     |-> stamps + 1]]
      /\ call' = [call EXCEPT ![t] = Store!Idle]
      /\ ret' = [ret EXCEPT ![t] = Store!Reply("Increment", "ok",
                                      Store!Wrap(Store!Current(Store!Base(items[k])) + 1))]
      /\ clock' = clock /\ stamps' = stamps + 1 /\ result' = result
  BY <1>2, Zenon DEF Hit, Store!Increment, Store!Return
<1>10. /\ items' = [items EXCEPT ![k] =
              [value     |-> Counted(k) + 1,
               expiresAt |-> IF w > 0 THEN clock + w
                             ELSE IF Store!Live(items[k], clock) THEN items[k].expiresAt
                             ELSE 0,
               stamp     |-> stamps + 1]]
       /\ ret' = [ret EXCEPT ![t] = Store!Reply("Increment", "ok", Counted(k) + 1)]
  <2>1. Store!Wrap(Store!Current(Store!Base(items[k])) + 1) = Counted(k) + 1
    BY <1>6, <1>8
  <2> QED BY <2>1, <1>6, <1>9, Zenon
<1>11. Counted(k) + 1 + MaxWrites <= MaxInt + stamps'
  BY <1>7, <1>9, Shapes
<1> QED BY <1>1, <1>5, <1>7, <1>9, <1>10, <1>11, Zenon

(* Hit counts once in the store and once in the reference. *)
LEMMA HitKeeps ==
    ASSUME IInv, NEW t \in Threads, NEW k \in Keys, NEW w \in Windows, Hit(t, k, w), Typed'
    PROVE  IInv'
<1>1. PICK c, e : /\ c = Counted(k) + 1
                  /\ e = IF w > 0 THEN clock + w
                          ELSE IF Store!Live(items[k], clock) THEN items[k].expiresAt
                          ELSE 0
  OBVIOUS
<1>2. PICK h : h = OneMore(hits[k], w) OBVIOUS
<1>3. /\ c \in Nat /\ e \in Nat /\ h \in HitSets
      /\ h.counting
      /\ h.count = IF Open(hits[k]) THEN hits[k].count + 1 ELSE 1
      /\ h.expiresAt = IF w > 0 THEN clock + w
                       ELSE IF Open(hits[k]) THEN hits[k].expiresAt ELSE 0
  BY <1>1, <1>2, HitEffect, Shapes DEF OneMore, Hits, HitSets
<1>4. /\ items'[k].value = c /\ items'[k].expiresAt = e
      /\ hits'[k] = h /\ hits' \in [Keys -> HitSets]
      /\ call'[t] = Store!Idle /\ ret'[t].value = c
      /\ result' \in [Threads -> Results]
  <2>1. items'[k] = [value |-> c, expiresAt |-> e, stamp |-> stamps + 1]
    BY <1>1, HitEffect, Shapes
  <2>2. hits' = [hits EXCEPT ![k] = h] BY <1>2 DEF Hit
  <2>3. hits'[k] = h /\ hits' \in [Keys -> HitSets] BY <2>2, <1>3, Shapes DEF HitSets
  <2>4. ret'[t] = Store!Reply("Increment", "ok", c) BY <1>1, HitEffect, Shapes
  <2>5. call'[t] = Store!Idle /\ result' \in [Threads -> Results] BY HitEffect, Shapes
  <2> QED BY <2>1, <2>3, <2>4, <2>5 DEF Store!Reply
<1>5. /\ drift' \in [Keys -> Drifts]
      /\ drift'[k] = IF Escapes(k, w) THEN "endless" ELSE drift[k]
  BY Shapes DEF Hit, Drifts
<1>6. lim'[t] = [at |-> "counted", op |-> "Hit", key |-> k, count |-> c,
                 truth |-> h.count, drift |-> drift'[k]]
  BY <1>4, Shapes DEF Hit
<1>7. lim' \in [Threads -> Places]
  <2>1. /\ lim' = [lim EXCEPT ![t] = lim'[t]]
        /\ h.count \in Nat /\ drift'[k] \in Drifts
    BY <1>3, <1>5, Shapes DEF Hit, HitSets
  <2>2. lim'[t] \in Places BY <1>3, <1>6, <2>1 DEF Places
  <2> QED BY <2>1, <2>2, Shapes
<1>8. Public(t, k)
  <2>1. /\ clock' = clock /\ stamps' = stamps + 1 /\ result' = result
        /\ \A l \in Keys \ {k} : items'[l] = items[l]
        /\ \A u \in Threads \ {t} : call'[u] = call[u] /\ ret'[u] = ret[u]
    BY HitEffect, Shapes
  <2>2. /\ \A l \in Keys \ {k} : hits'[l] = hits[l] /\ drift'[l] = drift[l]
        /\ \A u \in Threads \ {t} : lim'[u] = lim[u]
    BY Shapes DEF Hit
  <2> QED BY <2>1, <2>2, Shapes DEF Public
<1>9. Sized(items[k])' /\ Sized(call[t].item)'
  BY <1>1, <1>3, <1>4, HitEffect, IdleFacts DEF Sized
<1>10. /\ drift'[k] # "endless" => e = h.expiresAt /\ c <= h.count
       /\ drift'[k] = "none" => c = h.count
  <2>1. CASE Store!Live(items[k], clock)
    <3>1. Counting(items[k]) /\ Counted(k) = items[k].value
      BY <2>1, HitEffect DEF Counting, Counted
    <3>2. drift'[k] = drift[k] BY <2>1, <1>5 DEF Escapes
    <3>3. Agree(k) BY DEF IInv, Agreed
    <3>4. items[k].value \in Int /\ hits[k].count \in Nat BY <3>1, Shapes DEF Counting
    <3>5. c = items[k].value + 1 BY <3>1, <1>1
    <3>6. e = IF w > 0 THEN clock + w ELSE items[k].expiresAt BY <2>1, <1>1
    <3> QED BY <3>1, <3>2, <3>3, <3>4, <3>5, <3>6, <1>3 DEF Agree
  <2>2. CASE ~Store!Live(items[k], clock)
    <3>1. c = 1 /\ ~Counting(items[k]) BY <2>2, <1>1 DEF Counted, Counting
    <3>2. 1 <= h.count BY <1>3, Shapes
    <3>3. drift[k] = "none" => ~Open(hits[k]) BY <3>1 DEF IInv, Agreed, Agree
    <3>4. CASE drift[k] = "none" BY <3>1, <3>3, <3>4, <1>1, <1>3, <1>5, <2>2 DEF Escapes
    <3>5. CASE drift[k] = "short"
      BY <3>1, <3>2, <3>5, <1>1, <1>3, <1>5, <2>2, HitEffect, Shapes DEF Escapes
    <3>6. CASE drift[k] = "endless" BY <3>6, <1>5 DEF Escapes
    <3> QED BY <3>4, <3>5, <3>6, Shapes DEF Drifts
  <2> QED BY <2>1, <2>2
<1>11. Agree(k)'
  <2>1. drift'[k] # "endless" /\ Counting(items[k])' => Open(hits[k])'
    BY <1>3, <1>4, <1>10 DEF Counting, Store!Live, Store!Expired, Open, Expired
  <2>2. drift'[k] = "none" => Counting(items[k])' \/ ~Open(hits[k])'
    <3>1. Store!Found(items'[k]) /\ items'[k].value # Text
      BY <1>3, <1>4, HitEffect, Shapes, TextAssumption DEF Store!Found
    <3> QED
      BY <3>1, <1>4, <1>10 DEF Counting, Store!Live, Store!Expired, Open, Expired
  <2> QED BY <2>1, <2>2, <1>4, <1>10 DEF Agree
<1>12. Track(t)'
  BY <1>4, <1>6, <1>10, HitEffect DEF Track, Fair, IInv, Tracked
<1> QED BY <1>4, <1>5, <1>7, <1>8, <1>9, <1>11, <1>12, PublicKeeps

(* Time closes the counter and the reference together. *)
LEMMA TickKeeps ==
    ASSUME IInv, Tick, Typed'
    PROVE  IInv'
<1>1. /\ clock \in Nat /\ clock' = clock + 1
      /\ UNCHANGED <<items, call, ret, stamps, lim, result, hits, drift>>
  BY Shapes DEF Tick, Store!Tick
<1>2. TypeOK' BY <1>1 DEF IInv, TypeOK, Typed
<1>3. Widths' BY <1>1 DEF IInv, Widths, Sized
<1>4. Agreed'
  <2>1. ASSUME NEW k \in Keys PROVE Agree(k)'
    <3>1. items[k].expiresAt \in Nat /\ hits[k].expiresAt \in Nat BY <2>1, Shapes
    <3>2. Agree(k) BY <2>1 DEF IInv, Agreed
    <3> QED
      BY <3>1, <3>2, <1>1
      DEF Agree, Counting, Store!Live, Store!Expired, Open, Expired
  <2> QED BY <2>1 DEF Agreed
<1>5. Tracked'
  <2>1. ASSUME NEW t \in Threads PROVE Track(t)'
    <3>1. call[t].item.expiresAt \in Nat /\ Track(t) BY <2>1, Shapes DEF IInv, Tracked
    <3>2. Counting(call[t].item)' => Counting(call[t].item)
      BY <3>1, <1>1 DEF Counting, Store!Live, Store!Expired
    <3> QED BY <3>1, <3>2, <1>1 DEF Track, Fair, Reading, HasRead
  <2> QED BY <2>1 DEF Tracked
<1> QED BY <1>2, <1>3, <1>4, <1>5 DEF IInv

(* Every step keeps the invariant. *)
LEMMA IInvStep == IInv /\ [Next]_vars => IInv'
<1> SUFFICES ASSUME IInv, [Next]_vars PROVE IInv'
  OBVIOUS
<1>0. Typed' BY TypedStep
<1>1. CASE UNCHANGED vars
  <2>1. UNCHANGED <<items, clock, call, ret, stamps, lim, result, hits, drift>>
    BY <1>1 DEF vars, storeVars
  <2>2. TypeOK' BY <1>0, <2>1 DEF IInv, TypeOK, Typed
  <2>3. Widths' BY <2>1 DEF IInv, Widths, Sized
  <2>4. Agreed' BY <2>1 DEF IInv, Agreed, Agree, Counting, Open
  <2>5. Tracked' BY <2>1 DEF IInv, Tracked, Track, Fair, Reading, HasRead, Counting
  <2> QED BY <1>0, <2>2, <2>3, <2>4, <2>5 DEF IInv
<1>2. CASE Tick BY <1>0, <1>2, TickKeeps
<1>3. ASSUME NEW t \in Threads,
             \/ HitTTL(t) \/ PeekMiss(t) \/ PeekFail(t) \/ PeekTTL(t) \/ Finish(t)
             \/ ForeignStore(t) \/ StoreCheck(t) \/ StoreDrop(t)
      PROVE  IInv'
  BY <1>0, <1>3, HitTTLKeeps, AnswerKeeps, PeekTTLKeeps, ForeignStoreKeeps,
     StoreCheckKeeps, StoreDropKeeps
<1>4. ASSUME NEW t \in Threads, NEW k \in Keys,
             HitFail(t, k) \/ Peek(t, k) \/ Reset(t, k) \/ ForeignSet(t, k)
      PROVE  IInv'
  BY <1>0, <1>4, HitFailKeeps, PeekKeeps, ResetKeeps, ForeignSetKeeps
<1>5. ASSUME NEW t \in Threads, NEW k \in Keys, NEW w \in Windows, Hit(t, k, w)
      PROVE  IInv'
  BY <1>0, <1>5, HitKeeps
<1> QED BY <1>1, <1>2, <1>3, <1>4, <1>5 DEF Next

(* It holds before the first call. *)
LEMMA IInvInit == Init => IInv
<1> SUFFICES ASSUME Init PROVE IInv
  OBVIOUS
<1>1. Typed
  <2>1. Mem!Init
    BY Zenon DEF Init, Store!Init, Store!Absent, Store!Idle, Store!Reply, Store!Stamps,
           Store!Unwritten, Mem!Init, Mem!Absent, Mem!Idle, Mem!Reply, Mem!Stamps,
           Mem!Unwritten
  <2>2. Mem!Typed
    BY <2>1, Mem!TypedInit, StoreAssumptions, RangeAssumption, TextAssumption
  <2> QED BY <2>2, SameTyped
<1>2. /\ lim = [t \in Threads |-> None] /\ hits = [k \in Keys |-> NoHits]
      /\ result = [t \in Threads |-> Result("none", "ok", None)]
      /\ drift = [k \in Keys |-> "none"]
      /\ items = [k \in Keys |-> Store!Absent]
      /\ call = [t \in Threads |-> Store!Idle]
  BY DEF Init, Store!Init
<1>3. Result("none", "ok", None) \in Results /\ Fair(Result("none", "ok", None))
  BY NoneIsPlace DEF Result, Results, Places, Fair
<1>4. TypeOK
  BY <1>1, <1>2, <1>3, NoneIsPlace, IdleFacts DEF TypeOK, Typed, HitSets, Drifts
<1>5. Widths BY <1>2, IdleFacts DEF Widths, Sized
<1>6. Agreed BY <1>2, IdleFacts DEF Agreed, Agree, Counting, Store!Live, Open
<1>7. Tracked BY <1>2, <1>3, NoneIsPlace DEF Tracked, Track
<1> QED BY <1>1, <1>4, <1>5, <1>6, <1>7 DEF IInv

(* The invariant of rate_limit.go on memory.go, for every number of keys and  *)
(* callers, every window and every order of calls, sweeps, foreign writes and *)
(* ticks.                                                                     *)
THEOREM IInvHolds == Spec => []IInv
BY IInvInit, IInvStep, PTL DEF Spec

(* The states of Hit and Peek and of the store under them keep their types. *)
THEOREM TypeOKHolds == Spec => []TypeOK
<1>1. IInv => TypeOK BY DEF IInv
<1> QED BY <1>1, IInvHolds, PTL

(* The limiter uses its store by the store's own operations only, so every    *)
(* theorem about memory.go holds of the store under it.                       *)
THEOREM UsesStore == Spec => Mem!Spec
<1>1. Init => Mem!Init
  BY Zenon DEF Init, Store!Init, Store!Absent, Store!Idle, Store!Reply, Store!Stamps,
         Store!Unwritten, Mem!Init, Mem!Absent, Mem!Idle, Mem!Reply, Mem!Stamps,
         Mem!Unwritten
<1> QED BY <1>1, StoreStep, IInvHolds, PTL DEF Spec, Mem!Spec

(* Nobody is refused without cause (rate_limit.go:18): what Hit and Peek      *)
(* report as exceeded had Limit hits of its window, unless the counter had    *)
(* escaped its window after a stale sweep.                                    *)
THEOREM ExceededIsDeservedHolds == Spec => []ExceededIsDeserved
<1>1. IInv => ExceededIsDeserved
  <2> SUFFICES ASSUME IInv, NEW t \in Threads,
                      Exceeded(result[t]), result[t].drift # "endless"
               PROVE  result[t].truth >= Limit
    BY DEF ExceededIsDeserved
  <2>1. result[t].count \in Int /\ result[t].truth \in Nat BY Shapes DEF Results
  <2>2. result[t].count <= result[t].truth BY DEF IInv, Tracked, Track, Fair
  <2> QED BY <2>1, <2>2, LimiterAssumption DEF Exceeded
<1> QED BY <1>1, IInvHolds, PTL

(* While no stale sweep has hit a key, its counter in the store is the number *)
(* of hits of the window, no more and no less.                                *)
THEOREM ExactUnlessSweptHolds == Spec => []ExactUnlessSwept
<1>1. IInv => ExactUnlessSwept
  <2> SUFFICES ASSUME IInv, NEW k \in Keys, drift[k] = "none"
               PROVE  Counted(k) = Truth(k)
    BY DEF ExactUnlessSwept
  <2>1. Agree(k) BY DEF IInv, Agreed
  <2> QED BY <2>1 DEF Agree, Counting, Counted, Truth
<1> QED BY <1>1, IInvHolds, PTL
=============================================================================
