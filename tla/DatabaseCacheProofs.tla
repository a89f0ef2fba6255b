------------------------ MODULE DatabaseCacheProofs ------------------------
(* DatabaseCache, for every set of keys and goroutines, either database and   *)
(* every bound.                                                               *)
EXTENDS DatabaseCache, TLAPS

\* The stamp a goroutine carries: of the row it is about to write, or of the
\* one its Take has removed and not yet returned.
Writing(c) == c.at \in {"begin", "open", "write", "commit"} /\ c.op \in {"Set", "Increment"}

Mark(c) == IF Writing(c) THEN c.new.stamp
           ELSE IF c.at = "taken" THEN c.seen.stamp ELSE 0

(* Each goroutine against the step it is in; a missing row has one form. *)
WellFormed ==
    /\ \A t \in Threads :
         /\ tx[t].at # "idle" => tx[t].key \in Keys
         /\ tx[t].at \in {"begin", "open", "write", "commit"}
               => tx[t].op \in {"Set", "Take", "Increment"}
         /\ tx[t].at = "taken" => tx[t].op = "Take"
         /\ tx[t].at \in {"write", "commit", "taken"} /\ tx[t].op = "Take" => Found(tx[t].seen)
         /\ tx[t].at = "commit" /\ tx[t].op = "Take" => tx[t].new = Absent
         /\ Writing(tx[t]) => Found(tx[t].new)
    /\ \A k \in Keys : Found(rows[k]) \/ rows[k] = Absent

(* Only a transaction holds locks, and only of its own key. *)
LocksHeld ==
    \A k \in Keys, t \in Threads :
        owner[k] = t \/ t \in gaps[k] => tx[t].at \in {"write", "commit"} /\ tx[t].key = k

(* On MySQL a gap lock keeps the gap: nobody else writes the row.             *)
GapsHeld ==
    driver = "mysql" =>
        \A k \in Keys : /\ gaps[k] # {} => rows[k] = Absent
                        /\ owner[k] # "free" => gaps[k] \subseteq {owner[k]}

(* On MySQL the row a transaction read is locked from then on, on SQLite from *)
(* the check of the snapshot on: until the commit it is the committed row.    *)
Unchanged ==
    \A t \in Threads :
        /\ tx[t].at = "commit" => owner[tx[t].key] = t /\ rows[tx[t].key] = tx[t].seen
        /\ tx[t].at = "write" /\ driver = "mysql" =>
              /\ rows[tx[t].key] = tx[t].seen
              /\ owner[tx[t].key] = t \/ (~Found(tx[t].seen) /\ t \in gaps[tx[t].key])

(* A written row is in one place: in the table, or with one goroutine.  Once  *)
(* it has been handed out it is nowhere.                                      *)
OnePlace ==
    /\ \A k \in Keys : rows[k].stamp <= stamps
    /\ \A t \in Threads : Mark(tx[t]) <= stamps
    /\ \A k \in Keys : Found(rows[k]) => takes[rows[k].stamp] = 0
    /\ \A t \in Threads : Mark(tx[t]) # 0 => takes[Mark(tx[t])] = 0
    /\ \A k, l \in Keys : k # l /\ rows[k].stamp = rows[l].stamp => rows[k].stamp = 0
    /\ \A t, u \in Threads : t # u /\ Mark(tx[t]) = Mark(tx[u]) => Mark(tx[t]) = 0
    /\ \A t \in Threads, k \in Keys : Mark(tx[t]) = rows[k].stamp => Mark(tx[t]) = 0
    /\ \A s \in 1 .. MaxWrites : s > stamps => takes[s] = 0

IInv == TypeOK /\ WellFormed /\ LocksHeld /\ GapsHeld /\ Unchanged /\ OnePlace /\ TakeOnce

(* Small facts about the records of the model. *)
LEMMA RecordFacts ==
    /\ Absent \in Rows /\ ~Found(Absent)
    /\ Idle \in Calls /\ Mark(Idle) = 0 /\ Idle.at = "idle"
<1>1. Absent \in Rows /\ ~Found(Absent)
  BY DatabaseAssumption DEF Absent, Rows, Values, Found
<1>2. Idle \in Calls BY <1>1, RangeAssumption DEF Idle, Calls, Int64
<1> QED BY <1>1, <1>2 DEF Mark, Writing, Idle

(* Stamps and marks are numbers up to MaxWrites. *)
LEMMA StampFacts ==
    /\ \A r \in Rows : r.stamp \in 0 .. MaxWrites /\ (Found(r) => r.stamp \in 1 .. MaxWrites)
    /\ \A c \in Calls : Mark(c) \in 0 .. MaxWrites /\ (Mark(c) # 0 => Mark(c) \in 1 .. MaxWrites)
BY DatabaseAssumption DEF Rows, Calls, Mark, Found

(* What a call leaves in the goroutine that makes it, and in the others. *)
LEMMA CallStep ==
    ASSUME TypeOK, NEW t \in Threads, NEW c \in Calls, tx' = [tx EXCEPT ![t] = c]
    PROVE  tx' \in [Threads -> Calls] /\ tx'[t] = c /\ \A u \in Threads \ {t} : tx'[u] = tx[u]
BY DEF TypeOK

(* The same for a call that returns. *)
LEMMA ReturnStep ==
    ASSUME TypeOK, NEW t \in Threads, NEW out \in {"ok", "miss", "error"}, Return(t, out)
    PROVE  /\ tx' \in [Threads -> Calls] /\ ret' \in [Threads -> {"ok", "miss", "error"}]
           /\ tx'[t] = Idle /\ \A u \in Threads \ {t} : tx'[u] = tx[u]
BY CallStep, RecordFacts DEF Return, TypeOK

(* A row that goes, or a goroutine that gives its stamp up, leaves every      *)
(* other row where it was.                                                    *)
LEMMA FewerPlaces ==
    ASSUME TypeOK, OnePlace, TakeOnce, UNCHANGED <<stamps, takes>>,
           \A k \in Keys : rows'[k].stamp \in {rows[k].stamp, 0},
           \A t \in Threads : Mark(tx'[t]) \in {Mark(tx[t]), 0}
    PROVE  OnePlace' /\ TakeOnce'
<1>1. \A k \in Keys : rows[k].stamp \in Nat BY StampFacts DEF TypeOK
<1>2. stamps \in Nat BY DEF TypeOK
<1>3. TakeOnce' BY DEF TakeOnce
<1>4. \A k \in Keys : rows'[k].stamp <= stamps' BY <1>1, <1>2 DEF OnePlace
<1>5. \A t \in Threads : Mark(tx'[t]) <= stamps' BY <1>2 DEF OnePlace
<1>6. \A k \in Keys : Found(rows'[k]) => takes'[rows'[k].stamp] = 0 BY DEF OnePlace, Found
<1>7. \A t \in Threads : Mark(tx'[t]) # 0 => takes'[Mark(tx'[t])] = 0 BY DEF OnePlace
<1>8. \A k, l \in Keys : k # l /\ rows'[k].stamp = rows'[l].stamp => rows'[k].stamp = 0
  BY DEF OnePlace
<1>9. \A t, u \in Threads : t # u /\ Mark(tx'[t]) = Mark(tx'[u]) => Mark(tx'[t]) = 0
  BY DEF OnePlace
<1>10. \A t \in Threads, k \in Keys : Mark(tx'[t]) = rows'[k].stamp => Mark(tx'[t]) = 0
  BY DEF OnePlace
<1>11. \A s \in 1 .. MaxWrites : s > stamps' => takes'[s] = 0 BY DEF OnePlace
<1> QED BY <1>3, <1>4, <1>5, <1>6, <1>7, <1>8, <1>9, <1>10, <1>11 DEF OnePlace

(* A goroutine outside its transaction's two statements holds no lock, so it  *)
(* may come and go, and an unlocked row may be deleted.                       *)
LEMMA Unlocked ==
    ASSUME IInv, NEW t \in Threads, UNCHANGED <<driver, owner, gaps>>,
           \A u \in Threads \ {t} : tx'[u] = tx[u],
           tx[t].at \notin {"write", "commit"}, tx'[t].at \notin {"write", "commit"},
           \/ UNCHANGED rows
           \/ \E k \in Keys : owner[k] = "free" /\ rows' = [rows EXCEPT ![k] = Absent]
    PROVE  LocksHeld' /\ GapsHeld' /\ Unchanged'
<1>0. /\ TypeOK /\ WellFormed /\ LocksHeld /\ GapsHeld /\ Unchanged
      /\ owner' = owner /\ gaps' = gaps /\ driver' = driver
  BY DEF IInv
<1>1. LocksHeld' BY <1>0 DEF LocksHeld
<1>2. \A k \in Keys : \/ rows'[k] = rows[k]
                      \/ owner[k] = "free" /\ rows'[k] = Absent
  <2>1. CASE UNCHANGED rows BY <2>1
  <2>2. CASE \E k \in Keys : owner[k] = "free" /\ rows' = [rows EXCEPT ![k] = Absent]
    BY <1>0, <2>2 DEF TypeOK
  <2> QED BY <2>1, <2>2
<1>3. GapsHeld' BY <1>0, <1>2 DEF GapsHeld
<1>4. ASSUME NEW u \in Threads, tx'[u].at \in {"write", "commit"}
      PROVE  u # t /\ tx'[u] = tx[u] /\ tx[u].key \in Keys /\ u # "free"
  BY <1>0, <1>4, DatabaseAssumption DEF WellFormed
<1>5. ASSUME NEW u \in Threads, tx'[u].at = "commit"
      PROVE  owner'[tx'[u].key] = u /\ rows'[tx'[u].key] = tx'[u].seen
  BY <1>0, <1>2, <1>4, <1>5 DEF Unchanged
<1>6. ASSUME NEW u \in Threads, tx'[u].at = "write", driver' = "mysql"
      PROVE  /\ rows'[tx'[u].key] = tx'[u].seen
             /\ owner'[tx'[u].key] = u \/ (~Found(tx'[u].seen) /\ u \in gaps'[tx'[u].key])
  <2>1. /\ tx'[u] = tx[u] /\ tx[u].key \in Keys /\ u # "free"
        /\ rows[tx[u].key] = tx[u].seen
        /\ owner[tx[u].key] = u \/ (~Found(tx[u].seen) /\ u \in gaps[tx[u].key])
    BY <1>0, <1>4, <1>6 DEF Unchanged
  <2>2. u \in gaps[tx[u].key] => rows[tx[u].key] = Absent BY <1>0, <1>6, <2>1 DEF GapsHeld
  <2> QED BY <1>0, <1>2, <2>1, <2>2
<1>7. Unchanged' BY <1>5, <1>6 DEF Unchanged
<1> QED BY <1>1, <1>3, <1>7

(* Every goroutine keeps its own shape while another one takes a step. *)
LEMMA ShapeKept ==
    ASSUME WellFormed, NEW t \in Threads, \A u \in Threads \ {t} : tx'[u] = tx[u],
           tx'[t].at # "idle" => tx'[t].key \in Keys,
           tx'[t].at \in {"begin", "open", "write", "commit"}
             => tx'[t].op \in {"Set", "Take", "Increment"},
           tx'[t].at = "taken" => tx'[t].op = "Take",
           tx'[t].at \in {"write", "commit", "taken"} /\ tx'[t].op = "Take" => Found(tx'[t].seen),
           tx'[t].at = "commit" /\ tx'[t].op = "Take" => tx'[t].new = Absent,
           Writing(tx'[t]) => Found(tx'[t].new),
           \A k \in Keys : Found(rows'[k]) \/ rows'[k] = Absent
    PROVE  WellFormed'
BY DEF WellFormed

(* COMMIT writes the row under its exclusive lock; ROLLBACK writes nothing.   *)
(* Both give every lock of the transaction back.                              *)
LEMMA Ended ==
    ASSUME IInv, NEW t \in Threads, Unlock(t), UNCHANGED driver,
           \A u \in Threads \ {t} : tx'[u] = tx[u], tx'[t].at \notin {"write", "commit"},
           \/ UNCHANGED rows
           \/ tx[t].at = "commit" /\ rows' = [rows EXCEPT ![tx[t].key] = tx[t].new]
    PROVE  LocksHeld' /\ GapsHeld' /\ Unchanged'
<1>0. TypeOK /\ WellFormed /\ LocksHeld /\ GapsHeld /\ Unchanged BY DEF IInv
<1>1. /\ \A k \in Keys : owner'[k] = IF owner[k] = t THEN "free" ELSE owner[k]
      /\ \A k \in Keys : gaps'[k] = gaps[k] \ {t}
      /\ t # "free" /\ driver' = driver
  BY DatabaseAssumption DEF Unlock
<1>2. \A k \in Keys : rows'[k] = rows[k] \/ (owner[k] = t /\ tx[t].at = "commit")
  BY <1>0 DEF TypeOK, Unchanged
<1>3. LocksHeld' BY <1>0, <1>1, DatabaseAssumption DEF LocksHeld
<1>4. GapsHeld'
  <2> SUFFICES ASSUME driver = "mysql", NEW k \in Keys
               PROVE  /\ gaps'[k] # {} => rows'[k] = Absent
                      /\ owner'[k] # "free" => gaps'[k] \subseteq {owner'[k]}
    BY <1>1 DEF GapsHeld
  <2> QED BY <1>0, <1>1, <1>2 DEF GapsHeld
<1>5. ASSUME NEW u \in Threads, tx'[u].at \in {"write", "commit"}
      PROVE  u # t /\ tx'[u] = tx[u] /\ tx[u].key \in Keys /\ u # "free"
  BY <1>0, <1>5, DatabaseAssumption DEF WellFormed
<1>6. ASSUME NEW u \in Threads, tx'[u].at = "commit"
      PROVE  owner'[tx'[u].key] = u /\ rows'[tx'[u].key] = tx'[u].seen
  BY <1>0, <1>1, <1>2, <1>5, <1>6 DEF Unchanged
<1>7. ASSUME NEW u \in Threads, tx'[u].at = "write", driver' = "mysql"
      PROVE  /\ rows'[tx'[u].key] = tx'[u].seen
             /\ owner'[tx'[u].key] = u \/ (~Found(tx'[u].seen) /\ u \in gaps'[tx'[u].key])
  <2>1. /\ u # t /\ tx'[u] = tx[u] /\ tx[u].key \in Keys /\ u # "free"
        /\ rows[tx[u].key] = tx[u].seen
        /\ owner[tx[u].key] = u \/ (~Found(tx[u].seen) /\ u \in gaps[tx[u].key])
    BY <1>0, <1>1, <1>5, <1>7 DEF Unchanged
  <2>2. owner[tx[u].key] = t => u \notin gaps[tx[u].key]
    BY <1>0, <1>1, <1>7, <2>1 DEF GapsHeld
  <2> QED BY <1>1, <1>2, <2>1, <2>2
<1>8. Unchanged' BY <1>6, <1>7 DEF Unchanged
<1> QED BY <1>3, <1>4, <1>8

(* An operation that holds nothing returns.                                   *)
LEMMA QuietReturn ==
    ASSUME IInv, NEW t \in Threads, NEW out \in {"ok", "miss", "error"}, Return(t, out),
           tx[t].at \notin {"write", "commit"}, UNCHANGED <<locks, env, stamps, takes>>,
           \/ UNCHANGED rows
           \/ \E k \in Keys : owner[k] = "free" /\ rows' = [rows EXCEPT ![k] = Absent]
    PROVE  IInv'
<1>0. /\ TypeOK /\ WellFormed /\ OnePlace /\ TakeOnce
      /\ owner' = owner /\ gaps' = gaps /\ conns' = conns
      /\ driver' = driver /\ pool' = pool /\ clock' = clock
      /\ stamps' = stamps /\ takes' = takes
  BY DEF IInv, locks, env
<1>1. /\ tx' \in [Threads -> Calls] /\ ret' \in [Threads -> {"ok", "miss", "error"}]
      /\ tx'[t] = Idle /\ Idle.at = "idle" /\ Mark(Idle) = 0
      /\ \A u \in Threads \ {t} : tx'[u] = tx[u]
  BY <1>0, ReturnStep, RecordFacts
<1>2. /\ rows' \in [Keys -> Rows]
      /\ \A k \in Keys : rows'[k] = rows[k] \/ rows'[k] = Absent
  <2>1. CASE UNCHANGED rows BY <1>0, <2>1 DEF TypeOK
  <2>2. CASE \E k \in Keys : owner[k] = "free" /\ rows' = [rows EXCEPT ![k] = Absent]
    BY <1>0, <2>2, RecordFacts DEF TypeOK
  <2> QED BY <2>1, <2>2
<1>3. TypeOK' BY <1>0, <1>1, <1>2 DEF TypeOK
<1>4. WellFormed'
  <2>1. \A k \in Keys : Found(rows'[k]) \/ rows'[k] = Absent BY <1>0, <1>2 DEF WellFormed
  <2>2. ~Writing(tx'[t]) BY <1>1 DEF Writing
  <2> QED BY <1>0, <1>1, <2>1, <2>2, ShapeKept
<1>5. LocksHeld' /\ GapsHeld' /\ Unchanged'
  <2>1. tx'[t].at \notin {"write", "commit"} BY <1>1
  <2>2. UNCHANGED <<driver, owner, gaps>> BY <1>0
  <2> QED BY <1>1, <2>1, <2>2, Unlocked
<1>6. OnePlace' /\ TakeOnce'
  <2>1. \A k \in Keys : rows'[k].stamp \in {rows[k].stamp, 0} BY <1>2 DEF Absent
  <2>2. \A u \in Threads : Mark(tx'[u]) \in {Mark(tx[u]), 0} BY <1>1
  <2> QED BY <1>0, <2>1, <2>2, FewerPlaces
<1> QED BY <1>3, <1>4, <1>5, <1>6 DEF IInv

(* An operation that holds nothing goes on.                                   *)
LEMMA QuietStep ==
    ASSUME IInv, NEW t \in Threads, NEW c \in Calls, tx' = [tx EXCEPT ![t] = c],
           tx[t].at \notin {"write", "commit"}, c.at \in {"check", "sweep", "begin", "open"},
           c.key \in Keys, c.at \in {"begin", "open"} => c.op \in {"Set", "Take", "Increment"},
           Writing(c) => Found(c.new),
           UNCHANGED <<rows, owner, gaps, env, ret, takes>>
    PROVE  /\ WellFormed' /\ LocksHeld' /\ GapsHeld' /\ Unchanged' /\ TakeOnce'
           /\ stamps' \in 0 .. MaxWrites /\ conns' \subseteq Threads => TypeOK'
           /\ UNCHANGED stamps /\ Mark(c) \in {Mark(tx[t]), 0} => OnePlace'
<1>0. /\ TypeOK /\ WellFormed /\ OnePlace /\ TakeOnce
      /\ owner' = owner /\ gaps' = gaps
      /\ driver' = driver /\ pool' = pool /\ clock' = clock
      /\ rows' = rows /\ ret' = ret /\ takes' = takes
  BY DEF IInv, env
<1>1. /\ tx' \in [Threads -> Calls] /\ tx'[t] = c
      /\ \A u \in Threads \ {t} : tx'[u] = tx[u]
  BY <1>0, CallStep
<1>2. stamps' \in 0 .. MaxWrites /\ conns' \subseteq Threads => TypeOK' BY <1>0, <1>1 DEF TypeOK
<1>3. WellFormed'
  <2>1. \A k \in Keys : Found(rows'[k]) \/ rows'[k] = Absent BY <1>0 DEF WellFormed
  <2> QED BY <1>0, <1>1, <2>1, ShapeKept
<1>4. LocksHeld' /\ GapsHeld' /\ Unchanged'
  <2>1. tx'[t].at \notin {"write", "commit"} BY <1>1
  <2>2. UNCHANGED <<driver, owner, gaps>> BY <1>0
  <2> QED BY <1>0, <1>1, <2>1, <2>2, Unlocked
<1>5. TakeOnce' BY <1>0 DEF TakeOnce
<1>6. UNCHANGED stamps /\ Mark(c) \in {Mark(tx[t]), 0} => OnePlace' BY <1>0, <1>1, FewerPlaces
<1> QED BY <1>2, <1>3, <1>4, <1>5, <1>6

(* A failed statement, an abort or a Take that found no row rolls back.       *)
LEMMA RollbackStep ==
    ASSUME IInv, NEW t \in Threads, NEW out \in {"ok", "miss", "error"}, Rollback(t, out)
    PROVE  IInv'
<1>0. /\ TypeOK /\ WellFormed /\ OnePlace /\ TakeOnce
      /\ rows' = rows /\ driver' = driver /\ pool' = pool /\ clock' = clock /\ stamps' = stamps
      /\ takes' = takes
  BY DEF IInv, Rollback, env
<1>1. /\ tx' \in [Threads -> Calls] /\ ret' \in [Threads -> {"ok", "miss", "error"}]
      /\ tx'[t] = Idle /\ Idle.at = "idle" /\ Mark(Idle) = 0
      /\ \A u \in Threads \ {t} : tx'[u] = tx[u]
  BY <1>0, ReturnStep, RecordFacts DEF Rollback
<1>2. TypeOK'
  <2>1. owner' \in [Keys -> Threads \union {"free"}] /\ gaps' \in [Keys -> SUBSET Threads]
        /\ conns' \subseteq Threads
    BY <1>0 DEF TypeOK, Rollback, Unlock
  <2> QED BY <1>0, <1>1, <2>1 DEF TypeOK
<1>3. WellFormed'
  <2>1. \A k \in Keys : Found(rows'[k]) \/ rows'[k] = Absent BY <1>0 DEF WellFormed
  <2>2. ~Writing(tx'[t]) BY <1>1 DEF Writing
  <2> QED BY <1>0, <1>1, <2>1, <2>2, ShapeKept
<1>4. LocksHeld' /\ GapsHeld' /\ Unchanged'
  <2>1. tx'[t].at \notin {"write", "commit"} /\ Unlock(t) BY <1>1 DEF Rollback
  <2> QED BY <1>0, <1>1, <2>1, Ended
<1>5. OnePlace' /\ TakeOnce'
  <2>1. \A u \in Threads : Mark(tx'[u]) \in {Mark(tx[u]), 0} BY <1>1
  <2> QED BY <1>0, <2>1, FewerPlaces
<1> QED BY <1>2, <1>3, <1>4, <1>5 DEF IInv

(* Set and Increment give the row they will write a new stamp. *)
LEMMA NewPlace ==
    ASSUME TypeOK, OnePlace, NEW t \in Threads, \A u \in Threads \ {t} : tx'[u] = tx[u],
           stamps < MaxWrites, stamps' = stamps + 1, Mark(tx'[t]) = stamps + 1,
           UNCHANGED <<rows, takes>>
    PROVE  OnePlace'
<1>1. /\ stamps \in Nat /\ stamps + 1 \in 1 .. MaxWrites
      /\ \A k \in Keys : rows[k].stamp \in 0 .. stamps
      /\ \A u \in Threads : Mark(tx[u]) \in 0 .. stamps
  BY StampFacts, DatabaseAssumption DEF TypeOK, OnePlace
<1>2. \A k \in Keys : rows'[k].stamp <= stamps' BY <1>1
<1>3. \A u \in Threads : Mark(tx'[u]) <= stamps' BY <1>1
<1>4. \A k \in Keys : Found(rows'[k]) => takes'[rows'[k].stamp] = 0 BY DEF OnePlace
<1>5. \A u \in Threads : Mark(tx'[u]) # 0 => takes'[Mark(tx'[u])] = 0 BY <1>1 DEF OnePlace
<1>6. \A k, l \in Keys : k # l /\ rows'[k].stamp = rows'[l].stamp => rows'[k].stamp = 0
  BY DEF OnePlace
<1>7. \A u, v \in Threads : u # v /\ Mark(tx'[u]) = Mark(tx'[v]) => Mark(tx'[u]) = 0
  BY <1>1 DEF OnePlace
<1>8. \A u \in Threads, k \in Keys : Mark(tx'[u]) = rows'[k].stamp => Mark(tx'[u]) = 0
  BY <1>1 DEF OnePlace
<1>9. \A s \in 1 .. MaxWrites : s > stamps' => takes'[s] = 0 BY <1>1 DEF OnePlace
<1> QED BY <1>2, <1>3, <1>4, <1>5, <1>6, <1>7, <1>8, <1>9 DEF OnePlace

(* A committed Set or Increment hands its stamp over to the table. *)
LEMMA Stored ==
    ASSUME TypeOK, OnePlace, NEW t \in Threads, NEW key \in Keys,
           \A u \in Threads \ {t} : tx'[u] = tx[u], Mark(tx'[t]) = 0,
           rows'[key].stamp = Mark(tx[t]), \A k \in Keys \ {key} : rows'[k] = rows[k],
           UNCHANGED <<stamps, takes>>
    PROVE  OnePlace'
<1>1. stamps \in Nat BY DEF TypeOK
<1>2. \A k \in Keys : rows'[k].stamp <= stamps' BY DEF OnePlace
<1>3. \A u \in Threads : Mark(tx'[u]) <= stamps' BY <1>1 DEF OnePlace
<1>4. \A k \in Keys : Found(rows'[k]) => takes'[rows'[k].stamp] = 0 BY DEF OnePlace, Found
<1>5. \A u \in Threads : Mark(tx'[u]) # 0 => takes'[Mark(tx'[u])] = 0 BY DEF OnePlace
<1>6. \A k, l \in Keys : k # l /\ rows'[k].stamp = rows'[l].stamp => rows'[k].stamp = 0
  BY DEF OnePlace
<1>7. \A u, v \in Threads : u # v /\ Mark(tx'[u]) = Mark(tx'[v]) => Mark(tx'[u]) = 0
  BY DEF OnePlace
<1>8. \A u \in Threads, k \in Keys : Mark(tx'[u]) = rows'[k].stamp => Mark(tx'[u]) = 0
  BY DEF OnePlace
<1>9. \A s \in 1 .. MaxWrites : s > stamps' => takes'[s] = 0 BY DEF OnePlace
<1> QED BY <1>2, <1>3, <1>4, <1>5, <1>6, <1>7, <1>8, <1>9 DEF OnePlace

(* A committed Take carries the stamp of the row it removed. *)
LEMMA Carried ==
    ASSUME TypeOK, OnePlace, NEW t \in Threads, NEW key \in Keys,
           \A u \in Threads \ {t} : tx'[u] = tx[u], Mark(tx'[t]) = rows[key].stamp,
           rows'[key] = Absent, \A k \in Keys \ {key} : rows'[k] = rows[k],
           UNCHANGED <<stamps, takes>>
    PROVE  OnePlace'
<1>1. stamps \in Nat /\ Absent.stamp = 0 BY DEF TypeOK, Absent
<1>2. \A k \in Keys : rows'[k].stamp <= stamps' BY <1>1 DEF OnePlace
<1>3. \A u \in Threads : Mark(tx'[u]) <= stamps' BY DEF OnePlace
<1>4. \A k \in Keys : Found(rows'[k]) => takes'[rows'[k].stamp] = 0 BY <1>1 DEF OnePlace, Found
<1>5. \A u \in Threads : Mark(tx'[u]) # 0 => takes'[Mark(tx'[u])] = 0 BY DEF OnePlace, Found
<1>6. \A k, l \in Keys : k # l /\ rows'[k].stamp = rows'[l].stamp => rows'[k].stamp = 0
  BY <1>1 DEF OnePlace
<1>7. \A u, v \in Threads : u # v /\ Mark(tx'[u]) = Mark(tx'[v]) => Mark(tx'[u]) = 0
  BY DEF OnePlace
<1>8. \A u \in Threads, k \in Keys : Mark(tx'[u]) = rows'[k].stamp => Mark(tx'[u]) = 0
  BY <1>1 DEF OnePlace
<1>9. \A s \in 1 .. MaxWrites : s > stamps' => takes'[s] = 0 BY DEF OnePlace
<1> QED BY <1>2, <1>3, <1>4, <1>5, <1>6, <1>7, <1>8, <1>9 DEF OnePlace

(* COMMIT, whether or not its answer arrives.                                 *)
LEMMA CommitStep ==
    ASSUME IInv, NEW t \in Threads, Commit(t) \/ CommitLost(t)
    PROVE  IInv'
<1>0. /\ TypeOK /\ WellFormed /\ Unchanged /\ OnePlace /\ TakeOnce
      /\ driver' = driver /\ pool' = pool /\ clock' = clock /\ stamps' = stamps /\ takes' = takes
      /\ tx[t].at = "commit" /\ Unlock(t) /\ rows' = [rows EXCEPT ![tx[t].key] = tx[t].new]
  BY DEF IInv, Commit, CommitLost, env
<1>1. /\ tx[t] \in Calls /\ tx[t].key \in Keys /\ tx[t].new \in Rows
      /\ tx[t].op \in {"Set", "Take", "Increment"}
      /\ rows[tx[t].key] = tx[t].seen
  BY <1>0 DEF TypeOK, Calls, WellFormed, Unchanged
<1> DEFINE key == tx[t].key
           taken == [tx[t] EXCEPT !.at = "taken"]
<1>2. /\ taken \in Calls /\ taken.at = "taken" /\ taken.op = tx[t].op
      /\ taken.key = tx[t].key /\ taken.seen = tx[t].seen
  BY <1>1 DEF Calls
<1>3. /\ tx' \in [Threads -> Calls] /\ ret' \in [Threads -> {"ok", "miss", "error"}]
      /\ tx'[t] = Idle \/ (tx'[t] = taken /\ tx[t].op = "Take")
      /\ \A u \in Threads \ {t} : tx'[u] = tx[u]
  <2>1. CASE \E out \in {"ok", "error"} : Return(t, out)
    BY <1>0, <2>1, ReturnStep
  <2>2. CASE tx[t].op = "Take" /\ tx' = [tx EXCEPT ![t].at = "taken"] /\ UNCHANGED ret
    <3>1. tx' = [tx EXCEPT ![t] = taken] BY <2>2
    <3> QED BY <1>0, <1>2, <2>2, <3>1, CallStep DEF TypeOK
  <2> QED BY <2>1, <2>2 DEF Commit, CommitLost
<1>4. /\ rows' \in [Keys -> Rows] /\ rows'[key] = tx[t].new
      /\ \A k \in Keys \ {key} : rows'[k] = rows[k]
  BY <1>0, <1>1 DEF TypeOK
<1>5. TypeOK'
  <2>1. owner' \in [Keys -> Threads \union {"free"}] /\ gaps' \in [Keys -> SUBSET Threads]
        /\ conns' \subseteq Threads
    BY <1>0 DEF TypeOK, Unlock
  <2> QED BY <1>0, <1>3, <1>4, <2>1 DEF TypeOK
<1>6. tx'[t].at \in {"idle", "taken"} BY <1>2, <1>3, RecordFacts
<1>7. tx[t].op # "Take" => Writing(tx[t]) /\ Found(tx[t].new) /\ Mark(tx[t]) = tx[t].new.stamp
  BY <1>0, <1>1 DEF Writing, WellFormed, Mark
<1>8. tx[t].op = "Take" => tx[t].new = Absent /\ Found(tx[t].seen)
  BY <1>0 DEF WellFormed
<1>9. WellFormed'
  <2>1. \A k \in Keys : Found(rows'[k]) \/ rows'[k] = Absent
    BY <1>0, <1>4, <1>7, <1>8 DEF WellFormed
  <2>2. tx'[t].at = "taken" => tx'[t].op = "Take" /\ tx'[t].key \in Keys /\ Found(tx'[t].seen)
    BY <1>1, <1>2, <1>3, <1>8, RecordFacts
  <2>3. ~Writing(tx'[t]) BY <1>6 DEF Writing
  <2> QED BY <1>0, <1>3, <1>6, <2>1, <2>2, <2>3, ShapeKept
<1>10. LocksHeld' /\ GapsHeld' /\ Unchanged' BY <1>0, <1>3, <1>6, Ended
<1>11. OnePlace'
  <2>0. Mark(tx'[t]) = IF tx'[t] = Idle THEN 0 ELSE tx[t].seen.stamp
    BY <1>2, <1>3, RecordFacts DEF Mark, Writing
  <2>1. CASE tx[t].op # "Take"
    <3>1. Mark(tx'[t]) = 0 /\ rows'[key].stamp = Mark(tx[t]) BY <1>3, <1>4, <1>7, <2>0, <2>1
    <3> HIDE DEF key
    <3> QED BY <1>0, <1>1, <1>3, <1>4, <3>1, Stored DEF key
  <2>2. CASE tx[t].op = "Take" /\ tx'[t] = Idle
    <3>1. \A k \in Keys : rows'[k].stamp \in {rows[k].stamp, 0}
      BY <1>4, <1>8, <2>2 DEF Absent
    <3>2. \A u \in Threads : Mark(tx'[u]) \in {Mark(tx[u]), 0} BY <1>3, <2>0, <2>2
    <3> QED BY <1>0, <3>1, <3>2, FewerPlaces
  <2>3. CASE tx[t].op = "Take" /\ tx'[t] # Idle
    <3>1. Mark(tx'[t]) = rows[key].stamp /\ rows'[key] = Absent
      BY <1>1, <1>4, <1>8, <2>0, <2>3
    <3> HIDE DEF key
    <3> QED BY <1>0, <1>1, <1>3, <1>4, <3>1, Carried DEF key
  <2> QED BY <2>1, <2>2, <2>3
<1>12. TakeOnce' BY <1>0 DEF TakeOnce
<1> QED BY <1>5, <1>9, <1>10, <1>11, <1>12 DEF IInv

(* Take hands the row out, or finds that it has expired.                      *)
LEMMA TakeCheckStep ==
    ASSUME IInv, NEW t \in Threads, TakeCheck(t)
    PROVE  IInv'
<1>0. /\ TypeOK /\ WellFormed /\ OnePlace /\ TakeOnce /\ tx[t].at = "taken"
      /\ owner' = owner /\ gaps' = gaps /\ conns' = conns
      /\ driver' = driver /\ pool' = pool /\ clock' = clock
      /\ rows' = rows /\ stamps' = stamps
  BY DEF IInv, TakeCheck, locks, env
<1>1. CASE Return(t, "miss") /\ UNCHANGED takes
  <2>1. UNCHANGED <<locks, env, stamps, takes>> BY <1>1 DEF TakeCheck
  <2> QED BY <1>0, <1>1, <2>1, QuietReturn
<1>2. CASE Return(t, "ok") /\ takes' = [takes EXCEPT ![tx[t].seen.stamp] = @ + 1]
  <2>1. /\ tx' \in [Threads -> Calls] /\ ret' \in [Threads -> {"ok", "miss", "error"}]
        /\ tx'[t] = Idle /\ Idle.at = "idle" /\ Mark(Idle) = 0
        /\ \A u \in Threads \ {t} : tx'[u] = tx[u]
    BY <1>0, <1>2, ReturnStep, RecordFacts
  <2>2. PICK s \in 1 .. MaxWrites : s = tx[t].seen.stamp /\ s = Mark(tx[t]) /\ takes[s] = 0
    <3>1. tx[t].op = "Take" /\ Found(tx[t].seen) /\ tx[t] \in Calls /\ tx[t].seen \in Rows
      BY <1>0 DEF WellFormed, TypeOK, Calls
    <3>2. tx[t].seen.stamp \in 1 .. MaxWrites BY <3>1, StampFacts
    <3>3. Mark(tx[t]) = tx[t].seen.stamp BY <1>0 DEF Mark, Writing
    <3>4. takes[Mark(tx[t])] = 0 BY <1>0, <3>2, <3>3 DEF OnePlace
    <3> QED BY <3>2, <3>3, <3>4
  <2>3. /\ takes' \in [1 .. MaxWrites -> Nat] /\ takes'[s] = 1
        /\ \A n \in 1 .. MaxWrites : n # s => takes'[n] = takes[n]
    BY <1>0, <1>2, <2>2 DEF TypeOK
  <2>4. TypeOK' BY <1>0, <2>1, <2>3 DEF TypeOK
  <2>5. WellFormed'
    <3>1. \A k \in Keys : Found(rows'[k]) \/ rows'[k] = Absent BY <1>0 DEF WellFormed
    <3>2. ~Writing(tx'[t]) BY <2>1 DEF Writing
    <3> QED BY <1>0, <2>1, <3>1, <3>2, ShapeKept
  <2>6. LocksHeld' /\ GapsHeld' /\ Unchanged'
    <3>1. tx'[t].at \notin {"write", "commit"} BY <2>1
    <3>2. UNCHANGED <<driver, owner, gaps>> BY <1>0
    <3> QED BY <1>0, <2>1, <3>1, <3>2, Unlocked
  <2>7. OnePlace'
    <3>0. stamps \in Nat /\ s <= stamps BY <1>0, <2>2 DEF TypeOK, OnePlace
    <3>1. \A k \in Keys : rows'[k].stamp <= stamps' BY <1>0 DEF OnePlace
    <3>2. \A u \in Threads : Mark(tx'[u]) <= stamps' BY <1>0, <2>1, <3>0 DEF OnePlace
    <3>3. \A k \in Keys : Found(rows'[k]) => takes'[rows'[k].stamp] = 0
      BY <1>0, <2>2, <2>3, StampFacts DEF OnePlace, TypeOK
    <3>4. \A u \in Threads : Mark(tx'[u]) # 0 => takes'[Mark(tx'[u])] = 0
      <4>1. ASSUME NEW u \in Threads, u # t, Mark(tx[u]) # 0
            PROVE  Mark(tx[u]) \in 1 .. MaxWrites /\ Mark(tx[u]) # s /\ takes[Mark(tx[u])] = 0
        BY <1>0, <2>2, <4>1, StampFacts DEF OnePlace, TypeOK
      <4> QED BY <2>1, <2>3, <4>1
    <3>5. \A k, l \in Keys : k # l /\ rows'[k].stamp = rows'[l].stamp => rows'[k].stamp = 0
      BY <1>0 DEF OnePlace
    <3>6. \A u, v \in Threads : u # v /\ Mark(tx'[u]) = Mark(tx'[v]) => Mark(tx'[u]) = 0
      BY <1>0, <2>1 DEF OnePlace
    <3>7. \A u \in Threads, k \in Keys : Mark(tx'[u]) = rows'[k].stamp => Mark(tx'[u]) = 0
      BY <1>0, <2>1 DEF OnePlace
    <3>8. \A n \in 1 .. MaxWrites : n > stamps' => takes'[n] = 0
      BY <1>0, <2>3, <3>0 DEF OnePlace
    <3> QED BY <3>1, <3>2, <3>3, <3>4, <3>5, <3>6, <3>7, <3>8 DEF OnePlace
  <2>8. TakeOnce' BY <1>0, <2>3 DEF TakeOnce, TypeOK
  <2> QED BY <2>4, <2>5, <2>6, <2>7, <2>8 DEF IInv
<1> QED BY <1>1, <1>2 DEF TakeCheck

(* The first statement of a transaction: the row, or the gap, is locked on    *)
(* MySQL and by Set; the row is what the transaction goes on to work from.    *)
LEMMA FirstStatement ==
    ASSUME IInv, NEW t \in Threads, tx[t].at = "open",
           tx[t].op = "Take" => Found(rows[tx[t].key]),
           \/ MayLock(t, tx[t].key) /\ LockRow(t, tx[t].key)
           \/ driver = "sqlite" /\ UNCHANGED locks,
           tx' = [tx EXCEPT ![t].at = "write", ![t].seen = rows[tx[t].key]],
           UNCHANGED <<rows, env, ret, stamps, takes>>
    PROVE  IInv'
<1>0. /\ TypeOK /\ WellFormed /\ LocksHeld /\ GapsHeld /\ Unchanged /\ OnePlace /\ TakeOnce
      /\ rows' = rows /\ driver' = driver /\ pool' = pool /\ clock' = clock /\ ret' = ret
      /\ stamps' = stamps /\ takes' = takes /\ t # "free"
  BY DatabaseAssumption DEF IInv, env
<1>1. tx[t] \in Calls /\ tx[t].key \in Keys /\ tx[t].op \in {"Set", "Take", "Increment"}
  BY <1>0 DEF TypeOK, Calls, WellFormed
<1> DEFINE key == tx[t].key
           c == [tx[t] EXCEPT !.at = "write", !.seen = rows[key]]
<1>2. /\ c \in Calls /\ c.at = "write" /\ c.seen = rows[key] /\ c.key = key
      /\ c.op = tx[t].op /\ c.new = tx[t].new
  BY <1>0, <1>1 DEF TypeOK, Calls
<1>3. /\ tx' \in [Threads -> Calls] /\ tx'[t] = c
      /\ \A u \in Threads \ {t} : tx'[u] = tx[u]
  <2>1. tx' = [tx EXCEPT ![t] = c] BY <1>0 DEF TypeOK
  <2> QED BY <1>0, <1>2, <2>1, CallStep
<1>4. \A k \in Keys : owner[k] # t /\ t \notin gaps[k]
  BY <1>0 DEF LocksHeld
<1>5. /\ owner' \in [Keys -> Threads \union {"free"}] /\ gaps' \in [Keys -> SUBSET Threads]
      /\ conns' = conns
      /\ \A k \in Keys \ {key} : owner'[k] = owner[k] /\ gaps'[k] = gaps[k]
      /\ \/ driver = "sqlite" /\ owner'[key] = owner[key] /\ gaps'[key] = gaps[key]
         \/ /\ Found(rows[key]) /\ owner[key] = "free"
            /\ owner'[key] = t /\ gaps'[key] = gaps[key]
         \/ /\ ~Found(rows[key]) /\ owner[key] = "free"
            /\ owner'[key] = owner[key] /\ gaps'[key] = gaps[key] \union {t}
  <2>1. CASE driver = "sqlite" /\ UNCHANGED locks BY <1>0, <2>1 DEF locks, TypeOK
  <2>2. CASE MayLock(t, key) /\ LockRow(t, key)
    <3>1. owner[key] = "free" BY <1>1, <1>4, <2>2 DEF MayLock
    <3> QED BY <1>0, <1>1, <2>2, <3>1 DEF LockRow, TypeOK
  <2> QED BY <2>1, <2>2
<1>6. TypeOK' BY <1>0, <1>3, <1>5 DEF TypeOK
<1>7. WellFormed'
  <2>1. \A k \in Keys : Found(rows'[k]) \/ rows'[k] = Absent BY <1>0 DEF WellFormed
  <2>2. Writing(tx'[t]) => Found(tx'[t].new)
    BY <1>0, <1>2, <1>3 DEF Writing, WellFormed
  <2> QED BY <1>0, <1>1, <1>2, <1>3, <2>1, <2>2, ShapeKept
<1>8. LocksHeld'
  <2> SUFFICES ASSUME NEW k \in Keys, NEW u \in Threads, owner'[k] = u \/ u \in gaps'[k]
               PROVE  tx'[u].at \in {"write", "commit"} /\ tx'[u].key = k
    BY DEF LocksHeld
  <2>1. CASE u = t BY <1>2, <1>3, <1>4, <1>5, <2>1
  <2>2. CASE u # t
    <3>1. owner[k] = u \/ u \in gaps[k] BY <1>5, <2>2, DatabaseAssumption
    <3> QED BY <1>0, <1>3, <2>2, <3>1 DEF LocksHeld
  <2> QED BY <2>1, <2>2
<1>9. GapsHeld'
  <2> SUFFICES ASSUME driver = "mysql", NEW k \in Keys
               PROVE  /\ gaps'[k] # {} => rows'[k] = Absent
                      /\ owner'[k] # "free" => gaps'[k] \subseteq {owner'[k]}
    BY <1>0 DEF GapsHeld
  <2>0. /\ gaps[k] # {} => rows[k] = Absent
        /\ owner[k] # "free" => gaps[k] \subseteq {owner[k]}
        /\ Found(rows[k]) \/ rows[k] = Absent
    BY <1>0 DEF GapsHeld, WellFormed
  <2>1. CASE k # key BY <1>0, <1>5, <2>0, <2>1
  <2>2. CASE k = key BY <1>0, <1>5, <2>0, <2>2, RecordFacts
  <2> QED BY <2>1, <2>2
<1>10. Unchanged'
  <2>1. ASSUME NEW u \in Threads, u # t, tx[u].at \in {"write", "commit"}
        PROVE  /\ tx'[u] = tx[u] /\ tx[u].key \in Keys /\ u # "free"
               /\ owner[tx[u].key] = u => owner'[tx[u].key] = u
               /\ u \in gaps[tx[u].key] => u \in gaps'[tx[u].key]
    <3>1. tx'[u] = tx[u] /\ tx[u].key \in Keys /\ u # "free"
      BY <1>0, <1>3, <2>1, DatabaseAssumption DEF WellFormed
    <3>2. CASE tx[u].key # key BY <1>5, <3>1, <3>2
    <3>3. CASE tx[u].key = key BY <1>5, <3>1, <3>3
    <3> QED BY <3>1, <3>2, <3>3
  <2>2. ASSUME NEW u \in Threads, tx'[u].at = "commit"
        PROVE  owner'[tx'[u].key] = u /\ rows'[tx'[u].key] = tx'[u].seen
    BY <1>0, <1>2, <1>3, <2>1, <2>2 DEF Unchanged
  <2>3. ASSUME NEW u \in Threads, tx'[u].at = "write", driver' = "mysql"
        PROVE  /\ rows'[tx'[u].key] = tx'[u].seen
               /\ owner'[tx'[u].key] = u \/ (~Found(tx'[u].seen) /\ u \in gaps'[tx'[u].key])
    <3>1. CASE u = t BY <1>0, <1>1, <1>2, <1>3, <1>5, <2>3, <3>1
    <3>2. CASE u # t BY <1>0, <1>3, <2>1, <2>3, <3>2 DEF Unchanged
    <3> QED BY <3>1, <3>2
  <2> QED BY <2>2, <2>3 DEF Unchanged
<1>11. OnePlace' /\ TakeOnce'
  <2>1. \A u \in Threads : Mark(tx'[u]) \in {Mark(tx[u]), 0}
    BY <1>0, <1>2, <1>3 DEF Mark, Writing
  <2> QED BY <1>0, <2>1, FewerPlaces
<1> QED BY <1>6, <1>7, <1>8, <1>9, <1>10, <1>11 DEF IInv

(* The second statement writes a row that is still the one that was read.     *)
LEMMA SecondStatement ==
    ASSUME IInv, NEW t \in Threads, NEW row \in Rows, tx[t].at = "write",
           IF tx[t].op = "Take" THEN row = Absent
           ELSE Found(row) /\ row.stamp = tx[t].new.stamp,
           WriteRow(t, row)
    PROVE  IInv'
<1>0. /\ TypeOK /\ WellFormed /\ LocksHeld /\ GapsHeld /\ Unchanged /\ OnePlace /\ TakeOnce
      /\ rows' = rows /\ driver' = driver /\ pool' = pool /\ clock' = clock /\ ret' = ret
      /\ stamps' = stamps /\ takes' = takes /\ gaps' = gaps /\ conns' = conns
      /\ t # "free"
  BY DatabaseAssumption DEF IInv, env, WriteRow
<1>1. /\ tx[t] \in Calls /\ tx[t].key \in Keys /\ tx[t].op \in {"Set", "Take", "Increment"}
      /\ tx[t].op = "Take" => Found(tx[t].seen)
  BY <1>0 DEF TypeOK, Calls, WellFormed
<1> DEFINE key == tx[t].key
           c == [tx[t] EXCEPT !.at = "commit", !.new = row]
<1>2. /\ c \in Calls /\ c.at = "commit" /\ c.seen = tx[t].seen /\ c.key = key
      /\ c.op = tx[t].op /\ c.new = row
  BY <1>1 DEF Calls
<1>3. /\ tx' \in [Threads -> Calls] /\ tx'[t] = c
      /\ \A u \in Threads \ {t} : tx'[u] = tx[u]
  <2>1. tx' = [tx EXCEPT ![t] = c] BY <1>0 DEF TypeOK, WriteRow
  <2> QED BY <1>0, <1>2, <2>1, CallStep
<1>4. /\ owner[key] \in {"free", t} /\ rows[key] = tx[t].seen
      /\ driver = "mysql" => gaps[key] \subseteq {t}
  <2>1. driver \in {"mysql", "sqlite"} BY <1>0, DatabaseAssumption DEF TypeOK
  <2> QED BY <1>0, <2>1 DEF WriteRow, MayWrite, MayLock, Unchanged
<1>5. /\ owner' \in [Keys -> Threads \union {"free"}] /\ owner'[key] = t
      /\ \A k \in Keys \ {key} : owner'[k] = owner[k]
  BY <1>0, <1>1 DEF TypeOK, WriteRow
<1>6. TypeOK' BY <1>0, <1>3, <1>5 DEF TypeOK
<1>7. WellFormed'
  <2>1. \A k \in Keys : Found(rows'[k]) \/ rows'[k] = Absent BY <1>0 DEF WellFormed
  <2>2. Writing(tx'[t]) => Found(tx'[t].new) BY <1>2, <1>3 DEF Writing
  <2> QED BY <1>0, <1>1, <1>2, <1>3, <2>1, <2>2, ShapeKept
<1>8. LocksHeld'
  <2> SUFFICES ASSUME NEW k \in Keys, NEW u \in Threads, owner'[k] = u \/ u \in gaps'[k]
               PROVE  tx'[u].at \in {"write", "commit"} /\ tx'[u].key = k
    BY DEF LocksHeld
  <2>1. CASE u = t
    <3>1. tx'[t].at = "commit" /\ tx'[t].key = key BY <1>2, <1>3
    <3>2. k = key
      <4>1. CASE owner'[k] = t /\ k # key BY <1>0, <1>5, <4>1 DEF LocksHeld
      <4>2. CASE t \in gaps[k] BY <1>0, <4>2 DEF LocksHeld
      <4> QED BY <1>0, <2>1, <4>1, <4>2
    <3> QED BY <2>1, <3>1, <3>2
  <2>2. CASE u # t BY <1>0, <1>3, <1>5, <2>2 DEF LocksHeld
  <2> QED BY <2>1, <2>2
<1>9. GapsHeld' BY <1>0, <1>4, <1>5 DEF GapsHeld
<1>10. Unchanged'
  <2>1. ASSUME NEW u \in Threads, u # t, tx[u].at \in {"write", "commit"}
        PROVE  /\ tx'[u] = tx[u] /\ tx[u].key \in Keys
               /\ owner[tx[u].key] = u => owner'[tx[u].key] = u
    BY <1>0, <1>3, <1>4, <1>5, <2>1, DatabaseAssumption DEF WellFormed
  <2>2. ASSUME NEW u \in Threads, tx'[u].at = "commit"
        PROVE  owner'[tx'[u].key] = u /\ rows'[tx'[u].key] = tx'[u].seen
    <3>1. CASE u = t BY <1>0, <1>2, <1>3, <1>4, <1>5, <3>1
    <3>2. CASE u # t BY <1>0, <1>3, <2>1, <2>2, <3>2 DEF Unchanged
    <3> QED BY <3>1, <3>2
  <2>3. ASSUME NEW u \in Threads, tx'[u].at = "write", driver' = "mysql"
        PROVE  /\ rows'[tx'[u].key] = tx'[u].seen
               /\ owner'[tx'[u].key] = u \/ (~Found(tx'[u].seen) /\ u \in gaps'[tx'[u].key])
    <3>1. u # t BY <1>2, <1>3, <2>3
    <3>2. tx'[u] = tx[u] /\ tx[u].at = "write" /\ driver = "mysql" BY <1>0, <1>3, <2>3, <3>1
    <3>3. /\ rows[tx[u].key] = tx[u].seen
          /\ owner[tx[u].key] = u \/ (~Found(tx[u].seen) /\ u \in gaps[tx[u].key])
      BY <1>0, <3>2 DEF Unchanged
    <3> QED BY <1>0, <2>1, <3>1, <3>2, <3>3
  <2> QED BY <2>2, <2>3 DEF Unchanged
<1>11. OnePlace' /\ TakeOnce'
  <2>1. Mark(tx'[t]) \in {Mark(tx[t]), 0} BY <1>0, <1>1, <1>2, <1>3 DEF Mark, Writing
  <2>2. \A u \in Threads : Mark(tx'[u]) \in {Mark(tx[u]), 0} BY <1>3, <2>1
  <2> QED BY <1>0, <2>2, FewerPlaces
<1> QED BY <1>6, <1>7, <1>8, <1>9, <1>10, <1>11 DEF IInv

(* The table is empty and nobody is in a transaction. *)
LEMMA IInvInit == Init => IInv
<1> SUFFICES ASSUME Init PROVE IInv
  OBVIOUS
<1>1. /\ \A k \in Keys : rows[k] = Absent /\ rows[k].stamp = 0 /\ owner[k] = "free" /\ gaps[k] = {}
      /\ \A t \in Threads : tx[t] = Idle /\ tx[t].at = "idle" /\ Mark(tx[t]) = 0
  BY RecordFacts DEF Init, Absent
<1>2. TypeOK BY RecordFacts, DatabaseAssumption DEF Init, TypeOK
<1>3. WellFormed BY <1>1 DEF WellFormed, Writing
<1>4. LocksHeld /\ GapsHeld /\ Unchanged
  BY <1>1, DatabaseAssumption DEF LocksHeld, GapsHeld, Unchanged
<1>5. OnePlace BY <1>1 DEF Init, OnePlace, Found
<1>6. TakeOnce BY DEF Init, TakeOnce
<1> QED BY <1>2, <1>3, <1>4, <1>5, <1>6 DEF IInv

(* The row Set and Increment will write has a new stamp. *)
LEMMA WriteStep ==
    ASSUME IInv, NEW t \in Threads, NEW k \in Keys, NEW c \in Calls,
           tx[t].at = "idle", stamps < MaxWrites, stamps' = stamps + 1,
           c.at = "begin", c.op \in {"Set", "Increment"}, c.key = k, c.new.stamp = stamps + 1,
           tx' = [tx EXCEPT ![t] = c], UNCHANGED <<rows, locks, env, ret, takes>>
    PROVE  IInv'
<1>0. TypeOK /\ OnePlace /\ stamps \in Nat /\ stamps + 1 \in 0 .. MaxWrites /\ stamps + 1 # 0
  BY DatabaseAssumption DEF IInv, TypeOK
<1>1. Mark(c) = stamps + 1 /\ Found(c.new) BY <1>0 DEF Mark, Writing, Found
<1>2. /\ WellFormed' /\ LocksHeld' /\ GapsHeld' /\ Unchanged' /\ TakeOnce'
      /\ stamps' \in 0 .. MaxWrites /\ conns' \subseteq Threads => TypeOK'
  BY <1>1, QuietStep DEF locks
<1>3. TypeOK' BY <1>0, <1>2 DEF TypeOK, locks
<1>4. tx'[t] = c /\ \A u \in Threads \ {t} : tx'[u] = tx[u] BY <1>0, CallStep
<1>5. OnePlace' BY <1>0, <1>1, <1>4, NewPlace
<1> QED BY <1>2, <1>3, <1>5 DEF IInv

(* Counters wrap in the int64 range. *)
LEMMA WrapInRange ==
    ASSUME NEW a \in Int64, NEW b \in Int64
    PROVE  Wrap(a + b) \in Int64
BY RangeAssumption DEF Wrap, Int64

(* The statement that writes the counter, or refuses to count a text. *)
LEMMA IncrementStep ==
    ASSUME IInv, NEW t \in Threads, IncrementWrite(t)
    PROVE  IInv'
<1>0. /\ TypeOK /\ WellFormed /\ tx[t].at = "write" /\ tx[t].op = "Increment"
      /\ clock \in Nat
  BY DEF IInv, IncrementWrite, TypeOK
<1>1. /\ tx[t].seen \in Rows /\ tx[t].new \in Rows /\ tx[t].delta \in Int64 /\ tx[t].ttl \in Int
      /\ Found(tx[t].new)
  BY <1>0 DEF TypeOK, Calls, WellFormed, Writing
<1>2. PICK base \in Rows : base = Base(tx[t].seen) BY <1>1, RecordFacts DEF Base
<1>3. PICK row :
        /\ row = [value     |-> Wrap(Current(base) + tx[t].delta),
                  expiresAt |-> IF tx[t].ttl > 0 THEN clock + tx[t].ttl ELSE base.expiresAt,
                  stamp     |-> tx[t].new.stamp]
        /\ WriteRow(t, row) /\ Current(base) # Text
  BY <1>2 DEF IncrementWrite
<1>4. row \in Rows
  <2>1. Current(base) \in Int64
    BY <1>2, <1>3, RangeAssumption DEF Current, Rows, Values, Int64
  <2>2. Wrap(Current(base) + tx[t].delta) \in Values BY <1>1, <2>1, WrapInRange DEF Values
  <2>3. (IF tx[t].ttl > 0 THEN clock + tx[t].ttl ELSE base.expiresAt) \in Nat
    BY <1>0, <1>1, <1>2 DEF Rows
  <2>4. tx[t].new.stamp \in 0 .. MaxWrites BY <1>1 DEF Rows
  <2> QED BY <1>3, <2>2, <2>3, <2>4 DEF Rows
<1>5. Found(row) /\ row.stamp = tx[t].new.stamp BY <1>1, <1>3 DEF Found
<1> QED BY <1>0, <1>3, <1>4, <1>5, SecondStatement

(* Every step keeps the inductive invariant: one case per action. *)
LEMMA IInvStep == IInv /\ [Next]_vars => IInv'
<1> SUFFICES ASSUME IInv, [Next]_vars PROVE IInv'
  OBVIOUS
<1>0. TypeOK /\ WellFormed BY DEF IInv
<1>1. CASE UNCHANGED vars
  <2>1. UNCHANGED <<driver, pool, rows, owner, gaps, conns, tx, clock, ret, stamps, takes>>
    BY <1>1 DEF vars
  <2>2. TypeOK' BY <1>0, <2>1 DEF TypeOK
  <2>3. WellFormed' BY <1>0, <2>1 DEF WellFormed
  <2>4. LocksHeld' BY <2>1 DEF IInv, LocksHeld
  <2>5. GapsHeld' BY <2>1 DEF IInv, GapsHeld
  <2>6. Unchanged' BY <2>1 DEF IInv, Unchanged
  <2>7. OnePlace' /\ TakeOnce' BY <2>1 DEF IInv, OnePlace, TakeOnce
  <2> QED BY <2>2, <2>3, <2>4, <2>5, <2>6, <2>7 DEF IInv
<1>2. CASE Tick
  <2>1. /\ UNCHANGED <<rows, owner, gaps, conns, driver, pool, tx, ret, stamps, takes>>
        /\ clock' \in 1 .. MaxClock
    BY <1>0, <1>2, DatabaseAssumption DEF Tick, locks, TypeOK
  <2>2. TypeOK' BY <1>0, <2>1 DEF TypeOK
  <2>3. WellFormed' BY <1>0, <2>1 DEF WellFormed
  <2>4. LocksHeld' BY <2>1 DEF IInv, LocksHeld
  <2>5. GapsHeld' BY <2>1 DEF IInv, GapsHeld
  <2>6. Unchanged' BY <2>1 DEF IInv, Unchanged
  <2>7. OnePlace' /\ TakeOnce' BY <2>1 DEF IInv, OnePlace, TakeOnce
  <2> QED BY <2>2, <2>3, <2>4, <2>5, <2>6, <2>7 DEF IInv
<1>3. ASSUME NEW t \in Threads, NEW k \in Keys, Read(t, k) PROVE IInv'
  <2>0. tx[t].at = "idle" /\ UNCHANGED <<rows, locks, env, stamps, takes>> BY <1>3 DEF Read
  <2>1. CASE Return(t, "miss") BY <2>0, <2>1, QuietReturn
  <2>2. CASE /\ tx' = [tx EXCEPT ![t] = [Call("check", "Read", k) EXCEPT !.seen = rows[k]]]
             /\ UNCHANGED ret
    <3>1. PICK c : c = [Call("check", "Read", k) EXCEPT !.seen = rows[k]] OBVIOUS
    <3>2. c \in Calls /\ c.at = "check" /\ c.key = k /\ c.op = "Read" /\ Mark(c) = 0
      BY <1>0, <3>1, RecordFacts DEF Call, Idle, Calls, TypeOK, Mark, Writing
    <3>3. /\ WellFormed' /\ LocksHeld' /\ GapsHeld' /\ Unchanged' /\ TakeOnce'
          /\ stamps' \in 0 .. MaxWrites /\ conns' \subseteq Threads => TypeOK'
          /\ UNCHANGED stamps /\ Mark(c) \in {Mark(tx[t]), 0} => OnePlace'
      BY <2>0, <2>2, <3>1, <3>2, QuietStep DEF Writing, locks
    <3> QED BY <1>0, <2>0, <3>2, <3>3 DEF IInv, TypeOK, locks
  <2> QED BY <1>3, <2>1, <2>2 DEF Read
<1>4. ASSUME NEW t \in Threads, ReadCheck(t) PROVE IInv'
  <2>0. tx[t].at = "check" /\ UNCHANGED <<rows, locks, env, stamps, takes>> BY <1>4 DEF ReadCheck
  <2>1. CASE Return(t, "ok") BY <2>0, <2>1, QuietReturn
  <2>2. CASE tx' = [tx EXCEPT ![t].at = "sweep"] /\ UNCHANGED ret
    <3>1. PICK c : c = [tx[t] EXCEPT !.at = "sweep"] OBVIOUS
    <3>2. c \in Calls /\ c.at = "sweep" /\ c.key \in Keys /\ Mark(c) = 0
      <4>1. tx[t] \in Calls BY <1>0 DEF TypeOK
      <4>2. tx[t].key \in Keys BY <1>0, <2>0 DEF WellFormed
      <4>3. c \in Calls /\ c.at = "sweep" /\ c.key = tx[t].key BY <3>1, <4>1 DEF Calls
      <4> QED BY <4>2, <4>3 DEF Mark, Writing
    <3>3. tx' = [tx EXCEPT ![t] = c] BY <1>0, <2>2, <3>1 DEF TypeOK
    <3>4. /\ WellFormed' /\ LocksHeld' /\ GapsHeld' /\ Unchanged' /\ TakeOnce'
          /\ stamps' \in 0 .. MaxWrites /\ conns' \subseteq Threads => TypeOK'
          /\ UNCHANGED stamps /\ Mark(c) \in {Mark(tx[t]), 0} => OnePlace'
      BY <2>0, <2>2, <3>2, <3>3, QuietStep DEF Writing, locks
    <3> QED BY <1>0, <2>0, <3>2, <3>4 DEF IInv, TypeOK, locks
  <2> QED BY <1>4, <2>1, <2>2 DEF ReadCheck
<1>5. ASSUME NEW t \in Threads, Sweep(t) PROVE IInv'
  <2>1. tx[t].key \in Keys BY <1>0, <1>5 DEF Sweep, WellFormed
  <2> QED BY <1>5, <2>1, QuietReturn DEF Sweep
<1>6. ASSUME NEW t \in Threads, SweepFails(t) PROVE IInv'
  BY <1>6, QuietReturn DEF SweepFails
<1>7. ASSUME NEW t \in Threads, ReadFails(t) PROVE IInv'
  BY <1>7, QuietReturn DEF ReadFails
<1>8. ASSUME NEW t \in Threads, NEW k \in Keys, Delete(t, k) \/ DeleteLost(t, k) PROVE IInv'
  BY <1>8, QuietReturn DEF Delete, DeleteLost
<1>9. ASSUME NEW t \in Threads, NEW k \in Keys, NEW v \in Inputs, NEW ttl \in TTLs,
             Set(t, k, v, ttl)
      PROVE  IInv'
  <2>1. PICK c : c = [Call("begin", "Set", k) EXCEPT
                !.new = [value |-> v, expiresAt |-> Deadline(clock, ttl), stamp |-> stamps + 1]]
    OBVIOUS
  <2>2. Deadline(clock, ttl) \in Nat /\ v \in Values /\ stamps + 1 \in 0 .. MaxWrites
    BY <1>0, <1>9, DatabaseAssumption DEF Deadline, TypeOK, Set
  <2>3. c \in Calls /\ c.at = "begin" /\ c.op = "Set" /\ c.key = k /\ c.new.stamp = stamps + 1
    BY <2>1, <2>2, RecordFacts DEF Call, Idle, Calls, Rows
  <2> QED BY <1>9, <2>1, <2>3, WriteStep DEF Set
<1>10. ASSUME NEW t \in Threads, NEW k \in Keys, NEW d \in Deltas, NEW ttl \in TTLs,
              Increment(t, k, d, ttl)
       PROVE  IInv'
  <2>1. PICK c : c = [Call("begin", "Increment", k) EXCEPT
                !.delta = d, !.ttl = ttl, !.new = [Absent EXCEPT !.stamp = stamps + 1]]
    OBVIOUS
  <2>2. stamps + 1 \in 0 .. MaxWrites /\ d \in Int64 /\ ttl \in Int
    BY <1>0, <1>10, DatabaseAssumption DEF TypeOK, Increment
  <2>3. [Absent EXCEPT !.stamp = stamps + 1] \in Rows BY <2>2, RecordFacts DEF Rows
  <2>4. /\ c \in Calls /\ c.at = "begin" /\ c.op = "Increment" /\ c.key = k
        /\ c.new.stamp = stamps + 1
    BY <2>1, <2>2, <2>3, RecordFacts DEF Call, Idle, Calls, Absent
  <2> QED BY <1>10, <2>1, <2>4, WriteStep DEF Increment
<1>11. ASSUME NEW t \in Threads, NEW k \in Keys, Take(t, k) PROVE IInv'
  <2>1. PICK c : c = Call("begin", "Take", k) OBVIOUS
  <2>2. c \in Calls /\ c.at = "begin" /\ c.key = k /\ c.op = "Take" /\ Mark(c) = 0 /\ ~Writing(c)
    BY <2>1, RecordFacts DEF Call, Idle, Calls, Mark, Writing
  <2>3. /\ tx[t].at = "idle" /\ tx' = [tx EXCEPT ![t] = c]
        /\ UNCHANGED <<rows, owner, gaps, env, ret, takes>> /\ UNCHANGED <<stamps, conns>>
    BY <1>11, <2>1 DEF Take, locks
  <2>4. /\ WellFormed' /\ LocksHeld' /\ GapsHeld' /\ Unchanged' /\ TakeOnce'
        /\ stamps' \in 0 .. MaxWrites /\ conns' \subseteq Threads => TypeOK'
        /\ UNCHANGED stamps /\ Mark(c) \in {Mark(tx[t]), 0} => OnePlace'
    BY <2>2, <2>3, QuietStep
  <2> QED BY <1>0, <2>2, <2>3, <2>4 DEF IInv, TypeOK
<1>12. ASSUME NEW t \in Threads, BeginTx(t) PROVE IInv'
  <2>1. PICK c : c = [tx[t] EXCEPT !.at = "open"] OBVIOUS
  <2>2. /\ tx[t].at = "begin" /\ UNCHANGED <<rows, owner, gaps, env, ret, takes>>
        /\ UNCHANGED stamps /\ conns' \subseteq Threads /\ tx' = [tx EXCEPT ![t] = c]
    BY <1>0, <1>12, <2>1 DEF BeginTx, TypeOK
  <2>3. /\ c \in Calls /\ c.at = "open" /\ c.key \in Keys /\ c.op \in {"Set", "Take", "Increment"}
        /\ Mark(c) = Mark(tx[t]) /\ (Writing(c) => Found(c.new))
    <3>1. tx[t] \in Calls BY <1>0 DEF TypeOK
    <3>2. tx[t].key \in Keys /\ tx[t].op \in {"Set", "Take", "Increment"}
      BY <1>0, <2>2 DEF WellFormed
    <3>3. Writing(tx[t]) => Found(tx[t].new) BY <1>0 DEF WellFormed
    <3>4. /\ c \in Calls /\ c.at = "open" /\ c.key = tx[t].key /\ c.op = tx[t].op
          /\ c.new = tx[t].new
      BY <2>1, <3>1 DEF Calls
    <3> QED BY <2>2, <3>2, <3>3, <3>4 DEF Mark, Writing
  <2>4. /\ WellFormed' /\ LocksHeld' /\ GapsHeld' /\ Unchanged' /\ TakeOnce'
        /\ stamps' \in 0 .. MaxWrites /\ conns' \subseteq Threads => TypeOK'
        /\ UNCHANGED stamps /\ Mark(c) \in {Mark(tx[t]), 0} => OnePlace'
    BY <2>2, <2>3, QuietStep
  <2> QED BY <1>0, <2>2, <2>3, <2>4 DEF IInv, TypeOK
<1>13. ASSUME NEW t \in Threads, SetDelete(t) PROVE IInv'
  BY <1>13, FirstStatement DEF SetDelete
<1>14. ASSUME NEW t \in Threads, SelectRow(t) PROVE IInv'
  <2>1. CASE Rollback(t, "miss") BY <2>1, RollbackStep
  <2>2. CASE /\ ~(tx[t].op = "Take" /\ ~Found(rows[tx[t].key]))
             /\ IF driver = "mysql" THEN LockRow(t, tx[t].key) ELSE UNCHANGED locks
             /\ tx' = [tx EXCEPT ![t].at = "write", ![t].seen = rows[tx[t].key]]
             /\ UNCHANGED <<rows, env, ret, stamps, takes>>
    <3>1. driver \in {"mysql", "sqlite"} BY <1>0, DatabaseAssumption DEF TypeOK
    <3>2. \/ MayLock(t, tx[t].key) /\ LockRow(t, tx[t].key)
          \/ driver = "sqlite" /\ UNCHANGED locks
      BY <1>14, <2>2, <3>1 DEF SelectRow
    <3> QED BY <1>14, <2>2, <3>2, FirstStatement DEF SelectRow
  <2> QED BY <1>14, <2>1, <2>2 DEF SelectRow
<1>15. ASSUME NEW t \in Threads, SetInsert(t) PROVE IInv'
  <2>1. tx[t].at = "write" /\ tx[t].op = "Set" /\ WriteRow(t, tx[t].new)
        /\ tx[t].new \in Rows /\ Found(tx[t].new)
    BY <1>0, <1>15 DEF SetInsert, TypeOK, Calls, WellFormed, Writing
  <2>2. PICK row \in Rows : row = tx[t].new BY <2>1
  <2> QED BY <2>1, <2>2, SecondStatement
<1>16. ASSUME NEW t \in Threads, TakeDelete(t) PROVE IInv'
  BY <1>16, RecordFacts, SecondStatement DEF TakeDelete
<1>17. ASSUME NEW t \in Threads, IncrementWrite(t) PROVE IInv' BY <1>17, IncrementStep
<1>18. ASSUME NEW t \in Threads, IncrementFail(t) \/ Aborted(t) \/ StatementFails(t) PROVE IInv'
  BY <1>18, RollbackStep DEF IncrementFail, Aborted, StatementFails
<1>19. ASSUME NEW t \in Threads, Commit(t) \/ CommitLost(t) PROVE IInv' BY <1>19, CommitStep
<1>20. ASSUME NEW t \in Threads, TakeCheck(t) PROVE IInv' BY <1>20, TakeCheckStep
<1> QED
  BY <1>1, <1>2, <1>3, <1>4, <1>5, <1>6, <1>7, <1>8, <1>9, <1>10, <1>11, <1>12, <1>13, <1>14,
     <1>15, <1>16, <1>17, <1>18, <1>19, <1>20
  DEF Next, Start, Step

(* The locks of the database and the places of every written row, in every    *)
(* reachable state.                                                           *)
THEOREM IInvHolds == Spec => []IInv
BY IInvInit, IInvStep, PTL DEF Spec

(* Types, for every run of database.go. *)
THEOREM TypeOKHolds == Spec => []TypeOK
<1>1. IInv => TypeOK BY DEF IInv
<1> QED BY <1>1, IInvHolds, PTL

(* Take hands a row out at most once, for every number of goroutines, keys    *)
(* and writes, whatever statement fails or loses its answer.                  *)
THEOREM TakeOnceHolds == Spec => []TakeOnce
<1>1. IInv => TakeOnce BY DEF IInv
<1> QED BY <1>1, IInvHolds, PTL

(* A Take or Increment commits what it computed from the committed row, on    *)
(* MySQL for its locks and on SQLite for the check of its snapshot.           *)
THEOREM NoLostUpdateHolds == Spec => []NoLostUpdate
<1>1. IInv => NoLostUpdate BY DEF IInv, Unchanged, NoLostUpdate
<1> QED BY <1>1, IInvHolds, PTL
=============================================================================
