--------------------------- MODULE DatabaseCache ---------------------------
(* cache.Database (src/cache/database.go): the cache as a table.  Set, Take   *)
(* and Increment are transactions of two statements; Get, Exists and TTL are  *)
(* one SELECT, followed by a DELETE of its own when the row has expired.      *)
(*                                                                            *)
(* The database and the pool of database/sql are external.  MySQL (InnoDB,    *)
(* repeatable read): a locking read or a write of an existing row takes its   *)
(* exclusive lock, of a missing row a gap lock, which others may share and    *)
(* which blocks their INSERT; a deadlock aborts one transaction.  SQLite: a   *)
(* write fails when the rows read before it have changed.  Both hold their    *)
(* locks until COMMIT or ROLLBACK.                                            *)
EXTENDS CacheTypes, FiniteSets

CONSTANTS
    Threads, Inputs, TTLs, Deltas,
    Drivers,        \* the databases a store may be on: "mysql", "sqlite"
    PoolSizes,      \* values of SetMaxOpenConns
    MaxClock,       \* bound: the last time the clock shows
    MaxWrites       \* bound: how many rows are ever written

ASSUME DatabaseAssumption ==
    /\ Drivers \subseteq {"mysql", "sqlite"}
    /\ PoolSizes \subseteq Nat \ {0} /\ MaxClock \in Nat \ {0} /\ MaxWrites \in Nat
    /\ Inputs \subseteq Values /\ TTLs \subseteq Int /\ Deltas \subseteq Int64
    /\ "free" \notin Threads

VARIABLES
    driver,     \* Database.driver
    pool,       \* how many connections may be open
    rows,       \* the committed table; a missing row is Absent
    owner,      \* the transaction that holds the exclusive lock of each row
    gaps,       \* the transactions that hold a gap lock where a row is missing
    conns,      \* the transactions that hold a connection of the pool
    tx,         \* the operation each goroutine is in
    clock,      \* what now() returns
    ret,        \* how the last operation of each goroutine ended
    stamps,     \* history: how many rows have been written
    takes       \* history: how often each row was handed out by Take

vars == <<driver, pool, rows, owner, gaps, conns, tx, clock, ret, stamps, takes>>

locks == <<owner, gaps, conns>>

env == <<driver, pool, clock>>

Rows == [value : Values, expiresAt : Nat, stamp : 0 .. MaxWrites]

\* As in MemoryCache, the stamp tells two writes of the same bytes apart.
Absent == [value |-> Text, expiresAt |-> 0, stamp |-> 0]

Found(row) == row.stamp # 0

Calls == [at : {"idle", "check", "sweep", "begin", "open", "write", "commit", "taken"},
          op : {"none", "Read", "Set", "Take", "Increment"}, key : Keys \union {"none"},
          seen : Rows, new : Rows, delta : Int64, ttl : Int]

Idle == [at |-> "idle", op |-> "none", key |-> "none", seen |-> Absent, new |-> Absent,
         delta |-> 0, ttl |-> 0]

Call(at, op, k) == [Idle EXCEPT !.at = at, !.op = op, !.key = k]

Init == /\ driver \in Drivers
        /\ pool \in PoolSizes
        /\ rows = [k \in Keys |-> Absent]
        /\ owner = [k \in Keys |-> "free"]
        /\ gaps = [k \in Keys |-> {}]
        /\ conns = {}
        /\ tx = [t \in Threads |-> Idle]
        /\ clock = 1
        /\ ret = [t \in Threads |-> "ok"]
        /\ stamps = 0
        /\ takes = [s \in 1 .. MaxWrites |-> 0]

-----------------------------------------------------------------------------
(* The pool and the locks of the database. *)

\* A statement outside a transaction needs a connection for itself only.
PoolFree == Cardinality(conns) < pool

MayLock(t, k) == owner[k] \in {"free", t}

\* A locking read or DELETE: the row itself, or the gap where it would be.
LockRow(t, k) ==
    IF Found(rows[k])
    THEN owner' = [owner EXCEPT ![k] = t] /\ UNCHANGED <<gaps, conns>>
    ELSE gaps' = [gaps EXCEPT ![k] = @ \union {t}] /\ UNCHANGED <<owner, conns>>

\* Mutant: a lock of the row is all a write needs.
MayWriteStale(t, k) ==
    /\ MayLock(t, k)
    /\ driver = "mysql" => gaps[k] \subseteq {t}

\* A write by a transaction that read the row before.
MayWrite(t, k) ==
    /\ MayLock(t, k)
    /\ driver = "mysql" => gaps[k] \subseteq {t}
    /\ driver = "sqlite" => rows[k] = tx[t].seen

\* The end of a transaction: its locks and its connection are given back.
Unlock(t) ==
    /\ owner' = [k \in Keys |-> IF owner[k] = t THEN "free" ELSE owner[k]]
    /\ gaps' = [k \in Keys |-> gaps[k] \ {t}]
    /\ conns' = conns \ {t}

\* The values returned are those of tx: seen for a read, new for Increment.
Return(t, out) ==
    /\ tx' = [tx EXCEPT ![t] = Idle]
    /\ ret' = [ret EXCEPT ![t] = out]

\* Mutant: a failed statement returns without Rollback and keeps locks and connection.
RollbackNot(t, out) == Return(t, out) /\ UNCHANGED <<rows, locks, env, stamps, takes>>

Rollback(t, out) == Unlock(t) /\ Return(t, out) /\ UNCHANGED <<rows, env, stamps, takes>>

-----------------------------------------------------------------------------
(* Get, Exists and TTL: a plain SELECT sees committed rows and takes no lock; *)
(* the row is compared with the clock afterwards.                             *)
Read(t, k) ==
    /\ tx[t].at = "idle" /\ PoolFree
    /\ IF Found(rows[k])
       THEN tx' = [tx EXCEPT ![t] = [Call("check", "Read", k) EXCEPT !.seen = rows[k]]]
            /\ UNCHANGED ret
       ELSE Return(t, "miss")
    /\ UNCHANGED <<rows, locks, env, stamps, takes>>

ReadCheck(t) ==
    /\ tx[t].at = "check"
    /\ IF Expired(tx[t].seen.expiresAt, clock)
       THEN tx' = [tx EXCEPT ![t].at = "sweep"] /\ UNCHANGED ret
       ELSE Return(t, "ok")
    /\ UNCHANGED <<rows, locks, env, stamps, takes>>

(* _ = cache.Delete(ctx, key): whatever row is there by now, if it succeeds. *)
Sweep(t) ==
    /\ tx[t].at = "sweep" /\ PoolFree /\ owner[tx[t].key] = "free"
    /\ rows' = [rows EXCEPT ![tx[t].key] = Absent]
    /\ Return(t, "miss")
    /\ UNCHANGED <<locks, env, stamps, takes>>

SweepFails(t) ==
    /\ tx[t].at = "sweep"
    /\ Return(t, "miss")
    /\ UNCHANGED <<rows, locks, env, stamps, takes>>

(* The calls that become transactions.  Set reads the clock first. *)
Set(t, k, v, ttl) ==
    /\ tx[t].at = "idle" /\ stamps < MaxWrites
    /\ stamps' = stamps + 1
    /\ tx' = [tx EXCEPT ![t] = [Call("begin", "Set", k) EXCEPT
                !.new = [value |-> v, expiresAt |-> Deadline(clock, ttl), stamp |-> stamps + 1]]]
    /\ UNCHANGED <<rows, locks, env, ret, takes>>

Take(t, k) ==
    /\ tx[t].at = "idle"
    /\ tx' = [tx EXCEPT ![t] = Call("begin", "Take", k)]
    /\ UNCHANGED <<rows, locks, env, ret, stamps, takes>>

Increment(t, k, delta, ttl) ==
    /\ tx[t].at = "idle" /\ stamps < MaxWrites
    /\ stamps' = stamps + 1
    /\ tx' = [tx EXCEPT ![t] = [Call("begin", "Increment", k) EXCEPT
                !.delta = delta, !.ttl = ttl, !.new = [Absent EXCEPT !.stamp = stamps + 1]]]
    /\ UNCHANGED <<rows, locks, env, ret, takes>>

BeginTx(t) ==
    /\ tx[t].at = "begin" /\ PoolFree
    /\ conns' = conns \union {t}
    /\ tx' = [tx EXCEPT ![t].at = "open"]
    /\ UNCHANGED <<rows, owner, gaps, env, ret, stamps, takes>>

(* Set: DELETE, which locks, then INSERT. *)
SetDelete(t) ==
    /\ tx[t].at = "open" /\ tx[t].op = "Set"
    /\ MayLock(t, tx[t].key)
    /\ LockRow(t, tx[t].key)
    /\ tx' = [tx EXCEPT ![t].at = "write", ![t].seen = rows[tx[t].key]]
    /\ UNCHANGED <<rows, env, ret, stamps, takes>>

\* Mutant: no FOR UPDATE.
SelectRowUnlocked(t) ==
    /\ tx[t].at = "open" /\ tx[t].op \in {"Take", "Increment"}
    /\ IF tx[t].op = "Take" /\ ~Found(rows[tx[t].key])
       THEN Rollback(t, "miss")
       ELSE /\ tx' = [tx EXCEPT ![t].at = "write", ![t].seen = rows[tx[t].key]]
            /\ UNCHANGED <<rows, locks, env, ret, stamps, takes>>

(* Take and Increment: SELECT, FOR UPDATE on MySQL only.  Take ends with a    *)
(* rollback when there is no row.                                             *)
SelectRow(t) ==
    /\ tx[t].at = "open" /\ tx[t].op \in {"Take", "Increment"}
    /\ driver = "mysql" => MayLock(t, tx[t].key)
    /\ IF tx[t].op = "Take" /\ ~Found(rows[tx[t].key])
       THEN Rollback(t, "miss")
       ELSE /\ IF driver = "mysql" THEN LockRow(t, tx[t].key) ELSE UNCHANGED locks
            /\ tx' = [tx EXCEPT ![t].at = "write", ![t].seen = rows[tx[t].key]]
            /\ UNCHANGED <<rows, env, ret, stamps, takes>>

\* The second statement of a transaction: row is what it will have written.
WriteRow(t, row) ==
    /\ MayWrite(t, tx[t].key)
    /\ owner' = [owner EXCEPT ![tx[t].key] = t]
    /\ tx' = [tx EXCEPT ![t].at = "commit", ![t].new = row]
    /\ UNCHANGED <<rows, gaps, conns, env, ret, stamps, takes>>

SetInsert(t) == tx[t].at = "write" /\ tx[t].op = "Set" /\ WriteRow(t, tx[t].new)

TakeDelete(t) == tx[t].at = "write" /\ tx[t].op = "Take" /\ WriteRow(t, Absent)

\* An expired row is deleted and forgotten before Increment goes on.
Base(row) == IF Expired(row.expiresAt, clock) THEN Absent ELSE row

Current(row) == IF Found(row) THEN row.value ELSE 0

IncrementWrite(t) ==
    /\ tx[t].at = "write" /\ tx[t].op = "Increment"
    /\ LET base == Base(tx[t].seen)
       IN /\ Current(base) # Text
          /\ WriteRow(t, [value     |-> Wrap(Current(base) + tx[t].delta),
                          expiresAt |-> IF tx[t].ttl > 0 THEN clock + tx[t].ttl
                                        ELSE base.expiresAt,
                          stamp     |-> tx[t].new.stamp])

IncrementFail(t) ==
    /\ tx[t].at = "write" /\ tx[t].op = "Increment"
    /\ Current(Base(tx[t].seen)) = Text
    /\ Rollback(t, "error")

(* COMMIT.  Take looks at the clock only afterwards. *)
Commit(t) ==
    /\ tx[t].at = "commit"
    /\ rows' = [rows EXCEPT ![tx[t].key] = tx[t].new]
    /\ Unlock(t)
    /\ IF tx[t].op = "Take"
       THEN tx' = [tx EXCEPT ![t].at = "taken"] /\ UNCHANGED ret
       ELSE Return(t, "ok")
    /\ UNCHANGED <<env, stamps, takes>>

TakeCheck(t) ==
    /\ tx[t].at = "taken"
    /\ IF Expired(tx[t].seen.expiresAt, clock)
       THEN Return(t, "miss") /\ UNCHANGED takes
       ELSE /\ Return(t, "ok")
            /\ takes' = [takes EXCEPT ![tx[t].seen.stamp] = @ + 1]
    /\ UNCHANGED <<rows, locks, env, stamps>>

(* Delete waits for the lock of the row. *)
Delete(t, k) ==
    /\ tx[t].at = "idle" /\ PoolFree /\ owner[k] = "free"
    /\ rows' = [rows EXCEPT ![k] = Absent]
    /\ Return(t, "ok")
    /\ UNCHANGED <<locks, env, stamps, takes>>

(* The database aborts: MySQL one of two transactions that wait for each      *)
(* other's gap lock, SQLite a write on a snapshot that is out of date.        *)
Aborted(t) ==
    /\ tx[t].at = "write"
    /\ \/ driver = "mysql" /\ \E u \in gaps[tx[t].key] \ {t} : tx[u].at = "write"
       \/ driver = "sqlite" /\ (rows[tx[t].key] # tx[t].seen \/ ~MayLock(t, tx[t].key))
    /\ Rollback(t, "error")

(* BEGIN and any statement may fail (the connection, the context), and so may *)
(* COMMIT and the DELETE of Delete, before or after it took effect.           *)
StatementFails(t) ==
    tx[t].at \in {"begin", "open", "write", "commit"} /\ Rollback(t, "error")

ReadFails(t) ==
    /\ tx[t].at = "idle"
    /\ Return(t, "error")
    /\ UNCHANGED <<rows, locks, env, stamps, takes>>

DeleteLost(t, k) ==
    /\ tx[t].at = "idle" /\ PoolFree /\ owner[k] = "free"
    /\ rows' = [rows EXCEPT ![k] = Absent]
    /\ Return(t, "error")
    /\ UNCHANGED <<locks, env, stamps, takes>>

CommitLost(t) ==
    /\ tx[t].at = "commit"
    /\ rows' = [rows EXCEPT ![tx[t].key] = tx[t].new]
    /\ Unlock(t)
    /\ Return(t, "error")
    /\ UNCHANGED <<env, stamps, takes>>

Tick == /\ clock < MaxClock
        /\ clock' = clock + 1
        /\ UNCHANGED <<driver, pool, rows, locks, tx, ret, stamps, takes>>

\* What a goroutine inside an operation does next, when nothing fails.
Step(t) == \/ ReadCheck(t) \/ Sweep(t) \/ BeginTx(t) \/ SetDelete(t) \/ SelectRow(t)
           \/ SetInsert(t) \/ TakeDelete(t) \/ IncrementWrite(t) \/ IncrementFail(t)
           \/ Commit(t) \/ TakeCheck(t) \/ Aborted(t)

Start(t) == \E k \in Keys :
              \/ Read(t, k) \/ Take(t, k) \/ Delete(t, k) \/ DeleteLost(t, k)
              \/ \E ttl \in TTLs : \/ \E v \in Inputs : Set(t, k, v, ttl)
                                   \/ \E d \in Deltas : Increment(t, k, d, ttl)

Next == \/ Tick
        \/ \E t \in Threads : \/ Start(t) \/ Step(t)
                              \/ SweepFails(t) \/ ReadFails(t)
                              \/ StatementFails(t) \/ CommitLost(t)

(* The lock queues of the database and the pool of database/sql are first     *)
(* come, first served: a goroutine that can go on again and again does.       *)
Spec == Init /\ [][Next]_vars /\ \A t \in Threads : SF_vars(Step(t))

-----------------------------------------------------------------------------
\* Types; counters stay in the int64 range that Increment wraps to (database.go).
TypeOK == /\ driver \in Drivers
          /\ pool \in PoolSizes
          /\ rows \in [Keys -> Rows]
          /\ owner \in [Keys -> Threads \union {"free"}]
          /\ gaps \in [Keys -> SUBSET Threads]
          /\ conns \subseteq Threads
          /\ tx \in [Threads -> Calls]
          /\ ret \in [Threads -> {"ok", "miss", "error"}]
          /\ clock \in 1 .. MaxClock
          /\ stamps \in 0 .. MaxWrites
          /\ takes \in [1 .. MaxWrites -> Nat]

(* README.md:40, "one-time reads through Take": two transactions never both   *)
(* hand out the same row (database.go:156-193), whatever fails.               *)
TakeOnce == \A s \in DOMAIN takes : takes[s] <= 1

(* No lost update: a transaction that is about to commit an Increment or a    *)
(* Take still sees the row it computed from.  On MySQL that is FOR UPDATE, on *)
(* SQLite the check of the snapshot at the first write.                       *)
NoLostUpdate ==
    \A t \in Threads : tx[t].at = "commit" /\ tx[t].op \in {"Take", "Increment"}
                         => rows[tx[t].key] = tx[t].seen

(* Every operation comes to its end: no path leaves a transaction, with its   *)
(* locks and its pooled connection, open behind it, and goroutines that wait  *)
(* for each other are told apart by the database.                             *)
OperationsEnd == \A t \in Threads : tx[t].at # "idle" ~> tx[t].at = "idle"
=============================================================================
