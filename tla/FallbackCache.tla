--------------------------- MODULE FallbackCache ---------------------------
(* cache.Fallback (src/cache/fallback.go): a primary store in front of a      *)
(* fallback store, used by several goroutines.  Every operation is one call   *)
(* of the primary followed, or not, by one call of the fallback; nothing      *)
(* holds the two together.                                                    *)
(*                                                                            *)
(* The two stores are cache.Cache values, here by their contract: operations  *)
(* are atomic and an entry may go at any time (expiry on the store's own      *)
(* clock, eviction, a restart), so expiries need no representation.  A call   *)
(* of a store in Faulty (a remote one) may fail before or after it took       *)
(* effect; Go's nil store is one that is not in Present.                      *)
EXTENDS CacheTypes, FiniteSets

CONSTANTS
    Threads,    \* goroutines that share the cache
    Inputs,     \* the values clients pass to Set
    Present,    \* which of the two stores are not nil
    Faulty,     \* which stores may return an error
    MaxWrites   \* bound: how many Sets and Increments are started

Stores == {"primary", "fallback"}

ASSUME StoresAssumption == Present \subseteq Stores /\ Faulty \subseteq Stores

ASSUME InputAssumption == Inputs \subseteq Values /\ MaxWrites \in Nat

VARIABLES
    store,      \* what each store holds
    call,       \* the call of the fallback each goroutine still has to make
    ret,        \* what the last operation of each goroutine returned
    stamps,     \* history: how many values have been written
    takes,      \* history: how often each written value was taken
    settled     \* history: what an undisturbed operation left under the key

vars == <<store, call, ret, stamps, takes, settled>>

\* An entry names the write it comes from, so that equal values of different
\* writes are told apart.
Gone == [stamp |-> 0, value |-> Text]

Entries == [stamp : 0 .. MaxWrites, value : Values]

Reads == {"Get", "Exists", "TTL"}

Writes == {"Set", "Take", "Increment", "Delete"}

\* A call of one store.  stamp and value are used by Set and Increment only.
Request(op, k, stamp, value) == [op |-> op, key |-> k, stamp |-> stamp, value |-> value]

Requests == [op : Reads \union Writes, key : Keys \union {"none"},
             stamp : 0 .. MaxWrites, value : Values]

Answers == [out : {"ok", "miss", "error"}, value : Values, stamp : 0 .. MaxWrites]

Answer(out, entry) == [out |-> out, value |-> entry.value, stamp |-> entry.stamp]

Failed == Answer("error", Gone)

Current(e) == IF e = Gone THEN 0 ELSE e.value

Counted(e, q) == [stamp |-> q.stamp, value |-> Wrap(Current(e) + 1)]

\* The contract of a store: the entry after the call and its answer.
After(e, q) ==
    CASE q.op \in Reads -> e
      [] q.op = "Set" -> [stamp |-> q.stamp, value |-> q.value]
      [] q.op = "Increment" -> IF Current(e) = Text THEN e ELSE Counted(e, q)
      [] q.op \in {"Take", "Delete"} -> Gone

Reply(e, q) ==
    CASE q.op \in Reads \union {"Take"} -> Answer(IF e = Gone THEN "miss" ELSE "ok", e)
      [] q.op \in {"Set", "Delete"} -> Answer("ok", Gone)
      [] q.op = "Increment" -> IF Current(e) = Text THEN Failed
                               ELSE Answer("ok", Counted(e, q))

\* What a call of store s may do: succeed, fail without effect, or fail after
\* its effect (the answer is lost).
Outcomes(s, e, q) ==
    {[entry |-> After(e, q), reply |-> Reply(e, q)]}
      \union IF s \in Faulty THEN {[entry |-> e, reply |-> Failed],
                                   [entry |-> After(e, q), reply |-> Failed]}
             ELSE {}

-----------------------------------------------------------------------------
(* How Fallback combines the two answers.                                     *)

\* The call of the fallback that follows the primary's answer r to q, and what
\* becomes of its answer: "answer" is returned, "mirror" is ignored and r is
\* returned, "join" adds its error to r's.
Mirrors(q, r) == q.op \in {"Take", "Increment"} /\ r.out = "ok"

\* Mutant: a Take the primary answers leaves the fallback's copy alone.
FallbackRequestNoDelete(q, r) ==
    CASE Mirrors(q, r) /\ q.op = "Take" -> Request("Exists", q.key, 0, Text)
      [] Mirrors(q, r) /\ q.op = "Increment" -> Request("Set", q.key, r.stamp, r.value)
      [] OTHER -> q

\* Mutant: a Take the primary does not answer becomes a Get.
FallbackRequestGets(q, r) ==
    CASE Mirrors(q, r) /\ q.op = "Take" -> Request("Delete", q.key, 0, Text)
      [] Mirrors(q, r) /\ q.op = "Increment" -> Request("Set", q.key, r.stamp, r.value)
      [] ~Mirrors(q, r) /\ q.op = "Take" -> Request("Get", q.key, 0, Text)
      [] OTHER -> q

FallbackRequest(q, r) ==
    CASE Mirrors(q, r) /\ q.op = "Take" -> Request("Delete", q.key, 0, Text)
      [] Mirrors(q, r) /\ q.op = "Increment" -> Request("Set", q.key, r.stamp, r.value)
      [] OTHER -> q

Mode(q, r) == IF q.op \in {"Set", "Delete"} THEN "join"
              ELSE IF Mirrors(q, r) THEN "mirror" ELSE "answer"

\* A read that the primary answers is finished.
Done(q, r) == q.op \in Reads /\ r.out = "ok"

Join(r1, r2) == IF "error" \in {r1.out, r2.out} THEN Failed ELSE r2

Combine(mode, r1, r2) == CASE mode = "join" -> Join(r1, r2)
                           [] mode = "mirror" -> r1
                           [] mode = "answer" -> r2

\* The answer without a store behind it: the nil checks of each operation.
Nothing(q) == IF q.op \in {"Set", "Delete"} THEN Answer("ok", Gone) ELSE Answer("miss", Gone)

-----------------------------------------------------------------------------
(* History.  An operation that changes the key is undisturbed while no other  *)
(* one overlaps it and no store call of its own failed.                       *)

Calls == [at : {"idle", "fallback"}, op : Reads \union Writes \union {"none"}, q : Requests,
          mode : {"answer", "mirror", "join"}, first : Answers, clean : BOOLEAN]

Idle == [at |-> "idle", op |-> "none", q |-> Request("Get", "none", 0, Text),
         mode |-> "answer", first |-> Failed, clean |-> FALSE]

Changing(u, k) == call[u].at = "fallback" /\ call[u].op \in Writes /\ call[u].q.key = k

Disturb(t, op, k) ==
    [u \in Threads |-> IF u # t /\ op \in Writes /\ Changing(u, k)
                       THEN [call[u] EXCEPT !.clean = FALSE] ELSE call[u]]

Unknown == [known |-> FALSE, stamp |-> 0]

Known(s) == [known |-> TRUE, stamp |-> s]

\* What an undisturbed op with the answer r leaves in both stores.
Left(op, q, r) == IF op \in {"Take", "Delete"} THEN Known(0)
                  ELSE IF r.out = "ok" THEN Known(q.stamp) ELSE Unknown

Return(t, op, r) ==
    /\ ret' = [ret EXCEPT ![t] = [out |-> r.out, value |-> r.value]]
    /\ takes' = IF op = "Take" /\ r.out = "ok"
                THEN [takes EXCEPT ![r.stamp] = @ + 1] ELSE takes

-----------------------------------------------------------------------------
Init == /\ store = [s \in Stores |-> [k \in Keys |-> Gone]]
        /\ call = [t \in Threads |-> Idle]
        /\ ret = [t \in Threads |-> [out |-> "ok", value |-> Text]]
        /\ stamps = 0
        /\ takes = [n \in 1 .. MaxWrites |-> 0]
        /\ settled = [k \in Keys |-> Known(0)]

\* The primary answered r and the operation goes on to the fallback, or ends.
Continue(t, q, r, clean) ==
    IF Done(q, r) \/ "fallback" \notin Present
    THEN /\ call' = Disturb(t, q.op, q.key)
         /\ Return(t, q.op, r)
         /\ settled' = IF q.op \in Reads THEN settled
                       ELSE [settled EXCEPT ![q.key] =
                               IF clean THEN Left(q.op, q, r) ELSE Unknown]
    ELSE /\ call' = [Disturb(t, q.op, q.key) EXCEPT ![t] =
                       [at |-> "fallback", op |-> q.op, q |-> FallbackRequest(q, r),
                        mode |-> Mode(q, r), first |-> r, clean |-> clean]]
         /\ settled' = IF q.op \in Reads THEN settled
                       ELSE [settled EXCEPT ![q.key] = Unknown]
         /\ UNCHANGED <<ret, takes>>

(* An operation starts with its call of the primary. *)
Start(t, q) ==
    /\ call[t].at = "idle"
    /\ LET alone == \A u \in Threads \ {t} : ~Changing(u, q.key)
       IN IF "primary" \in Present
          THEN \E o \in Outcomes("primary", store["primary"][q.key], q) :
                 /\ store' = [store EXCEPT !["primary"][q.key] = o.entry]
                 /\ Continue(t, q, o.reply, alone /\ o.reply.out # "error")
          ELSE Continue(t, q, Nothing(q), alone) /\ UNCHANGED store

Get(t, k) == Start(t, Request("Get", k, 0, Text)) /\ UNCHANGED stamps

Exists(t, k) == Start(t, Request("Exists", k, 0, Text)) /\ UNCHANGED stamps

TTL(t, k) == Start(t, Request("TTL", k, 0, Text)) /\ UNCHANGED stamps

Take(t, k) == Start(t, Request("Take", k, 0, Text)) /\ UNCHANGED stamps

Delete(t, k) == Start(t, Request("Delete", k, 0, Text)) /\ UNCHANGED stamps

Set(t, k, v) == /\ stamps < MaxWrites
                /\ stamps' = stamps + 1
                /\ Start(t, Request("Set", k, stamps + 1, v))

Increment(t, k) == /\ stamps < MaxWrites
                   /\ stamps' = stamps + 1
                   /\ Start(t, Request("Increment", k, stamps + 1, 0))

(* The call of the fallback, and the return of the operation. *)
CallFallback(t) ==
    /\ call[t].at = "fallback"
    /\ LET c == call[t] IN
       \E o \in Outcomes("fallback", store["fallback"][c.q.key], c.q) :
         /\ store' = [store EXCEPT !["fallback"][c.q.key] = o.entry]
         /\ call' = [call EXCEPT ![t] = Idle]
         /\ Return(t, c.op, Combine(c.mode, c.first, o.reply))
         /\ settled' = IF c.op \in Writes /\ c.clean /\ o.reply.out # "error"
                       THEN [settled EXCEPT ![c.q.key] =
                               Left(c.op, c.q, Combine(c.mode, c.first, o.reply))]
                       ELSE settled
    /\ UNCHANGED stamps

(* An entry goes: it expired, was evicted, or its store restarted. *)
Evict(s, k) ==
    /\ store[s][k] # Gone
    /\ store' = [store EXCEPT ![s][k] = Gone]
    /\ UNCHANGED <<call, ret, stamps, takes, settled>>

Next == \/ \E t \in Threads :
             \/ CallFallback(t)
             \/ \E k \in Keys : \/ Get(t, k) \/ Exists(t, k) \/ TTL(t, k)
                                \/ Take(t, k) \/ Delete(t, k) \/ Increment(t, k)
                                \/ \E v \in Inputs : Set(t, k, v)
        \/ \E s \in Stores, k \in Keys : Evict(s, k)

Spec == Init /\ [][Next]_vars

-----------------------------------------------------------------------------
\* Types; what either store holds or answers is a value of the contract.
TypeOK ==
    /\ store \in [Stores -> [Keys -> Entries]]
    /\ call \in [Threads -> Calls]
    /\ ret \in [Threads -> [out : {"ok", "miss", "error"}, value : Values]]
    /\ stamps \in 0 .. MaxWrites
    /\ takes \in [1 .. MaxWrites -> Nat]
    /\ settled \in [Keys -> [known : BOOLEAN, stamp : 0 .. MaxWrites]]

(* An operation that changes a key, overlaps no other one and meets no store  *)
(* error leaves both stores with its value (or without it, once the entry has *)
(* gone): whichever store answers the next Get, Take or Increment, and        *)
(* whenever the primary fails over, nobody sees an older value again.         *)
SettledAgree ==
    \A k \in Keys, s \in Present :
        settled[k].known => store[s][k].stamp \in {settled[k].stamp, 0}

(* Each store hands a written value out at most once, so a value is taken at  *)
(* most as often as there are stores, whatever fails or overlaps.             *)
OncePerStore == \A n \in DOMAIN takes : takes[n] <= Cardinality(Present)

(* README.md:40 promises "one-time reads through Take": a value that was      *)
(* written once is taken at most once.                                        *)
OneTimeRead == \A n \in DOMAIN takes : takes[n] <= 1
=============================================================================
