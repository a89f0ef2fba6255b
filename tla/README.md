# A TLA+ verification project for chobits

chobits (`github.com/kdays/chobits`) is a Go scaffold for web applications: a set
of packages that an application wires together at start-up. This directory holds
TLA+ models of the packages that carry state and concurrency, the TLC
configurations that check them on small instances, and proofs that TLAPS checks.

* [1. The system](#1-the-system)
* [2. Modules](#2-modules)
* [3. How the models correspond to the code](#3-how-the-models-correspond-to-the-code)
* [4. Runs](#4-runs)
* [5. Findings](#5-findings)
* [6. Proofs](#6-proofs)
* [7. What is not modelled, and the plan](#7-what-is-not-modelled-and-the-plan)

## 1. The system

| Component | State | Operations | Interacts with |
|---|---|---|---|
| `cache.Cache` (cache/cache.go) | – (interface) | Get, Set, Take, Exists, Increment, TTL, Delete, Close | implemented by the drivers, used by limiter, token, application |
| `cache.Memory` (cache/memory.go) | a map of items with an expiry, an RWMutex | the interface | limiter, token service, Fallback |
| `cache.Redis`, `redisConn` (cache/redis.go) | one shared connection under a mutex | the interface as commands and Lua scripts; Do, Close | Redis server |
| `cache.Database` (cache/database.go) | a table | the interface as one or two statements, in transactions | `database/sql` pool, MySQL or SQLite |
| `cache.Fallback` (cache/fallback.go) | none of its own | a call of the primary, then perhaps one of the fallback | two other stores |
| `cache.Prefixed` (cache/prefix.go) | none | key rewriting | one other store |
| `cache.RateLimiter` (cache/rate_limit.go) | none of its own | Hit, Peek, Reset | any store, Memory by default |
| `token.Service` (token/token.go) | none of its own | Issue, Find, Revoke | any store |
| `app.RunHTTP` (app/runtime.go) | local: the services started | start, serve, shut down, stop, wait, close | `net/http`, services, closers, signals |
| `di.Container` (di/container.go) | components, services, closers | Register, Replace, Resolve, Backgrounds, Closers | feeds RunHTTP |
| managers (cache, database, gormdb, redis, storage) | maps of named resources | OpenManager, Close | configuration, drivers |
| `storage` (storage/*.go) | files | SaveBytes, SaveUpload, Get, Delete, ... | file system, UPYUN |
| `config` (config/*.go) | – | defaults, YAML, `.env`, environment overrides | everything at start-up |
| others: `migration`, `cli`, `kdaysuc`, `logger`, `response`, `convert`, `buildinfo` | – | wrappers and conversions | – |

What is hard here, and what makes each part correct:

* **Memory.** Get, Exists and TTL look at an item under one lock and delete it
  under another; the expiry test exists in four copies. Correct: the contract of
  a cache, one-time Take, one boundary for expiry.
* **RateLimiter.** Two store calls per Hit, with others in between. Correct:
  nobody is refused without cause, every hit of a window counts.
* **Fallback.** Two stores, no transaction, either can fail before or after the
  effect. Correct: the stores agree after an undisturbed change; Take is one-time.
* **RunHTTP.** A signal, a server error, a failing Start, hanging requests and
  services that end for different reasons meet in one shutdown sequence. Correct:
  nothing is closed under its users, everything is released once and in reverse
  order, errors are reported, and RunHTTP returns.
* **Redis client.** Requests and replies carry no ids; a late reply must never be
  read by another command. Correct: replies match, connections do not leak, no
  goroutine waits for ever.
* **Database.** Two-statement transactions under two very different locking
  schemes. Correct: no lost update, one-time Take, every operation ends.
* **Redis driver.** Scripts stand in for transactions, durations are rounded to
  milliseconds, and a command or its answer can be lost. Correct: the contract of a
  cache.
* **Token.** The claims expire in whole seconds, the row in milliseconds, and Find
  reads the claims before it reads the clock. Correct: a token that is over or was
  revoked is never accepted again; rounding does not take a live one away.
* **Configuration.** Four layers, with overrides applied twice because defaults both
  read settings and create new ones. Correct: every setting has the value of the
  first layer that names it.
* **Container and managers.** Anything can fail to open; components are registered,
  replaced and shared. Correct: at the end everything is closed, once, and users
  before what they use.
* **Storage.** A save is an open, a write and a look at its context, on a name
  others may use, and it is undone by name. Correct: what was reported as saved is
  there, complete, under every name that leads to it; a cancelled save leaves
  nothing; names never lead outside their disk.

`PROJECT.json` lists the hazards at their source lines with the properties that
cover them.

## 2. Modules

```
CacheTypes <- CacheContract                       (what cache.Cache promises)
CacheTypes <- MemoryCache                         (memory.go; refines CacheContract)
              MemoryCache <= RateLimiter          (rate_limit.go, by INSTANCE)
CacheTypes <- FallbackCache                       (fallback.go, stores by contract)
CacheTypes <- DatabaseCache                       (database.go)
RedisConn                                         (the client of redis.go)
CacheTypes <- RedisDriver <- TokenService         (redis.go; token.go, prefix.go;
                                                   refines CacheContract)
RunHTTP                                           (runtime.go)
ConfigLayers, Container <- Bootstrap              (config; container.go; the managers,
                                                   the server command, the template)
StoragePaths <- Storage                           (path.go; local.go, upyun.go, storage.go)
*Proofs                                           (theorems about the module so named;
                                                   ApplicationProofs: Bootstrap, RunHTTP)
MC*                                               (instances for TLC)
```

`CacheContract` is the abstract specification. `MemoryCache` is shown to implement
it under the mapping `LiveView` (the map without expired items) and
`AtomicReplies` (what Take and Increment answered). `RateLimiter` instantiates
`MemoryCache` and takes its steps, so the limiter is checked on the real store and
not on its contract. `TokenService` uses the operations of `RedisDriver` directly, and
its other clients show that these implement the same `CacheContract`.

Operators marked "Mutant" are deliberately wrong variants of the definition that
follows them. They are not used by any specification; replacing the definition by
its mutant must make the property named in `PROJECT.json` fail, which shows that
the property depends on that line of code.

## 3. How the models correspond to the code

**Values and time.** A cached value is the int64 its bytes parse to, or `Text` when
they do not parse; only Increment and Peek look inside. Integers wrap around at
`MinInt..MaxInt`, the scaled-down int64. The clock starts at 1; expiry 0 is the
zero `time.Time` ("no expiry"). History variables (`stamps`, `hist`, `takes`,
`hits`, `drift`, `settled`, `failures`) record what happened and never influence
the steps of the code; an item's stamp tells two writes of equal bytes apart.

**MemoryCache.** One action per critical section. Take, Increment and Delete hold
the mutex throughout and are single actions. Set reads the clock (`Set`) before it
locks (`SetStore`). Get, Exists and TTL are three: copy the item (`ReadItem`),
compare with the clock without a lock (`GetCheck`, `TTLCheck`), delete the key
(`DropExpired`). `Tick` may come between any two.

**RateLimiter.** `Hit` is the store's Increment, followed by `HitTTL` and `Finish`;
`Peek` is the store's Get, whose outcome selects `PeekMiss`, `PeekFail` or
`PeekTTL`; `StoreCheck` and `StoreDrop` are the inner steps of the store.
`ForeignSet` is another component writing to the same key. `hits` is the reference:
every Hit counts and one with a positive window restarts the window, which is what
`Increment(…, 1, window)` does on every call; a number another component stores under
the key counts as that many hits. `drift` records what stale sweeps did to the counter
of a key: nothing, `short` (hits were lost), or `endless` (the counter was swept and
then started again by a Hit without a window, so that it has no expiry although the
window has one: `Memory.Increment` takes the expiry of an absent item).

**FallbackCache.** Every method is a call of the primary (`Start`) followed or not
by one of the fallback (`CallFallback`). `FallbackRequest`, `Mode`, `Combine` and
`Nothing` hold the differences between the methods: whether the fallback's answer
is returned, ignored or joined, and what follows from nil stores. A faulty store
may fail without effect or after its effect. Entries may vanish at any time, which
stands for expiry, eviction and restarts; the ttl itself is not represented.

**RunHTTP.** `pc` and `next` follow the code of RunHTTP, stopBackgrounds and
closeResources. The server goroutine, requests, signals and the services' own
goroutines are processes of their own. A service is described by the optional
interfaces it implements and by what ends its goroutine: the context given to
Start, or Stop. `Kinds` ranges over the combinations. The names that `Bootstrap` has too
carry a prefix (`HTTPInit`, `HTTPNext`, `HTTPSpec`, `HTTPTypeOK`), so that the proofs about
both can be in one module.

**RedisConn.** `Do` is lock, dial and handshake if there is no connection, write,
read. The server executes what reached it, also on a connection the client has
closed. Requests carry a number that the real protocol does not have, so that a
reply read by the wrong command is visible. A reply is one frame; the kinds "nil"
and "error" are the two that keep the connection open. A context that is done is
`DoExpired` before the lock and `SendFails` after it.

**DatabaseCache.** One action per statement. The database is external: on MySQL a
locking read or a write takes the row lock or, where the row is missing, a gap
lock; a gap lock of somebody else blocks INSERT, and a cycle is broken by aborting
one transaction. On SQLite (write-ahead log; a rollback journal allows less) a
write fails when what the transaction read has changed or another one is writing.
A transaction holds a connection of the pool (`conns`) from BEGIN to COMMIT or
ROLLBACK; sweeps, reads and Delete run outside transactions and need a free one for
their statement. Any statement may fail, and COMMIT may take effect although the caller sees
an error. The second statement of an Increment on an expired row (DELETE, then
INSERT) is one step: both happen under the lock the first one takes.

**Storage.** `SaveBytes`, `Put` and `SaveUpload` are the checks before the first
system call; then come `OpenTruncating` or `OpenExclusive`, `Write`, and
`SaveReturns` or `SaveCancelled`, each with its failure. A file is an inode that a
writer keeps although its name is removed or given away, and a write replaces a
prefix, so that mixed and partial files exist in the model. On a bucket (`put`) an
object is replaced at once and `Overwrite` is ignored, as in upyun.go; the root of a
disk or bucket is a directory and never a file. `StoragePaths`
has the names: a number of leading slashes and a sequence of segments, with one kind
of separator; the name of a disk is one segment. `Clean` is path.Clean, segment by
segment (`Climb`, `Walk`). `OpenPublicPath` ends, as the code does, in the `OpenPath` of
the disk it found: a local disk cleans the name a second time and answers with a place, a
bucket (in either build) and external URLs answer ErrUnsupported. `settled` records how
an undisturbed change of a place ended. `PublicPathOpens` asks it of every public path of
an object: the name of its disk and its path or, on the default disk, its path alone. A
path of the default disk whose first directory is called like another disk is a public
path of that other disk (`Shadowed`), so it must open the other disk's object or be
refused; the object of the default disk is then asked for under its full path only. A
disk named `.` or `..` has no full paths: its name is cleaned away from every path.

**RedisDriver.** An operation is one command or one script, which the server executes
at once, so each is an operator from the row under a key to the row after it and the
driver's answer. What happens on the connection is the subject of `RedisConn`; here
only its result is left (`Outcomes`): the answer, or an error although the command was
or was not executed. The server is external: it counts whole milliseconds, a row lives
through the millisecond its expiry names, PX 0 is an error, INCRBY keeps the expiry,
refuses text, and refuses to overflow. A key is the sequence of its segments between
colons.

**TokenService.** `Issue` is everything up to the call of the store, which is
`IssueStore`; `Find` ends with the store's answer, `FindCheck` reads the clock, and
`FindDrop` is the Revoke of an expired token, whose error is ignored. The clock may
move and other goroutines may act in between. `Milli` and `Second` are the ticks in a
millisecond and in a second. Raw tokens are random, so every Issue uses one that was
never used before. A client knows a token only if Issue returned it. Blank subjects
and blank tokens never reach the store and are left out, and so are the claims other
than `Expires`. The clocks of program and server agree.

**ConfigLayers.** A configuration maps the path of each leaf to its value; the paths
below the two maps exist when the map has the entry. The environment is a function
from paths to strings, so two paths that spell the same variable (`a-b` and `a_b`) are
outside the model. Leaves that are treated alike are represented by one: `server.addr`
for everything that has a default of its own, `dsn` for what `mysql` and `sqlite`
say. Booleans stand for all settings that may fail to parse. `TryLoadDotEnv`, `LoadFile`
and `SetAll` are the loops over files and entries, with one `Setenv` per entry.

**Container.** Each operation is a function on the container, because the mutex covers
it. Only what ends up in the lifecycle lists and which keys are taken matters later.

**Bootstrap.** The server command of an application made from the template:
configuration, databases, cache, application code, RunHTTP (`stage`). The loops over maps take
the entries in any order (`todo`), and each may fail where the code can. With
`input.manager` the cache is the `cache.Manager` of all stores instead of the default
store behind a Fallback; the template shows only the second, and the first is wired
the same way. `AppCall` is any code of the application that builds a component on what
the container holds and hands it over, before or after RunHTTP got its lists. RunHTTP
itself is reduced to which services are stopped and in what order closers run; its
inner steps are those of module `RunHTTP`. `closes` counts the Close of every
underlying resource, however many components lead to it.

## 4. Runs

| Run | Instance | Shows |
|---|---|---|
| `memory` | 1 key, 2 goroutines, clock 1–3, 2 writes, int64 = −1..1 | types, `TakeOnce`, `ServedBeforeExpired`, refinement of `CacheContract` |
| `limiter` | 1 key, 2 goroutines, limit 2, windows 0 and 1, clock 1–2, 3 writes, foreign values 1 and text | `ExceededIsDeserved`, `ExactUnlessSwept` |
| `limiter_sweep` | the same | `LimitEnforced` fails (finding) |
| `fallback` | 2 goroutines, both stores faulty, 3 writes | `SettledAgree`, `OncePerStore` |
| `fallback_race` | 2 goroutines, healthy stores | `OneTimeRead` fails (finding) |
| `run_http` | any 3 services of 5 kinds, 3 closers, one of them nil, 1 request | `CloseAfterWork`, `ReleasedInReverse`, `NilMeansClean`, `SignalReturns`, `StoppableReturns` |
| `run_http_stuck` | one service that ends on its context | `FailureReturns` fails (finding) |
| `redis_conn` | 2 goroutines, 3 requests, 3 connections, handshake of 2 | `ReplyMatches`, `NoLeak`, `DoReturns` |
| `database` | both drivers (chosen in Init), 1 key, 2 goroutines, a pool of 1 or of 2 connections, 2 writes, clock 1–2 | `TakeOnce`, `NoLostUpdate`, `OperationsEnd` |
| `storage` | 2 goroutines, 2 saves and any number of Deletes, 5 configurations, data of 1 and 2 bytes at a limit of 1, names up to 4 segments | `SavedReadsBack`, `GoneStaysGone`, `PublicPathOpens`, `NamesStayInside` |
| `token` | 2 goroutines, 1 token, 1 other client with 1 key, 3 ticks to the millisecond and 2 milliseconds to the second, service ttls of −1, 1 and 7 ticks, requested expiries in the past, present and future, clock up to the third second | `DeadStaysDead`, `TokenLifetime`, refinement of `CacheContract` |
| `bootstrap` | 4 YAML files (alone, or two of them with an explicit path) × 5 environments × 3 lists of `.env` files × with or without the manager, 2 names, 2 application components, 2 uses of the container | `LoadedAsLayered`, `NothingLeaks`, `ClosedOnceInOrder` |

**Why these bounds are enough to be interesting.** Keys never interact in any of
the caches, so one key is enough; two goroutines give every race between two
operations, and the operations have at most three steps. Two writes let an item
expire and be reborn while a reader still holds the old copy; a third lets a
counter reach the limit again. `MaxInt = 1` lets counters wrap around. Three
services and three closers make order visible and allow a failure in the middle.
Two saves and a Delete
are enough for a cancelled save to remove the file of another one. A service ttl of
one tick is below a millisecond, one of seven is above a second and a multiple of
neither, and three ticks to the millisecond make every rounding visible. Tokens do not
interact, so one is enough. The files and environments contain the cases the
code distinguishes: no entries, entries without the default, an override of a field
that an entry is made from, of an entry that only the defaults create, an empty
override, one that does not parse, a repeated and an unreadable `.env`. Two application
components and two calls let one replace the other, or be registered twice. Three connections
allow two failures and a recovery. With a pool of one connection, the default on SQLite
(database/sqlite.go:36), two goroutines wait for the pool; with two they meet at the locks.

**Fairness.** The safety runs need none. `RunHTTP` assumes that the Go scheduler
runs RunHTTP and the server goroutine, that the timer of Shutdown fires, and that a
service that was asked to end in a way it heeds does; it does not assume that a
signal ever comes or that a request ever ends. `RedisConn` assumes that a goroutine
with a deadline (`Timed`) leaves its I/O, which `setDeadline` guarantees, and strong
fairness of `Lock`, which is the starvation mode of `sync.Mutex`. `DatabaseCache`
assumes strong fairness of each goroutine's step: the lock queues of the database
and the request queue of `database/sql` are served in order. Failures of statements
are never assumed to happen.

Deadlock checking is on in every run but `bootstrap`, whose process ends: the models
never stop where the code does not.

## 5. Findings

1. **A delayed sweep deletes a live counter** (`limiter_sweep`; memory.go:37, 136).
   One goroutine's Get or TTL sees the counter of the old window expired; another's
   Hit starts a new window; the first then deletes the new counter. The client gets
   more than Limit hits in the window. The README promises "atomic counters through
   `Increment`/`TTL` for simple rate-limit and retry counters". `ExactUnlessSwept`
   shows that this is the only way a count is lost. The same sweep has a second
   effect: a Hit with window 0 that follows it starts a counter without expiry, and
   callers can be refused for it after the window is over. `ExceededIsDeserved`, which
   excludes such counters (`drift = "endless"`), shows that nobody else is refused
   without cause. The proof attempt found this: at a clock bound of 3 the property
   without the exclusion is false.
2. **Fallback.Take is not one-time** (`fallback_race`;
   fallback.go:51–65). With healthy stores a second Take can run between
   `primary.Take` and `fallback.Delete`, and a Take that missed in the primary can take from
   the fallback what was written to both stores since (TLC's trace); after an outage of the primary its old copy
   is taken again, by one goroutine alone (the model allows this too; `SettledAgree`
   excludes operations during which a store failed). The README promises "one-time reads
   through `Take`". `OncePerStore` bounds the damage: at most twice.
3. **RunHTTP can wait for ever after a server error** (`run_http_stuck`;
   runtime.go:61, 131–133). A service that has a Wait and ends on the context of
   Start is waited for before that context is cancelled, because `stopNotify` is
   deferred. The test of runtime_test.go:17–28 expects the error to be returned and
   the closers to run. Services that end on Stop are not affected
   (`StoppableReturns`), and after a signal none is (`SignalReturns`).

## 6. Proofs

Eight modules hold theorems. Each proves about the module it extends, for every value of
its constants: any number of goroutines, keys, writes, services, connections, disks, and
any configuration. Every invariant that a run checks, and both refinements, are proved.

| Module | Theorems (`Spec => []P`, but for those marked) |
|---|---|
| `MemoryCacheProofs` | `TypeOKHolds`, `TakeOnceHolds`, `ServedBeforeExpiredHolds`, `ImplementsContractHolds` (`Spec => ImplementsContract`) |
| `RateLimiterProofs` | `TypeOKHolds`, `ExceededIsDeservedHolds`, `ExactUnlessSweptHolds`, `UsesStore` (`Spec => Mem!Spec`) |
| `FallbackCacheProofs` | `TypeOKHolds`, `SettledAgreeHolds`, `OncePerStoreHolds` |
| `DatabaseCacheProofs` | `TypeOKHolds`, `TakeOnceHolds`, `NoLostUpdateHolds` |
| `RedisConnProofs` | `TypeOKHolds`, `ReplyMatchesHolds`, `NoLeakHolds` |
| `TokenServiceProofs` | `TypeOKHolds`, `DeadStaysDeadHolds`, `TokenLifetimeHolds`, `RedisImplementsContractHolds` (`Spec => RedisImplementsContract`) |
| `ApplicationProofs` | of `Bootstrap`: `TypeOKHolds`, `NothingLeaksHolds`, `ClosedOnceInOrderHolds`, `LoadedAsLayeredHolds`; of `RunHTTP` (`HTTPSpec => []P`): `HTTPTypeOKHolds`, `CloseAfterWorkHolds`, `ReleasedInReverseHolds`, `NilMeansCleanHolds` |
| `StorageProofs` | `TypeOKHolds`, `SavedReadsBackHolds`, `GoneStaysGoneHolds`, `PublicPathOpensHolds`, `NamesStayInsideHolds`, `CleanObjectPathInside` (a fact about every name) |

Every module has an `IInv` with `IInvInit`, a step lemma per action or group of actions, and
`IInvHolds` (for `RunHTTP`: `HTTPIInv`); the properties follow from it. TLC checked each
`IInv` before it was proved. What a name cleans to and what a configuration loads as do not
depend on the steps: for these the work is in lemmas about the operators.

**Loops over sequences.** What a recursive function computes needs an induction, and the
library's induction theorems cannot be instantiated here. The proofs use the well-founded
order of the natural numbers instead: `LeastNat` (a non-empty set of numbers has a least
element) and `AllPositions` (a set of positions that has the first and, with each, the next
has all of them). The function itself exists because a set of positions up to which it can
be built has all positions (`WalkExists`, `SetAllSteps`, `TryLoadDotEnvSteps`).

**Assumptions.** They are the named `ASSUME`s of the modules, which TLC evaluates in every
run. Most only give types and make bounds natural numbers. The ones that say something
about the world: the int64 range contains 0 in its interior and text is not a number;
`NamespaceAssumption` (`TokenService`): no other client has a key in the namespace of the
tokens, which is what the prefixes are for; `SecondAssumption`: a second is a whole number
of milliseconds; `CountAssumption` (`RateLimiter`): a number another component stores under
a limiter's key is a count, and no counter reaches the end of the int64 range (the store
itself is proved with wrap-around); `NameAssumption` (`Storage`): names are slashes and
segments, directories sequences of segments, and saves without `Dir` are among the calls;
`InputAssumption` (`Bootstrap`): a YAML file sets leaves only of entries it has, which is
how YAML is written; `NamesAssumption`: `Names` has the entries of every configuration that
loads; `ComponentAssumption`: the application's components are not those of the template.

**Why the invariants are what they are.**

* `MemoryCache`. `TakeOnce` is not inductive: nothing in it prevents the map from holding
  an item whose record says it was taken. `Fresh`: the records of stamps not given out
  are blank. `Dated`: whoever holds an item (the map, a Set about to store it, a reader's
  copy) sees the expiry its record states. `Unique`: an item that can still be taken is in
  one place only, in the map or in the hands of one Set. `Untaken`: such an item was not
  taken. `Timely`: items were used only before their expiry and treated as expired only
  from it on. A reader's copy is deliberately left out of `Unique` and `Untaken`: copies of
  items taken or replaced since are what makes the stale sweep possible.
* The refinement of `CacheContract`. `LiveView` of a key is its item if that is live. Every
  critical section is then one step of the contract: a write is the operation, a look at an
  expired item a stutter, the sweep of a live item an eviction, a tick the expiry of what it
  kills. `DeadIsGone` and `ViewByKey` reduce each case to the item of one key.
* `RateLimiter`. `UsesStore` shows that the limiter takes only steps of `MemoryCache` as
  some user of it; what the typing proof of the store establishes is reused and not
  repeated. `Agreed` compares the live counter of each key with the reference: never more
  hits, the same expiry, and exactly as many while no stale sweep has hit the key.
  `Tracked` says the same of the numbers a Hit or Peek carries to its second call, and
  `Widths` keeps counters away from the wrap-around.
* `FallbackCache`. `Balance` counts: how often a value was taken plus the number of stores
  that may still hand it out never exceeds the number of stores. For that a value must be
  in one place per store (`Sides`), where a goroutine that has taken it and not yet
  returned, or that is about to mirror it, is a place. `Alone`: an operation that still
  counts as undisturbed is the only change of its key, and the primary has what it left.
* `DatabaseCache`. `LocksHeld` and `GapsHeld` are the locks of the database; `Unchanged` is
  what they are for: from the locking read on MySQL, and from the check of the snapshot on
  SQLite, the committed row is the one the transaction saw. `OnePlace` then gives
  one-time Take, a Take between its commit and its return being a place of its own.
* `RedisConn`. `Holder` ties the steps under the mutex to its owner, `Quiet` says that the
  current connection is silent between commands, `Pending` that during one it carries just
  that command or its reply. Late replies exist, but only on connections that were closed.
* `TokenService`. `Stored`: the row of an issued token has the expiry of its claims and
  outlasts it up to the millisecond that rounding costs, by the division facts of
  `DivFacts`; `Lasting`: a young token has a row; `Finding`: a Find between Get and the
  clock has the token's own expiry, and one that began with a dead token will see it
  expired; `Issuing`: a token about to be stored is known to nobody else.
* The refinement of `CacheContract` by the Redis driver, as the other clients use it. Their
  keys stay apart because the same trimmed prefix is put in front of every one
  (`ClientKeysApart`), and the rows under them are those the server still shows
  (`ClientRows`), so that the clock of the contract is the server's, in milliseconds. A
  command is the
  contract's operation on the live row, also when only its answer is lost; a command that
  is lost is a stutter; a tick is the expiry of the rows it kills.
* `RunHTTP`. `Progress` gives, for each loop, what was stopped, waited for and closed in
  terms of the loop variable; `Drained` when requests can be in flight; `Reported` where an
  error is until it is in the result.
* `Bootstrap`. `NothingLeaks` and `ClosedOnceInOrder` need to know what is still going to
  be closed. `Pending` is that list, first in the container and then with RunHTTP.
  `Accounts`: what a component holds was closed as often as the component was given to the
  container and is no longer in the list. `Ordered`: what was registered once stands in
  the list before whatever was built on it. `Starting`: until the application's own code
  runs nothing has been closed, so an early exit closes everything once. `Serviced`: the
  services are in the list of RunHTTP, or were stopped, or did not start.
* The configuration. `DotEnvSays`: after the files, a variable the process had is
  untouched, and any other has the value of the first entry that names it. `LayersByLeaf`
  follows a leaf of each kind through the two passes of `ApplyEnv` and the defaults between
  them; an entry that the defaults create is not in the file, so the file says nothing of
  its leaves. `ConfigInv`: the configuration in use is the one its input loads as.
* `Storage`. `Inodes`: every file is under one name at most, and a writer's file, if it has
  a name, has the writer's. `Apart`: two changes of one place are both disturbed, and a
  settled place has none under way. So an undisturbed save still has its own file
  (`Undisturbed`), and what was reported about a settled place is there (`AtRest`).
  `ChangeKeeps` proves once that a step at one place leaves every other place and every
  other undisturbed save alone; each action then only looks at its own goroutine and place.
* The names of `Storage`. The stack that `Clean` builds is some `..` followed by names
  (`Held`). How deep a name climbs above its start is a count over its segments, and a
  cleaned name begins with `..` exactly if the count goes below zero (`KeptByDepth`). A
  name that is accepted never does, so it stays below the directory it is joined to
  (`InsideByDepth`). A place has a name that cleaning leaves alone, however often it is done
  (`PlacesPlain`, `PlainAccepted`), so each public path of it opens that place, or is refused
  where the disk has no files (`PublicPath`); what is there is `AtRest`.

**Only model-checked, and why.** Liveness (`SignalReturns`, `StoppableReturns`, `DoReturns`,
`OperationsEnd`) is out of reach of this prover, which has no rules for fairness and
`ENABLED`. The three findings are counterexamples and have no theorem.

## 7. What is not modelled, and the plan

Not modelled:

* `migration` and the migrate commands of `cli`: a thin layer over golang-migrate, which
  keeps the state and the lock; a call in, an error out.
* `kdaysuc`: one HTTP request per call and the decoding of its JSON, without state.
* `logger`, `response`, `convert`, `buildinfo`: formatting and conversion of single
  values.
* the text level of `config` (YAML, the lines of `.env` files, the spelling of variable
  names, DSNs) and of the Redis protocol below one reply.
* the migration of the cache table (`Database.Migrate`), one statement at start-up.
* floating point: counters above 2^53 in the Redis script.

What the models leave open on purpose: cancelled contexts in the database cache appear
as failing statements, not as a separate event; overlapping changes of a Fallback or of
a stored object promise nothing; a Redis client that is used after its Close dials
again, and no document says whether it should.

The plan from here: the four hazards of `PROJECT.json` that have no property, first what a
`Do` after `Close` leaves open, once a document says what it should do; then `Migrate` of
the cache table and the managers of gormdb and storage as components of their own.
