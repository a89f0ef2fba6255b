----------------------------- MODULE Bootstrap -----------------------------
(* The life of an application made from the template: the server command      *)
(* (src/cli/cli.go) loads the configuration (src/config), opens the databases *)
(* (src/database, src/gormdb) and the cache (src/cache), registers components *)
(* (src/di), lets the application add its own, serves, and closes what the    *)
(* container has collected, in reverse (src/app/runtime.go).                  *)
(*                                                                            *)
(* A resource is what has to be closed: a connection pool, a Redis client, or *)
(* what a component of the application holds.  Any step of the start may      *)
(* fail.  From the first component on, code of the application may use the    *)
(* container at any time.                                                     *)
EXTENDS ConfigLayers, Container, Integers

CONSTANTS
    Inputs,     \* the files and environments a process may start with
    Names,      \* names that connections and stores have
    Extras,     \* components of the application
    MaxCalls    \* bound: how often the application's code uses the container

Own == {"config", "dbs", "sqldb", "cache", "token"}

ASSUME ComponentAssumption ==
    /\ Own \intersect Extras = {}
    /\ Closable = (Own \ {"config"}) \union Extras
    /\ Runnable \subseteq Extras
    /\ MaxCalls \in Nat

\* LoadYAML, for the files and the environment of a process.
Path(in) == FindFile(in.explicit, in.candidates, DOMAIN in.files)

Environment(in) == TryLoadDotEnv(in.env, in.dotenv)

Loads(in) == Path(in) # "" /\ LayersParse(Unmarshal(in.files[Path(in)]), Environment(in))

Loaded(in) == Layers(Unmarshal(in.files[Path(in)]), Environment(in))

ASSUME InputAssumption ==
    \A in \in Inputs :
        /\ in.candidates \in Seq(STRING)
        /\ in.dotenv \in Seq([ok : BOOLEAN, entries : Seq(Seq(STRING) \X STRING)])
        /\ \A y \in {in.files[path] : path \in DOMAIN in.files} :
              DOMAIN y.set \subseteq Leaves(y.connections, y.stores)

ASSUME NamesAssumption ==
    \A in \in Inputs : Loads(in) =>
        \A map \in {"connections", "stores"} : Entries(Loaded(in), map) \subseteq Names

VARIABLES
    input,      \* what this process started with
    cfg,        \* the loaded configuration
    stage,      \* how far the server command is
    todo,       \* connections, then stores, that are still to be opened
    opened,     \* resources that have been opened
    closes,     \* how often each resource was closed
    comps,      \* the container
    options,    \* the lifecycle lists that RunHTTP was called with
    stopped,    \* services that RunHTTP has stopped
    unstarted,  \* services that it did not start, because one of them failed
    closed,     \* components whose Close was called
    calls,      \* how often the application's code used the container
    uses,       \* history: the components that each component was built on
    times,      \* history: how often a component was given to the container
                \* to be closed, before RunHTTP got its lists
    services    \* history: the components that were given to it to be run

vars == <<input, cfg, stage, todo, opened, closes, comps, options, stopped, unstarted,
          closed, calls, uses, times, services>>

NoConfig == <<>>

Pools == {<<"pool", n>> : n \in Names}

Clients == {<<"redis", n>> : n \in Names}

Resources == Pools \union Clients \union {<<"extra", e>> : e \in Extras}

\* What the Close of a component closes.  The cache is a Fallback on the store
\* (or the Manager of all stores); the Close of a table store and of the token
\* service do nothing.
Holds(component) ==
    CASE component = "dbs" -> Pools \intersect opened
      [] component = "sqldb" -> {<<"pool", Or(cfg[DefaultConnection], "default")>>}
      [] component = "cache" -> Clients \intersect opened
      [] component \in Extras -> {<<"extra", component>>}
      [] OTHER -> {}

CloseResources(rs) == closes' = [r \in Resources |-> closes[r] + IF r \in rs THEN 1 ELSE 0]

Init == /\ input \in Inputs
        /\ cfg = NoConfig
        /\ stage = "load"
        /\ todo = {}
        /\ opened = {}
        /\ closes = [r \in Resources |-> 0]
        /\ comps = New
        /\ options = [backgrounds |-> <<>>, closers |-> <<>>]
        /\ stopped = {}
        /\ unstarted = {}
        /\ closed = {}
        /\ calls = 0
        /\ uses = [v \in Own \union Extras |-> {}]
        /\ times = [v \in Own \union Extras |-> 0]
        /\ services = {}

appVars == <<options, stopped, unstarted, calls, services>>

-----------------------------------------------------------------------------
(* The configuration.                                                         *)

Load ==
    /\ stage = "load"
    /\ Loads(input)
    /\ cfg' = Loaded(input)
    /\ stage' = "databases"
    /\ todo' = Entries(cfg', "connections")
    /\ UNCHANGED <<input, opened, closes, comps, closed, uses, times, appVars>>

(* No file, a file that is not YAML, an override or a log level that does not *)
(* parse.                                                                     *)
LoadFails ==
    /\ stage = "load"
    /\ stage' = "exit"
    /\ UNCHANGED <<input, cfg, todo, opened, closes, comps, closed, uses, times, appVars>>

-----------------------------------------------------------------------------
(* The databases.  The map of connections has no order.                       *)

Driver(n) == DriverName(cfg[ConnectionLeaf(n, "driver")])

\* A MySQL connection needs its DSN, other drivers do not exist.
Configured(n) == \/ Driver(n) = "mysql" /\ cfg[ConnectionLeaf(n, "dsn")] # ""
                 \/ Driver(n) = "sqlite"

OpenConnection(n) ==
    /\ stage = "databases"
    /\ n \in todo
    /\ Configured(n)
    /\ opened' = opened \union {<<"pool", n>>}
    /\ todo' = todo \ {n}
    /\ UNCHANGED <<input, cfg, stage, closes, comps, closed, uses, times, appVars>>

\* Mutant: a connection that fails leaves the ones before it open.
CloseOnErrorNever(rs) == CloseResources({})

CloseOnError(rs) == CloseResources(rs)

\* Nothing is opened for a configuration that is refused; otherwise a pool may
\* not answer the ping, or gorm not accept it.
FailedPools(n) == {{}} \union IF Configured(n) THEN {{<<"pool", n>>}} ELSE {}

(* What was opened for the connection is closed again, and so are the pools   *)
(* before it.                                                                 *)
OpenConnectionFails(n) ==
    /\ stage = "databases"
    /\ n \in todo
    /\ \E failed \in FailedPools(n) :
         /\ opened' = opened \union failed
         /\ CloseOnError(opened \union failed)
    /\ stage' = "exit"
    /\ UNCHANGED <<input, cfg, todo, comps, closed, uses, times, appVars>>

(* All connections are open: the manager and its default pool are registered. *)
DatabasesReady ==
    /\ stage = "databases"
    /\ todo = {}
    /\ IF Or(cfg[DefaultConnection], "default") \in Entries(cfg, "connections")
       THEN /\ comps' = register(register(register(comps, "config", "config", TRUE),
                                          "dbs", "dbs", TRUE),
                                 "sqldb", "sqldb", FALSE)
            /\ times' = [times EXCEPT !["dbs"] = 1]
            /\ stage' = "cache"
            /\ todo' = Entries(cfg, "stores") \intersect
                         IF input.manager THEN Names ELSE {Or(cfg[DefaultStore], "default")}
            /\ UNCHANGED closes
       ELSE /\ CloseOnError(opened)
            /\ stage' = "exit"
            /\ UNCHANGED <<comps, times, todo>>
    /\ UNCHANGED <<input, cfg, opened, closed, uses, appVars>>

-----------------------------------------------------------------------------
(* The cache: the default store, or with input.manager every store.           *)

StoreDriver(n) == Or(cfg[StoreLeaf(n, "driver")], "memory")

StoreConnection(n) == Connection(cfg, cfg[StoreLeaf(n, "connection")])

Required(n) == \E f \in {"required", "redis.required"} : cfg[StoreLeaf(n, f)] = "true"

\* A Redis client connects at once only when redis.required says so.
StoreOpens(n) ==
    \/ StoreDriver(n) \in {"memory", "redis"}
    \/ StoreDriver(n) = "database" /\ StoreConnection(n) \in Entries(cfg, "connections")

StoreMayFail(n) ==
    \/ StoreDriver(n) \notin {"memory", "redis"}
    \/ StoreDriver(n) = "redis" /\ cfg[StoreLeaf(n, "redis.required")] = "true"

OpenStore(n) ==
    /\ stage = "cache"
    /\ n \in todo
    /\ StoreOpens(n)
    /\ opened' = opened \union IF StoreDriver(n) = "redis" THEN {<<"redis", n>>} ELSE {}
    /\ uses' = IF StoreDriver(n) = "database" THEN [uses EXCEPT !["cache"] = {"dbs"}] ELSE uses
    /\ todo' = todo \ {n}
    /\ UNCHANGED <<input, cfg, stage, closes, comps, closed, times, appVars>>

(* OpenManager closes the stores before the one that fails; the application   *)
(* closes its databases, or goes on with a memory cache when the store is not *)
(* required.                                                                  *)
OpenStoreFails(n) ==
    /\ stage = "cache"
    /\ n \in todo
    /\ StoreMayFail(n)
    /\ IF input.manager \/ Required(n)
       THEN /\ CloseOnError(opened)
            /\ closed' = closed \union {"dbs"}
            /\ stage' = "exit"
            /\ UNCHANGED todo
       ELSE /\ todo' = todo \ {n}
            /\ UNCHANGED <<closes, closed, stage>>
    /\ UNCHANGED <<input, cfg, opened, comps, uses, times, appVars>>

(* The cache and the token service on top of it are registered. *)
CacheReady ==
    /\ stage = "cache"
    /\ todo = {}
    /\ IF Or(cfg[DefaultStore], "default") \in Entries(cfg, "stores")
       THEN /\ comps' = register(register(comps, "cache", "cache", TRUE),
                                 "token", "token", TRUE)
            /\ times' = [times EXCEPT !["cache"] = 1, !["token"] = 1]
            /\ uses' = [uses EXCEPT !["token"] = {"cache"}]
            /\ stage' = "app"
            /\ UNCHANGED <<closes, closed>>
       ELSE /\ CloseOnError(opened)
            /\ closed' = closed \union {"dbs"}
            /\ stage' = "exit"
            /\ UNCHANGED <<comps, times, uses>>
    /\ UNCHANGED <<input, cfg, todo, opened, appVars>>

-----------------------------------------------------------------------------
(* Code of the application: a component is built on what the container holds, *)
(* and handed to the container under a type or a name that may be taken.      *)

Keys == {"cache", "extra"}

\* The container after the call, and what the component was given to it for.
AppCall(e, after, for) ==
    /\ stage \in {"app", "serve", "closing"}
    /\ calls < MaxCalls
    /\ calls' = calls + 1
    /\ opened' = opened \union {<<"extra", e>>}
    /\ uses' = IF <<"extra", e>> \in opened THEN uses
               ELSE [uses EXCEPT ![e] = {v \in DOMAIN times : times[v] > 0}]
    /\ comps' = after
    /\ times' = IF stage = "app" /\ "close" \in for THEN [times EXCEPT ![e] = @ + 1] ELSE times
    /\ services' = IF stage = "app" /\ "run" \in for THEN services \union {e} ELSE services
    /\ UNCHANGED <<input, cfg, stage, todo, closes, options, stopped, unstarted, closed>>

Lifecycle(e) == {"close"} \union IF e \in Runnable THEN {"run"} ELSE {}

AppRegister(e, k, collect) ==
    AppCall(e, register(comps, k, e, collect),
            IF collect /\ ~HasType(comps, k) THEN Lifecycle(e) ELSE {})

AppReplace(e, k) == AppCall(e, Replace(comps, k, e), Lifecycle(e))

AppRegisterName(e, k) ==
    AppCall(e, RegisterName(comps, k, e), IF HasName(comps, k) THEN {} ELSE Lifecycle(e))

AppReplaceName(e, k) == AppCall(e, ReplaceName(comps, k, e), Lifecycle(e))

AppAddBackground(e) == AppCall(e, AddBackground(comps, e), {"run"})

AppAddCloser(e) == AppCall(e, AddCloser(comps, e), {"close"})

-----------------------------------------------------------------------------
(* RunHTTP, from its lists on (its own order of events is module RunHTTP).    *)

Snapshot == options' = [backgrounds |-> comps.backgrounds, closers |-> comps.closers]

history == <<calls, uses, times, services>>

Serve ==
    /\ stage = "app"
    /\ stage' = "serve"
    /\ Snapshot
    /\ UNCHANGED <<input, cfg, todo, opened, closes, comps, stopped, unstarted, closed, history>>

(* The k-th service does not start: those before it are stopped. *)
ServeFails ==
    /\ stage = "app"
    /\ stage' = "closing"
    /\ Snapshot
    /\ \E k \in DOMAIN comps.backgrounds :
         /\ stopped' = {comps.backgrounds[i] : i \in 1 .. k - 1}
         /\ unstarted' = {comps.backgrounds[i] : i \in k .. Len(comps.backgrounds)}
    /\ UNCHANGED <<input, cfg, todo, opened, closes, comps, closed, history>>

(* A signal, or an error of the server. *)
Shutdown ==
    /\ stage = "serve"
    /\ stage' = "closing"
    /\ stopped' = {options.backgrounds[i] : i \in DOMAIN options.backgrounds}
    /\ UNCHANGED <<input, cfg, todo, opened, closes, comps, options, unstarted, closed, history>>

(* The last closer that is left. *)
CloseNext ==
    /\ stage = "closing"
    /\ options.closers # <<>>
    /\ LET last == Len(options.closers)
           component == options.closers[last]
       IN /\ CloseResources(Holds(component))
          /\ closed' = closed \union {component}
          /\ options' = [options EXCEPT !.closers = SubSeq(@, 1, last - 1)]
    /\ UNCHANGED <<input, cfg, stage, todo, opened, comps, stopped, unstarted, history>>

Exit ==
    /\ stage = "closing"
    /\ options.closers = <<>>
    /\ stage' = "exit"
    /\ UNCHANGED <<input, cfg, todo, opened, closes, comps, options, stopped, unstarted,
                   closed, history>>

Next == \/ Load \/ LoadFails \/ DatabasesReady \/ CacheReady
        \/ \E n \in Names : \/ OpenConnection(n) \/ OpenConnectionFails(n)
                            \/ OpenStore(n) \/ OpenStoreFails(n)
        \/ \E e \in Extras :
             \/ AppAddBackground(e) \/ AppAddCloser(e)
             \/ \E k \in Keys : \/ AppReplace(e, k) \/ AppRegisterName(e, k)
                                \/ AppReplaceName(e, k)
                                \/ \E collect \in BOOLEAN : AppRegister(e, k, collect)
        \/ Serve \/ ServeFails \/ Shutdown \/ CloseNext \/ Exit

Spec == Init /\ [][Next]_vars

-----------------------------------------------------------------------------
(* Types; the lifecycle lists hold only what can be closed, or be run         *)
(* (container.go:225), and RunHTTP stops only what the application added.     *)
TypeOK ==
    /\ stage \in {"load", "databases", "cache", "app", "serve", "closing", "exit"}
    /\ todo \subseteq Names
    /\ opened \subseteq Resources
    /\ closes \in [Resources -> Nat]
    /\ comps.closers \in Seq(Closable)
    /\ comps.backgrounds \in Seq(Own \union Extras)
    /\ options.closers \in Seq(Closable)
    /\ stopped \union unstarted \subseteq Extras
    /\ closed \subseteq Closable
    /\ calls \in 0 .. MaxCalls
    /\ uses \in [Own \union Extras -> SUBSET (Own \union Extras)]
    /\ times \in [Own \union Extras -> Nat]
    /\ services \subseteq Extras

\* What the environment says of a leaf: the process first, then the first entry
\* of the first file that could be read.
InFiles(l) ==
    UNION {{<<i, j>> : j \in {x \in DOMAIN input.dotenv[i].entries :
                                input.dotenv[i].entries[x][1] = l}} :
             i \in {x \in DOMAIN input.dotenv : input.dotenv[x].ok}}

First(ps) == CHOOSE p \in ps : \A q \in ps : p[1] < q[1] \/ (p[1] = q[1] /\ p[2] <= q[2])

Override(l, otherwise) ==
    IF l \in DOMAIN input.env THEN input.env[l]
    ELSE IF InFiles(l) = {} THEN otherwise
    ELSE LET p == First(InFiles(l)) IN input.dotenv[p[1]].entries[p[2]][2]

\* The value of every leaf, from the layers alone.
Layered ==
    LET yaml == input.files[Path(input)]
        said(l) == IF l \in DOMAIN yaml.set THEN yaml.set[l] ELSE IF IsBool(l) THEN "false" ELSE ""
        named(names, leaf) == IF names # {} THEN names
                              ELSE {Or(Override(leaf, said(leaf)), "default")}
        base(l) == IF Len(l) = 4 /\ l[2] = "connections" /\ yaml.connections = {}
                   THEN LET old == IF l[4] = "driver" THEN DatabaseDriver ELSE MySQLDSN
                        IN Override(old, said(old))
                   ELSE said(l)
        default(l) == CASE l = Addr -> ":8080"
                        [] l \in {DefaultConnection, DefaultStore} -> "default"
                        [] Len(l) = 4 /\ l[2] = "connections" /\ l[4] = "driver" -> "mysql"
                        [] Len(l) = 4 /\ l[2] = "stores" /\ l[4] = "driver" -> "memory"
                        [] OTHER -> ""
    IN [l \in Leaves(named(yaml.connections, DefaultConnection),
                     named(yaml.stores, DefaultStore)) |->
          Override(l, Or(base(l), default(l)))]

(* The environment wins over the .env files in their order, these over YAML,  *)
(* and YAML over the defaults, for every leaf: also for the leaves of entries *)
(* that only the defaults create, and for the fields those entries are made   *)
(* from.  So a file without connections or stores always gets the one that    *)
(* the default names (config.go:179-191, README.md:47-50).                    *)
LoadedAsLayered == cfg # NoConfig => cfg = Layered

(* When the process ends, at whatever point of the start or the shutdown, no  *)
(* pool and no client is open, nor any component that was given to the        *)
(* container before RunHTTP got its lists, replaced ones included; services   *)
(* among them that were started have been stopped (cache.go:172,              *)
(* container.go:61, runtime.go:138).                                          *)
NothingLeaks ==
    stage = "exit" =>
        /\ \A r \in opened \ {<<"extra", e>> : e \in Extras} : closes[r] > 0
        /\ \A e \in Extras : times[e] > 0 => closes[<<"extra", e>>] > 0
        /\ services \subseteq stopped \union unstarted

(* Nothing is closed under the feet of what was built on it, and nothing is   *)
(* closed more often than it was registered: the pools not once for the       *)
(* manager and again for the default *sql.DB.  A component that is registered *)
(* twice is left out of the first part: its second registration closes it     *)
(* before the components in between.                                          *)
ClosedOnceInOrder ==
    /\ \A v \in closed, u \in DOMAIN uses :
         times[v] = 1 /\ v \in uses[u] /\ times[u] > 0 => u \in closed
    /\ \A r \in Pools \union Clients : closes[r] <= 1
    /\ \A e \in Extras : closes[<<"extra", e>>] <= times[e]
=============================================================================
