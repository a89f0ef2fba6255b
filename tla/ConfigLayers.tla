---------------------------- MODULE ConfigLayers ----------------------------
(* config.LoadYAML (src/config): how the environment, the .env files, the     *)
(* YAML file and the defaults combine into the configuration.                 *)
(*                                                                            *)
(* A configuration is a function from the paths of its leaves to their        *)
(* values.  Paths into a struct are always there; paths into a map are there  *)
(* when the map has the entry, and both ApplyEnv and ApplyDefaults reach only *)
(* what is there.  An environment variable is named after the path of its     *)
(* leaf, so the environment is a function from some paths to strings.  Of the *)
(* many leaves that ApplyDefaults treats alike, one stands for all.           *)
EXTENDS Integers, Sequences, SequencesExt

Addr == <<"server", "addr">>
DefaultConnection == <<"database", "default">>
DatabaseDriver == <<"database", "driver">>
MySQLDSN == <<"mysql", "dsn">>
DefaultStore == <<"cache", "default_store">>

Fixed == {Addr, DefaultConnection, DatabaseDriver, MySQLDSN, DefaultStore}

ConnectionLeaf(name, field) == <<"database", "connections", name, field>>

StoreLeaf(name, field) == <<"cache", "stores", name, field>>

ConnectionLeaves(names) == {ConnectionLeaf(n, f) : n \in names, f \in {"driver", "dsn"}}

StoreLeaves(names) ==
    {StoreLeaf(n, f) : n \in names, f \in {"driver", "required", "redis.required", "connection"}}

IsBool(leaf) == leaf[Len(leaf)] \in {"required", "redis.required"}

Entries(cfg, map) == {leaf[3] : leaf \in {l \in DOMAIN cfg : Len(l) = 4 /\ l[2] = map}}

Or(value, default) == IF value = "" THEN default ELSE value

-----------------------------------------------------------------------------
(* The environment.                                                           *)

Setenv(env, entry) ==
    [l \in DOMAIN env \union {entry[1]} |-> IF l \in DOMAIN env THEN env[l] ELSE entry[2]]

SetAll(env, entries) ==
    LET after[i \in 0 .. Len(entries)] ==
            IF i = 0 THEN env ELSE Setenv(after[i - 1], entries[i])
    IN  after[Len(entries)]

\* A file that is missing, unreadable or malformed contributes nothing.
LoadFile(env, file) == IF file.ok THEN SetAll(env, file.entries) ELSE env

TryLoadDotEnv(env, files) ==
    LET after[i \in 0 .. Len(files)] ==
            IF i = 0 THEN env ELSE LoadFile(after[i - 1], files[i])
    IN  after[Len(files)]

\* The overrides that strconv cannot parse make ApplyEnv fail.
Parses(cfg, env) == \A l \in DOMAIN cfg \intersect DOMAIN env :
                        IsBool(l) => env[l] \in {"true", "false"}

ApplyEnv(cfg, env) == [l \in DOMAIN cfg |-> IF l \in DOMAIN env THEN env[l] ELSE cfg[l]]

-----------------------------------------------------------------------------
(* The YAML file: the entries of the two maps, and the leaves it sets.        *)

\* The explicit path, or the first candidate that exists; "" for an error.
FindFile(explicit, candidates, exist) ==
    IF explicit # "" THEN IF explicit \in exist THEN explicit ELSE ""
    ELSE LET found == {i \in DOMAIN candidates : candidates[i] \in exist}
         IN IF found = {} THEN "" ELSE candidates[Min(found)]

Leaves(connections, stores) ==
    Fixed \union ConnectionLeaves(connections) \union StoreLeaves(stores)

Unmarshal(yaml) ==
    [l \in Leaves(yaml.connections, yaml.stores) |->
        IF l \in DOMAIN yaml.set THEN yaml.set[l] ELSE IF IsBool(l) THEN "false" ELSE ""]

-----------------------------------------------------------------------------
(* Defaults.                                                                  *)

\* Without any connection, the single-database fields become the default one.
applyDatabaseDefaults(cfg) ==
    LET name == Or(cfg[DefaultConnection], "default")
        created == IF Entries(cfg, "connections") # {} THEN {} ELSE ConnectionLeaves({name})
        full == [l \in DOMAIN cfg \union created |->
                    CASE l \notin created -> cfg[l]
                      [] l \in created /\ l[4] = "driver" -> cfg[DatabaseDriver]
                      [] OTHER -> cfg[MySQLDSN]]
    IN [l \in DOMAIN full |->
          CASE l = DefaultConnection -> name
            [] l \in ConnectionLeaves(Entries(full, "connections")) /\ l[4] = "driver"
                 -> Or(full[l], "mysql")
            [] OTHER -> full[l]]

\* Without any store, the default one is a memory cache.
applyCacheDefaults(cfg) ==
    LET name == Or(cfg[DefaultStore], "default")
        created == IF Entries(cfg, "stores") # {} THEN {} ELSE StoreLeaves({name})
        full == [l \in DOMAIN cfg \union created |->
                    IF l \notin created THEN cfg[l] ELSE IF IsBool(l) THEN "false" ELSE ""]
    IN [l \in DOMAIN full |->
          CASE l = DefaultStore -> name
            [] l \in StoreLeaves(Entries(full, "stores")) /\ l[4] = "driver"
                 -> Or(full[l], "memory")
            [] OTHER -> full[l]]

ApplyDefaults(cfg) ==
    applyCacheDefaults(applyDatabaseDefaults([cfg EXCEPT ![Addr] = Or(@, ":8080")]))

-----------------------------------------------------------------------------
\* The two ways to call ApplyEnv only once.
\* Mutant: overrides come after the defaults only.
LayersEnvLast(cfg, env) == ApplyEnv(ApplyDefaults(cfg), env)

\* Mutant: overrides come before the defaults only.
LayersEnvFirst(cfg, env) == ApplyDefaults(ApplyEnv(cfg, env))

\* The first pass decides what the defaults build on, the second reaches the
\* entries the defaults have built.
Layers(cfg, env) == ApplyEnv(ApplyDefaults(ApplyEnv(cfg, env)), env)

\* Whether either pass meets a value it cannot parse.
LayersParse(cfg, env) ==
    Parses(cfg, env) /\ Parses(ApplyDefaults(ApplyEnv(cfg, env)), env)

\* Databases.Connection, applied to a configuration that has been loaded.
Connection(cfg, name) == Or(name, Or(cfg[DefaultConnection], "default"))

\* Databases.DriverName, and the driver that database.Open chooses.
DriverName(driver) == LET d == Or(driver, "mysql") IN IF d = "sqlite3" THEN "sqlite" ELSE d
=============================================================================
