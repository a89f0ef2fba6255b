---------------------------- MODULE MCBootstrap ----------------------------
(* A small instance of Bootstrap for TLC. *)
EXTENDS Bootstrap, TLC

MCNames == {"default", "main"}
MCExtras == {"e1", "e2"}
MCRunnable == {"e1"}
MCClosable == {"dbs", "sqldb", "cache", "token", "e1", "e2"}

Yaml(connections, stores, set) ==
    [connections |-> connections, stores |-> stores, set |-> set]

\* Single-database files, files with maps, and files that miss their default.
Yamls == {
    Yaml({}, {}, (MySQLDSN :> "d1") @@ (DatabaseDriver :> "sqlite3")),
    Yaml({}, {"main"}, (MySQLDSN :> "d1") @@ (DefaultStore :> "main")
                       @@ (StoreLeaf("main", "driver") :> "redis")),
    Yaml({"default", "main"}, {"default", "main"},
         (ConnectionLeaf("main", "dsn") :> "d2")
         @@ (ConnectionLeaf("default", "driver") :> "sqlite")
         @@ (StoreLeaf("default", "driver") :> "database")
         @@ (StoreLeaf("main", "driver") :> "redis")
         @@ (StoreLeaf("main", "redis.required") :> "true")),
    Yaml({"main"}, {"default"},
         (ConnectionLeaf("main", "dsn") :> "d2") @@ (DefaultConnection :> "main")
         @@ (StoreLeaf("default", "driver") :> "database")
         @@ (StoreLeaf("default", "connection") :> "default")
         @@ (StoreLeaf("default", "required") :> "true"))}

Environments == {
    <<>>,
    (DefaultConnection :> "main") @@ (ConnectionLeaf("main", "dsn") :> "d3"),
    (DefaultConnection :> "") @@ (DatabaseDriver :> "") @@ (Addr :> ""),
    (DefaultStore :> "main") @@ (StoreLeaf("main", "required") :> "true"),
    (StoreLeaf("default", "required") :> "")}

File(ok, entries) == [ok |-> ok, entries |-> entries]

DotEnvs == {
    <<>>,
    <<File(TRUE, <<<<MySQLDSN, "d4">>, <<MySQLDSN, "d5">>, <<DefaultConnection, "main">>>>),
      File(TRUE, <<<<MySQLDSN, "d6">>, <<ConnectionLeaf("default", "driver"), "sqlite">>>>)>>,
    <<File(FALSE, <<<<MySQLDSN, "d4">>>>),
      File(TRUE, <<<<DefaultStore, "main">>>>)>>}

Input(files, explicit, env, dotenv, manager) ==
    [files |-> files, explicit |-> explicit, candidates |-> <<"config.yaml", "config.yml">>,
     env |-> env, dotenv |-> dotenv, manager |-> manager]

MCInputs ==
    {Input("config.yml" :> y, "", env, d, m) :
        y \in Yamls, env \in Environments, d \in DotEnvs, m \in BOOLEAN}
    \union {Input(("config.yaml" :> y) @@ ("config.yml" :> z), x, <<>>, <<>>, FALSE) :
        y \in Yamls, z \in Yamls, x \in {"", "config.yml", "other.yaml"}}
=============================================================================
