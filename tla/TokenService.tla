---------------------------- MODULE TokenService ----------------------------
(* token.Service (src/token/token.go) on a cache.Redis, beside other clients  *)
(* of the same Redis.                                                         *)
(*                                                                            *)
(* Issue reads the clock and then stores the claims; Find reads the claims,   *)
(* reads the clock, and deletes the token when the claims have expired: time  *)
(* passes, and other goroutines run, between those steps.  Claims carry their *)
(* expiry in whole seconds, the store in milliseconds, the clock runs finer.  *)
(* Raw tokens are random, so each Issue draws a fresh one, and a client knows *)
(* a token only once Issue has returned it.                                   *)
EXTENDS RedisDriver, FiniteSets

CONSTANTS
    Threads,        \* goroutines that use the service
    Tokens,         \* the raw tokens that will be drawn
    Second,         \* ticks of the program's clock per second
    ServiceTTLs,    \* the ttl option of the services
    Requested,      \* claims.Expires as passed to Issue; 0 when not set
    Clients,        \* other users of the server, on Keys
    Prefix,         \* what their cache.Prefixed puts before a key
    Inputs, TTLs, Deltas,   \* what they pass to Set and Increment
    MaxClock        \* bound: the last time the clock shows

ASSUME SecondAssumption == Second \in Nat \ {0} /\ Second % Milli = 0

ASSUME TokenAssumption == /\ ServiceTTLs \subseteq Int
                          /\ Requested \subseteq Nat
                          /\ Inputs \subseteq Values
                          /\ TTLs \subseteq Int
                          /\ Deltas \subseteq Int64
                          /\ MaxClock \in Nat /\ Second <= MaxClock
                          /\ "none" \notin Tokens

ASSUME KeyAssumption == Keys \subseteq Seq(STRING) /\ Prefix \in Seq(STRING)

VARIABLES
    clock,      \* service.now(), in ticks
    rows,       \* what the server holds
    call,       \* the Issue or Find each goroutine is in
    expires,    \* claims.Expires of the tokens that Issue has returned, or 0
    ret,        \* the last answer of the service
    reply,      \* the last answer each other client got
    drawn,      \* raw tokens that Issue has used
    revoking,   \* history: tokens some Revoke was called for
    revoked     \* history: tokens whose Revoke returned nil

vars == <<clock, rows, call, expires, ret, reply, drawn, revoking, revoked>>

Unix(t) == t \div Second

\* service.key; the hash of a raw token is as good as the token.
TokenKey(token) == <<"token", token>>

ClientKeys == [k \in Keys |-> Key(Prefix, k)]

ClientKey(k) == ClientKeys[k]

\* The applications' prefixes keep other keys out of the service's namespace.
ASSUME NamespaceAssumption == \A x \in Tokens, k \in Keys : TokenKey(x) # ClientKey(k)

Idle == [at |-> "idle", token |-> "none", expires |-> 0, ttl |-> 0, dead |-> FALSE]

\* Nobody may use the token any more, and everybody may still use it.
Dead(token) == token \in revoked \/ clock >= expires[token] * Second

Young(token) == token \notin revoking /\ clock <= expires[token] * Second - Milli

\* An answer about a token, with what history knows of it: was the token dead
\* when the operation began, and is it young now that it returns?
Verdict(out, dead, young) == [out |-> out, dead |-> dead, young |-> young]

Return(t, out, token, dead) ==
    /\ call' = [call EXCEPT ![t] = Idle]
    /\ ret' = Verdict(out, dead, token \in Tokens /\ Young(token))

\* Clients see nothing of tokens and of the service.
serviceVars == <<call, expires, ret, drawn, revoking, revoked>>

Start == Second

ServerKeys == {TokenKey(x) : x \in Tokens} \union {ClientKey(k) : k \in Keys}

Init == /\ clock = Start
        /\ rows = [k \in ServerKeys |-> NoRow]
        /\ call = [t \in Threads |-> Idle]
        /\ expires = [x \in Tokens |-> 0]
        /\ ret = Verdict("none", FALSE, FALSE)
        /\ reply = [c \in Clients |-> [op |-> "none", out |-> "ok", value |-> 0]]
        /\ drawn = {}
        /\ revoking = {}
        /\ revoked = {}

-----------------------------------------------------------------------------
(* The service.  Blank subjects and blank raw tokens return at once, without  *)
(* a call of the store.                                                       *)

\* Mutant: a ttl that is already over is stored all the same.
TooLateNever(ttl) == FALSE

TooLate(ttl) == ttl <= 0

(* Issue up to the call of the store. *)
Issue(t, token, requested, option) ==
    /\ call[t].at = "idle"
    /\ token \notin drawn
    /\ LET ttl == IF requested > 0 THEN requested * Second - clock ELSE option
           exp == IF requested > 0 THEN requested ELSE Unix(clock + ttl)
       IN IF TooLate(ttl)
          THEN Return(t, "expired", "none", FALSE) /\ UNCHANGED drawn
          ELSE /\ call' = [call EXCEPT ![t] = [Idle EXCEPT !.at = "store", !.token = token,
                                                          !.expires = exp, !.ttl = ttl]]
               /\ drawn' = drawn \union {token}
               /\ UNCHANGED ret
    /\ UNCHANGED <<clock, rows, expires, reply, revoking, revoked>>

(* The claims reach the store, and the token its client. *)
IssueStore(t) ==
    /\ call[t].at = "store"
    /\ LET c == call[t]
           row == rows[TokenKey(c.token)]
       IN \E o \in Outcomes(row, Set(row, c.expires, c.ttl, clock)) :
         /\ rows' = [rows EXCEPT ![TokenKey(c.token)] = o.row]
         /\ Return(t, o.out, c.token, FALSE)
         /\ expires' = IF o.out = "ok" THEN [expires EXCEPT ![c.token] = c.expires] ELSE expires
    /\ UNCHANGED <<clock, reply, drawn, revoking, revoked>>

(* Find up to the answer of the store. *)
Find(t, token) ==
    /\ call[t].at = "idle"
    /\ expires[token] # 0
    /\ \E o \in Outcomes(rows[TokenKey(token)], Get(rows[TokenKey(token)])) :
         /\ rows' = [rows EXCEPT ![TokenKey(token)] = o.row]
         /\ IF o.out = "ok"
            THEN /\ call' = [call EXCEPT ![t] = [Idle EXCEPT !.at = "check", !.token = token,
                                                     !.expires = o.value, !.dead = Dead(token)]]
                 /\ UNCHANGED ret
            ELSE Return(t, o.out, token, Dead(token))
    /\ UNCHANGED <<clock, expires, reply, drawn, revoking, revoked>>

\* Mutant: the second that Expires names still counts.
OverAfter(exp) == exp > 0 /\ Unix(clock) > exp

\* Mutant: compares with the end of the current second.
OverEarly(exp) == exp > 0 /\ Unix(clock) + 1 >= exp

Over(exp) == exp > 0 /\ Unix(clock) >= exp

(* Find compares the claims with the clock. *)
FindCheck(t) ==
    /\ call[t].at = "check"
    /\ IF Over(call[t].expires)
       THEN call' = [call EXCEPT ![t].at = "drop"] /\ UNCHANGED ret
       ELSE Return(t, "found", call[t].token, call[t].dead)
    /\ UNCHANGED <<clock, rows, expires, reply, drawn, revoking, revoked>>

(* Find revokes a token that has expired, and ignores how that went. *)
FindDrop(t) ==
    /\ call[t].at = "drop"
    /\ LET c == call[t] IN
       \E o \in Outcomes(rows[TokenKey(c.token)], Delete(rows[TokenKey(c.token)])) :
         /\ rows' = [rows EXCEPT ![TokenKey(c.token)] = o.row]
         /\ Return(t, "expired", c.token, c.dead)
    /\ UNCHANGED <<clock, expires, reply, drawn, revoking, revoked>>

\* Mutant: Revoke reports success whatever the store answered.
RevokedAnyway(out) == TRUE

Acknowledged(out) == out = "ok"

Revoke(t, token) ==
    /\ call[t].at = "idle"
    /\ expires[token] # 0
    /\ \E o \in Outcomes(rows[TokenKey(token)], Delete(rows[TokenKey(token)])) :
         /\ rows' = [rows EXCEPT ![TokenKey(token)] = o.row]
         /\ Return(t, o.out, token, FALSE)
         /\ revoking' = revoking \union {token}
         /\ revoked' = IF Acknowledged(o.out) THEN revoked \union {token} ELSE revoked
    /\ UNCHANGED <<clock, expires, reply, drawn>>

-----------------------------------------------------------------------------
(* Other users of the driver, through a cache.Prefixed (src/cache/prefix.go). *)

ClientCall(c, k, op, effect) ==
    /\ \E o \in Outcomes(rows[ClientKey(k)], effect) :
         /\ rows' = [rows EXCEPT ![ClientKey(k)] = o.row]
         /\ reply' = [reply EXCEPT ![c] = [op |-> op, out |-> o.out, value |-> o.value]]
    /\ UNCHANGED <<clock, serviceVars>>

ClientGet(c, k) == ClientCall(c, k, "Get", Get(rows[ClientKey(k)]))

ClientExists(c, k) == ClientCall(c, k, "Exists", Exists(rows[ClientKey(k)]))

ClientTTL(c, k) == ClientCall(c, k, "TTL", TTL(rows[ClientKey(k)], clock))

ClientSet(c, k, v, ttl) == ClientCall(c, k, "Set", Set(rows[ClientKey(k)], v, ttl, clock))

ClientTake(c, k) == ClientCall(c, k, "Take", Take(rows[ClientKey(k)]))

ClientDelete(c, k) == ClientCall(c, k, "Delete", Delete(rows[ClientKey(k)]))

ClientIncrement(c, k, delta, ttl) ==
    ClientCall(c, k, "Increment", Increment(rows[ClientKey(k)], delta, ttl, clock))

(* Time passes; the server drops the rows that expire. *)
Tick == /\ clock < MaxClock
        /\ clock' = clock + 1
        /\ rows' = [k \in ServerKeys |-> Lookup(rows[k], clock + 1)]
        /\ UNCHANGED <<reply, serviceVars>>

Next == \/ Tick
        \/ \E t \in Threads :
             \/ IssueStore(t) \/ FindCheck(t) \/ FindDrop(t)
             \/ \E token \in Tokens :
                  \/ Find(t, token) \/ Revoke(t, token)
                  \/ \E r \in Requested, o \in ServiceTTLs : Issue(t, token, r, o)
        \/ \E c \in Clients, k \in Keys :
             \/ ClientGet(c, k) \/ ClientExists(c, k) \/ ClientTTL(c, k)
             \/ ClientTake(c, k) \/ ClientDelete(c, k)
             \/ \E v \in Inputs, ttl \in TTLs : ClientSet(c, k, v, ttl)
             \/ \E d \in Deltas, ttl \in TTLs : ClientIncrement(c, k, d, ttl)

Spec == Init /\ [][Next]_vars

-----------------------------------------------------------------------------
Rows == [present : BOOLEAN, value : Int \union {Text}, when : Nat]

(* Types; Issue never reaches the store with a ttl that is over (token.go:89),*)
(* and only tokens that were issued are revoked.                              *)
TypeOK ==
    /\ clock \in Start .. MaxClock
    /\ rows \in [ServerKeys -> Rows]
    /\ call \in [Threads -> [at : {"idle", "store", "check", "drop"},
                             token : Tokens \union {"none"},
                             expires : Nat, ttl : Int, dead : BOOLEAN]]
    /\ \A t \in Threads : call[t].at = "store" => call[t].ttl > 0
    /\ expires \in [Tokens -> Nat]
    /\ ret.out \in {"none", "ok", "miss", "refused", "lost", "expired", "found"}
    /\ reply \in [Clients -> [op : {"none", "Get", "Exists", "TTL", "Set", "Take",
                                    "Delete", "Increment"},
                              out : {"ok", "miss", "refused", "overflow", "lost"},
                              value : Int \union {Text}]]
    /\ revoked \subseteq revoking
    /\ revoking \subseteq drawn
    /\ drawn \subseteq Tokens

(* A token is never accepted again: a Find that begins after the second named *)
(* by the claims (token.go:124), or after a Revoke that returned nil, does    *)
(* not return the claims, whatever answers of the store were lost and however *)
(* long the store still keeps the row.                                        *)
DeadStaysDead == ret.out = "found" => ~ret.dead

(* Until a millisecond before that second, a token that nobody asked to       *)
(* revoke is accepted: rounding the ttl of the row down to milliseconds       *)
(* (redis.go:462) and the expiry of the claims down to seconds (token.go:87)  *)
(* costs it no more.  No row of a token stays for ever, and no ttl is so      *)
(* short that the server refuses it.                                          *)
TokenLifetime ==
    /\ ret.out # "refused"
    /\ \A x \in Tokens : rows[TokenKey(x)].present => rows[TokenKey(x)].when # 0
    /\ \A x \in Tokens : Young(x) => rows[TokenKey(x)].present
    /\ ret.young => ret.out \notin {"miss", "expired"}

\* cache.Redis as a cache.Cache.  The contract's clock counts the server's
\* milliseconds from 1.  A row outlives its millisecond, so it expires one
\* later than the ttl says.  A lost answer promises nothing, and neither does
\* an overflow, which the contract's drivers wrap.
ContractTTL(ttl) == IF ttl > 0 THEN redisTTLMillis(ttl) + 1 ELSE 0

ContractTime(millis) == millis - ServerTime(Start) + 1

ContractEntry(row) ==
    [present |-> row.present, value |-> row.value,
     expiresAt |-> IF row.when = 0 THEN 0 ELSE ContractTime(row.when) + 1]

ContractReply(r) ==
    IF r.op \in {"Take", "Increment"} /\ r.out \notin {"lost", "overflow"}
    THEN [op |-> r.op, out |-> IF r.out = "refused" THEN "error" ELSE r.out,
          value |-> IF r.out = "miss" THEN 0 ELSE r.value]
    ELSE [op |-> "quiet", out |-> "ok", value |-> 0]

ContractStore == [k \in Keys |-> ContractEntry(rows[ClientKey(k)])]

ContractReplies == [c \in Clients |-> ContractReply(reply[c])]

Contract == INSTANCE CacheContract
    WITH store <- ContractStore, reply <- ContractReplies,
         clock <- ContractTime(ServerTime(clock)),
         TTLs <- {ContractTTL(ttl) : ttl \in TTLs}

(* The operations of cache.Redis (redis.go:110-176) implement cache.Cache:    *)
(* the scripts make Take and Increment atomic, Increment moves the expiry     *)
(* only when a ttl is given, a ttl below a millisecond is not "no expiry",    *)
(* and a row is gone once its time is over.                                   *)
RedisImplementsContract == Contract!Spec
=============================================================================
