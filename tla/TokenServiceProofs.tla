------------------------- MODULE TokenServiceProofs -------------------------
(* TokenService, for every clock rate, every set of tokens and ttls, and      *)
(* every other client of the server whose keys are not the service's.         *)
EXTENDS TokenService, SequenceTheorems, WellFoundedInduction, TLAPS

Effects == [row : Rows, out : {"ok", "miss", "refused", "overflow", "lost"},
            value : Int \union {Text}]

(* Rounding down. *)
LEMMA DivFacts ==
    ASSUME NEW a \in Nat, NEW m \in Nat \ {0}
    PROVE  /\ a \div m \in Nat
           /\ (a \div m) * m <= a
           /\ a < ((a \div m) + 1) * m
           /\ (a + 1) \div m \in {a \div m, (a \div m) + 1}
           /\ \A e \in Nat : a \div m >= e <=> a >= e * m
OBVIOUS

(* The server's clock, and a positive ttl is at least a millisecond to it. *)
LEMMA MillisFacts ==
    /\ \A now \in Nat : ServerTime(now) \in Nat
    /\ \A ttl \in Int : /\ redisTTLMillis(ttl) \in Nat
                        /\ redisTTLMillis(ttl) > 0 <=> ttl > 0
BY MilliAssumption, DivFacts DEF ServerTime, redisTTLMillis

(* The server shows a millisecond once that many have passed. *)
LEMMA ServerTimeReaches ==
    ASSUME NEW now \in Nat, NEW m \in Nat
    PROVE  ServerTime(now) >= m <=> now >= m * Milli
BY MilliAssumption, DivFacts DEF ServerTime

(* What the commands leave and answer is well-formed. *)
LEMMA EffectTypes ==
    ASSUME NEW row \in Rows, NEW now \in Nat
    PROVE  /\ Get(row) \in Effects /\ Take(row) \in Effects /\ Exists(row) \in Effects
           /\ Delete(row) \in Effects /\ TTL(row, now) \in Effects
           /\ \A v \in Int \union {Text}, ttl \in Int : Set(row, v, ttl, now) \in Effects
           /\ \A d \in Int, ttl \in Int : Increment(row, d, ttl, now) \in Effects
<1> USE DEF Effects, Effect
<1>0. NoRow \in Rows /\ (\A v \in Int \union {Text}, w \in Nat : Row(v, w) \in Rows)
  BY DEF Rows, NoRow, Row
<1>1. Get(row) \in Effects /\ Exists(row) \in Effects /\ Delete(row) \in Effects
  BY <1>0 DEF Get, Exists, Delete, Rows
<1>2. Take(row) \in Effects BY <1>0, <1>1 DEF Take, Get
<1>3. TTL(row, now) \in Effects
  <2>1. row.when \in Nat /\ ServerTime(now) \in Nat /\ Milli \in Nat
    BY MillisFacts, MilliAssumption DEF Rows
  <2>2. (row.when - ServerTime(now)) * Milli \in Int BY <2>1
  <2> QED BY <2>2 DEF TTL
<1>4. \A v \in Int \union {Text}, ttl \in Int : Set(row, v, ttl, now) \in Effects
  BY <1>0, MillisFacts DEF Set, Expiry
<1>5. ASSUME NEW d \in Int, NEW ttl \in Int PROVE Increment(row, d, ttl, now) \in Effects
  <2>1. Expiry(now, redisTTLMillis(ttl)) \in Nat BY MillisFacts DEF Expiry
  <2>2. ASSUME NEW v \in Int PROVE ExpireIfPositive(Row(v, row.when), ttl, now) \in Rows
    BY <2>1 DEF ExpireIfPositive, Row, Rows
  <2>3. Counter(row) \in Int \union {Text} BY DEF Counter, Rows
  <2>4. CASE Counter(row) = Text BY <2>4 DEF Increment
  <2>5. CASE Counter(row) # Text
    <3> DEFINE next == Counter(row) + d
    <3>1. next \in Int BY <2>3, <2>5
    <3>2. Increment(row, d, ttl, now) =
            IF next \notin Int64 THEN Effect(row, "overflow", 0)
            ELSE Effect(ExpireIfPositive(Row(next, row.when), ttl, now), "ok", next)
      BY <2>5 DEF Increment
    <3> HIDE DEF next
    <3> QED BY <2>2, <3>1, <3>2
  <2> QED BY <2>4, <2>5
<1> QED BY <1>1, <1>2, <1>3, <1>4, <1>5

(* A lost answer leaves the row as it was or as the command made it. *)
LEMMA OutcomeFacts ==
    ASSUME NEW row \in Rows, NEW e \in Effects, NEW o \in Outcomes(row, e)
    PROVE  /\ o \in Effects
           /\ o = e \/ (o.out = "lost" /\ o.row \in {row, e.row})
BY DEF Outcomes, Effect, Effects

(* Keys of tokens are apart from each other and from the other clients'. *)
LEMMA KeyFacts ==
    /\ \A x \in Tokens : TokenKey(x) \in ServerKeys
    /\ \A k \in Keys : ClientKey(k) \in ServerKeys
    /\ \A x, y \in Tokens : TokenKey(x) = TokenKey(y) => x = y
    /\ \A x \in Tokens, k \in Keys : TokenKey(x) # ClientKey(k)
<1>1. \A x, y \in Tokens : TokenKey(x) = TokenKey(y) => x = y BY DEF TokenKey
<1> QED BY <1>1, NamespaceAssumption DEF ServerKeys
-----------------------------------------------------------------------------
(* The inductive invariant.  An Issue about to store its claims is the only   *)
(* one that knows its token, and its ttl reaches the expiry of the claims.    *)
Issuing ==
    /\ \A t \in Threads : call[t].at = "store" =>
          /\ call[t].token \in drawn /\ expires[call[t].token] = 0
          /\ call[t].expires # 0
          /\ call[t].expires * Second <= clock + call[t].ttl
    /\ \A t, u \in Threads : call[t].at = "store" /\ call[u].at = "store"
                               /\ call[t].token = call[u].token => t = u

(* A Find that has read the claims carries the token's own expiry, and knows  *)
(* of a dead token only one whose expiry has passed.                          *)
Finding ==
    \A t \in Threads : call[t].at \in {"check", "drop"} =>
        /\ call[t].token \in Tokens /\ expires[call[t].token] # 0
        /\ call[t].expires = expires[call[t].token]
        /\ call[t].dead \/ call[t].at = "drop" => clock >= call[t].expires * Second

Issued == /\ \A x \in Tokens : expires[x] # 0 => x \in drawn
          /\ \A x \in revoking : expires[x] # 0

(* The row of an issued token holds the claims' expiry and outlasts them, but *)
(* for the millisecond that rounding costs; a revoked token has no row.       *)
TokenRow(x) == rows[TokenKey(x)]
Stored ==
    /\ \A x \in Tokens : TokenRow(x).present =>
          /\ TokenRow(x).when # 0
          /\ expires[x] # 0 => /\ TokenRow(x).value = expires[x]
                               /\ expires[x] * Second < (TokenRow(x).when + 2) * Milli
    /\ \A x \in revoked : ~TokenRow(x).present

Lasting == \A x \in Tokens : Young(x) => TokenRow(x).present

Answered == /\ ret.out # "refused"
            /\ ret.young => ret.out \notin {"miss", "expired"}
            /\ DeadStaysDead

IInv == TypeOK /\ Issuing /\ Finding /\ Issued /\ Stored /\ Lasting /\ Answered

CallStates == [at : {"idle", "store", "check", "drop"}, token : Tokens \union {"none"},
               expires : Nat, ttl : Int, dead : BOOLEAN]

Outs == {"none", "ok", "miss", "refused", "lost", "expired", "found"}

(* The sizes that every step relies on. *)
LEMMA Sizes ==
    ASSUME TypeOK
    PROVE  /\ clock \in Nat /\ clock >= Second /\ clock > 0
           /\ Second \in Nat \ {0} /\ Milli \in Nat \ {0}
           /\ rows \in [ServerKeys -> Rows]
           /\ call \in [Threads -> CallStates]
           /\ expires \in [Tokens -> Nat]
           /\ \A x \in Tokens : TokenRow(x) \in Rows
           /\ revoked \subseteq revoking /\ revoking \subseteq Tokens /\ drawn \subseteq Tokens
BY SecondAssumption, MilliAssumption, TokenAssumption, KeyFacts
DEF TypeOK, Start, CallStates, TokenRow

(* A goroutine that returns is idle, and its answer is on record. *)
LEMMA ReturnFacts ==
    ASSUME call \in [Threads -> CallStates], NEW t \in Threads, NEW out, NEW x, NEW dead,
           Return(t, out, x, dead)
    PROVE  /\ call' \in [Threads -> CallStates] /\ call'[t].at = "idle"
           /\ \A u \in Threads \ {t} : call'[u] = call[u]
           /\ ret'.out = out /\ ret'.dead = dead
           /\ ret'.young <=> x \in Tokens /\ Young(x)
<1>1. Idle \in CallStates /\ Idle.at = "idle" BY DEF Idle, CallStates
<1> HIDE DEF Idle
<1>2. call' = [call EXCEPT ![t] = Idle] BY DEF Return
<1> QED BY <1>1, <1>2 DEF Return, Verdict, Young

(* The row of one token changes. *)
LEMMA SetRow ==
    ASSUME rows \in [ServerKeys -> Rows], NEW x \in Tokens, NEW r \in Rows,
           rows' = [rows EXCEPT ![TokenKey(x)] = r]
    PROVE  /\ rows' \in [ServerKeys -> Rows]
           /\ TokenRow(x)' = r
           /\ \A y \in Tokens \ {x} : TokenRow(y)' = TokenRow(y)
BY KeyFacts DEF TokenRow

(* A token that was not issued, or whose expiry is reached, is not young. *)
LEMMA YoungFacts ==
    ASSUME TypeOK, NEW x \in Tokens, Young(x)
    PROVE  expires[x] # 0 /\ x \notin revoking /\ ~(clock >= expires[x] * Second)
<1>1. /\ clock \in Nat /\ clock > 0 /\ Second \in Nat \ {0} /\ Milli \in Nat \ {0}
      /\ expires[x] \in Nat
  BY Sizes
<1>2. clock <= expires[x] * Second - Milli /\ expires[x] * Second \in Nat
  BY <1>1 DEF Young
<1>3. expires[x] = 0 => expires[x] * Second = 0 BY <1>1
<1> QED BY <1>1, <1>2, <1>3 DEF Young

(* The service begins with no token and no row. *)
LEMMA IInvInit == Init => IInv
<1> SUFFICES ASSUME Init PROVE IInv
  OBVIOUS
<1>1. TypeOK
  <2>1. NoRow \in Rows BY DEF NoRow, Rows
  <2>2. Idle \in CallStates /\ Idle.at = "idle" BY DEF Idle, CallStates
  <2>3. clock \in Start .. MaxClock
    BY SecondAssumption, TokenAssumption DEF Init, Start
  <2> HIDE DEF Idle, NoRow
  <2> QED BY <2>1, <2>2, <2>3 DEF Init, TypeOK, Verdict, CallStates
<1>2. \A t \in Threads : call[t].at = "idle" BY DEF Init, Idle
<1>3. \A x \in Tokens : expires[x] = 0 /\ ~TokenRow(x).present
  BY KeyFacts DEF Init, TokenRow, NoRow
<1>4. Issuing /\ Finding BY <1>2 DEF Issuing, Finding
<1>5. Issued /\ Stored BY <1>3 DEF Issued, Stored, Init
<1>6. Lasting BY <1>1, <1>3, YoungFacts DEF Lasting
<1>7. Answered BY DEF Init, Answered, Verdict, DeadStaysDead
<1> QED BY <1>1, <1>4, <1>5, <1>6, <1>7 DEF IInv

(* A step that leaves the clock, the claims and the history of tokens alone,  *)
(* and their rows, keeps what is said of tokens.                              *)
LEMMA TokensKept ==
    ASSUME IInv, UNCHANGED <<clock, expires, drawn, revoking, revoked>>,
           \A x \in Tokens : TokenRow(x)' = TokenRow(x)
    PROVE  Issued' /\ Stored' /\ Lasting'
<1>1. revoked \subseteq Tokens BY Sizes DEF IInv
<1>2. Issued' BY DEF IInv, Issued
<1>3. Stored' BY <1>1 DEF IInv, Stored
<1>4. Lasting' BY DEF IInv, Lasting, Young
<1> QED BY <1>2, <1>3, <1>4

(* Other clients of the server do not touch the tokens. *)
LEMMA ClientStep ==
    ASSUME IInv, NEW c \in Clients, NEW k \in Keys,
           NEW op \in {"Get", "Exists", "TTL", "Set", "Take", "Delete", "Increment"},
           NEW e \in Effects, ClientCall(c, k, op, e)
    PROVE  IInv'
<1>1. PICK o \in Outcomes(rows[ClientKey(k)], e) :
        /\ rows' = [rows EXCEPT ![ClientKey(k)] = o.row]
        /\ reply' = [reply EXCEPT ![c] = [op |-> op, out |-> o.out, value |-> o.value]]
  BY DEF ClientCall
<1>2. UNCHANGED <<clock, call, expires, ret, drawn, revoking, revoked>>
  BY DEF ClientCall, serviceVars
<1>3. rows \in [ServerKeys -> Rows] /\ TypeOK BY Sizes DEF IInv
<1>4. o \in Effects BY <1>3, KeyFacts, OutcomeFacts
<1>5. rows' \in [ServerKeys -> Rows] BY <1>1, <1>3, <1>4 DEF Effects
<1>6. \A x \in Tokens : TokenRow(x)' = TokenRow(x) BY <1>1, <1>3, KeyFacts DEF TokenRow
<1>7. TypeOK'
  <2>1. [op |-> op, out |-> o.out, value |-> o.value] \in
           [op : {"none", "Get", "Exists", "TTL", "Set", "Take", "Delete", "Increment"},
            out : {"ok", "miss", "refused", "overflow", "lost"}, value : Int \union {Text}]
    BY <1>4 DEF Effects
  <2> QED BY <1>1, <1>2, <1>3, <1>5, <2>1 DEF TypeOK
<1>8. Issued' /\ Stored' /\ Lasting' BY <1>2, <1>6, TokensKept
<1>9. Issuing' /\ Finding' /\ Answered'
  BY <1>2 DEF IInv, Issuing, Finding, Answered, DeadStaysDead
<1> QED BY <1>7, <1>8, <1>9 DEF IInv

(* Time passes: a row is dropped only when its token is no longer young. *)
LEMMA TickStep ==
    ASSUME IInv, Tick
    PROVE  IInv'
<1>0. /\ TypeOK /\ clock \in Nat /\ Milli \in Nat \ {0} /\ Second \in Nat \ {0}
      /\ rows \in [ServerKeys -> Rows] /\ expires \in [Tokens -> Nat]
      /\ call \in [Threads -> CallStates]
      /\ revoked \subseteq Tokens /\ revoking \subseteq Tokens
  BY Sizes DEF IInv
<1>1. /\ clock' = clock + 1 /\ clock < MaxClock
      /\ rows' = [k \in ServerKeys |-> Lookup(rows[k], clock + 1)]
      /\ UNCHANGED <<reply, call, expires, ret, drawn, revoking, revoked>>
  BY DEF Tick, serviceVars
<1>2. NoRow \in Rows /\ ~NoRow.present BY DEF NoRow, Rows
<1>3. /\ rows' \in [ServerKeys -> Rows]
      /\ \A x \in Tokens : TokenRow(x)' = Lookup(TokenRow(x), clock + 1)
  BY <1>0, <1>1, <1>2, KeyFacts DEF Lookup, TokenRow
<1>4. TypeOK' BY <1>0, <1>1, <1>3, SecondAssumption, TokenAssumption DEF TypeOK, Start
<1>5. Issuing'
  <2>1. \A t \in Threads : call[t].expires * Second \in Nat /\ call[t].ttl \in Int
    BY <1>0 DEF CallStates
  <2> QED BY <1>0, <1>1, <2>1 DEF IInv, Issuing
<1>6. Finding'
  <2>1. \A t \in Threads : call[t].expires * Second \in Nat BY <1>0 DEF CallStates
  <2> QED BY <1>0, <1>1, <2>1 DEF IInv, Finding
<1>7. Issued' /\ Answered' BY <1>1 DEF IInv, Issued, Answered, DeadStaysDead
<1>8. Stored'
  <2>1. \A x \in Tokens : TokenRow(x)'.present => TokenRow(x)' = TokenRow(x)
    BY <1>2, <1>3 DEF Lookup
  <2> QED BY <1>0, <1>1, <2>1 DEF IInv, Stored
<1>9. Lasting'
  <2> SUFFICES ASSUME NEW x \in Tokens, Young(x)' PROVE TokenRow(x)'.present
    BY DEF Lasting
  <2> DEFINE w == TokenRow(x).when
             e == expires[x] * Second
  <2>1. e \in Nat BY <1>0
  <2>2. clock + 1 <= e - Milli /\ x \notin revoking BY <1>1 DEF Young
  <2>3. Young(x) BY <1>0, <2>1, <2>2 DEF Young
  <2>4. TokenRow(x).present /\ expires[x] # 0 /\ TokenRow(x) \in Rows
    BY <1>0, <2>3, YoungFacts, Sizes DEF IInv, Lasting
  <2>5. e < (w + 2) * Milli /\ w \in Nat BY <2>4 DEF IInv, Stored, Rows
  <2> HIDE DEF e, w
  <2>6. (w + 2) * Milli = (w + 1) * Milli + Milli BY <1>0, <2>5
  <2>7. (w + 1) * Milli \in Nat BY <1>0, <2>5
  <2>8. ~(clock + 1 >= (w + 1) * Milli) BY <1>0, <2>1, <2>2, <2>5, <2>6, <2>7
  <2>9. ~(ServerTime(clock + 1) >= w + 1) BY <1>0, <2>5, <2>8, ServerTimeReaches
  <2>10. ~(ServerTime(clock + 1) > w)
    BY <1>0, <2>5, <2>9, MillisFacts
  <2>11. TokenRow(x)' = TokenRow(x) BY <1>3, <2>10 DEF Lookup, w
  <2> QED BY <2>4, <2>11
<1> QED BY <1>4, <1>5, <1>6, <1>7, <1>8, <1>9 DEF IInv

(* Issue reads the clock: the ttl it computes reaches the expiry of the       *)
(* claims, which lies in the second after the first or later.                 *)
LEMMA IssueStep ==
    ASSUME IInv, NEW t \in Threads, NEW x \in Tokens, NEW r \in Requested,
           NEW o \in ServiceTTLs, Issue(t, x, r, o)
    PROVE  IInv'
<1>0. /\ TypeOK /\ clock \in Nat /\ clock >= Second /\ Second \in Nat \ {0}
      /\ call \in [Threads -> CallStates] /\ r \in Nat /\ o \in Int
  BY Sizes, TokenAssumption DEF IInv
<1> DEFINE ttl == IF r > 0 THEN r * Second - clock ELSE o
           exp == IF r > 0 THEN r ELSE Unix(clock + ttl)
<1>1. /\ call[t].at = "idle" /\ x \notin drawn
      /\ UNCHANGED <<clock, rows, expires, reply, revoking, revoked>>
  BY DEF Issue
<1>2. \A y \in Tokens : TokenRow(y)' = TokenRow(y) BY <1>1 DEF TokenRow
<1>3. r * Second \in Nat /\ ttl \in Int BY <1>0
<1>4. CASE TooLate(ttl)
  <2>1. Return(t, "expired", "none", FALSE) /\ drawn' = drawn BY <1>4 DEF Issue
  <2>2. /\ call' \in [Threads -> CallStates] /\ call'[t].at = "idle"
        /\ \A u \in Threads \ {t} : call'[u] = call[u]
        /\ ret'.out = "expired" /\ ~ret'.young
    BY <1>0, <2>1, ReturnFacts, TokenAssumption
  <2>3. TypeOK' BY <1>0, <1>1, <2>1, <2>2 DEF TypeOK, CallStates
  <2>4. Issued' /\ Stored' /\ Lasting' BY <1>1, <1>2, <2>1, TokensKept
  <2>5. Issuing' /\ Finding' BY <1>1, <2>1, <2>2 DEF IInv, Issuing, Finding
  <2>6. Answered' BY <2>2 DEF Answered, DeadStaysDead
  <2> QED BY <2>3, <2>4, <2>5, <2>6 DEF IInv
<1>5. CASE ~TooLate(ttl)
  <2>0. ttl > 0 BY <1>3, <1>5 DEF TooLate
  <2>1. /\ call' = [call EXCEPT ![t] = [Idle EXCEPT !.at = "store", !.token = x,
                                                   !.expires = exp, !.ttl = ttl]]
        /\ drawn' = drawn \union {x} /\ ret' = ret
    BY <1>5 DEF Issue
  <2>2. exp \in Nat /\ exp # 0 /\ exp * Second <= clock + ttl
    <3>1. CASE r > 0
      <4>1. exp = r /\ ttl = r * Second - clock BY <3>1
      <4> HIDE DEF exp, ttl
      <4> QED BY <1>0, <1>3, <3>1, <4>1
    <3>2. CASE ~(r > 0)
      <4>1. exp = (clock + ttl) \div Second BY <3>2 DEF Unix
      <4> HIDE DEF exp, ttl
      <4>2. clock + ttl \in Nat /\ clock + ttl >= 1 * Second BY <1>0, <1>3, <2>0
      <4>3. exp \in Nat /\ exp * Second <= clock + ttl /\ exp >= 1
        BY <1>0, <4>1, <4>2, DivFacts
      <4> QED BY <4>3
    <3> QED BY <3>1, <3>2
  <2> DEFINE c == [Idle EXCEPT !.at = "store", !.token = x, !.expires = exp, !.ttl = ttl]
  <2> HIDE DEF exp, ttl
  <2>3. /\ c \in CallStates /\ c.at = "store" /\ c.token = x /\ c.expires = exp
        /\ c.ttl = ttl
    BY <1>3, <2>2 DEF Idle, CallStates
  <2> HIDE DEF c
  <2>4. /\ call' \in [Threads -> CallStates] /\ call'[t] = c
        /\ \A u \in Threads \ {t} : call'[u] = call[u]
    BY <1>0, <2>1, <2>3 DEF c
  <2>5. TypeOK'
    <3>1. \A u \in Threads : call'[u].at = "store" => call'[u].ttl > 0
      BY <1>0, <2>0, <2>3, <2>4 DEF TypeOK
    <3> QED BY <1>0, <1>1, <2>1, <2>4, <3>1 DEF TypeOK, CallStates
  <2>6. expires[x] = 0 BY <1>1 DEF IInv, Issued
  <2>7. Issuing'
    <3>1. \A u \in Threads : call[u].at = "store" => call[u].token # x
      BY <1>1 DEF IInv, Issuing
    <3>2. \A u \in Threads : call'[u].at = "store" =>
            /\ call'[u].token \in drawn' /\ expires[call'[u].token] = 0
            /\ call'[u].expires # 0
            /\ call'[u].expires * Second <= clock + call'[u].ttl
      BY <2>1, <2>2, <2>3, <2>4, <2>6 DEF IInv, Issuing
    <3>3. \A u, v \in Threads : call'[u].at = "store" /\ call'[v].at = "store"
                               /\ call'[u].token = call'[v].token => u = v
      BY <2>3, <2>4, <3>1 DEF IInv, Issuing
    <3> QED BY <1>1, <3>2, <3>3 DEF Issuing
  <2>8. Finding' BY <1>1, <2>3, <2>4 DEF IInv, Finding
  <2>9. Issued' /\ Stored' /\ Lasting'
    <3>1. revoked \subseteq Tokens BY Sizes, <1>0
    <3> QED BY <1>1, <1>2, <2>1, <3>1 DEF IInv, Issued, Stored, Lasting, Young
  <2>10. Answered' BY <2>1 DEF IInv, Answered, DeadStaysDead
  <2> QED BY <2>5, <2>7, <2>8, <2>9, <2>10 DEF IInv
<1> QED BY <1>4, <1>5

(* The row that Issue stores outlasts the claims in it, up to a millisecond. *)
LEMMA StoredRow ==
    ASSUME NEW now \in Nat, NEW ttl \in Int, ttl > 0, NEW e \in Nat, NEW row,
           e * Second <= now + ttl
    PROVE  LET w == ServerTime(now) + redisTTLMillis(ttl)
           IN /\ Set(row, e, ttl, now) = Effect(Row(e, w), "ok", 0)
              /\ w \in Nat /\ w # 0 /\ e * Second < (w + 2) * Milli
<1> DEFINE a == ServerTime(now)
           b == redisTTLMillis(ttl)
<1>1. a \in Nat /\ b \in Nat /\ b > 0 BY MillisFacts
<1>2. Set(row, e, ttl, now) = Effect(Row(e, a + b), "ok", 0) BY <1>1 DEF Set, Expiry
<1>3. Milli \in Nat \ {0} /\ Second \in Nat BY MilliAssumption, SecondAssumption
<1>4. now < (a + 1) * Milli BY <1>3, DivFacts DEF ServerTime
<1>5. ttl < (b + 1) * Milli
  <2>1. ttl < ((ttl \div Milli) + 1) * Milli /\ ttl \div Milli \in Nat BY <1>3, DivFacts
  <2>2. CASE ttl \div Milli = 0
    <3>1. b = 1 /\ ttl < Milli BY <1>3, <2>1, <2>2 DEF redisTTLMillis
    <3> QED BY <1>3, <3>1
  <2>3. CASE ttl \div Milli # 0 BY <2>1, <2>3 DEF redisTTLMillis
  <2> QED BY <2>2, <2>3
<1> HIDE DEF a, b
<1>6. (a + 1) * Milli + (b + 1) * Milli = (a + b + 2) * Milli BY <1>1, <1>3
<1>7. /\ (a + 1) * Milli \in Nat /\ (b + 1) * Milli \in Nat /\ (a + b + 2) * Milli \in Nat
      /\ e * Second \in Nat
  BY <1>1, <1>3
<1>8. e * Second < (a + b + 2) * Milli BY <1>4, <1>5, <1>6, <1>7
<1> QED BY <1>1, <1>2, <1>8 DEF a, b

(* The claims reach the store. *)
LEMMA IssueStoreStep ==
    ASSUME IInv, NEW t \in Threads, IssueStore(t)
    PROVE  IInv'
<1>0. /\ TypeOK /\ clock \in Nat /\ rows \in [ServerKeys -> Rows]
      /\ call \in [Threads -> CallStates] /\ expires \in [Tokens -> Nat]
      /\ revoked \subseteq revoking /\ revoking \subseteq Tokens
  BY Sizes DEF IInv
<1>a. call[t].token \in Tokens /\ call[t].expires \in Nat
  BY <1>0, Sizes DEF IssueStore, IInv, Issuing, CallStates
<1>b. PICK x \in Tokens, e \in Nat : x = call[t].token /\ e = call[t].expires
  BY <1>a
<1>1. /\ call[t].at = "store" /\ x \in drawn /\ x \in Tokens /\ expires[x] = 0
      /\ e \in Nat /\ e # 0 /\ call[t].ttl \in Int /\ call[t].ttl > 0
      /\ e * Second <= clock + call[t].ttl
      /\ TokenRow(x) \in Rows
  BY <1>0, <1>b, Sizes DEF IssueStore, IInv, Issuing, TypeOK, CallStates
<1>2. PICK w \in Nat :
      /\ Set(TokenRow(x), e, call[t].ttl, clock) = Effect(Row(e, w), "ok", 0)
      /\ w \in Nat /\ w # 0 /\ e * Second < (w + 2) * Milli
  BY <1>0, <1>1, StoredRow
<1>3. PICK o \in Outcomes(TokenRow(x), Set(TokenRow(x), e, call[t].ttl, clock)) :
        /\ rows' = [rows EXCEPT ![TokenKey(x)] = o.row]
        /\ Return(t, o.out, x, FALSE)
        /\ expires' = IF o.out = "ok" THEN [expires EXCEPT ![x] = e] ELSE expires
  BY <1>b DEF IssueStore, TokenRow
<1>4. UNCHANGED <<clock, reply, drawn, revoking, revoked>> BY DEF IssueStore
<1>5. /\ Row(e, w) \in Rows /\ Row(e, w).present
      /\ Row(e, w).value = e /\ Row(e, w).when = w
  BY <1>1, <1>2 DEF Row, Rows
<1>6. /\ o.row = TokenRow(x) \/ o.row = Row(e, w)
      /\ o.row \in Rows
      /\ o.out \in {"ok", "lost"}
      /\ o.out = "ok" => o.row = Row(e, w)
  <2> HIDE DEF Row, Rows
  <2> QED BY <1>1, <1>2, <1>3, <1>5 DEF Outcomes, Effect
<1>7. /\ rows' \in [ServerKeys -> Rows] /\ TokenRow(x)' = o.row
      /\ \A y \in Tokens \ {x} : TokenRow(y)' = TokenRow(y)
  <2>1. PICK r \in Rows : r = o.row BY <1>6
  <2>2. rows' = [rows EXCEPT ![TokenKey(x)] = r] BY <1>3, <2>1
  <2> QED BY <1>0, <1>1, <2>1, <2>2, SetRow
<1>8. /\ call' \in [Threads -> CallStates] /\ call'[t].at = "idle"
      /\ \A u \in Threads \ {t} : call'[u] = call[u]
      /\ ret'.out = o.out
  BY <1>0, <1>3, ReturnFacts
<1>9. /\ expires' \in [Tokens -> Nat]
      /\ expires'[x] = IF o.out = "ok" THEN e ELSE 0
      /\ \A y \in Tokens \ {x} : expires'[y] = expires[y]
  BY <1>0, <1>1, <1>3
<1>10. TypeOK'
  <2>1. \A u \in Threads : call'[u].at = "store" => call'[u].ttl > 0
    BY <1>0, <1>8 DEF TypeOK
  <2> QED BY <1>0, <1>4, <1>6, <1>7, <1>8, <1>9, <2>1 DEF TypeOK, CallStates
<1>11. Issuing'
  <2>1. \A u \in Threads : call'[u].at = "store" => u # t /\ call[u].token # x
                                                  /\ call[u].token \in Tokens
    BY <1>0, <1>1, <1>b, <1>8, Sizes DEF IInv, Issuing
  <2> QED BY <1>4, <1>8, <1>9, <2>1 DEF IInv, Issuing
<1>12. Finding'
  <2>1. \A u \in Threads : call'[u].at \in {"check", "drop"} =>
           u # t /\ call[u].token # x /\ call[u].token \in Tokens
    BY <1>1, <1>8 DEF IInv, Finding
  <2> QED BY <1>4, <1>8, <1>9, <2>1 DEF IInv, Finding
<1>13. x \notin revoking BY <1>1 DEF IInv, Issued
<1>14. Issued' BY <1>0, <1>1, <1>4, <1>9, <1>13 DEF IInv, Issued
<1>15. Stored'
  <2>1. \A y \in Tokens : TokenRow(y)'.present =>
           /\ TokenRow(y)'.when # 0
           /\ expires'[y] # 0 => /\ TokenRow(y)'.value = expires'[y]
                                 /\ expires'[y] * Second < (TokenRow(y)'.when + 2) * Milli
    <3>1. ASSUME NEW y \in Tokens \ {x}, TokenRow(y)'.present
          PROVE  /\ TokenRow(y)'.when # 0
                 /\ expires'[y] # 0 => /\ TokenRow(y)'.value = expires'[y]
                                       /\ expires'[y] * Second < (TokenRow(y)'.when + 2) * Milli
      BY <1>7, <1>9, <3>1 DEF IInv, Stored
    <3>2. TokenRow(x)'.present => /\ TokenRow(x)'.when # 0
                                  /\ expires'[x] # 0 =>
                                       /\ TokenRow(x)'.value = expires'[x]
                                       /\ expires'[x] * Second < (TokenRow(x)'.when + 2) * Milli
      BY <1>1, <1>2, <1>5, <1>6, <1>7, <1>9 DEF IInv, Stored
    <3> QED BY <3>1, <3>2
  <2>2. \A y \in revoked' : ~TokenRow(y)'.present
    BY <1>0, <1>4, <1>7, <1>13 DEF IInv, Stored
  <2> QED BY <2>1, <2>2 DEF Stored
<1>16. Lasting'
  <2> SUFFICES ASSUME NEW y \in Tokens, Young(y)' PROVE TokenRow(y)'.present
    BY DEF Lasting
  <2>1. CASE y # x BY <1>4, <1>7, <1>9, <2>1 DEF IInv, Lasting, Young
  <2>2. CASE y = x
    <3>1. expires'[x] # 0
      <4>1. expires'[x] * Second - Milli >= clock BY <1>4, <2>2, <1>0, <1>9, MilliAssumption, SecondAssumption DEF Young
      <4>2. clock > 0 /\ Milli \in Nat /\ Second \in Nat BY <1>0, Sizes
      <4> QED BY <1>0, <4>1, <4>2
    <3> QED BY <1>5, <1>6, <1>7, <1>9, <2>2, <3>1
  <2> QED BY <2>1, <2>2
<1>17. Answered' BY <1>6, <1>8 DEF Answered, DeadStaysDead
<1> QED BY <1>10, <1>11, <1>12, <1>14, <1>15, <1>16, <1>17 DEF IInv

(* Find reads the row: the claims in it are the token's, and a revoked token  *)
(* has none.                                                                  *)
LEMMA FindStep ==
    ASSUME IInv, NEW t \in Threads, NEW x \in Tokens, Find(t, x)
    PROVE  IInv'
<1>0. /\ TypeOK /\ rows \in [ServerKeys -> Rows] /\ call \in [Threads -> CallStates]
      /\ expires \in [Tokens -> Nat] /\ TokenRow(x) \in Rows
      /\ clock \in Nat /\ Second \in Nat
  BY Sizes DEF IInv
<1>1. /\ call[t].at = "idle" /\ expires[x] # 0
      /\ UNCHANGED <<clock, expires, reply, drawn, revoking, revoked>>
  BY DEF Find
<1>2. PICK o \in Outcomes(TokenRow(x), Get(TokenRow(x))) :
        /\ rows' = [rows EXCEPT ![TokenKey(x)] = o.row]
        /\ IF o.out = "ok"
           THEN /\ call' = [call EXCEPT ![t] = [Idle EXCEPT !.at = "check", !.token = x,
                                                    !.expires = o.value, !.dead = Dead(x)]]
                /\ UNCHANGED ret
           ELSE Return(t, o.out, x, Dead(x))
  BY DEF Find, TokenRow
<1>3. /\ o.row = TokenRow(x) /\ o.out \in {"ok", "miss", "lost"}
      /\ o.out = "ok" => TokenRow(x).present /\ o.value = TokenRow(x).value
      /\ o.out = "miss" => ~TokenRow(x).present
  BY <1>2 DEF Outcomes, Get, Effect
<1>4. rows' \in [ServerKeys -> Rows] /\ \A y \in Tokens : TokenRow(y)' = TokenRow(y)
  BY <1>0, <1>2, <1>3, SetRow
<1>5. Issued' /\ Stored' /\ Lasting' BY <1>1, <1>4, TokensKept
<1>6. CASE o.out = "ok"
  <2>1. /\ call' = [call EXCEPT ![t] = [Idle EXCEPT !.at = "check", !.token = x,
                                             !.expires = o.value, !.dead = Dead(x)]]
        /\ ret' = ret
    BY <1>2, <1>6
  <2>2. TokenRow(x).present /\ o.value = expires[x] BY <1>1, <1>3, <1>6 DEF IInv, Stored
  <2>3. x \notin revoked BY <2>2 DEF IInv, Stored
  <2>4. Dead(x) \in BOOLEAN /\ (Dead(x) => clock >= expires[x] * Second)
    BY <2>3 DEF Dead
  <2>5. PICK d \in BOOLEAN : d = Dead(x) BY <2>4
  <2>6. PICK c : c = [Idle EXCEPT !.at = "check", !.token = x, !.expires = expires[x],
                                  !.dead = d]
    OBVIOUS
  <2>7. /\ c \in CallStates /\ c.at = "check" /\ c.token = x /\ c.expires = expires[x]
        /\ c.dead = d
    <3>1. c = [at |-> "check", token |-> x, expires |-> expires[x], ttl |-> 0, dead |-> d]
      BY <2>6 DEF Idle
    <3>2. expires[x] \in Nat BY <1>0
    <3> QED BY <3>1, <3>2 DEF CallStates
  <2>8. /\ call' \in [Threads -> CallStates] /\ call'[t] = c
        /\ \A u \in Threads \ {t} : call'[u] = call[u]
    BY <1>0, <2>1, <2>2, <2>5, <2>6, <2>7
  <2>9. TypeOK'
    <3>1. \A u \in Threads : call'[u].at = "store" => call'[u].ttl > 0
      BY <1>0, <2>7, <2>8 DEF TypeOK
    <3> QED BY <1>0, <1>1, <1>4, <2>1, <2>8, <3>1 DEF TypeOK, CallStates
  <2>10. Issuing' BY <1>1, <2>7, <2>8 DEF IInv, Issuing
  <2>11. Finding' BY <1>1, <2>4, <2>5, <2>7, <2>8 DEF IInv, Finding
  <2>12. Answered' BY <2>1 DEF IInv, Answered, DeadStaysDead
  <2> QED BY <1>5, <2>9, <2>10, <2>11, <2>12 DEF IInv
<1>7. CASE o.out # "ok"
  <2>1. Return(t, o.out, x, Dead(x)) BY <1>2, <1>7
  <2>2. /\ call' \in [Threads -> CallStates] /\ call'[t].at = "idle"
        /\ \A u \in Threads \ {t} : call'[u] = call[u]
        /\ ret'.out = o.out /\ (ret'.young => Young(x))
    BY <1>0, <2>1, ReturnFacts
  <2>3. TypeOK'
    <3>1. \A u \in Threads : call'[u].at = "store" => call'[u].ttl > 0
      BY <1>0, <2>2 DEF TypeOK
    <3> QED BY <1>0, <1>1, <1>3, <1>4, <2>2, <3>1 DEF TypeOK, CallStates
  <2>4. Issuing' /\ Finding' BY <1>1, <2>2 DEF IInv, Issuing, Finding
  <2>5. Answered' BY <1>3, <2>2 DEF IInv, Lasting, Answered, DeadStaysDead
  <2> QED BY <1>5, <2>3, <2>4, <2>5 DEF IInv
<1> QED BY <1>6, <1>7

(* Find compares: claims that a dead token still had are over by now. *)
LEMMA FindCheckStep ==
    ASSUME IInv, NEW t \in Threads, FindCheck(t)
    PROVE  IInv'
<1>0. /\ TypeOK /\ call \in [Threads -> CallStates]
      /\ clock \in Nat /\ Second \in Nat \ {0}
  BY Sizes DEF IInv
<1>1. /\ call[t].at = "check" /\ call[t].expires \in Nat /\ call[t].expires # 0
      /\ call[t].token \in Tokens
      /\ UNCHANGED <<clock, rows, expires, reply, drawn, revoking, revoked>>
      /\ \A y \in Tokens : TokenRow(y)' = TokenRow(y)
  BY <1>0 DEF FindCheck, IInv, Finding, CallStates, TokenRow
<1>2. Over(call[t].expires) <=> clock >= call[t].expires * Second
  BY <1>0, <1>1, DivFacts DEF Over, Unix
<1>3. Issued' /\ Stored' /\ Lasting' BY <1>1, TokensKept
<1>4. CASE Over(call[t].expires)
  <2>1. call' = [call EXCEPT ![t].at = "drop"] /\ ret' = ret BY <1>4 DEF FindCheck
  <2>2. /\ call' \in [Threads -> CallStates] /\ call'[t].at = "drop"
        /\ call'[t].token = call[t].token /\ call'[t].expires = call[t].expires
        /\ \A u \in Threads \ {t} : call'[u] = call[u]
    BY <1>0, <2>1 DEF CallStates
  <2>3. TypeOK'
    <3>1. \A u \in Threads : call'[u].at = "store" => call'[u].ttl > 0
      BY <1>0, <2>2 DEF TypeOK
    <3> QED BY <1>0, <1>1, <2>1, <2>2, <3>1 DEF TypeOK, CallStates
  <2>4. Issuing' BY <1>1, <2>2 DEF IInv, Issuing
  <2>5. Finding' BY <1>1, <1>2, <1>4, <2>2 DEF IInv, Finding
  <2>6. Answered' BY <2>1 DEF IInv, Answered, DeadStaysDead
  <2> QED BY <1>3, <2>3, <2>4, <2>5, <2>6 DEF IInv
<1>5. CASE ~Over(call[t].expires)
  <2>1. Return(t, "found", call[t].token, call[t].dead) BY <1>5 DEF FindCheck
  <2>2. /\ call' \in [Threads -> CallStates] /\ call'[t].at = "idle"
        /\ \A u \in Threads \ {t} : call'[u] = call[u]
        /\ ret'.out = "found" /\ ret'.dead = call[t].dead
    BY <1>0, <2>1, ReturnFacts
  <2>3. TypeOK'
    <3>1. \A u \in Threads : call'[u].at = "store" => call'[u].ttl > 0
      BY <1>0, <2>2 DEF TypeOK
    <3> QED BY <1>0, <1>1, <2>2, <3>1 DEF TypeOK, CallStates
  <2>4. Issuing' /\ Finding' BY <1>1, <2>2 DEF IInv, Issuing, Finding
  <2>5. ~call[t].dead BY <1>1, <1>2, <1>5 DEF IInv, Finding
  <2>6. Answered' BY <2>2, <2>5 DEF Answered, DeadStaysDead
  <2> QED BY <1>3, <2>3, <2>4, <2>6 DEF IInv
<1> QED BY <1>4, <1>5

(* Find deletes, and Revoke deletes: the row is gone or, if the command was   *)
(* lost, as it was.                                                           *)
LEMMA DeleteOutcome ==
    ASSUME TypeOK, NEW x \in Tokens, NEW o \in Outcomes(TokenRow(x), Delete(TokenRow(x))),
           rows' = [rows EXCEPT ![TokenKey(x)] = o.row]
    PROVE  /\ rows' \in [ServerKeys -> Rows]
           /\ TokenRow(x)' = TokenRow(x) \/ ~TokenRow(x)'.present
           /\ \A y \in Tokens \ {x} : TokenRow(y)' = TokenRow(y)
           /\ o.out \in {"ok", "lost"}
           /\ o.out = "ok" => ~TokenRow(x)'.present
<1>1. NoRow \in Rows /\ ~NoRow.present BY DEF NoRow, Rows
<1>2. rows \in [ServerKeys -> Rows] /\ TokenRow(x) \in Rows BY Sizes
<1> HIDE DEF NoRow
<1>3. /\ o.row = TokenRow(x) \/ o.row = NoRow
      /\ o.out \in {"ok", "lost"} /\ (o.out = "ok" => o.row = NoRow)
  BY DEF Outcomes, Delete, Effect
<1>4. PICK r \in Rows : r = o.row BY <1>1, <1>2, <1>3
<1>5. rows' = [rows EXCEPT ![TokenKey(x)] = r] BY <1>4
<1>6. /\ rows' \in [ServerKeys -> Rows] /\ TokenRow(x)' = r
      /\ \A y \in Tokens \ {x} : TokenRow(y)' = TokenRow(y)
  BY <1>2, <1>5, SetRow
<1> QED BY <1>1, <1>3, <1>4, <1>6

(* A token whose row goes away keeps what is said of the others, and of       *)
(* itself, unless it was young.                                               *)
LEMMA RowGone ==
    ASSUME IInv, UNCHANGED <<clock, expires, drawn>>, NEW x \in Tokens, ~Young(x)',
           TokenRow(x)' = TokenRow(x) \/ ~TokenRow(x)'.present,
           \A y \in Tokens \ {x} : TokenRow(y)' = TokenRow(y),
           revoking \subseteq revoking', revoking' \subseteq revoking \union {x},
           expires[x] # 0,
           revoked' \subseteq revoked \union {x}, x \in revoked' => ~TokenRow(x)'.present
    PROVE  Issued' /\ Stored' /\ Lasting'
<1>1. revoked \subseteq Tokens BY Sizes DEF IInv
<1>2. Issued' BY DEF IInv, Issued
<1>3. Stored'
  <2>1. \A y \in Tokens : TokenRow(y)'.present => TokenRow(y)' = TokenRow(y)
    OBVIOUS
  <2>2. \A y \in revoked' : ~TokenRow(y)'.present
    BY <1>1, <2>1 DEF IInv, Stored
  <2> QED BY <2>1, <2>2 DEF IInv, Stored
<1>4. Lasting'
  <2> SUFFICES ASSUME NEW y \in Tokens, Young(y)' PROVE TokenRow(y)'.present
    BY DEF Lasting
  <2>1. y # x OBVIOUS
  <2>2. Young(y) BY DEF Young
  <2> QED BY <2>1, <2>2 DEF IInv, Lasting
<1> QED BY <1>2, <1>3, <1>4

(* Find drops a token that has expired. *)
LEMMA FindDropStep ==
    ASSUME IInv, NEW t \in Threads, FindDrop(t)
    PROVE  IInv'
<1>0. /\ TypeOK /\ call \in [Threads -> CallStates] BY Sizes DEF IInv
<1>1. /\ call[t].at = "drop" /\ call[t].token \in Tokens
      /\ expires[call[t].token] # 0
      /\ clock >= expires[call[t].token] * Second
      /\ UNCHANGED <<clock, expires, reply, drawn, revoking, revoked>>
  BY DEF FindDrop, IInv, Finding
<1>2. PICK x \in Tokens : x = call[t].token BY <1>1
<1>3. PICK o \in Outcomes(TokenRow(x), Delete(TokenRow(x))) :
        /\ rows' = [rows EXCEPT ![TokenKey(x)] = o.row]
        /\ Return(t, "expired", x, call[t].dead)
  BY <1>2 DEF FindDrop, TokenRow
<1>4. ~Young(x) BY <1>0, <1>1, <1>2, YoungFacts
<1>5. /\ rows' \in [ServerKeys -> Rows]
      /\ TokenRow(x)' = TokenRow(x) \/ ~TokenRow(x)'.present
      /\ \A y \in Tokens \ {x} : TokenRow(y)' = TokenRow(y)
  BY <1>0, <1>3, DeleteOutcome
<1>6. /\ call' \in [Threads -> CallStates] /\ call'[t].at = "idle"
      /\ \A u \in Threads \ {t} : call'[u] = call[u]
      /\ ret'.out = "expired" /\ ~ret'.young
  BY <1>0, <1>3, <1>4, ReturnFacts
<1>7. TypeOK'
  <2>1. \A u \in Threads : call'[u].at = "store" => call'[u].ttl > 0
    BY <1>0, <1>6 DEF TypeOK
  <2> QED BY <1>0, <1>1, <1>5, <1>6, <2>1 DEF TypeOK, CallStates
<1>8. Issued' /\ Stored' /\ Lasting'
  <2>1. ~Young(x)' BY <1>1, <1>4 DEF Young
  <2>2. x \in revoked' => ~TokenRow(x)'.present BY <1>1, <1>5 DEF IInv, Stored
  <2> QED BY <1>1, <1>2, <1>5, <2>1, <2>2, RowGone
<1>9. Issuing' /\ Finding' BY <1>1, <1>6 DEF IInv, Issuing, Finding
<1>10. Answered' BY <1>6 DEF Answered, DeadStaysDead
<1> QED BY <1>7, <1>8, <1>9, <1>10 DEF IInv

(* Revoke: a token for which it returned nil has no row any more. *)
LEMMA RevokeStep ==
    ASSUME IInv, NEW t \in Threads, NEW x \in Tokens, Revoke(t, x)
    PROVE  IInv'
<1>0. /\ TypeOK /\ call \in [Threads -> CallStates] BY Sizes DEF IInv
<1>1. call[t].at = "idle" /\ expires[x] # 0 /\ UNCHANGED <<clock, expires, reply, drawn>>
  BY DEF Revoke
<1>2. PICK o \in Outcomes(TokenRow(x), Delete(TokenRow(x))) :
        /\ rows' = [rows EXCEPT ![TokenKey(x)] = o.row]
        /\ Return(t, o.out, x, FALSE)
        /\ revoking' = revoking \union {x}
        /\ revoked' = IF Acknowledged(o.out) THEN revoked \union {x} ELSE revoked
  BY DEF Revoke, TokenRow
<1>3. /\ rows' \in [ServerKeys -> Rows]
      /\ TokenRow(x)' = TokenRow(x) \/ ~TokenRow(x)'.present
      /\ \A y \in Tokens \ {x} : TokenRow(y)' = TokenRow(y)
      /\ o.out \in {"ok", "lost"}
      /\ o.out = "ok" => ~TokenRow(x)'.present
  BY <1>0, <1>2, DeleteOutcome
<1>4. /\ call' \in [Threads -> CallStates] /\ call'[t].at = "idle"
      /\ \A u \in Threads \ {t} : call'[u] = call[u]
      /\ ret'.out = o.out
  BY <1>0, <1>2, ReturnFacts
<1>5. x \in drawn BY <1>1 DEF IInv, Issued
<1>6. TypeOK'
  <2>1. \A u \in Threads : call'[u].at = "store" => call'[u].ttl > 0
    BY <1>0, <1>4 DEF TypeOK
  <2>2. revoked' \subseteq revoking' /\ revoking' \subseteq drawn'
    BY <1>0, <1>1, <1>2, <1>5 DEF TypeOK
  <2> QED BY <1>0, <1>1, <1>3, <1>4, <2>1, <2>2 DEF TypeOK, CallStates
<1>7. Issued' /\ Stored' /\ Lasting'
  <2>1. ~Young(x)' BY <1>2 DEF Young
  <2>2. x \in revoked' => ~TokenRow(x)'.present
    BY <1>2, <1>3 DEF IInv, Stored, Acknowledged
  <2>3. revoked' \subseteq revoked \union {x} BY <1>2
  <2> QED BY <1>1, <1>2, <1>3, <2>1, <2>2, <2>3, RowGone
<1>8. Issuing' /\ Finding' BY <1>1, <1>4 DEF IInv, Issuing, Finding
<1>9. Answered' BY <1>3, <1>4 DEF Answered, DeadStaysDead
<1> QED BY <1>6, <1>7, <1>8, <1>9 DEF IInv

(* Every step of the service, of its clients and of time keeps the invariant. *)
LEMMA IInvStep == IInv /\ [Next]_vars => IInv'
<1> SUFFICES ASSUME IInv, [Next]_vars PROVE IInv'
  OBVIOUS
<1>1. CASE UNCHANGED vars
  <2>1. UNCHANGED <<clock, rows, call, expires, ret, reply, drawn, revoking, revoked>>
    BY <1>1 DEF vars
  <2>2. Issued' /\ Stored' /\ Lasting' BY <2>1, TokensKept DEF TokenRow
  <2>3. TypeOK' /\ Issuing' /\ Finding' /\ Answered'
    BY <2>1 DEF IInv, TypeOK, Issuing, Finding, Answered, DeadStaysDead
  <2> QED BY <2>2, <2>3 DEF IInv
<1>2. ASSUME NEW c \in Clients, NEW k \in Keys,
             \/ ClientGet(c, k) \/ ClientExists(c, k) \/ ClientTTL(c, k)
             \/ ClientTake(c, k) \/ ClientDelete(c, k)
             \/ \E v \in Inputs, ttl \in TTLs : ClientSet(c, k, v, ttl)
             \/ \E d \in Deltas, ttl \in TTLs : ClientIncrement(c, k, d, ttl)
      PROVE  IInv'
  <2>1. rows[ClientKey(k)] \in Rows /\ clock \in Nat BY Sizes, KeyFacts DEF IInv
  <2>2. /\ \A v \in Inputs : v \in Int \union {Text}
        /\ \A d \in Deltas : d \in Int
        /\ \A ttl \in TTLs : ttl \in Int
    BY TokenAssumption, RangeAssumption DEF Values, Int64
  <2>3. PICK op \in {"Get", "Exists", "TTL", "Set", "Take", "Delete", "Increment"},
             e \in Effects : ClientCall(c, k, op, e)
    BY <1>2, <2>1, <2>2, EffectTypes
    DEF ClientGet, ClientExists, ClientTTL, ClientTake, ClientDelete, ClientSet, ClientIncrement
  <2> QED BY <2>3, ClientStep
<1> QED
  BY <1>1, <1>2, TickStep, IssueStep, IssueStoreStep, FindStep, FindCheckStep, FindDropStep,
     RevokeStep
  DEF Next

(* The invariant of the token service. *)
THEOREM IInvHolds == Spec => []IInv
BY IInvInit, IInvStep, PTL DEF Spec

(* Types, and no token reaches the store with a ttl that is over. *)
THEOREM TypeOKHolds == Spec => []TypeOK
<1>1. IInv => TypeOK BY DEF IInv
<1> QED BY <1>1, IInvHolds, PTL

(* Find never returns the claims of a token that was dead when it began.      *)
THEOREM DeadStaysDeadHolds == Spec => []DeadStaysDead
<1>1. IInv => DeadStaysDead BY DEF IInv, Answered
<1> QED BY <1>1, IInvHolds, PTL

(* Until a millisecond before its expiry a token that nobody asked to revoke  *)
(* is found, whatever the ratio of the three clocks; no row stays for ever.   *)
THEOREM TokenLifetimeHolds == Spec => []TokenLifetime
<1>1. IInv => TokenLifetime
  BY DEF IInv, Answered, Stored, Lasting, TokenRow, TokenLifetime
<1> QED BY <1>1, IInvHolds, PTL
-----------------------------------------------------------------------------
(* cache.Redis implements the contract of cache.Cache.                        *)

(* Every set of numbers that is not empty has a least one. *)
LEMMA LeastNat ==
    ASSUME NEW T, T \subseteq Nat, T # {}
    PROVE  \E x \in T : \A y \in T : x <= y
<1>1. PICK R : R = OpToRel(<, Nat) OBVIOUS
<1>2. \A x, y \in Nat : x < y => <<x, y>> \in R BY <1>1 DEF OpToRel
<1>3. IsWellFoundedOn(R, Nat) BY <1>1, NatLessThanWellFounded
<1>4. PICK x \in T : \A y \in T : ~(<<y, x>> \in R) BY <1>3, WFMin
<1>5. ASSUME NEW y \in T PROVE x <= y
  <2>1. x \in Nat /\ y \in Nat OBVIOUS
  <2>2. ~(y < x) BY <1>2, <1>4, <2>1
  <2> QED BY <2>1, <2>2
<1> QED BY <1>5

(* Every bounded one has a greatest. *)
LEMMA GreatestNat ==
    ASSUME NEW N \in Nat, NEW T, T \subseteq 0 .. N, T # {}
    PROVE  \E x \in T : \A y \in T : y <= x
<1>1. PICK L : L = {n \in 0 .. N : N - n \in T} OBVIOUS
<1>2. \A y \in T : N - y \in L BY <1>1
<1>3. L \subseteq Nat /\ L # {}
  <2>1. L \subseteq Nat BY <1>1
  <2>2. PICK y \in T : TRUE OBVIOUS
  <2> QED BY <1>2, <2>1, <2>2
<1>4. PICK m \in L : \A n \in L : m <= n BY <1>3, LeastNat
<1>5. N - m \in T /\ m \in 0 .. N BY <1>1
<1>6. ASSUME NEW y \in T PROVE y <= N - m
  <2>1. y \in 0 .. N /\ N - y \in L BY <1>2
  <2>2. m <= N - y BY <1>4, <2>1
  <2> QED BY <1>5, <2>1, <2>2
<1> QED BY <1>5, <1>6

(* A prefix without its empty segments at the end is a prefix: there is a      *)
(* last segment that is not empty, or none.                                   *)
LEMMA TrimmedIsSeq ==
    ASSUME NEW p \in Seq(STRING)
    PROVE  Trimmed(p) \in Seq(STRING)
<1>1. PICK N \in Nat : N = Len(p) BY LenProperties
<1>2. PICK T : T = {n \in 0 .. N : n = 0 \/ p[n] # ""} OBVIOUS
<1>3. T \subseteq 0 .. N /\ 0 \in T
  <2>1. 0 \in 0 .. N OBVIOUS
  <2> QED BY <1>2, <2>1
<1>4. PICK n \in T : \A y \in T : y <= n BY <1>3, GreatestNat
<1>5. n \in 0 .. N /\ (n = 0 \/ p[n] # "") BY <1>2
<1>6. ASSUME NEW i \in n + 1 .. N PROVE p[i] = ""
  <2>0. n \in 0 .. N BY <1>5
  <2>1. i \in 0 .. N /\ i # 0 /\ ~(i <= n) BY <2>0
  <2>2. i \notin T BY <1>4, <2>1
  <2> QED BY <1>2, <2>1, <2>2
<1>7. PICK m \in 0 .. N : Trimmed(p) = SubSeq(p, 1, m) BY <1>1, <1>5, <1>6 DEF Trimmed
<1>8. \A i \in 1 .. m : p[i] \in STRING BY <1>1, ElementOfSeq
<1> QED BY <1>1, <1>7, <1>8, SubSeqProperties

(* Two keys behind the same prefix differ where the keys do. *)
LEMMA PrefixCancels ==
    ASSUME NEW p \in Seq(STRING), NEW k \in Seq(STRING), NEW l \in Seq(STRING),
           p \o k = p \o l
    PROVE  k = l
<1>1. Len(k) = Len(l) /\ Len(p) \in Nat /\ Len(k) \in Nat
  BY Len(p \o k) = Len(p) + Len(k), Len(p \o l) = Len(p) + Len(l), LenProperties, ConcatProperties
<1>2. ASSUME NEW i \in 1 .. Len(k) PROVE k[i] = l[i]
  <2>1. (p \o k)[Len(p) + i] = k[i] BY <1>1, ConcatProperties
  <2>2. (p \o l)[Len(p) + i] = l[i] BY <1>1, ConcatProperties
  <2> QED BY <2>1, <2>2
<1> QED BY <1>1, <1>2, SeqEqual

(* Different keys of the clients are different keys of the server. *)
LEMMA ClientKeysApart ==
    /\ \A k \in Keys : ClientKey(k) \in ServerKeys
    /\ \A k, l \in Keys : ClientKey(k) = ClientKey(l) => k = l
<1>1. Trimmed(Prefix) \in Seq(STRING) BY KeyAssumption, TrimmedIsSeq
<1>2. \A k \in Keys : k \in Seq(STRING) BY KeyAssumption
<1>3. \A k \in Keys : ClientKey(k) = Trimmed(Prefix) \o k BY DEF ClientKey, ClientKeys, Key
<1>4. ASSUME NEW k \in Keys, NEW l \in Keys, ClientKey(k) = ClientKey(l) PROVE k = l
  BY <1>1, <1>2, <1>3, <1>4, PrefixCancels
<1> QED BY <1>4, KeyFacts

(* Only rows the server still shows are present, and a missing row has one    *)
(* form.                                                                      *)
Proper(row, now) == /\ row.present \/ row = NoRow
                    /\ row.present /\ row.when # 0 => ServerTime(now) <= row.when

ClientRows == \A k \in Keys : Proper(rows[ClientKey(k)], clock)

Now == ContractTime(ServerTime(clock))

(* The contract's arithmetic is the drivers'. *)
LEMMA SameArithmetic ==
    /\ \A e, now : Contract!Expired(e, now) = Expired(e, now)
    /\ \A n : Contract!Wrap(n) = Wrap(n)
BY DEF Contract!Expired, Expired, Contract!Wrap, Wrap

(* A client's call leaves a row under its key and answers with r. *)
Answers(c, k, row, r) == /\ rows' = [rows EXCEPT ![ClientKey(k)] = row]
                         /\ reply' = [reply EXCEPT ![c] = r]
                         /\ clock' = clock

(* What such a call shows. *)
LEMMA ShownStep ==
    ASSUME TypeOK, NEW c \in Clients, NEW k \in Keys, NEW row \in Rows, NEW r,
           Answers(c, k, row, r)
    PROVE  /\ ContractStore' = [ContractStore EXCEPT ![k] = ContractEntry(row)]
           /\ ContractReplies' = [ContractReplies EXCEPT ![c] = ContractReply(r)]
           /\ Now' = Now
           /\ ClientRows /\ Proper(row, clock) => ClientRows'
<1> USE DEF Answers
<1>1. rows \in [ServerKeys -> Rows] /\ DOMAIN reply = Clients BY DEF TypeOK
<1>2. /\ rows'[ClientKey(k)] = row
      /\ \A l \in Keys \ {k} : rows'[ClientKey(l)] = rows[ClientKey(l)]
  BY <1>1, ClientKeysApart
<1>3. /\ reply'[c] = r
      /\ \A d \in Clients \ {c} : reply'[d] = reply[d]
  BY <1>1
<1>4. ContractStore' = [ContractStore EXCEPT ![k] = ContractEntry(row)]
  <2>1. ContractStore' = [l \in Keys |-> ContractEntry(rows'[ClientKey(l)])]
    BY DEF ContractStore
  <2>2. \A l \in Keys : ContractStore'[l] = IF l = k THEN ContractEntry(row) ELSE ContractStore[l]
    BY <1>2, <2>1 DEF ContractStore
  <2> QED BY <2>1, <2>2 DEF ContractStore
<1>5. ContractReplies' = [ContractReplies EXCEPT ![c] = ContractReply(r)]
  <2>1. ContractReplies' = [d \in Clients |-> ContractReply(reply'[d])]
    BY DEF ContractReplies
  <2>2. \A d \in Clients :
          ContractReplies'[d] = IF d = c THEN ContractReply(r) ELSE ContractReplies[d]
    BY <1>3, <2>1 DEF ContractReplies
  <2> QED BY <2>1, <2>2 DEF ContractReplies
<1>6. ASSUME ClientRows, Proper(row, clock) PROVE ClientRows'
  BY <1>2, <1>6 DEF ClientRows
<1>7. Now' = Now BY DEF Now
<1> QED BY <1>4, <1>5, <1>6, <1>7

(* The entry of a row: nothing, or something that has not expired. *)
LEMMA EntryFacts ==
    ASSUME NEW row \in Rows, NEW now \in Nat, Proper(row, now)
    PROVE  /\ ~row.present => ContractEntry(row) = Contract!Gone
           /\ row.present =>
                /\ ContractEntry(row) = Contract!Entry(row.value, ContractEntry(row).expiresAt)
                /\ ~Contract!Expired(ContractEntry(row).expiresAt, ContractTime(ServerTime(now)))
           /\ ContractEntry(row).present = row.present
           /\ ContractEntry(row).value = row.value
<1>0. ContractEntry(row).present = row.present /\ ContractEntry(row).value = row.value
  BY DEF ContractEntry
<1>1. CASE ~row.present
  <2>1. row = NoRow BY <1>1 DEF Proper
  <2>2. ContractEntry(NoRow) = Contract!Gone BY DEF NoRow, ContractEntry, Contract!Gone
  <2> QED BY <1>0, <1>1, <2>1, <2>2
<1>2. CASE row.present
  <2>1. ServerTime(now) \in Nat /\ ServerTime(Start) \in Nat /\ row.when \in Nat
    BY MillisFacts, SecondAssumption DEF Start, Rows
  <2>2. ContractEntry(row).expiresAt = IF row.when = 0 THEN 0 ELSE ContractTime(row.when) + 1
    BY DEF ContractEntry
  <2>3. row.when # 0 => ContractTime(row.when) + 1 > ContractTime(ServerTime(now))
    BY <1>2, <2>1 DEF Proper, ContractTime
  <2>4. ContractTime(row.when) + 1 \in Int /\ ContractTime(ServerTime(now)) \in Int
    BY <2>1 DEF ContractTime
  <2>5. ~Expired(ContractEntry(row).expiresAt, ContractTime(ServerTime(now)))
    BY <2>2, <2>3, <2>4 DEF Expired
  <2>6. ContractEntry(row) = Contract!Entry(row.value, ContractEntry(row).expiresAt)
    BY <1>2, <2>2 DEF ContractEntry, Contract!Entry
  <2> QED BY <1>0, <1>2, <2>5, <2>6, SameArithmetic
<1> QED BY <1>1, <1>2

(* A call that promises nothing about its answer leaves an entry or none. *)
LEMMA QuietCall ==
    ASSUME TypeOK, ClientRows, NEW c \in Clients, NEW k \in Keys, NEW row \in Rows, NEW r,
           Answers(c, k, row, r), Proper(row, clock), ContractReply(r) = Contract!Quiet
    PROVE  Contract!Write(c, k) \/ Contract!Remove(c, k)
<1>1. /\ ContractStore' = [ContractStore EXCEPT ![k] = ContractEntry(row)]
      /\ ContractReplies' = [ContractReplies EXCEPT ![c] = Contract!Quiet]
  BY ShownStep
<1>2. clock \in Nat BY Sizes
<1>3. Now' = Now BY ShownStep
<1>4. CASE ~row.present
  <2>1. ContractEntry(row) = Contract!Gone BY <1>2, <1>4, EntryFacts
  <2> QED BY <1>1, <1>3, <2>1 DEF Contract!Remove, Contract!Answer, Now
<1>5. CASE row.present
  <2>1. PICK e : e = ContractEntry(row) OBVIOUS
  <2>2. e = Contract!Entry(row.value, e.expiresAt) /\ ~Contract!Expired(e.expiresAt, Now)
    BY <1>2, <1>5, <2>1, EntryFacts DEF Now
  <2>3. e.value = row.value BY <2>1 DEF ContractEntry
  <2>4. ContractStore'[k] = e BY <1>1, <2>1 DEF ContractStore
  <2>5. ContractStore' = [ContractStore EXCEPT ![k] =
            Contract!Entry(ContractStore'[k].value, ContractStore'[k].expiresAt)]
    BY <1>1, <2>1, <2>2, <2>3, <2>4
  <2> QED BY <1>1, <1>3, <2>2, <2>4, <2>5 DEF Contract!Write, Contract!Answer, Now
<1> QED BY <1>4, <1>5

(* Only what Take and Increment answer is promised, and only when the server's *)
(* answer arrives and is not an overflow.                                      *)
LEMMA ReplyFacts ==
    /\ \A op, out, v : op \notin {"Take", "Increment"} \/ out \in {"lost", "overflow"} =>
          ContractReply([op |-> op, out |-> out, value |-> v]) = Contract!Quiet
    /\ \A v : ContractReply([op |-> "Take", out |-> "ok", value |-> v])
                = Contract!Reply("Take", "ok", v)
    /\ \A v : ContractReply([op |-> "Take", out |-> "miss", value |-> v])
                = Contract!Reply("Take", "miss", 0)
    /\ \A v : ContractReply([op |-> "Increment", out |-> "ok", value |-> v])
                = Contract!Reply("Increment", "ok", v)
    /\ ContractReply([op |-> "Increment", out |-> "refused", value |-> 0])
         = Contract!Reply("Increment", "error", 0)
BY DEF ContractReply, Contract!Quiet, Contract!Reply

(* The commands leave rows that the server still shows. *)
LEMMA ProperEffects ==
    ASSUME NEW row \in Rows, NEW now \in Nat, Proper(row, now)
    PROVE  /\ Proper(Get(row).row, now) /\ Proper(Exists(row).row, now)
           /\ Proper(TTL(row, now).row, now)
           /\ Proper(Take(row).row, now) /\ Proper(Delete(row).row, now)
           /\ \A v \in Int \union {Text}, ttl \in Int : Proper(Set(row, v, ttl, now).row, now)
           /\ \A d \in Int, ttl \in Int : Proper(Increment(row, d, ttl, now).row, now)
<1>1. Proper(NoRow, now) BY DEF Proper, NoRow
<1>2. /\ Get(row).row = row /\ Exists(row).row = row /\ TTL(row, now).row = row
      /\ Take(row).row = NoRow /\ Delete(row).row = NoRow
  BY DEF Get, Exists, TTL, Take, Delete, Effect
<1>3. ASSUME NEW ttl \in Int
      PROVE  ServerTime(now) \in Nat /\ Expiry(now, redisTTLMillis(ttl)) >= ServerTime(now)
  BY MillisFacts DEF Expiry
<1>4. ASSUME NEW v \in Int \union {Text}, NEW ttl \in Int
      PROVE  Proper(Set(row, v, ttl, now).row, now)
  <2>1. /\ Proper(Row(v, 0), now)
        /\ Proper(Row(v, Expiry(now, redisTTLMillis(ttl))), now)
    BY <1>3 DEF Proper, Row
  <2>2. Set(row, v, ttl, now).row \in
          {row, Row(v, 0), Row(v, Expiry(now, redisTTLMillis(ttl)))}
    BY DEF Set, Effect
  <2> QED BY <2>1, <2>2
<1>5. ASSUME NEW d \in Int, NEW ttl \in Int PROVE Proper(Increment(row, d, ttl, now).row, now)
  <2> DEFINE next == Row(Counter(row) + d, row.when)
  <2>1. next.present /\ next.when = row.when BY DEF Row
  <2>2. Proper(next, now) BY <2>1 DEF Proper, NoRow
  <2>3. Proper([next EXCEPT !.when = Expiry(now, redisTTLMillis(ttl))], now)
    BY <1>3 DEF Proper, Row
  <2>4. Increment(row, d, ttl, now).row \in
          {row, next, [next EXCEPT !.when = Expiry(now, redisTTLMillis(ttl))]}
    BY DEF Increment, Effect, ExpireIfPositive
  <2> QED BY <2>2, <2>3, <2>4
<1> QED BY <1>1, <1>2, <1>4, <1>5

(* The script of Take answers with the row it deletes. *)
LEMMA TakeRefines ==
    ASSUME TypeOK, ClientRows, NEW c \in Clients, NEW k \in Keys,
           Answers(c, k, Take(rows[ClientKey(k)]).row,
                   [op |-> "Take", out |-> Take(rows[ClientKey(k)]).out,
                    value |-> Take(rows[ClientKey(k)]).value])
    PROVE  Contract!Take(c, k)
<1>1. PICK row \in Rows : row = rows[ClientKey(k)] BY ClientKeysApart DEF TypeOK
<1>2. clock \in Nat /\ Proper(row, clock) BY <1>1, Sizes DEF ClientRows
<1>3. /\ Take(row).row = NoRow /\ Take(row).value = row.value
      /\ Take(row).out = IF row.present THEN "ok" ELSE "miss"
  BY DEF Take, Get, Effect
<1>4. NoRow \in Rows /\ ContractEntry(NoRow) = Contract!Gone
  BY DEF NoRow, Rows, ContractEntry, Contract!Gone
<1>5. PICK r : r = [op |-> "Take", out |-> Take(row).out, value |-> Take(row).value] OBVIOUS
<1>6. /\ ContractStore' = [ContractStore EXCEPT ![k] = Contract!Gone]
      /\ ContractReplies' = [ContractReplies EXCEPT ![c] = ContractReply(r)]
      /\ Now' = Now
  BY <1>1, <1>3, <1>4, <1>5, ShownStep
<1>7. ContractStore[k].present = row.present /\ ContractStore[k].value = row.value
  BY <1>1, <1>2, EntryFacts DEF ContractStore
<1>8. ContractReply(r) = IF ContractStore[k].present
                         THEN Contract!Reply("Take", "ok", ContractStore[k].value)
                         ELSE Contract!Reply("Take", "miss", 0)
  BY <1>3, <1>5, <1>7, ReplyFacts
<1> QED BY <1>6, <1>8 DEF Contract!Take, Contract!Answer, Now

(* The script of Increment adds atomically, keeps or moves the expiry, or     *)
(* refuses; a sum outside int64 is an answer that the contract leaves open.   *)
LEMMA IncrementRefines ==
    ASSUME TypeOK, ClientRows, NEW c \in Clients, NEW k \in Keys,
           NEW d \in Deltas, NEW ttl \in TTLs,
           NEW e, e = Increment(rows[ClientKey(k)], d, ttl, clock),
           Answers(c, k, e.row, [op |-> "Increment", out |-> e.out, value |-> e.value])
    PROVE  \/ Contract!Write(c, k) \/ Contract!Remove(c, k) \/ Contract!IncrementFail(c, k)
           \/ Contract!Increment(c, k, d, ContractTTL(ttl))
<1>1. PICK row \in Rows : row = rows[ClientKey(k)] BY ClientKeysApart DEF TypeOK
<1>2. clock \in Nat /\ Proper(row, clock) BY <1>1, Sizes DEF ClientRows
<1>3. d \in Int /\ ttl \in Int BY TokenAssumption, RangeAssumption DEF Int64
<1>4. e \in Effects /\ Proper(e.row, clock) /\ e.row \in Rows
  BY <1>1, <1>2, <1>3, EffectTypes, ProperEffects DEF Effects
<1>5. PICK r : r = [op |-> "Increment", out |-> e.out, value |-> e.value] OBVIOUS
<1>6. /\ ContractStore' = [ContractStore EXCEPT ![k] = ContractEntry(e.row)]
      /\ ContractReplies' = [ContractReplies EXCEPT ![c] = ContractReply(r)]
      /\ Now' = Now
  BY <1>4, <1>5, ShownStep
<1>7. ContractStore[k] = ContractEntry(row) BY <1>1 DEF ContractStore
<1>8. Contract!Current(k) = Counter(row)
  BY <1>2, <1>7, EntryFacts DEF Contract!Current, Counter
<1>9. CASE Counter(row) = Text
  <2>1. e = Effect(row, "refused", 0) BY <1>1, <1>9 DEF Increment
  <2>2. e.row = row /\ r = [op |-> "Increment", out |-> "refused", value |-> 0]
    BY <1>5, <2>1 DEF Effect
  <2>3. ContractStore' = ContractStore BY <1>6, <1>7, <2>2 DEF ContractStore
  <2>4. ContractReply(r) = Contract!Reply("Increment", "error", 0) BY <2>2, ReplyFacts
  <2> QED BY <1>6, <1>8, <1>9, <2>3, <2>4 DEF Contract!IncrementFail, Contract!Answer, Now
<1>10. CASE Counter(row) # Text
  <2>1. PICK next \in Int : next = Counter(row) + d
    BY <1>3, <1>10 DEF Counter, Rows
  <2>2. e = IF next \notin Int64 THEN Effect(row, "overflow", 0)
            ELSE Effect(ExpireIfPositive(Row(next, row.when), ttl, clock), "ok", next)
    BY <1>1, <1>10, <2>1 DEF Increment
  <2>3. CASE next \notin Int64
    <3>1. e.out = "overflow" BY <2>2, <2>3 DEF Effect
    <3>2. ContractReply(r) = Contract!Quiet BY <1>5, <3>1, ReplyFacts
    <3> QED BY <1>4, <1>5, <3>2, QuietCall
  <2>4. CASE next \in Int64
    <3>1. /\ e.row = ExpireIfPositive(Row(next, row.when), ttl, clock)
          /\ r = [op |-> "Increment", out |-> "ok", value |-> next]
      BY <1>5, <2>2, <2>4 DEF Effect
    <3>2. ContractReply(r) = Contract!Reply("Increment", "ok", next) BY <3>1, ReplyFacts
    <3>3. next = Contract!Wrap(Contract!Current(k) + d)
      BY <1>8, <2>1, <2>4, RangeAssumption, SameArithmetic DEF Wrap, Int64
    <3>4. PICK m \in Nat : m = redisTTLMillis(ttl) /\ (m > 0 <=> ttl > 0) BY <1>3, MillisFacts
    <3>5. ServerTime(clock) \in Nat /\ ServerTime(Start) \in Nat /\ row.when \in Nat
      BY <1>2, MillisFacts, SecondAssumption DEF Start, Rows
    <3>6. /\ e.row.present /\ e.row.value = next
          /\ e.row.when = IF m > 0 THEN ServerTime(clock) + m ELSE row.when
      BY <3>1, <3>4 DEF ExpireIfPositive, Row, Expiry
    <3>7. PICK x : x = ContractEntry(row).expiresAt OBVIOUS
    <3>8. ContractEntry(e.row).expiresAt = IF ContractTTL(ttl) > 0 THEN Now + ContractTTL(ttl) ELSE x
      <4>1. CASE m > 0
        <5>1. ContractTTL(ttl) = m + 1 BY <3>4, <4>1 DEF ContractTTL
        <5>2. e.row.when = ServerTime(clock) + m /\ e.row.when # 0 BY <3>4, <3>5, <3>6, <4>1
        <5>3. ContractEntry(e.row).expiresAt = ContractTime(ServerTime(clock) + m) + 1
          BY <5>2 DEF ContractEntry
        <5> QED BY <3>4, <3>5, <4>1, <5>1, <5>3 DEF ContractTime, Now
      <4>2. CASE ~(m > 0)
        <5>1. ContractTTL(ttl) = 0 BY <3>4, <4>2 DEF ContractTTL
        <5>2. e.row.when = row.when BY <3>6, <4>2
        <5> QED BY <3>7, <5>1, <5>2 DEF ContractEntry
      <4> QED BY <4>1, <4>2
    <3>9. ContractEntry(e.row) = Contract!Entry(next, ContractEntry(e.row).expiresAt)
      BY <1>2, <1>4, <3>6, EntryFacts
    <3>10. ContractStore' = [ContractStore EXCEPT ![k] = Contract!Entry(next,
               IF ContractTTL(ttl) > 0 THEN Now + ContractTTL(ttl) ELSE ContractStore[k].expiresAt)]
      BY <1>6, <1>7, <3>7, <3>8, <3>9
    <3> QED BY <1>6, <1>8, <1>10, <3>2, <3>3, <3>10
            DEF Contract!Increment, Contract!Answer, Now
  <2> QED BY <2>3, <2>4
<1> QED BY <1>9, <1>10

(* Time: a tick inside a millisecond is invisible, the next millisecond is    *)
(* the contract's tick, and it takes the rows whose time is over.             *)
LEMMA ContractTick ==
    ASSUME TypeOK, ClientRows, Tick
    PROVE  ClientRows' /\ (Contract!Tick \/ UNCHANGED Contract!vars)
<1>1. /\ clock' = clock + 1 /\ clock \in Nat /\ clock >= Start /\ reply' = reply
      /\ rows' = [k \in ServerKeys |-> Lookup(rows[k], clock + 1)]
      /\ rows \in [ServerKeys -> Rows]
  BY Sizes DEF Tick, TypeOK, Start
<1>2. PICK s, s0, s1 : s = ServerTime(clock) /\ s0 = ServerTime(Start) /\ s1 = ServerTime(clock + 1)
  OBVIOUS
<1>3. s \in Nat /\ s0 \in Nat /\ s1 \in {s, s + 1} /\ s0 <= s
  <2>1. s \in Nat /\ s0 \in Nat /\ Start \in Nat BY <1>1, <1>2, MillisFacts, SecondAssumption DEF Start
  <2>2. s1 \in {s, s + 1} BY <1>1, <1>2, MilliAssumption, DivFacts DEF ServerTime
  <2>3. Start >= s0 * Milli BY <1>2, <2>1, ServerTimeReaches
  <2>4. clock >= s0 * Milli BY <1>1, <2>1, <2>3, MilliAssumption
  <2>5. s >= s0 BY <1>1, <1>2, <2>1, <2>4, ServerTimeReaches
  <2> QED BY <2>1, <2>2, <2>5
<1>4. ASSUME NEW k \in Keys
      PROVE  /\ rows[ClientKey(k)] \in Rows /\ Proper(rows[ClientKey(k)], clock)
             /\ rows'[ClientKey(k)] = Lookup(rows[ClientKey(k)], clock + 1)
  BY <1>1, ClientKeysApart DEF ClientRows
<1>5. ClientRows'
  <2> SUFFICES ASSUME NEW k \in Keys PROVE Proper(rows[ClientKey(k)], clock)'
    BY DEF ClientRows
  <2>1. PICK row \in Rows : row = rows[ClientKey(k)] BY <1>4
  <2>2. Proper(row, clock) /\ row.when \in Nat BY <1>4, <2>1 DEF Rows
  <2>3. Proper(Lookup(row, clock + 1), clock + 1)
    <3>1. CASE row.present /\ row.when # 0 /\ s1 > row.when
      <4>1. Lookup(row, clock + 1) = NoRow BY <1>2, <3>1 DEF Lookup
      <4> QED BY <4>1 DEF Proper, NoRow
    <3>2. CASE ~(row.present /\ row.when # 0 /\ s1 > row.when)
      <4>1. Lookup(row, clock + 1) = row BY <1>2, <3>2 DEF Lookup
      <4>2. row.present /\ row.when # 0 => s1 <= row.when BY <1>3, <2>2, <3>2
      <4> QED BY <1>2, <2>2, <4>1, <4>2 DEF Proper
    <3> QED BY <3>1, <3>2
  <2>4. rows'[ClientKey(k)] = Lookup(row, clock + 1) BY <1>4, <2>1
  <2> QED BY <1>1, <2>3, <2>4 DEF Proper
<1>6. ContractReplies' = ContractReplies BY <1>1 DEF ContractReplies
<1>7. Now = s - s0 + 1 /\ Now' = s1 - s0 + 1 BY <1>1, <1>2 DEF Now, ContractTime
<1>8. ASSUME NEW k \in Keys
      PROVE  ContractStore'[k] = IF s1 = s + 1 /\ Contract!Expired(ContractStore[k].expiresAt, Now + 1)
                                 THEN Contract!Gone ELSE ContractStore[k]
  <2>1. PICK row \in Rows : row = rows[ClientKey(k)] BY <1>4
  <2>2. Proper(row, clock) /\ row.when \in Nat BY <1>4, <2>1 DEF Rows
  <2>3. ContractStore[k] = ContractEntry(row) /\ ContractStore'[k] = ContractEntry(Lookup(row, clock + 1))
    BY <1>4, <2>1 DEF ContractStore
  <2>4. ContractEntry(NoRow) = Contract!Gone BY DEF NoRow, ContractEntry, Contract!Gone
  <2>5. ContractEntry(row).expiresAt = IF row.when = 0 THEN 0 ELSE row.when - s0 + 2
    BY <1>2, <1>3, <2>2 DEF ContractEntry, ContractTime
  <2>6. CASE ~row.present
    <3>1. row = NoRow BY <2>2, <2>6 DEF Proper
    <3>2. Lookup(row, clock + 1) = row BY <2>6 DEF Lookup
    <3> QED BY <2>3, <2>4, <3>1, <3>2
  <2>7. CASE row.present
    <3>1. row.when # 0 => s <= row.when BY <1>2, <2>2, <2>7 DEF Proper
    <3>2. Expired(ContractEntry(row).expiresAt, Now + 1) <=> row.when # 0 /\ row.when <= s
      BY <1>3, <1>7, <2>2, <2>5, <3>1 DEF Expired
    <3>3. Lookup(row, clock + 1) = IF row.when # 0 /\ s1 > row.when THEN NoRow ELSE row
      BY <1>2, <2>7 DEF Lookup
    <3>4. row.when # 0 /\ s1 > row.when <=> s1 = s + 1 /\ row.when # 0 /\ row.when <= s
      BY <1>3, <2>2, <3>1
    <3> QED BY <2>3, <2>4, <3>2, <3>3, <3>4, SameArithmetic
  <2> QED BY <2>6, <2>7
<1>9. CASE s1 = s
  <2>1. ContractStore' = ContractStore BY <1>3, <1>8, <1>9 DEF ContractStore
  <2> QED BY <1>5, <1>6, <1>7, <1>9, <2>1 DEF Contract!vars, Now
<1>10. CASE s1 = s + 1
  <2>1. ContractStore' = [k \in Keys |-> IF Contract!Expired(ContractStore[k].expiresAt, Now + 1)
                                         THEN Contract!Gone ELSE ContractStore[k]]
    BY <1>8, <1>10 DEF ContractStore
  <2>2. Now' = Now + 1 BY <1>3, <1>7, <1>10
  <2> QED BY <1>5, <1>6, <2>1, <2>2 DEF Contract!Tick, Now
<1> QED BY <1>3, <1>9, <1>10

(* What the service does with its tokens, no other client sees. *)
LEMMA TokenStepHidden ==
    ASSUME TypeOK, ClientRows, clock' = clock, reply' = reply,
           rows' = rows \/ \E x \in Tokens : \E row : rows' = [rows EXCEPT ![TokenKey(x)] = row]
    PROVE  ClientRows' /\ UNCHANGED Contract!vars
<1>1. \A k \in Keys : rows'[ClientKey(k)] = rows[ClientKey(k)]
  BY KeyFacts DEF TypeOK
<1>2. ClientRows' BY <1>1 DEF ClientRows
<1>3. ContractStore' = ContractStore BY <1>1 DEF ContractStore
<1>4. ContractReplies' = ContractReplies BY DEF ContractReplies
<1>5. Now' = Now BY DEF Now
<1> QED BY <1>2, <1>3, <1>4, <1>5 DEF Contract!vars, Now

(* Whatever becomes of a call of a client, the row it leaves is still shown,   *)
(* and a lost answer is one that the contract leaves open.                     *)
LEMMA CallRefines ==
    ASSUME TypeOK, ClientRows, NEW c \in Clients, NEW k \in Keys, NEW op, NEW e \in Effects,
           ClientCall(c, k, op, e), Proper(e.row, clock)
    PROVE  /\ ClientRows'
           /\ \/ Contract!Write(c, k) \/ Contract!Remove(c, k)
              \/ /\ op \in {"Take", "Increment"}
                 /\ Answers(c, k, e.row, [op |-> op, out |-> e.out, value |-> e.value])
<1>1. PICK o \in Outcomes(rows[ClientKey(k)], e) :
        Answers(c, k, o.row, [op |-> op, out |-> o.out, value |-> o.value])
  BY DEF ClientCall, Answers
<1>2. rows[ClientKey(k)] \in Rows /\ Proper(rows[ClientKey(k)], clock)
  BY ClientKeysApart DEF TypeOK, ClientRows
<1>3. o \in Effects /\ (o = e \/ (o.out = "lost" /\ o.row \in {rows[ClientKey(k)], e.row}))
  BY <1>2, OutcomeFacts
<1>4. o.row \in Rows /\ Proper(o.row, clock) BY <1>2, <1>3 DEF Effects
<1>5. ClientRows' BY <1>1, <1>4, ShownStep
<1>6. CASE op \in {"Take", "Increment"} /\ o = e BY <1>1, <1>5, <1>6
<1>7. CASE op \notin {"Take", "Increment"} \/ o.out = "lost"
  <2>1. ContractReply([op |-> op, out |-> o.out, value |-> o.value]) = Contract!Quiet
    BY <1>7, ReplyFacts
  <2> QED BY <1>1, <1>4, <1>5, <2>1, QuietCall
<1> QED BY <1>3, <1>6, <1>7

(* Every step is a step of the contract, or is invisible to it. *)
LEMMA StepRefines ==
    ASSUME IInv, ClientRows, [Next]_vars
    PROVE  ClientRows' /\ [Contract!Next]_Contract!vars
<1>0. /\ TypeOK /\ clock \in Nat
      /\ \A k \in Keys : rows[ClientKey(k)] \in Rows /\ Proper(rows[ClientKey(k)], clock)
  BY Sizes, ClientKeysApart DEF IInv, TypeOK, ClientRows
<1>1. CASE UNCHANGED vars BY <1>0, <1>1, TokenStepHidden DEF vars
<1>2. CASE Tick BY <1>0, <1>2, ContractTick DEF Contract!Next
<1>3. ASSUME NEW t \in Threads, IssueStore(t) \/ FindCheck(t) \/ FindDrop(t)
      PROVE  ClientRows' /\ UNCHANGED Contract!vars
  <2>1. FindCheck(t) => rows' = rows /\ clock' = clock /\ reply' = reply BY DEF FindCheck
  <2>2. CASE IssueStore(t) \/ FindDrop(t)
    <3>1. call[t].token \in Tokens
      BY <1>0, <2>2, Sizes DEF IssueStore, FindDrop, IInv, Issuing, Finding
    <3> QED BY <1>0, <2>2, <3>1, TokenStepHidden DEF IssueStore, FindDrop
  <2> QED BY <1>0, <1>3, <2>1, <2>2, TokenStepHidden
<1>4. ASSUME NEW t \in Threads, NEW x \in Tokens, Find(t, x) \/ Revoke(t, x)
      PROVE  ClientRows' /\ UNCHANGED Contract!vars
  BY <1>0, <1>4, TokenStepHidden DEF Find, Revoke
<1>5. ASSUME NEW t \in Threads, NEW x \in Tokens, NEW r \in Requested, NEW o \in ServiceTTLs,
             Issue(t, x, r, o)
      PROVE  ClientRows' /\ UNCHANGED Contract!vars
  BY <1>0, <1>5, TokenStepHidden DEF Issue
<1>6. ASSUME NEW c \in Clients, NEW k \in Keys,
             \/ ClientGet(c, k) \/ ClientExists(c, k) \/ ClientTTL(c, k) \/ ClientDelete(c, k)
      PROVE  ClientRows' /\ (Contract!Write(c, k) \/ Contract!Remove(c, k))
  <2>1. PICK op \in {"Get", "Exists", "TTL", "Delete"}, e \in Effects :
          ClientCall(c, k, op, e) /\ Proper(e.row, clock)
    <3>1. PICK row \in Rows : row = rows[ClientKey(k)] /\ Proper(row, clock) BY <1>0
    <3>2. /\ Get(row) \in Effects /\ Exists(row) \in Effects
          /\ TTL(row, clock) \in Effects /\ Delete(row) \in Effects
      BY <1>0, EffectTypes
    <3>3. /\ Proper(Get(row).row, clock) /\ Proper(Exists(row).row, clock)
          /\ Proper(TTL(row, clock).row, clock) /\ Proper(Delete(row).row, clock)
      BY <1>0, <3>1, ProperEffects
    <3> QED BY <1>6, <3>1, <3>2, <3>3 DEF ClientGet, ClientExists, ClientTTL, ClientDelete
  <2> QED BY <1>0, <2>1, CallRefines
<1>7. ASSUME NEW c \in Clients, NEW k \in Keys, ClientTake(c, k)
      PROVE  ClientRows' /\ (Contract!Write(c, k) \/ Contract!Remove(c, k) \/ Contract!Take(c, k))
  <2>1. PICK e : e = Take(rows[ClientKey(k)]) OBVIOUS
  <2>2. e \in Effects /\ Proper(e.row, clock) /\ ClientCall(c, k, "Take", e)
    BY <1>0, <1>7, <2>1, EffectTypes, ProperEffects DEF ClientTake
  <2> QED BY <1>0, <2>1, <2>2, CallRefines, TakeRefines
<1>8. ASSUME NEW c \in Clients, NEW k \in Keys, NEW v \in Inputs, NEW ttl \in TTLs,
             ClientSet(c, k, v, ttl)
      PROVE  ClientRows' /\ (Contract!Write(c, k) \/ Contract!Remove(c, k))
  <2>1. v \in Int \union {Text} /\ ttl \in Int
    BY TokenAssumption, RangeAssumption DEF Values, Int64
  <2>2. PICK e : e = Set(rows[ClientKey(k)], v, ttl, clock) OBVIOUS
  <2>3. e \in Effects /\ Proper(e.row, clock) /\ ClientCall(c, k, "Set", e)
    BY <1>0, <1>8, <2>1, <2>2, EffectTypes, ProperEffects DEF ClientSet
  <2>4. "Set" \notin {"Take", "Increment"} OBVIOUS
  <2> QED BY <1>0, <2>3, <2>4, CallRefines
<1>9. ASSUME NEW c \in Clients, NEW k \in Keys, NEW d \in Deltas, NEW ttl \in TTLs,
             ClientIncrement(c, k, d, ttl)
      PROVE  /\ ClientRows'
             /\ \/ Contract!Write(c, k) \/ Contract!Remove(c, k) \/ Contract!IncrementFail(c, k)
                \/ Contract!Increment(c, k, d, ContractTTL(ttl))
  <2>1. d \in Int /\ ttl \in Int BY TokenAssumption, RangeAssumption DEF Int64
  <2>2. PICK e : e = Increment(rows[ClientKey(k)], d, ttl, clock) OBVIOUS
  <2>3. e \in Effects /\ Proper(e.row, clock) /\ ClientCall(c, k, "Increment", e)
    BY <1>0, <1>9, <2>1, <2>2, EffectTypes, ProperEffects DEF ClientIncrement
  <2> QED BY <1>0, <2>2, <2>3, CallRefines, IncrementRefines
<1>10. \A ttl \in TTLs : ContractTTL(ttl) \in {ContractTTL(x) : x \in TTLs} OBVIOUS
<1> QED BY <1>1, <1>2, <1>3, <1>4, <1>5, <1>6, <1>7, <1>8, <1>9, <1>10 DEF Next, Contract!Next

(* redis.go implements the contract of cache.Cache for its clients, on the    *)
(* server's clock and beside a token service, for every clock rate, prefix    *)
(* and set of keys, whatever answers are lost.                                *)
THEOREM RedisImplementsContractHolds == Spec => RedisImplementsContract
<1>1. Init => Contract!Init /\ ClientRows
  <2> SUFFICES ASSUME Init PROVE Contract!Init /\ ClientRows
    OBVIOUS
  <2>1. \A k \in Keys : rows[ClientKey(k)] = NoRow BY ClientKeysApart DEF Init
  <2>2. ClientRows
    <3>1. Proper(NoRow, clock) BY DEF Proper, NoRow
    <3> QED BY <2>1, <3>1 DEF ClientRows
  <2>3. ContractEntry(NoRow) = Contract!Gone BY DEF NoRow, ContractEntry, Contract!Gone
  <2>4. ContractStore = [k \in Keys |-> Contract!Gone] BY <2>1, <2>3 DEF ContractStore
  <2>5. ContractReply([op |-> "none", out |-> "ok", value |-> 0]) = Contract!Quiet BY ReplyFacts
  <2>6. ContractReplies = [c \in Clients |-> Contract!Quiet]
    BY <2>5 DEF Init, ContractReplies
  <2>7. Now = 1
    BY MillisFacts, SecondAssumption DEF Init, Now, ContractTime, Start
  <2> QED BY <2>2, <2>4, <2>6, <2>7 DEF Contract!Init, Now
<1>2. IInv /\ ClientRows /\ [Next]_vars => ClientRows' /\ [Contract!Next]_Contract!vars
  BY StepRefines
<1> QED BY <1>1, <1>2, IInvHolds, PTL DEF Spec, RedisImplementsContract, Contract!Spec
=============================================================================
