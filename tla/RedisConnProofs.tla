-------------------------- MODULE RedisConnProofs --------------------------
(* RedisConn, for every set of goroutines, every handshake and every bound.   *)
EXTENDS RedisConn, SequenceTheorems, TLAPS

Critical == {"dial", "send", "recv"}

(* The mutex belongs to the goroutine that is between Lock and Return. *)
Holder == \A t \in Threads : pc[t] \in Critical <=> mu = t

(* connectLocked runs without a connection, doLocked with one. *)
Connected == /\ conn <= opened
             /\ \A t \in Threads : /\ pc[t] = "dial" => conn = 0
                                   /\ pc[t] \in {"send", "recv"} => conn # 0

Silent(n) == inbox[n] = <<>> /\ frames[n] = <<>>

(* Nothing has passed over a connection that is still to be dialled. *)
FreshConns == \A n \in Conns : n > opened => Silent(n)

(* Between two commands nothing is under way on the current connection. *)
Quiet == conn # 0 /\ (\A t \in Threads : pc[t] # "recv") => Silent(conn)

(* While a command waits for its reply the current connection holds that      *)
(* command or its reply, and nothing else.                                    *)
Asking(t) == inbox[conn] = <<Request(t)>> /\ frames[conn] = <<>>
Answered(t) == /\ inbox[conn] = <<>>
               /\ \E kind \in ReplyKinds : frames[conn] = <<Frame(Request(t), kind)>>
Pending == \A t \in Threads : pc[t] = "recv" => Asking(t) \/ Answered(t)

IInv == /\ TypeOK
        /\ Holder
        /\ Connected
        /\ FreshConns
        /\ Quiet
        /\ Pending
        /\ NoLeak
        /\ ReplyMatches

(* The records on the wire and in the results. *)
LEMMA FrameFields ==
    ASSUME NEW id, NEW kind
    PROVE  Frame(id, kind).id = id /\ Frame(id, kind).kind = kind
BY DEF Frame

(* A handshake command is request 0, any other the number the caller got. *)
LEMMA RequestIsNumber ==
    ASSUME TypeOK, NEW t \in Threads
    PROVE  Request(t) \in 0 .. MaxRequests
BY RedisAssumption DEF TypeOK, Request

(* Whoever works on a connection works on one that has been dialled. *)
LEMMA CurrentIsConn ==
    ASSUME TypeOK, conn # 0
    PROVE  conn \in Conns
BY RedisAssumption DEF TypeOK, Conns

(* A goroutine past Lock excludes every other from the critical section. *)
LEMMA Alone ==
    ASSUME Holder, NEW t \in Threads, pc[t] \in Critical, NEW u \in Threads, u # t
    PROVE  pc[u] \notin Critical
BY DEF Holder

(* One end of the wire of one connection changes. *)
LEMMA SetQueue ==
    ASSUME NEW S, NEW f \in [Conns -> Seq(S)], NEW n \in Conns, NEW q \in Seq(S),
           NEW g, g = [f EXCEPT ![n] = q]
    PROVE  /\ g \in [Conns -> Seq(S)]
           /\ g[n] = q
           /\ \A m \in Conns \ {n} : g[m] = f[m]
OBVIOUS

(* A connection still to be dialled is not the current one. *)
LEMMA FreshIsOther ==
    ASSUME TypeOK, Connected, NEW n \in Conns, n > opened
    PROVE  n # conn
BY RedisAssumption DEF TypeOK, Connected, Conns

(* A one-element queue loses its only element. *)
LEMMA SingleQueue ==
    ASSUME NEW S, NEW x \in S
    PROVE  /\ <<x>> # <<>>
           /\ Head(<<x>>) = x
           /\ Tail(<<x>>) = <<>>
           /\ Append(<<>>, x) = <<x>>
OBVIOUS

(* Do returns: the goroutine leaves the critical section and gives the mutex  *)
(* back, and every other goroutine is where it was.                           *)
LEMMA ReturnFacts ==
    ASSUME TypeOK, Holder, NEW t \in Threads, pc[t] \in Critical, NEW r, Return(t, r),
           r \in [id : 0 .. MaxRequests, kind : ReplyKinds \union {"none", "io"}]
    PROVE  /\ mu' = "free" /\ asked' = asked
           /\ pc' \in [Threads -> {"idle", "lock", "dial", "send", "recv"}]
           /\ hello' \in [Threads -> 0 .. Hello]
           /\ result' \in [Threads -> [id : 0 .. MaxRequests,
                                       kind : ReplyKinds \union {"none", "io"}]]
           /\ pc'[t] = "idle" /\ result'[t] = r
           /\ \A u \in Threads : pc'[u] \notin Critical
           /\ \A u \in Threads \ {t} : pc'[u] = pc[u] /\ result'[u] = result[u]
           /\ Holder'
<1>1. /\ mu' = "free" /\ asked' = asked
      /\ pc' = [pc EXCEPT ![t] = "idle"]
      /\ hello' = [hello EXCEPT ![t] = 0]
      /\ result' = [result EXCEPT ![t] = r]
  BY DEF Return
<1>2. /\ pc \in [Threads -> {"idle", "lock", "dial", "send", "recv"}]
      /\ hello \in [Threads -> 0 .. Hello]
      /\ result \in [Threads -> [id : 0 .. MaxRequests,
                                 kind : ReplyKinds \union {"none", "io"}]]
      /\ Hello \in Nat
  BY RedisAssumption DEF TypeOK
<1>3. \A u \in Threads : pc'[u] \notin Critical
  BY <1>1, <1>2, Alone DEF Critical
<1>4. Holder' BY <1>1, <1>3, RedisAssumption DEF Holder
<1> QED BY <1>1, <1>2, <1>3, <1>4

(* What a Do that fails on the way returns. *)
LEMMA NoReplyType ==
    /\ NoReply("io") \in [id : 0 .. MaxRequests, kind : ReplyKinds \union {"none", "io"}]
    /\ NoReply("none") \in [id : 0 .. MaxRequests, kind : ReplyKinds \union {"none", "io"}]
    /\ NoReply("io").kind \notin ReplyKinds
    /\ NoReply("none").kind \notin ReplyKinds
BY RedisAssumption DEF NoReply, Frame

(* The client starts with a silent wire, connected or not. *)
LEMMA IInvInit == Init => IInv
<1> SUFFICES ASSUME Init PROVE IInv
  OBVIOUS
<1>1. TypeOK BY NoReplyType, RedisAssumption DEF Init, TypeOK, Conns
<1>2. Holder BY RedisAssumption DEF Init, Holder, Critical
<1>3. Connected BY RedisAssumption DEF Init, Connected
<1>4. FreshConns /\ Quiet /\ Pending
  BY <1>1, CurrentIsConn DEF Init, FreshConns, Quiet, Pending, Silent
<1>5. NoLeak BY DEF Init, NoLeak
<1>6. ReplyMatches BY NoReplyType DEF Init, ReplyMatches
<1> QED BY <1>1, <1>2, <1>3, <1>4, <1>5, <1>6 DEF IInv

(* Do returns: the goroutine has a reply to its own request or none at all,   *)
(* so ReplyMatches is kept.                                                   *)
LEMMA ReturnMatches ==
    ASSUME IInv, NEW t \in Threads, pc[t] \in Critical, NEW r, Return(t, r),
           r \in [id : 0 .. MaxRequests, kind : ReplyKinds \union {"none", "io"}],
           r.kind \in ReplyKinds => r.id = asked[t]
    PROVE  ReplyMatches'
<1>1. /\ asked' = asked /\ pc'[t] = "idle" /\ result'[t] = r
      /\ \A u \in Threads \ {t} : pc'[u] = pc[u] /\ result'[u] = result[u]
  BY ReturnFacts DEF IInv
<1> QED BY <1>1 DEF IInv, ReplyMatches

(* A command that fails closes the connection on the way out, whatever the    *)
(* wire of that connection holds by then.                                     *)
LEMMA DropConn ==
    ASSUME IInv, NEW t \in Threads, pc[t] \in {"send", "recv"},
           closeLocked, Return(t, NoReply("io")),
           inbox' \in [Conns -> Seq(0 .. MaxRequests)],
           frames' \in [Conns -> Seq([id : 0 .. MaxRequests, kind : ReplyKinds])],
           \A n \in Conns \ {conn} : inbox'[n] = inbox[n] /\ frames'[n] = frames[n],
           issued' = issued
    PROVE  IInv'
<1>0. TypeOK /\ Holder /\ Connected /\ FreshConns /\ NoLeak BY DEF IInv
<1>1. conn' = 0 /\ opened' = opened /\ open' = {}
  BY <1>0 DEF closeLocked, NoLeak
<1>2. pc[t] \in Critical BY DEF Critical
<1>3. /\ mu' = "free" /\ asked' = asked
      /\ pc' \in [Threads -> {"idle", "lock", "dial", "send", "recv"}]
      /\ hello' \in [Threads -> 0 .. Hello]
      /\ result' \in [Threads -> [id : 0 .. MaxRequests,
                                  kind : ReplyKinds \union {"none", "io"}]]
      /\ \A u \in Threads : pc'[u] \notin Critical
      /\ Holder'
  BY <1>0, <1>2, NoReplyType, ReturnFacts
<1>4. TypeOK'
  <2>1. conn' \in 0 .. MaxConns /\ opened' \in 0 .. MaxConns /\ open' \subseteq Conns
    BY <1>0, <1>1, RedisAssumption DEF TypeOK
  <2> QED BY <1>0, <1>3, <2>1 DEF TypeOK
<1>5. Connected' BY <1>0, <1>1, <1>3, RedisAssumption DEF Connected, Critical, TypeOK
<1>6. FreshConns'
  BY <1>0, <1>1, FreshIsOther DEF FreshConns, Silent
<1>7. Quiet' BY <1>1 DEF Quiet
<1>8. Pending' BY <1>3 DEF Pending, Critical
<1>9. NoLeak' BY <1>1 DEF NoLeak
<1>10. ReplyMatches' BY <1>2, NoReplyType, ReturnMatches
<1> QED BY <1>3, <1>4, <1>5, <1>6, <1>7, <1>8, <1>9, <1>10 DEF IInv

(* Every step of the goroutines and of the server keeps the invariant. *)
LEMMA IInvStep == IInv /\ [Next]_vars => IInv'
<1> SUFFICES ASSUME IInv, [Next]_vars PROVE IInv'
  OBVIOUS
<1>0. /\ TypeOK /\ Holder /\ Connected /\ FreshConns /\ Quiet /\ Pending
      /\ NoLeak /\ ReplyMatches
  BY DEF IInv
<1>1. CASE UNCHANGED vars
  <2> USE <1>1 DEF vars, shared, wire, local
  <2>1. TypeOK' BY <1>0 DEF TypeOK
  <2>2. Holder' /\ Connected' /\ FreshConns' BY <1>0 DEF Holder, Connected, FreshConns, Silent
  <2>3. Quiet' /\ Pending'
    BY <1>0 DEF Quiet, Pending, Silent, Asking, Answered, Request
  <2>4. NoLeak' /\ ReplyMatches' BY <1>0 DEF NoLeak, ReplyMatches
  <2> QED BY <2>1, <2>2, <2>3, <2>4 DEF IInv
<1>2. ASSUME NEW t \in Threads, Do(t) \/ DoExpired(t) PROVE IInv'
  <2> USE DEF shared, wire
  <2>1. /\ UNCHANGED <<shared, wire, hello>>
        /\ asked' = [asked EXCEPT ![t] = issued + 1]
        /\ pc[t] = "idle"
        /\ issued' \in 0 .. MaxRequests
        /\ issued' = issued + 1
    BY <1>2, <1>0, RedisAssumption DEF Do, DoExpired, TypeOK
  <2>2. /\ pc' \in [Threads -> {"idle", "lock", "dial", "send", "recv"}]
        /\ pc'[t] \in {"idle", "lock"}
        /\ \A u \in Threads \ {t} : pc'[u] = pc[u]
        /\ result' \in [Threads -> [id : 0 .. MaxRequests,
                                    kind : ReplyKinds \union {"none", "io"}]]
        /\ \A u \in Threads \ {t} : result'[u] = result[u]
        /\ pc'[t] = "idle" => result'[t] = NoReply("io")
    <3>1. CASE Do(t)
      <4>1. pc' = [pc EXCEPT ![t] = "lock"] /\ result' = result BY <3>1 DEF Do
      <4> QED BY <4>1, <1>0 DEF TypeOK
    <3>2. CASE DoExpired(t)
      <4>1. pc' = pc /\ pc[t] = "idle" /\ result' = [result EXCEPT ![t] = NoReply("io")]
        BY <3>2 DEF DoExpired
      <4> QED BY <4>1, <1>0, NoReplyType DEF TypeOK
    <3> QED BY <1>2, <3>1, <3>2
  <2>3. /\ asked' \in [Threads -> 0 .. MaxRequests]
        /\ \A u \in Threads \ {t} : asked'[u] = asked[u]
    BY <2>1, <1>0 DEF TypeOK
  <2>4. TypeOK' BY <1>0, <2>1, <2>2, <2>3 DEF TypeOK
  <2>5. Holder' BY <1>0, <2>1, <2>2 DEF Holder, Critical
  <2>6. Connected' /\ FreshConns' BY <1>0, <2>1, <2>2 DEF Connected, FreshConns, Silent
  <2>7. Quiet' BY <1>0, <2>1, <2>2 DEF Quiet, Silent
  <2>8. Pending'
    BY <1>0, <2>1, <2>2, <2>3 DEF Pending, Asking, Answered, Request
  <2>9. NoLeak' BY <1>0, <2>1 DEF NoLeak
  <2>10. ReplyMatches' BY <1>0, <2>2, <2>3, NoReplyType DEF ReplyMatches
  <2> QED BY <2>4, <2>5, <2>6, <2>7, <2>8, <2>9, <2>10 DEF IInv
<1>3. ASSUME NEW t \in Threads, Lock(t) PROVE IInv'
  <2> USE DEF wire
  <2>1. /\ UNCHANGED <<conn, opened, open, wire, asked, hello, result, issued>>
        /\ mu = "free" /\ mu' = t /\ pc[t] = "lock"
        /\ pc' \in [Threads -> {"idle", "lock", "dial", "send", "recv"}]
        /\ pc'[t] = IF conn = 0 THEN "dial" ELSE "send"
        /\ \A u \in Threads \ {t} : pc'[u] = pc[u]
    BY <1>3, <1>0 DEF Lock, TypeOK
  <2>2. \A u \in Threads : pc[u] \notin Critical
    BY <1>0, <2>1, RedisAssumption DEF Holder
  <2>3. TypeOK' BY <1>0, <2>1 DEF TypeOK
  <2>4. Holder' BY <2>1, <2>2 DEF Holder, Critical
  <2>5. Connected' /\ FreshConns'
    BY <1>0, <2>1, <2>2 DEF Connected, FreshConns, Silent, Critical
  <2>6. Quiet' BY <1>0, <2>1, <2>2 DEF Quiet, Silent, Critical
  <2>7. Pending' BY <2>1, <2>2 DEF Pending, Critical
  <2>8. NoLeak' BY <1>0, <2>1 DEF NoLeak
  <2>9. ReplyMatches' BY <1>0, <2>1 DEF ReplyMatches
  <2> QED BY <2>3, <2>4, <2>5, <2>6, <2>7, <2>8, <2>9 DEF IInv
<1>4. ASSUME NEW t \in Threads, Dial(t) PROVE IInv'
  <2> USE DEF wire
  <2>1. /\ UNCHANGED <<mu, wire, asked, result, issued>>
        /\ pc[t] = "dial" /\ opened < MaxConns
        /\ opened' = opened + 1 /\ conn' = opened + 1
        /\ open' = open \union {opened + 1}
        /\ pc' \in [Threads -> {"idle", "lock", "dial", "send", "recv"}]
        /\ pc'[t] = "send"
        /\ \A u \in Threads \ {t} : pc'[u] = pc[u]
        /\ hello' \in [Threads -> 0 .. Hello]
    BY <1>4, <1>0, RedisAssumption DEF Dial, TypeOK
  <2>2. \A u \in Threads \ {t} : pc[u] \notin Critical
    BY <1>0, <2>1, Alone DEF Critical
  <2>3. conn = 0 /\ open = {}
    BY <1>0, <2>1, RedisAssumption DEF Connected, NoLeak, TypeOK, Conns
  <2>4. opened' \in Conns BY <1>0, <2>1, RedisAssumption DEF TypeOK, Conns
  <2>5. TypeOK'
    <3>1. conn' \in 0 .. MaxConns /\ opened' \in 0 .. MaxConns /\ open' \subseteq Conns
      BY <2>1, <2>3, <2>4 DEF Conns
    <3> QED BY <1>0, <2>1, <3>1 DEF TypeOK
  <2>6. Holder' BY <1>0, <2>1 DEF Holder, Critical
  <2>7. Connected' BY <1>0, <2>1, <2>2, <2>4 DEF Connected, Critical, Conns
  <2>8. FreshConns' /\ Quiet'
    <3>1. \A n \in Conns : n > opened' => n > opened
      BY <1>0, <2>1, RedisAssumption DEF TypeOK, Conns
    <3>2. opened' > opened BY <1>0, <2>1, RedisAssumption DEF TypeOK
    <3>3. Silent(opened') BY <1>0, <2>4, <3>2 DEF FreshConns
    <3> QED BY <1>0, <2>1, <3>1, <3>3 DEF FreshConns, Quiet, Silent
  <2>9. Pending' BY <2>1, <2>2 DEF Pending, Critical
  <2>10. NoLeak' BY <2>1, <2>3 DEF NoLeak
  <2>11. ReplyMatches' BY <1>0, <2>1 DEF ReplyMatches
  <2> QED BY <2>5, <2>6, <2>7, <2>8, <2>9, <2>10, <2>11 DEF IInv
<1>5. ASSUME NEW t \in Threads, DialFails(t) PROVE IInv'
  <2> USE DEF wire, KeepConn
  <2>1. /\ pc[t] \in Critical /\ Return(t, NoReply("io"))
        /\ UNCHANGED <<conn, opened, open, wire, issued>>
        /\ conn = 0
    BY <1>5, <1>0 DEF DialFails, Critical, Connected
  <2>2. /\ mu' = "free" /\ asked' = asked
        /\ pc' \in [Threads -> {"idle", "lock", "dial", "send", "recv"}]
        /\ hello' \in [Threads -> 0 .. Hello]
        /\ result' \in [Threads -> [id : 0 .. MaxRequests,
                                    kind : ReplyKinds \union {"none", "io"}]]
        /\ \A u \in Threads : pc'[u] \notin Critical
        /\ Holder'
    BY <1>0, <2>1, NoReplyType, ReturnFacts
  <2>3. TypeOK' BY <1>0, <2>1, <2>2 DEF TypeOK
  <2>4. Connected' /\ FreshConns'
    BY <1>0, <2>1, <2>2 DEF Connected, FreshConns, Silent, Critical
  <2>5. Quiet' /\ NoLeak' BY <1>0, <2>1 DEF Quiet, NoLeak
  <2>6. Pending' BY <2>2 DEF Pending, Critical
  <2>7. ReplyMatches' BY <2>1, NoReplyType, ReturnMatches
  <2> QED BY <2>2, <2>3, <2>4, <2>5, <2>6, <2>7 DEF IInv
<1>6. ASSUME NEW t \in Threads, Send(t) PROVE IInv'
  <2> USE DEF shared
  <2>1. /\ UNCHANGED <<shared, frames, asked, hello, result, issued>>
        /\ pc[t] = "send"
        /\ inbox' = [inbox EXCEPT ![conn] = Append(inbox[conn], Request(t))]
        /\ pc' \in [Threads -> {"idle", "lock", "dial", "send", "recv"}]
        /\ pc'[t] = "recv"
        /\ \A u \in Threads \ {t} : pc'[u] = pc[u]
    BY <1>6, <1>0 DEF Send, TypeOK
  <2>2. \A u \in Threads \ {t} : pc[u] \notin Critical
    BY <1>0, <2>1, Alone DEF Critical
  <2>3. conn \in Conns /\ Request(t) \in 0 .. MaxRequests
    BY <1>0, <2>1, CurrentIsConn, RequestIsNumber DEF Connected
  <2>4. inbox[conn] = <<>> /\ frames[conn] = <<>>
    BY <1>0, <2>1, <2>2 DEF Quiet, Connected, Silent, Critical
  <2>5. inbox \in [Conns -> Seq(0 .. MaxRequests)] BY <1>0 DEF TypeOK
  <2>6. /\ inbox' \in [Conns -> Seq(0 .. MaxRequests)]
        /\ inbox'[conn] = <<Request(t)>>
        /\ \A n \in Conns \ {conn} : inbox'[n] = inbox[n]
    BY <2>1, <2>3, <2>4, <2>5, SingleQueue
  <2>7. TypeOK' BY <1>0, <2>1, <2>6 DEF TypeOK
  <2>8. Holder' BY <1>0, <2>1 DEF Holder, Critical
  <2>9. Connected' BY <1>0, <2>1 DEF Connected
  <2>10. FreshConns'
    <3>1. conn <= opened /\ opened \in Nat /\ conn \in Nat
      BY <1>0, <2>1, RedisAssumption DEF Connected, TypeOK
    <3>2. \A n \in Conns : n > opened => n # conn BY <2>3, <3>1
    <3> QED BY <1>0, <2>1, <2>6, <3>2 DEF FreshConns, Silent
  <2>11. Quiet' BY <2>1 DEF Quiet
  <2>12. Pending'
    <3>1. Request(t)' = Request(t) BY <2>1 DEF Request
    <3>2. Asking(t)' BY <2>1, <2>4, <2>6, <3>1 DEF Asking
    <3> QED BY <2>1, <2>2, <3>2 DEF Pending, Critical
  <2>13. NoLeak' /\ ReplyMatches' BY <1>0, <2>1 DEF NoLeak, ReplyMatches
  <2> QED BY <2>7, <2>8, <2>9, <2>10, <2>11, <2>12, <2>13 DEF IInv
<1>7. ASSUME NEW t \in Threads, SendFails(t) PROVE IInv'
  <2>1. conn \in Conns /\ Request(t) \in 0 .. MaxRequests
    BY <1>0, <1>7, CurrentIsConn, RequestIsNumber DEF SendFails, Connected
  <2>2. inbox \in [Conns -> Seq(0 .. MaxRequests)] BY <1>0 DEF TypeOK
  <2>3. /\ inbox' \in [Conns -> Seq(0 .. MaxRequests)]
        /\ \A n \in Conns \ {conn} : inbox'[n] = inbox[n]
    <3>1. Append(inbox[conn], Request(t)) \in Seq(0 .. MaxRequests) BY <2>1, <2>2
    <3>2. CASE inbox' = [inbox EXCEPT ![conn] = Append(inbox[conn], Request(t))]
      BY <2>1, <2>2, <3>1, <3>2, SetQueue
    <3> QED BY <1>7, <2>2, <3>2 DEF SendFails
  <2> QED BY <1>0, <1>7, <2>3, DropConn DEF SendFails, TypeOK
<1>8. ASSUME NEW t \in Threads, RecvFails(t) PROVE IInv'
  BY <1>0, <1>8, DropConn DEF RecvFails, TypeOK, wire
<1>9. ASSUME NEW t \in Threads, pc[t] = "recv", frames[conn] # <<>>,
             frames' = [frames EXCEPT ![conn] = Tail(@)]
      PROVE  /\ conn \in Conns
             /\ inbox[conn] = <<>> /\ frames'[conn] = <<>>
             /\ \E kind \in ReplyKinds : Head(frames[conn]) = Frame(Request(t), kind)
             /\ frames' \in [Conns -> Seq([id : 0 .. MaxRequests, kind : ReplyKinds])]
             /\ \A n \in Conns \ {conn} : frames'[n] = frames[n]
  <2>1. conn \in Conns BY <1>0, <1>9, CurrentIsConn DEF Connected
  <2>2. Answered(t) BY <1>0, <1>9 DEF Pending, Asking
  <2>3. PICK kind \in ReplyKinds : frames[conn] = <<Frame(Request(t), kind)>>
    BY <2>2 DEF Answered
  <2>4. Frame(Request(t), kind) \in [id : 0 .. MaxRequests, kind : ReplyKinds]
    BY <1>0, RequestIsNumber DEF Frame
  <2>5. /\ Head(frames[conn]) = Frame(Request(t), kind)
        /\ Tail(frames[conn]) = <<>>
    BY <2>3, <2>4, SingleQueue
  <2>6. frames \in [Conns -> Seq([id : 0 .. MaxRequests, kind : ReplyKinds])]
    BY <1>0 DEF TypeOK
  <2>7. <<>> \in Seq([id : 0 .. MaxRequests, kind : ReplyKinds]) OBVIOUS
  <2>8. frames' = [frames EXCEPT ![conn] = <<>>] BY <1>9, <2>5
  <2>9. /\ frames'[conn] = <<>>
        /\ frames' \in [Conns -> Seq([id : 0 .. MaxRequests, kind : ReplyKinds])]
        /\ \A n \in Conns \ {conn} : frames'[n] = frames[n]
    BY <2>1, <2>6, <2>7, <2>8, SetQueue
  <2> QED BY <2>1, <2>2, <2>5, <2>9 DEF Answered
<1>10. ASSUME NEW t \in Threads, RecvHello(t) PROVE IInv'
  <2>1. /\ pc[t] = "recv" /\ hello[t] > 0 /\ frames[conn] # <<>>
        /\ frames' = [frames EXCEPT ![conn] = Tail(@)]
        /\ UNCHANGED <<inbox, issued>>
    BY <1>10 DEF RecvHello
  <2>2. /\ conn \in Conns
        /\ inbox[conn] = <<>> /\ frames'[conn] = <<>>
        /\ frames' \in [Conns -> Seq([id : 0 .. MaxRequests, kind : ReplyKinds])]
        /\ \A n \in Conns \ {conn} : frames'[n] = frames[n]
    BY <2>1, <1>9
  <2>3. CASE Head(frames[conn]).kind = "ok"
    <3> USE DEF shared
    <3>1. /\ hello' = [hello EXCEPT ![t] = @ - 1]
          /\ pc' = [pc EXCEPT ![t] = "send"]
          /\ UNCHANGED <<shared, asked, result>>
      BY <1>10, <2>3 DEF RecvHello
    <3>2. /\ pc' \in [Threads -> {"idle", "lock", "dial", "send", "recv"}]
          /\ pc'[t] = "send"
          /\ \A u \in Threads \ {t} : pc'[u] = pc[u]
          /\ hello' \in [Threads -> 0 .. Hello]
      BY <1>0, <2>1, <3>1, RedisAssumption DEF TypeOK
    <3>3. \A u \in Threads \ {t} : pc[u] \notin Critical
      BY <1>0, <2>1, Alone DEF Critical
    <3>4. TypeOK' BY <1>0, <2>1, <2>2, <3>1, <3>2 DEF TypeOK
    <3>5. Holder' BY <1>0, <2>1, <3>1, <3>2 DEF Holder, Critical
    <3>6. Connected' BY <1>0, <2>1, <3>1, <3>2 DEF Connected
    <3>7. FreshConns'
      BY <1>0, <2>1, <2>2, <3>1, RedisAssumption
      DEF FreshConns, Silent, Connected, TypeOK, Conns
    <3>8. Quiet' BY <2>1, <2>2, <3>1 DEF Quiet, Silent
    <3>9. Pending' BY <3>2, <3>3 DEF Pending, Critical
    <3>10. NoLeak' /\ ReplyMatches' BY <1>0, <2>1, <3>1, <3>2 DEF NoLeak, ReplyMatches
    <3> QED BY <3>4, <3>5, <3>6, <3>7, <3>8, <3>9, <3>10 DEF IInv
  <2>4. CASE Head(frames[conn]).kind # "ok"
    <3>1. closeLocked /\ Return(t, NoReply("io")) BY <1>10, <2>4 DEF RecvHello
    <3> QED BY <1>0, <2>1, <2>2, <3>1, DropConn DEF TypeOK
  <2> QED BY <2>3, <2>4
<1>11. ASSUME NEW t \in Threads, Recv(t) PROVE IInv'
  <2> USE DEF KeepConn
  <2>1. /\ pc[t] = "recv" /\ hello[t] = 0 /\ frames[conn] # <<>>
        /\ frames' = [frames EXCEPT ![conn] = Tail(@)]
        /\ Return(t, Head(frames[conn]))
        /\ UNCHANGED <<conn, opened, open, inbox, issued>>
    BY <1>11 DEF Recv
  <2>2. /\ conn \in Conns
        /\ inbox[conn] = <<>> /\ frames'[conn] = <<>>
        /\ \E kind \in ReplyKinds : Head(frames[conn]) = Frame(Request(t), kind)
        /\ frames' \in [Conns -> Seq([id : 0 .. MaxRequests, kind : ReplyKinds])]
        /\ \A n \in Conns \ {conn} : frames'[n] = frames[n]
    BY <2>1, <1>9
  <2>3. PICK kind \in ReplyKinds : Head(frames[conn]) = Frame(Request(t), kind)
    BY <2>2
  <2> DEFINE r == Frame(asked[t], kind)
  <2>4. /\ Return(t, r) /\ r.id = asked[t]
        /\ r \in [id : 0 .. MaxRequests, kind : ReplyKinds \union {"none", "io"}]
    BY <1>0, <2>1, <2>3 DEF Request, Frame, TypeOK
  <2> HIDE DEF r
  <2>5. pc[t] \in Critical BY <2>1 DEF Critical
  <2>6. /\ mu' = "free" /\ asked' = asked
        /\ pc' \in [Threads -> {"idle", "lock", "dial", "send", "recv"}]
        /\ hello' \in [Threads -> 0 .. Hello]
        /\ result' \in [Threads -> [id : 0 .. MaxRequests,
                                    kind : ReplyKinds \union {"none", "io"}]]
        /\ \A u \in Threads : pc'[u] \notin Critical
        /\ Holder'
    BY <1>0, <2>4, <2>5, ReturnFacts
  <2>7. TypeOK' BY <1>0, <2>1, <2>2, <2>6 DEF TypeOK
  <2>8. Connected' BY <1>0, <2>1, <2>6 DEF Connected, Critical
  <2>9. FreshConns'
    BY <1>0, <2>1, <2>2, RedisAssumption DEF FreshConns, Silent, Connected, TypeOK, Conns
  <2>10. Quiet' BY <2>1, <2>2 DEF Quiet, Silent
  <2>11. Pending' BY <2>6 DEF Pending, Critical
  <2>12. NoLeak' BY <1>0, <2>1 DEF NoLeak
  <2>13. ReplyMatches' BY <2>4, <2>5, ReturnMatches
  <2> QED BY <2>6, <2>7, <2>8, <2>9, <2>10, <2>11, <2>12, <2>13 DEF IInv
<1>12. ASSUME NEW t \in Threads, Close(t) PROVE IInv'
  <2> USE DEF wire, local
  <2>1. /\ mu = "free" /\ conn' = 0 /\ opened' = opened /\ open' = {}
        /\ UNCHANGED <<mu, wire, local, issued>>
    BY <1>0, <1>12 DEF Close, closeLocked, NoLeak
  <2>2. \A u \in Threads : pc[u] \notin Critical
    BY <1>0, <2>1, RedisAssumption DEF Holder
  <2>3. TypeOK'
    <3>1. conn' \in 0 .. MaxConns /\ open' \subseteq Conns BY <2>1, RedisAssumption
    <3> QED BY <1>0, <2>1, <3>1 DEF TypeOK
  <2>4. Holder' BY <1>0, <2>1 DEF Holder
  <2>5. Connected' BY <1>0, <2>1, <2>2, RedisAssumption DEF Connected, Critical, TypeOK
  <2>6. FreshConns' BY <1>0, <2>1 DEF FreshConns, Silent
  <2>7. Quiet' /\ Pending' BY <2>1, <2>2 DEF Quiet, Pending, Critical
  <2>8. NoLeak' /\ ReplyMatches' BY <1>0, <2>1 DEF NoLeak, ReplyMatches
  <2> QED BY <2>3, <2>4, <2>5, <2>6, <2>7, <2>8 DEF IInv
<1>13. ASSUME NEW n \in Conns, Execute(n) PROVE IInv'
  <2> USE DEF shared, local
  <2>1. PICK kind \in ReplyKinds :
          frames' = [frames EXCEPT ![n] = Append(@, Frame(Head(inbox[n]), kind))]
    BY <1>13 DEF Execute
  <2>2. /\ inbox[n] # <<>>
        /\ inbox' = [inbox EXCEPT ![n] = Tail(@)]
        /\ UNCHANGED <<shared, local, issued>>
    BY <1>13 DEF Execute
  <2>3. /\ inbox \in [Conns -> Seq(0 .. MaxRequests)]
        /\ frames \in [Conns -> Seq([id : 0 .. MaxRequests, kind : ReplyKinds])]
    BY <1>0 DEF TypeOK
  <2>4. Frame(Head(inbox[n]), kind) \in [id : 0 .. MaxRequests, kind : ReplyKinds]
    <3>1. Head(inbox[n]) \in 0 .. MaxRequests BY <2>2, <2>3, HeadTailProperties
    <3> QED BY <3>1 DEF Frame
  <2>5. /\ inbox' \in [Conns -> Seq(0 .. MaxRequests)]
        /\ frames' \in [Conns -> Seq([id : 0 .. MaxRequests, kind : ReplyKinds])]
        /\ \A m \in Conns \ {n} : inbox'[m] = inbox[m] /\ frames'[m] = frames[m]
    <3>1. Tail(inbox[n]) \in Seq(0 .. MaxRequests) BY <2>2, <2>3, HeadTailProperties
    <3> DEFINE F == Frame(Head(inbox[n]), kind)
    <3> HIDE DEF F
    <3>2. Append(frames[n], F) \in Seq([id : 0 .. MaxRequests, kind : ReplyKinds])
      <4>1. F \in [id : 0 .. MaxRequests, kind : ReplyKinds] BY <2>4 DEF F
      <4> QED BY <2>3, <4>1, AppendProperties
    <3>3. frames' = [frames EXCEPT ![n] = Append(frames[n], F)] BY <2>1 DEF F
    <3>4. /\ inbox' \in [Conns -> Seq(0 .. MaxRequests)]
          /\ \A m \in Conns \ {n} : inbox'[m] = inbox[m]
      BY <2>2, <2>3, <3>1, SetQueue
    <3>5. /\ frames' \in [Conns -> Seq([id : 0 .. MaxRequests, kind : ReplyKinds])]
          /\ \A m \in Conns \ {n} : frames'[m] = frames[m]
      BY <2>3, <3>2, <3>3, SetQueue
    <3> QED BY <3>4, <3>5
  <2>6. TypeOK' BY <1>0, <2>2, <2>5 DEF TypeOK
  <2>7. Holder' BY <1>0, <2>2 DEF Holder
  <2>8. Connected' BY <1>0, <2>2 DEF Connected
  <2>9. FreshConns'
    BY <1>0, <2>2, <2>5 DEF FreshConns, Silent
  <2>10. ASSUME NEW t \in Threads, pc[t] = "recv" PROVE Asking(t)' \/ Answered(t)'
    <3>0. Request(t)' = Request(t) BY <2>2 DEF Request
    <3>1. CASE n = conn
      <4>1. inbox[conn] = <<Request(t)>> /\ frames[conn] = <<>>
        BY <1>0, <2>2, <2>10, <3>1 DEF Pending, Asking, Answered
      <4>2. Request(t) \in 0 .. MaxRequests BY <1>0, RequestIsNumber
      <4>3. Head(inbox[n]) = Request(t) /\ Tail(inbox[n]) = <<>>
        BY <3>1, <4>1, <4>2, SingleQueue
      <4>4. Append(frames[n], Frame(Head(inbox[n]), kind)) = <<Frame(Request(t), kind)>>
        BY <3>1, <4>1, <4>3, <2>4, SingleQueue
      <4>5. inbox'[conn] = <<>> /\ frames'[conn] = <<Frame(Request(t), kind)>>
        BY <2>1, <2>2, <2>3, <3>1, <4>3, <4>4
      <4> QED BY <2>2, <3>0, <4>5 DEF Answered
    <3>2. CASE n # conn
      <4>1. conn \in Conns BY <1>0, <2>10, CurrentIsConn DEF Connected
      <4> QED BY <1>0, <2>2, <2>5, <2>10, <3>0, <3>2, <4>1 DEF Pending, Asking, Answered
    <3> QED BY <3>1, <3>2
  <2>11. Pending' BY <2>2, <2>10 DEF Pending
  <2>12. Quiet'
    <3> SUFFICES ASSUME conn' # 0, \A t \in Threads : pc'[t] # "recv" PROVE Silent(conn)'
      BY DEF Quiet
    <3>1. Silent(conn) BY <1>0, <2>2 DEF Quiet
    <3>2. n # conn BY <3>1, <2>2 DEF Silent
    <3>3. conn \in Conns BY <1>0, <2>2, CurrentIsConn
    <3> QED BY <2>2, <2>5, <3>1, <3>2, <3>3 DEF Silent
  <2>13. NoLeak' /\ ReplyMatches' BY <1>0, <2>2 DEF NoLeak, ReplyMatches
  <2> QED BY <2>6, <2>7, <2>8, <2>9, <2>11, <2>12, <2>13 DEF IInv
<1> QED
  BY <1>1, <1>2, <1>3, <1>4, <1>5, <1>6, <1>7, <1>8, <1>10, <1>11, <1>12, <1>13
  DEF Next, Step

(* The wire of the Redis client, in every reachable state: the current        *)
(* connection carries at most one command or one reply, that of the holder    *)
(* of the mutex.                                                              *)
THEOREM IInvHolds == Spec => []IInv
BY IInvInit, IInvStep, PTL DEF Spec

(* Types, for every run of redis.go. *)
THEOREM TypeOKHolds == Spec => []TypeOK
<1>1. IInv => TypeOK BY DEF IInv
<1> QED BY <1>1, IInvHolds, PTL

(* A reply that Do returns answers the command that Do sent, however many     *)
(* goroutines, timeouts, broken connections and handshakes went before.       *)
THEOREM ReplyMatchesHolds == Spec => []ReplyMatches
<1>1. IInv => ReplyMatches BY DEF IInv
<1> QED BY <1>1, IInvHolds, PTL

(* Every connection but the current one has been closed by the client. *)
THEOREM NoLeakHolds == Spec => []NoLeak
<1>1. IInv => NoLeak BY DEF IInv
<1> QED BY <1>1, IInvHolds, PTL
=============================================================================
