----------------------------- MODULE RedisConn -----------------------------
(* The Redis client of src/cache/redis.go: goroutines share one connection    *)
(* under a mutex, dial it on demand, and close it when a command fails in a   *)
(* way that leaves the reply stream unknown.  Requests and replies carry no   *)
(* ids on the wire; here they do, so that a reply read by the wrong command   *)
(* shows.  The server (external) executes what reached it, even after the     *)
(* client has given up on the connection.                                     *)
EXTENDS Naturals, Sequences

CONSTANTS
    Threads,        \* goroutines that share the client
    Timed,          \* those of them whose contexts have a deadline
    Hello,          \* number of commands of the handshake: AUTH, SELECT, PING
    ReplyKinds,     \* how the server may answer: "ok", "nil", "error"
    MaxRequests,    \* bound: commands issued
    MaxConns        \* bound: connections dialled

ASSUME RedisAssumption ==
    /\ "free" \notin Threads /\ Timed \subseteq Threads
    /\ Hello \in Nat \ {0} /\ MaxRequests \in Nat /\ MaxConns \in Nat \ {0}
    /\ ReplyKinds \subseteq {"ok", "nil", "error"}

VARIABLES
    mu,         \* the goroutine that holds client.mu, or "free"
    conn,       \* client.conn: the number of a connection, 0 for nil
    opened,     \* how many connections have been dialled
    open,       \* connections not yet closed by the client
    inbox,      \* per connection: requests the server has not executed yet
    frames,     \* per connection: replies the client has not read yet
    pc,         \* where each goroutine is inside Do
    asked,      \* the request of each goroutine's current or last Do
    hello,      \* handshake commands it still has to do before that
    result,     \* what the last Do of each goroutine returned
    issued      \* how many requests have been issued

shared == <<mu, conn, opened, open>>
wire == <<inbox, frames>>
local == <<pc, asked, hello, result>>
vars == <<shared, wire, local, issued>>

Conns == 1 .. MaxConns

\* A handshake command is request 0.
Frame(id, kind) == [id |-> id, kind |-> kind]

NoReply(kind) == Frame(0, kind)

-----------------------------------------------------------------------------
(* OpenRedisClient: a required client is handed out connected, with its       *)
(* handshake done; any other dials at the first Do.                           *)
Init == /\ mu = "free"
        /\ conn \in {0, 1}
        /\ opened = conn
        /\ open = {conn} \ {0}
        /\ inbox = [n \in Conns |-> <<>>]
        /\ frames = [n \in Conns |-> <<>>]
        /\ pc = [t \in Threads |-> "idle"]
        /\ asked = [t \in Threads |-> 0]
        /\ hello = [t \in Threads |-> 0]
        /\ result = [t \in Threads |-> NoReply("none")]
        /\ issued = 0

Do(t) ==
    /\ pc[t] = "idle" /\ issued < MaxRequests
    /\ issued' = issued + 1
    /\ asked' = [asked EXCEPT ![t] = issued + 1]
    /\ pc' = [pc EXCEPT ![t] = "lock"]
    /\ UNCHANGED <<shared, wire, hello, result>>

(* The context is done before Do begins: Do does not even lock. *)
DoExpired(t) ==
    /\ pc[t] = "idle" /\ issued < MaxRequests
    /\ issued' = issued + 1
    /\ asked' = [asked EXCEPT ![t] = issued + 1]
    /\ result' = [result EXCEPT ![t] = NoReply("io")]
    /\ UNCHANGED <<shared, wire, pc, hello>>

(* mu.Lock, which does not look at the context, then conn == nil or not. *)
Lock(t) ==
    /\ pc[t] = "lock" /\ mu = "free"
    /\ mu' = t
    /\ pc' = [pc EXCEPT ![t] = IF conn = 0 THEN "dial" ELSE "send"]
    /\ UNCHANGED <<conn, opened, open, wire, asked, hello, result, issued>>

\* Do returns and the deferred Unlock runs.
Return(t, reply) ==
    /\ result' = [result EXCEPT ![t] = reply]
    /\ pc' = [pc EXCEPT ![t] = "idle"]
    /\ hello' = [hello EXCEPT ![t] = 0]
    /\ mu' = "free"
    /\ UNCHANGED asked

KeepConn == UNCHANGED <<conn, opened, open>>

closeLocked ==
    /\ conn' = 0
    /\ open' = open \ {conn}
    /\ UNCHANGED opened

(* connectLocked: dial, then the handshake by way of doLocked. *)
Dial(t) ==
    /\ pc[t] = "dial" /\ opened < MaxConns
    /\ opened' = opened + 1
    /\ conn' = opened + 1
    /\ open' = open \union {opened + 1}
    /\ hello' = [hello EXCEPT ![t] = Hello]
    /\ pc' = [pc EXCEPT ![t] = "send"]
    /\ UNCHANGED <<mu, wire, asked, result, issued>>

\* Mutant: the mutex is not released on this path.
DialFailsLocked(t) ==
    /\ pc[t] = "dial"
    /\ result' = [result EXCEPT ![t] = NoReply("io")]
    /\ pc' = [pc EXCEPT ![t] = "idle"]
    /\ UNCHANGED <<shared, wire, asked, hello, issued>>

DialFails(t) ==
    /\ pc[t] = "dial"
    /\ Return(t, NoReply("io"))
    /\ KeepConn
    /\ UNCHANGED <<wire, issued>>

\* The request doLocked works on: a handshake command, or the caller's.
Request(t) == IF hello[t] > 0 THEN 0 ELSE asked[t]

(* doLocked: write the command, ... *)
Send(t) ==
    /\ pc[t] = "send"
    /\ inbox' = [inbox EXCEPT ![conn] = Append(@, Request(t))]
    /\ pc' = [pc EXCEPT ![t] = "recv"]
    /\ UNCHANGED <<shared, frames, asked, hello, result, issued>>

(* ... or fail to - the context has expired, the peer is gone - after the     *)
(* server may have received it: the connection is closed ...                  *)
SendFails(t) ==
    /\ pc[t] = "send"
    /\ \/ inbox' = [inbox EXCEPT ![conn] = Append(@, Request(t))]
       \/ UNCHANGED inbox
    /\ closeLocked
    /\ Return(t, NoReply("io"))
    /\ UNCHANGED <<frames, issued>>

\* Mutant: a refused handshake drops the connection without closing it.
RecvHelloForgets(t) ==
    /\ pc[t] = "recv" /\ hello[t] > 0 /\ frames[conn] # <<>>
    /\ frames' = [frames EXCEPT ![conn] = Tail(@)]
    /\ IF Head(frames[conn]).kind = "ok"
       THEN /\ hello' = [hello EXCEPT ![t] = @ - 1]
            /\ pc' = [pc EXCEPT ![t] = "send"]
            /\ UNCHANGED <<shared, asked, result>>
       ELSE /\ conn' = 0 /\ UNCHANGED <<opened, open>>
            /\ Return(t, NoReply("io"))
    /\ UNCHANGED <<inbox, issued>>

(* ... and read one reply.  connectLocked closes the connection on any error  *)
(* reply; Do keeps it when the reply was nil or a command error.              *)
RecvHello(t) ==
    /\ pc[t] = "recv" /\ hello[t] > 0 /\ frames[conn] # <<>>
    /\ frames' = [frames EXCEPT ![conn] = Tail(@)]
    /\ IF Head(frames[conn]).kind = "ok"
       THEN /\ hello' = [hello EXCEPT ![t] = @ - 1]
            /\ pc' = [pc EXCEPT ![t] = "send"]
            /\ UNCHANGED <<shared, asked, result>>
       ELSE closeLocked /\ Return(t, NoReply("io"))
    /\ UNCHANGED <<inbox, issued>>

\* Mutant: the reply of a command is taken apart as the handshake's is.
RecvAsHello(t) ==
    /\ pc[t] = "recv" /\ hello[t] = 0 /\ frames[conn] # <<>>
    /\ frames' = [frames EXCEPT ![conn] = Tail(@)]
    /\ hello' = [hello EXCEPT ![t] = @ - 1]
    /\ pc' = [pc EXCEPT ![t] = "send"]
    /\ UNCHANGED <<shared, inbox, asked, result, issued>>

Recv(t) ==
    /\ pc[t] = "recv" /\ hello[t] = 0 /\ frames[conn] # <<>>
    /\ frames' = [frames EXCEPT ![conn] = Tail(@)]
    /\ Return(t, Head(frames[conn]))
    /\ KeepConn
    /\ UNCHANGED <<inbox, issued>>

\* Mutant: a timeout leaves the connection open.
RecvFailsKeeps(t) ==
    /\ pc[t] = "recv"
    /\ KeepConn
    /\ Return(t, NoReply("io"))
    /\ UNCHANGED <<wire, issued>>

(* The deadline passes, or the connection breaks, before the reply. *)
RecvFails(t) ==
    /\ pc[t] = "recv"
    /\ closeLocked
    /\ Return(t, NoReply("io"))
    /\ UNCHANGED <<wire, issued>>

(* Close, by any goroutine; a later Do dials again. *)
Close(t) ==
    /\ pc[t] = "idle" /\ mu = "free"
    /\ closeLocked
    /\ UNCHANGED <<mu, wire, local, issued>>

(* The server executes the requests of a connection in order and answers. *)
Execute(n) ==
    /\ inbox[n] # <<>>
    /\ inbox' = [inbox EXCEPT ![n] = Tail(@)]
    /\ \E kind \in ReplyKinds :
         frames' = [frames EXCEPT ![n] = Append(@, Frame(Head(inbox[n]), kind))]
    /\ UNCHANGED <<shared, local, issued>>

\* What the goroutine that holds the mutex does next.
Step(t) == \/ Dial(t) \/ DialFails(t) \/ Send(t) \/ SendFails(t)
           \/ RecvHello(t) \/ Recv(t) \/ RecvFails(t)

Next == \/ \E t \in Threads : Do(t) \/ DoExpired(t) \/ Lock(t) \/ Step(t) \/ Close(t)
        \/ \E n \in Conns : Execute(n)

(* A goroutine in the critical section goes on when its context has a         *)
(* deadline (setDeadline); without one nothing makes the peer answer.         *)
(* sync.Mutex hands itself to a goroutine that has waited long enough.        *)
Spec == /\ Init /\ [][Next]_vars
        /\ \A t \in Threads : SF_vars(Lock(t))
        /\ \A t \in Timed : WF_vars(Step(t))

-----------------------------------------------------------------------------
\* Types; the mutex of the client (redis.go) is free or has one holder.
TypeOK == /\ mu \in Threads \union {"free"}
          /\ conn \in 0 .. MaxConns /\ opened \in 0 .. MaxConns
          /\ open \subseteq Conns
          /\ inbox \in [Conns -> Seq(0 .. MaxRequests)]
          /\ frames \in [Conns -> Seq([id : 0 .. MaxRequests, kind : ReplyKinds])]
          /\ pc \in [Threads -> {"idle", "lock", "dial", "send", "recv"}]
          /\ asked \in [Threads -> 0 .. MaxRequests]
          /\ hello \in [Threads -> 0 .. Hello]
          /\ result \in [Threads -> [id : 0 .. MaxRequests,
                                     kind : ReplyKinds \union {"none", "io"}]]
          /\ issued \in 0 .. MaxRequests

(* A reply that Do returns answers the command Do sent: a late reply to a     *)
(* command that timed out, or to the handshake, is never read by another      *)
(* command (redis.go:214-216 closes the connection before it can be).         *)
ReplyMatches ==
    \A t \in Threads : pc[t] = "idle" /\ result[t].kind \in ReplyKinds
                         => result[t].id = asked[t]

(* No connection is left open behind: whatever failed during the dial, the    *)
(* handshake or a command, the client has closed every connection but its     *)
(* current one.                                                               *)
NoLeak == open \subseteq {conn}

(* When every caller has a deadline no goroutine waits for the mutex for      *)
(* ever: each path through Do (redis.go:196-218) gives it back.               *)
DoReturns == \A t \in Threads : pc[t] = "lock" ~> pc[t] = "idle"
=============================================================================
