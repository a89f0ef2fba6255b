------------------------------ MODULE RunHTTP ------------------------------
(* app.RunHTTP (src/app/runtime.go): start the background services, serve     *)
(* HTTP until a signal or a server error, then shut the server down, stop and *)
(* wait for the services in reverse order and close the resources in reverse  *)
(* order.  It runs beside the server goroutine, the request handlers, the     *)
(* services' own goroutines and the signals.                                  *)
(*                                                                            *)
(* net/http and the services are external: a service is what the optional     *)
(* interfaces Background, Stopper and Waiter let RunHTTP call, and what makes *)
(* its goroutine end - the context given to Start, or Stop.                   *)
EXTENDS Naturals, Sequences, SequencesExt

CONSTANTS
    Kinds,          \* the kinds of service the application may register
    NumServices,    \* length of Options.Backgrounds
    NumClosers,     \* length of Options.Closers
    NilClosers,     \* the positions of Options.Closers that hold nil
    MaxHandlers     \* bound: requests in flight

Interfaces == {"Start", "Stop", "Wait"}

\* A kind of service: nil, or its methods and what ends its goroutine.
ASSUME KindsAssumption ==
    \A d \in Kinds : d.nil \in BOOLEAN /\ d.has \subseteq Interfaces
                     /\ d.until \subseteq {"ctx", "stop"}

ASSUME SizeAssumption == /\ NumServices \in Nat /\ NumClosers \in Nat
                         /\ NilClosers \subseteq 1 .. NumClosers
                         /\ MaxHandlers \in Nat

Services == 1 .. NumServices

VARIABLES
    kind,       \* Options.Backgrounds
    pc,         \* where RunHTTP is
    next,       \* the index of the loop RunHTTP is in
    started,    \* the services started so far, in order
    ctxDone,    \* the context of signal.NotifyContext is cancelled
    worker,     \* the goroutine of each service
    server,     \* the goroutine that runs ListenAndServe
    errCh,      \* the channel it reports on
    inShutdown, \* srv.Shutdown has been called
    handlers,   \* requests in flight
    stops,      \* the services Stop was called on, in order
    closeCalls, \* the closers Close was called on, in order
    failures,   \* history: which kinds of error occurred
    result      \* the errors RunHTTP returns

workers  == <<kind, started, worker>>
http     == <<server, errCh, inShutdown, handlers>>
released == <<stops, closeCalls>>
errors   == <<failures, result>>

httpVars == <<workers, http, released, errors, pc, next, ctxDone>>

Has(s, method) == method \in kind[s].has

HTTPInit == /\ kind \in [Services -> Kinds]
            /\ pc = "starting"
            /\ next = 1
            /\ started = <<>>
            /\ ctxDone = FALSE
            /\ worker = [s \in Services |-> "none"]
            /\ server = "none"
            /\ errCh = <<>>
            /\ inShutdown = FALSE
            /\ handlers = 0
            /\ stops = <<>>
            /\ closeCalls = <<>>
            /\ failures = {}
            /\ result = {}

\* An error met on the way.  After a failed Start only that error is returned.
Fail(err) ==
    /\ failures' = failures \union {err}
    /\ result' = IF "start" \in result THEN result ELSE result \union {err}

NoFailure == UNCHANGED errors

-----------------------------------------------------------------------------
(* RunHTTP itself: the loop that starts the services ... *)
StartService ==
    /\ pc = "starting" /\ next <= NumServices
    /\ IF kind[next].nil
       THEN UNCHANGED <<started, worker>>
       ELSE /\ started' = Append(started, next)
            /\ worker' = IF Has(next, "Start") THEN [worker EXCEPT ![next] = "running"]
                                               ELSE worker
    /\ next' = next + 1
    /\ NoFailure
    /\ UNCHANGED <<http, released, kind, pc, ctxDone>>

\* Mutant: the early return releases nothing.
StartFailsAtOnce ==
    /\ pc = "starting" /\ next <= NumServices
    /\ ~kind[next].nil /\ Has(next, "Start")
    /\ Fail("start")
    /\ pc' = "returned" /\ ctxDone' = TRUE
    /\ UNCHANGED <<workers, http, released, next>>

(* ... its early return, by way of stopBackgrounds and closeResources ... *)
StartFails ==
    /\ pc = "starting" /\ next <= NumServices
    /\ ~kind[next].nil /\ Has(next, "Start")
    /\ Fail("start")
    /\ pc' = "stopping" /\ next' = Len(started)
    /\ UNCHANGED <<workers, http, released, ctxDone>>

(* ... and the goroutine for the server. *)
StartServer ==
    /\ pc = "starting" /\ next > NumServices
    /\ server' = "starting"
    /\ pc' = "select"
    /\ NoFailure
    /\ UNCHANGED <<workers, released, errCh, inShutdown, handlers, next, ctxDone>>

(* The select: either case, when both are ready.  srv.Shutdown comes next. *)
SelectSignal ==
    /\ pc = "select" /\ ctxDone
    /\ pc' = "shutdown" /\ inShutdown' = TRUE
    /\ NoFailure
    /\ UNCHANGED <<workers, released, server, errCh, handlers, next, ctxDone>>

SelectError ==
    /\ pc = "select" /\ errCh # <<>>
    /\ errCh' = Tail(errCh)
    /\ result' = result \union ({Head(errCh)} \ {"nil"})
    /\ pc' = "shutdown" /\ inShutdown' = TRUE
    /\ UNCHANGED <<workers, released, server, handlers, failures, next, ctxDone>>

(* srv.Shutdown returns when no request is in flight, or at its timeout. *)
ShutdownDone ==
    /\ pc = "shutdown" /\ handlers = 0
    /\ pc' = "stopping" /\ next' = Len(started)
    /\ NoFailure
    /\ UNCHANGED <<workers, http, released, ctxDone>>

\* Mutant: the error of Shutdown is dropped.
ShutdownTimeoutIgnored ==
    /\ pc = "shutdown" /\ handlers > 0
    /\ pc' = "stopping" /\ next' = Len(started)
    /\ NoFailure
    /\ UNCHANGED <<workers, http, released, ctxDone>>

ShutdownTimeout ==
    /\ pc = "shutdown" /\ handlers > 0
    /\ Fail("shutdown")
    /\ pc' = "stopping" /\ next' = Len(started)
    /\ UNCHANGED <<workers, http, released, ctxDone>>

\* Mutant: a service that has a Wait is only waited for.
StopServiceOrWait ==
    /\ pc = "stopping" /\ next > 0
    /\ IF Has(started[next], "Stop") /\ ~Has(started[next], "Wait")
       THEN stops' = Append(stops, started[next]) /\ (NoFailure \/ Fail("stop"))
       ELSE UNCHANGED stops /\ NoFailure
    /\ pc' = "waiting"
    /\ UNCHANGED <<workers, http, closeCalls, next, ctxDone>>

(* stopBackgrounds, last service first: Stop, which may report an error ... *)
StopService ==
    /\ pc = "stopping" /\ next > 0
    /\ IF Has(started[next], "Stop")
       THEN stops' = Append(stops, started[next]) /\ (NoFailure \/ Fail("stop"))
       ELSE UNCHANGED stops /\ NoFailure
    /\ pc' = "waiting"
    /\ UNCHANGED <<workers, http, closeCalls, next, ctxDone>>

\* Mutant: Stop is taken to be enough.
WaitServiceNot ==
    /\ pc = "waiting"
    /\ pc' = "stopping" /\ next' = next - 1
    /\ NoFailure
    /\ UNCHANGED <<workers, http, released, ctxDone>>

(* ... then Wait, which has no timeout. *)
WaitService ==
    /\ pc = "waiting"
    /\ Has(started[next], "Wait") => worker[started[next]] # "running"
    /\ pc' = "stopping" /\ next' = next - 1
    /\ NoFailure
    /\ UNCHANGED <<workers, http, released, ctxDone>>

StopsDone ==
    /\ pc = "stopping" /\ next = 0
    /\ pc' = "closing" /\ next' = NumClosers
    /\ NoFailure
    /\ UNCHANGED <<workers, http, released, ctxDone>>

\* Mutant: the loop runs down to index 0 of a list that starts at 1.
CloseResourcePastEnd ==
    /\ pc = "closing" /\ next >= 0 /\ Len(closeCalls) <= NumClosers
    /\ IF next \in NilClosers
       THEN UNCHANGED closeCalls /\ NoFailure
       ELSE closeCalls' = Append(closeCalls, next) /\ (NoFailure \/ Fail("close"))
    /\ next' = next - 1
    /\ UNCHANGED <<workers, http, stops, pc, ctxDone>>

(* closeResources, last closer first, nil ones skipped. *)
CloseResource ==
    /\ pc = "closing" /\ next > 0
    /\ IF next \in NilClosers
       THEN UNCHANGED closeCalls /\ NoFailure
       ELSE closeCalls' = Append(closeCalls, next) /\ (NoFailure \/ Fail("close"))
    /\ next' = next - 1
    /\ UNCHANGED <<workers, http, stops, pc, ctxDone>>

(* The deferred stopNotify cancels the context the services were given. *)
Return ==
    /\ pc = "closing" /\ next = 0
    /\ pc' = "returned" /\ ctxDone' = TRUE
    /\ NoFailure
    /\ UNCHANGED <<workers, http, released, next>>

Main == \/ StartService \/ StartFails \/ StartServer \/ SelectSignal \/ SelectError
        \/ ShutdownDone \/ ShutdownTimeout \/ StopService \/ WaitService \/ StopsDone
        \/ CloseResource \/ Return

-----------------------------------------------------------------------------
(* The goroutine of ListenAndServe, net/http's side of it external.  It fails *)
(* to listen, or later to accept; once Shutdown was called it ends without an *)
(* error, even if it had not begun to listen.                                 *)
Listen ==
    /\ server = "starting" /\ ~inShutdown
    /\ server' = "listening"
    /\ UNCHANGED <<workers, released, errors, errCh, inShutdown, handlers, pc, next, ctxDone>>

\* Mutant: the goroutine sends nothing when ListenAndServe fails.
ServerFailsSilently ==
    /\ server = "starting" \/ (server = "listening" /\ ~inShutdown)
    /\ server' = "done"
    /\ failures' = failures \union {"serve"}
    /\ UNCHANGED <<workers, released, errCh, inShutdown, handlers, result, pc, next, ctxDone>>

ServerFails ==
    /\ server = "starting" \/ (server = "listening" /\ ~inShutdown)
    /\ server' = "done"
    /\ errCh' = Append(errCh, "serve")
    /\ failures' = failures \union {"serve"}
    /\ UNCHANGED <<workers, released, inShutdown, handlers, result, pc, next, ctxDone>>

ServerClosed ==
    /\ server \in {"starting", "listening"} /\ inShutdown
    /\ server' = "done"
    /\ errCh' = Append(errCh, "nil")
    /\ UNCHANGED <<workers, released, errors, inShutdown, handlers, pc, next, ctxDone>>

Server == Listen \/ ServerFails \/ ServerClosed

Request ==
    /\ server = "listening" /\ ~inShutdown /\ handlers < MaxHandlers
    /\ handlers' = handlers + 1
    /\ UNCHANGED <<workers, released, errors, server, errCh, inShutdown, pc, next, ctxDone>>

Respond ==
    /\ handlers > 0
    /\ handlers' = handlers - 1
    /\ UNCHANGED <<workers, released, errors, server, errCh, inShutdown, pc, next, ctxDone>>

(* SIGINT, SIGTERM, or the caller's context. *)
Signal ==
    /\ ~ctxDone
    /\ ctxDone' = TRUE
    /\ UNCHANGED <<workers, http, released, errors, pc, next>>

(* The goroutine of a service ends once it was asked to in a way it heeds. *)
WorkerExits(s) ==
    /\ worker[s] = "running"
    /\ \/ "ctx" \in kind[s].until /\ ctxDone
       \/ "stop" \in kind[s].until /\ s \in ToSet(stops)
    /\ worker' = [worker EXCEPT ![s] = "exited"]
    /\ UNCHANGED <<http, released, errors, kind, started, pc, next, ctxDone>>

(* main returns after RunHTTP; what is left of the goroutines goes with it. *)
Ended == pc = "returned" /\ UNCHANGED httpVars

HTTPNext == \/ Main \/ Server \/ Request \/ Respond \/ Signal \/ Ended
            \/ \E s \in Services : WorkerExits(s)

(* The scheduler runs RunHTTP and the server goroutine, Shutdown's timer      *)
(* fires, and a service that was asked to end does.  Nothing makes a signal   *)
(* come or a handler finish.                                                  *)
HTTPSpec == /\ HTTPInit /\ [][HTTPNext]_httpVars
            /\ WF_httpVars(Main) /\ WF_httpVars(Server)
            /\ \A s \in Services : WF_httpVars(WorkerExits(s))

-----------------------------------------------------------------------------
\* Types; errCh holds one error at most, and every closed index is a closer (runtime.go).
HTTPTypeOK == /\ kind \in [Services -> Kinds]
              /\ pc \in {"starting", "select", "shutdown", "stopping", "waiting", "closing",
                         "returned"}
              /\ next \in Nat
              /\ started \in Seq(Services)
              /\ ctxDone \in BOOLEAN /\ inShutdown \in BOOLEAN
              /\ worker \in [Services -> {"none", "running", "exited"}]
              /\ server \in {"none", "starting", "listening", "done"}
              /\ errCh \in Seq({"serve", "nil"}) /\ Len(errCh) <= 1
              /\ handlers \in 0 .. MaxHandlers
              /\ stops \in Seq(Services)
              /\ closeCalls \in Seq(1 .. NumClosers)
              /\ failures \subseteq {"start", "serve", "shutdown", "stop", "close"}
              /\ result \subseteq failures

(* No resource is closed under somebody who may still use it: when the first  *)
(* closer runs, on every path, each started service with a Stop was stopped   *)
(* and each one with a Wait has ended (runtime.go:118-134 before 138-150),    *)
(* and requests are in flight only if Shutdown reported its timeout.          *)
CloseAfterWork ==
    closeCalls # <<>> =>
        /\ \A i \in DOMAIN started :
             /\ Has(started[i], "Stop") => started[i] \in ToSet(stops)
             /\ Has(started[i], "Wait") => worker[started[i]] # "running"
        /\ handlers > 0 => "shutdown" \in failures

\* Services and closers are numbered in the order in which they are given.
Descending(seq) == \A i, j \in DOMAIN seq : i < j => seq[i] > seq[j]

(* Whatever path led there, RunHTTP returns only after it has stopped exactly *)
(* the services it had started, and closed every resource exactly once, each  *)
(* in reverse order: a failing Start, Stop, Shutdown or Close stops nothing.  *)
ReleasedInReverse ==
    pc = "returned" =>
        /\ Descending(stops)
        /\ ToSet(stops) = {s \in ToSet(started) : Has(s, "Stop")}
        /\ Descending(closeCalls)
        /\ ToSet(closeCalls) = (1 .. NumClosers) \ NilClosers

(* A nil result means a clean exit: nothing failed on the way and no request  *)
(* is left behind - except that a server error is not reported when the       *)
(* signal is found first by the select of runtime.go:89-96.                   *)
NilMeansClean ==
    pc = "returned" /\ result = {} => /\ handlers = 0
                                      /\ failures \subseteq {"serve"}
                                      /\ "serve" \in failures => errCh # <<>>

(* A signal brings RunHTTP to its return, whatever requests hang: every       *)
(* service ends on the context or on Stop.                                    *)
SignalReturns == ctxDone ~> pc = "returned"

(* A failed Start or a server error does so too, without a signal, when every *)
(* service that is waited for (runtime.go:131-133) ends on Stop.              *)
HeedsStop(s) == Has(s, "Start") /\ Has(s, "Wait")
                  => Has(s, "Stop") /\ "stop" \in kind[s].until

StoppableReturns ==
    failures \intersect {"serve", "start"} # {} /\ (\A s \in Services : HeedsStop(s))
      ~> pc = "returned"

(* runtime_test.go:22-26 expects RunHTTP to return the listen error and "to   *)
(* run" the closers "after listen error".                                     *)
FailureReturns == failures \intersect {"serve", "start"} # {} ~> pc = "returned"
=============================================================================
