----------------------------- MODULE MCRunHTTP -----------------------------
(* Small instances of RunHTTP for TLC. *)
EXTENDS RunHTTP

Worker    == [nil |-> FALSE, has |-> {"Start", "Stop", "Wait"}, until |-> {"stop"}]
Detached  == [nil |-> FALSE, has |-> {"Start", "Stop"}, until |-> {"ctx", "stop"}]
Stoppable == [nil |-> FALSE, has |-> {"Stop"}, until |-> {}]
CtxWorker == [nil |-> FALSE, has |-> {"Start", "Wait"}, until |-> {"ctx"}]
NilService == [nil |-> TRUE, has |-> {}, until |-> {}]

AllKinds == {Worker, Detached, Stoppable, CtxWorker, NilService}
CtxKind == {CtxWorker}
MCNilClosers == {2}
=============================================================================
