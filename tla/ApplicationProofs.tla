------------------------- MODULE ApplicationProofs -------------------------
(* The life of an application: Bootstrap for every configuration, every set   *)
(* of connections and stores and every component that may be added, and       *)
(* RunHTTP, in which it ends, for every list of services and closers.         *)
EXTENDS Bootstrap, RunHTTP, FiniteSetTheorems, SequenceTheorems, WellFoundedInduction, TLAPS

Components == Own \union Extras

Positions(list, v) == {i \in DOMAIN list : list[i] = v}

Count(list, v) == Cardinality(Positions(list, v))

(* The closers that are still to be called: those of the container until      *)
(* RunHTTP has its lists, then those of RunHTTP.                              *)
Pending == IF stage \in {"serve", "closing"} THEN options.closers ELSE comps.closers

Container(c) == c = [values |-> c.values, names |-> c.names,
                     backgrounds |-> c.backgrounds, closers |-> c.closers]

(* The lists and the container are well-formed. *)
Shape ==
    /\ Container(comps)
    /\ options = [backgrounds |-> options.backgrounds, closers |-> options.closers]
    /\ comps.backgrounds \in Seq(Extras) /\ options.backgrounds \in Seq(Extras)
    /\ comps.closers \in Seq(Closable) /\ options.closers \in Seq(Closable)
    /\ input \in Inputs
    /\ \A map \in {"connections", "stores"} : Entries(cfg, map) \subseteq Names

(* Until the application's own code runs nothing has been closed, and only    *)
(* the databases are with the container.                                      *)
Starting ==
    stage \in {"load", "databases", "cache"} =>
        /\ opened \subseteq Pools \union Clients
        /\ stage = "load" => opened = {}
        /\ \A r \in Resources : closes[r] = 0
        /\ closed = {} /\ services = {} /\ comps.backgrounds = <<>> /\ comps.names = <<>>
        /\ comps.closers = IF stage = "cache" THEN <<"dbs">> ELSE <<>>
        /\ DOMAIN comps.values = IF stage = "cache" THEN {"config", "dbs", "sqldb"} ELSE {}
        /\ \A v \in Components : times[v] = IF v = "dbs" /\ stage = "cache" THEN 1 ELSE 0
        /\ \A u \in Components : uses[u] \subseteq IF u = "cache" THEN {"dbs"} ELSE {}

Up == stage \in {"app", "serve", "closing"}

(* Every closing is accounted for: what is pending and what has been closed   *)
(* add up to what the container was given.                                    *)
Accounts ==
    Up =>
        /\ times["dbs"] = 1 /\ times["cache"] = 1 /\ times["token"] = 1
        /\ times["config"] = 0 /\ times["sqldb"] = 0
        /\ \A v \in Components : Count(Pending, v) <= times[v]
        /\ \A v \in Components : v \in closed <=> Count(Pending, v) < times[v]
        /\ stage # "closing" => closed = {}
        /\ \A r \in Pools : closes[r] = IF r \in opened THEN 1 - Count(Pending, "dbs") ELSE 0
        /\ \A r \in Clients : closes[r] = IF r \in opened THEN 1 - Count(Pending, "cache") ELSE 0
        /\ \A e \in Extras : closes[<<"extra", e>>] = times[e] - Count(Pending, e)

(* A component that is given to the container once stands before all those    *)
(* that were built on it; one that was not built yet is not in the list.      *)
Ordered ==
    Up =>
        /\ \A e \in Extras : <<"extra", e>> \notin opened => times[e] = 0
        /\ \A u \in Components : \A v \in uses[u] : times[v] > 0
        /\ \A u \in Components : \A v \in uses[u] : times[v] = 1 =>
              \A i, j \in DOMAIN Pending : Pending[i] = v /\ Pending[j] = u => i < j

(* Services are in the list of the container, of RunHTTP, or have been dealt  *)
(* with.                                                                      *)
Serviced ==
    /\ stage = "app" => services \subseteq Range(comps.backgrounds)
    /\ stage = "serve" => services \subseteq Range(options.backgrounds)
    /\ stage = "closing" => services \subseteq stopped \union unstarted

IInv == TypeOK /\ Shape /\ Starting /\ Accounts /\ Ordered /\ Serviced
        /\ NothingLeaks /\ ClosedOnceInOrder

-----------------------------------------------------------------------------
(* Counting what a list holds.                                                *)

(* The positions of a list are finitely many. *)
LEMMA CountType ==
    ASSUME NEW S, NEW list \in Seq(S), NEW v
    PROVE  /\ IsFiniteSet(Positions(list, v))
           /\ Count(list, v) \in Nat
           /\ Count(list, v) = 0 <=> (\A i \in DOMAIN list : list[i] # v)
<1>1. DOMAIN list = 1 .. Len(list) /\ Len(list) \in Nat BY LenProperties
<1>2. IsFiniteSet(1 .. Len(list)) BY <1>1, FS_Interval
<1>3. Positions(list, v) \in SUBSET (1 .. Len(list)) BY <1>1 DEF Positions
<1>4. IsFiniteSet(Positions(list, v)) BY <1>2, <1>3, FS_Subset
<1>5. Count(list, v) \in Nat BY <1>4, FS_CardinalityType DEF Count
<1>6. Count(list, v) = 0 <=> Positions(list, v) = {} BY <1>4, FS_EmptySet DEF Count
<1>7. Positions(list, v) = {} <=> (\A i \in DOMAIN list : list[i] # v) BY DEF Positions
<1> QED BY <1>4, <1>5, <1>6, <1>7

(* An empty list holds nothing. *)
LEMMA CountEmpty == \A v : Count(<<>>, v) = 0
<1>1. \A v : Positions(<<>>, v) = {} BY DEF Positions
<1> QED BY <1>1, FS_EmptySet DEF Count

(* Appending adds one of what is appended. *)
LEMMA CountAppend ==
    ASSUME NEW S, NEW list \in Seq(S), NEW x \in S, NEW v
    PROVE  Count(Append(list, x), v) = Count(list, v) + (IF v = x THEN 1 ELSE 0)
<1>1. PICK n \in Nat : n = Len(list) /\ DOMAIN list = 1 .. n BY LenProperties
<1>2. /\ DOMAIN Append(list, x) = 1 .. n + 1
      /\ \A i \in 1 .. n : Append(list, x)[i] = list[i]
      /\ Append(list, x)[n + 1] = x
  <2>1. Append(list, x) \in Seq(S) /\ Len(Append(list, x)) = n + 1 BY <1>1, AppendProperties
  <2>2. DOMAIN Append(list, x) = 1 .. n + 1 BY <2>1, LenProperties
  <2> QED BY <1>1, <2>2, AppendProperties
<1>3. 1 .. n + 1 = (1 .. n) \union {n + 1} /\ n + 1 \notin 1 .. n OBVIOUS
<1>4. IsFiniteSet(Positions(list, v)) /\ n + 1 \notin Positions(list, v)
  BY <1>1, <1>3, CountType DEF Positions
<1>5. CASE v = x
  <2>1. Positions(Append(list, x), v) = Positions(list, v) \union {n + 1}
    BY <1>1, <1>2, <1>3, <1>5 DEF Positions
  <2> QED BY <1>4, <1>5, <2>1, FS_AddElement DEF Count
<1>6. CASE v # x
  <2>1. Positions(Append(list, x), v) = Positions(list, v)
    BY <1>1, <1>2, <1>3, <1>6 DEF Positions
  <2> QED BY <1>6, <2>1, CountType DEF Count
<1> QED BY <1>5, <1>6

\* list is front with one more at its end.
Extends(list, front, x) == list = Append(front, x)

OneMore(list, front, x) ==
    \A v : Count(list, v) = Count(front, v) + (IF v = x THEN 1 ELSE 0)

(* The same, of a list that is known to be an extension. *)
LEMMA CountLast ==
    ASSUME NEW S, NEW list, NEW front \in Seq(S), NEW x \in S, Extends(list, front, x)
    PROVE  OneMore(list, front, x)
<1>1. \A v : Count(Append(front, x), v) = Count(front, v) + (IF v = x THEN 1 ELSE 0)
  BY CountAppend
<1> QED BY <1>1 DEF Extends, OneMore

\* front is list without the last of its n elements.
Drops(list, n, front) == list # <<>> /\ n = Len(list) /\ front = SubSeq(list, 1, n - 1)

(* Dropping the last of a list leaves one less of it. *)
LEMMA CountFront ==
    ASSUME NEW S, NEW list \in Seq(S), NEW n, NEW front, Drops(list, n, front)
    PROVE  /\ n \in Nat \ {0} /\ list[n] \in S /\ front \in Seq(S)
           /\ DOMAIN list = 1 .. n /\ DOMAIN front = 1 .. n - 1
           /\ \A i \in DOMAIN front : front[i] = list[i]
           /\ OneMore(list, front, list[n])
<1>0. list # <<>> /\ n = Len(list) /\ front = SubSeq(list, 1, n - 1) BY DEF Drops
<1>1. n \in Nat \ {0} /\ DOMAIN list = 1 .. n BY <1>0, LenProperties, EmptySeq
<1>2. \A i \in 1 .. n : list[i] \in S BY <1>1, ElementOfSeq
<1>3. list[n] \in S BY <1>1, <1>2
<1>4. /\ front \in Seq(S) /\ Len(front) = n - 1
      /\ \A i \in 1 .. n - 1 : front[i] = list[i]
  <2>1. \A i \in 1 .. n - 1 : list[i] \in S BY <1>1, <1>2
  <2> QED BY <1>0, <1>1, <2>1, SubSeqProperties
<1>5. DOMAIN front = 1 .. n - 1 BY <1>4, LenProperties
<1>6. list = Append(front, list[n])
  <2>1. /\ Append(front, list[n]) \in Seq(S) /\ Len(Append(front, list[n])) = n
        /\ \A i \in 1 .. n - 1 : Append(front, list[n])[i] = list[i]
        /\ Append(front, list[n])[n] = list[n]
    BY <1>1, <1>3, <1>4, AppendProperties
  <2>2. \A i \in 1 .. n : Append(front, list[n])[i] = list[i] BY <1>1, <2>1
  <2>3. list \in Seq(S) /\ Len(list) = n BY <1>0
  <2> QED BY <2>1, <2>2, <2>3, SeqEqual
<1>7. OneMore(list, front, list[n])
  <2>1. front \in Seq(S) BY <1>4
  <2>2. Extends(list, front, list[n]) BY <1>6 DEF Extends
  <2> QED BY <1>3, <2>1, <2>2, CountLast
<1> QED BY <1>1, <1>3, <1>4, <1>5, <1>7

-----------------------------------------------------------------------------
(* The container.                                                             *)

(* What a call of the container does to it: the component is appended to the  *)
(* closers, to the services, to both or to neither.                           *)
Added(c, d, e, for) ==
    /\ Container(d)
    /\ d.closers = IF "close" \in for THEN Append(c.closers, e) ELSE c.closers
    /\ d.backgrounds = IF "run" \in for THEN Append(c.backgrounds, e) ELSE c.backgrounds

(* Collecting puts a component into the lists of the interfaces it has. *)
LEMMA CollectFacts ==
    ASSUME NEW c, Container(c), NEW v
    PROVE  /\ Container(collectLifecycle(c, v))
           /\ collectLifecycle(c, v).values = c.values /\ collectLifecycle(c, v).names = c.names
           /\ collectLifecycle(c, v).closers =
                IF v \in Closable THEN Append(c.closers, v) ELSE c.closers
           /\ collectLifecycle(c, v).backgrounds =
                IF v \in Runnable THEN Append(c.backgrounds, v) ELSE c.backgrounds
<1>1. PICK a, b, l, m : c = [values |-> a, names |-> b, backgrounds |-> l, closers |-> m]
  BY DEF Container
<1>2. PICK p, q : /\ p = IF v \in Runnable THEN Append(l, v) ELSE l
                  /\ q = IF v \in Closable THEN Append(m, v) ELSE m
  OBVIOUS
<1>3. collectLifecycle(c, v) = [values |-> a, names |-> b, backgrounds |-> p, closers |-> q]
  <2>1. c.backgrounds = l /\ c.closers = m BY <1>1
  <2>2. collectLifecycle(c, v) = [c EXCEPT !.backgrounds = p, !.closers = q]
    BY <1>2, <2>1 DEF collectLifecycle
  <2> QED BY <1>1, <2>2
<1>4. PICK d : d = collectLifecycle(c, v) OBVIOUS
<1>5. /\ d.values = a /\ d.names = b /\ d.backgrounds = p /\ d.closers = q /\ Container(d)
      /\ c.values = a /\ c.names = b /\ c.backgrounds = l /\ c.closers = m
  BY <1>1, <1>3, <1>4 DEF Container
<1> QED BY <1>2, <1>4, <1>5

\* A value is stored under its type, or under a name.
Typed(c, k, v) == [c EXCEPT !.values = Put(@, k, v)]

Named(c, k, v) == [c EXCEPT !.names = Put(@, k, v)]

(* Storing a value under a type or a name leaves the lists alone. *)
LEMMA PutFacts ==
    ASSUME NEW c, Container(c), NEW k, NEW v
    PROVE  /\ Container(Typed(c, k, v)) /\ Container(Named(c, k, v))
           /\ DOMAIN Typed(c, k, v).values = DOMAIN c.values \union {k}
           /\ Typed(c, k, v).names = c.names
           /\ Typed(c, k, v).closers = c.closers /\ Typed(c, k, v).backgrounds = c.backgrounds
           /\ Named(c, k, v).closers = c.closers /\ Named(c, k, v).backgrounds = c.backgrounds
<1>1. PICK a, b, l, m : c = [values |-> a, names |-> b, backgrounds |-> l, closers |-> m]
  BY DEF Container
<1>0. DOMAIN Put(a, k, v) = DOMAIN a \union {k} BY DEF Put
<1>2. PICK p, q : p = Put(a, k, v) /\ q = Put(b, k, v) /\ DOMAIN p = DOMAIN a \union {k}
  BY <1>0
<1>3. PICK d, n : /\ d = [values |-> p, names |-> b, backgrounds |-> l, closers |-> m]
                  /\ n = [values |-> a, names |-> q, backgrounds |-> l, closers |-> m]
  OBVIOUS
<1>4. d = Typed(c, k, v) /\ n = Named(c, k, v)
  <2>1. c.values = a /\ c.names = b BY <1>1
  <2>2. Typed(c, k, v) = [c EXCEPT !.values = p] BY <1>2, <2>1 DEF Typed
  <2>3. Named(c, k, v) = [c EXCEPT !.names = q] BY <1>2, <2>1 DEF Named
  <2> QED BY <1>1, <1>3, <2>2, <2>3
<1>5. Container(d) /\ Container(n) BY <1>3 DEF Container
<1>6. /\ d.values = p /\ d.names = b /\ d.closers = m /\ d.backgrounds = l
      /\ n.closers = m /\ n.backgrounds = l
      /\ c.values = a /\ c.names = b /\ c.closers = m /\ c.backgrounds = l
  BY <1>1, <1>3
<1> QED BY <1>2, <1>4, <1>5, <1>6

(* register refuses a type that is taken. *)
LEMMA RegisterFacts ==
    ASSUME NEW c, Container(c), NEW k, k \notin DOMAIN c.values, NEW v, NEW collect \in BOOLEAN
    PROVE  LET d == register(c, k, v, collect)
           IN /\ Container(d) /\ d.names = c.names
              /\ DOMAIN d.values = DOMAIN c.values \union {k}
              /\ d.closers = IF collect /\ v \in Closable THEN Append(c.closers, v) ELSE c.closers
              /\ d.backgrounds = IF collect /\ v \in Runnable THEN Append(c.backgrounds, v)
                                 ELSE c.backgrounds
<1>1. PICK p : p = Typed(c, k, v) OBVIOUS
<1>2. /\ Container(p) /\ DOMAIN p.values = DOMAIN c.values \union {k}
      /\ p.closers = c.closers /\ p.backgrounds = c.backgrounds /\ p.names = c.names
  BY <1>1, PutFacts
<1>3. register(c, k, v, collect) = IF collect THEN collectLifecycle(p, v) ELSE p
  BY <1>1 DEF register, HasType, Typed
<1> QED BY <1>2, <1>3, CollectFacts

\* d is c with one more type.
Plain(c, k, d) ==
    /\ Container(d) /\ d.names = c.names
    /\ DOMAIN d.values = DOMAIN c.values \union {k}
    /\ d.closers = c.closers /\ d.backgrounds = c.backgrounds

\* d is c with one more component, which is going to be closed.
Closing(c, k, d) ==
    /\ Container(d) /\ d.names = c.names
    /\ DOMAIN d.values = DOMAIN c.values \union {k}
    /\ d.closers = Append(c.closers, k) /\ d.backgrounds = c.backgrounds

(* A Closer that is no Background goes to the end of one list. *)
LEMMA RegisterClosing ==
    ASSUME NEW c, Container(c), NEW k, k \notin DOMAIN c.values,
           k \in Closable, k \notin Runnable
    PROVE  Closing(c, k, register(c, k, k, TRUE))
<1>1. PICK p, d : p = Typed(c, k, k) /\ d = collectLifecycle(p, k) OBVIOUS
<1>2. /\ Container(p) /\ DOMAIN p.values = DOMAIN c.values \union {k}
      /\ p.closers = c.closers /\ p.backgrounds = c.backgrounds /\ p.names = c.names
  BY <1>1, PutFacts
<1>3. register(c, k, k, TRUE) = d BY <1>1 DEF register, HasType, Typed
<1>4. /\ Container(d) /\ d.values = p.values /\ d.names = p.names
      /\ d.closers = Append(p.closers, k) /\ d.backgrounds = p.backgrounds
  BY <1>1, <1>2, CollectFacts
<1> QED BY <1>2, <1>3, <1>4 DEF Closing

(* What is not collected changes no list. *)
LEMMA RegisterPlain ==
    ASSUME NEW c, Container(c), NEW k, k \notin DOMAIN c.values, NEW v
    PROVE  /\ Plain(c, k, register(c, k, v, FALSE))
           /\ v \notin Closable /\ v \notin Runnable => Plain(c, k, register(c, k, v, TRUE))
<1>1. PICK p : p = Typed(c, k, v) OBVIOUS
<1>2. /\ Container(p) /\ DOMAIN p.values = DOMAIN c.values \union {k}
      /\ p.closers = c.closers /\ p.backgrounds = c.backgrounds /\ p.names = c.names
  BY <1>1, PutFacts
<1>3. Plain(c, k, register(c, k, v, FALSE))
  <2>1. register(c, k, v, FALSE) = p BY <1>1 DEF register, HasType, Typed
  <2> QED BY <1>2, <2>1 DEF Plain
<1>4. ASSUME v \notin Closable, v \notin Runnable PROVE Plain(c, k, register(c, k, v, TRUE))
  <2>1. register(c, k, v, TRUE) = collectLifecycle(p, v) BY <1>1 DEF register, HasType, Typed
  <2>2. /\ Container(collectLifecycle(p, v))
        /\ collectLifecycle(p, v).values = p.values /\ collectLifecycle(p, v).names = p.names
        /\ collectLifecycle(p, v).closers = p.closers
        /\ collectLifecycle(p, v).backgrounds = p.backgrounds
    BY <1>2, <1>4, CollectFacts
  <2> QED BY <1>2, <2>1, <2>2 DEF Plain
<1> QED BY <1>3, <1>4

(* The operations the application uses, each with what it hands over. *)
LEMMA CallFacts ==
    ASSUME NEW c, Container(c), NEW e \in Extras, NEW k
    PROVE  /\ Added(c, Replace(c, k, e), e, Lifecycle(e))
           /\ Added(c, ReplaceName(c, k, e), e, Lifecycle(e))
           /\ Added(c, RegisterName(c, k, e), e, IF HasName(c, k) THEN {} ELSE Lifecycle(e))
           /\ Added(c, AddBackground(c, e), e, {"run"})
           /\ Added(c, AddCloser(c, e), e, {"close"})
           /\ \A collect \in BOOLEAN :
                Added(c, register(c, k, e, collect), e,
                      IF collect /\ ~HasType(c, k) THEN Lifecycle(e) ELSE {})
<1>1. e \in Closable /\ "close" \in Lifecycle(e) /\ ("run" \in Lifecycle(e) <=> e \in Runnable)
  BY ComponentAssumption DEF Lifecycle
<1>2. ASSUME NEW p, Container(p), p.closers = c.closers, p.backgrounds = c.backgrounds
      PROVE  Added(c, collectLifecycle(p, e), e, Lifecycle(e))
  BY <1>1, <1>2, CollectFacts DEF Added
<1>p. PICK d, n :
        /\ d = Typed(c, k, e) /\ Container(d)
        /\ d.closers = c.closers /\ d.backgrounds = c.backgrounds
        /\ n = Named(c, k, e) /\ Container(n)
        /\ n.closers = c.closers /\ n.backgrounds = c.backgrounds
  BY PutFacts
<1>3. Added(c, Replace(c, k, e), e, Lifecycle(e))
  <2>1. Replace(c, k, e) = collectLifecycle(d, e) BY <1>p DEF Replace, Typed
  <2> QED BY <1>2, <1>p, <2>1
<1>4. Added(c, ReplaceName(c, k, e), e, Lifecycle(e))
  <2>1. ReplaceName(c, k, e) = collectLifecycle(n, e) BY <1>p DEF ReplaceName, Named
  <2> QED BY <1>2, <1>p, <2>1
<1>5. Added(c, c, e, {}) BY DEF Added
<1>6. Added(c, RegisterName(c, k, e), e, IF HasName(c, k) THEN {} ELSE Lifecycle(e))
  <2>1. CASE HasName(c, k) BY <1>5, <2>1 DEF RegisterName
  <2>2. CASE ~HasName(c, k)
    <3>1. RegisterName(c, k, e) = collectLifecycle(n, e) BY <1>p, <2>2 DEF RegisterName, Named
    <3> QED BY <1>2, <1>p, <2>2, <3>1
  <2> QED BY <2>1, <2>2
<1>7. Added(c, AddBackground(c, e), e, {"run"}) /\ Added(c, AddCloser(c, e), e, {"close"})
  <2>1. PICK a, b, l, m : c = [values |-> a, names |-> b, backgrounds |-> l, closers |-> m]
    BY DEF Container
  <2>2. PICK p, q : p = Append(l, e) /\ q = Append(m, e) OBVIOUS
  <2>3. c.backgrounds = l /\ c.closers = m BY <2>1
  <2>4. AddBackground(c, e) = [values |-> a, names |-> b, backgrounds |-> p, closers |-> m]
    <3>1. AddBackground(c, e) = [c EXCEPT !.backgrounds = p] BY <2>2, <2>3 DEF AddBackground
    <3> QED BY <2>1, <3>1
  <2>5. AddCloser(c, e) = [values |-> a, names |-> b, backgrounds |-> l, closers |-> q]
    <3>1. AddCloser(c, e) = [c EXCEPT !.closers = q] BY <2>2, <2>3 DEF AddCloser
    <3> QED BY <2>1, <3>1
  <2>6. PICK x, y : x = AddBackground(c, e) /\ y = AddCloser(c, e) OBVIOUS
  <2>7. /\ Container(x) /\ x.backgrounds = p /\ x.closers = m
        /\ Container(y) /\ y.backgrounds = l /\ y.closers = q
    BY <2>4, <2>5, <2>6 DEF Container
  <2> QED BY <2>2, <2>3, <2>6, <2>7 DEF Added
<1>8. ASSUME NEW collect \in BOOLEAN
      PROVE  Added(c, register(c, k, e, collect), e,
                   IF collect /\ ~HasType(c, k) THEN Lifecycle(e) ELSE {})
  <2>1. CASE HasType(c, k) BY <1>5, <2>1 DEF register
  <2>2. CASE ~HasType(c, k)
    <3>1. k \notin DOMAIN c.values BY <2>2 DEF HasType
    <3> QED BY <1>1, <2>2, <3>1, RegisterFacts DEF Added
  <2> QED BY <2>1, <2>2
<1> QED BY <1>3, <1>4, <1>6, <1>7, <1>8

-----------------------------------------------------------------------------
(* The start.                                                                 *)

(* Resources are of three kinds, and all components but config can be closed. *)
LEMMA ResourceFacts ==
    /\ Pools \subseteq Resources /\ Clients \subseteq Resources
    /\ \A e \in Extras : <<"extra", e>> \in Resources
    /\ \A r \in Resources :
         r \in Pools \/ r \in Clients \/ \E e \in Extras : r = <<"extra", e>>
    /\ \A e \in Extras : <<"extra", e>> \notin Pools \union Clients
    /\ \A r \in Pools : r \notin Clients
    /\ {"dbs", "sqldb", "cache", "token"} \subseteq Closable /\ Extras \subseteq Closable
    /\ "config" \notin Closable /\ Closable \subseteq Components
    /\ Own \subseteq Components /\ Extras \subseteq Components
    /\ \A v \in Own : v \notin Extras /\ v \notin Runnable
<1>1. /\ Pools \subseteq Resources /\ Clients \subseteq Resources
      /\ \A e \in Extras : <<"extra", e>> \in Resources
      /\ \A r \in Resources :
           r \in Pools \/ r \in Clients \/ \E e \in Extras : r = <<"extra", e>>
  BY DEF Resources
<1>2. /\ \A e \in Extras : <<"extra", e>> \notin Pools \union Clients
      /\ \A r \in Pools : r \notin Clients
  BY DEF Pools, Clients
<1> QED BY <1>1, <1>2, ComponentAssumption DEF Own, Components

(* Initially. *)
LEMMA IInvInit == Init => IInv
<1> SUFFICES ASSUME Init PROVE IInv OBVIOUS
<1>0. <<>> \in Seq(Closable) /\ <<>> \in Seq(Extras) /\ <<>> \in Seq(Own \union Extras)
  BY EmptySeq
<1>1. Container(comps) /\ comps.backgrounds = <<>> /\ comps.closers = <<>> /\ comps.names = <<>>
      /\ DOMAIN comps.values = {}
  BY EmptySeq DEF Init, New, Container
<1>2. options = [backgrounds |-> options.backgrounds, closers |-> options.closers]
      /\ options.backgrounds = <<>> /\ options.closers = <<>>
  BY DEF Init
<1>3. TypeOK BY <1>0, <1>1, <1>2, ComponentAssumption DEF Init, TypeOK
<1>4. \A map : Entries(cfg, map) = {} BY EmptySeq DEF Init, NoConfig, Entries
<1>5. Shape BY <1>0, <1>1, <1>2, <1>4 DEF Init, Shape
<1>6. Starting BY <1>1 DEF Init, Starting, Components
<1>7. Accounts /\ Ordered /\ Serviced /\ NothingLeaks
  BY DEF Init, Up, Accounts, Ordered, Serviced, NothingLeaks
<1>8. ClosedOnceInOrder BY ResourceFacts DEF Init, ClosedOnceInOrder, Components
<1> QED BY <1>3, <1>5, <1>6, <1>7, <1>8 DEF IInv

(* While nothing is closed, the other parts of the invariant say nothing. *)
LEMMA StillStarting ==
    ASSUME TypeOK', Shape', Starting', stage' \in {"load", "databases", "cache"}
    PROVE  IInv'
<1>1. (Accounts /\ Ordered /\ Serviced /\ NothingLeaks)'
  BY DEF Up, Accounts, Ordered, Serviced, NothingLeaks
<1>2. ClosedOnceInOrder'
  <2>1. closed' = {} /\ \A r \in Resources : closes'[r] = 0 BY DEF Starting
  <2>2. \A e \in Extras : times'[e] \in Nat BY ResourceFacts DEF TypeOK, Components
  <2>3. /\ \A r \in Pools \union Clients : closes'[r] <= 1
        /\ \A e \in Extras : closes'[<<"extra", e>>] <= times'[e]
    BY <2>1, <2>2, ResourceFacts
  <2> QED BY <2>1, <2>3 DEF ClosedOnceInOrder
<1> QED BY <1>1, <1>2 DEF IInv

(* A start that fails closes what it has opened. *)
LEMMA FailedStart ==
    ASSUME IInv, stage \in {"load", "databases", "cache"}, stage' = "exit",
           opened' \subseteq Pools \union Clients, CloseResources(opened'),
           closed' \subseteq {"dbs"},
           UNCHANGED <<input, cfg, todo, comps, uses, times, appVars>>
    PROVE  IInv'
<1>0. TypeOK /\ Shape /\ Starting BY DEF IInv
<1>1. /\ UNCHANGED <<input, cfg, todo, comps, uses, times, options, stopped, unstarted, calls,
                     services>>
  BY DEF appVars
<1>2. \A r \in Resources : closes[r] = 0 BY <1>0 DEF Starting
<1>3. closes' = [r \in Resources |-> IF r \in opened' THEN 1 ELSE 0]
  BY <1>2 DEF CloseResources
<1>4. TypeOK'
  <2>1. opened' \subseteq Resources BY ResourceFacts
  <2>2. closes' \in [Resources -> Nat] BY <1>3
  <2>3. closed' \subseteq Closable BY ResourceFacts
  <2> QED BY <1>0, <1>1, <2>1, <2>2, <2>3 DEF TypeOK
<1>5. Shape' BY <1>0, <1>1 DEF Shape
<1>6. (Starting /\ Accounts /\ Ordered /\ Serviced)'
  BY DEF Starting, Up, Accounts, Ordered, Serviced
<1>7. /\ \A e \in Extras : times'[e] = 0 /\ closes'[<<"extra", e>>] = 0
      /\ services' = {}
  <2>1. \A e \in Extras : times[e] = 0 /\ e # "dbs"
    BY <1>0, ResourceFacts DEF Starting, Own
  <2>2. services = {} BY <1>0 DEF Starting
  <2> QED BY <1>1, <1>3, <2>1, <2>2, ResourceFacts
<1>8. NothingLeaks'
  <2>1. \A r \in opened' : closes'[r] > 0 BY <1>3, ResourceFacts
  <2> QED BY <1>7, <2>1 DEF NothingLeaks
<1>9. ClosedOnceInOrder'
  <2>1. ASSUME NEW v \in closed', NEW u \in DOMAIN uses', v \in uses'[u], times'[u] > 0
        PROVE  FALSE
    <3>1. v = "dbs" /\ u \in Components BY <1>0, <1>1 DEF TypeOK, Components
    <3>2. u = "cache" BY <1>0, <1>1, <2>1, <3>1 DEF Starting
    <3> QED BY <1>0, <1>1, <2>1, <3>1, <3>2 DEF Starting
  <2>2. \A r \in Pools \union Clients : closes'[r] <= 1 BY <1>3, ResourceFacts
  <2>3. ASSUME NEW e \in Extras PROVE closes'[<<"extra", e>>] <= times'[e]
    <3>1. closes'[<<"extra", e>>] = 0 /\ times'[e] = 0 BY <1>7
    <3> QED BY <3>1
  <2> QED BY <2>1, <2>2, <2>3 DEF ClosedOnceInOrder
<1> QED BY <1>4, <1>5, <1>6, <1>8, <1>9 DEF IInv

(* The steps of the start, up to the cache. *)
LEMMA StartStep ==
    ASSUME IInv,
           \/ Load \/ LoadFails
           \/ \E n \in Names : \/ OpenConnection(n) \/ OpenConnectionFails(n)
                               \/ OpenStore(n) \/ OpenStoreFails(n)
    PROVE  IInv'
<1>0. TypeOK /\ Shape /\ Starting BY DEF IInv
<1>1. CASE Load
  <2>1. Loads(input) /\ cfg' = Loaded(input) /\ stage = "load" /\ stage' = "databases"
        /\ todo' = Entries(cfg', "connections")
        /\ UNCHANGED <<input, opened, closes, comps, closed, uses, times, options, stopped,
                       unstarted, calls, services>>
    BY <1>1 DEF Load, appVars
  <2>2. \A map \in {"connections", "stores"} : Entries(cfg', map) \subseteq Names
    BY <1>0, <2>1, NamesAssumption DEF Shape
  <2>3. TypeOK' BY <1>0, <2>1, <2>2 DEF TypeOK
  <2>4. Shape' BY <1>0, <2>1, <2>2 DEF Shape
  <2>5. Starting' BY <1>0, <2>1 DEF Starting
  <2> QED BY <2>1, <2>3, <2>4, <2>5, StillStarting
<1>2. CASE LoadFails
  <2>1. stage = "load" /\ stage' = "exit"
        /\ UNCHANGED <<input, cfg, todo, opened, closes, comps, closed, uses, times, appVars>>
    BY <1>2 DEF LoadFails
  <2>2. opened = {} /\ closed = {} /\ \A r \in Resources : closes[r] = 0
    BY <1>0, <2>1 DEF Starting
  <2>3. closes = [r \in Resources |-> closes[r]] /\ \A r \in Resources : closes[r] + 0 = closes[r]
    BY <1>0, <2>2 DEF TypeOK
  <2>4. CloseResources(opened') BY <2>1, <2>2, <2>3 DEF CloseResources
  <2> QED BY <2>1, <2>2, <2>4, FailedStart
<1>3. CASE \E n \in Names : OpenConnection(n)
  <2>1. PICK n \in Names : OpenConnection(n) BY <1>3
  <2>2. stage = "databases" /\ opened' = opened \union {<<"pool", n>>} /\ todo' = todo \ {n}
        /\ UNCHANGED <<input, cfg, stage, closes, comps, closed, uses, times, options, stopped,
                       unstarted, calls, services>>
    BY <2>1 DEF OpenConnection, appVars
  <2>3. <<"pool", n>> \in Pools BY DEF Pools
  <2>4. TypeOK' BY <1>0, <2>2, <2>3, ResourceFacts DEF TypeOK
  <2>5. Shape' BY <1>0, <2>2 DEF Shape
  <2>6. Starting' BY <1>0, <2>2, <2>3 DEF Starting
  <2> QED BY <2>2, <2>4, <2>5, <2>6, StillStarting
<1>4. CASE \E n \in Names : OpenConnectionFails(n)
  <2>1. PICK n \in Names : OpenConnectionFails(n) BY <1>4
  <2>2. PICK failed \in FailedPools(n) :
          opened' = opened \union failed /\ CloseResources(opened \union failed)
    BY <2>1 DEF OpenConnectionFails, CloseOnError
  <2>3. stage = "databases" /\ stage' = "exit"
        /\ UNCHANGED <<input, cfg, todo, comps, closed, uses, times, appVars>>
    BY <2>1 DEF OpenConnectionFails
  <2>4. failed \subseteq Pools BY <2>2 DEF FailedPools, Pools
  <2>5. opened \subseteq Pools \union Clients /\ closed = {} BY <1>0, <2>3 DEF Starting
  <2>6. opened' \subseteq Pools \union Clients /\ closed' \subseteq {"dbs"}
    BY <2>2, <2>3, <2>4, <2>5
  <2>7. CloseResources(opened') BY <2>2
  <2> QED BY <2>3, <2>6, <2>7, FailedStart
<1>5. CASE \E n \in Names : OpenStore(n)
  <2>1. PICK n \in Names : OpenStore(n) BY <1>5
  <2>2. /\ stage = "cache" /\ todo' = todo \ {n}
        /\ opened' \subseteq opened \union {<<"redis", n>>} /\ opened \subseteq opened'
        /\ uses' = uses \/ uses' = [uses EXCEPT !["cache"] = {"dbs"}]
        /\ UNCHANGED <<input, cfg, stage, closes, comps, closed, times, options, stopped,
                       unstarted, calls, services>>
    BY <2>1 DEF OpenStore, appVars
  <2>3. <<"redis", n>> \in Clients BY DEF Clients
  <2>4. uses' \in [Components -> SUBSET Components]
        /\ \A u \in Components : uses'[u] \subseteq IF u = "cache" THEN {"dbs"} ELSE {}
    <3>1. /\ uses \in [Components -> SUBSET Components]
          /\ \A u \in Components : uses[u] \subseteq IF u = "cache" THEN {"dbs"} ELSE {}
      <4>1. uses \in [Components -> SUBSET Components] BY <1>0 DEF TypeOK, Components
      <4>2. \A u \in Components : uses[u] \subseteq IF u = "cache" THEN {"dbs"} ELSE {}
        BY <1>0, <2>2 DEF Starting
      <4> QED BY <4>1, <4>2
    <3>2. {"dbs"} \subseteq Components BY DEF Components, Own
    <3>3. CASE uses' = uses BY <3>1, <3>3
    <3>4. CASE uses' = [uses EXCEPT !["cache"] = {"dbs"}] BY <3>1, <3>2, <3>4
    <3> QED BY <2>2, <3>3, <3>4
  <2>5. TypeOK'
    <3>1. todo' \subseteq Names /\ opened' \subseteq Resources
      BY <1>0, <2>2, <2>3, ResourceFacts DEF TypeOK
    <3>2. uses' \in [Own \union Extras -> SUBSET (Own \union Extras)]
      BY <2>4 DEF Components
    <3> QED BY <1>0, <2>2, <3>1, <3>2 DEF TypeOK
  <2>6. Shape' BY <1>0, <2>2 DEF Shape
  <2>7. Starting' BY <1>0, <2>2, <2>3, <2>4 DEF Starting
  <2> QED BY <2>2, <2>5, <2>6, <2>7, StillStarting
<1>6. CASE \E n \in Names : OpenStoreFails(n)
  <2>1. PICK n \in Names : OpenStoreFails(n) BY <1>6
  <2>2. stage = "cache" /\ UNCHANGED <<input, cfg, opened, comps, uses, times, appVars>>
    BY <2>1 DEF OpenStoreFails
  <2>3. opened \subseteq Pools \union Clients /\ closed = {} BY <1>0, <2>2 DEF Starting
  <2>4. CASE input.manager \/ Required(n)
    <3>1. CloseResources(opened') /\ closed' = {"dbs"} /\ stage' = "exit" /\ UNCHANGED todo
      BY <2>1, <2>2, <2>3, <2>4 DEF OpenStoreFails, CloseOnError
    <3>2. opened' \subseteq Pools \union Clients /\ closed' \subseteq {"dbs"}
      BY <2>2, <2>3, <3>1
    <3> QED BY <2>2, <3>1, <3>2, FailedStart
  <2>5. CASE ~(input.manager \/ Required(n))
    <3>1. todo' = todo \ {n} /\ UNCHANGED <<closes, closed, stage>>
      BY <2>1, <2>5 DEF OpenStoreFails
    <3>2. UNCHANGED <<options, stopped, unstarted, calls, services>> BY <2>2 DEF appVars
    <3>3. TypeOK' BY <1>0, <2>2, <3>1, <3>2 DEF TypeOK
    <3>4. Shape' BY <1>0, <2>2, <3>1, <3>2 DEF Shape
    <3>5. Starting' BY <1>0, <2>2, <3>1, <3>2 DEF Starting
    <3> QED BY <2>2, <3>1, <3>3, <3>4, <3>5, StillStarting
  <2> QED BY <2>4, <2>5
<1> QED BY <1>1, <1>2, <1>3, <1>4, <1>5, <1>6

(* The manager is registered to be closed, its default pool is not. *)
LEMMA DatabasesStep ==
    ASSUME IInv, DatabasesReady
    PROVE  IInv'
<1>0. TypeOK /\ Shape /\ Starting BY DEF IInv
<1>1. stage = "databases" /\ UNCHANGED <<input, cfg, opened, closed, uses, appVars>>
  BY DEF DatabasesReady
<1>2. /\ opened \subseteq Pools \union Clients /\ closed = {}
      /\ comps.backgrounds = <<>> /\ comps.names = <<>> /\ comps.closers = <<>>
      /\ DOMAIN comps.values = {} /\ Container(comps)
  BY <1>0, <1>1 DEF Starting, Shape
<1>3. CASE Or(cfg[DefaultConnection], "default") \notin Entries(cfg, "connections")
  <2>1. CloseResources(opened) /\ stage' = "exit" /\ UNCHANGED <<comps, times, todo>>
    BY <1>3 DEF DatabasesReady, CloseOnError
  <2>2. /\ opened' \subseteq Pools \union Clients
        /\ CloseResources(opened') /\ closed' \subseteq {"dbs"}
    BY <1>1, <1>2, <2>1
  <2> QED BY <1>1, <2>1, <2>2, FailedStart
<1>4. CASE Or(cfg[DefaultConnection], "default") \in Entries(cfg, "connections")
  <2>1. /\ comps' = register(register(register(comps, "config", "config", TRUE),
                                      "dbs", "dbs", TRUE), "sqldb", "sqldb", FALSE)
        /\ times' = [times EXCEPT !["dbs"] = 1] /\ stage' = "cache" /\ UNCHANGED closes
        /\ todo' \subseteq Entries(cfg, "stores")
    BY <1>4 DEF DatabasesReady
  <2>2. PICK a : a = register(comps, "config", "config", TRUE) OBVIOUS
  <2>3. /\ Container(a) /\ a.names = <<>> /\ DOMAIN a.values = {"config"}
        /\ a.closers = <<>> /\ a.backgrounds = <<>>
    <3>1. "config" \notin DOMAIN comps.values BY <1>2
    <3>2. "config" \notin Closable /\ "config" \notin Runnable BY ResourceFacts DEF Own
    <3>3. /\ Container(a) /\ a.names = comps.names
          /\ DOMAIN a.values = DOMAIN comps.values \union {"config"}
          /\ a.closers = comps.closers /\ a.backgrounds = comps.backgrounds
      <4>1. Plain(comps, "config", register(comps, "config", "config", TRUE))
        BY <1>2, <3>1, <3>2, RegisterPlain
      <4> QED BY <2>2, <4>1 DEF Plain
    <3> QED BY <1>2, <3>3
  <2>4. PICK b : b = register(a, "dbs", "dbs", TRUE) OBVIOUS
  <2>5. /\ Container(b) /\ b.names = <<>> /\ DOMAIN b.values = {"config", "dbs"}
        /\ b.closers = Append(<<>>, "dbs") /\ b.backgrounds = <<>>
    <3>1. "dbs" \notin DOMAIN a.values BY <2>3
    <3>2. "dbs" \in Closable /\ "dbs" \notin Runnable BY ResourceFacts DEF Own
    <3>3. /\ Container(b) /\ b.names = a.names /\ DOMAIN b.values = DOMAIN a.values \union {"dbs"}
          /\ b.closers = Append(a.closers, "dbs") /\ b.backgrounds = a.backgrounds
      BY <2>3, <2>4, <3>1, <3>2, RegisterClosing DEF Closing
    <3> QED BY <2>3, <3>3
  <2>6. /\ Container(comps') /\ comps'.names = <<>>
        /\ DOMAIN comps'.values = {"config", "dbs", "sqldb"}
        /\ comps'.closers = <<"dbs">> /\ comps'.backgrounds = <<>>
    <3>1. "sqldb" \notin DOMAIN b.values BY <2>5
    <3>2. comps' = register(b, "sqldb", "sqldb", FALSE) BY <2>1, <2>2, <2>4
    <3>3. Append(<<>>, "dbs") = <<"dbs">> OBVIOUS
    <3>4. /\ Container(comps') /\ comps'.names = b.names
          /\ DOMAIN comps'.values = DOMAIN b.values \union {"sqldb"}
          /\ comps'.closers = b.closers /\ comps'.backgrounds = b.backgrounds
      <4>1. Plain(b, "sqldb", register(b, "sqldb", "sqldb", FALSE))
        BY <2>5, <3>1, RegisterPlain
      <4> QED BY <3>2, <4>1 DEF Plain
    <3> QED BY <2>5, <3>3, <3>4
  <2>7. <<"dbs">> \in Seq(Closable) /\ <<>> \in Seq(Extras) /\ <<>> \in Seq(Own \union Extras)
    BY ResourceFacts, EmptySeq
  <2>8. Entries(cfg, "stores") \subseteq Names BY <1>0 DEF Shape
  <2>9. UNCHANGED <<options, stopped, unstarted, calls, services>> BY <1>1 DEF appVars
  <2>10. times' \in [Components -> Nat]
         /\ \A v \in Components : times'[v] = IF v = "dbs" THEN 1 ELSE 0
    BY <1>0, <1>1, <2>1 DEF TypeOK, Starting, Components, Own
  <2>11. TypeOK' BY <1>0, <1>1, <2>1, <2>6, <2>7, <2>8, <2>9, <2>10 DEF TypeOK, Components
  <2>12. Shape' BY <1>0, <1>1, <2>6, <2>7, <2>9 DEF Shape
  <2>13. Starting' BY <1>0, <1>1, <2>1, <2>6, <2>9, <2>10 DEF Starting
  <2> QED BY <2>1, <2>11, <2>12, <2>13, StillStarting
<1> QED BY <1>3, <1>4

(* The cache follows the databases in the list, and the token service it. *)
LEMMA CacheStep ==
    ASSUME IInv, CacheReady
    PROVE  IInv'
<1>0. TypeOK /\ Shape /\ Starting BY DEF IInv
<1>1. stage = "cache" /\ UNCHANGED <<input, cfg, todo, opened, appVars>>
  BY DEF CacheReady
<1>2. /\ opened \subseteq Pools \union Clients /\ closed = {} /\ services = {}
      /\ comps.backgrounds = <<>> /\ comps.names = <<>> /\ comps.closers = <<"dbs">>
      /\ DOMAIN comps.values = {"config", "dbs", "sqldb"} /\ Container(comps)
      /\ \A r \in Resources : closes[r] = 0
      /\ \A u \in Components : uses[u] \subseteq IF u = "cache" THEN {"dbs"} ELSE {}
      /\ \A v \in Components : times[v] = IF v = "dbs" THEN 1 ELSE 0
  BY <1>0, <1>1 DEF Starting, Shape
<1>3. CASE Or(cfg[DefaultStore], "default") \notin Entries(cfg, "stores")
  <2>1. /\ CloseResources(opened) /\ stage' = "exit" /\ closed' = {"dbs"}
        /\ UNCHANGED <<comps, times, uses>>
    BY <1>2, <1>3 DEF CacheReady, CloseOnError
  <2>2. /\ opened' \subseteq Pools \union Clients
        /\ CloseResources(opened') /\ closed' \subseteq {"dbs"}
    BY <1>1, <1>2, <2>1
  <2> QED BY <1>1, <2>1, <2>2, FailedStart
<1>4. CASE Or(cfg[DefaultStore], "default") \in Entries(cfg, "stores")
  <2>1. /\ comps' = register(register(comps, "cache", "cache", TRUE), "token", "token", TRUE)
        /\ times' = [times EXCEPT !["cache"] = 1, !["token"] = 1]
        /\ uses' = [uses EXCEPT !["token"] = {"cache"}]
        /\ stage' = "app" /\ UNCHANGED <<closes, closed>>
    BY <1>4 DEF CacheReady
  <2>2. PICK a : a = register(comps, "cache", "cache", TRUE) OBVIOUS
  <2>3. /\ Container(a) /\ DOMAIN a.values = {"config", "dbs", "sqldb", "cache"}
        /\ a.closers = Append(<<"dbs">>, "cache") /\ a.backgrounds = <<>>
    <3>1. "cache" \notin DOMAIN comps.values BY <1>2
    <3>2. "cache" \in Closable /\ "cache" \notin Runnable BY ResourceFacts DEF Own
    <3>3. /\ Container(a) /\ DOMAIN a.values = DOMAIN comps.values \union {"cache"}
          /\ a.closers = Append(comps.closers, "cache") /\ a.backgrounds = comps.backgrounds
      BY <1>2, <2>2, <3>1, <3>2, RegisterClosing DEF Closing
    <3> QED BY <1>2, <3>3
  <2>4. /\ Container(comps') /\ comps'.backgrounds = <<>>
        /\ comps'.closers = Append(Append(<<"dbs">>, "cache"), "token")
    <3>1. "token" \notin DOMAIN a.values BY <2>3
    <3>2. comps' = register(a, "token", "token", TRUE) BY <2>1, <2>2
    <3>3. "token" \in Closable /\ "token" \notin Runnable BY ResourceFacts DEF Own
    <3>4. /\ Container(comps') /\ comps'.backgrounds = a.backgrounds
          /\ comps'.closers = Append(a.closers, "token")
      BY <2>3, <3>1, <3>2, <3>3, RegisterClosing DEF Closing
    <3> QED BY <2>3, <3>4
  <2>5. PICK l : l = Append(Append(<<"dbs">>, "cache"), "token") OBVIOUS
  <2>6. l \in Seq(Closable) /\ DOMAIN l = 1 .. 3 /\ l[1] = "dbs" /\ l[2] = "cache" /\ l[3] = "token"
    <3>1. PICK a1 \in Seq(Closable) : a1 = <<"dbs">> /\ Len(a1) = 1 /\ a1[1] = "dbs"
      <4>1. <<"dbs">> \in Seq(Closable) BY ResourceFacts
      <4>2. Len(<<"dbs">>) = 1 /\ <<"dbs">>[1] = "dbs" OBVIOUS
      <4> QED BY <4>1, <4>2
    <3>c. "cache" \in Closable /\ "token" \in Closable BY ResourceFacts
    <3>2. PICK a2 \in Seq(Closable) : a2 = Append(a1, "cache") /\ Len(a2) = 2
                                     /\ a2[1] = "dbs" /\ a2[2] = "cache"
      <4>1. /\ Append(a1, "cache") \in Seq(Closable) /\ Len(Append(a1, "cache")) = 2
            /\ Append(a1, "cache")[1] = "dbs" /\ Append(a1, "cache")[2] = "cache"
        BY <3>1, <3>c, AppendProperties
      <4> QED BY <4>1
    <3>3. l = Append(a2, "token") BY <2>5, <3>1, <3>2
    <3>4. /\ l \in Seq(Closable) /\ Len(l) = 3 /\ l[1] = "dbs" /\ l[2] = "cache" /\ l[3] = "token"
      BY <3>2, <3>3, <3>c, AppendProperties
    <3> QED BY <3>4, LenProperties
  <2>7. UNCHANGED <<options, stopped, unstarted, calls, services>> BY <1>1 DEF appVars
  <2>8. times' \in [Components -> Nat]
        /\ \A v \in Components : times'[v] = IF v \in {"dbs", "cache", "token"} THEN 1 ELSE 0
    BY <1>0, <1>2, <2>1 DEF TypeOK, Components, Own
  <2>9. /\ uses' \in [Components -> SUBSET Components]
        /\ \A u \in Components : uses'[u] \subseteq IF u = "cache" THEN {"dbs"}
                                                    ELSE IF u = "token" THEN {"cache"} ELSE {}
    BY <1>0, <1>2, <2>1, ResourceFacts DEF TypeOK, Components, Own
  <2>10. TypeOK'
    <3>1. <<>> \in Seq(Own \union Extras) BY EmptySeq
    <3> QED BY <1>0, <1>1, <2>1, <2>4, <2>5, <2>6, <2>7, <2>8, <2>9, <3>1 DEF TypeOK, Components
  <2>11. Shape'
    <3>1. <<>> \in Seq(Extras) BY EmptySeq
    <3> QED BY <1>0, <1>1, <2>4, <2>5, <2>6, <2>7, <3>1 DEF Shape
  <2>12. Pending' = l BY <2>1, <2>4, <2>5 DEF Pending
  <2>13. \A v : Count(l, v) = IF v \in {"dbs", "cache", "token"} THEN 1 ELSE 0
    <3>1. \A v : Positions(l, v) = IF v = "dbs" THEN {1} ELSE IF v = "cache" THEN {2}
                                   ELSE IF v = "token" THEN {3} ELSE {}
      BY <2>6 DEF Positions
    <3>2. Cardinality({}) = 0 /\ \A i : Cardinality({i}) = 1 BY FS_EmptySet, FS_Singleton
    <3> QED BY <3>1, <3>2 DEF Count
  <2>14. Accounts'
    <3>1. \A v \in Components : Count(l, v) = times'[v] BY <2>8, <2>13
    <3>2. {"dbs", "cache", "token", "config", "sqldb"} \subseteq Components
      BY ResourceFacts DEF Own
    <3>3. closed' = {} /\ \A r \in Resources : closes'[r] = 0 BY <1>2, <2>1
    <3>4. \A e \in Extras : times'[e] = 0 BY <2>8, ResourceFacts DEF Own
    <3>5. Count(l, "dbs") = 1 /\ Count(l, "cache") = 1 BY <2>13
    <3>6. \A e \in Extras : Count(l, e) = 0 BY <3>1, <3>4, ResourceFacts
    <3>7. \A v \in Components : Count(l, v) <= times'[v] /\ ~(Count(l, v) < times'[v])
      BY <2>8, <3>1
    <3>8. /\ \A r \in Pools \union Clients : closes'[r] = 0 
          /\ \A e \in Extras : closes'[<<"extra", e>>] = times'[e] - Count(l, e)
      BY <3>3, <3>4, <3>6, ResourceFacts
    <3> QED BY <2>8, <2>12, <3>2, <3>3, <3>5, <3>7, <3>8 DEF Accounts
  <2>15. Ordered'
    <3>1. \A e \in Extras : times'[e] = 0 BY <2>8, ResourceFacts DEF Own
    <3>2. \A u \in Components : \A v \in uses'[u] : times'[v] > 0
      BY <2>8, <2>9, ResourceFacts DEF Own
    <3>3. ASSUME NEW u \in Components, NEW v \in uses'[u], NEW i \in DOMAIN l, NEW j \in DOMAIN l,
                 l[i] = v, l[j] = u
          PROVE  i < j
      BY <2>6, <2>9, <3>3
    <3> QED BY <2>12, <3>1, <3>2, <3>3 DEF Ordered
  <2>16. Starting' /\ Serviced' /\ NothingLeaks'
    BY <1>2, <2>1, <2>7 DEF Starting, Serviced, NothingLeaks
  <2>17. ClosedOnceInOrder'
    <3>1. closed' = {} /\ \A r \in Resources : closes'[r] = 0 BY <1>2, <2>1
    <3>2. \A e \in Extras : times'[e] \in Nat BY <2>8, ResourceFacts
    <3>3. /\ \A r \in Pools \union Clients : closes'[r] <= 1
          /\ \A e \in Extras : closes'[<<"extra", e>>] <= times'[e]
      BY <3>1, <3>2, ResourceFacts
    <3> QED BY <3>1, <3>3 DEF ClosedOnceInOrder
  <2> QED BY <2>10, <2>11, <2>14, <2>15, <2>16, <2>17 DEF IInv
<1> QED BY <1>3, <1>4

-----------------------------------------------------------------------------
(* Code of the application.                                                   *)

Lists == comps.closers \in Seq(Closable) /\ options.closers \in Seq(Closable)
         /\ Pending \in Seq(Closable)

(* What is still to be closed is a list of what can be closed. *)
LEMMA PendingList == Shape => Lists
BY DEF Shape, Pending, Lists

(* What the call hands over before RunHTTP has its lists is appended to what  *)
(* is to be closed, and counted.                                              *)
LEMMA CallPending ==
    ASSUME IInv, NEW e \in Extras, NEW after, NEW for, Added(comps, after, e, for),
           AppCall(e, after, for)
    PROVE  \/ /\ stage = "app" /\ Pending' = Append(Pending, e)
              /\ times' = [times EXCEPT ![e] = @ + 1]
           \/ Pending' = Pending /\ times' = times
<1>1. /\ stage \in {"app", "serve", "closing"} /\ UNCHANGED <<stage, options>> /\ comps' = after
      /\ times' = IF stage = "app" /\ "close" \in for THEN [times EXCEPT ![e] = @ + 1] ELSE times
  BY DEF AppCall
<1>2. after.closers = IF "close" \in for THEN Append(comps.closers, e) ELSE comps.closers
  BY DEF Added
<1>3. CASE stage = "app"
  <2>1. Pending = comps.closers /\ Pending' = after.closers BY <1>1, <1>3 DEF Pending
  <2>2. CASE "close" \in for BY <1>1, <1>2, <1>3, <2>1, <2>2
  <2>3. CASE "close" \notin for BY <1>1, <1>2, <1>3, <2>1, <2>3
  <2> QED BY <2>2, <2>3
<1>4. CASE stage # "app"
  <2>1. Pending' = Pending BY <1>1, <1>4 DEF Pending
  <2> QED BY <1>1, <1>4, <2>1
<1> QED BY <1>3, <1>4

(* A component is built on what the container closes; it is only then that    *)
(* its own first registration can come.                                       *)
LEMMA CallUses ==
    ASSUME IInv, NEW e \in Extras, NEW after, NEW for, AppCall(e, after, for)
    PROVE  /\ uses' \in [Components -> SUBSET Components]
           /\ \A u \in Components : u # e \/ <<"extra", e>> \in opened => uses'[u] = uses[u]
           /\ <<"extra", e>> \notin opened =>
                times[e] = 0 /\ \A v \in uses'[e] : v # e /\ v \in Components /\ times[v] > 0
<1>0. TypeOK /\ Ordered /\ Up BY DEF IInv, AppCall, Up
<1>1. /\ uses \in [Components -> SUBSET Components] /\ times \in [Components -> Nat]
      /\ e \in Components
  BY <1>0, ResourceFacts DEF TypeOK, Components
<1>2. CASE <<"extra", e>> \in opened
  <2>1. uses' = uses BY <1>2 DEF AppCall
  <2> QED BY <1>1, <1>2, <2>1
<1>3. CASE <<"extra", e>> \notin opened
  <2>1. uses' = [uses EXCEPT ![e] = {v \in DOMAIN times : times[v] > 0}] BY <1>3 DEF AppCall
  <2>2. times[e] = 0 BY <1>0, <1>3 DEF Ordered
  <2>3. uses'[e] = {v \in Components : times[v] > 0} BY <1>1, <2>1
  <2>4. uses' \in [Components -> SUBSET Components]
        /\ \A u \in Components : u # e => uses'[u] = uses[u]
    BY <1>1, <2>1
  <2>5. \A v \in uses'[e] : v # e /\ v \in Components /\ times[v] > 0 BY <2>2, <2>3
  <2> QED BY <1>3, <2>2, <2>4, <2>5
<1> QED BY <1>2, <1>3

(* A call of the container. *)
LEMMA CallStep ==
    ASSUME IInv, NEW e \in Extras, NEW after, NEW for, Added(comps, after, e, for),
           AppCall(e, after, for)
    PROVE  IInv'
<1>0. /\ TypeOK /\ Shape /\ Accounts /\ Ordered /\ Serviced /\ ClosedOnceInOrder /\ Up
      /\ Lists
  BY PendingList DEF IInv, AppCall, Up
<1>1. /\ calls < MaxCalls /\ calls' = calls + 1 /\ opened' = opened \union {<<"extra", e>>}
      /\ comps' = after
      /\ services' = IF stage = "app" /\ "run" \in for THEN services \union {e} ELSE services
      /\ UNCHANGED <<input, cfg, stage, todo, closes, options, stopped, unstarted, closed>>
  BY DEF AppCall
<1>2. /\ Container(after)
      /\ after.closers = IF "close" \in for THEN Append(comps.closers, e) ELSE comps.closers
      /\ after.backgrounds = IF "run" \in for THEN Append(comps.backgrounds, e)
                             ELSE comps.backgrounds
  BY DEF Added
<1>e. e \in Closable /\ e \in Components /\ <<"extra", e>> \in Resources BY ResourceFacts
<1>3. after.closers \in Seq(Closable)
  BY <1>0, <1>2, <1>e, AppendProperties DEF Lists
<1>4. after.backgrounds \in Seq(Extras) /\ after.backgrounds \in Seq(Own \union Extras)
  <2>1. comps.backgrounds \in Seq(Extras) BY <1>0 DEF Shape
  <2>2. after.backgrounds \in Seq(Extras) BY <1>2, <2>1, AppendProperties
  <2>3. \A l \in Seq(Extras) : l \in Seq(Own \union Extras)
    <3> SUFFICES ASSUME NEW l \in Seq(Extras) PROVE l \in Seq(Own \union Extras) OBVIOUS
    <3>1. Len(l) \in Nat /\ l \in [1 .. Len(l) -> Extras] BY LenProperties
    <3>2. l \in [1 .. Len(l) -> Own \union Extras] BY <3>1
    <3> QED BY <3>1, <3>2, SeqDef
  <2> QED BY <2>2, <2>3
<1>5. /\ uses' \in [Components -> SUBSET Components]
      /\ \A u \in Components : u # e \/ <<"extra", e>> \in opened => uses'[u] = uses[u]
      /\ <<"extra", e>> \notin opened =>
           times[e] = 0 /\ \A v \in uses'[e] : v # e /\ v \in Components /\ times[v] > 0
  BY CallUses
<1>6. times \in [Components -> Nat] /\ uses \in [Components -> SUBSET Components]
  BY <1>0 DEF TypeOK, Components
<1>7. times' \in [Components -> Nat] /\ \A v \in Components : v # e => times'[v] = times[v]
  BY <1>6, CallPending
<1>8. TypeOK'
  <2>1. calls' \in 0 .. MaxCalls BY <1>0, <1>1, ComponentAssumption DEF TypeOK
  <2>2. services' \subseteq Extras BY <1>0, <1>1 DEF TypeOK
  <2>3. opened' \subseteq Resources BY <1>0, <1>1, <1>e DEF TypeOK
  <2> QED BY <1>0, <1>1, <1>3, <1>4, <1>5, <1>7, <2>1, <2>2, <2>3 DEF TypeOK, Components
<1>9. Shape' BY <1>0, <1>1, <1>2, <1>3, <1>4 DEF Shape
<1>10. (Starting /\ NothingLeaks)' BY <1>0, <1>1 DEF Up, Starting, NothingLeaks
<1>11. Serviced'
  <2>1. CASE "run" \in for /\ stage = "app"
    <3>1. services \subseteq Range(comps.backgrounds) BY <1>0, <2>1 DEF Serviced
    <3>2. comps.backgrounds \in Seq(Extras) /\ after.backgrounds = Append(comps.backgrounds, e)
      BY <1>0, <1>2, <2>1 DEF Shape
    <3>3. services \union {e} \subseteq Range(after.backgrounds)
      BY <3>1, <3>2, AppendProperties, LenProperties DEF Range
    <3> QED BY <1>1, <2>1, <3>3 DEF Serviced
  <2>2. CASE ~("run" \in for /\ stage = "app")
    <3>1. services' = services BY <1>1, <2>2
    <3>2. stage = "app" => after.backgrounds = comps.backgrounds BY <1>2, <2>2
    <3> QED BY <1>0, <1>1, <3>1, <3>2 DEF Serviced
  <2> QED BY <2>1, <2>2
<1>12. CASE Pending' = Pending /\ times' = times
  <2>1. Accounts' BY <1>0, <1>1, <1>12, ResourceFacts DEF Accounts, Up
  <2>2. Ordered'
    <3>1. \A x \in Extras : <<"extra", x>> \notin opened' => times'[x] = 0
      BY <1>0, <1>1, <1>12 DEF Ordered
    <3>2. \A u \in Components : \A v \in uses'[u] : times'[v] > 0
      BY <1>0, <1>5, <1>12 DEF Ordered
    <3>3. ASSUME NEW u \in Components, NEW v \in uses'[u], times'[v] = 1,
                 NEW i \in DOMAIN Pending, NEW j \in DOMAIN Pending, Pending[i] = v, Pending[j] = u
          PROVE  i < j
      <4>1. CASE uses'[u] = uses[u] BY <1>0, <1>12, <3>3, <4>1 DEF Ordered
      <4>2. CASE u = e /\ <<"extra", e>> \notin opened
        <5>1. Count(Pending, e) <= 0 BY <1>0, <1>5, <1>e, <4>2 DEF Accounts
        <5>2. Count(Pending, e) = 0 BY <1>0, <5>1, CountType DEF Lists
        <5> QED BY <1>0, <3>3, <4>2, <5>2, CountType DEF Lists
      <4> QED BY <1>5, <4>1, <4>2
    <3> QED BY <1>12, <3>1, <3>2, <3>3 DEF Ordered
  <2>3. ClosedOnceInOrder'
    <3>1. ASSUME NEW v \in closed, NEW u \in Components, times[v] = 1, v \in uses'[u], times[u] > 0
          PROVE  u \in closed
      <4>1. uses'[u] = uses[u] BY <1>5, <3>1
      <4>2. DOMAIN uses = Components BY <1>6
      <4> QED BY <1>0, <3>1, <4>1, <4>2 DEF ClosedOnceInOrder
    <3>2. DOMAIN uses' = Components BY <1>5
    <3> QED BY <1>0, <1>1, <1>12, <3>1, <3>2 DEF ClosedOnceInOrder
  <2> QED BY <1>8, <1>9, <1>10, <1>11, <2>1, <2>2, <2>3 DEF IInv
<1>13. CASE stage = "app" /\ Pending' = Append(Pending, e) /\ times' = [times EXCEPT ![e] = @ + 1]
  <2>0. closed = {} /\ closed' = {} /\ times'[e] = times[e] + 1 /\ times[e] \in Nat
    BY <1>0, <1>1, <1>6, <1>13, <1>e DEF Accounts, Up
  <2>1. \A v : Count(Pending', v) = Count(Pending, v) + (IF v = e THEN 1 ELSE 0)
    BY <1>0, <1>13, <1>e, CountAppend DEF Lists
  <2>2. \A v : Count(Pending, v) \in Nat BY <1>0, CountType DEF Lists
  <2>3. \A v \in Components :
          v # e => times'[v] = times[v] /\ Count(Pending', v) = Count(Pending, v)
    <3> SUFFICES ASSUME NEW v \in Components, v # e
                 PROVE  times'[v] = times[v] /\ Count(Pending', v) = Count(Pending, v)
      OBVIOUS
    <3>1. Count(Pending', v) = Count(Pending, v) + 0 BY <2>1
    <3> QED BY <1>7, <2>2, <3>1
  <2>4. Count(Pending', e) = Count(Pending, e) + 1 BY <2>1
  <2>5. Accounts'
    <3>1. \A v \in {"dbs", "cache", "token", "config", "sqldb"} :
            v # e /\ times'[v] = times[v] /\ Count(Pending', v) = Count(Pending, v)
      BY <2>3, ResourceFacts DEF Own
    <3>2. ASSUME NEW v \in Components
          PROVE  Count(Pending', v) <= times'[v] /\ ~(Count(Pending', v) < times'[v])
      <4>1. Count(Pending, v) <= times[v] /\ ~(Count(Pending, v) < times[v]) /\ times[v] \in Nat
        BY <1>0, <1>6, <2>0 DEF Accounts
      <4>2. CASE v = e BY <2>0, <2>2, <2>4, <4>1, <4>2
      <4>3. CASE v # e BY <2>3, <4>1, <4>3
      <4> QED BY <4>2, <4>3
    <3>3. ASSUME NEW x \in Extras
          PROVE  closes[<<"extra", x>>] = times'[x] - Count(Pending', x)
      <4>1. closes[<<"extra", x>>] = times[x] - Count(Pending, x) BY <1>0 DEF Accounts
      <4>2. x \in Components BY ResourceFacts
      <4>3. CASE x = e BY <2>0, <2>2, <2>4, <4>1, <4>3
      <4>4. CASE x # e BY <2>3, <4>1, <4>2, <4>4
      <4> QED BY <4>3, <4>4
    <3>4. /\ \A r \in Pools : closes'[r] = IF r \in opened' THEN 1 - Count(Pending', "dbs") ELSE 0
          /\ \A r \in Clients :
               closes'[r] = IF r \in opened' THEN 1 - Count(Pending', "cache") ELSE 0
      BY <1>0, <1>1, <3>1, ResourceFacts DEF Accounts
    <3>5. /\ times'["dbs"] = 1 /\ times'["cache"] = 1 /\ times'["token"] = 1
          /\ times'["config"] = 0 /\ times'["sqldb"] = 0
      BY <1>0, <3>1 DEF Accounts
    <3> QED BY <1>1, <2>0, <3>2, <3>3, <3>4, <3>5 DEF Accounts
  <2>6. Ordered'
    <3>1. \A x \in Extras : <<"extra", x>> \notin opened' => times'[x] = 0
      BY <1>0, <1>1, <2>3, ResourceFacts DEF Ordered
    <3>2. ASSUME NEW u \in Components, NEW v \in uses'[u]
          PROVE  v \in Components /\ times[v] > 0 /\ times'[v] > 0
      <4>1. v \in Components /\ times[v] > 0 BY <1>0, <1>5, <1>6 DEF Ordered
      <4> QED BY <2>0, <2>3, <4>1
    <3>3. ASSUME NEW u \in Components, NEW v \in uses'[u], times'[v] = 1,
                 NEW i \in DOMAIN Pending', NEW j \in DOMAIN Pending',
                 Pending'[i] = v, Pending'[j] = u
          PROVE  i < j
      <4>1. v # e /\ times[v] = 1 BY <2>0, <2>3, <3>2, <3>3
      <4>2. PICK n \in Nat : /\ DOMAIN Pending = 1 .. n /\ DOMAIN Pending' = 1 .. n + 1
                             /\ Pending'[n + 1] = e
                             /\ \A k \in 1 .. n : Pending'[k] = Pending[k]
        BY <1>0, <1>13, <1>e, AppendProperties, LenProperties DEF Lists
      <4>3. i \in 1 .. n BY <3>3, <4>1, <4>2
      <4>4. CASE j = n + 1 BY <4>2, <4>3, <4>4
      <4>5. CASE j \in 1 .. n
        <5>1. Pending[i] = v /\ Pending[j] = u BY <3>3, <4>2, <4>3, <4>5
        <5>2. CASE uses'[u] = uses[u]
          BY <1>0, <3>3, <4>1, <4>2, <4>3, <4>5, <5>1, <5>2 DEF Ordered
        <5>3. CASE u = e /\ <<"extra", e>> \notin opened
          <6>1. Count(Pending, e) <= 0 BY <1>0, <1>5, <1>e, <5>3 DEF Accounts
          <6>2. Count(Pending, e) = 0 BY <2>2, <6>1
          <6> QED BY <1>0, <4>2, <4>5, <5>1, <5>3, <6>2, CountType DEF Lists
        <5> QED BY <1>5, <5>2, <5>3
      <4> QED BY <3>3, <4>2, <4>4, <4>5
    <3> QED BY <3>1, <3>2, <3>3 DEF Ordered
  <2>7. ClosedOnceInOrder'
    <3>1. \A x \in Extras : times'[x] \in Nat /\ times'[x] >= times[x] /\ times[x] \in Nat
      BY <1>6, <1>7, <2>0, ResourceFacts
    <3>2. \A x \in Extras : closes[<<"extra", x>>] <= times[x] /\ closes[<<"extra", x>>] \in Nat
      BY <1>0, ResourceFacts DEF ClosedOnceInOrder, TypeOK
    <3>3. ASSUME NEW x \in Extras PROVE closes'[<<"extra", x>>] <= times'[x]
      <4>1. PICK c \in Nat : c = closes[<<"extra", x>>] /\ c <= times[x] BY <3>2
      <4> QED BY <1>1, <3>1, <4>1
    <3> QED BY <1>0, <1>1, <2>0, <3>3 DEF ClosedOnceInOrder
  <2> QED BY <1>8, <1>9, <1>10, <1>11, <2>5, <2>6, <2>7 DEF IInv
<1> QED BY <1>12, <1>13, CallPending

(* Every way in which the application's code uses the container. *)
LEMMA AppStep ==
    ASSUME IInv, NEW e \in Extras,
           \/ AppAddBackground(e) \/ AppAddCloser(e)
           \/ \E k \in Keys : \/ AppReplace(e, k) \/ AppRegisterName(e, k)
                              \/ AppReplaceName(e, k)
                              \/ \E collect \in BOOLEAN : AppRegister(e, k, collect)
    PROVE  IInv'
<1>0. Container(comps) BY DEF IInv, Shape
<1>1. CASE AppAddBackground(e)
  <2>1. Added(comps, AddBackground(comps, e), e, {"run"}) BY <1>0, CallFacts
  <2> QED BY <1>1, <2>1, CallStep DEF AppAddBackground
<1>2. CASE AppAddCloser(e)
  <2>1. Added(comps, AddCloser(comps, e), e, {"close"}) BY <1>0, CallFacts
  <2> QED BY <1>2, <2>1, CallStep DEF AppAddCloser
<1>3. ASSUME NEW k \in Keys, AppReplace(e, k) PROVE IInv'
  <2>1. Added(comps, Replace(comps, k, e), e, Lifecycle(e)) BY <1>0, CallFacts
  <2> QED BY <1>3, <2>1, CallStep DEF AppReplace
<1>4. ASSUME NEW k \in Keys, AppReplaceName(e, k) PROVE IInv'
  <2>1. Added(comps, ReplaceName(comps, k, e), e, Lifecycle(e)) BY <1>0, CallFacts
  <2> QED BY <1>4, <2>1, CallStep DEF AppReplaceName
<1>5. ASSUME NEW k \in Keys, AppRegisterName(e, k) PROVE IInv'
  <2>1. PICK for : for = IF HasName(comps, k) THEN {} ELSE Lifecycle(e) OBVIOUS
  <2>2. Added(comps, RegisterName(comps, k, e), e, for) BY <1>0, <2>1, CallFacts
  <2>3. AppCall(e, RegisterName(comps, k, e), for) BY <1>5, <2>1 DEF AppRegisterName
  <2> QED BY <2>2, <2>3, CallStep
<1>6. ASSUME NEW k \in Keys, NEW collect \in BOOLEAN, AppRegister(e, k, collect) PROVE IInv'
  <2>1. PICK for : for = IF collect /\ ~HasType(comps, k) THEN Lifecycle(e) ELSE {} OBVIOUS
  <2>2. Added(comps, register(comps, k, e, collect), e, for) BY <1>0, <2>1, CallFacts
  <2>3. AppCall(e, register(comps, k, e, collect), for) BY <1>6, <2>1 DEF AppRegister
  <2> QED BY <2>2, <2>3, CallStep
<1> QED BY <1>1, <1>2, <1>3, <1>4, <1>5, <1>6

-----------------------------------------------------------------------------
(* RunHTTP.                                                                   *)

(* RunHTTP gets the lists of the container, serves, and is told to stop. *)
LEMMA RunStep ==
    ASSUME IInv, Serve \/ ServeFails \/ Shutdown
    PROVE  IInv'
<1>0. /\ TypeOK /\ Shape /\ Accounts /\ Ordered /\ Serviced /\ ClosedOnceInOrder /\ Up
  BY DEF IInv, Serve, ServeFails, Shutdown, Up
<1>1. UNCHANGED <<input, cfg, todo, opened, closes, comps, closed, calls, uses, times, services>>
  BY DEF Serve, ServeFails, Shutdown, history
<1>2. stage' \in {"serve", "closing"} /\ stage # "closing"
  BY DEF Serve, ServeFails, Shutdown
<1>3. options' = options \/ Snapshot BY DEF Serve, ServeFails, Shutdown
<1>4. Pending' = Pending
  BY <1>2 DEF Serve, ServeFails, Shutdown, Snapshot, Pending
<1>5. /\ options' = [backgrounds |-> options'.backgrounds, closers |-> options'.closers]
      /\ options'.backgrounds \in Seq(Extras) /\ options'.closers \in Seq(Closable)
  BY <1>0, <1>3 DEF Snapshot, Shape
<1>6. /\ stopped' \union unstarted' \subseteq Extras
      /\ stage' = "serve" => services \subseteq Range(options'.backgrounds)
      /\ stage' = "closing" => services \subseteq stopped' \union unstarted'
  <2>0. /\ comps.backgrounds \in Seq(Extras) /\ options.backgrounds \in Seq(Extras)
        /\ stopped \union unstarted \subseteq Extras
    BY <1>0 DEF Shape, TypeOK
  <2>1. CASE Serve
    BY <1>0, <2>0, <2>1 DEF Serve, Snapshot, Serviced
  <2>2. CASE ServeFails
    <3>1. PICK l \in Seq(Extras) : l = comps.backgrounds BY <2>0
    <3>2. PICK k \in DOMAIN l : /\ stopped' = {l[i] : i \in 1 .. k - 1}
                                /\ unstarted' = {l[i] : i \in k .. Len(l)}
      BY <2>2, <3>1 DEF ServeFails
    <3>3. Len(l) \in Nat /\ DOMAIN l = 1 .. Len(l) /\ \A i \in 1 .. Len(l) : l[i] \in Extras
      BY LenProperties, ElementOfSeq
    <3>4. services \subseteq Range(l) BY <1>0, <2>2, <3>1 DEF ServeFails, Serviced
    <3>5. /\ \A i \in 1 .. k - 1 : i \in 1 .. Len(l)
          /\ \A i \in k .. Len(l) : i \in 1 .. Len(l)
          /\ \A i \in 1 .. Len(l) : i \in 1 .. k - 1 \/ i \in k .. Len(l)
      BY <3>2, <3>3
    <3>6. stopped' \union unstarted' \subseteq Extras BY <3>2, <3>3, <3>5
    <3>7. Range(l) \subseteq stopped' \union unstarted' BY <3>2, <3>3, <3>5 DEF Range
    <3>8. stage' = "closing" BY <2>2 DEF ServeFails
    <3> QED BY <3>4, <3>6, <3>7, <3>8
  <2>3. CASE Shutdown
    <3>1. /\ stopped' = Range(options.backgrounds) /\ unstarted' = unstarted /\ stage = "serve"
          /\ stage' = "closing"
      BY <2>3 DEF Shutdown, Range
    <3>2. Range(options.backgrounds) \subseteq Extras
      BY <2>0, LenProperties, ElementOfSeq DEF Range
    <3> QED BY <1>0, <2>0, <3>1, <3>2 DEF Serviced
  <2> QED BY <2>1, <2>2, <2>3
<1>7. TypeOK' BY <1>0, <1>1, <1>2, <1>5, <1>6 DEF TypeOK
<1>8. Shape' BY <1>0, <1>1, <1>5 DEF Shape
<1>9. (Starting /\ NothingLeaks)' BY <1>2 DEF Starting, NothingLeaks
<1>10. Serviced' BY <1>1, <1>2, <1>6 DEF Serviced
<1>11. Accounts'
  <2>1. closed = {} BY <1>0, <1>2 DEF Accounts
  <2> QED BY <1>0, <1>1, <1>2, <1>4, <2>1 DEF Accounts
<1>12. Ordered' BY <1>0, <1>1, <1>4 DEF Ordered
<1>13. ClosedOnceInOrder' BY <1>0, <1>1 DEF ClosedOnceInOrder
<1> QED BY <1>7, <1>8, <1>9, <1>10, <1>11, <1>12, <1>13 DEF IInv

(* The last closer is closed after all that was built on it. *)
LEMMA CloseStep ==
    ASSUME IInv, CloseNext
    PROVE  IInv'
<1>0. /\ TypeOK /\ Shape /\ Accounts /\ Ordered /\ Serviced /\ ClosedOnceInOrder /\ Up
  BY DEF IInv, CloseNext, Up
<1>1. PICK l, n, c, front :
        /\ l \in Seq(Closable) /\ l = options.closers /\ l # <<>> /\ n = Len(l) /\ c = l[n]
        /\ front = SubSeq(l, 1, n - 1)
        /\ CloseResources(Holds(c)) /\ closed' = closed \union {c}
        /\ options' = [options EXCEPT !.closers = front]
  BY <1>0 DEF CloseNext, Shape
<1>2. /\ stage = "closing"
      /\ UNCHANGED <<input, cfg, stage, todo, opened, comps, stopped, unstarted, calls,
                                       uses, times, services>>
  BY DEF CloseNext, history
<1>3. /\ n \in Nat \ {0} /\ c \in Closable /\ front \in Seq(Closable)
      /\ DOMAIN l = 1 .. n /\ DOMAIN front = 1 .. n - 1
      /\ \A i \in DOMAIN front : front[i] = l[i]
      /\ OneMore(l, front, c)
  <2>1. Drops(l, n, front) /\ l[n] = c BY <1>1 DEF Drops
  <2> QED BY <1>1, <2>1, CountFront
<1>4. /\ options' = [backgrounds |-> options'.backgrounds, closers |-> options'.closers]
      /\ options'.backgrounds = options.backgrounds /\ options'.closers = front
  BY <1>0, <1>1 DEF Shape
<1>5. Pending = l /\ Pending' = front BY <1>1, <1>2, <1>4 DEF Pending
<1>6. times \in [Components -> Nat] /\ closes \in [Resources -> Nat] /\ c \in Components
      /\ DOMAIN uses = Components
  BY <1>0, <1>3, ResourceFacts DEF TypeOK, Components
<1>7. /\ \A v : Count(l, v) \in Nat /\ Count(front, v) \in Nat
      /\ \A v : v # c => Count(l, v) = Count(front, v)
      /\ Count(l, c) = Count(front, c) + 1
  <2>1. \A v : Count(l, v) \in Nat /\ Count(front, v) \in Nat BY <1>1, <1>3, CountType
  <2> QED BY <1>3, <2>1 DEF OneMore
<1>8. c \in Components /\ c # "config" /\ c # "sqldb"
  <2>1. Count(l, c) > 0 BY <1>7
  <2>2. Count(l, c) <= times[c] BY <1>0, <1>5, <1>6 DEF Accounts
  <2> QED BY <1>0, <1>6, <1>7, <2>1, <2>2 DEF Accounts
<1>9. \A r \in Resources : closes'[r] = closes[r] + IF r \in Holds(c) THEN 1 ELSE 0
  BY <1>1 DEF CloseResources
<1>10. /\ \A r \in Pools : r \in Holds(c) <=> c = "dbs" /\ r \in opened
       /\ \A r \in Clients : r \in Holds(c) <=> c = "cache" /\ r \in opened
       /\ \A e \in Extras : <<"extra", e>> \in Holds(c) <=> c = e
  <2>1. CASE c = "dbs"
    <3>1. Holds(c) = Pools \intersect opened BY <2>1, ResourceFacts DEF Holds, Own
    <3> QED BY <2>1, <3>1, ResourceFacts DEF Own
  <2>2. CASE c = "cache"
    <3>1. Holds(c) = Clients \intersect opened BY <2>2, ResourceFacts DEF Holds, Own
    <3> QED BY <2>2, <3>1, ResourceFacts DEF Own
  <2>3. CASE c = "token"
    <3>1. Holds(c) = {} BY <2>3, ResourceFacts DEF Holds, Own
    <3> QED BY <2>3, <3>1, ResourceFacts DEF Own
  <2>4. CASE c \in Extras
    <3>1. c \notin Own BY <2>4, ResourceFacts
    <3>2. Holds(c) = {<<"extra", c>>} BY <2>4, <3>1 DEF Holds, Own
    <3> QED BY <2>4, <3>1, <3>2, ResourceFacts DEF Own
  <2> QED BY <1>8, <2>1, <2>2, <2>3, <2>4 DEF Components, Own
<1>11. TypeOK'
  <2>1. closes' \in [Resources -> Nat] BY <1>1, <1>6 DEF CloseResources
  <2>2. closed' \subseteq Closable BY <1>0, <1>1, <1>3 DEF TypeOK
  <2> QED BY <1>0, <1>2, <1>3, <1>4, <2>1, <2>2 DEF TypeOK
<1>12. Shape' BY <1>0, <1>2, <1>3, <1>4 DEF Shape
<1>13. (Starting /\ Serviced /\ NothingLeaks)'
  BY <1>0, <1>2 DEF Starting, Serviced, NothingLeaks
<1>14. Accounts'
  <2>1. ASSUME NEW v \in Components
        PROVE  Count(front, v) <= times[v] /\ (v \in closed' <=> Count(front, v) < times[v])
    <3>1. /\ Count(l, v) <= times[v] /\ (v \in closed <=> Count(l, v) < times[v])
          /\ times[v] \in Nat
      BY <1>0, <1>5, <1>6 DEF Accounts
    <3>2. CASE v = c BY <1>1, <1>7, <3>1, <3>2
    <3>3. CASE v # c BY <1>1, <1>7, <3>1, <3>3
    <3> QED BY <3>2, <3>3
  <2>2. ASSUME NEW r \in Pools
        PROVE  closes'[r] = IF r \in opened THEN 1 - Count(front, "dbs") ELSE 0
    <3>1. closes[r] = IF r \in opened THEN 1 - Count(l, "dbs") ELSE 0 BY <1>0, <1>5 DEF Accounts
    <3>2. closes'[r] = closes[r] + IF c = "dbs" /\ r \in opened THEN 1 ELSE 0
      BY <1>9, <1>10, ResourceFacts
    <3> QED BY <1>7, <3>1, <3>2
  <2>3. ASSUME NEW r \in Clients
        PROVE  closes'[r] = IF r \in opened THEN 1 - Count(front, "cache") ELSE 0
    <3>1. closes[r] = IF r \in opened THEN 1 - Count(l, "cache") ELSE 0 BY <1>0, <1>5 DEF Accounts
    <3>2. closes'[r] = closes[r] + IF c = "cache" /\ r \in opened THEN 1 ELSE 0
      BY <1>9, <1>10, ResourceFacts
    <3> QED BY <1>7, <3>1, <3>2
  <2>4. ASSUME NEW e \in Extras
        PROVE  closes'[<<"extra", e>>] = times[e] - Count(front, e)
    <3>1. closes[<<"extra", e>>] = times[e] - Count(l, e) BY <1>0, <1>5 DEF Accounts
    <3>2. closes'[<<"extra", e>>] = closes[<<"extra", e>>] + IF c = e THEN 1 ELSE 0
      BY <1>9, <1>10, ResourceFacts
    <3>3. times[e] \in Nat BY <1>6, ResourceFacts
    <3> QED BY <1>7, <3>1, <3>2, <3>3
  <2> QED BY <1>0, <1>2, <1>5, <2>1, <2>2, <2>3, <2>4 DEF Accounts
<1>15. Ordered'
  <2>1. \A i \in DOMAIN front : i \in DOMAIN l /\ front[i] = l[i] BY <1>3
  <2> QED BY <1>0, <1>2, <1>5, <2>1 DEF Ordered
<1>16. ClosedOnceInOrder'
  <2>1. ASSUME NEW v \in closed', NEW u \in Components, times[v] = 1, v \in uses[u], times[u] > 0
        PROVE  u \in closed'
    <3>1. CASE v \in closed
      BY <1>0, <1>1, <1>6, <2>1, <3>1 DEF ClosedOnceInOrder
    <3>2. CASE v = c /\ u \notin closed
      <4>1. ~(Count(l, u) < times[u]) BY <1>0, <1>5, <3>2 DEF Accounts
      <4>2. Count(l, u) # 0 BY <1>6, <1>7, <2>1, <4>1
      <4>3. PICK j \in DOMAIN l : l[j] = u BY <1>1, <4>2, CountType
      <4>4. n \in DOMAIN l /\ l[n] = v BY <1>1, <1>3, <3>2
      <4>5. n < j BY <1>0, <1>5, <2>1, <4>3, <4>4 DEF Ordered
      <4> QED BY <1>3, <4>3, <4>5
    <3>3. CASE u \in closed BY <1>1, <3>3
    <3> QED BY <1>1, <3>1, <3>2, <3>3
  <2>2. ASSUME NEW r \in Pools \union Clients PROVE closes'[r] <= 1
    <3>1. \/ closes'[r] = 0
          \/ closes'[r] = 1 - Count(front, "dbs") \/ closes'[r] = 1 - Count(front, "cache")
      BY <1>0, <1>2, <1>5, <1>14 DEF Accounts, Up
    <3> QED BY <1>7, <3>1
  <2>3. ASSUME NEW e \in Extras PROVE closes'[<<"extra", e>>] <= times[e]
    <3>1. closes'[<<"extra", e>>] = times[e] - Count(front, e)
      BY <1>0, <1>2, <1>5, <1>14 DEF Accounts, Up
    <3>2. times[e] \in Nat BY <1>6, ResourceFacts
    <3> QED BY <1>7, <3>1, <3>2
  <2> QED BY <1>2, <1>6, <2>1, <2>2, <2>3 DEF ClosedOnceInOrder
<1> QED BY <1>11, <1>12, <1>13, <1>14, <1>15, <1>16 DEF IInv

(* When the list is empty, everything in it has been closed. *)
LEMMA ExitStep ==
    ASSUME IInv, Exit
    PROVE  IInv'
<1>0. /\ TypeOK /\ Shape /\ Accounts /\ Ordered /\ Serviced /\ ClosedOnceInOrder /\ Up
  BY DEF IInv, Exit, Up
<1>1. /\ stage = "closing" /\ stage' = "exit" /\ options.closers = <<>>
      /\ UNCHANGED <<input, cfg, todo, opened, closes, comps, options, stopped, unstarted,
                     closed, calls, uses, times, services>>
  BY DEF Exit, history
<1>2. Pending = <<>> /\ \A v : Count(Pending, v) = 0 BY <1>1, CountEmpty DEF Pending
<1>3. NothingLeaks'
  <2>1. ASSUME NEW r \in opened, r \notin {<<"extra", e>> : e \in Extras} PROVE closes[r] > 0
    <3>1. r \in Pools \/ r \in Clients BY <1>0, <2>1, ResourceFacts DEF TypeOK
    <3>2. closes[r] = 1 - 0 BY <1>0, <1>2, <3>1 DEF Accounts
    <3> QED BY <3>2
  <2>2. ASSUME NEW e \in Extras, times[e] > 0 PROVE closes[<<"extra", e>>] > 0
    <3>1. closes[<<"extra", e>>] = times[e] - 0 BY <1>0, <1>2 DEF Accounts
    <3>2. times[e] \in Nat BY <1>0, ResourceFacts DEF TypeOK, Components
    <3> QED BY <2>2, <3>1, <3>2
  <2>3. services \subseteq stopped \union unstarted BY <1>0, <1>1 DEF Serviced
  <2> QED BY <1>1, <2>1, <2>2, <2>3 DEF NothingLeaks
<1>4. TypeOK' /\ Shape' /\ ClosedOnceInOrder'
  BY <1>0, <1>1 DEF TypeOK, Shape, ClosedOnceInOrder
<1>5. (Starting /\ Accounts /\ Ordered /\ Serviced)'
  BY <1>1 DEF Starting, Accounts, Ordered, Serviced, Up
<1> QED BY <1>3, <1>4, <1>5 DEF IInv

-----------------------------------------------------------------------------
(* The theorems.                                                              *)

(* The invariant holds in every state of every process: what the container    *)
(* was given, what RunHTTP still has to close and what has been closed add    *)
(* up, and a component precedes those built on it (container.go, runtime.go). *)
THEOREM IInvHolds == Spec => []IInv
<1>1. ASSUME IInv, [Next]_vars PROVE IInv'
  <2>1. CASE UNCHANGED vars
    <3>1. UNCHANGED <<input, cfg, stage, todo, opened, closes, comps, options, stopped, unstarted,
                      closed, calls, uses, times, services>>
      BY <2>1 DEF vars
    <3>2. Pending' = Pending BY <3>1 DEF Pending
    <3>3. TypeOK' /\ Shape' /\ Starting' BY <1>1, <3>1 DEF IInv, TypeOK, Shape, Starting
    <3>4. Accounts' /\ Ordered' /\ Serviced'
      BY <1>1, <3>1, <3>2 DEF IInv, Accounts, Ordered, Serviced, Up
    <3>5. NothingLeaks' /\ ClosedOnceInOrder'
      BY <1>1, <3>1 DEF IInv, NothingLeaks, ClosedOnceInOrder
    <3> QED BY <3>3, <3>4, <3>5 DEF IInv
  <2>2. CASE \/ Load \/ LoadFails
             \/ \E n \in Names : \/ OpenConnection(n) \/ OpenConnectionFails(n)
                                 \/ OpenStore(n) \/ OpenStoreFails(n)
    BY <1>1, <2>2, StartStep
  <2>3. CASE DatabasesReady BY <1>1, <2>3, DatabasesStep
  <2>4. CASE CacheReady BY <1>1, <2>4, CacheStep
  <2>5. CASE \E e \in Extras :
               \/ AppAddBackground(e) \/ AppAddCloser(e)
               \/ \E k \in Keys : \/ AppReplace(e, k) \/ AppRegisterName(e, k)
                                  \/ AppReplaceName(e, k)
                                  \/ \E collect \in BOOLEAN : AppRegister(e, k, collect)
    BY <1>1, <2>5, AppStep
  <2>6. CASE Serve \/ ServeFails \/ Shutdown BY <1>1, <2>6, RunStep
  <2>7. CASE CloseNext BY <1>1, <2>7, CloseStep
  <2>8. CASE Exit BY <1>1, <2>8, ExitStep
  <2> QED BY <1>1, <2>1, <2>2, <2>3, <2>4, <2>5, <2>6, <2>7, <2>8 DEF Next
<1> QED BY <1>1, IInvInit, PTL DEF Spec

(* Types; only what can be closed is in the lists of closers, and only what   *)
(* the application added is stopped (container.go:225).                       *)
THEOREM TypeOKHolds == Spec => []TypeOK
<1>1. IInv => TypeOK BY DEF IInv
<1> QED BY <1>1, IInvHolds, PTL

(* However the process ends, and whatever the configuration, the pools, the   *)
(* clients and all components that were given to the container in time have   *)
(* been closed (cache.go:172, container.go:61, runtime.go:138).               *)
THEOREM NothingLeaksHolds == Spec => []NothingLeaks
<1>1. IInv => NothingLeaks BY DEF IInv
<1> QED BY <1>1, IInvHolds, PTL

(* Nothing is closed before what was built on it, nor more often than it was  *)
(* registered, for any order in which the application adds its components     *)
(* (container.go:225, runtime.go:138).                                        *)
THEOREM ClosedOnceInOrderHolds == Spec => []ClosedOnceInOrder
<1>1. IInv => ClosedOnceInOrder BY DEF IInv
<1> QED BY <1>1, IInvHolds, PTL

-----------------------------------------------------------------------------
(* Every non-empty set of natural numbers has a least element. *)
LEMMA LeastNat ==
    ASSUME NEW T, T \subseteq Nat, T # {}
    PROVE  \E x \in T : \A y \in T : x <= y
<1>1. PICK R : R = OpToRel(<, Nat) OBVIOUS
<1>2. \A x, y \in Nat : x < y => <<x, y>> \in R BY <1>1 DEF OpToRel
<1>3. IsWellFoundedOn(R, Nat) BY <1>1, NatLessThanWellFounded
<1>4. PICK x \in T : \A y \in T : ~(<<y, x>> \in R) BY <1>3, WFMin
<1>5. ASSUME NEW y \in T PROVE x <= y
  <2>1. x \in Nat /\ y \in Nat OBVIOUS
  <2>2. ~(y < x) BY <1>2, <1>4, <2>1
  <2> QED BY <2>1, <2>2
<1> QED BY <1>5

(* So a set of positions that has the first and, with each, the next has all. *)
LEMMA AllPositions ==
    ASSUME NEW n \in Nat, NEW S, 0 \in S, \A i \in 0 .. n : i < n /\ i \in S => i + 1 \in S
    PROVE  0 .. n \subseteq S
<1>1. PICK T : T = {i \in 0 .. n : i \notin S} OBVIOUS
<1>2. CASE T = {} BY <1>1, <1>2
<1>3. CASE T # {}
  <2>1. T \subseteq Nat BY <1>1
  <2>2. PICK x \in T : \A y \in T : x <= y BY <1>3, <2>1, LeastNat
  <2>3. x \in 0 .. n /\ x # 0 /\ x \notin S BY <1>1
  <2>4. x - 1 \in 0 .. n /\ x - 1 < n /\ x - 1 + 1 = x /\ ~(x <= x - 1) BY <2>3
  <2>5. x - 1 \in S BY <1>1, <2>2, <2>4
  <2> QED BY <2>3, <2>4, <2>5
<1> QED BY <1>2, <1>3

-----------------------------------------------------------------------------
(* The environment that the .env files leave.                                 *)

\* The environments after each entry of a file ...
EntrySteps(env, entries, w) ==
    w = [i \in 0 .. Len(entries) |-> IF i = 0 THEN env ELSE Setenv(w[i - 1], entries[i])]

\* ... and after each file.
FileSteps(env, files, w) ==
    w = [i \in 0 .. Len(files) |-> IF i = 0 THEN env ELSE LoadFile(w[i - 1], files[i])]

(* The entries of a file one by one, ... *)
LEMMA SetAllSteps ==
    ASSUME NEW env, NEW entries, Len(entries) \in Nat
    PROVE  \E w : EntrySteps(env, entries, w) /\ SetAll(env, entries) = w[Len(entries)]
<1> DEFINE Upto(n, w) == w = [i \in 0 .. n |-> IF i = 0 THEN env ELSE Setenv(w[i - 1], entries[i])]
           S == {n \in Nat : \E w : Upto(n, w)}
<1>1. 0 \in S
  <2>1. Upto(0, [i \in 0 .. 0 |-> env]) OBVIOUS
  <2> QED BY <2>1
<1>2. ASSUME NEW n \in Nat, n \in S PROVE n + 1 \in S
  <2>1. PICK w : Upto(n, w) BY <1>2
  <2>2. PICK v : v = [i \in 0 .. n + 1 |-> IF i = n + 1 THEN Setenv(w[n], entries[n + 1])
                                           ELSE w[i]]
    OBVIOUS
  <2>3. ASSUME NEW i \in 0 .. n + 1
        PROVE  v[i] = IF i = 0 THEN env ELSE Setenv(v[i - 1], entries[i])
    <3>1. CASE i = n + 1
      <4>1. i # 0 /\ i - 1 = n /\ n \in 0 .. n + 1 /\ n # n + 1 BY <3>1
      <4>2. v[i - 1] = w[n] BY <2>2, <4>1
      <4> QED BY <2>2, <3>1, <4>1, <4>2
    <3>2. CASE i # n + 1 /\ i = 0
      <4>1. v[i] = w[i] /\ i \in 0 .. n BY <2>2, <3>2
      <4> QED BY <2>1, <3>2, <4>1
    <3>3. CASE i # n + 1 /\ i # 0
      <4>1. i \in 0 .. n /\ i - 1 \in 0 .. n + 1 /\ i - 1 # n + 1 BY <3>3
      <4>2. v[i] = w[i] /\ v[i - 1] = w[i - 1] BY <2>2, <3>3, <4>1
      <4> QED BY <2>1, <3>3, <4>1, <4>2
    <3> QED BY <3>1, <3>2, <3>3
  <2>4. Upto(n + 1, v) BY <2>2, <2>3
  <2> QED BY <2>4
<1>3. 0 .. Len(entries) \subseteq S BY <1>1, <1>2, AllPositions
<1>4. Len(entries) \in S BY <1>3
<1>5. \E w : EntrySteps(env, entries, w) BY <1>4 DEF EntrySteps
<1>6. PICK w : w = CHOOSE v : EntrySteps(env, entries, v) OBVIOUS
<1>7. EntrySteps(env, entries, w) BY <1>5, <1>6
<1>8. SetAll(env, entries) = w[Len(entries)] BY <1>6 DEF SetAll, EntrySteps
<1> QED BY <1>7, <1>8

(* ... and the files. *)
LEMMA TryLoadDotEnvSteps ==
    ASSUME NEW env, NEW files, Len(files) \in Nat
    PROVE  \E w : FileSteps(env, files, w) /\ TryLoadDotEnv(env, files) = w[Len(files)]
<1> DEFINE Upto(n, w) == w = [i \in 0 .. n |-> IF i = 0 THEN env ELSE LoadFile(w[i - 1], files[i])]
           S == {n \in Nat : \E w : Upto(n, w)}
<1>1. 0 \in S
  <2>1. Upto(0, [i \in 0 .. 0 |-> env]) OBVIOUS
  <2> QED BY <2>1
<1>2. ASSUME NEW n \in Nat, n \in S PROVE n + 1 \in S
  <2>1. PICK w : Upto(n, w) BY <1>2
  <2>2. PICK v : v = [i \in 0 .. n + 1 |-> IF i = n + 1 THEN LoadFile(w[n], files[n + 1])
                                           ELSE w[i]]
    OBVIOUS
  <2>3. ASSUME NEW i \in 0 .. n + 1
        PROVE  v[i] = IF i = 0 THEN env ELSE LoadFile(v[i - 1], files[i])
    <3>1. CASE i = n + 1
      <4>1. i # 0 /\ i - 1 = n /\ n \in 0 .. n + 1 /\ n # n + 1 BY <3>1
      <4>2. v[i - 1] = w[n] BY <2>2, <4>1
      <4> QED BY <2>2, <3>1, <4>1, <4>2
    <3>2. CASE i # n + 1 /\ i = 0
      <4>1. v[i] = w[i] /\ i \in 0 .. n BY <2>2, <3>2
      <4> QED BY <2>1, <3>2, <4>1
    <3>3. CASE i # n + 1 /\ i # 0
      <4>1. i \in 0 .. n /\ i - 1 \in 0 .. n + 1 /\ i - 1 # n + 1 BY <3>3
      <4>2. v[i] = w[i] /\ v[i - 1] = w[i - 1] BY <2>2, <3>3, <4>1
      <4> QED BY <2>1, <3>3, <4>1, <4>2
    <3> QED BY <3>1, <3>2, <3>3
  <2>4. Upto(n + 1, v) BY <2>2, <2>3
  <2> QED BY <2>4
<1>3. 0 .. Len(files) \subseteq S BY <1>1, <1>2, AllPositions
<1>4. Len(files) \in S BY <1>3
<1>5. \E w : FileSteps(env, files, w) BY <1>4 DEF FileSteps
<1>6. PICK w : w = CHOOSE v : FileSteps(env, files, v) OBVIOUS
<1>7. FileSteps(env, files, w) BY <1>5, <1>6
<1>8. TryLoadDotEnv(env, files) = w[Len(files)] BY <1>6 DEF TryLoadDotEnv, FileSteps
<1> QED BY <1>7, <1>8

\* What is set stays ...
Keeps(env, r) == DOMAIN env \subseteq DOMAIN r /\ \A l \in DOMAIN env : r[l] = env[l]

\* ... and a new variable has the value of its first entry.
EntriesSay(env, entries, i, r) ==
    /\ Keeps(env, r)
    /\ \A j \in 1 .. i : entries[j][1] \in DOMAIN r
    /\ \A l \in DOMAIN r \ DOMAIN env : \E j \in 1 .. i :
          /\ entries[j][1] = l /\ r[l] = entries[j][2]
          /\ \A k \in 1 .. i : entries[k][1] = l => j <= k

(* The entries of one file. *)
LEMMA SetAllSays ==
    ASSUME NEW env, NEW entries, Len(entries) \in Nat
    PROVE  EntriesSay(env, entries, Len(entries), SetAll(env, entries))
<1>1. PICK w : EntrySteps(env, entries, w) /\ SetAll(env, entries) = w[Len(entries)]
  BY SetAllSteps
<1>2. PICK n \in Nat : n = Len(entries) OBVIOUS
<1>3. PICK S : S = {i \in 0 .. n : EntriesSay(env, entries, i, w[i])} OBVIOUS
<1>4. 0 \in S
  <2>1. w[0] = env BY <1>1, <1>2 DEF EntrySteps
  <2>2. EntriesSay(env, entries, 0, env) BY DEF EntriesSay, Keeps
  <2> QED BY <1>2, <1>3, <2>1, <2>2
<1>5. ASSUME NEW i \in 0 .. n, i < n, i \in S PROVE i + 1 \in S
  <2>1. i \in Nat /\ i + 1 \in 0 .. n /\ i + 1 # 0 /\ i + 1 - 1 = i BY <1>2, <1>5
  <2>2. PICK old, new, entry, key, value :
          /\ old = w[i] /\ new = w[i + 1] /\ entry = entries[i + 1]
          /\ key = entry[1] /\ value = entry[2]
    OBVIOUS
  <2>3. EntriesSay(env, entries, i, old) BY <1>3, <1>5, <2>2
  <2>4. new = Setenv(old, entry) BY <1>1, <1>2, <2>1, <2>2 DEF EntrySteps
  <2>5. /\ DOMAIN new = DOMAIN old \union {key}
        /\ \A l \in DOMAIN old : new[l] = old[l]
        /\ key \notin DOMAIN old => new[key] = value
    <3>1. /\ DOMAIN new = DOMAIN old \union {entry[1]}
          /\ \A l \in DOMAIN old : new[l] = old[l]
          /\ entry[1] \notin DOMAIN old => new[entry[1]] = entry[2]
      BY <2>4 DEF Setenv
    <3> QED BY <2>2, <3>1
  <2>6. \A j \in 1 .. i + 1 : j \in 1 .. i \/ j = i + 1 BY <2>1
  <2>7. Keeps(env, new) BY <2>3, <2>5 DEF EntriesSay, Keeps
  <2>8. \A j \in 1 .. i + 1 : entries[j][1] \in DOMAIN new
    BY <2>2, <2>3, <2>5, <2>6 DEF EntriesSay
  <2>9. ASSUME NEW l \in DOMAIN new \ DOMAIN env
        PROVE  \E j \in 1 .. i + 1 :
                  /\ entries[j][1] = l /\ new[l] = entries[j][2]
                  /\ \A k \in 1 .. i + 1 : entries[k][1] = l => j <= k
    <3>1. CASE l \in DOMAIN old
      <4>1. PICK j \in 1 .. i : /\ entries[j][1] = l /\ old[l] = entries[j][2]
                                /\ \A k \in 1 .. i : entries[k][1] = l => j <= k
        BY <2>3, <2>9, <3>1 DEF EntriesSay
      <4>2. j \in 1 .. i + 1 /\ j <= i + 1 BY <2>1
      <4> QED BY <2>5, <2>6, <3>1, <4>1, <4>2
    <3>2. CASE l \notin DOMAIN old
      <4>1. l = key /\ new[l] = value BY <2>5, <2>9, <3>2
      <4>2. \A k \in 1 .. i + 1 : entries[k][1] = l => k = i + 1
        BY <2>3, <2>6, <3>2 DEF EntriesSay
      <4>3. i + 1 \in 1 .. i + 1 /\ i + 1 <= i + 1 BY <2>1
      <4> QED BY <2>2, <4>1, <4>2, <4>3
    <3> QED BY <3>1, <3>2
  <2>10. EntriesSay(env, entries, i + 1, new) BY <2>7, <2>8, <2>9 DEF EntriesSay
  <2> QED BY <1>3, <2>1, <2>2, <2>10
<1>6. 0 .. n \subseteq S BY <1>2, <1>4, <1>5, AllPositions
<1>7. n \in S BY <1>2, <1>6
<1> QED BY <1>1, <1>2, <1>3, <1>7

\* Position b of file a says something of l, and no earlier one of i files does.
Says(files, l, a, b) ==
    /\ files[a].ok
    /\ b \in 1 .. Len(files[a].entries)
    /\ files[a].entries[b][1] = l

FirstSays(files, i, l, a, b) ==
    /\ a \in 1 .. i /\ Says(files, l, a, b)
    /\ \A c \in 1 .. i : \A d : Says(files, l, c, d) => a < c \/ (a = c /\ b <= d)

FilesSay(env, files, i, r) ==
    /\ Keeps(env, r)
    /\ \A a \in 1 .. i : \A b : \A l : Says(files, l, a, b) => l \in DOMAIN r
    /\ \A l \in DOMAIN r \ DOMAIN env : \E a, b :
          FirstSays(files, i, l, a, b) /\ r[l] = files[a].entries[b][2]

(* One more file. *)
LEMMA FileSays ==
    ASSUME NEW env, NEW files, NEW i \in Nat, NEW old, FilesSay(env, files, i, old),
           Len(files[i + 1].entries) \in Nat, files[i + 1].ok \in BOOLEAN
    PROVE  FilesSay(env, files, i + 1, LoadFile(old, files[i + 1]))
<1>1. PICK new, file : new = LoadFile(old, file) /\ file = files[i + 1] OBVIOUS
<1>2. \A a \in 1 .. i + 1 : a \in 1 .. i \/ a = i + 1 OBVIOUS
<1>3. CASE ~file.ok
  <2>1. new = old BY <1>1, <1>3 DEF LoadFile
  <2>2. \A l, b : ~Says(files, l, i + 1, b) BY <1>1, <1>3 DEF Says
  <2>3. \A l, a, b : FirstSays(files, i, l, a, b) => FirstSays(files, i + 1, l, a, b)
    BY <1>2, <2>2 DEF FirstSays
  <2>4. FilesSay(env, files, i + 1, old) BY <1>2, <2>2, <2>3 DEF FilesSay
  <2> QED BY <1>1, <2>1, <2>4
<1>4. CASE file.ok
  <2>1. PICK n \in Nat : n = Len(file.entries) BY <1>1
  <2>2. EntriesSay(old, file.entries, n, new) BY <1>1, <1>4, <2>1, SetAllSays DEF LoadFile
  <2>3. Keeps(old, new) BY <2>2 DEF EntriesSay
  <2>4. Keeps(env, new) BY <2>3 DEF FilesSay, Keeps
  <2>5. ASSUME NEW a \in 1 .. i + 1, NEW b, NEW l, Says(files, l, a, b) PROVE l \in DOMAIN new
    <3>1. CASE a = i + 1 BY <1>1, <2>1, <2>2, <2>5, <3>1 DEF Says, EntriesSay
    <3>2. CASE a # i + 1 BY <1>2, <2>3, <2>5, <3>2 DEF FilesSay, Keeps
    <3> QED BY <3>1, <3>2
  <2>6. ASSUME NEW l \in DOMAIN new \ DOMAIN env
        PROVE  \E a, b : FirstSays(files, i + 1, l, a, b) /\ new[l] = files[a].entries[b][2]
    <3>1. CASE l \in DOMAIN old
      <4>1. PICK a, b : FirstSays(files, i, l, a, b) /\ old[l] = files[a].entries[b][2]
        BY <2>6, <3>1 DEF FilesSay
      <4>2. a \in 1 .. i /\ a \in 1 .. i + 1 /\ a < i + 1 BY <4>1 DEF FirstSays
      <4>3. FirstSays(files, i + 1, l, a, b) BY <1>2, <4>1, <4>2 DEF FirstSays
      <4>4. new[l] = old[l] BY <2>3, <3>1 DEF Keeps
      <4> QED BY <4>1, <4>3, <4>4
    <3>2. CASE l \notin DOMAIN old
      <4>1. PICK b \in 1 .. n : /\ file.entries[b][1] = l /\ new[l] = file.entries[b][2]
                                /\ \A d \in 1 .. n : file.entries[d][1] = l => b <= d
        BY <2>2, <2>6, <3>2 DEF EntriesSay
      <4>2. \A c \in 1 .. i : \A d : ~Says(files, l, c, d) BY <3>2 DEF FilesSay
      <4>3. Says(files, l, i + 1, b) BY <1>1, <1>4, <2>1, <4>1 DEF Says
      <4>4. \A d : Says(files, l, i + 1, d) => b <= d BY <1>1, <2>1, <4>1 DEF Says
      <4>5. i + 1 \in 1 .. i + 1 OBVIOUS
      <4>6. FirstSays(files, i + 1, l, i + 1, b) BY <1>2, <4>2, <4>3, <4>4, <4>5 DEF FirstSays
      <4> QED BY <1>1, <4>1, <4>6
    <3> QED BY <3>1, <3>2
  <2>7. FilesSay(env, files, i + 1, new) BY <2>4, <2>5, <2>6 DEF FilesSay
  <2> QED BY <1>1, <2>7
<1> QED BY <1>1, <1>3, <1>4

(* All of them. *)
LEMMA DotEnvSays ==
    ASSUME NEW env, NEW files, Len(files) \in Nat,
           \A i \in 1 .. Len(files) : Len(files[i].entries) \in Nat /\ files[i].ok \in BOOLEAN
    PROVE  FilesSay(env, files, Len(files), TryLoadDotEnv(env, files))
<1>1. PICK w : FileSteps(env, files, w) /\ TryLoadDotEnv(env, files) = w[Len(files)]
  BY TryLoadDotEnvSteps
<1>2. PICK n \in Nat : n = Len(files) OBVIOUS
<1>3. PICK S : S = {i \in 0 .. n : FilesSay(env, files, i, w[i])} OBVIOUS
<1>4. 0 \in S
  <2>1. w[0] = env BY <1>1, <1>2 DEF FileSteps
  <2>2. FilesSay(env, files, 0, env) BY DEF FilesSay, Keeps
  <2> QED BY <1>2, <1>3, <2>1, <2>2
<1>5. ASSUME NEW i \in 0 .. n, i < n, i \in S PROVE i + 1 \in S
  <2>1. i \in Nat /\ i + 1 \in 0 .. n /\ i + 1 # 0 /\ i + 1 - 1 = i /\ i + 1 \in 1 .. n
    BY <1>2, <1>5
  <2>2. FilesSay(env, files, i, w[i]) BY <1>3, <1>5
  <2>3. w[i + 1] = LoadFile(w[i], files[i + 1]) BY <1>1, <1>2, <2>1 DEF FileSteps
  <2>4. FilesSay(env, files, i + 1, w[i + 1]) BY <1>2, <2>1, <2>2, <2>3, FileSays
  <2> QED BY <1>3, <2>1, <2>4
<1>6. 0 .. n \subseteq S BY <1>2, <1>4, <1>5, AllPositions
<1>7. n \in S BY <1>2, <1>6
<1> QED BY <1>1, <1>2, <1>3, <1>7

-----------------------------------------------------------------------------
(* The environment that the process reads, leaf by leaf.                      *)

By(env, l, otherwise) == IF l \in DOMAIN env THEN env[l] ELSE otherwise

(* A sequence, its positions and its elements. *)
LEMMA SeqFacts ==
    ASSUME NEW S, NEW s \in Seq(S)
    PROVE  /\ Len(s) \in Nat /\ DOMAIN s = 1 .. Len(s) /\ DOMAIN s \subseteq Nat
           /\ \A i \in 1 .. Len(s) : s[i] \in S
OBVIOUS

(* The .env files of a process, as far as the proofs look at them. *)
LEMMA DotEnvTypes ==
    ASSUME input \in Inputs
    PROVE  /\ Len(input.dotenv) \in Nat
           /\ DOMAIN input.dotenv = 1 .. Len(input.dotenv)
           /\ \A i \in 1 .. Len(input.dotenv) :
                 /\ input.dotenv[i].ok \in BOOLEAN
                 /\ Len(input.dotenv[i].entries) \in Nat
                 /\ DOMAIN input.dotenv[i].entries = 1 .. Len(input.dotenv[i].entries)
<1>1. PICK files : files = input.dotenv OBVIOUS
<1>2. PICK E : E = Seq(STRING) \X STRING OBVIOUS
<1>3. PICK F : F = [ok : BOOLEAN, entries : Seq(E)] /\ files \in Seq(F)
  BY <1>1, <1>2, InputAssumption
<1>4. Len(files) \in Nat /\ DOMAIN files = 1 .. Len(files) BY <1>3
<1>5. ASSUME NEW i \in 1 .. Len(files)
      PROVE  /\ files[i].ok \in BOOLEAN
             /\ Len(files[i].entries) \in Nat
             /\ DOMAIN files[i].entries = 1 .. Len(files[i].entries)
  <2>1. files[i] \in F BY <1>3, SeqFacts
  <2>2. PICK es : es = files[i].entries OBVIOUS
  <2>3. es \in Seq(E) /\ files[i].ok \in BOOLEAN BY <1>3, <2>1, <2>2
  <2>4. Len(es) \in Nat /\ DOMAIN es = 1 .. Len(es) BY <2>3
  <2> QED BY <2>2, <2>3, <2>4
<1> QED BY <1>1, <1>4, <1>5

(* Where the files speak of a leaf. *)
LEMMA InFilesSays ==
    ASSUME input \in Inputs, NEW l
    PROVE  /\ \A p \in InFiles(l) : \E a \in 1 .. Len(input.dotenv) : \E b :
                p = <<a, b>> /\ Says(input.dotenv, l, a, b)
           /\ \A a \in 1 .. Len(input.dotenv) : \A b :
                Says(input.dotenv, l, a, b) => <<a, b>> \in InFiles(l)
<1>1. PICK files : files = input.dotenv OBVIOUS
<1>2. PICK n \in Nat : n = Len(files) BY <1>1, DotEnvTypes
<1>3. /\ DOMAIN files = 1 .. n
      /\ \A i \in 1 .. n : DOMAIN files[i].entries = 1 .. Len(files[i].entries)
  BY <1>1, <1>2, DotEnvTypes
<1>4. InFiles(l) = UNION {{<<i, j>> : j \in {x \in DOMAIN files[i].entries :
                                              files[i].entries[x][1] = l}} :
                           i \in {x \in DOMAIN files : files[x].ok}}
  BY <1>1 DEF InFiles
<1>5. ASSUME NEW p \in InFiles(l)
      PROVE  \E a \in 1 .. n : \E b : p = <<a, b>> /\ Says(files, l, a, b)
  <2>1. PICK a \in DOMAIN files :
          /\ files[a].ok
          /\ p \in {<<a, j>> : j \in {x \in DOMAIN files[a].entries : files[a].entries[x][1] = l}}
    BY <1>4, <1>5
  <2>2. PICK b \in DOMAIN files[a].entries : files[a].entries[b][1] = l /\ p = <<a, b>>
    BY <2>1
  <2> QED BY <1>3, <2>1, <2>2 DEF Says
<1>6. ASSUME NEW a \in 1 .. n, NEW b, Says(files, l, a, b) PROVE <<a, b>> \in InFiles(l)
  <2>1. /\ a \in DOMAIN files /\ files[a].ok
        /\ b \in DOMAIN files[a].entries /\ files[a].entries[b][1] = l
    BY <1>3, <1>6 DEF Says
  <2> QED BY <1>4, <2>1
<1> QED BY <1>1, <1>2, <1>5, <1>6

(* What the files left in the environment is what the first entry says, unless *)
(* the process had the variable: TryLoadDotEnv and the layers agree.          *)
LEMMA EnvironmentSays ==
    ASSUME input \in Inputs, NEW l, NEW otherwise
    PROVE  By(Environment(input), l, otherwise) = Override(l, otherwise)
<1>1. PICK files, env, E :
        files = input.dotenv /\ env = input.env /\ E = Environment(input)
  OBVIOUS
<1>2. PICK n \in Nat : n = Len(files) BY <1>1, DotEnvTypes
<1>3. FilesSay(env, files, n, E) BY <1>1, <1>2, DotEnvTypes, DotEnvSays DEF Environment
<1>4. CASE l \in DOMAIN env BY <1>1, <1>3, <1>4 DEF FilesSay, Keeps, By, Override
<1>5. CASE l \notin DOMAIN env /\ InFiles(l) = {}
  <2>1. l \notin DOMAIN E BY <1>1, <1>2, <1>3, <1>5, InFilesSays DEF FilesSay, FirstSays
  <2> QED BY <1>1, <1>5, <2>1 DEF By, Override
<1>6. CASE l \notin DOMAIN env /\ InFiles(l) # {}
  <2>1. l \in DOMAIN E BY <1>1, <1>2, <1>3, <1>6, InFilesSays DEF FilesSay
  <2>2. PICK a, b : FirstSays(files, n, l, a, b) /\ E[l] = files[a].entries[b][2]
    BY <1>3, <1>6, <2>1 DEF FilesSay
  <2>3. PICK p : p = First(InFiles(l)) OBVIOUS
  <2>4. PICK q : q = <<a, b>> OBVIOUS
  <2>5. q \in InFiles(l) BY <1>1, <1>2, <2>2, <2>4, InFilesSays DEF FirstSays
  <2>6. \A r \in InFiles(l) : q[1] < r[1] \/ (q[1] = r[1] /\ q[2] <= r[2])
    <3>1. TAKE r \in InFiles(l)
    <3>2. PICK c \in 1 .. n : \E d : r = <<c, d>> /\ Says(files, l, c, d)
      BY <1>1, <1>2, InFilesSays
    <3>3. PICK d : r = <<c, d>> /\ Says(files, l, c, d) BY <3>2
    <3> QED BY <2>2, <2>4, <3>3 DEF FirstSays
  <2>7. p \in InFiles(l) /\ \A r \in InFiles(l) : p[1] < r[1] \/ (p[1] = r[1] /\ p[2] <= r[2])
    BY <2>3, <2>5, <2>6 DEF First
  <2>8. PICK c \in 1 .. n : \E d : p = <<c, d>> /\ Says(files, l, c, d)
    BY <1>1, <1>2, <2>7, InFilesSays
  <2>9. PICK d : p = <<c, d>> /\ Says(files, l, c, d) BY <2>8
  <2>10. a \in Int /\ b \in Int /\ c \in Int /\ d \in Int
    BY <1>1, <1>2, <2>2, <2>9, DotEnvTypes DEF FirstSays, Says
  <2>11. (a < c \/ (a = c /\ b <= d)) /\ (c < a \/ (c = a /\ d <= b))
    BY <2>2, <2>4, <2>5, <2>7, <2>9 DEF FirstSays
  <2>12. a = c /\ b = d BY <2>10, <2>11
  <2>13. p[1] = a /\ p[2] = b BY <2>9, <2>12
  <2> QED BY <1>1, <1>6, <2>1, <2>2, <2>3, <2>13 DEF By, Override
<1> QED BY <1>4, <1>5, <1>6

(* The file that is found is there. *)
LEMMA PathExists ==
    ASSUME input \in Inputs, Path(input) # ""
    PROVE  Path(input) \in DOMAIN input.files
<1>1. PICK found : found = {i \in DOMAIN input.candidates :
                              input.candidates[i] \in DOMAIN input.files}
  OBVIOUS
<1>2. CASE input.explicit # "" BY <1>2 DEF Path, FindFile
<1>3. CASE input.explicit = ""
  <2>1. found # {} /\ Path(input) = input.candidates[Min(found)] BY <1>1, <1>3 DEF Path, FindFile
  <2>2. input.candidates \in Seq(STRING) BY InputAssumption
  <2>3. found \subseteq Nat
    <3>1. PICK cs : cs = input.candidates OBVIOUS
    <3>2. DOMAIN cs \subseteq Nat BY <2>2, <3>1, SeqFacts
    <3> QED BY <1>1, <3>1, <3>2
  <2>4. \E x \in found : \A y \in found : x <= y BY <2>1, <2>3, LeastNat
  <2>5. Min(found) \in found BY <2>4 DEF Min
  <2> QED BY <1>1, <2>1, <2>5
<1> QED BY <1>2, <1>3

-----------------------------------------------------------------------------
(* The leaves.                                                                *)

(* The length of a leaf and its second element tell its kind. *)
LEMMA LeafShapes ==
    /\ \A l \in Fixed : Len(l) = 2
    /\ \A n, f : LET l == ConnectionLeaf(n, f)
                 IN Len(l) = 4 /\ l[2] = "connections" /\ l[3] = n /\ l[4] = f
    /\ \A n, f : LET l == StoreLeaf(n, f)
                 IN Len(l) = 4 /\ l[2] = "stores" /\ l[3] = n /\ l[4] = f
BY DEF Fixed, Addr, DefaultConnection, DatabaseDriver, MySQLDSN, DefaultStore,
       ConnectionLeaf, StoreLeaf

(* The leaves that are always there are different. *)
LEMMA FixedLeaves ==
    /\ \A l : l \in Fixed <=> \/ l = Addr \/ l = DefaultConnection \/ l = DatabaseDriver
                                \/ l = MySQLDSN \/ l = DefaultStore
    /\ Addr # DefaultConnection /\ Addr # DatabaseDriver /\ Addr # MySQLDSN /\ Addr # DefaultStore
    /\ DefaultConnection # DatabaseDriver /\ DefaultConnection # MySQLDSN
    /\ DefaultConnection # DefaultStore
    /\ DatabaseDriver # DefaultStore /\ MySQLDSN # DefaultStore
BY DEF Fixed, Addr, DefaultConnection, DatabaseDriver, MySQLDSN, DefaultStore

ConnectionFields == {"driver", "dsn"}

StoreFields == {"driver", "required", "redis.required", "connection"}

(* The leaves of the entries of a map. *)
LEMMA MapLeaves ==
    ASSUME NEW N
    PROVE  /\ \A l : l \in ConnectionLeaves(N) <=>
                       \E n \in N : \E f \in ConnectionFields : l = ConnectionLeaf(n, f)
           /\ \A l : l \in StoreLeaves(N) <=>
                       \E n \in N : \E f \in StoreFields : l = StoreLeaf(n, f)
BY DEF ConnectionLeaves, StoreLeaves, ConnectionFields, StoreFields

(* The three kinds of leaf, told apart by their shape. *)
LEMMA LeafKinds ==
    ASSUME NEW N
    PROVE  /\ \A l \in Fixed : ~(Len(l) = 4)
           /\ \A l \in ConnectionLeaves(N) :
                 /\ Len(l) = 4 /\ l[2] = "connections" /\ l[2] # "stores"
                 /\ l[3] \in N /\ l[4] \in ConnectionFields /\ l = ConnectionLeaf(l[3], l[4])
           /\ \A l \in StoreLeaves(N) :
                 /\ Len(l) = 4 /\ l[2] = "stores" /\ l[2] # "connections"
                 /\ l[3] \in N /\ l[4] \in StoreFields /\ l = StoreLeaf(l[3], l[4])
<1>1. \A l \in Fixed : ~(Len(l) = 4) BY LeafShapes
<1>2. ASSUME NEW l \in ConnectionLeaves(N)
      PROVE  /\ Len(l) = 4 /\ l[2] = "connections" /\ l[2] # "stores"
             /\ l[3] \in N /\ l[4] \in ConnectionFields /\ l = ConnectionLeaf(l[3], l[4])
  <2>1. PICK n \in N : \E f \in ConnectionFields : l = ConnectionLeaf(n, f) BY MapLeaves
  <2>2. PICK f \in ConnectionFields : l = ConnectionLeaf(n, f) BY <2>1
  <2> QED BY <2>2, LeafShapes
<1>3. ASSUME NEW l \in StoreLeaves(N)
      PROVE  /\ Len(l) = 4 /\ l[2] = "stores" /\ l[2] # "connections"
             /\ l[3] \in N /\ l[4] \in StoreFields /\ l = StoreLeaf(l[3], l[4])
  <2>1. PICK n \in N : \E f \in StoreFields : l = StoreLeaf(n, f) BY MapLeaves
  <2>2. PICK f \in StoreFields : l = StoreLeaf(n, f) BY <2>1
  <2> QED BY <2>2, LeafShapes
<1> QED BY <1>1, <1>2, <1>3

(* The maps have the entries that there are leaves of. *)
LEMMA EntriesOfLeaves ==
    ASSUME NEW c, NEW C, NEW S, DOMAIN c = Leaves(C, S)
    PROVE  Entries(c, "connections") = C /\ Entries(c, "stores") = S
<1>1. ASSUME NEW n \in C PROVE n \in Entries(c, "connections")
  <2>1. PICK l : l = ConnectionLeaf(n, "driver") OBVIOUS
  <2>2. l \in Leaves(C, S) BY <2>1, MapLeaves DEF Leaves, ConnectionFields
  <2> QED BY <2>1, <2>2, LeafShapes DEF Entries
<1>2. ASSUME NEW n \in S PROVE n \in Entries(c, "stores")
  <2>1. PICK l : l = StoreLeaf(n, "driver") OBVIOUS
  <2>2. l \in Leaves(C, S) BY <2>1, MapLeaves DEF Leaves, StoreFields
  <2> QED BY <2>1, <2>2, LeafShapes DEF Entries
<1>3. ASSUME NEW n \in Entries(c, "connections") PROVE n \in C
  BY LeafKinds DEF Entries, Leaves
<1>4. ASSUME NEW n \in Entries(c, "stores") PROVE n \in S
  BY LeafKinds DEF Entries, Leaves
<1> QED BY <1>1, <1>2, <1>3, <1>4

\* The entries of a map after the defaults.
OrNamed(names, name) == IF names # {} THEN names ELSE {name}

(* What the defaults make of the databases ... *)
DatabaseDefaulted(c, C, S, name, r) ==
    /\ DOMAIN r = Leaves(OrNamed(C, name), S)
    /\ r[DefaultConnection] = name
    /\ \A l \in Fixed \union StoreLeaves(S) : l # DefaultConnection => r[l] = c[l]
    /\ \A l \in ConnectionLeaves(OrNamed(C, name)) :
         LET old == IF C # {} THEN c[l]
                    ELSE IF l[4] = "driver" THEN c[DatabaseDriver] ELSE c[MySQLDSN]
         IN r[l] = IF l[4] = "driver" THEN Or(old, "mysql") ELSE old

LEMMA DatabaseDefaults ==
    ASSUME NEW c, NEW C, NEW S, DOMAIN c = Leaves(C, S), NEW name,
           name = Or(c[DefaultConnection], "default"), NEW r, r = applyDatabaseDefaults(c)
    PROVE  DatabaseDefaulted(c, C, S, name, r)
<1> DEFINE made == IF Entries(c, "connections") # {} THEN {}
                   ELSE ConnectionLeaves({Or(c[DefaultConnection], "default")})
           more == [l \in DOMAIN c \union made |->
                    CASE l \notin made -> c[l]
                      [] l \in made /\ l[4] = "driver" -> c[DatabaseDriver]
                      [] OTHER -> c[MySQLDSN]]
<1>1. PICK created : created = made OBVIOUS
<1>2. PICK full : full = more OBVIOUS
<1>3. Entries(c, "connections") = C BY EntriesOfLeaves
<1>4. created = IF C # {} THEN {} ELSE ConnectionLeaves({name}) BY <1>1, <1>3
<1>5. /\ DOMAIN full = DOMAIN c \union created
       /\ \A l \in DOMAIN full : full[l] =
                    CASE l \notin created -> c[l]
                      [] l \in created /\ l[4] = "driver" -> c[DatabaseDriver]
                      [] OTHER -> c[MySQLDSN]
  BY <1>1, <1>2
<1>6. PICK D : D = OrNamed(C, name) OBVIOUS
<1>7. DOMAIN full = Leaves(D, S)
  <2>1. C = {} => ConnectionLeaves(C) = {} BY MapLeaves
  <2> QED BY <1>4, <1>5, <1>6, <2>1 DEF Leaves, OrNamed
<1>8. Entries(full, "connections") = D BY <1>7, EntriesOfLeaves
<1>9. /\ DOMAIN r = DOMAIN full
      /\ \A l \in DOMAIN full :
           r[l] = CASE l = DefaultConnection -> name
                    [] l \in ConnectionLeaves(D) /\ l[4] = "driver" -> Or(full[l], "mysql")
                    [] OTHER -> full[l]
  <2> DEFINE final(f) ==
               [l \in DOMAIN f |->
                  CASE l = DefaultConnection -> Or(c[DefaultConnection], "default")
                    [] l \in ConnectionLeaves(Entries(f, "connections")) /\ l[4] = "driver"
                         -> Or(f[l], "mysql")
                    [] OTHER -> f[l]]
  <2>1. r = final(more) BY DEF applyDatabaseDefaults
  <2> HIDE DEF final, more
  <2>2. r = final(full) BY <1>2, <2>1
  <2> QED BY <1>8, <2>2 DEF final
<1>10. ASSUME NEW l \in Fixed \union StoreLeaves(S) PROVE l \notin ConnectionLeaves(D)
  BY LeafKinds
<1>11. created = {} \/ created = ConnectionLeaves(D) BY <1>4, <1>6 DEF OrNamed
<1>12. DOMAIN r = Leaves(D, S) BY <1>7, <1>9
<1>13. r[DefaultConnection] = name
  <2>1. DefaultConnection \in DOMAIN full BY <1>7, FixedLeaves DEF Leaves
  <2>2. DefaultConnection \notin ConnectionLeaves(D) BY <1>10, FixedLeaves
  <2> QED BY <1>9, <2>1, <2>2
<1>14. ASSUME NEW l \in Fixed \union StoreLeaves(S), l # DefaultConnection PROVE r[l] = c[l]
  <2>1. l \in Leaves(D, S) /\ l \in DOMAIN c BY DEF Leaves
  <2>2. l \notin created BY <1>10, <1>11
  <2>3. full[l] = c[l] BY <1>5, <2>1, <2>2
  <2> QED BY <1>7, <1>9, <1>10, <1>14, <2>1, <2>3
<1>15. ASSUME NEW l \in ConnectionLeaves(D), NEW old,
              old = IF C # {} THEN c[l]
                    ELSE IF l[4] = "driver" THEN c[DatabaseDriver] ELSE c[MySQLDSN]
       PROVE  r[l] = IF l[4] = "driver" THEN Or(old, "mysql") ELSE old
  <2>1. l \in Leaves(D, S) BY DEF Leaves
  <2>2. l # DefaultConnection BY LeafKinds, FixedLeaves
  <2>3. full[l] = old
    <3>1. CASE C # {}
      <4>1. l \in DOMAIN c /\ l \notin created BY <1>4, <1>6, <3>1 DEF Leaves, OrNamed
      <4> QED BY <1>5, <1>15, <3>1, <4>1
    <3>2. CASE C = {}
      <4>1. l \in created BY <1>4, <1>6, <3>2 DEF OrNamed
      <4> QED BY <1>5, <1>15, <3>2, <4>1
    <3> QED BY <3>1, <3>2
  <2> QED BY <1>7, <1>9, <2>1, <2>2, <2>3
<1> QED BY <1>6, <1>12, <1>13, <1>14, <1>15 DEF DatabaseDefaulted

(* ... and of the cache. *)
CacheDefaulted(c, C, S, name, r) ==
    /\ DOMAIN r = Leaves(C, OrNamed(S, name))
    /\ r[DefaultStore] = name
    /\ \A l \in Fixed \union ConnectionLeaves(C) : l # DefaultStore => r[l] = c[l]
    /\ \A l \in StoreLeaves(OrNamed(S, name)) :
         LET old == IF S # {} THEN c[l] ELSE IF IsBool(l) THEN "false" ELSE ""
         IN r[l] = IF l[4] = "driver" THEN Or(old, "memory") ELSE old

LEMMA CacheDefaults ==
    ASSUME NEW c, NEW C, NEW S, DOMAIN c = Leaves(C, S), NEW name,
           name = Or(c[DefaultStore], "default"), NEW r, r = applyCacheDefaults(c)
    PROVE  CacheDefaulted(c, C, S, name, r)
<1> DEFINE made == IF Entries(c, "stores") # {} THEN {}
                   ELSE StoreLeaves({Or(c[DefaultStore], "default")})
           more == [l \in DOMAIN c \union made |->
                    IF l \notin made THEN c[l] ELSE IF IsBool(l) THEN "false" ELSE ""]
<1>1. PICK created : created = made OBVIOUS
<1>2. PICK full : full = more OBVIOUS
<1>3. Entries(c, "stores") = S BY EntriesOfLeaves
<1>4. created = IF S # {} THEN {} ELSE StoreLeaves({name}) BY <1>1, <1>3
<1>5. /\ DOMAIN full = DOMAIN c \union created
       /\ \A l \in DOMAIN full : full[l] =
                    IF l \notin created THEN c[l] ELSE IF IsBool(l) THEN "false" ELSE ""
  BY <1>1, <1>2
<1>6. PICK D : D = OrNamed(S, name) OBVIOUS
<1>7. DOMAIN full = Leaves(C, D)
  <2>1. S = {} => StoreLeaves(S) = {} BY MapLeaves
  <2> QED BY <1>4, <1>5, <1>6, <2>1 DEF Leaves, OrNamed
<1>8. Entries(full, "stores") = D BY <1>7, EntriesOfLeaves
<1>9. /\ DOMAIN r = DOMAIN full
      /\ \A l \in DOMAIN full :
           r[l] = CASE l = DefaultStore -> name
                    [] l \in StoreLeaves(D) /\ l[4] = "driver" -> Or(full[l], "memory")
                    [] OTHER -> full[l]
  <2> DEFINE final(f) ==
               [l \in DOMAIN f |->
                  CASE l = DefaultStore -> Or(c[DefaultStore], "default")
                    [] l \in StoreLeaves(Entries(f, "stores")) /\ l[4] = "driver"
                         -> Or(f[l], "memory")
                    [] OTHER -> f[l]]
  <2>1. r = final(more) BY DEF applyCacheDefaults
  <2> HIDE DEF final, more
  <2>2. r = final(full) BY <1>2, <2>1
  <2> QED BY <1>8, <2>2 DEF final
<1>10. ASSUME NEW l \in Fixed \union ConnectionLeaves(C) PROVE l \notin StoreLeaves(D)
  BY LeafKinds
<1>11. created = {} \/ created = StoreLeaves(D) BY <1>4, <1>6 DEF OrNamed
<1>12. DOMAIN r = Leaves(C, D) BY <1>7, <1>9
<1>13. r[DefaultStore] = name
  <2>1. DefaultStore \in DOMAIN full BY <1>7, FixedLeaves DEF Leaves
  <2>2. DefaultStore \notin StoreLeaves(D) BY <1>10, FixedLeaves
  <2> QED BY <1>9, <2>1, <2>2
<1>14. ASSUME NEW l \in Fixed \union ConnectionLeaves(C), l # DefaultStore PROVE r[l] = c[l]
  <2>1. l \in Leaves(C, D) /\ l \in DOMAIN c BY DEF Leaves
  <2>2. l \notin created BY <1>10, <1>11
  <2>3. full[l] = c[l] BY <1>5, <2>1, <2>2
  <2> QED BY <1>7, <1>9, <1>10, <1>14, <2>1, <2>3
<1>15. ASSUME NEW l \in StoreLeaves(D), NEW old,
              old = IF S # {} THEN c[l] ELSE IF IsBool(l) THEN "false" ELSE ""
       PROVE  r[l] = IF l[4] = "driver" THEN Or(old, "memory") ELSE old
  <2>1. l \in Leaves(C, D) BY DEF Leaves
  <2>2. l # DefaultStore BY LeafKinds, FixedLeaves
  <2>3. full[l] = old
    <3>1. CASE S # {}
      <4>1. l \in DOMAIN c /\ l \notin created BY <1>4, <1>6, <3>1 DEF Leaves, OrNamed
      <4> QED BY <1>5, <1>15, <3>1, <4>1
    <3>2. CASE S = {}
      <4>1. l \in created BY <1>4, <1>6, <3>2 DEF OrNamed
      <4> QED BY <1>5, <1>15, <3>2, <4>1
    <3> QED BY <3>1, <3>2
  <2> QED BY <1>7, <1>9, <2>1, <2>2, <2>3
<1> QED BY <1>6, <1>12, <1>13, <1>14, <1>15 DEF CacheDefaulted

-----------------------------------------------------------------------------
(* The layers together.                                                       *)

\* What the file says of a leaf, what a leaf is made from, its default, and the
\* leaves there are, as in Layered, for any file and environment.
Said(yaml, l) == IF l \in DOMAIN yaml.set THEN yaml.set[l] ELSE IF IsBool(l) THEN "false" ELSE ""

BaseBy(yaml, env, l) ==
    IF Len(l) = 4 /\ l[2] = "connections" /\ yaml.connections = {}
    THEN LET old == IF l[4] = "driver" THEN DatabaseDriver ELSE MySQLDSN
         IN By(env, old, Said(yaml, old))
    ELSE Said(yaml, l)

DefaultOf(l) == CASE l = Addr -> ":8080"
                  [] l \in {DefaultConnection, DefaultStore} -> "default"
                  [] Len(l) = 4 /\ l[2] = "connections" /\ l[4] = "driver" -> "mysql"
                  [] Len(l) = 4 /\ l[2] = "stores" /\ l[4] = "driver" -> "memory"
                  [] OTHER -> ""

NamedBy(yaml, env, names, leaf) == OrNamed(names, Or(By(env, leaf, Said(yaml, leaf)), "default"))

LeavesBy(yaml, env) == Leaves(NamedBy(yaml, env, yaml.connections, DefaultConnection),
                              NamedBy(yaml, env, yaml.stores, DefaultStore))

(* The default of a leaf, by its kind. *)
LEMMA DefaultsByKind ==
    /\ DefaultOf(Addr) = ":8080" /\ DefaultOf(DefaultConnection) = "default"
    /\ DefaultOf(DefaultStore) = "default"
    /\ DefaultOf(DatabaseDriver) = "" /\ DefaultOf(MySQLDSN) = ""
    /\ \A N : \A l \in ConnectionLeaves(N) : DefaultOf(l) = IF l[4] = "driver" THEN "mysql" ELSE ""
    /\ \A N : \A l \in StoreLeaves(N) : DefaultOf(l) = IF l[4] = "driver" THEN "memory" ELSE ""
<1>1. \A l \in Fixed : ~(Len(l) = 4) BY LeafKinds
<1>2. /\ Addr \in Fixed /\ DefaultConnection \in Fixed /\ DefaultStore \in Fixed
      /\ DatabaseDriver \in Fixed /\ MySQLDSN \in Fixed
  BY FixedLeaves
<1>3. DefaultOf(Addr) = ":8080" BY <1>1, <1>2, FixedLeaves DEF DefaultOf
<1>4. DefaultOf(DefaultConnection) = "default" BY <1>1, <1>2, FixedLeaves DEF DefaultOf
<1>5. DefaultOf(DefaultStore) = "default" BY <1>1, <1>2, FixedLeaves DEF DefaultOf
<1>6. DefaultOf(DatabaseDriver) = "" BY <1>1, <1>2, FixedLeaves DEF DefaultOf
<1>7. DefaultOf(MySQLDSN) = "" BY <1>1, <1>2, FixedLeaves DEF DefaultOf
<1>8. ASSUME NEW N, NEW l \in ConnectionLeaves(N)
      PROVE  DefaultOf(l) = IF l[4] = "driver" THEN "mysql" ELSE ""
  <2>1. Len(l) = 4 /\ l[2] = "connections" /\ l[2] # "stores" BY LeafKinds
  <2>2. l # Addr /\ l # DefaultConnection /\ l # DefaultStore BY <1>1, <1>2, <2>1
  <2> QED BY <2>1, <2>2 DEF DefaultOf
<1>9. ASSUME NEW N, NEW l \in StoreLeaves(N)
      PROVE  DefaultOf(l) = IF l[4] = "driver" THEN "memory" ELSE ""
  <2>1. Len(l) = 4 /\ l[2] = "stores" /\ l[2] # "connections" BY LeafKinds
  <2>2. l # Addr /\ l # DefaultConnection /\ l # DefaultStore BY <1>1, <1>2, <2>1
  <2> QED BY <2>1, <2>2 DEF DefaultOf
<1> QED BY <1>3, <1>4, <1>5, <1>6, <1>7, <1>8, <1>9

(* Twice the environment around the defaults gives every leaf its layers. *)
LEMMA LayersByLeaf ==
    ASSUME NEW yaml, NEW env, DOMAIN yaml.set \subseteq Leaves(yaml.connections, yaml.stores),
           NEW r, r = Layers(Unmarshal(yaml), env)
    PROVE  r = [l \in LeavesBy(yaml, env) |-> By(env, l, Or(BaseBy(yaml, env, l), DefaultOf(l)))]
<1>1. PICK C, S : C = yaml.connections /\ S = yaml.stores OBVIOUS
<1>2. PICK c1 : c1 = ApplyEnv(Unmarshal(yaml), env) OBVIOUS
<1>3. PICK c2 : c2 = [c1 EXCEPT ![Addr] = Or(@, ":8080")] OBVIOUS
<1>4. PICK c3 : c3 = applyDatabaseDefaults(c2) OBVIOUS
<1>5. PICK c4 : c4 = applyCacheDefaults(c3) OBVIOUS
<1>6. r = ApplyEnv(c4, env) BY <1>2, <1>3, <1>4, <1>5 DEF Layers, ApplyDefaults
<1>7. DOMAIN c1 = Leaves(C, S) /\ \A l \in Leaves(C, S) : c1[l] = By(env, l, Said(yaml, l))
  BY <1>1, <1>2 DEF ApplyEnv, Unmarshal, By, Said
<1>8. /\ Addr \in Leaves(C, S) /\ DefaultConnection \in Leaves(C, S)
      /\ DefaultStore \in Leaves(C, S) /\ DatabaseDriver \in Leaves(C, S)
      /\ MySQLDSN \in Leaves(C, S)
  BY FixedLeaves DEF Leaves
<1>9. /\ DOMAIN c2 = Leaves(C, S)
      /\ c2[Addr] = Or(c1[Addr], ":8080")
      /\ \A l \in Leaves(C, S) : l # Addr => c2[l] = c1[l]
  BY <1>3, <1>7, <1>8
<1>10. PICK nc : nc = Or(c2[DefaultConnection], "default") OBVIOUS
<1>11. PICK D : D = OrNamed(C, nc) OBVIOUS
<1>12. DatabaseDefaulted(c2, C, S, nc, c3) BY <1>4, <1>9, <1>10, DatabaseDefaults
<1>13. /\ DOMAIN c3 = Leaves(D, S)
       /\ c3[DefaultConnection] = nc
       /\ \A l \in Fixed \union StoreLeaves(S) : l # DefaultConnection => c3[l] = c2[l]
       /\ \A l \in ConnectionLeaves(D) :
            LET old == IF C # {} THEN c2[l]
                       ELSE IF l[4] = "driver" THEN c2[DatabaseDriver] ELSE c2[MySQLDSN]
            IN c3[l] = IF l[4] = "driver" THEN Or(old, "mysql") ELSE old
  BY <1>11, <1>12 DEF DatabaseDefaulted
<1>14. PICK ns : ns = Or(c3[DefaultStore], "default") OBVIOUS
<1>15. PICK T : T = OrNamed(S, ns) OBVIOUS
<1>16. DOMAIN c3 = Leaves(D, S) BY <1>13
<1>17. CacheDefaulted(c3, D, S, ns, c4) BY <1>5, <1>14, <1>16, CacheDefaults
<1>18. /\ DOMAIN c4 = Leaves(D, T)
       /\ c4[DefaultStore] = ns
       /\ \A l \in Fixed \union ConnectionLeaves(D) : l # DefaultStore => c4[l] = c3[l]
       /\ \A l \in StoreLeaves(T) :
            LET old == IF S # {} THEN c3[l] ELSE IF IsBool(l) THEN "false" ELSE ""
            IN c4[l] = IF l[4] = "driver" THEN Or(old, "memory") ELSE old
  BY <1>15, <1>17 DEF CacheDefaulted
<1>19. DOMAIN r = Leaves(D, T) /\ \A l \in Leaves(D, T) : r[l] = By(env, l, c4[l])
  BY <1>6, <1>18 DEF ApplyEnv, By
<1>20. LeavesBy(yaml, env) = Leaves(D, T)
  <2>1. nc = Or(By(env, DefaultConnection, Said(yaml, DefaultConnection)), "default")
    BY <1>7, <1>8, <1>9, <1>10, FixedLeaves
  <2>2. ns = Or(By(env, DefaultStore, Said(yaml, DefaultStore)), "default")
    BY <1>7, <1>8, <1>9, <1>13, <1>14, FixedLeaves
  <2> QED BY <1>1, <1>11, <1>15, <2>1, <2>2 DEF LeavesBy, NamedBy
<1>21. \A x : Or(x, "") = x BY DEF Or
<1>22. ASSUME NEW l \in Leaves(D, T)
       PROVE  By(env, l, c4[l]) = By(env, l, Or(BaseBy(yaml, env, l), DefaultOf(l)))
  <2>1. CASE l \in Fixed
    <3>1. BaseBy(yaml, env, l) = Said(yaml, l) BY <2>1, LeafKinds DEF BaseBy
    <3>2. c1[l] = By(env, l, Said(yaml, l)) /\ l \in Leaves(C, S) BY <1>7, <2>1 DEF Leaves
    <3>3. CASE l = Addr
      <4>1. c4[l] = Or(c1[l], ":8080") BY <1>9, <1>13, <1>18, <2>1, <3>3, FixedLeaves
      <4> QED BY <3>1, <3>2, <3>3, <4>1, DefaultsByKind DEF By
    <3>4. CASE l = DefaultConnection
      <4>1. c4[l] = Or(c1[l], "default")
        BY <1>9, <1>10, <1>13, <1>18, <2>1, <3>2, <3>4, FixedLeaves
      <4> QED BY <3>1, <3>2, <3>4, <4>1, DefaultsByKind DEF By
    <3>5. CASE l = DefaultStore
      <4>1. c4[l] = Or(c1[l], "default")
        BY <1>9, <1>13, <1>14, <1>18, <2>1, <3>2, <3>5, FixedLeaves
      <4> QED BY <3>1, <3>2, <3>5, <4>1, DefaultsByKind DEF By
    <3>6. CASE l = DatabaseDriver \/ l = MySQLDSN
      <4>1. l # Addr /\ l # DefaultConnection /\ l # DefaultStore BY <3>6, FixedLeaves
      <4>2. c4[l] = c1[l] BY <1>9, <1>13, <1>18, <2>1, <3>2, <4>1
      <4>3. DefaultOf(l) = "" BY <3>6, DefaultsByKind
      <4> QED BY <1>21, <3>1, <3>2, <4>2, <4>3 DEF By
    <3> QED BY <2>1, <3>3, <3>4, <3>5, <3>6, FixedLeaves
  <2>2. CASE l \in ConnectionLeaves(D)
    <3>1. Len(l) = 4 /\ l[2] = "connections" /\ l # DefaultStore /\ l # Addr
      BY <2>2, LeafKinds, FixedLeaves
    <3>2. PICK old : old = IF C # {} THEN c2[l]
                           ELSE IF l[4] = "driver" THEN c2[DatabaseDriver] ELSE c2[MySQLDSN]
      OBVIOUS
    <3>3. c4[l] = IF l[4] = "driver" THEN Or(old, "mysql") ELSE old
      BY <1>13, <1>18, <2>2, <3>1, <3>2
    <3>4. l \notin DOMAIN env => old = BaseBy(yaml, env, l)
      <4>1. CASE C # {}
        <5>1. l \in Leaves(C, S) BY <1>11, <2>2, <4>1 DEF OrNamed, Leaves
        <5>2. old = By(env, l, Said(yaml, l)) BY <1>7, <1>9, <3>1, <3>2, <4>1, <5>1
        <5>3. BaseBy(yaml, env, l) = Said(yaml, l) BY <1>1, <4>1 DEF BaseBy
        <5> QED BY <5>2, <5>3 DEF By
      <4>2. CASE C = {}
        <5>1. /\ c2[DatabaseDriver] = By(env, DatabaseDriver, Said(yaml, DatabaseDriver))
              /\ c2[MySQLDSN] = By(env, MySQLDSN, Said(yaml, MySQLDSN))
          BY <1>7, <1>8, <1>9, FixedLeaves
        <5>2. old = BaseBy(yaml, env, l) BY <1>1, <3>1, <3>2, <4>2, <5>1 DEF BaseBy
        <5> QED BY <5>2
      <4> QED BY <4>1, <4>2
    <3>5. DefaultOf(l) = IF l[4] = "driver" THEN "mysql" ELSE "" BY <2>2, DefaultsByKind
    <3> QED BY <1>21, <3>3, <3>4, <3>5 DEF By
  <2>3. CASE l \in StoreLeaves(T)
    <3>1. Len(l) = 4 /\ l[2] = "stores" /\ l[2] # "connections" /\ l # Addr /\ l # DefaultConnection
      BY <2>3, LeafKinds, FixedLeaves
    <3>2. PICK old : old = IF S # {} THEN c3[l] ELSE IF IsBool(l) THEN "false" ELSE ""
      OBVIOUS
    <3>3. c4[l] = IF l[4] = "driver" THEN Or(old, "memory") ELSE old BY <1>18, <2>3, <3>2
    <3>4. BaseBy(yaml, env, l) = Said(yaml, l) BY <3>1 DEF BaseBy
    <3>5. l \notin DOMAIN env => old = Said(yaml, l)
      <4>1. CASE S # {}
        <5>1. l \in StoreLeaves(S) /\ l \in Leaves(C, S) BY <1>15, <2>3, <4>1 DEF OrNamed, Leaves
        <5>2. old = By(env, l, Said(yaml, l)) BY <1>7, <1>9, <1>13, <3>1, <3>2, <4>1, <5>1
        <5> QED BY <5>2 DEF By
      <4>2. CASE S = {}
        <5>1. l \notin Leaves(C, S) BY <3>1, <4>2, LeafKinds DEF Leaves
        <5>2. l \notin DOMAIN yaml.set BY <1>1, <5>1
        <5> QED BY <3>2, <4>2, <5>2 DEF Said
      <4> QED BY <4>1, <4>2
    <3>6. DefaultOf(l) = IF l[4] = "driver" THEN "memory" ELSE "" BY <2>3, DefaultsByKind
    <3> QED BY <1>21, <3>3, <3>4, <3>5, <3>6 DEF By
  <2> QED BY <2>1, <2>2, <2>3 DEF Leaves
<1>23. r = [l \in DOMAIN r |-> r[l]] BY <1>6 DEF ApplyEnv
<1>24. \A l \in Leaves(D, T) : r[l] = By(env, l, Or(BaseBy(yaml, env, l), DefaultOf(l)))
  BY <1>19, <1>22
<1> QED BY <1>19, <1>20, <1>23, <1>24

(* Layered says the same of the input. *)
LEMMA LayeredIsLayers ==
    ASSUME input \in Inputs, Loads(input)
    PROVE  Loaded(input) = Layered
<1>1. PICK yaml, env : yaml = input.files[Path(input)] /\ env = Environment(input) OBVIOUS
<1>2. DOMAIN yaml.set \subseteq Leaves(yaml.connections, yaml.stores)
  BY <1>1, PathExists, InputAssumption DEF Loads
<1>3. Loaded(input) = [l \in LeavesBy(yaml, env) |->
                         By(env, l, Or(BaseBy(yaml, env, l), DefaultOf(l)))]
  BY <1>1, <1>2, LayersByLeaf DEF Loaded
<1>4. \A l, o : By(env, l, o) = Override(l, o) BY <1>1, EnvironmentSays
<1> DEFINE said(l) == Said(input.files[Path(input)], l)
           named(names, leaf) == OrNamed(names, Or(Override(leaf, said(leaf)), "default"))
           base(l) == IF /\ Len(l) = 4 /\ l[2] = "connections"
                         /\ input.files[Path(input)].connections = {}
                      THEN LET old == IF l[4] = "driver" THEN DatabaseDriver ELSE MySQLDSN
                           IN Override(old, said(old))
                      ELSE said(l)
<1>5. Layered = [l \in Leaves(named(input.files[Path(input)].connections, DefaultConnection),
                              named(input.files[Path(input)].stores, DefaultStore)) |->
                  Override(l, Or(base(l), DefaultOf(l)))]
  BY DEF Layered, Said, OrNamed, DefaultOf
<1>6. LeavesBy(yaml, env) = Leaves(named(input.files[Path(input)].connections, DefaultConnection),
                                   named(input.files[Path(input)].stores, DefaultStore))
  BY <1>1, <1>4 DEF LeavesBy, NamedBy
<1>7. \A l : BaseBy(yaml, env, l) = base(l) BY <1>1, <1>4 DEF BaseBy
<1> HIDE DEF base, named
<1> QED BY <1>3, <1>4, <1>5, <1>6, <1>7

-----------------------------------------------------------------------------
\* The configuration is that of the input the process started with.
ConfigInv == input \in Inputs /\ (cfg = NoConfig \/ (Loads(input) /\ cfg = Loaded(input)))

(* Only Load sets it, and nothing changes the input. *)
LEMMA ConfigInvHolds == Spec => []ConfigInv
<1>1. Init => ConfigInv BY DEF Init, ConfigInv
<1>2. ConfigInv /\ [Next]_vars => ConfigInv'
  <2> SUFFICES ASSUME ConfigInv, [Next]_vars PROVE ConfigInv' OBVIOUS
  <2>1. CASE Load BY <2>1 DEF ConfigInv, Load, Loads, Loaded, Path, Environment
  <2>2. CASE input' = input /\ cfg' = cfg BY <2>2 DEF ConfigInv, Loads, Loaded, Path, Environment
  <2>3. ASSUME NEW n \in Names,
               OpenConnection(n) \/ OpenConnectionFails(n) \/ OpenStore(n) \/ OpenStoreFails(n)
        PROVE  input' = input /\ cfg' = cfg
    BY <2>3 DEF OpenConnection, OpenConnectionFails, OpenStore, OpenStoreFails
  <2>4. ASSUME NEW e, NEW after, NEW for, AppCall(e, after, for)
        PROVE  input' = input /\ cfg' = cfg
    BY <2>4 DEF AppCall
  <2>5. ASSUME NEW e \in Extras,
               \/ AppAddBackground(e) \/ AppAddCloser(e)
               \/ \E k \in Keys : \/ AppReplace(e, k) \/ AppRegisterName(e, k)
                                  \/ AppReplaceName(e, k)
                                  \/ \E collect \in BOOLEAN : AppRegister(e, k, collect)
        PROVE  input' = input /\ cfg' = cfg
    BY <2>4, <2>5 DEF AppAddBackground, AppAddCloser, AppReplace, AppRegisterName,
                      AppReplaceName, AppRegister
  <2>6. ASSUME LoadFails \/ DatabasesReady \/ CacheReady
        PROVE  input' = input /\ cfg' = cfg
    BY <2>6 DEF LoadFails, DatabasesReady, CacheReady
  <2>7. ASSUME Serve \/ ServeFails \/ Shutdown \/ CloseNext \/ Exit
        PROVE  input' = input /\ cfg' = cfg
    BY <2>7 DEF Serve, ServeFails, Shutdown, CloseNext, Exit
  <2>8. CASE UNCHANGED vars BY <2>2, <2>8 DEF vars
  <2>9. CASE Next BY <2>1, <2>2, <2>3, <2>5, <2>6, <2>7, <2>9 DEF Next
  <2> QED BY <2>8, <2>9
<1> QED BY <1>1, <1>2, PTL DEF Spec

(* Whatever the environment of the process, its .env files, its YAML file and  *)
(* the entries of its maps are: every leaf of a configuration that was loaded  *)
(* has the value of the first layer that speaks of it, although LoadYAML       *)
(* applies the environment twice and creates entries in between                *)
(* (config.go:179-191).                                                        *)
THEOREM LoadedAsLayeredHolds == Spec => []LoadedAsLayered
<1>1. ConfigInv => LoadedAsLayered BY LayeredIsLayers DEF ConfigInv, LoadedAsLayered
<1> QED BY <1>1, ConfigInvHolds, PTL

-----------------------------------------------------------------------------
(* RunHTTP.                                                                   *)

\* The loops over started have called Stop, or Wait, from index n up.
StoppedFrom(n) ==
    \A s \in Services : s \in ToSet(stops) <=>
        \E i \in DOMAIN started : i >= n /\ started[i] = s /\ Has(s, "Stop")

WaitedFrom(n) ==
    \A i \in DOMAIN started : i >= n /\ Has(started[i], "Wait")
                                => worker[started[i]] # "running"

(* The services are started in order, each once. *)
InOrder == /\ \A i, j \in DOMAIN started : i < j => started[i] < started[j]
           /\ Descending(stops)
           /\ Descending(closeCalls)

(* Where RunHTTP is, against what it has stopped, waited for and closed. *)
Progress ==
    /\ pc = "starting" => /\ next \in 1 .. NumServices + 1
                          /\ \A i \in DOMAIN started : started[i] < next
    /\ pc \in {"starting", "select", "shutdown"} => stops = <<>>
    /\ pc \notin {"closing", "returned"} => closeCalls = <<>>
    /\ pc = "stopping" => /\ next \in 0 .. Len(started)
                          /\ StoppedFrom(next + 1) /\ WaitedFrom(next + 1)
    /\ pc = "waiting" => /\ next \in 1 .. Len(started)
                         /\ StoppedFrom(next) /\ WaitedFrom(next + 1)
    /\ pc \in {"closing", "returned"} =>
          /\ StoppedFrom(1) /\ WaitedFrom(1)
          /\ next \in 0 .. NumClosers
          /\ \A c \in 1 .. NumClosers : c \in ToSet(closeCalls) <=> c > next /\ c \notin NilClosers
    /\ pc = "returned" => next = 0

(* Requests are accepted only until Shutdown; one that outlives it is told of. *)
Drained ==
    /\ pc = "starting" => server = "none" /\ handlers = 0
    /\ pc \in {"starting", "select"} => ~inShutdown
    /\ pc \notin {"starting", "select"} => inShutdown \/ server = "none"
    /\ pc \notin {"starting", "select", "shutdown"} /\ handlers > 0
          => "shutdown" \in failures

(* An error is in the result, unless it is the server's and still in errCh. *)
Reported ==
    /\ result = {} => failures \subseteq {"serve"}
    /\ "serve" \in failures => "serve" \in result \/ errCh = <<"serve">>
    /\ errCh = <<>> \/ errCh = <<"nil">> \/ (errCh = <<"serve">> /\ "serve" \in failures)
    /\ server # "done" => errCh = <<>>

HTTPIInv == HTTPTypeOK /\ InOrder /\ Progress /\ Drained /\ Reported

(* What appending does to a sequence and to the set of its elements. *)
LEMMA AppendFacts ==
    ASSUME NEW S, NEW q \in Seq(S), NEW x \in S
    PROVE  /\ Append(q, x) \in Seq(S) /\ Append(q, x) # <<>>
           /\ Len(q) \in Nat /\ DOMAIN q = 1 .. Len(q)
           /\ DOMAIN Append(q, x) = 1 .. Len(q) + 1
           /\ \A i \in 1 .. Len(q) : Append(q, x)[i] = q[i] /\ q[i] \in S
           /\ Append(q, x)[Len(q) + 1] = x
           /\ ToSet(Append(q, x)) = ToSet(q) \union {x}
<1>1. /\ Append(q, x) \in Seq(S) /\ Append(q, x) # <<>>
      /\ Len(Append(q, x)) = Len(q) + 1
      /\ \A i \in 1 .. Len(q) : Append(q, x)[i] = q[i]
      /\ Append(q, x)[Len(q) + 1] = x
  BY AppendProperties
<1>2. /\ Len(q) \in Nat /\ DOMAIN q = 1 .. Len(q) /\ q \in [1 .. Len(q) -> S]
      /\ DOMAIN Append(q, x) = 1 .. Len(q) + 1
  BY <1>1, LenProperties
<1>3. \A i \in 1 .. Len(q) + 1 : i \in 1 .. Len(q) \/ i = Len(q) + 1 BY <1>2
<1>4. 1 .. Len(q) \subseteq 1 .. Len(q) + 1 /\ Len(q) + 1 \in 1 .. Len(q) + 1 BY <1>2
<1>5. ToSet(Append(q, x)) = ToSet(q) \union {x}
  BY <1>1, <1>2, <1>3, <1>4 DEF ToSet
<1> QED BY <1>1, <1>2, <1>5

(* The elements of a sequence are what it is a sequence of. *)
LEMMA ToSetType ==
    ASSUME NEW S, NEW q \in Seq(S)
    PROVE  ToSet(q) \subseteq S
BY LenProperties DEF ToSet

(* A smaller element at the end keeps a sequence descending. *)
LEMMA AppendDescends ==
    ASSUME NEW S, S \subseteq Nat, NEW q \in Seq(S), NEW x \in S, Descending(q),
           \A y \in ToSet(q) : y > x
    PROVE  Descending(Append(q, x))
<1> SUFFICES ASSUME NEW i \in DOMAIN Append(q, x), NEW j \in DOMAIN Append(q, x), i < j
             PROVE  Append(q, x)[i] > Append(q, x)[j]
  BY DEF Descending
<1>1. /\ Len(q) \in Nat /\ DOMAIN q = 1 .. Len(q)
      /\ DOMAIN Append(q, x) = 1 .. Len(q) + 1
      /\ \A k \in 1 .. Len(q) : Append(q, x)[k] = q[k]
      /\ Append(q, x)[Len(q) + 1] = x
  BY AppendFacts
<1>2. i \in 1 .. Len(q) /\ (j \in 1 .. Len(q) \/ j = Len(q) + 1) BY <1>1
<1>3. CASE j \in 1 .. Len(q) BY <1>1, <1>2, <1>3 DEF Descending
<1>4. CASE j = Len(q) + 1 BY <1>1, <1>2, <1>4 DEF ToSet
<1> QED BY <1>2, <1>3, <1>4

(* An error that Fail records is in the result, unless "start" is. *)
LEMMA FailReports ==
    ASSUME HTTPTypeOK, Reported, UNCHANGED <<server, errCh>>,
           NEW err \in {"start", "shutdown", "stop", "close"},
           NoFailure \/ Fail(err)
    PROVE  /\ Reported'
           /\ failures' \subseteq {"start", "serve", "shutdown", "stop", "close"}
           /\ result' \subseteq failures'
           /\ failures \subseteq failures'
<1>1. CASE NoFailure
  BY <1>1 DEF NoFailure, errors, Reported, HTTPTypeOK
<1>2. CASE Fail(err)
  BY <1>2 DEF Fail, Reported, HTTPTypeOK
<1> QED BY <1>1, <1>2

(* The server, the handlers, the signals and the services' goroutines leave   *)
(* alone what RunHTTP has stopped, waited for and closed.                     *)
LEMMA OthersKeep ==
    ASSUME InOrder, Progress, UNCHANGED <<kind, started, pc, next, stops, closeCalls>>,
           \A s \in Services : worker'[s] = "running" => worker[s] = "running",
           started \in Seq(Services)
    PROVE  InOrder' /\ Progress'
<1>1. InOrder' BY DEF InOrder, Descending
<1>2. \A i \in DOMAIN started : started[i] \in Services BY ElementOfSeq, LenProperties
<1>3. \A n : WaitedFrom(n) => WaitedFrom(n)' BY <1>2 DEF WaitedFrom, Has
<1>4. \A n : StoppedFrom(n) => StoppedFrom(n)' BY DEF StoppedFrom, Has
<1> QED BY <1>1, <1>3, <1>4 DEF Progress

(* RunHTTP begins with nothing started. *)
LEMMA HTTPIInvInit == HTTPInit => HTTPIInv
<1> SUFFICES ASSUME HTTPInit PROVE HTTPIInv
  OBVIOUS
<1>0. started = <<>> /\ stops = <<>> /\ closeCalls = <<>> BY DEF HTTPInit
<1>1. HTTPTypeOK
  <2>1. <<>> \in Seq(Services) /\ <<>> \in Seq(1 .. NumClosers) /\ <<>> \in Seq({"serve", "nil"})
    BY EmptySeq
  <2>2. Len(errCh) <= 1 BY DEF HTTPInit
  <2>3. handlers \in 0 .. MaxHandlers BY SizeAssumption DEF HTTPInit
  <2> QED BY <2>1, <2>2, <2>3 DEF HTTPInit, HTTPTypeOK
<1>2. InOrder BY <1>0 DEF InOrder, Descending
<1>3. Progress BY <1>0, SizeAssumption DEF HTTPInit, Progress
<1>4. Drained /\ Reported BY DEF HTTPInit, Drained, Reported
<1> QED BY <1>1, <1>2, <1>3, <1>4 DEF HTTPIInv

(* The steps of everybody but RunHTTP itself. *)
LEMMA OthersStep ==
    ASSUME HTTPIInv, Server \/ Request \/ Respond \/ Signal \/ UNCHANGED httpVars
                 \/ \E s \in Services : WorkerExits(s)
    PROVE  HTTPIInv'
<1> USE DEF workers, http, released, errors
<1>0. HTTPTypeOK /\ InOrder /\ Progress /\ Drained /\ Reported /\ started \in Seq(Services)
  BY DEF HTTPIInv, HTTPTypeOK
<1>1. CASE UNCHANGED httpVars
  <2>1. InOrder' /\ Progress' BY <1>0, <1>1, OthersKeep DEF httpVars
  <2> QED BY <1>0, <1>1, <2>1 DEF httpVars, HTTPIInv, HTTPTypeOK, Drained, Reported
<1>2. CASE Listen
  <2>1. InOrder' /\ Progress' BY <1>0, <1>2, OthersKeep DEF Listen
  <2> QED BY <1>0, <1>2, <2>1 DEF Listen, HTTPIInv, HTTPTypeOK, Drained, Reported
<1>3. CASE ServerFails \/ ServerClosed
  <2>1. InOrder' /\ Progress' BY <1>0, <1>3, OthersKeep DEF ServerFails, ServerClosed
  <2>2. errCh = <<>> /\ server # "none" /\ server' = "done"
    BY <1>0, <1>3 DEF ServerFails, ServerClosed, Reported, HTTPTypeOK
  <2>3. \A x : Append(<<>>, x) = <<x>> OBVIOUS
  <2>4. \/ errCh' = <<"serve">> /\ failures' = failures \union {"serve"}
        \/ errCh' = <<"nil">> /\ failures' = failures
    BY <1>3, <2>2, <2>3 DEF ServerFails, ServerClosed
  <2>5. /\ result' = result
        /\ UNCHANGED <<workers, released, inShutdown, handlers, pc, next, ctxDone>>
    BY <1>3 DEF ServerFails, ServerClosed
  <2>6. errCh' \in Seq({"serve", "nil"}) /\ Len(errCh') <= 1
    <3>1. \A x \in {"serve", "nil"} : <<x>> \in Seq({"serve", "nil"}) /\ Len(<<x>>) <= 1
      OBVIOUS
    <3>2. errCh' = <<"serve">> \/ errCh' = <<"nil">> BY <2>4
    <3>3. CASE errCh' = <<"serve">> BY <3>1, <3>3
    <3>4. CASE errCh' = <<"nil">> BY <3>1, <3>4
    <3> QED BY <3>2, <3>3, <3>4
  <2>7. HTTPTypeOK' BY <1>0, <2>2, <2>4, <2>5, <2>6 DEF HTTPTypeOK
  <2>8. Drained' BY <1>0, <2>2, <2>4, <2>5 DEF Drained
  <2>9. Reported' BY <1>0, <2>2, <2>4, <2>5 DEF Reported
  <2> QED BY <2>1, <2>7, <2>8, <2>9 DEF HTTPIInv
<1>4. CASE Request
  <2>1. InOrder' /\ Progress' BY <1>0, <1>4, OthersKeep DEF Request
  <2>2. handlers' \in 0 .. MaxHandlers
    BY <1>0, <1>4, SizeAssumption DEF Request, HTTPTypeOK
  <2> QED BY <1>0, <1>4, <2>1, <2>2 DEF Request, HTTPIInv, HTTPTypeOK, Drained, Reported
<1>5. CASE Respond
  <2>1. InOrder' /\ Progress' BY <1>0, <1>5, OthersKeep DEF Respond
  <2>2. handlers' \in 0 .. MaxHandlers /\ handlers > 0
    BY <1>0, <1>5, SizeAssumption DEF Respond, HTTPTypeOK
  <2>3. Drained' BY <1>0, <1>5, <2>2 DEF Respond, Drained
  <2> QED BY <1>0, <1>5, <2>1, <2>2, <2>3 DEF Respond, HTTPIInv, HTTPTypeOK, Reported
<1>6. CASE Signal
  <2>1. InOrder' /\ Progress' BY <1>0, <1>6, OthersKeep DEF Signal
  <2> QED BY <1>0, <1>6, <2>1 DEF Signal, HTTPIInv, HTTPTypeOK, Drained, Reported
<1>7. ASSUME NEW s \in Services, WorkerExits(s) PROVE HTTPIInv'
  <2>1. /\ worker' \in [Services -> {"none", "running", "exited"}]
        /\ \A x \in Services : worker'[x] = "running" => worker[x] = "running"
    BY <1>0, <1>7 DEF WorkerExits, HTTPTypeOK
  <2>2. InOrder' /\ Progress' BY <1>0, <1>7, <2>1, OthersKeep DEF WorkerExits
  <2> QED BY <1>0, <1>7, <2>1, <2>2 DEF WorkerExits, HTTPIInv, HTTPTypeOK, Drained, Reported
<1> QED BY <1>1, <1>2, <1>3, <1>4, <1>5, <1>6, <1>7 DEF Server

(* RunHTTP goes on to stop the services: none is stopped yet. *)
LEMMA BeginStops ==
    ASSUME HTTPTypeOK, stops = <<>>, next' = Len(started),
           UNCHANGED <<workers, stops>>
    PROVE  /\ next' \in Nat /\ next' \in 0 .. Len(started')
           /\ StoppedFrom(next + 1)' /\ WaitedFrom(next + 1)'
<1>1. Len(started) \in Nat /\ DOMAIN started = 1 .. Len(started)
  BY LenProperties DEF HTTPTypeOK
<1>2. ToSet(stops) = {} BY DEF ToSet
<1> QED BY <1>1, <1>2 DEF StoppedFrom, WaitedFrom, workers

(* RunHTTP up to the shutdown of the server. *)
LEMMA StartupStep ==
    ASSUME HTTPIInv, StartService \/ StartFails \/ StartServer \/ SelectSignal \/ SelectError
                 \/ ShutdownDone \/ ShutdownTimeout
    PROVE  HTTPIInv'
<1> USE DEF workers, http, released, errors
<1>0. HTTPTypeOK /\ InOrder /\ Progress /\ Drained /\ Reported /\ started \in Seq(Services)
  BY DEF HTTPIInv, HTTPTypeOK
<1>1. CASE StartService
  <2>1. /\ pc = "starting" /\ pc' = pc /\ next' = next + 1 /\ kind' = kind
        /\ UNCHANGED <<http, released, errors, ctxDone>>
        /\ next \in Services /\ next' \in 1 .. NumServices + 1
        /\ stops = <<>> /\ closeCalls = <<>>
        /\ \A i \in DOMAIN started : started[i] < next
    BY <1>0, <1>1, SizeAssumption DEF StartService, NoFailure, Progress, HTTPTypeOK, Services
  <2>2. /\ started' \in Seq(Services)
        /\ \A i, j \in DOMAIN started' : i < j => started'[i] < started'[j]
        /\ \A i \in DOMAIN started' : started'[i] < next'
    <3>1. CASE started' = started
      BY <1>0, <2>1, <3>1, SizeAssumption, ElementOfSeq, LenProperties DEF InOrder, Services
    <3>2. CASE started' = Append(started, next)
      <4>1. /\ started' \in Seq(Services)
            /\ Len(started) \in Nat /\ DOMAIN started = 1 .. Len(started)
            /\ DOMAIN started' = 1 .. Len(started) + 1
            /\ \A i \in 1 .. Len(started) : started'[i] = started[i] /\ started[i] \in Services
            /\ started'[Len(started) + 1] = next
        BY <1>0, <2>1, <3>2, AppendFacts
      <4>2. \A i \in DOMAIN started' : i \in DOMAIN started \/ i = Len(started) + 1 BY <4>1
      <4>3. \A i \in DOMAIN started' : started'[i] < next'
        BY <2>1, <4>1, <4>2, SizeAssumption DEF Services
      <4>4. ASSUME NEW i \in DOMAIN started', NEW j \in DOMAIN started', i < j
            PROVE  started'[i] < started'[j]
        <5>1. i \in DOMAIN started BY <4>1, <4>4
        <5>2. CASE j \in DOMAIN started BY <1>0, <4>1, <4>4, <5>1, <5>2 DEF InOrder
        <5>3. CASE j = Len(started) + 1 BY <2>1, <4>1, <5>1, <5>3
        <5> QED BY <4>2, <5>2, <5>3
      <4> QED BY <4>1, <4>3, <4>4
    <3> QED BY <1>1, <3>1, <3>2 DEF StartService
  <2>3. worker' \in [Services -> {"none", "running", "exited"}]
    BY <1>0, <1>1 DEF StartService, HTTPTypeOK
  <2>4. HTTPTypeOK' BY <1>0, <2>1, <2>2, <2>3, SizeAssumption DEF HTTPTypeOK
  <2>5. InOrder' BY <1>0, <2>1, <2>2 DEF InOrder, Descending
  <2>6. Progress' BY <2>1, <2>2 DEF Progress
  <2>7. Drained' /\ Reported' BY <1>0, <2>1 DEF Drained, Reported
  <2> QED BY <2>4, <2>5, <2>6, <2>7 DEF HTTPIInv
<1>2. CASE StartServer
  <2>1. InOrder' BY <1>0, <1>2 DEF StartServer, InOrder, Descending
  <2>2. Progress' BY <1>0, <1>2 DEF StartServer, Progress
  <2>3. HTTPTypeOK' /\ Reported'
    BY <1>0, <1>2 DEF StartServer, NoFailure, HTTPTypeOK, Reported, Drained
  <2>4. Drained' BY <1>0, <1>2 DEF StartServer, NoFailure, Drained
  <2> QED BY <2>1, <2>2, <2>3, <2>4 DEF HTTPIInv
<1>3. CASE SelectSignal
  <2>1. InOrder' BY <1>0, <1>3 DEF SelectSignal, InOrder, Descending
  <2>2. Progress' BY <1>0, <1>3 DEF SelectSignal, Progress
  <2>3. HTTPTypeOK' /\ Reported' BY <1>0, <1>3 DEF SelectSignal, NoFailure, HTTPTypeOK, Reported
  <2>4. Drained' BY <1>0, <1>3 DEF SelectSignal, NoFailure, Drained
  <2> QED BY <2>1, <2>2, <2>3, <2>4 DEF HTTPIInv
<1>4. CASE SelectError
  <2>1. InOrder' BY <1>0, <1>4 DEF SelectError, InOrder, Descending
  <2>2. Progress' BY <1>0, <1>4 DEF SelectError, Progress
  <2>3. \A x : Head(<<x>>) = x /\ Tail(<<x>>) = <<>> OBVIOUS
  <2>4. /\ errCh' = <<>>
        /\ \/ result' = result /\ errCh = <<"nil">>
           \/ result' = result \union {"serve"} /\ errCh = <<"serve">> /\ "serve" \in failures
    BY <1>0, <1>4, <2>3 DEF SelectError, Reported
  <2>5. /\ UNCHANGED <<workers, released, server, handlers, failures, next, ctxDone>>
        /\ pc = "select" /\ pc' = "shutdown" /\ inShutdown' = TRUE
    BY <1>4 DEF SelectError
  <2>6. errCh' \in Seq({"serve", "nil"}) /\ Len(errCh') <= 1 BY <2>4
  <2>7. HTTPTypeOK' BY <1>0, <2>4, <2>5, <2>6 DEF HTTPTypeOK
  <2>8. <<"serve">> # <<"nil">> OBVIOUS
  <2>9. Reported' BY <1>0, <2>4, <2>5, <2>8 DEF Reported
  <2>10. Drained' BY <1>0, <2>5 DEF Drained
  <2> QED BY <2>1, <2>2, <2>7, <2>9, <2>10 DEF HTTPIInv
<1>5. CASE StartFails \/ ShutdownDone \/ ShutdownTimeout
  <2>1. /\ pc \in {"starting", "shutdown"} /\ pc' = "stopping" /\ next' = Len(started)
        /\ UNCHANGED <<workers, http, released, ctxDone>>
        /\ stops = <<>> /\ closeCalls = <<>>
    BY <1>0, <1>5 DEF StartFails, ShutdownDone, ShutdownTimeout, Progress
  <2>2. /\ Reported'
        /\ failures' \subseteq {"start", "serve", "shutdown", "stop", "close"}
        /\ result' \subseteq failures'
        /\ failures \subseteq failures'
    BY <1>0, <1>5, FailReports DEF StartFails, ShutdownDone, ShutdownTimeout
  <2>3. handlers > 0 => "shutdown" \in failures'
    BY <1>0, <1>5 DEF StartFails, ShutdownDone, ShutdownTimeout, Fail, Drained, HTTPTypeOK
  <2>4. /\ next' \in Nat /\ next' \in 0 .. Len(started')
        /\ StoppedFrom(next + 1)' /\ WaitedFrom(next + 1)'
    BY <1>0, <2>1, BeginStops
  <2>5. HTTPTypeOK' BY <1>0, <2>1, <2>2, <2>4 DEF HTTPTypeOK
  <2>6. InOrder' BY <1>0, <2>1 DEF InOrder, Descending
  <2>7. Progress' BY <2>1, <2>4 DEF Progress
  <2>8. Drained' BY <1>0, <2>1, <2>3 DEF Drained
  <2> QED BY <2>2, <2>5, <2>6, <2>7, <2>8 DEF HTTPIInv
<1> QED BY <1>1, <1>2, <1>3, <1>4, <1>5

(* RunHTTP from the first Stop to its return. *)
LEMMA ReleaseStep ==
    ASSUME HTTPIInv, StopService \/ WaitService \/ StopsDone \/ CloseResource \/ Return
    PROVE  HTTPIInv'
<1> USE DEF workers, http, released, errors
<1>0. /\ HTTPTypeOK /\ InOrder /\ Progress /\ Drained /\ Reported
      /\ started \in Seq(Services) /\ stops \in Seq(Services)
      /\ closeCalls \in Seq(1 .. NumClosers)
      /\ Len(started) \in Nat /\ DOMAIN started = 1 .. Len(started)
      /\ \A i \in DOMAIN started : started[i] \in Services
      /\ Services \subseteq Nat /\ 1 .. NumClosers \subseteq Nat
  BY LenProperties, ElementOfSeq, SizeAssumption DEF HTTPIInv, HTTPTypeOK, Services
<1>r. ASSUME UNCHANGED <<http>>, NEW err \in {"stop", "close"}, NoFailure \/ Fail(err),
             pc \in {"stopping", "waiting", "closing"},
             pc' \in {"stopping", "waiting", "closing", "returned"}
      PROVE  /\ Reported' /\ Drained'
             /\ failures' \subseteq {"start", "serve", "shutdown", "stop", "close"}
             /\ result' \subseteq failures'
  <2>1. /\ Reported' /\ failures \subseteq failures'
        /\ failures' \subseteq {"start", "serve", "shutdown", "stop", "close"}
        /\ result' \subseteq failures'
    BY <1>0, <1>r, FailReports
  <2>2. Drained' BY <1>0, <1>r, <2>1 DEF Drained
  <2> QED BY <2>1, <2>2
<1>1. CASE StopService
  <2>1. /\ pc = "stopping" /\ next \in 1 .. Len(started) /\ pc' = "waiting" /\ next' = next
        /\ UNCHANGED <<workers, http, closeCalls, ctxDone>>
        /\ StoppedFrom(next + 1) /\ WaitedFrom(next + 1) /\ closeCalls = <<>>
    BY <1>0, <1>1 DEF StopService, Progress
  <2>2. /\ Reported' /\ Drained'
        /\ failures' \subseteq {"start", "serve", "shutdown", "stop", "close"}
        /\ result' \subseteq failures'
    BY <1>1, <1>r, <2>1 DEF StopService
  <2> DEFINE x == started[next]
  <2>3. x \in Services BY <1>0, <2>1
  <2>4. \A i \in DOMAIN started : i >= next <=> i >= next + 1 \/ i = next
    BY <1>0, <2>1
  <2>5. \A y \in ToSet(stops) : y \in Services BY <1>0, ToSetType
  <2>6. \A y \in ToSet(stops) : y > x
    <3> SUFFICES ASSUME NEW y \in ToSet(stops) PROVE y > x
      OBVIOUS
    <3>1. PICK i \in DOMAIN started : i >= next + 1 /\ started[i] = y
      BY <2>1, <2>5 DEF StoppedFrom
    <3>2. next < i /\ next \in DOMAIN started BY <1>0, <2>1, <3>1
    <3>3. started[next] < started[i] BY <1>0, <3>2 DEF InOrder
    <3>4. started[i] \in Nat /\ started[next] \in Nat BY <1>0, <3>2
    <3> QED BY <3>1, <3>3, <3>4
  <2>7. CASE Has(x, "Stop")
    <3>1. stops' = Append(stops, x) BY <1>1, <2>7 DEF StopService
    <3> HIDE DEF x
    <3>2. /\ stops' \in Seq(Services) /\ ToSet(stops') = ToSet(stops) \union {x}
      BY <1>0, <2>3, <3>1, AppendFacts
    <3>3. Descending(stops') BY <1>0, <2>3, <2>6, <3>1, AppendDescends DEF InOrder
    <3>4. StoppedFrom(next)'
      BY <1>0, <2>1, <2>4, <2>7, <3>2 DEF StoppedFrom, Has, x
    <3> QED BY <1>0, <2>1, <2>2, <3>2, <3>3, <3>4
            DEF HTTPIInv, HTTPTypeOK, InOrder, Descending, Progress, WaitedFrom, Has
  <2>8. CASE ~Has(x, "Stop")
    <3>1. stops' = stops BY <1>1, <2>8 DEF StopService
    <3>2. StoppedFrom(next)'
      BY <1>0, <2>1, <2>4, <2>8, <3>1 DEF StoppedFrom, Has
    <3> QED BY <1>0, <2>1, <2>2, <3>1, <3>2
            DEF HTTPIInv, HTTPTypeOK, InOrder, Descending, Progress, WaitedFrom, Has
  <2> QED BY <2>7, <2>8
<1>2. CASE WaitService
  <2>1. /\ pc = "waiting" /\ next \in 1 .. Len(started) /\ pc' = "stopping" /\ next' = next - 1
        /\ UNCHANGED <<workers, http, released, ctxDone>>
        /\ StoppedFrom(next) /\ WaitedFrom(next + 1) /\ closeCalls = <<>>
        /\ Has(started[next], "Wait") => worker[started[next]] # "running"
    BY <1>0, <1>2 DEF WaitService, Progress
  <2>2. /\ Reported' /\ Drained'
        /\ failures' \subseteq {"start", "serve", "shutdown", "stop", "close"}
        /\ result' \subseteq failures'
    BY <1>2, <1>r, <2>1 DEF WaitService
  <2>3. next' \in 0 .. Len(started) /\ next' \in Nat /\ next' + 1 = next BY <1>0, <2>1
  <2>4. \A i \in DOMAIN started : i >= next <=> i >= next + 1 \/ i = next
    BY <1>0, <2>1
  <2>5. StoppedFrom(next + 1)' BY <2>1, <2>3 DEF StoppedFrom, Has
  <2>6. WaitedFrom(next + 1)' BY <2>1, <2>3, <2>4 DEF WaitedFrom, Has
  <2> QED BY <1>0, <2>1, <2>2, <2>3, <2>5, <2>6
      DEF HTTPIInv, HTTPTypeOK, InOrder, Descending, Progress
<1>3. CASE StopsDone
  <2>1. /\ pc = "stopping" /\ next = 0 /\ pc' = "closing" /\ next' = NumClosers
        /\ UNCHANGED <<workers, http, released, ctxDone>>
        /\ StoppedFrom(1) /\ WaitedFrom(1) /\ closeCalls = <<>>
    BY <1>0, <1>3 DEF StopsDone, Progress
  <2>2. /\ Reported' /\ Drained'
        /\ failures' \subseteq {"start", "serve", "shutdown", "stop", "close"}
        /\ result' \subseteq failures'
    BY <1>3, <1>r, <2>1 DEF StopsDone
  <2>3. StoppedFrom(1)' /\ WaitedFrom(1)' BY <2>1 DEF StoppedFrom, WaitedFrom, Has
  <2>4. ToSet(closeCalls') = {} BY <2>1 DEF ToSet
  <2>5. Progress' BY <2>1, <2>3, <2>4, SizeAssumption DEF Progress
  <2> QED BY <1>0, <2>1, <2>2, <2>5, SizeAssumption DEF HTTPIInv, HTTPTypeOK, InOrder, Descending
<1>4. CASE CloseResource
  <2>1. /\ pc = "closing" /\ pc' = pc /\ next \in 1 .. NumClosers /\ next' = next - 1
        /\ UNCHANGED <<workers, http, stops, ctxDone>>
        /\ StoppedFrom(1) /\ WaitedFrom(1)
        /\ \A c \in 1 .. NumClosers : c \in ToSet(closeCalls) <=> c > next /\ c \notin NilClosers
    BY <1>0, <1>4 DEF CloseResource, Progress
  <2>2. /\ Reported' /\ Drained'
        /\ failures' \subseteq {"start", "serve", "shutdown", "stop", "close"}
        /\ result' \subseteq failures'
    BY <1>4, <1>r, <2>1 DEF CloseResource
  <2>3. StoppedFrom(1)' /\ WaitedFrom(1)' BY <2>1 DEF StoppedFrom, WaitedFrom, Has
  <2>4. /\ next' \in 0 .. NumClosers /\ next' \in Nat
        /\ \A c \in 1 .. NumClosers : c > next' <=> c > next \/ c = next
    BY <2>1, SizeAssumption
  <2>5. \A c \in ToSet(closeCalls) : c \in 1 .. NumClosers
    BY <1>0, ToSetType
  <2>6. CASE next \in NilClosers
    <3>1. closeCalls' = closeCalls BY <1>4, <2>6 DEF CloseResource
    <3>2. Progress' BY <2>1, <2>3, <2>4, <2>6, <3>1 DEF Progress
    <3> QED BY <1>0, <2>1, <2>2, <2>4, <3>1, <3>2 DEF HTTPIInv, HTTPTypeOK, InOrder, Descending
  <2>7. CASE next \notin NilClosers
    <3>1. closeCalls' = Append(closeCalls, next) BY <1>4, <2>7 DEF CloseResource
    <3>2. /\ closeCalls' \in Seq(1 .. NumClosers)
          /\ ToSet(closeCalls') = ToSet(closeCalls) \union {next}
      <4> DEFINE C == 1 .. NumClosers
      <4>1. closeCalls \in Seq(C) /\ next \in C BY <1>0, <2>1
      <4> HIDE DEF C
      <4>2. closeCalls' \in Seq(C) /\ ToSet(closeCalls') = ToSet(closeCalls) \union {next}
        BY <3>1, <4>1, AppendFacts
      <4> QED BY <4>2 DEF C
    <3>3. Descending(closeCalls') BY <1>0, <2>1, <2>5, <3>1, AppendDescends DEF InOrder
    <3>4. Progress' BY <2>1, <2>3, <2>4, <2>7, <3>2 DEF Progress
    <3> QED BY <1>0, <2>1, <2>2, <2>4, <3>2, <3>3, <3>4
        DEF HTTPIInv, HTTPTypeOK, InOrder, Descending
  <2> QED BY <2>6, <2>7
<1>5. CASE Return
  <2>1. /\ pc = "closing" /\ pc' = "returned" /\ next = 0 /\ next' = next /\ ctxDone' = TRUE
        /\ UNCHANGED <<workers, http, released>>
    BY <1>5 DEF Return
  <2>2. /\ Reported' /\ Drained'
        /\ failures' \subseteq {"start", "serve", "shutdown", "stop", "close"}
        /\ result' \subseteq failures'
    BY <1>5, <1>r, <2>1 DEF Return
  <2>3. StoppedFrom(1)' /\ WaitedFrom(1)'
    BY <1>0, <2>1 DEF Progress, StoppedFrom, WaitedFrom, Has
  <2>4. Progress' BY <1>0, <2>1, <2>3 DEF Progress
  <2> QED BY <1>0, <2>1, <2>2, <2>4 DEF HTTPIInv, HTTPTypeOK, InOrder, Descending
<1> QED BY <1>1, <1>2, <1>3, <1>4, <1>5

(* The state of RunHTTP in every run, under every signal and every failure. *)
THEOREM HTTPIInvHolds == HTTPSpec => []HTTPIInv
<1>1. HTTPIInv /\ [HTTPNext]_httpVars => HTTPIInv'
  BY OthersStep, StartupStep, ReleaseStep DEF HTTPNext, Main, Ended
<1> QED BY <1>1, HTTPIInvInit, PTL DEF HTTPSpec

(* Types, for every list of services and closers. *)
THEOREM HTTPTypeOKHolds == HTTPSpec => []HTTPTypeOK
<1>1. HTTPIInv => HTTPTypeOK BY DEF HTTPIInv
<1> QED BY <1>1, HTTPIInvHolds, PTL

(* No resource is closed while a service that was started and must be stopped *)
(* or waited for still runs, nor, unless the shutdown timed out and said so,  *)
(* while a request is in flight.                                              *)
THEOREM CloseAfterWorkHolds == HTTPSpec => []CloseAfterWork
<1>1. HTTPIInv => CloseAfterWork
  <2> SUFFICES ASSUME HTTPIInv, closeCalls # <<>> PROVE CloseAfterWork
    BY DEF CloseAfterWork
  <2>1. /\ StoppedFrom(1) /\ WaitedFrom(1)
        /\ handlers > 0 => "shutdown" \in failures
    BY DEF HTTPIInv, Progress, Drained
  <2>2. \A i \in DOMAIN started : started[i] \in Services /\ i >= 1
    BY LenProperties, ElementOfSeq DEF HTTPIInv, HTTPTypeOK
  <2> QED BY <2>1, <2>2 DEF CloseAfterWork, StoppedFrom, WaitedFrom
<1> QED BY <1>1, HTTPIInvHolds, PTL

(* RunHTTP returns only after it has stopped the services it started and      *)
(* closed its resources, all of them, each once and in reverse order.         *)
THEOREM ReleasedInReverseHolds == HTTPSpec => []ReleasedInReverse
<1>1. HTTPIInv => ReleasedInReverse
  <2> SUFFICES ASSUME HTTPIInv, pc = "returned" PROVE ReleasedInReverse
    BY DEF ReleasedInReverse
  <2>1. /\ StoppedFrom(1) /\ Descending(stops) /\ Descending(closeCalls)
        /\ \A c \in 1 .. NumClosers : c \in ToSet(closeCalls) <=> c > 0 /\ c \notin NilClosers
    BY DEF HTTPIInv, Progress, InOrder
  <2>2. \A i \in DOMAIN started : started[i] \in Services /\ i >= 1
    BY LenProperties, ElementOfSeq DEF HTTPIInv, HTTPTypeOK
  <2>3. ToSet(stops) \subseteq Services /\ ToSet(closeCalls) \subseteq 1 .. NumClosers
    BY ToSetType DEF HTTPIInv, HTTPTypeOK
  <2>4. ToSet(stops) = {s \in ToSet(started) : Has(s, "Stop")}
    BY <2>1, <2>2, <2>3 DEF StoppedFrom, ToSet
  <2>5. ToSet(closeCalls) = (1 .. NumClosers) \ NilClosers
    BY <2>1, <2>3, SizeAssumption
  <2> QED BY <2>1, <2>4, <2>5 DEF ReleasedInReverse
<1> QED BY <1>1, HTTPIInvHolds, PTL

(* A nil result means that nothing failed and no request is left, or that the *)
(* error of the server was never read from its channel.                       *)
THEOREM NilMeansCleanHolds == HTTPSpec => []NilMeansClean
<1>1. HTTPIInv => NilMeansClean
  <2> SUFFICES ASSUME HTTPIInv, pc = "returned", result = {} PROVE NilMeansClean
    BY DEF NilMeansClean
  <2>1. failures \subseteq {"serve"} /\ handlers \in Nat /\ "shutdown" # "serve"
    BY SizeAssumption DEF HTTPIInv, Reported, HTTPTypeOK
  <2>2. handlers = 0 BY <2>1 DEF HTTPIInv, Drained
  <2>3. "serve" \in failures => errCh # <<>> BY DEF HTTPIInv, Reported
  <2> QED BY <2>1, <2>2, <2>3 DEF NilMeansClean
<1> QED BY <1>1, HTTPIInvHolds, PTL
=============================================================================
