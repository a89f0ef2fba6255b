------------------------ MODULE FallbackCacheProofs ------------------------
(* FallbackCache, for every set of keys and goroutines, whichever stores are  *)
(* there and whichever of them may fail.                                      *)
EXTENDS FallbackCache, FiniteSetTheorems, TLAPS

-----------------------------------------------------------------------------
(* Where written values are.  A store's side is what it holds, by key, and    *)
(* what goroutines carry from it or for it.                                   *)

\* A value that Take removed from the primary and has not returned yet.
TakenAway(c) == IF c.at = "fallback" /\ c.op = "Take" /\ c.mode = "mirror"
                THEN c.first.stamp ELSE 0

\* A value on its way to the fallback.
Underway(c) == IF c.at = "fallback" /\ c.q.op \in {"Set", "Increment"} THEN c.q.stamp ELSE 0

Held(s) == [k \in Keys |-> store[s][k].stamp]

Carried(s) == [t \in Threads |-> IF s = "primary" THEN TakenAway(call[t])
                                 ELSE Underway(call[t])]

\* A side has the value n.
Lives(h, c, n) == (\E k \in Keys : h[k] = n) \/ (\E t \in Threads : c[t] = n)

\* ... and no value twice.
Apart(h, c) ==
    /\ \A k, l \in Keys : k # l /\ h[k] = h[l] => h[k] = 0
    /\ \A t, u \in Threads : t # u /\ c[t] = c[u] => c[t] = 0
    /\ \A t \in Threads, k \in Keys : c[t] = h[k] => c[t] = 0

LivesAt(s, n) == Lives(Held(s), Carried(s), n)

One(b) == IF b THEN 1 ELSE 0

(* An entry without a stamp is a missing one. *)
Proper == \A s \in Stores, k \in Keys : store[s][k].stamp # 0 \/ store[s][k] = Gone

(* The call of the fallback belongs to the operation. *)
Shape ==
    \A t \in Threads : call[t].at = "fallback" =>
        LET c == call[t]
        IN /\ c.q.key \in Keys /\ "fallback" \in Present
           /\ c.op \in Reads => c.q.op = c.op /\ c.mode = "answer"
           /\ c.op \in {"Set", "Delete"} => c.q.op = c.op /\ c.mode = "join"
           /\ c.op \in Reads \union Writes
           /\ c.op \in {"Take", "Increment"} =>
                 \/ c.mode = "answer" /\ c.q.op = c.op
                 \/ /\ c.mode = "mirror" /\ c.first.out = "ok"
                    /\ c.q.op = IF c.op = "Take" THEN "Delete" ELSE "Set"
           /\ c.q.op \in {"Set", "Increment"} => c.q.stamp # 0
           /\ c.op = "Take" /\ c.mode = "mirror" => c.first.stamp # 0

(* A goroutine that still counts as undisturbed is alone with its key, and    *)
(* the primary has what it left there.                                        *)
Alone ==
    \A t \in Threads, k \in Keys : Changing(t, k) =>
        /\ ~settled[k].known
        /\ call[t].clean =>
              /\ \A u \in Threads : Changing(u, k) => u = t
              /\ "primary" \in Present =>
                    store["primary"][k].stamp \in
                      {0} \union IF call[t].op \in {"Take", "Delete"} THEN {} ELSE {call[t].q.stamp}
              /\ "primary" \in Present /\ call[t].op = "Increment" => call[t].mode = "mirror"

(* Each side has a value in one place at most, and only values written. *)
Sides == \A s \in Stores :
            /\ Apart(Held(s), Carried(s))
            /\ \A k \in Keys : Held(s)[k] <= stamps
            /\ \A t \in Threads : Carried(s)[t] <= stamps

(* A value that a store may still hand out has not been handed out by it. *)
Balance ==
    \A n \in 1 .. MaxWrites :
        /\ n > stamps => takes[n] = 0
        /\ takes[n] + One(LivesAt("primary", n)) + One(LivesAt("fallback", n))
             <= One("primary" \in Present) + One("fallback" \in Present)

IInv == TypeOK /\ Proper /\ Shape /\ Alone /\ SettledAgree /\ Sides /\ Balance

(* Small facts about the records of the model. *)
LEMMA RecordFacts ==
    /\ Gone \in Entries /\ Gone.stamp = 0 /\ Gone.value \in Values
    /\ Failed \in Answers /\ Failed.out = "error"
    /\ Idle \in Calls /\ Idle.at = "idle" /\ TakenAway(Idle) = 0 /\ Underway(Idle) = 0
<1>1. /\ Gone \in Entries /\ Gone.stamp = 0 /\ Gone.value \in Values
      /\ Failed \in Answers /\ Failed.out = "error"
  BY InputAssumption DEF Gone, Entries, Values, Failed, Answer, Answers
<1>2. Request("Get", "none", 0, Text) \in Requests
  BY InputAssumption DEF Request, Requests, Reads, Writes, Values
<1> QED BY <1>1, <1>2 DEF Idle, Calls, TakenAway, Underway, Reads, Writes

(* What one call of a store does, by its contract and whatever of it fails.   *)
(* A call that does not fail has taken effect.                                *)
LEMMA OutcomeFacts ==
    ASSUME NEW s, NEW e \in Entries, e.stamp # 0 \/ e = Gone,
           NEW q \in Requests, q.op \in {"Set", "Increment"} => q.stamp # 0,
           NEW o \in Outcomes(s, e, q)
    PROVE  /\ o.entry \in Entries /\ (o.entry.stamp # 0 \/ o.entry = Gone)
           /\ o.reply \in Answers
           /\ o.entry.stamp \in {e.stamp, 0} \/ (q.op \in {"Set", "Increment"} /\ o.entry.stamp = q.stamp)
           /\ q.op \in Reads => o.entry = e
           /\ q.op \in {"Take", "Delete"} /\ o.reply.out # "error" => o.entry = Gone
           /\ q.op \in {"Set", "Increment"} /\ o.reply.out # "error" => o.entry.stamp = q.stamp
           /\ q.op \in {"Set", "Increment", "Delete"} => o.reply.out # "miss"
           /\ q.op = "Take" /\ o.reply.out = "ok" => o.reply.stamp = e.stamp /\ e.stamp # 0
           /\ q.op = "Increment" /\ o.reply.out = "ok" => o.reply.stamp = q.stamp
<1>0. /\ q.op \in Reads \union Writes /\ q.stamp \in 0 .. MaxWrites /\ q.value \in Values
      /\ e.stamp \in 0 .. MaxWrites /\ e.value \in Values
  BY DEF Requests, Entries
<1>1. Current(e) # Text => Counted(e, q) \in Entries /\ Counted(e, q).stamp = q.stamp
  <2>1. Current(e) # Text => Current(e) \in Int64
    BY <1>0, RangeAssumption DEF Current, Values, Int64
  <2>2. Current(e) # Text => Wrap(Current(e) + 1) \in Int64
    BY <2>1, RangeAssumption DEF Wrap, Int64
  <2> QED BY <1>0, <2>2 DEF Counted, Entries, Values
<1>2. \/ o.entry = After(e, q) /\ o.reply = Reply(e, q)
      \/ o.entry = e /\ o.reply = Failed
      \/ o.entry = After(e, q) /\ o.reply = Failed
  BY DEF Outcomes
<1>3. CASE q.op \in Reads
  <2>1. After(e, q) = e BY <1>3 DEF After, Reads
  <2>2. Reply(e, q) = Answer(IF e = Gone THEN "miss" ELSE "ok", e) BY <1>3 DEF Reply, Reads
  <2>3. Reply(e, q) \in Answers BY <1>0, <2>2 DEF Answer, Answers
  <2> QED BY <1>2, <1>3, <2>1, <2>3, RecordFacts DEF Reads
<1>4. CASE q.op = "Take"
  <2>1. After(e, q) = Gone BY <1>4 DEF After, Reads
  <2>2. Reply(e, q) = Answer(IF e = Gone THEN "miss" ELSE "ok", e) BY <1>4 DEF Reply, Reads
  <2>3. Reply(e, q) \in Answers /\ Reply(e, q).stamp = e.stamp
        /\ (Reply(e, q).out = "ok" => e # Gone)
    BY <1>0, <2>2 DEF Answer, Answers
  <2> QED BY <1>2, <1>4, <2>1, <2>3, RecordFacts DEF Reads
<1>5. CASE q.op = "Delete"
  <2>1. After(e, q) = Gone BY <1>5 DEF After, Reads
  <2>2. Reply(e, q) = Answer("ok", Gone) BY <1>5 DEF Reply, Reads
  <2>3. Reply(e, q) \in Answers /\ Reply(e, q).out = "ok"
    BY <2>2, RecordFacts DEF Answer, Answers, Entries
  <2> QED BY <1>2, <1>5, <2>1, <2>3, RecordFacts DEF Reads
<1>6. CASE q.op = "Set"
  <2>1. After(e, q) = [stamp |-> q.stamp, value |-> q.value] BY <1>6 DEF After, Reads
  <2>2. Reply(e, q) = Answer("ok", Gone) BY <1>6 DEF Reply, Reads
  <2>3. Reply(e, q) \in Answers /\ Reply(e, q).out = "ok"
    BY <2>2, RecordFacts DEF Answer, Answers, Entries
  <2>4. After(e, q) \in Entries /\ After(e, q).stamp = q.stamp BY <1>0, <2>1 DEF Entries
  <2> QED BY <1>2, <1>6, <2>3, <2>4, RecordFacts DEF Reads
<1>7. CASE q.op = "Increment" /\ Current(e) = Text
  <2>1. After(e, q) = e BY <1>7 DEF After, Reads
  <2>2. Reply(e, q) = Failed BY <1>7 DEF Reply, Reads
  <2> QED BY <1>2, <1>7, <2>1, <2>2, RecordFacts DEF Reads
<1>8. CASE q.op = "Increment" /\ Current(e) # Text
  <2>1. After(e, q) = Counted(e, q) BY <1>8 DEF After, Reads
  <2>2. Reply(e, q) = Answer("ok", Counted(e, q)) BY <1>8 DEF Reply, Reads
  <2>3. Reply(e, q) \in Answers /\ Reply(e, q).out = "ok" /\ Reply(e, q).stamp = q.stamp
    BY <1>1, <1>8, <2>2 DEF Answer, Answers, Entries
  <2> QED BY <1>1, <1>2, <1>8, <2>1, <2>3, RecordFacts DEF Reads
<1> QED BY <1>0, <1>3, <1>4, <1>5, <1>6, <1>7, <1>8 DEF Writes

\* A step changes one key and one goroutine of a side, (h, c) to (h2, c2); the
\* values it puts there come from there, or are new.
Shift(h, c, h2, c2, key, t) ==
    /\ Apart(h, c)
    /\ \A k \in Keys \ {key} : h2[k] = h[k]
    /\ \A u \in Threads \ {t} : c2[u] = c[u]
    /\ h2[key] \in {0, h[key], c[t]} \/ ~Lives(h, c, h2[key])
    /\ c2[t] \in {0, h[key], c[t]} \/ ~Lives(h, c, c2[t])
    /\ h2[key] = c2[t] => h2[key] = 0

(* Then no value is in two places. *)
LEMMA Moved ==
    ASSUME NEW h, NEW c, NEW h2, NEW c2, NEW key \in Keys, NEW t \in Threads,
           Shift(h, c, h2, c2, key, t)
    PROVE  /\ Apart(h2, c2)
           /\ \A n : n # 0 /\ Lives(h2, c2, n) => Lives(h, c, n) \/ n \in {h2[key], c2[t]}
<1>1. \A k \in Keys \ {key} : h[k] = h2[key] => h[k] = 0 BY DEF Shift, Apart, Lives
<1>2. \A k \in Keys \ {key} : h[k] = c2[t] => h[k] = 0 BY DEF Shift, Apart, Lives
<1>3. \A u \in Threads \ {t} : c[u] = c2[t] => c[u] = 0 BY DEF Shift, Apart, Lives
<1>4. \A u \in Threads \ {t} : c[u] = h2[key] => c[u] = 0 BY DEF Shift, Apart, Lives
<1>5. \A k, l \in Keys : k # l /\ h2[k] = h2[l] => h2[k] = 0 BY <1>1 DEF Shift, Apart
<1>6. \A u, v \in Threads : u # v /\ c2[u] = c2[v] => c2[u] = 0 BY <1>3 DEF Shift, Apart
<1>7. \A u \in Threads, k \in Keys : c2[u] = h2[k] => c2[u] = 0 BY <1>2, <1>4 DEF Shift, Apart
<1>8. Apart(h2, c2) BY <1>5, <1>6, <1>7 DEF Apart
<1>9. \A n : n # 0 /\ Lives(h2, c2, n) => Lives(h, c, n) \/ n \in {h2[key], c2[t]} BY DEF Shift, Lives
<1> QED BY <1>8, <1>9

\* The value n leaves the key or the goroutine.
Leaves(h, c, h2, c2, key, t, n) ==
    n # 0 /\ n \in {h[key], c[t]} /\ n \notin {h2[key], c2[t]}

(* A value that leaves the key and the goroutine has left the side. *)
LEMMA LeftSide ==
    ASSUME NEW h, NEW c, NEW h2, NEW c2, NEW key \in Keys, NEW t \in Threads, NEW n,
           Shift(h, c, h2, c2, key, t), Leaves(h, c, h2, c2, key, t, n)
    PROVE  ~Lives(h2, c2, n)
BY DEF Shift, Leaves, Apart, Lives

(* An entry that goes takes nothing with it. *)
LEMMA Dropped ==
    ASSUME NEW h, NEW c, NEW h2, Apart(h, c), \A k \in Keys : h2[k] \in {h[k], 0}
    PROVE  Apart(h2, c) /\ \A n : n # 0 /\ Lives(h2, c, n) => Lives(h, c, n)
<1>1. Apart(h2, c)
  <2>1. \A k, l \in Keys : k # l /\ h2[k] = h2[l] => h2[k] = 0 BY DEF Apart
  <2>2. \A u \in Threads, k \in Keys : c[u] = h2[k] => c[u] = 0 BY DEF Apart
  <2> QED BY <2>1, <2>2 DEF Apart
<1> QED BY <1>1 DEF Lives

(* Only values that were written are on a side. *)
LEMMA LivesBound ==
    ASSUME TypeOK, Sides, NEW s \in Stores, NEW n \in Nat, n > stamps
    PROVE  ~LivesAt(s, n)
<1>1. stamps \in Nat BY DEF TypeOK
<1> QED BY <1>1 DEF Sides, LivesAt, Lives

(* The balance of written and taken values is kept when values only go ...    *)
LEMMA BalanceKept ==
    ASSUME TypeOK, Balance, UNCHANGED <<stamps, takes>>,
           \A s \in Stores, n \in 1 .. MaxWrites : LivesAt(s, n)' => LivesAt(s, n)
    PROVE  Balance'
<1> SUFFICES ASSUME NEW n \in 1 .. MaxWrites
             PROVE  /\ n > stamps' => takes'[n] = 0
                    /\ takes'[n] + One(LivesAt("primary", n)') + One(LivesAt("fallback", n)')
                         <= One("primary" \in Present) + One("fallback" \in Present)
  BY DEF Balance, One
<1>1. "primary" \in Stores /\ "fallback" \in Stores /\ takes[n] \in Nat BY DEF Stores, TypeOK
<1>2. /\ LivesAt("primary", n)' => LivesAt("primary", n)
      /\ LivesAt("fallback", n)' => LivesAt("fallback", n)
  BY <1>1
<1> QED BY <1>1, <1>2 DEF Balance, One

(* ... when a new value reaches the stores that are there ...                 *)
LEMMA BalanceNew ==
    ASSUME TypeOK, Sides, Balance, stamps' = stamps + 1, UNCHANGED takes,
           \A s \in Stores, n \in 1 .. MaxWrites :
              LivesAt(s, n)' => LivesAt(s, n) \/ (n = stamps + 1 /\ s \in Present)
    PROVE  Balance'
<1> SUFFICES ASSUME NEW n \in 1 .. MaxWrites
             PROVE  /\ n > stamps' => takes'[n] = 0
                    /\ takes'[n] + One(LivesAt("primary", n)') + One(LivesAt("fallback", n)')
                         <= One("primary" \in Present) + One("fallback" \in Present)
  BY DEF Balance, One
<1>1. /\ "primary" \in Stores /\ "fallback" \in Stores /\ takes[n] \in Nat
      /\ n \in Nat /\ stamps \in Nat
  BY DEF Stores, TypeOK
<1>2. CASE n # stamps + 1
  <2>1. /\ LivesAt("primary", n)' => LivesAt("primary", n)
        /\ LivesAt("fallback", n)' => LivesAt("fallback", n)
    BY <1>1, <1>2
  <2> QED BY <1>1, <1>2, <2>1 DEF Balance, One
<1>3. CASE n = stamps + 1
  <2>1. n > stamps /\ takes[n] = 0 BY <1>1, <1>3 DEF Balance
  <2>2. ~LivesAt("primary", n) /\ ~LivesAt("fallback", n) BY <1>1, <2>1, LivesBound
  <2>3. /\ LivesAt("primary", n)' => "primary" \in Present
        /\ LivesAt("fallback", n)' => "fallback" \in Present
    BY <1>1, <2>2
  <2> QED BY <1>1, <1>3, <2>1, <2>3 DEF One
<1> QED BY <1>2, <1>3

(* ... and when a Take returns a value that leaves its store's side.          *)
LEMMA BalanceTaken ==
    ASSUME TypeOK, Sides, Balance, UNCHANGED stamps, NEW m \in 1 .. MaxWrites, NEW s \in Stores,
           takes' = [takes EXCEPT ![m] = @ + 1], LivesAt(s, m), ~LivesAt(s, m)',
           \A r \in Stores, n \in 1 .. MaxWrites : LivesAt(r, n)' => LivesAt(r, n)
    PROVE  Balance'
<1> SUFFICES ASSUME NEW n \in 1 .. MaxWrites
             PROVE  /\ n > stamps' => takes'[n] = 0
                    /\ takes'[n] + One(LivesAt("primary", n)') + One(LivesAt("fallback", n)')
                         <= One("primary" \in Present) + One("fallback" \in Present)
  BY DEF Balance, One
<1>1. /\ "primary" \in Stores /\ "fallback" \in Stores /\ takes \in [1 .. MaxWrites -> Nat]
      /\ n \in Nat /\ stamps \in Nat /\ takes[n] \in Nat
      /\ takes'[n] = IF n = m THEN takes[n] + 1 ELSE takes[n]
  BY DEF Stores, TypeOK
<1>2. /\ LivesAt("primary", n)' => LivesAt("primary", n)
      /\ LivesAt("fallback", n)' => LivesAt("fallback", n)
  BY <1>1
<1>3. CASE n # m BY <1>1, <1>2, <1>3 DEF Balance, One
<1>4. CASE n = m
  <2>1. ~(n > stamps) BY <1>1, <1>4, LivesBound
  <2>2. CASE s = "primary" BY <1>1, <1>2, <1>4, <2>1, <2>2 DEF Balance, One
  <2>3. CASE s = "fallback" BY <1>1, <1>2, <1>4, <2>1, <2>3 DEF Balance, One
  <2> QED BY <2>2, <2>3 DEF Stores
<1> QED BY <1>3, <1>4

(* What a goroutine carries is a stamp. *)
LEMMA CarriedTypes == \A c \in Calls : TakenAway(c) \in Nat /\ Underway(c) \in Nat
BY InputAssumption DEF Calls, Answers, Requests, TakenAway, Underway

(* An operation that starts takes from the others their claim to be alone,    *)
(* and nothing else.                                                          *)
LEMMA DisturbFacts ==
    ASSUME TypeOK, NEW t \in Threads, NEW op, NEW k, NEW d, d = Disturb(t, op, k)
    PROVE  /\ d \in [Threads -> Calls] /\ d[t] = call[t]
           /\ op \in Reads => d = call
           /\ \A u \in Threads :
                /\ d[u].at = call[u].at /\ d[u].op = call[u].op /\ d[u].q = call[u].q
                /\ d[u].mode = call[u].mode /\ d[u].first = call[u].first
                /\ d[u].clean => call[u].clean
                /\ d[u].clean /\ u # t /\ op \in Writes => ~Changing(u, k)
                /\ TakenAway(d[u]) = TakenAway(call[u]) /\ Underway(d[u]) = Underway(call[u])
<1>1. call \in [Threads -> Calls] BY DEF TypeOK
<1>2. d \in [Threads -> Calls] /\ d[t] = call[t] BY <1>1 DEF Disturb, Calls
<1>3. op \in Reads => op \notin Writes BY DEF Reads, Writes
<1>4. op \in Reads => d = call BY <1>1, <1>3 DEF Disturb
<1>5. ASSUME NEW u \in Threads
      PROVE  /\ d[u].at = call[u].at /\ d[u].op = call[u].op /\ d[u].q = call[u].q
             /\ d[u].mode = call[u].mode /\ d[u].first = call[u].first
             /\ d[u].clean => call[u].clean
             /\ d[u].clean /\ u # t /\ op \in Writes => ~Changing(u, k)
  <2>1. d[u] = IF u # t /\ op \in Writes /\ Changing(u, k)
               THEN [call[u] EXCEPT !.clean = FALSE] ELSE call[u]
    BY DEF Disturb
  <2>2. CASE u # t /\ op \in Writes /\ Changing(u, k)
    <3>1. d[u] = [call[u] EXCEPT !.clean = FALSE] /\ call[u] \in Calls BY <1>1, <2>1, <2>2
    <3>2. /\ d[u].at = call[u].at /\ d[u].op = call[u].op /\ d[u].q = call[u].q
          /\ d[u].mode = call[u].mode /\ d[u].first = call[u].first /\ d[u].clean = FALSE
      BY <3>1 DEF Calls
    <3> QED BY <3>2
  <2>3. CASE ~(u # t /\ op \in Writes /\ Changing(u, k))
    <3>1. d[u] = call[u] BY <2>1, <2>3
    <3> QED BY <2>3, <3>1
  <2> QED BY <2>2, <2>3
<1>6. \A u \in Threads : TakenAway(d[u]) = TakenAway(call[u]) /\ Underway(d[u]) = Underway(call[u])
  BY <1>5 DEF TakenAway, Underway
<1> QED BY <1>2, <1>4, <1>5, <1>6

(* Returning an answer counts a value that Take hands out. *)
LEMMA ReturnFacts ==
    ASSUME TypeOK, NEW t \in Threads, NEW op, NEW r \in Answers, Return(t, op, r),
           op = "Take" /\ r.out = "ok" => r.stamp # 0
    PROVE  /\ ret' \in [Threads -> [out : {"ok", "miss", "error"}, value : Values]]
           /\ takes' \in [1 .. MaxWrites -> Nat]
           /\ IF op = "Take" /\ r.out = "ok"
              THEN r.stamp \in 1 .. MaxWrites /\ takes' = [takes EXCEPT ![r.stamp] = @ + 1]
              ELSE takes' = takes
<1>1. r.out \in {"ok", "miss", "error"} /\ r.value \in Values /\ r.stamp \in 0 .. MaxWrites
  BY DEF Answers
<1>2. r.stamp # 0 => r.stamp \in 1 .. MaxWrites BY <1>1, InputAssumption
<1> QED BY <1>1, <1>2 DEF Return, TypeOK

(* The sides by key and by goroutine, before and after a step. *)
LEMMA SideFacts ==
    /\ \A s \in Stores, k \in Keys : Held(s)[k] = store[s][k].stamp
    /\ \A s \in Stores, k \in Keys : Held(s)'[k] = store'[s][k].stamp
    /\ \A t \in Threads : /\ Carried("primary")[t] = TakenAway(call[t])
                           /\ Carried("fallback")[t] = Underway(call[t])
                           /\ Carried("primary")'[t] = TakenAway(call'[t])
                           /\ Carried("fallback")'[t] = Underway(call'[t])
BY DEF Held, Carried

\* What the primary's answer r to q, and the entry it leaves, may be.
FirstCall(t, q, entry, r, clean) ==
    LET e == store["primary"][q.key]
    IN /\ entry.stamp # 0 \/ entry = Gone
       /\ \/ entry.stamp \in {e.stamp, 0}
          \/ q.op \in {"Set", "Increment"} /\ entry.stamp = q.stamp /\ "primary" \in Present
       /\ q.op \in Reads => entry = e
       /\ q.op = "Take" /\ r.out = "ok" => r.stamp = e.stamp /\ e.stamp # 0 /\ entry = Gone
       /\ q.op = "Increment" /\ r.out = "ok" => r.stamp = q.stamp
       /\ clean => \A u \in Threads \ {t} : ~Changing(u, q.key)
       /\ clean /\ "primary" \in Present =>
             /\ q.op \in {"Take", "Delete"} => entry = Gone
             /\ q.op \in {"Set", "Increment"} => entry.stamp = q.stamp /\ r.out = "ok"

(* An operation starts with a call of the primary, or without one. *)
LEMMA StartCall ==
    ASSUME IInv, NEW t \in Threads, NEW q \in Requests, q.key \in Keys,
           q.op \in {"Set", "Increment"} => q.stamp # 0, Start(t, q)
    PROVE  \E r \in Answers, entry \in Entries, clean \in BOOLEAN :
              /\ Continue(t, q, r, clean)
              /\ FirstCall(t, q, entry, r, clean)
              /\ store' = [store EXCEPT !["primary"][q.key] = entry]
<1>0. /\ TypeOK /\ Proper /\ "primary" \in Stores
      /\ store["primary"][q.key] \in Entries
      /\ store["primary"][q.key].stamp # 0 \/ store["primary"][q.key] = Gone
  BY DEF IInv, TypeOK, Proper, Stores
<1>2. CASE "primary" \in Present
  <2>1. PICK o \in Outcomes("primary", store["primary"][q.key], q) :
               /\ store' = [store EXCEPT !["primary"][q.key] = o.entry]
               /\ Continue(t, q, o.reply, (\A u \in Threads \ {t} : ~Changing(u, q.key))
                                            /\ o.reply.out # "error")
    BY <1>2 DEF Start
  <2>2. PICK clean \in BOOLEAN : clean = ((\A u \in Threads \ {t} : ~Changing(u, q.key))
                                            /\ o.reply.out # "error")
    OBVIOUS
  <2>3. Continue(t, q, o.reply, clean) BY <2>1, <2>2
  <2>4. /\ o.entry \in Entries /\ (o.entry.stamp # 0 \/ o.entry = Gone)
        /\ o.reply \in Answers
        /\ \/ o.entry.stamp \in {store["primary"][q.key].stamp, 0}
           \/ q.op \in {"Set", "Increment"} /\ o.entry.stamp = q.stamp
        /\ q.op \in Reads => o.entry = store["primary"][q.key]
        /\ q.op \in {"Take", "Delete"} /\ o.reply.out # "error" => o.entry = Gone
        /\ q.op \in {"Set", "Increment"} /\ o.reply.out # "error" => o.entry.stamp = q.stamp
        /\ q.op \in {"Set", "Increment", "Delete"} => o.reply.out # "miss"
        /\ q.op = "Take" /\ o.reply.out = "ok"
             => o.reply.stamp = store["primary"][q.key].stamp /\ store["primary"][q.key].stamp # 0
        /\ q.op = "Increment" /\ o.reply.out = "ok" => o.reply.stamp = q.stamp
    BY <1>0, OutcomeFacts
  <2>5. o.reply.out \in {"ok", "miss", "error"} BY <2>4 DEF Answers
  <2>6. FirstCall(t, q, o.entry, o.reply, clean)
    <3>1. clean => o.reply.out # "error" BY <2>2
    <3>2. clean => \A u \in Threads \ {t} : ~Changing(u, q.key) BY <2>2
    <3>3. clean => /\ q.op \in {"Take", "Delete"} => o.entry = Gone
                   /\ q.op \in {"Set", "Increment"} => o.entry.stamp = q.stamp /\ o.reply.out = "ok"
      BY <2>4, <2>5, <3>1
    <3> QED BY <1>2, <2>4, <3>2, <3>3 DEF FirstCall
  <2> QED BY <2>1, <2>3, <2>4, <2>6
<1>3. CASE "primary" \notin Present
  <2>1. Continue(t, q, Nothing(q), \A u \in Threads \ {t} : ~Changing(u, q.key)) /\ UNCHANGED store
    BY <1>3 DEF Start
  <2>2. PICK clean \in BOOLEAN : clean = \A u \in Threads \ {t} : ~Changing(u, q.key)
    OBVIOUS
  <2>3. Continue(t, q, Nothing(q), clean) BY <2>1, <2>2
  <2>4. Nothing(q) \in Answers BY RecordFacts DEF Nothing, Answer, Answers, Entries
  <2>5. store' = [store EXCEPT !["primary"][q.key] = store["primary"][q.key]]
    BY <1>0, <2>1 DEF TypeOK
  <2>6. q.op \in {"Take", "Increment"} => Nothing(q).out = "miss" BY DEF Nothing, Answer
  <2>7. FirstCall(t, q, store["primary"][q.key], Nothing(q), clean)
    <3>1. clean => \A u \in Threads \ {t} : ~Changing(u, q.key) BY <2>2
    <3> QED BY <1>0, <1>3, <2>6, <3>1 DEF FirstCall
  <2> QED BY <1>0, <2>3, <2>4, <2>5, <2>7
<1> QED BY <1>2, <1>3

(* The request of the fallback and the mode that go with the primary's answer. *)
LEMMA RequestFacts ==
    ASSUME NEW q \in Requests, NEW r \in Answers
    PROVE  /\ FallbackRequest(q, r) \in Requests /\ FallbackRequest(q, r).key = q.key
           /\ Mode(q, r) \in {"answer", "mirror", "join"}
           /\ q.op \in Reads => FallbackRequest(q, r) = q /\ Mode(q, r) = "answer"
           /\ q.op \in {"Set", "Delete"} => FallbackRequest(q, r) = q /\ Mode(q, r) = "join"
           /\ q.op \in {"Take", "Increment"} /\ r.out # "ok"
                => FallbackRequest(q, r) = q /\ Mode(q, r) = "answer"
           /\ q.op \in {"Take", "Increment"} /\ r.out = "ok" => Mode(q, r) = "mirror"
           /\ q.op = "Take" /\ r.out = "ok" => FallbackRequest(q, r).op = "Delete"
           /\ q.op = "Increment" /\ r.out = "ok"
                => FallbackRequest(q, r).op = "Set" /\ FallbackRequest(q, r).stamp = r.stamp
<1>0. q.op \in Reads \union Writes /\ q.key \in Keys \union {"none"} BY DEF Requests
<1>1. CASE q.op = "Take" /\ r.out = "ok"
  <2>1. FallbackRequest(q, r) = Request("Delete", q.key, 0, Text) /\ Mode(q, r) = "mirror"
    BY <1>1 DEF FallbackRequest, Mirrors, Mode
  <2>2. Request("Delete", q.key, 0, Text) \in Requests
    BY <1>0, InputAssumption DEF Request, Requests, Values, Reads, Writes
  <2> QED BY <1>1, <2>1, <2>2 DEF Request, Reads
<1>2. CASE q.op = "Increment" /\ r.out = "ok"
  <2>1. FallbackRequest(q, r) = Request("Set", q.key, r.stamp, r.value) /\ Mode(q, r) = "mirror"
    BY <1>2 DEF FallbackRequest, Mirrors, Mode
  <2>2. Request("Set", q.key, r.stamp, r.value) \in Requests
    BY <1>0 DEF Request, Requests, Answers, Reads, Writes
  <2> QED BY <1>2, <2>1, <2>2 DEF Request, Reads
<1>3. CASE ~(q.op \in {"Take", "Increment"} /\ r.out = "ok")
  <2>1. ~Mirrors(q, r) BY <1>3 DEF Mirrors
  <2>2. FallbackRequest(q, r) = q BY <2>1 DEF FallbackRequest
  <2>3. Mode(q, r) = IF q.op \in {"Set", "Delete"} THEN "join" ELSE "answer" BY <2>1 DEF Mode
  <2> QED BY <1>3, <2>2, <2>3 DEF Reads
<1> QED BY <1>1, <1>2, <1>3

(* Get, Exists and TTL leave both stores, and every side, as they are.        *)
LEMMA ReadStart ==
    ASSUME IInv, NEW t \in Threads, NEW q \in Requests, q.key \in Keys, q.op \in Reads,
           Start(t, q), UNCHANGED stamps
    PROVE  IInv'
<1>0. /\ TypeOK /\ Proper /\ Shape /\ Alone /\ SettledAgree /\ Sides /\ Balance
      /\ call[t].at = "idle" /\ q.op \notin Writes /\ q.op \notin {"Set", "Increment"}
  BY DEF IInv, Start, Reads, Writes
<1>1. PICK r \in Answers, entry \in Entries, clean \in BOOLEAN :
         /\ Continue(t, q, r, clean) /\ FirstCall(t, q, entry, r, clean)
         /\ store' = [store EXCEPT !["primary"][q.key] = entry]
  BY <1>0, StartCall
<1>2. store' = store BY <1>0, <1>1 DEF FirstCall, TypeOK
<1>3. PICK d : d = Disturb(t, q.op, q.key) OBVIOUS
<1>4. d = call BY <1>0, <1>3, DisturbFacts
<1>5. /\ settled' = settled /\ takes' = takes
      /\ ret' \in [Threads -> [out : {"ok", "miss", "error"}, value : Values]]
      /\ call' \in [Threads -> Calls] /\ \A u \in Threads \ {t} : call'[u] = call[u]
      /\ \/ call'[t] = call[t]
         \/ /\ call'[t].at = "fallback" /\ call'[t].op = q.op /\ call'[t].q = q
            /\ call'[t].mode = "answer" /\ "fallback" \in Present
  <2>1. CASE Done(q, r) \/ "fallback" \notin Present
    <3>1. call' = call /\ Return(t, q.op, r) /\ settled' = settled
      BY <1>0, <1>1, <1>3, <1>4, <2>1 DEF Continue
    <3>2. q.op # "Take" BY DEF Reads
    <3> QED BY <1>0, <3>1, <3>2, ReturnFacts DEF TypeOK
  <2>2. CASE ~(Done(q, r) \/ "fallback" \notin Present)
    <3>1. PICK c : c = [at |-> "fallback", op |-> q.op, q |-> FallbackRequest(q, r),
                        mode |-> Mode(q, r), first |-> r, clean |-> clean]
      OBVIOUS
    <3>2. call' = [call EXCEPT ![t] = c] /\ settled' = settled /\ UNCHANGED <<ret, takes>>
      BY <1>0, <1>1, <1>3, <1>4, <2>2, <3>1 DEF Continue
    <3>3. /\ c \in Calls /\ c.at = "fallback" /\ c.op = q.op /\ c.q = q /\ c.mode = "answer"
      BY <3>1, RequestFacts DEF Calls, Requests
    <3> QED BY <1>0, <2>2, <3>2, <3>3 DEF TypeOK
  <2> QED BY <2>1, <2>2
<1>6. TypeOK' BY <1>0, <1>2, <1>5 DEF TypeOK
<1>7. Proper' BY <1>0, <1>2 DEF Proper
<1>8. Shape'
  <2>1. q.op \notin {"Set", "Delete", "Take", "Increment"} BY DEF Reads
  <2> QED BY <1>0, <1>5, <2>1 DEF Shape
<1>9. \A u \in Threads, k \in Keys : Changing(u, k)' <=> Changing(u, k)
  BY <1>0, <1>5 DEF Changing
<1>10. Alone'
  <2>1. \A u \in Threads, k \in Keys : Changing(u, k) => call'[u] = call[u]
    BY <1>0, <1>5 DEF Changing
  <2> QED BY <1>0, <1>2, <1>5, <1>9, <2>1 DEF Alone
<1>11. SettledAgree' BY <1>0, <1>2, <1>5 DEF SettledAgree
<1>12. \A s \in Stores : Held(s)' = Held(s) /\ Carried(s)' = Carried(s)
  <2>1. \A u \in Threads : /\ TakenAway(call'[u]) = TakenAway(call[u])
                           /\ Underway(call'[u]) = Underway(call[u])
    BY <1>0, <1>5 DEF TakenAway, Underway, Reads
  <2> QED BY <1>2, <2>1 DEF Held, Carried
<1>13. Sides' BY <1>0, <1>12 DEF Sides, Apart
<1>14. Balance'
  <2>1. \A s \in Stores, n \in 1 .. MaxWrites : LivesAt(s, n)' => LivesAt(s, n)
    BY <1>12 DEF LivesAt, Lives
  <2> QED BY <1>0, <1>5, <2>1, BalanceKept
<1> QED BY <1>6, <1>7, <1>8, <1>10, <1>11, <1>13, <1>14 DEF IInv

(* Set, Take, Increment and Delete: the call of the primary. *)
LEMMA WriteStart ==
    ASSUME IInv, NEW t \in Threads, NEW q \in Requests, q.key \in Keys, q.op \in Writes,
           \/ q.op \in {"Take", "Delete"} /\ q.stamp = 0 /\ UNCHANGED stamps
           \/ /\ q.op \in {"Set", "Increment"} /\ q.stamp = stamps + 1
              /\ stamps < MaxWrites /\ stamps' = stamps + 1,
           Start(t, q)
    PROVE  IInv'
<1>0. /\ TypeOK /\ Proper /\ Shape /\ Alone /\ SettledAgree /\ Sides /\ Balance
      /\ call[t].at = "idle" /\ q.op \notin Reads
      /\ "primary" \in Stores /\ "fallback" \in Stores
      /\ stamps \in Nat /\ stamps' \in 0 .. MaxWrites /\ stamps <= stamps'
      /\ q.op \in {"Set", "Increment"} => q.stamp # 0
  BY InputAssumption DEF IInv, Start, Reads, Writes, Stores, TypeOK
<1>1. PICK r \in Answers, entry \in Entries, clean \in BOOLEAN :
         /\ Continue(t, q, r, clean) /\ FirstCall(t, q, entry, r, clean)
         /\ store' = [store EXCEPT !["primary"][q.key] = entry]
  BY <1>0, StartCall
<1>2. /\ store' \in [Stores -> [Keys -> Entries]]
      /\ store'["primary"][q.key] = entry
      /\ \A k \in Keys : store'["fallback"][k] = store["fallback"][k]
      /\ \A k \in Keys \ {q.key} : store'["primary"][k] = store["primary"][k]
  BY <1>0, <1>1 DEF TypeOK, Stores
<1>3. PICK d : d = Disturb(t, q.op, q.key) OBVIOUS
<1>4. /\ d \in [Threads -> Calls] /\ d[t] = call[t]
      /\ \A u \in Threads :
           /\ d[u].at = call[u].at /\ d[u].op = call[u].op /\ d[u].q = call[u].q
           /\ d[u].mode = call[u].mode /\ d[u].first = call[u].first
           /\ d[u].clean => call[u].clean
           /\ d[u].clean /\ u # t => ~Changing(u, q.key)
           /\ TakenAway(d[u]) = TakenAway(call[u]) /\ Underway(d[u]) = Underway(call[u])
  BY <1>0, <1>3, DisturbFacts
<1>5. r.stamp \in 0 .. MaxWrites /\ q.stamp \in 0 .. MaxWrites BY DEF Answers, Requests
<1>6. CASE "fallback" \notin Present
  <2>1. /\ call' = d /\ Return(t, q.op, r)
        /\ settled' = [settled EXCEPT ![q.key] = IF clean THEN Left(q.op, q, r) ELSE Unknown]
    BY <1>0, <1>1, <1>3, <1>6 DEF Continue, Done
  <2>2. /\ ret' \in [Threads -> [out : {"ok", "miss", "error"}, value : Values]]
        /\ takes' \in [1 .. MaxWrites -> Nat]
        /\ IF q.op = "Take" /\ r.out = "ok"
           THEN r.stamp \in 1 .. MaxWrites /\ takes' = [takes EXCEPT ![r.stamp] = @ + 1]
           ELSE takes' = takes
    BY <1>0, <1>1, <2>1, ReturnFacts DEF FirstCall
  <2>3. PICK left : left = IF clean THEN Left(q.op, q, r) ELSE Unknown OBVIOUS
  <2>4. /\ left \in [known : BOOLEAN, stamp : 0 .. MaxWrites]
        /\ left.known => /\ clean /\ (q.op \in {"Take", "Delete"} => left.stamp = 0)
                         /\ q.op \in {"Set", "Increment"} => left.stamp = q.stamp
    BY <1>5, <2>3, InputAssumption DEF Left, Known, Unknown
  <2>5. TypeOK'
    <3>1. settled' \in [Keys -> [known : BOOLEAN, stamp : 0 .. MaxWrites]]
      BY <1>0, <2>1, <2>3, <2>4 DEF TypeOK
    <3> QED BY <1>0, <1>2, <1>4, <2>1, <2>2, <3>1 DEF TypeOK
  <2>6. Proper' BY <1>0, <1>1, <1>2 DEF Proper, FirstCall, Stores
  <2>7. \A u \in Threads : call'[u].at # "fallback"
    BY <1>0, <1>4, <1>6, <2>1 DEF Shape
  <2>8. Shape' BY <2>7 DEF Shape
  <2>9. Alone' BY <2>7 DEF Alone, Changing
  <2>10. SettledAgree'
    <3> SUFFICES ASSUME NEW k \in Keys, NEW s \in Present, settled'[k].known
                 PROVE  store'[s][k].stamp \in {settled'[k].stamp, 0}
      BY DEF SettledAgree
    <3>1. s = "primary" BY <1>6, StoresAssumption DEF Stores
    <3>2. CASE k # q.key
      BY <1>0, <1>2, <2>1, <3>1, <3>2 DEF SettledAgree, TypeOK
    <3>3. CASE k = q.key
      <4>1. settled'[k] = left BY <1>0, <2>1, <2>3, <3>3 DEF TypeOK
      <4>2. /\ q.op \in {"Take", "Delete"} => entry = Gone
            /\ q.op \in {"Set", "Increment"} => entry.stamp = q.stamp
        BY <1>1, <2>4, <3>1, <4>1 DEF FirstCall
      <4>3. entry.stamp \in {left.stamp, 0}
        BY <2>4, <4>1, <4>2, RecordFacts DEF Writes
      <4> QED BY <1>2, <3>1, <3>3, <4>1, <4>3
    <3> QED BY <3>2, <3>3
  <2>11. /\ \A u \in Threads : Carried("primary")'[u] = 0 /\ Carried("fallback")'[u] = 0
         /\ \A u \in Threads : Carried("primary")[u] = 0 /\ Carried("fallback")[u] = 0
    BY <1>0, <1>4, <1>6, <2>7, SideFacts DEF TakenAway, Underway, Shape
  <2>12. PICK h, h2, c, c2 : /\ h = Held("primary") /\ h2 = Held("primary")'
                             /\ c = Carried("primary") /\ c2 = Carried("primary")'
    OBVIOUS
  <2>13. /\ h2[q.key] = entry.stamp /\ h[q.key] = store["primary"][q.key].stamp
         /\ \A k \in Keys \ {q.key} : h2[k] = h[k]
         /\ \A u \in Threads : c2[u] = 0 /\ c[u] = 0
         /\ \A n : LivesAt("primary", n) <=> Lives(h, c, n)
         /\ \A n : LivesAt("primary", n)' <=> Lives(h2, c2, n)
         /\ Apart(h, c)
    BY <1>0, <1>2, <2>11, <2>12, SideFacts DEF LivesAt, Sides
  <2>14. \/ h2[q.key] \in {0, h[q.key]}
         \/ /\ q.op \in {"Set", "Increment"} /\ h2[q.key] = stamps + 1 /\ "primary" \in Present
            /\ ~Lives(h, c, h2[q.key])
    <3>1. ~LivesAt("primary", stamps + 1) BY <1>0, LivesBound
    <3> QED BY <1>1, <2>13, <3>1 DEF FirstCall
  <2>15. /\ Apart(h2, c2)
         /\ \A n : n # 0 /\ Lives(h2, c2, n) => Lives(h, c, n) \/ n = h2[q.key]
         /\ \A n : n # 0 /\ n = h[q.key] /\ n # h2[q.key] => ~Lives(h2, c2, n)
    <3>1. Shift(h, c, h2, c2, q.key, t) BY <2>13, <2>14 DEF Shift
    <3>2. /\ Apart(h2, c2)
          /\ \A n : n # 0 /\ Lives(h2, c2, n) => Lives(h, c, n) \/ n \in {h2[q.key], c2[t]}
      BY <3>1, Moved
    <3>3. ASSUME NEW n, n # 0, n = h[q.key], n # h2[q.key] PROVE ~Lives(h2, c2, n)
      <4>1. Leaves(h, c, h2, c2, q.key, t, n) BY <2>13, <3>3 DEF Leaves
      <4> QED BY <3>1, <4>1, LeftSide
    <3> QED BY <2>13, <3>2, <3>3
  <2>16. /\ Held("fallback")' = Held("fallback") /\ Carried("fallback")' = Carried("fallback")
    <3>1. \A k \in Keys : store'["fallback"][k].stamp = store["fallback"][k].stamp BY <1>2
    <3>2. \A u \in Threads : Underway(call'[u]) = Underway(call[u]) BY <1>4, <2>1
    <3> QED BY <3>1, <3>2 DEF Held, Carried
  <2>17. Sides'
    <3>1. \A k \in Keys : h[k] <= stamps BY <1>0, <2>12 DEF Sides
    <3>2. \A k \in Keys : h[k] \in Nat BY <1>0, <2>12, SideFacts DEF TypeOK, Entries
    <3>6. h2[q.key] <= stamps' BY <1>0, <2>14, <3>1, <3>2
    <3>3. \A k \in Keys : h2[k] <= stamps' BY <1>0, <2>13, <3>1, <3>2, <3>6
    <3>4. \A k \in Keys : Held("fallback")[k] \in Nat BY <1>0, SideFacts DEF TypeOK, Entries
    <3>5. /\ Apart(Held("fallback")', Carried("fallback")')
          /\ \A k \in Keys : Held("fallback")'[k] <= stamps'
      BY <1>0, <2>16, <3>4 DEF Sides
    <3> QED BY <1>0, <2>11, <2>12, <2>15, <3>3, <3>5 DEF Sides, Stores
  <2>18. \A n \in 1 .. MaxWrites :
           /\ LivesAt("fallback", n)' => LivesAt("fallback", n)
           /\ LivesAt("primary", n)' => LivesAt("primary", n) \/ (n = stamps + 1 /\ n = h2[q.key])
    <3>1. \A n \in 1 .. MaxWrites : Lives(h, c, n) \/ n # h2[q.key] \/ n = stamps + 1
      BY <2>14 DEF Lives
    <3> QED BY <2>13, <2>15, <2>16, <3>1 DEF LivesAt
  <2>19. Balance'
    <3>1. CASE q.op \in {"Set", "Increment"}
      <4>1. takes' = takes /\ stamps' = stamps + 1 BY <2>2, <3>1
      <4>2. ASSUME NEW s \in Stores, NEW n \in 1 .. MaxWrites, LivesAt(s, n)'
            PROVE  LivesAt(s, n) \/ (n = stamps + 1 /\ s \in Present)
        <5>1. h[q.key] <= stamps /\ h[q.key] \in Nat
          BY <1>0, <2>12, SideFacts DEF Sides, TypeOK, Entries
        <5>2. h2[q.key] = stamps + 1 => "primary" \in Present BY <1>0, <2>14, <5>1
        <5> QED BY <2>18, <4>2, <5>2 DEF Stores
      <4> QED BY <1>0, <4>1, <4>2, BalanceNew
    <3>2. CASE q.op \notin {"Set", "Increment"}
      <4>1. stamps' = stamps /\ h2[q.key] \in {0, h[q.key]} BY <2>14, <3>2
      <4>2. \A s \in Stores, n \in 1 .. MaxWrites : LivesAt(s, n)' => LivesAt(s, n)
        <5>1. h[q.key] \in Nat /\ h[q.key] <= stamps
          BY <1>0, <2>12, SideFacts DEF Sides, TypeOK, Entries
        <5> QED BY <1>0, <2>18, <4>1, <5>1 DEF Stores
      <4>3. CASE q.op = "Take" /\ r.out = "ok"
        <5>1. r.stamp = h[q.key] /\ r.stamp # 0 /\ h2[q.key] = 0
          BY <1>1, <2>13, <4>3, RecordFacts DEF FirstCall
        <5>2. LivesAt("primary", r.stamp) /\ ~LivesAt("primary", r.stamp)'
          BY <2>13, <2>15, <5>1 DEF Lives
        <5>3. r.stamp \in 1 .. MaxWrites /\ takes' = [takes EXCEPT ![r.stamp] = @ + 1]
          BY <2>2, <4>3
        <5> QED BY <1>0, <4>1, <4>2, <5>2, <5>3, BalanceTaken
      <4>4. CASE ~(q.op = "Take" /\ r.out = "ok")
        BY <1>0, <2>2, <4>1, <4>2, <4>4, BalanceKept
      <4> QED BY <4>3, <4>4
    <3> QED BY <3>1, <3>2
  <2> QED BY <2>5, <2>6, <2>8, <2>9, <2>10, <2>17, <2>19 DEF IInv
<1>7. CASE "fallback" \in Present
  <2>1. PICK c : c = [at |-> "fallback", op |-> q.op, q |-> FallbackRequest(q, r),
                      mode |-> Mode(q, r), first |-> r, clean |-> clean]
    OBVIOUS
  <2>2. /\ call' = [d EXCEPT ![t] = c] /\ takes' = takes /\ ret' = ret
        /\ settled' = [settled EXCEPT ![q.key] = Unknown]
    BY <1>0, <1>1, <1>3, <1>7, <2>1 DEF Continue, Done
  <2>3. /\ c \in Calls /\ c.at = "fallback" /\ c.op = q.op /\ c.first = r /\ c.q.key = q.key
        /\ c.q \in Requests /\ c.clean = clean
        /\ c.q = FallbackRequest(q, r) /\ c.mode = Mode(q, r)
    BY <2>1, RequestFacts DEF Calls, Requests
  <2>4. /\ c.op \in {"Set", "Delete"} => c.q = q /\ c.mode = "join"
        /\ c.op \in {"Take", "Increment"} =>
              \/ c.mode = "answer" /\ c.q = q /\ r.out # "ok"
              \/ /\ c.mode = "mirror" /\ r.out = "ok"
                 /\ c.q.op = IF c.op = "Take" THEN "Delete" ELSE "Set"
                 /\ c.op = "Increment" => c.q.stamp = q.stamp
    BY <1>1, <2>3, RequestFacts DEF FirstCall
  <2>5. /\ c.q.op \in {"Set", "Increment"} <=> q.op \in {"Set", "Increment"}
        /\ q.op \in {"Set", "Increment"} => c.q.stamp = q.stamp
    BY <2>3, <2>4 DEF Writes
  <2>6. /\ call' \in [Threads -> Calls] /\ call'[t] = c
        /\ \A u \in Threads \ {t} : call'[u] = d[u]
    BY <1>4, <2>2, <2>3
  <2>7. settled' \in [Keys -> [known : BOOLEAN, stamp : 0 .. MaxWrites]]
        /\ ~settled'[q.key].known /\ \A k \in Keys \ {q.key} : settled'[k] = settled[k]
    BY <1>0, <2>2, InputAssumption DEF TypeOK, Unknown
  <2>8. TypeOK' BY <1>0, <1>2, <2>2, <2>6, <2>7 DEF TypeOK
  <2>9. Proper' BY <1>0, <1>1, <1>2 DEF Proper, FirstCall, Stores
  <2>10. Shape'
    <3>1. ASSUME NEW u \in Threads \ {t}
          PROVE  /\ call'[u].at = call[u].at /\ call'[u].op = call[u].op /\ call'[u].q = call[u].q
                 /\ call'[u].mode = call[u].mode /\ call'[u].first = call[u].first
      BY <1>4, <2>6
    <3>2. c.op = "Take" /\ c.mode = "mirror" => c.first.stamp # 0
      BY <1>1, <2>3, <2>4 DEF FirstCall
    <3>3. c.op \in Writes /\ c.op \notin Reads BY <1>0, <2>3
    <3>4. c.q.key \in Keys /\ (c.q.op \in {"Set", "Increment"} => c.q.stamp # 0)
      BY <1>0, <2>3, <2>5
    <3> QED BY <1>0, <1>7, <2>3, <2>4, <2>6, <3>1, <3>2, <3>3, <3>4 DEF Shape
  <2>11. /\ \A u \in Threads \ {t}, k \in Keys : Changing(u, k)' <=> Changing(u, k)
         /\ \A k \in Keys : Changing(t, k)' <=> k = q.key
    BY <1>4, <2>3, <2>6 DEF Changing
  <2>12. Alone'
    <3>1. ASSUME NEW k \in Keys, Changing(t, k)'
          PROVE  /\ ~settled'[k].known
                 /\ call'[t].clean =>
                     /\ \A v \in Threads : Changing(v, k)' => v = t
                     /\ "primary" \in Present =>
                          store'["primary"][k].stamp \in
                            {0} \union IF call'[t].op \in {"Take", "Delete"} THEN {}
                                       ELSE {call'[t].q.stamp}
                     /\ "primary" \in Present /\ call'[t].op = "Increment" => call'[t].mode = "mirror"
      <4>1. k = q.key BY <2>11, <3>1
      <4>2. clean => \A v \in Threads : Changing(v, k)' => v = t
        BY <1>1, <2>11, <4>1 DEF FirstCall
      <4>3. clean /\ "primary" \in Present =>
              /\ q.op \in {"Take", "Delete"} => entry.stamp = 0
              /\ q.op \in {"Set", "Increment"} => entry.stamp = c.q.stamp /\ r.out = "ok"
        BY <1>1, <2>5, RecordFacts DEF FirstCall
      <4>4. store'["primary"][k] = entry BY <1>2, <4>1
      <4> QED BY <2>3, <2>4, <2>6, <2>7, <4>1, <4>2, <4>3, <4>4 DEF Writes
    <3>2. ASSUME NEW u \in Threads \ {t}, NEW k \in Keys, Changing(u, k)'
          PROVE  /\ ~settled'[k].known
                 /\ call'[u].clean =>
                     /\ \A v \in Threads : Changing(v, k)' => v = u
                     /\ "primary" \in Present =>
                          store'["primary"][k].stamp \in
                            {0} \union IF call'[u].op \in {"Take", "Delete"} THEN {}
                                       ELSE {call'[u].q.stamp}
                     /\ "primary" \in Present /\ call'[u].op = "Increment" => call'[u].mode = "mirror"
      <4>1. Changing(u, k) /\ ~settled[k].known BY <1>0, <2>11, <3>2 DEF Alone
      <4>2. ~settled'[k].known BY <2>7, <4>1
      <4>3. CASE call'[u].clean
        <5>1. /\ call[u].clean /\ ~Changing(u, q.key) /\ call'[u].op = call[u].op
              /\ call'[u].q = call[u].q /\ call'[u].mode = call[u].mode
          BY <1>4, <2>6, <4>3
        <5>2. k # q.key BY <4>1, <5>1
        <5>3. \A v \in Threads : Changing(v, k)' => Changing(v, k) BY <2>11, <5>2
        <5>4. store'["primary"][k] = store["primary"][k] BY <1>2, <5>2
        <5> QED BY <1>0, <4>1, <4>2, <5>1, <5>3, <5>4 DEF Alone
      <4> QED BY <4>2, <4>3
    <3> QED BY <3>1, <3>2 DEF Alone
  <2>13. SettledAgree'
    <3> SUFFICES ASSUME NEW k \in Keys, NEW s \in Present, settled'[k].known
                 PROVE  store'[s][k].stamp \in {settled'[k].stamp, 0}
      BY DEF SettledAgree
    <3>1. k # q.key BY <2>7
    <3>2. s \in Stores BY StoresAssumption
    <3> QED BY <1>0, <1>2, <2>7, <3>1, <3>2 DEF SettledAgree, Stores
  <2>14. PICK h, h2, a, a2, g, g2, b, b2 :
           /\ h = Held("primary") /\ h2 = Held("primary")'
           /\ a = Carried("primary") /\ a2 = Carried("primary")'
           /\ g = Held("fallback") /\ g2 = Held("fallback")'
           /\ b = Carried("fallback") /\ b2 = Carried("fallback")'
    OBVIOUS
  <2>15. /\ h2[q.key] = entry.stamp /\ h[q.key] = store["primary"][q.key].stamp
         /\ \A k \in Keys \ {q.key} : h2[k] = h[k]
         /\ \A k \in Keys : g2[k] = g[k]
         /\ \A u \in Threads \ {t} : a2[u] = a[u] /\ b2[u] = b[u]
         /\ a2[t] = TakenAway(c) /\ b2[t] = Underway(c)
    <3>1. /\ \A k \in Keys : h[k] = store["primary"][k].stamp /\ h2[k] = store'["primary"][k].stamp
          /\ \A k \in Keys : g[k] = store["fallback"][k].stamp /\ g2[k] = store'["fallback"][k].stamp
          /\ \A u \in Threads : a[u] = TakenAway(call[u]) /\ a2[u] = TakenAway(call'[u])
          /\ \A u \in Threads : b[u] = Underway(call[u]) /\ b2[u] = Underway(call'[u])
      BY <1>0, <2>14, SideFacts
    <3>2. \A u \in Threads \ {t} : /\ TakenAway(call'[u]) = TakenAway(call[u])
                                    /\ Underway(call'[u]) = Underway(call[u])
      BY <1>4, <2>6
    <3> QED BY <1>2, <2>6, <3>1, <3>2
  <2>16. /\ \A k \in Keys : h[k] \in 0 .. stamps /\ g[k] \in 0 .. stamps
         /\ \A u \in Threads : a[u] <= stamps /\ b[u] <= stamps
         /\ Apart(h, a) /\ Apart(g, b)
         /\ ~Lives(h, a, stamps + 1) /\ ~Lives(g, b, stamps + 1)
    <3>1. ~LivesAt("primary", stamps + 1) /\ ~LivesAt("fallback", stamps + 1)
      BY <1>0, LivesBound
    <3>2. \A k \in Keys : h[k] \in Nat /\ g[k] \in Nat
      BY <1>0, <2>14, SideFacts DEF TypeOK, Entries
    <3> QED BY <1>0, <2>14, <3>1, <3>2 DEF Sides, LivesAt
  <2>17. /\ h2[q.key] \in {0, h[q.key]}
            \/ (q.op \in {"Set", "Increment"} /\ h2[q.key] = stamps + 1 /\ "primary" \in Present)
         /\ a2[t] = 0 \/ (a2[t] = h[q.key] /\ h2[q.key] = 0)
    <3>1. TakenAway(c) # 0 => q.op = "Take" /\ r.out = "ok" /\ TakenAway(c) = r.stamp
      BY <2>3, <2>4 DEF TakenAway
    <3> QED BY <1>1, <2>15, <3>1, RecordFacts DEF FirstCall
  <2>18. b2[t] = IF q.op \in {"Set", "Increment"} THEN stamps + 1 ELSE 0
    BY <2>3, <2>5, <2>15 DEF Underway
  <2>19. /\ Apart(h2, a2)
         /\ \A n : n # 0 /\ Lives(h2, a2, n) => Lives(h, a, n) \/ n \in {h2[q.key], a2[t]}
    <3>1. h2[q.key] \in {0, h[q.key], a[t]} \/ ~Lives(h, a, h2[q.key]) BY <2>16, <2>17
    <3>2. a2[t] \in {0, h[q.key], a[t]} \/ ~Lives(h, a, a2[t]) BY <2>17
    <3>3. h2[q.key] = a2[t] => h2[q.key] = 0 BY <2>17
    <3>4. /\ Apart(h, a) /\ \A k \in Keys \ {q.key} : h2[k] = h[k]
          /\ \A u \in Threads \ {t} : a2[u] = a[u]
      BY <2>15, <2>16
    <3>5. Shift(h, a, h2, a2, q.key, t) BY <3>1, <3>2, <3>3, <3>4 DEF Shift
    <3> QED BY <3>5, Moved
  <2>20. /\ Apart(g2, b2)
         /\ \A n : n # 0 /\ Lives(g2, b2, n) => Lives(g, b, n) \/ n \in {g2[q.key], b2[t]}
    <3>1. g2[q.key] = b2[t] => g2[q.key] = 0 BY <1>0, <2>15, <2>16, <2>18
    <3>2. g2[q.key] \in {0, g[q.key], b[t]} BY <2>15
    <3>3. b2[t] \in {0, g[q.key], b[t]} \/ ~Lives(g, b, b2[t]) BY <2>16, <2>18
    <3>4. /\ Apart(g, b) /\ \A k \in Keys \ {q.key} : g2[k] = g[k]
          /\ \A u \in Threads \ {t} : b2[u] = b[u]
      BY <2>15, <2>16
    <3>5. Shift(g, b, g2, b2, q.key, t) BY <3>1, <3>2, <3>3, <3>4 DEF Shift
    <3> QED BY <3>5, Moved
  <2>21. Sides'
    <3>1. \A k \in Keys : h2[k] <= stamps' /\ g2[k] <= stamps'
      <4>1. \A k \in Keys : h[k] <= stamps' /\ g[k] <= stamps' BY <1>0, <2>16
      <4>2. h2[q.key] <= stamps' BY <1>0, <2>16, <2>17
      <4> QED BY <2>15, <4>1, <4>2
    <3>2. \A u \in Threads : a2[u] <= stamps' /\ b2[u] <= stamps'
      <4>1. \A u \in Threads : a[u] \in Nat /\ b[u] \in Nat
        <5>1. \A u \in Threads : TakenAway(call[u]) \in Nat /\ Underway(call[u]) \in Nat
          BY <1>0, CarriedTypes DEF TypeOK
        <5> QED BY <2>14, <5>1, SideFacts
      <4>2. \A u \in Threads : a[u] <= stamps' /\ b[u] <= stamps' BY <1>0, <2>16, <4>1
      <4>3. a2[t] <= stamps' /\ b2[t] <= stamps' BY <1>0, <2>16, <2>17, <2>18
      <4> QED BY <2>15, <4>2, <4>3
    <3> QED BY <2>14, <2>19, <2>20, <3>1, <3>2 DEF Sides, Stores
  <2>22. ASSUME NEW s \in Stores, NEW n \in 1 .. MaxWrites, LivesAt(s, n)'
         PROVE  \/ LivesAt(s, n)
                \/ q.op \in {"Set", "Increment"} /\ n = stamps + 1 /\ s \in Present
    <3>1. CASE s = "primary"
      <4>1. Lives(h2, a2, n) BY <2>14, <2>22, <3>1 DEF LivesAt
      <4>2. Lives(h, a, n) \/ n \in {h2[q.key], a2[t]} BY <2>19, <4>1
      <4>3. \/ Lives(h, a, n)
            \/ q.op \in {"Set", "Increment"} /\ n = stamps + 1 /\ "primary" \in Present
        BY <2>17, <4>2 DEF Lives
      <4> QED BY <2>14, <3>1, <4>3 DEF LivesAt
    <3>2. CASE s = "fallback"
      <4>1. Lives(g2, b2, n) BY <2>14, <2>22, <3>2 DEF LivesAt
      <4>2. Lives(g, b, n) \/ n \in {g2[q.key], b2[t]} BY <2>20, <4>1
      <4>3. Lives(g, b, n) \/ (q.op \in {"Set", "Increment"} /\ n = stamps + 1)
        BY <2>15, <2>18, <4>2 DEF Lives
      <4> QED BY <1>7, <2>14, <3>2, <4>3 DEF LivesAt
    <3> QED BY <3>1, <3>2 DEF Stores
  <2>23. Balance'
    <3>1. CASE q.op \in {"Set", "Increment"}
      <4>1. stamps' = stamps + 1 BY <3>1
      <4> QED BY <1>0, <2>2, <2>22, <4>1, BalanceNew
    <3>2. CASE q.op \notin {"Set", "Increment"}
      <4>1. stamps' = stamps BY <3>2
      <4> QED BY <1>0, <2>2, <2>22, <3>2, <4>1, BalanceKept
    <3> QED BY <3>1, <3>2
  <2> QED BY <2>8, <2>9, <2>10, <2>12, <2>13, <2>21, <2>23 DEF IInv
<1> QED BY <1>6, <1>7

(* The call of the fallback, and the return of the operation. *)
LEMMA FallbackStep ==
    ASSUME IInv, NEW t \in Threads, CallFallback(t)
    PROVE  IInv'
<1>0. /\ TypeOK /\ Proper /\ Shape /\ Alone /\ SettledAgree /\ Sides /\ Balance
      /\ "primary" \in Stores /\ "fallback" \in Stores
      /\ stamps' = stamps /\ stamps \in Nat /\ call[t].at = "fallback"
  BY DEF IInv, CallFallback, Stores, TypeOK
<1>1. PICK c, key : c = call[t] /\ key = call[t].q.key OBVIOUS
<1>2. /\ c \in Calls /\ c.q \in Requests /\ c.first \in Answers /\ c.q.key = key /\ key \in Keys
      /\ c.op \in Reads \union Writes
      /\ c.op \in Reads => c.q.op = c.op /\ c.mode = "answer"
      /\ c.op \in {"Set", "Delete"} => c.q.op = c.op /\ c.mode = "join"
      /\ c.op \in {"Take", "Increment"} =>
            \/ c.mode = "answer" /\ c.q.op = c.op
            \/ /\ c.mode = "mirror" /\ c.first.out = "ok"
               /\ c.q.op = IF c.op = "Take" THEN "Delete" ELSE "Set"
      /\ c.q.op \in {"Set", "Increment"} => c.q.stamp # 0
      /\ c.op = "Take" /\ c.mode = "mirror" => c.first.stamp # 0
  BY <1>0, <1>1 DEF TypeOK, Calls, Shape
<1>3. PICK e \in Entries : e = store["fallback"][key] /\ (e.stamp # 0 \/ e = Gone)
  BY <1>0, <1>2 DEF TypeOK, Proper
<1>4. PICK o \in Outcomes("fallback", e, c.q) :
         /\ store' = [store EXCEPT !["fallback"][key] = o.entry]
         /\ call' = [call EXCEPT ![t] = Idle]
         /\ Return(t, c.op, Combine(c.mode, c.first, o.reply))
         /\ settled' = IF c.op \in Writes /\ c.clean /\ o.reply.out # "error"
                       THEN [settled EXCEPT ![key] =
                               Left(c.op, c.q, Combine(c.mode, c.first, o.reply))]
                       ELSE settled
  BY <1>1, <1>3 DEF CallFallback
<1>5. /\ o.entry \in Entries /\ (o.entry.stamp # 0 \/ o.entry = Gone)
      /\ o.reply \in Answers
      /\ o.entry.stamp \in {e.stamp, 0} \/ (c.q.op \in {"Set", "Increment"} /\ o.entry.stamp = c.q.stamp)
      /\ c.q.op \in Reads => o.entry = e
      /\ c.q.op \in {"Take", "Delete"} /\ o.reply.out # "error" => o.entry = Gone
      /\ c.q.op \in {"Set", "Increment"} /\ o.reply.out # "error" => o.entry.stamp = c.q.stamp
      /\ c.q.op = "Take" /\ o.reply.out = "ok" => o.reply.stamp = e.stamp /\ e.stamp # 0
  BY <1>2, <1>3, OutcomeFacts
<1>6. PICK x : x = Combine(c.mode, c.first, o.reply) OBVIOUS
<1>7. /\ x \in Answers
      /\ c.mode = "mirror" => x = c.first
      /\ c.mode = "answer" => x = o.reply
  <2>1. c.mode \in {"join", "mirror", "answer"} BY <1>2 DEF Calls
  <2>2. Join(c.first, o.reply) \in Answers BY <1>5, RecordFacts DEF Join
  <2> QED BY <1>2, <1>5, <1>6, <2>1, <2>2 DEF Combine
<1>8. c.op = "Take" /\ x.out = "ok" =>
        \/ c.mode = "mirror" /\ x.stamp = c.first.stamp /\ x.stamp # 0
        \/ c.mode = "answer" /\ x.stamp = e.stamp /\ x.stamp # 0 /\ o.entry = Gone
  BY <1>2, <1>5, <1>7
<1>9. /\ ret' \in [Threads -> [out : {"ok", "miss", "error"}, value : Values]]
      /\ takes' \in [1 .. MaxWrites -> Nat]
      /\ IF c.op = "Take" /\ x.out = "ok"
         THEN x.stamp \in 1 .. MaxWrites /\ takes' = [takes EXCEPT ![x.stamp] = @ + 1]
         ELSE takes' = takes
  BY <1>0, <1>4, <1>6, <1>7, <1>8, ReturnFacts
<1>10. /\ store' \in [Stores -> [Keys -> Entries]] /\ store'["fallback"][key] = o.entry
       /\ \A k \in Keys : store'["primary"][k] = store["primary"][k]
       /\ \A k \in Keys \ {key} : store'["fallback"][k] = store["fallback"][k]
  BY <1>0, <1>2, <1>4, <1>5 DEF TypeOK, Stores
<1>11. /\ call' \in [Threads -> Calls] /\ call'[t] = Idle /\ call'[t].at = "idle"
       /\ \A u \in Threads \ {t} : call'[u] = call[u]
  BY <1>0, <1>4, RecordFacts DEF TypeOK
<1>12. PICK left : left = Left(c.op, c.q, x) OBVIOUS
<1>13. /\ left \in [known : BOOLEAN, stamp : 0 .. MaxWrites]
       /\ c.op \in {"Take", "Delete"} => left.stamp = 0
       /\ c.op \in {"Set", "Increment"} /\ left.known => left.stamp = c.q.stamp
  <2>1. c.q.stamp \in 0 .. MaxWrites BY <1>2 DEF Requests
  <2> QED BY <1>12, <2>1, InputAssumption DEF Left, Known, Unknown
<1>14. /\ settled' \in [Keys -> [known : BOOLEAN, stamp : 0 .. MaxWrites]]
       /\ \A k \in Keys \ {key} : settled'[k] = settled[k]
       /\ IF c.op \in Writes /\ c.clean /\ o.reply.out # "error"
          THEN settled'[key] = left ELSE settled'[key] = settled[key]
  BY <1>0, <1>2, <1>4, <1>6, <1>12, <1>13 DEF TypeOK
<1>15. TypeOK' BY <1>0, <1>9, <1>10, <1>11, <1>14 DEF TypeOK
<1>16. Proper' BY <1>0, <1>5, <1>10 DEF Proper, Stores
<1>17. Shape' BY <1>0, <1>11 DEF Shape
<1>18. /\ \A u \in Threads \ {t}, k \in Keys : Changing(u, k)' <=> Changing(u, k)
       /\ \A k \in Keys : ~Changing(t, k)'
       /\ \A k \in Keys : Changing(t, k) <=> c.op \in Writes /\ k = key
  BY <1>0, <1>1, <1>11 DEF Changing
<1>19. c.op \in Writes => ~settled[key].known BY <1>0, <1>2, <1>18 DEF Alone
<1>20. c.op \in Writes /\ c.clean =>
         /\ \A u \in Threads : Changing(u, key) => u = t
         /\ "primary" \in Present =>
              store["primary"][key].stamp \in
                {0} \union IF c.op \in {"Take", "Delete"} THEN {} ELSE {c.q.stamp}
  BY <1>0, <1>1, <1>2, <1>18 DEF Alone
<1>21. Alone'
  <2> SUFFICES ASSUME NEW u \in Threads, NEW k \in Keys, Changing(u, k)'
               PROVE  /\ ~settled'[k].known
                      /\ call'[u].clean =>
                          /\ \A v \in Threads : Changing(v, k)' => v = u
                          /\ "primary" \in Present =>
                               store'["primary"][k].stamp \in
                                 {0} \union IF call'[u].op \in {"Take", "Delete"} THEN {}
                                            ELSE {call'[u].q.stamp}
                          /\ "primary" \in Present /\ call'[u].op = "Increment"
                               => call'[u].mode = "mirror"
    BY DEF Alone
  <2>1. u # t /\ Changing(u, k) /\ call'[u] = call[u] BY <1>11, <1>18
  <2>2. ~settled[k].known BY <1>0, <2>1 DEF Alone
  <2>3. ~settled'[k].known
    <3>1. CASE k # key BY <1>14, <2>2, <3>1
    <3>2. CASE k = key BY <1>14, <1>20, <2>1, <2>2, <3>2
    <3> QED BY <3>1, <3>2
  <2>4. \A v \in Threads : Changing(v, k)' => Changing(v, k) BY <1>18
  <2>5. store'["primary"][k] = store["primary"][k] BY <1>10
  <2> QED BY <1>0, <2>1, <2>3, <2>4, <2>5 DEF Alone
<1>22. SettledAgree'
  <2> SUFFICES ASSUME NEW k \in Keys, NEW s \in Present, settled'[k].known
               PROVE  store'[s][k].stamp \in {settled'[k].stamp, 0}
    BY DEF SettledAgree
  <2>0. s \in {"primary", "fallback"} BY StoresAssumption DEF Stores
  <2>1. CASE k # key
    BY <1>0, <1>10, <1>14, <2>0, <2>1 DEF SettledAgree
  <2>2. CASE k = key /\ c.op \in Reads
    <3>1. o.entry = e /\ c.op \notin Writes BY <1>2, <1>5, <2>2 DEF Reads, Writes
    <3>2. settled'[k] = settled[k] BY <1>14, <2>2, <3>1
    <3>3. store'[s][k] = store[s][k] BY <1>2, <1>3, <1>10, <2>0, <2>2, <3>1
    <3> QED BY <1>0, <3>2, <3>3 DEF SettledAgree
  <2>3. CASE k = key /\ c.op \in Writes
    <3>1. c.clean /\ o.reply.out # "error" /\ settled'[k] = left
      BY <1>14, <1>19, <2>3
    <3>2. c.op \in {"Take", "Delete"} \/ c.op \in {"Set", "Increment"} BY <2>3 DEF Writes
    <3>3. c.op \in {"Take", "Delete"} => o.entry.stamp = 0
      BY <1>2, <1>5, <3>1, RecordFacts
    <3>4. c.op \in {"Set", "Increment"} => o.entry.stamp = c.q.stamp
      BY <1>2, <1>5, <3>1
    <3>5. CASE s = "fallback" BY <1>10, <1>13, <2>3, <3>1, <3>2, <3>3, <3>4, <3>5
    <3>6. CASE s = "primary" BY <1>10, <1>13, <1>20, <2>3, <3>1, <3>2, <3>6
    <3> QED BY <2>0, <3>5, <3>6
  <2> QED BY <1>2, <2>1, <2>2, <2>3
<1>23. PICK h, h2, a, a2, g, g2, b, b2 :
         /\ h = Held("primary") /\ h2 = Held("primary")'
         /\ a = Carried("primary") /\ a2 = Carried("primary")'
         /\ g = Held("fallback") /\ g2 = Held("fallback")'
         /\ b = Carried("fallback") /\ b2 = Carried("fallback")'
  OBVIOUS
<1>24. /\ g2[key] = o.entry.stamp /\ g[key] = e.stamp
       /\ \A k \in Keys \ {key} : g2[k] = g[k]
       /\ \A k \in Keys : h2[k] = h[k]
       /\ \A u \in Threads \ {t} : a2[u] = a[u]
       /\ \A u \in Threads \ {t} : b2[u] = b[u]
       /\ a2[t] = 0 /\ b2[t] = 0 /\ a[t] = TakenAway(c) /\ b[t] = Underway(c)
  <2>1. /\ \A k \in Keys : h[k] = store["primary"][k].stamp /\ h2[k] = store'["primary"][k].stamp
        /\ \A k \in Keys : g[k] = store["fallback"][k].stamp /\ g2[k] = store'["fallback"][k].stamp
        /\ \A u \in Threads : a[u] = TakenAway(call[u]) /\ a2[u] = TakenAway(call'[u])
        /\ \A u \in Threads : b[u] = Underway(call[u]) /\ b2[u] = Underway(call'[u])
    BY <1>0, <1>23, SideFacts
  <2>2. g2[key] = o.entry.stamp /\ g[key] = e.stamp
    BY <1>2, <1>3, <1>10, <2>1
  <2>3. \A k \in Keys : h2[k] = h[k] BY <1>10, <2>1
  <2>4. ASSUME NEW k \in Keys \ {key} PROVE g2[k] = g[k] BY <1>10, <2>1
  <2>5. ASSUME NEW u \in Threads \ {t} PROVE a2[u] = a[u] /\ b2[u] = b[u]
    BY <1>11, <2>1
  <2>6. a2[t] = 0 /\ b2[t] = 0 /\ a[t] = TakenAway(c) /\ b[t] = Underway(c)
    BY <1>1, <1>11, <2>1, RecordFacts
  <2> QED BY <2>2, <2>3, <2>4, <2>5, <2>6
<1>25. /\ Apart(h, a) /\ Apart(g, b)
       /\ \A k \in Keys : h[k] <= stamps /\ g[k] <= stamps
       /\ \A u \in Threads : a[u] <= stamps /\ b[u] <= stamps
  BY <1>0, <1>23 DEF Sides
<1>26. Shift(h, a, h2, a2, key, t)
  BY <1>2, <1>24, <1>25 DEF Shift
<1>27. g2[key] \in {0, g[key], b[t]}
  BY <1>0, <1>1, <1>5, <1>24 DEF Underway
<1>28. Shift(g, b, g2, b2, key, t) BY <1>24, <1>25, <1>27 DEF Shift
<1>29. /\ Apart(h2, a2)
       /\ \A n : n # 0 /\ Lives(h2, a2, n) => Lives(h, a, n) \/ n \in {h2[key], a2[t]}
  BY <1>2, <1>26, Moved
<1>30. /\ Apart(g2, b2)
       /\ \A n : n # 0 /\ Lives(g2, b2, n) => Lives(g, b, n) \/ n \in {g2[key], b2[t]}
  BY <1>2, <1>28, Moved
<1>31. Sides'
  <2>1. \A k \in Keys : h2[k] <= stamps /\ g2[k] <= stamps
    BY <1>0, <1>24, <1>25, <1>27
  <2>2. \A u \in Threads : a2[u] <= stamps /\ b2[u] <= stamps BY <1>0, <1>24, <1>25
  <2> QED BY <1>0, <1>23, <1>29, <1>30, <2>1, <2>2 DEF Sides, Stores
<1>32. ASSUME NEW s \in Stores, NEW n \in 1 .. MaxWrites, LivesAt(s, n)' PROVE LivesAt(s, n)
  <2>1. CASE s = "primary"
    <3>1. Lives(h2, a2, n) BY <1>23, <1>32, <2>1 DEF LivesAt
    <3>2. Lives(h, a, n) \/ n \in {h2[key], a2[t]} BY <1>29, <3>1
    <3>3. Lives(h, a, n) BY <1>2, <1>24, <3>2 DEF Lives
    <3> QED BY <1>23, <2>1, <3>3 DEF LivesAt
  <2>2. CASE s = "fallback"
    <3>1. Lives(g2, b2, n) BY <1>23, <1>32, <2>2 DEF LivesAt
    <3>2. Lives(g, b, n) \/ n \in {g2[key], b2[t]} BY <1>30, <3>1
    <3>3. Lives(g, b, n) BY <1>2, <1>24, <1>27, <3>2 DEF Lives
    <3> QED BY <1>23, <2>2, <3>3 DEF LivesAt
  <2> QED BY <2>1, <2>2 DEF Stores
<1>33. Balance'
  <2>1. CASE ~(c.op = "Take" /\ x.out = "ok") BY <1>0, <1>9, <1>32, <2>1, BalanceKept
  <2>2. CASE c.op = "Take" /\ x.out = "ok" /\ c.mode = "mirror"
    <3>1. a[t] = x.stamp /\ x.stamp # 0 BY <1>0, <1>1, <1>7, <1>8, <1>24, <2>2 DEF TakenAway
    <3>2. h[key] # x.stamp BY <1>2, <1>25, <3>1 DEF Apart
    <3>3. Leaves(h, a, h2, a2, key, t, x.stamp) BY <1>2, <1>24, <3>1, <3>2 DEF Leaves
    <3>4. ~Lives(h2, a2, x.stamp) BY <1>2, <1>26, <3>3, LeftSide
    <3>5. Lives(h, a, x.stamp) BY <3>1 DEF Lives
    <3>6. LivesAt("primary", x.stamp) /\ ~LivesAt("primary", x.stamp)'
      BY <1>23, <3>4, <3>5 DEF LivesAt
    <3> QED BY <1>0, <1>9, <1>32, <2>2, <3>6, BalanceTaken
  <2>3. CASE c.op = "Take" /\ x.out = "ok" /\ c.mode # "mirror"
    <3>1. g[key] = x.stamp /\ x.stamp # 0 /\ g2[key] = 0
      BY <1>8, <1>24, <2>3, RecordFacts
    <3>2. Leaves(g, b, g2, b2, key, t, x.stamp) BY <1>24, <3>1 DEF Leaves
    <3>3. ~Lives(g2, b2, x.stamp) BY <1>2, <1>28, <3>2, LeftSide
    <3>4. Lives(g, b, x.stamp) BY <1>2, <3>1 DEF Lives
    <3>5. LivesAt("fallback", x.stamp) /\ ~LivesAt("fallback", x.stamp)'
      BY <1>23, <3>3, <3>4 DEF LivesAt
    <3> QED BY <1>0, <1>9, <1>32, <2>3, <3>5, BalanceTaken
  <2> QED BY <2>1, <2>2, <2>3
<1> QED BY <1>15, <1>16, <1>17, <1>21, <1>22, <1>31, <1>33 DEF IInv

(* An entry goes from one store. *)
LEMMA EvictStep ==
    ASSUME IInv, NEW s \in Stores, NEW k \in Keys, Evict(s, k)
    PROVE  IInv'
<1>0. /\ TypeOK /\ Proper /\ Shape /\ Alone /\ SettledAgree /\ Sides /\ Balance
      /\ call' = call /\ ret' = ret /\ stamps' = stamps /\ takes' = takes /\ settled' = settled
      /\ stamps \in Nat
  BY DEF IInv, Evict, TypeOK
<1>1. /\ store' \in [Stores -> [Keys -> Entries]]
      /\ \A r \in Stores, l \in Keys : store'[r][l] = store[r][l] \/ store'[r][l] = Gone
  BY <1>0, RecordFacts DEF Evict, TypeOK
<1>2. TypeOK' BY <1>0, <1>1 DEF TypeOK
<1>3. Proper' BY <1>0, <1>1 DEF Proper
<1>4. Shape' BY <1>0 DEF Shape
<1>5. \A r \in Stores, l \in Keys : store'[r][l].stamp \in {store[r][l].stamp, 0}
  BY <1>1, RecordFacts
<1>6. Alone'
  <2>1. \A u \in Threads, l \in Keys : Changing(u, l)' <=> Changing(u, l) BY <1>0 DEF Changing
  <2>2. \A l \in Keys : store'["primary"][l].stamp \in {store["primary"][l].stamp, 0}
    BY <1>5 DEF Stores
  <2> QED BY <1>0, <2>1, <2>2 DEF Alone
<1>7. SettledAgree' BY <1>0, <1>5, StoresAssumption DEF SettledAgree
<1>8. Carried("primary")' = Carried("primary") /\ Carried("fallback")' = Carried("fallback")
  BY <1>0 DEF Carried
<1>9. ASSUME NEW r \in Stores
      PROVE  /\ Apart(Held(r)', Carried(r)') /\ \A n : n # 0 /\ LivesAt(r, n)' => LivesAt(r, n)
             /\ \A l \in Keys : Held(r)'[l] <= stamps
             /\ \A u \in Threads : Carried(r)'[u] <= stamps
  <2>1. PICK h, h2, c : h = Held(r) /\ h2 = Held(r)' /\ c = Carried(r) /\ c = Carried(r)'
    BY <1>8 DEF Stores
  <2>2. Apart(h, c) /\ \A l \in Keys : h2[l] \in {h[l], 0}
    BY <1>0, <1>5, <2>1, SideFacts DEF Sides
  <2>3. Apart(h2, c) /\ \A n : n # 0 /\ Lives(h2, c, n) => Lives(h, c, n) BY <2>2, Dropped
  <2>4. \A l \in Keys : h2[l] <= stamps BY <1>0, <2>1, <2>2 DEF Sides
  <2>5. \A u \in Threads : c[u] <= stamps BY <1>0, <2>1 DEF Sides
  <2> QED BY <2>1, <2>3, <2>4, <2>5 DEF LivesAt
<1>10. Sides' BY <1>0, <1>9 DEF Sides
<1>11. Balance' BY <1>0, <1>9, BalanceKept
<1> QED BY <1>2, <1>3, <1>4, <1>6, <1>7, <1>10, <1>11 DEF IInv

(* Both stores are empty. *)
LEMMA IInvInit == Init => IInv
<1> SUFFICES ASSUME Init PROVE IInv
  OBVIOUS
<1>1. /\ \A s \in Stores, k \in Keys : store[s][k] = Gone /\ store[s][k].stamp = 0
      /\ \A t \in Threads : call[t] = Idle /\ call[t].at = "idle"
      /\ stamps = 0
  BY RecordFacts DEF Init
<1>2. TypeOK
  <2>1. [out |-> "ok", value |-> Text] \in [out : {"ok", "miss", "error"}, value : Values]
    BY DEF Values
  <2>2. Known(0) \in [known : BOOLEAN, stamp : 0 .. MaxWrites] BY InputAssumption DEF Known
  <2> QED BY <2>1, <2>2, RecordFacts, InputAssumption DEF Init, TypeOK
<1>3. Proper /\ Shape /\ Alone BY <1>1 DEF Proper, Shape, Alone, Changing
<1>4. SettledAgree BY <1>1, StoresAssumption DEF SettledAgree
<1>5. ASSUME NEW s \in Stores
      PROVE  /\ \A k \in Keys : Held(s)[k] = 0
             /\ \A t \in Threads : Carried(s)[t] = 0
  BY <1>1, RecordFacts, SideFacts DEF Stores
<1>6. Sides BY <1>1, <1>5 DEF Sides, Apart
<1>7. Balance
  <2> SUFFICES ASSUME NEW n \in 1 .. MaxWrites
               PROVE  /\ n > stamps => takes[n] = 0
                      /\ takes[n] + One(LivesAt("primary", n)) + One(LivesAt("fallback", n))
                           <= One("primary" \in Present) + One("fallback" \in Present)
    BY DEF Balance
  <2>1. ~LivesAt("primary", n) /\ ~LivesAt("fallback", n)
    BY <1>5 DEF LivesAt, Lives, Stores
  <2>2. takes[n] = 0 BY DEF Init
  <2> QED BY <2>1, <2>2 DEF One
<1> QED BY <1>2, <1>3, <1>4, <1>6, <1>7 DEF IInv

(* Every step keeps the inductive invariant: one case per action. *)
LEMMA IInvStep == IInv /\ [Next]_vars => IInv'
<1> SUFFICES ASSUME IInv, [Next]_vars PROVE IInv'
  OBVIOUS
<1>0. stamps \in Nat /\ MaxWrites \in Nat BY InputAssumption DEF IInv, TypeOK
<1>1. CASE UNCHANGED vars
  <2>0. /\ store' = store /\ call' = call /\ ret' = ret /\ stamps' = stamps /\ takes' = takes
        /\ settled' = settled
    BY <1>1 DEF vars
  <2>1. TypeOK' /\ Proper' /\ Shape' /\ SettledAgree'
    BY <2>0 DEF IInv, TypeOK, Proper, Shape, SettledAgree
  <2>2. Alone' BY <2>0 DEF IInv, Alone, Changing
  <2>3. Sides' BY <2>0 DEF IInv, Sides, Apart, Held, Carried
  <2>4. \A s \in Stores, n \in 1 .. MaxWrites : LivesAt(s, n)' => LivesAt(s, n)
    BY <2>0 DEF LivesAt, Lives, Held, Carried
  <2>5. Balance' BY <2>0, <2>4, BalanceKept DEF IInv
  <2> QED BY <2>1, <2>2, <2>3, <2>5 DEF IInv
<1>2. ASSUME NEW t \in Threads, NEW k \in Keys, Get(t, k) \/ Exists(t, k) \/ TTL(t, k) PROVE IInv'
  <2>1. PICK q : /\ \E op \in Reads : q = Request(op, k, 0, Text)
                 /\ Start(t, q) /\ UNCHANGED stamps
    BY <1>2 DEF Get, Exists, TTL, Reads
  <2>2. q \in Requests /\ q.key = k /\ q.op \in Reads
    BY <1>0, <2>1 DEF Request, Requests, Values
  <2> QED BY <2>1, <2>2, ReadStart
<1>3. ASSUME NEW t \in Threads, NEW k \in Keys, Take(t, k) \/ Delete(t, k) PROVE IInv'
  <2>1. PICK q : /\ \E op \in {"Take", "Delete"} : q = Request(op, k, 0, Text)
                 /\ Start(t, q) /\ UNCHANGED stamps
    BY <1>3 DEF Take, Delete
  <2>2. q \in Requests /\ q.key = k /\ q.op \in {"Take", "Delete"} /\ q.op \in Writes /\ q.stamp = 0
    BY <1>0, <2>1 DEF Request, Requests, Values, Writes
  <2> QED BY <2>1, <2>2, WriteStart
<1>4. ASSUME NEW t \in Threads, NEW k \in Keys, NEW v \in Inputs, Set(t, k, v) PROVE IInv'
  <2>1. PICK q : q = Request("Set", k, stamps + 1, v) OBVIOUS
  <2>2. stamps + 1 \in 0 .. MaxWrites /\ v \in Values BY <1>0, <1>4, InputAssumption DEF Set
  <2>3. /\ q \in Requests /\ q.key = k /\ q.op = "Set" /\ q.op \in Writes /\ q.stamp = stamps + 1
    BY <2>1, <2>2 DEF Request, Requests, Writes
  <2> QED BY <1>4, <2>1, <2>3, WriteStart DEF Set
<1>5. ASSUME NEW t \in Threads, NEW k \in Keys, Increment(t, k) PROVE IInv'
  <2>1. PICK q : q = Request("Increment", k, stamps + 1, 0) OBVIOUS
  <2>2. stamps + 1 \in 0 .. MaxWrites /\ 0 \in Values
    BY <1>0, <1>5, RangeAssumption DEF Increment, Values, Int64
  <2>3. /\ q \in Requests /\ q.key = k /\ q.op = "Increment" /\ q.op \in Writes
        /\ q.stamp = stamps + 1
    BY <2>1, <2>2 DEF Request, Requests, Writes
  <2> QED BY <1>5, <2>1, <2>3, WriteStart DEF Increment
<1>6. ASSUME NEW t \in Threads, CallFallback(t) PROVE IInv' BY <1>6, FallbackStep
<1>7. ASSUME NEW s \in Stores, NEW k \in Keys, Evict(s, k) PROVE IInv' BY <1>7, EvictStep
<1> QED BY <1>1, <1>2, <1>3, <1>4, <1>5, <1>6, <1>7 DEF Next

(* The number of stores that are not nil, as a sum over the two. *)
LEMMA PresentCount ==
    Cardinality(Present) = One("primary" \in Present) + One("fallback" \in Present)
<1>1. Cardinality({}) = 0 /\ Cardinality({"primary"}) = 1 /\ Cardinality({"fallback"}) = 1
  BY FS_EmptySet, FS_Singleton
<1>2. Cardinality({"primary", "fallback"}) = 2
  <2>1. IsFiniteSet({"primary"}) /\ "fallback" \notin {"primary"} BY FS_Singleton
  <2>2. Cardinality({"primary"} \union {"fallback"}) = Cardinality({"primary"}) + 1
    BY <2>1, FS_AddElement
  <2>3. {"primary"} \union {"fallback"} = {"primary", "fallback"} OBVIOUS
  <2> QED BY <1>1, <2>2, <2>3
<1>3. \/ Present = {} \/ Present = {"primary"} \/ Present = {"fallback"}
      \/ Present = {"primary", "fallback"}
  BY StoresAssumption DEF Stores
<1> QED BY <1>1, <1>2, <1>3 DEF One

(* Where every written value is, and what every undisturbed operation left,   *)
(* in every reachable state.                                                  *)
THEOREM IInvHolds == Spec => []IInv
BY IInvInit, IInvStep, PTL DEF Spec

(* Types, for every run of fallback.go. *)
THEOREM TypeOKHolds == Spec => []TypeOK
<1>1. IInv => TypeOK BY DEF IInv
<1> QED BY <1>1, IInvHolds, PTL

(* After an operation that nobody overlapped and no store failed, both stores *)
(* hold its value or nothing, whatever other goroutines and keys do.          *)
THEOREM SettledAgreeHolds == Spec => []SettledAgree
<1>1. IInv => SettledAgree BY DEF IInv
<1> QED BY <1>1, IInvHolds, PTL

(* A value is taken at most once from each store that is there, for every     *)
(* number of goroutines, keys and writes, and whatever call fails.            *)
THEOREM OncePerStoreHolds == Spec => []OncePerStore
<1>1. IInv => OncePerStore
  <2> SUFFICES ASSUME IInv, NEW n \in DOMAIN takes PROVE takes[n] <= Cardinality(Present)
    BY DEF OncePerStore
  <2>1. n \in 1 .. MaxWrites /\ takes[n] \in Nat BY DEF IInv, TypeOK
  <2>2. takes[n] + One(LivesAt("primary", n)) + One(LivesAt("fallback", n))
          <= One("primary" \in Present) + One("fallback" \in Present)
    BY <2>1 DEF IInv, Balance
  <2> QED BY <2>1, <2>2, PresentCount DEF One
<1> QED BY <1>1, IInvHolds, PTL
=============================================================================
