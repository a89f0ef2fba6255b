--------------------------- MODULE StorageProofs ---------------------------
(* Storage, for every set of goroutines, disks and names and every bound.     *)
(* First what cleaning a name computes, for names of every length: the        *)
(* induction over the segments is one over a set of positions, which the      *)
(* least number principle supports.  Then the goroutines and their files.     *)
EXTENDS Storage, FiniteSetTheorems, WellFoundedInduction, TLAPS

-----------------------------------------------------------------------------
(* Names: the walk of path.Clean.                                             *)

(* Every non-empty set of natural numbers has a least element. *)
LEMMA LeastNat ==
    ASSUME NEW T, T \subseteq Nat, T # {}
    PROVE  \E x \in T : \A y \in T : x <= y
<1>1. PICK R : R = OpToRel(<, Nat) OBVIOUS
<1>2. \A x, y \in Nat : x < y => <<x, y>> \in R BY <1>1 DEF OpToRel
<1>3. IsWellFoundedOn(R, Nat) BY <1>1, NatLessThanWellFounded
<1>4. PICK x \in T : \A y \in T : ~(<<y, x>> \in R) BY <1>3, WFMin
<1>5. ASSUME NEW y \in T PROVE x <= y
  <2>1. x \in Nat /\ y \in Nat OBVIOUS
  <2>2. ~(y < x) BY <1>2, <1>4, <2>1
  <2> QED BY <2>1, <2>2
<1> QED BY <1>5

(* So a set of positions that has the first and, with each, the next has all. *)
LEMMA AllPositions ==
    ASSUME NEW n \in Nat, NEW S, 0 \in S, \A i \in 0 .. n : i < n /\ i \in S => i + 1 \in S
    PROVE  0 .. n \subseteq S
<1>1. PICK T : T = {i \in 0 .. n : i \notin S} OBVIOUS
<1>2. CASE T = {} BY <1>1, <1>2
<1>3. CASE T # {}
  <2>1. T \subseteq Nat BY <1>1
  <2>2. PICK x \in T : \A y \in T : x <= y BY <1>3, <2>1, LeastNat
  <2>3. x \in 0 .. n /\ x # 0 /\ x \notin S BY <1>1
  <2>4. x - 1 \in 0 .. n /\ x - 1 < n /\ x - 1 + 1 = x /\ ~(x <= x - 1) BY <2>3
  <2>5. x - 1 \in S BY <1>1, <2>2, <2>4
  <2> QED BY <2>3, <2>4, <2>5
<1> QED BY <1>2, <1>3

\* What path.Clean has kept after each of the segments.
Steps(rooted, segs, w) ==
    /\ w = [i \in 0 .. Len(segs) |-> IF i = 0 THEN <<>> ELSE Walk(rooted, w[i - 1], segs[i])]

(* A walk through the first n segments exists. *)
LEMMA WalkExists ==
    ASSUME NEW rooted, NEW segs, Len(segs) \in Nat
    PROVE  \E w : Steps(rooted, segs, w)
<1> DEFINE Upto(n, w) == w = [i \in 0 .. n |-> IF i = 0 THEN <<>>
                                               ELSE Walk(rooted, w[i - 1], segs[i])]
           S == {n \in Nat : \E w : Upto(n, w)}
<1>1. 0 \in S
  <2>1. Upto(0, [i \in 0 .. 0 |-> <<>>]) OBVIOUS
  <2> QED BY <2>1
<1>2. ASSUME NEW n \in Nat, n \in S PROVE n + 1 \in S
  <2>1. PICK w : Upto(n, w) BY <1>2
  <2>2. PICK v : v = [i \in 0 .. n + 1 |-> IF i = n + 1 THEN Walk(rooted, w[n], segs[n + 1])
                                           ELSE w[i]]
    OBVIOUS
  <2>3. \A i \in 0 .. n + 1 : i = n + 1 \/ i \in 0 .. n OBVIOUS
  <2>4. ASSUME NEW i \in 0 .. n + 1
        PROVE  v[i] = IF i = 0 THEN <<>> ELSE Walk(rooted, v[i - 1], segs[i])
    <3>1. CASE i = n + 1
      <4>1. i # 0 /\ i - 1 = n /\ n \in 0 .. n + 1 /\ n # n + 1 BY <3>1
      <4>2. v[i - 1] = w[n] BY <2>2, <4>1
      <4> QED BY <2>2, <3>1, <4>1, <4>2
    <3>2. CASE i # n + 1 /\ i = 0
      <4>1. v[i] = w[i] /\ i \in 0 .. n BY <2>2, <3>2
      <4> QED BY <2>1, <3>2, <4>1
    <3>3. CASE i # n + 1 /\ i # 0
      <4>1. i \in 0 .. n /\ i - 1 \in 0 .. n + 1 /\ i - 1 # n + 1 BY <3>3
      <4>2. v[i] = w[i] /\ v[i - 1] = w[i - 1] BY <2>2, <3>3, <4>1
      <4> QED BY <2>1, <3>3, <4>1, <4>2
    <3> QED BY <3>1, <3>2, <3>3
  <2>5. Upto(n + 1, v) BY <2>2, <2>4
  <2> QED BY <2>5
<1>3. 0 .. Len(segs) \subseteq S BY <1>1, <1>2, AllPositions
<1>4. Len(segs) \in S BY <1>3
<1> QED BY <1>4 DEF Steps

(* Clean is where the walk ends. *)
LEMMA CleanWalks ==
    ASSUME NEW rooted, NEW segs, Len(segs) \in Nat
    PROVE  \E w : Steps(rooted, segs, w) /\ Clean(rooted, segs) = w[Len(segs)]
<1>1. PICK w : w = CHOOSE v : Steps(rooted, segs, v) OBVIOUS
<1>2. Steps(rooted, segs, w) BY <1>1, WalkExists
<1>3. Clean(rooted, segs) = w[Len(segs)] BY <1>1 DEF Clean, Steps
<1> QED BY <1>2, <1>3
-----------------------------------------------------------------------------
(* The reference walk, one segment after the other.                           *)

\* How a segment changes the level.
Climbs(seg) == CASE seg = "." -> 0 [] seg = ".." -> 0 - 1 [] OTHER -> 1

\* The lowest level that a walk has been on after i segments.
Lowest(segs, i) == Min({Level(segs, j) : j \in 0 .. i})

(* One more position in a count of positions. *)
LEMMA CountSteps ==
    ASSUME NEW i \in Nat, NEW A, NEW B, B \subseteq 1 .. i,
           A = B \/ A = B \union {i + 1}
    PROVE  /\ Cardinality(B) \in Nat
           /\ Cardinality(A) = IF i + 1 \in A THEN Cardinality(B) + 1 ELSE Cardinality(B)
<1>1. IsFiniteSet(1 .. i) BY FS_Interval
<1>2. IsFiniteSet(B) BY <1>1, FS_Subset
<1>3. Cardinality(B) \in Nat BY <1>2, FS_CardinalityType
<1>4. i + 1 \notin B
  <2>1. i + 1 \notin 1 .. i OBVIOUS
  <2> QED BY <2>1
<1>5. CASE A = B BY <1>3, <1>4, <1>5
<1>6. CASE A = B \union {i + 1} BY <1>2, <1>3, <1>4, <1>6, FS_AddElement
<1> QED BY <1>5, <1>6

(* Levels start at 0 and change with every segment. *)
LEMMA LevelSteps ==
    ASSUME NEW segs, NEW i \in Nat
    PROVE  /\ Level(segs, 0) = 0 /\ Level(segs, i) \in Int
           /\ Level(segs, i + 1) = Level(segs, i) + Climbs(segs[i + 1])
<1> DEFINE Down(n) == {j \in 1 .. n : segs[j] \notin {".", ".."}}
           Up(n) == {j \in 1 .. n : segs[j] = ".."}
<1>1. Level(segs, 0) = 0
  <2>1. Down(0) = {} /\ Up(0) = {} OBVIOUS
  <2> QED BY <2>1, FS_EmptySet DEF Level
<1>2. 1 .. i + 1 = (1 .. i) \union {i + 1} OBVIOUS
<1>3. i + 1 \in Down(i + 1) <=> segs[i + 1] \notin {".", ".."} BY <1>2
<1>4. i + 1 \in Up(i + 1) <=> segs[i + 1] = ".." BY <1>2
<1>5. /\ Cardinality(Down(i)) \in Nat
      /\ Cardinality(Down(i + 1)) = IF segs[i + 1] \notin {".", ".."}
                                    THEN Cardinality(Down(i)) + 1 ELSE Cardinality(Down(i))
  <2>1. Down(i) \subseteq 1 .. i OBVIOUS
  <2>2. Down(i + 1) = Down(i) \/ Down(i + 1) = Down(i) \union {i + 1} BY <1>2
  <2> HIDE DEF Down
  <2> QED BY <1>3, <2>1, <2>2, CountSteps
<1>6. /\ Cardinality(Up(i)) \in Nat
      /\ Cardinality(Up(i + 1)) = IF segs[i + 1] = ".." THEN Cardinality(Up(i)) + 1
                                  ELSE Cardinality(Up(i))
  <2>1. Up(i) \subseteq 1 .. i OBVIOUS
  <2>2. Up(i + 1) = Up(i) \/ Up(i + 1) = Up(i) \union {i + 1} BY <1>2
  <2> HIDE DEF Up
  <2> QED BY <1>4, <2>1, <2>2, CountSteps
<1>7. \A n : Level(segs, n) = Cardinality(Down(n)) - Cardinality(Up(n)) BY DEF Level
<1> HIDE DEF Down, Up
<1>8. CASE segs[i + 1] = "." BY <1>1, <1>5, <1>6, <1>7, <1>8 DEF Climbs
<1>9. CASE segs[i + 1] = ".." BY <1>1, <1>5, <1>6, <1>7, <1>9 DEF Climbs
<1>10. CASE segs[i + 1] \notin {".", ".."} BY <1>1, <1>5, <1>6, <1>7, <1>10 DEF Climbs
<1> QED BY <1>8, <1>9, <1>10

\* m is the least number of S.
IsLeast(m, S) == m \in S /\ \A y \in S : m <= y

(* What Min chooses. *)
LEMMA MinIsLeast ==
    ASSUME NEW S, S \subseteq Int, NEW m, IsLeast(m, S)
    PROVE  Min(S) = m
<1>1. IsLeast(Min(S), S) BY DEF Min, IsLeast
<1>2. Min(S) \in Int /\ m \in Int /\ m <= Min(S) /\ Min(S) <= m BY <1>1 DEF IsLeast
<1> QED BY <1>2

(* The lowest level so far. *)
LEMMA LowestSteps ==
    ASSUME NEW segs, NEW n \in Nat
    PROVE  /\ Lowest(segs, 0) = 0
           /\ \A i \in 0 .. n :
                 /\ Lowest(segs, i) \in Int /\ Lowest(segs, i) <= 0
                 /\ IsLeast(Lowest(segs, i), {Level(segs, j) : j \in 0 .. i})
                 /\ Lowest(segs, i + 1) = IF Level(segs, i + 1) < Lowest(segs, i)
                                          THEN Level(segs, i + 1) ELSE Lowest(segs, i)
<1> DEFINE L(i) == {Level(segs, j) : j \in 0 .. i}
           S == {i \in 0 .. n + 1 : IsLeast(Lowest(segs, i), L(i))}
<1>1. \A i \in Nat : L(i) \subseteq Int /\ Level(segs, i) \in Int BY LevelSteps
<1>2. L(0) = {0}
  <2>1. 0 .. 0 = {0} OBVIOUS
  <2> QED BY <2>1, LevelSteps
<1>3. Lowest(segs, 0) = 0
  <2>1. IsLeast(0, L(0)) BY <1>2 DEF IsLeast
  <2> QED BY <2>1, <1>1, MinIsLeast DEF Lowest
<1>4. 0 \in S BY <1>2, <1>3 DEF IsLeast
<1>5. ASSUME NEW i \in Nat, IsLeast(Lowest(segs, i), L(i))
      PROVE  /\ IsLeast(Lowest(segs, i + 1), L(i + 1))
             /\ Lowest(segs, i + 1) = IF Level(segs, i + 1) < Lowest(segs, i)
                                      THEN Level(segs, i + 1) ELSE Lowest(segs, i)
  <2>1. L(i + 1) = L(i) \union {Level(segs, i + 1)}
    <3>1. 0 .. i + 1 = (0 .. i) \union {i + 1} OBVIOUS
    <3> QED BY <3>1
  <2>2. PICK m : m = IF Level(segs, i + 1) < Lowest(segs, i) THEN Level(segs, i + 1)
                     ELSE Lowest(segs, i)
    OBVIOUS
  <2>3. /\ Level(segs, i + 1) \in Int /\ L(i) \subseteq Int /\ L(i + 1) \subseteq Int
        /\ Lowest(segs, i) \in Int
    BY <1>1, <1>5 DEF IsLeast
  <2> HIDE DEF L
  <2>4. IsLeast(m, L(i + 1)) BY <1>5, <2>1, <2>2, <2>3 DEF IsLeast
  <2>5. Lowest(segs, i + 1) = m BY <2>3, <2>4, MinIsLeast DEF Lowest, L
  <2> QED BY <2>2, <2>4, <2>5
<1>6. \A i \in 0 .. n + 1 : i < n + 1 /\ i \in S => i + 1 \in S BY <1>5
<1>7. 0 .. n + 1 \subseteq S
  <2> HIDE DEF S
  <2> QED BY <1>4, <1>6, AllPositions
<1>8. ASSUME NEW i \in 0 .. n
      PROVE  /\ Lowest(segs, i) \in Int /\ Lowest(segs, i) <= 0
             /\ IsLeast(Lowest(segs, i), L(i))
  <2>1. IsLeast(Lowest(segs, i), L(i)) BY <1>7
  <2>2. 0 \in L(i)
    <3>1. 0 \in 0 .. i /\ Level(segs, 0) = 0 BY LevelSteps
    <3> QED BY <3>1
  <2>3. L(i) \subseteq Int BY <1>1
  <2> HIDE DEF L
  <2> QED BY <2>1, <2>2, <2>3 DEF IsLeast
<1>9. ASSUME NEW i \in 0 .. n
      PROVE  Lowest(segs, i + 1) = IF Level(segs, i + 1) < Lowest(segs, i)
                                   THEN Level(segs, i + 1) ELSE Lowest(segs, i)
  <2>1. IsLeast(Lowest(segs, i), L(i)) BY <1>8
  <2> HIDE DEF L
  <2> QED BY <2>1, <1>5
<1> QED BY <1>3, <1>8, <1>9

(* A walk that cannot leave its start upwards: a name leads one deeper, ".."  *)
(* one back up, but never above the start.                                    *)
LEMMA DepthSteps ==
    ASSUME NEW segs, NEW i \in Nat
    PROVE  /\ Depth(segs, 0) = 0 /\ Depth(segs, i) \in Nat
           /\ segs[i + 1] = "." => /\ Depth(segs, i + 1) = Depth(segs, i)
                                   /\ Lowest(segs, i + 1) = Lowest(segs, i)
           /\ segs[i + 1] = ".." /\ Depth(segs, i) > 0 =>
                 /\ Depth(segs, i + 1) = Depth(segs, i) - 1
                 /\ Lowest(segs, i + 1) = Lowest(segs, i)
           /\ segs[i + 1] = ".." /\ Depth(segs, i) = 0 =>
                 /\ Depth(segs, i + 1) = 0
                 /\ Lowest(segs, i + 1) = Lowest(segs, i) - 1
           /\ segs[i + 1] \notin {".", ".."} =>
                 /\ Depth(segs, i + 1) = Depth(segs, i) + 1
                 /\ Lowest(segs, i + 1) = Lowest(segs, i)
<1>1. \A n \in Nat : Depth(segs, n) = Level(segs, n) - Lowest(segs, n) BY DEF Depth, Lowest
<1>2. /\ Level(segs, 0) = 0 /\ Level(segs, i) \in Int
      /\ Level(segs, i + 1) = Level(segs, i) + Climbs(segs[i + 1])
  BY LevelSteps
<1>3. /\ Lowest(segs, 0) = 0 /\ Lowest(segs, i) \in Int
      /\ Lowest(segs, i) <= Level(segs, i)
      /\ Lowest(segs, i + 1) = IF Level(segs, i + 1) < Lowest(segs, i)
                               THEN Level(segs, i + 1) ELSE Lowest(segs, i)
  <2>1. i \in 0 .. i OBVIOUS
  <2>2. Level(segs, i) \in {Level(segs, j) : j \in 0 .. i} BY <2>1
  <2>3. IsLeast(Lowest(segs, i), {Level(segs, j) : j \in 0 .. i}) BY <2>1, LowestSteps
  <2>4. Lowest(segs, i) <= Level(segs, i) BY <2>2, <2>3 DEF IsLeast
  <2> QED BY <2>1, <2>4, LowestSteps
<1>4. Depth(segs, 0) = 0 /\ Depth(segs, i) \in Nat BY <1>1, <1>2, <1>3
<1>5. CASE segs[i + 1] = "." BY <1>1, <1>2, <1>3, <1>4, <1>5 DEF Climbs
<1>6. CASE segs[i + 1] = ".." BY <1>1, <1>2, <1>3, <1>4, <1>6 DEF Climbs
<1>7. CASE segs[i + 1] \notin {".", ".."} BY <1>1, <1>2, <1>3, <1>4, <1>7 DEF Climbs
<1> QED BY <1>4, <1>5, <1>6, <1>7
\* The segments that a walk of i segments has not taken back.
Stays(segs, i) ==
    {s \in 1 .. i : /\ segs[s] \notin {".", ".."}
                    /\ \A j \in s .. i : Depth(segs, j) >= Depth(segs, s)}

(* A name stays as long as the walk is not above it.  *)
LEMMA StaysSteps ==
    ASSUME NEW segs, NEW i \in Nat, NEW s
    PROVE  /\ s \in Stays(segs, i) /\ Depth(segs, s) <= Depth(segs, i + 1) =>
                 s \in Stays(segs, i + 1)
           /\ segs[i + 1] \notin {".", ".."} => i + 1 \in Stays(segs, i + 1)
<1>1. ASSUME s \in Stays(segs, i), Depth(segs, s) <= Depth(segs, i + 1)
      PROVE  s \in Stays(segs, i + 1)
  <2>1. s \in 1 .. i /\ s \in Nat /\ s \in 1 .. i + 1 BY <1>1 DEF Stays
  <2>2. Depth(segs, s) \in Nat /\ Depth(segs, i + 1) \in Nat BY <2>1, DepthSteps
  <2>3. \A j \in s .. i + 1 : j \in s .. i \/ j = i + 1 BY <2>1
  <2> QED BY <1>1, <2>1, <2>2, <2>3 DEF Stays
<1>2. ASSUME segs[i + 1] \notin {".", ".."} PROVE i + 1 \in Stays(segs, i + 1)
  <2>1. Depth(segs, i + 1) \in Nat BY DepthSteps
  <2>2. \A j \in i + 1 .. i + 1 : j = i + 1 OBVIOUS
  <2> QED BY <1>2, <2>1, <2>2 DEF Stays
<1> QED BY <1>1, <1>2

\* After i segments path.Clean has kept a ".." for every level above the start
\* (none at the root), and then the segments that stay, each at its depth.
Ups(rooted, segs, i) == IF rooted THEN 0 ELSE 0 - Lowest(segs, i)

Held(Segment, rooted, segs, i, kept) ==
    /\ kept \in Seq(Segment)
    /\ Len(kept) = Ups(rooted, segs, i) + Depth(segs, i)
    /\ \A k \in 1 .. Ups(rooted, segs, i) : kept[k] = ".."
    /\ \A k \in 1 .. Depth(segs, i) : \E s \in Stays(segs, i) :
          Depth(segs, s) = k /\ kept[Ups(rooted, segs, i) + k] = segs[s]

(* How much of each there is. *)
LEMMA UpsType ==
    ASSUME NEW rooted \in BOOLEAN, NEW segs, NEW i \in Nat
    PROVE  Ups(rooted, segs, i) \in Nat
<1>1. Lowest(segs, i) \in Int /\ Lowest(segs, i) <= 0
  <2>1. i \in 0 .. i OBVIOUS
  <2> QED BY <2>1, LowestSteps
<1> QED BY <1>1 DEF Ups

(* A name goes to the end, ... *)
LEMMA HeldName ==
    ASSUME NEW Segment, ".." \in Segment, NEW rooted \in BOOLEAN,
           NEW segs \in Seq(Segment), NEW i \in Nat, i < Len(segs),
           NEW kept, Held(Segment, rooted, segs, i, kept), segs[i + 1] \notin {".", ".."}
    PROVE  Held(Segment, rooted, segs, i + 1, Append(kept, segs[i + 1]))
<1>1. PICK u, d : u = Ups(rooted, segs, i) /\ d = Depth(segs, i) OBVIOUS
<1>2. u \in Nat /\ d \in Nat BY <1>1, UpsType, DepthSteps
<1>3. Ups(rooted, segs, i + 1) = u /\ Depth(segs, i + 1) = d + 1
  BY <1>1, DepthSteps DEF Ups
<1>4. PICK new : new = Append(kept, segs[i + 1]) OBVIOUS
<1>5. segs[i + 1] \in Segment BY <1>2
<1>6. kept \in Seq(Segment) /\ Len(kept) = u + d BY <1>1 DEF Held
<1>7. /\ new \in Seq(Segment) /\ Len(new) = u + d + 1
      /\ new[u + d + 1] = segs[i + 1]
      /\ \A k \in 1 .. u + d : new[k] = kept[k]
  BY <1>2, <1>4, <1>5, <1>6
<1>8. ASSUME NEW k \in 1 .. d + 1
      PROVE  \E s \in Stays(segs, i + 1) : Depth(segs, s) = k /\ new[u + k] = segs[s]
  <2>1. CASE k = d + 1
    <3>1. i + 1 \in Stays(segs, i + 1) BY StaysSteps
    <3>2. u + k = u + d + 1 BY <1>2, <2>1
    <3> QED BY <1>3, <1>7, <2>1, <3>1, <3>2
  <2>2. CASE k # d + 1
    <3>1. k \in 1 .. d /\ u + k \in 1 .. u + d BY <1>2, <2>2
    <3>2. PICK s \in Stays(segs, i) : Depth(segs, s) = k /\ kept[u + k] = segs[s]
      BY <1>1, <3>1 DEF Held
    <3>3. Depth(segs, s) <= Depth(segs, i + 1) BY <1>2, <1>3, <3>1, <3>2
    <3>4. s \in Stays(segs, i + 1) BY <3>3, StaysSteps
    <3> QED BY <1>7, <3>1, <3>2, <3>4
  <2> QED BY <2>1, <2>2
<1>9. \A k \in 1 .. u : new[k] = ".."
  <2>1. \A k \in 1 .. u : k \in 1 .. u + d BY <1>2
  <2> QED BY <1>1, <1>7, <2>1 DEF Held
<1>10. Len(new) = u + (d + 1) BY <1>2, <1>7
<1> QED BY <1>3, <1>4, <1>7, <1>8, <1>9, <1>10 DEF Held

(* ... ".." takes the last name back ... *)
LEMMA HeldBack ==
    ASSUME NEW Segment, ".." \in Segment, NEW rooted \in BOOLEAN,
           NEW segs \in Seq(Segment), NEW i \in Nat,
           NEW kept, Held(Segment, rooted, segs, i, kept), segs[i + 1] = "..", Depth(segs, i) > 0
    PROVE  /\ Held(Segment, rooted, segs, i + 1, Front(kept))
           /\ kept # <<>> /\ Last(kept) # ".."
<1>1. PICK u, d : u = Ups(rooted, segs, i) /\ d = Depth(segs, i) OBVIOUS
<1>2. u \in Nat /\ d \in Nat /\ d > 0 BY <1>1, UpsType, DepthSteps
<1>3. Ups(rooted, segs, i + 1) = u /\ Depth(segs, i + 1) = d - 1
  BY <1>1, DepthSteps DEF Ups
<1>4. kept \in Seq(Segment) /\ Len(kept) = u + d BY <1>1 DEF Held
<1>5. kept # <<>> /\ Last(kept) # ".."
  <2>1. d \in 1 .. d /\ u + d > 0 BY <1>2
  <2>2. PICK s \in Stays(segs, i) : kept[u + d] = segs[s] BY <1>1, <2>1 DEF Held
  <2>3. segs[s] # ".." BY DEF Stays
  <2> QED BY <1>2, <1>4, <2>1, <2>2, <2>3 DEF Last
<1>6. PICK new : new = Front(kept) OBVIOUS
<1>7. /\ new \in Seq(Segment) /\ Len(new) = u + (d - 1)
      /\ \A k \in 1 .. u + (d - 1) : new[k] = kept[k]
  BY <1>2, <1>4, <1>6 DEF Front
<1>8. ASSUME NEW k \in 1 .. d - 1
      PROVE  \E s \in Stays(segs, i + 1) : Depth(segs, s) = k /\ new[u + k] = segs[s]
  <2>1. k \in 1 .. d /\ u + k \in 1 .. u + (d - 1) BY <1>2
  <2>2. PICK s \in Stays(segs, i) : Depth(segs, s) = k /\ kept[u + k] = segs[s]
    BY <1>1, <2>1 DEF Held
  <2>3. Depth(segs, s) <= Depth(segs, i + 1) BY <1>2, <1>3, <2>2
  <2>4. s \in Stays(segs, i + 1) BY <2>3, StaysSteps
  <2> QED BY <1>7, <2>1, <2>2, <2>4
<1>9. \A k \in 1 .. u : new[k] = ".."
  <2>1. \A k \in 1 .. u : k \in 1 .. u + (d - 1) BY <1>2
  <2> QED BY <1>1, <1>7, <2>1 DEF Held
<1> QED BY <1>3, <1>5, <1>6, <1>7, <1>8, <1>9 DEF Held

(* ... and stays itself where there is none, unless that is the root.         *)
LEMMA HeldAbove ==
    ASSUME NEW Segment, ".." \in Segment, NEW rooted \in BOOLEAN,
           NEW segs \in Seq(Segment), NEW i \in Nat,
           NEW kept, Held(Segment, rooted, segs, i, kept), segs[i + 1] = "..", Depth(segs, i) = 0
    PROVE  Held(Segment, rooted, segs, i + 1, Climb(rooted, kept))
<1>1. PICK u : u = Ups(rooted, segs, i) OBVIOUS
<1>2. u \in Nat BY <1>1, UpsType
<1>3. Depth(segs, i + 1) = 0 /\ Lowest(segs, i + 1) = Lowest(segs, i) - 1 BY DepthSteps
<1>4. kept \in Seq(Segment) /\ Len(kept) = u BY <1>1, <1>2 DEF Held
<1>5. \A k \in 1 .. u : kept[k] = ".." BY <1>1 DEF Held
<1>6. kept = <<>> \/ Last(kept) = ".." BY <1>2, <1>4, <1>5 DEF Last
<1>7. CASE rooted
  <2>1. Climb(rooted, kept) = kept BY <1>6, <1>7 DEF Climb
  <2>2. Ups(rooted, segs, i + 1) = u /\ u = 0 BY <1>1, <1>7 DEF Ups
  <2>3. kept = <<>> /\ 1 .. 0 = {} BY <1>4, <2>2
  <2> QED BY <2>1, <2>2, <2>3, <1>3, <1>4 DEF Held
<1>8. CASE ~rooted
  <2>1. Climb(rooted, kept) = Append(kept, "..") BY <1>6, <1>8 DEF Climb
  <2>2. Lowest(segs, i) \in Int
    <3>1. i \in 0 .. i OBVIOUS
    <3> QED BY <3>1, LowestSteps
  <2>3. Ups(rooted, segs, i + 1) = u + 1 BY <1>1, <1>3, <1>8, <2>2 DEF Ups
  <2>4. PICK up : up = ".." OBVIOUS
  <2>5. up \in Segment BY <2>4
  <2>6. PICK new : new = Append(kept, up) OBVIOUS
  <2>7. /\ new \in Seq(Segment) /\ Len(new) = u + 1 /\ new[u + 1] = up
        /\ \A k \in 1 .. u : new[k] = kept[k]
    BY <1>2, <1>4, <2>5, <2>6
  <2>8. \A k \in 1 .. u + 1 : new[k] = ".."
    <3>1. \A k \in 1 .. u + 1 : k = u + 1 \/ k \in 1 .. u BY <1>2
    <3> QED BY <3>1, <2>4, <2>7, <1>5
  <2> QED BY <1>2, <1>3, <2>1, <2>3, <2>4, <2>6, <2>7, <2>8 DEF Held
<1> QED BY <1>7, <1>8

(* Empty segments and "." change nothing. *)
LEMMA HeldDot ==
    ASSUME NEW Segment, ".." \in Segment, NEW rooted \in BOOLEAN,
           NEW segs \in Seq(Segment), NEW i \in Nat,
           NEW kept, Held(Segment, rooted, segs, i, kept), segs[i + 1] = "."
    PROVE  Held(Segment, rooted, segs, i + 1, kept)
<1>1. /\ Ups(rooted, segs, i + 1) = Ups(rooted, segs, i)
      /\ Depth(segs, i + 1) = Depth(segs, i) /\ Depth(segs, i) \in Nat
  BY DepthSteps DEF Ups
<1>2. ASSUME NEW s \in Stays(segs, i), NEW k \in 1 .. Depth(segs, i), Depth(segs, s) = k
      PROVE  s \in Stays(segs, i + 1)
  <2>1. Depth(segs, s) <= Depth(segs, i + 1) BY <1>1, <1>2
  <2> QED BY <2>1, StaysSteps
<1> QED BY <1>1, <1>2 DEF Held

(* So it is after every segment. *)
LEMMA WalkHolds ==
    ASSUME NEW Segment, ".." \in Segment, NEW rooted \in BOOLEAN,
           NEW segs \in Seq(Segment)
    PROVE  Held(Segment, rooted, segs, Len(segs), Clean(rooted, segs))
<1>1. Len(segs) \in Nat OBVIOUS
<1>2. PICK w : Steps(rooted, segs, w) /\ Clean(rooted, segs) = w[Len(segs)]
  BY <1>1, CleanWalks
<1>3. PICK S : S = {i \in 0 .. Len(segs) : Held(Segment, rooted, segs, i, w[i])} OBVIOUS
<1>4. 0 \in S
  <2>1. w[0] = <<>> BY <1>1, <1>2 DEF Steps
  <2>2. Ups(rooted, segs, 0) = 0 /\ Depth(segs, 0) = 0
    <3>1. Lowest(segs, 0) = 0 BY <1>1, LowestSteps
    <3> QED BY <1>1, <3>1, DepthSteps DEF Ups
  <2>3. Held(Segment, rooted, segs, 0, <<>>) BY <2>2 DEF Held
  <2> QED BY <1>1, <1>3, <2>1, <2>3
<1>5. ASSUME NEW i \in 0 .. Len(segs), i < Len(segs), i \in S PROVE i + 1 \in S
  <2>1. i \in Nat /\ i + 1 \in 0 .. Len(segs) /\ i + 1 # 0 /\ i + 1 - 1 = i BY <1>1, <1>5
  <2>2. Held(Segment, rooted, segs, i, w[i]) BY <1>3, <1>5
  <2>3. w[i + 1] = Walk(rooted, w[i], segs[i + 1]) BY <1>2, <2>1 DEF Steps
  <2>4. Held(Segment, rooted, segs, i + 1, w[i + 1])
    <3>1. CASE segs[i + 1] = "."
      <4>1. w[i + 1] = w[i] BY <2>3, <3>1 DEF Walk
      <4> QED BY <2>1, <2>2, <3>1, <4>1, HeldDot
    <3>2. CASE segs[i + 1] = ".."
      <4>1. w[i + 1] = Climb(rooted, w[i]) BY <2>3, <3>2 DEF Walk
      <4>2. CASE Depth(segs, i) = 0 BY <2>1, <2>2, <3>2, <4>1, <4>2, HeldAbove
      <4>3. CASE Depth(segs, i) # 0
        <5>1. Depth(segs, i) > 0 BY <2>1, <4>3, DepthSteps
        <5>2. Climb(rooted, w[i]) = Front(w[i]) BY <2>1, <2>2, <3>2, <5>1, HeldBack DEF Climb
        <5> QED BY <2>1, <2>2, <3>2, <4>1, <5>1, <5>2, HeldBack
      <4> QED BY <4>2, <4>3
    <3>3. CASE segs[i + 1] \notin {".", ".."}
      <4>1. w[i + 1] = Append(w[i], segs[i + 1]) BY <2>3, <3>3 DEF Walk
      <4> QED BY <1>5, <2>1, <2>2, <3>3, <4>1, HeldName
    <3> QED BY <3>1, <3>2, <3>3
  <2> QED BY <1>3, <2>1, <2>4
<1>6. 0 .. Len(segs) \subseteq S BY <1>1, <1>4, <1>5, AllPositions
<1>7. Len(segs) \in S BY <1>1, <1>6
<1> QED BY <1>2, <1>3, <1>7
(* The segments that stay are one at each depth, from the first down.         *)
LEMMA StaysOrdered ==
    ASSUME NEW segs, NEW n \in Nat, NEW r \in Stays(segs, n), NEW s \in Stays(segs, n)
    PROVE  /\ r \in 1 .. n /\ Depth(segs, r) \in 1 .. Depth(segs, n)
           /\ r < s <=> Depth(segs, r) < Depth(segs, s)
<1>1. ASSUME NEW a \in Stays(segs, n)
      PROVE  /\ a \in 1 .. n /\ a - 1 \in Nat /\ Depth(segs, a - 1) \in Nat
             /\ Depth(segs, a) = Depth(segs, a - 1) + 1
             /\ Depth(segs, a) <= Depth(segs, n) /\ Depth(segs, n) \in Nat
  <2>1. a \in 1 .. n /\ a - 1 \in Nat /\ a - 1 + 1 = a /\ n \in a .. n BY DEF Stays
  <2>2. segs[a] \notin {".", ".."} /\ \A j \in a .. n : Depth(segs, j) >= Depth(segs, a)
    BY DEF Stays
  <2>3. Depth(segs, a - 1) \in Nat /\ Depth(segs, n) \in Nat BY <2>1, DepthSteps
  <2>4. Depth(segs, a) = Depth(segs, a - 1) + 1 BY <2>1, <2>2, DepthSteps
  <2>5. Depth(segs, n) >= Depth(segs, a) BY <2>1, <2>2
  <2> QED BY <2>1, <2>3, <2>4, <2>5
<1>2. ASSUME NEW a \in Stays(segs, n), NEW b \in Stays(segs, n), a < b
      PROVE  Depth(segs, a) < Depth(segs, b)
  <2>1. b - 1 \in a .. n BY <1>1, <1>2
  <2>2. Depth(segs, b - 1) >= Depth(segs, a) BY <2>1 DEF Stays
  <2> QED BY <2>2, <1>1
<1>3. Depth(segs, r) \in 1 .. Depth(segs, n) BY <1>1
<1>4. r \in 1 .. n /\ s \in 1 .. n /\ Depth(segs, r) \in Nat /\ Depth(segs, s) \in Nat BY <1>1
<1>5. CASE r < s BY <1>2, <1>3, <1>4, <1>5
<1>6. CASE r = s BY <1>3, <1>4, <1>6
<1>7. CASE s < r
  <2>1. Depth(segs, s) < Depth(segs, r) BY <1>2, <1>7
  <2> QED BY <1>3, <1>4, <1>7, <2>1
<1> QED BY <1>3, <1>4, <1>5, <1>6, <1>7

\* Every depth is that of a segment that stays.
EachDepth(segs, n) ==
    \A k \in 1 .. Depth(segs, n) : \E s \in Stays(segs, n) : Depth(segs, s) = k

(* So the depth of a segment is its number among those that stay.             *)
LEMMA StaysCounted ==
    ASSUME NEW segs, NEW n \in Nat, EachDepth(segs, n)
    PROVE  /\ Cardinality(Stays(segs, n)) = Depth(segs, n)
           /\ \A s \in Stays(segs, n) :
                 Cardinality({j \in Stays(segs, n) : j <= s}) = Depth(segs, s)
<1>1. ASSUME NEW d \in 0 .. Depth(segs, n), NEW T,
             T = {j \in Stays(segs, n) : Depth(segs, j) <= d}
      PROVE  Cardinality(T) = d
  <2>1. PICK f : f = [j \in T |-> Depth(segs, j)] OBVIOUS
  <2>2. Depth(segs, n) \in Nat /\ d \in Nat BY DepthSteps
  <2>3. T \subseteq 1 .. n BY <1>1, StaysOrdered
  <2>4. f \in [T -> 1 .. d] BY <1>1, <2>1, <2>2, StaysOrdered
  <2>5. ASSUME NEW a \in T, NEW b \in T, f[a] = f[b] PROVE a = b
    <3>1. a \in Stays(segs, n) /\ b \in Stays(segs, n) BY <1>1
    <3>2. a \in 1 .. n /\ b \in 1 .. n /\ ~(a < b) /\ ~(b < a)
      <4>1. Depth(segs, a) = Depth(segs, b) BY <2>1, <2>5
      <4>2. Depth(segs, a) \in 1 .. Depth(segs, n) BY <3>1, StaysOrdered
      <4> QED BY <2>2, <3>1, <4>1, <4>2, StaysOrdered
    <3> QED BY <3>2
  <2>6. ASSUME NEW k \in 1 .. d PROVE \E a \in T : f[a] = k
    <3>1. k \in 1 .. Depth(segs, n) BY <2>2
    <3>2. PICK a \in Stays(segs, n) : Depth(segs, a) = k BY <3>1 DEF EachDepth
    <3>3. a \in T BY <1>1, <2>2, <3>2
    <3> QED BY <2>1, <3>2, <3>3
  <2>7. f \in Bijection(T, 1 .. d)
    BY <2>4, <2>5, <2>6 DEF Bijection, Injection, Surjection, IsInjective
  <2>8. ExistsBijection(T, 1 .. d) BY <2>7 DEF ExistsBijection
  <2>9. IsFiniteSet(T)
    <3>1. IsFiniteSet(1 .. n) BY FS_Interval
    <3> QED BY <2>3, <3>1, FS_Subset
  <2>10. Cardinality(1 .. d) = Cardinality(T) BY <2>8, <2>9, FS_Bijection
  <2>11. Cardinality(1 .. d) = d BY <2>2, FS_Interval
  <2> QED BY <2>10, <2>11
<1>2. Cardinality(Stays(segs, n)) = Depth(segs, n)
  <2>1. Depth(segs, n) \in 0 .. Depth(segs, n) /\ Depth(segs, n) \in Nat BY DepthSteps
  <2>2. Stays(segs, n) = {j \in Stays(segs, n) : Depth(segs, j) <= Depth(segs, n)}
    BY <2>1, StaysOrdered
  <2> QED BY <1>1, <2>1, <2>2
<1>3. ASSUME NEW s \in Stays(segs, n)
      PROVE  Cardinality({j \in Stays(segs, n) : j <= s}) = Depth(segs, s)
  <2>1. Depth(segs, s) \in 0 .. Depth(segs, n) /\ Depth(segs, n) \in Nat
    BY DepthSteps, StaysOrdered
  <2>2. ASSUME NEW j \in Stays(segs, n)
        PROVE  j <= s <=> Depth(segs, j) <= Depth(segs, s)
    <3>1. j \in 1 .. n /\ s \in 1 .. n BY StaysOrdered
    <3>2. Depth(segs, j) \in 1 .. Depth(segs, n) /\ Depth(segs, s) \in 1 .. Depth(segs, n)
      BY StaysOrdered
    <3>3. s < j <=> Depth(segs, s) < Depth(segs, j) BY StaysOrdered
    <3> QED BY <2>1, <3>1, <3>2, <3>3
  <2>3. {j \in Stays(segs, n) : j <= s}
          = {j \in Stays(segs, n) : Depth(segs, j) <= Depth(segs, s)}
    BY <2>2
  <2> QED BY <1>1, <2>1, <2>3
<1> QED BY <1>2, <1>3

(* Kept has the segments that stay, each at its depth.                        *)
LEMMA KeptByDepth ==
    ASSUME NEW segs, NEW n \in Nat, n = Len(segs), EachDepth(segs, n)
    PROVE  /\ Kept(segs) = [k \in 1 .. Depth(segs, n) |-> Kept(segs)[k]]
           /\ \A s \in Stays(segs, n) : Kept(segs)[Depth(segs, s)] = segs[s]
<1>1. PICK stays : stays = Stays(segs, n) OBVIOUS
<1> DEFINE Nth(k) == CHOOSE i \in stays : Cardinality({j \in stays : j <= i}) = k
<1>2. Kept(segs) = [k \in 1 .. Cardinality(stays) |-> segs[Nth(k)]]
  BY <1>1 DEF Kept, Stays
<1>3. Cardinality(stays) = Depth(segs, n) BY <1>1, StaysCounted
<1>4. ASSUME NEW s \in stays PROVE Kept(segs)[Depth(segs, s)] = segs[s]
  <2>1. PICK k : k = Depth(segs, s) OBVIOUS
  <2>2. k \in 1 .. Depth(segs, n) BY <1>1, <2>1, StaysOrdered
  <2>3. PICK i : i = Nth(k) OBVIOUS
  <2>4. Cardinality({j \in stays : j <= s}) = k BY <1>1, <2>1, StaysCounted
  <2>5. i \in stays /\ Cardinality({j \in stays : j <= i}) = k BY <2>3, <2>4
  <2>6. Depth(segs, i) = k BY <1>1, <2>5, StaysCounted
  <2>7. i = s
    <3>1. i \in 1 .. n /\ s \in 1 .. n BY <1>1, <2>5, StaysOrdered
    <3>2. ~(i < s) /\ ~(s < i)
      <4>1. Depth(segs, n) \in Nat BY DepthSteps
      <4>2. ~(Depth(segs, i) < Depth(segs, s)) /\ ~(Depth(segs, s) < Depth(segs, i))
        BY <2>1, <2>2, <2>6, <4>1
      <4> QED BY <1>1, <2>5, <4>2, StaysOrdered
    <3> QED BY <3>1, <3>2
  <2> HIDE DEF Nth
  <2> QED BY <1>2, <1>3, <2>1, <2>2, <2>3, <2>7
<1> QED BY <1>1, <1>2, <1>3, <1>4
\* The segments of a name that lies on a disk are names themselves.
PlainSegs(segs) == \A k \in 1 .. Len(segs) : segs[k] \notin {".", ".."}

\* c has u times ".." and then d names, those that segs keeps.
Cleaned(Segment, segs, c, u, d) ==
    /\ u \in Nat /\ d \in Nat
    /\ c \in Seq(Segment) /\ Len(c) = u + d
    /\ u > 0 => Head(c) = ".."
    /\ u = 0 => PlainSegs(c) /\ c = Kept(segs)

(* What Clean leaves is ".." and then names, one for each depth.              *)
LEMMA CleanResult ==
    ASSUME NEW Segment, ".." \in Segment, NEW rooted \in BOOLEAN,
           NEW segs \in Seq(Segment), NEW u, NEW d,
           u = Ups(rooted, segs, Len(segs)), d = Depth(segs, Len(segs))
    PROVE  Cleaned(Segment, segs, Clean(rooted, segs), u, d)
<1>1. PICK n : n = Len(segs) OBVIOUS
<1>2. n \in Nat BY <1>1
<1>3. u \in Nat /\ d \in Nat BY <1>1, <1>2, UpsType, DepthSteps
<1>4. PICK c : c = Clean(rooted, segs) OBVIOUS
<1>5. Held(Segment, rooted, segs, n, c) BY <1>1, <1>4, WalkHolds
<1>6. /\ c \in Seq(Segment) /\ Len(c) = u + d
      /\ \A k \in 1 .. u : c[k] = ".."
      /\ \A k \in 1 .. d : \E s \in Stays(segs, n) : Depth(segs, s) = k /\ c[u + k] = segs[s]
  BY <1>1, <1>5 DEF Held
<1>7. u > 0 => Head(c) = ".."
  <2>1. u > 0 => 1 \in 1 .. u /\ c # <<>> BY <1>3, <1>6
  <2> QED BY <1>6, <2>1
<1>8. ASSUME u = 0 PROVE PlainSegs(c) /\ c = Kept(segs)
  <2>1. Len(c) = d /\ \A k \in 1 .. d : u + k = k BY <1>3, <1>6, <1>8
  <2>2. \A k \in 1 .. d : \E s \in Stays(segs, n) : Depth(segs, s) = k /\ c[k] = segs[s]
    BY <1>6, <2>1
  <2>3. PlainSegs(c)
    <3>1. \A s \in Stays(segs, n) : segs[s] \notin {".", ".."} BY DEF Stays
    <3> QED BY <2>1, <2>2, <3>1 DEF PlainSegs
  <2>4. EachDepth(segs, n) BY <1>1, <2>2 DEF EachDepth
  <2>5. /\ Kept(segs) = [k \in 1 .. d |-> Kept(segs)[k]]
        /\ \A s \in Stays(segs, n) : Kept(segs)[Depth(segs, s)] = segs[s]
    BY <1>1, <1>2, <2>4, KeptByDepth
  <2>6. \A k \in 1 .. d : Kept(segs)[k] = c[k] BY <2>2, <2>5
  <2>7. c = [k \in 1 .. d |-> c[k]] BY <1>6, <2>1
  <2>8. [k \in 1 .. d |-> c[k]] = [k \in 1 .. d |-> Kept(segs)[k]] BY <2>6
  <2> QED BY <2>3, <2>5, <2>7, <2>8
<1> QED BY <1>3, <1>4, <1>6, <1>7, <1>8 DEF Cleaned

(* The walk of a relative name that is never above its start.                 *)
LEMMA InsideByDepth ==
    ASSUME NEW segs, NEW n \in Nat
    PROVE  /\ (\A i \in 1 .. n : Level(segs, i) >= 0) <=> Lowest(segs, n) = 0
           /\ Lowest(segs, n) = 0 => Depth(segs, n) = Level(segs, n)
<1>1. \A i \in 0 .. n : Level(segs, i) \in Int BY LevelSteps
<1>2. Level(segs, 0) = 0 BY LevelSteps
<1>3. PICK L : L = {Level(segs, j) : j \in 0 .. n} OBVIOUS
<1>4. Lowest(segs, n) \in Int /\ Lowest(segs, n) <= 0 /\ IsLeast(Lowest(segs, n), L)
  <2>1. n \in 0 .. n OBVIOUS
  <2> QED BY <1>3, <2>1, LowestSteps
<1>5. ASSUME \A i \in 1 .. n : Level(segs, i) >= 0 PROVE Lowest(segs, n) = 0
  <2>1. PICK j \in 0 .. n : Lowest(segs, n) = Level(segs, j) BY <1>3, <1>4 DEF IsLeast
  <2>2. Level(segs, j) >= 0
    <3>1. CASE j = 0 BY <1>2, <3>1
    <3>2. CASE j # 0
      <4>1. j \in 1 .. n BY <3>2
      <4> QED BY <1>5, <4>1
    <3> QED BY <3>1, <3>2
  <2> QED BY <1>4, <2>1, <2>2
<1>6. ASSUME Lowest(segs, n) = 0, NEW i \in 1 .. n PROVE Level(segs, i) >= 0
  <2>1. i \in 0 .. n OBVIOUS
  <2>2. Level(segs, i) \in L BY <1>3, <2>1
  <2>3. Level(segs, i) \in Int BY <1>1, <2>1
  <2> QED BY <1>4, <1>6, <2>2, <2>3 DEF IsLeast
<1>7. Depth(segs, n) = Level(segs, n) - Lowest(segs, n) BY DEF Depth, Lowest
<1>8. Level(segs, n) \in Int BY LevelSteps
<1> QED BY <1>5, <1>6, <1>7, <1>8

(* cleanObjectPath accepts exactly the names that stay below the root of the  *)
(* disk at every segment, and keeps exactly the segments that no ".." takes   *)
(* back, for names of every length: the checks of path.go:32 on the cleaned   *)
(* name decide about the walk.                                                *)
THEOREM CleanObjectPathInside ==
    ASSUME NEW Segment, ".." \in Segment,
           NEW name \in [slashes : Nat, segs : Seq(Segment)], NEW c, c = cleanObjectPath(name)
    PROVE  /\ c.ok = Inside(name)
           /\ c.ok => c.segs = Kept(name.segs) /\ c.segs \in Seq(Segment) /\ PlainSegs(c.segs)
<1>1. PICK rooted, segs, n : /\ rooted = (name.slashes > 1) /\ segs = name.segs
                             /\ n = Len(segs)
  OBVIOUS
<1>2. rooted \in BOOLEAN /\ segs \in Seq(Segment) /\ n \in Nat BY <1>1
<1>3. PICK k : k = Clean(rooted, segs) OBVIOUS
<1>4. c = IF ~rooted /\ (k = <<>> \/ Head(k) = "..") THEN Invalid
          ELSE [ok |-> TRUE, rooted |-> rooted, segs |-> k]
  BY <1>1, <1>3 DEF cleanObjectPath
<1>5. PICK u, d : u = Ups(rooted, segs, Len(segs)) /\ d = Depth(segs, Len(segs)) OBVIOUS
<1>6. /\ u \in Nat /\ d \in Nat /\ k \in Seq(Segment) /\ Len(k) = u + d
      /\ u > 0 => Head(k) = ".."
      /\ u = 0 => PlainSegs(k) /\ k = Kept(segs)
  <2>1. Cleaned(Segment, segs, k, u, d) BY <1>2, <1>3, <1>5, CleanResult
  <2> QED BY <2>1 DEF Cleaned
<1>7. CASE rooted
  <2>1. u = 0 BY <1>5, <1>7 DEF Ups
  <2>2. Inside(name) BY <1>1, <1>7 DEF Inside
  <2>3. c.ok /\ c.segs = k BY <1>4, <1>7
  <2> QED BY <1>1, <1>6, <2>1, <2>2, <2>3
<1>8. CASE ~rooted
  <2>1. u = 0 - Lowest(segs, n) /\ Lowest(segs, n) \in Int
    <3>1. n \in 0 .. n BY <1>2
    <3>2. u = 0 - Lowest(segs, n) BY <1>1, <1>5, <1>8 DEF Ups
    <3> QED BY <1>2, <3>1, <3>2, LowestSteps
  <2>2. (\A i \in 1 .. n : Level(segs, i) >= 0) <=> u = 0 BY <1>2, <2>1, InsideByDepth
  <2>3. u = 0 => d = Level(segs, n) BY <1>1, <1>2, <1>5, <2>1, InsideByDepth
  <2>4. Inside(name) <=> u = 0 /\ d > 0 BY <1>1, <1>8, <2>2, <2>3 DEF Inside
  <2>5. (k = <<>> \/ Head(k) = "..") <=> ~(u = 0 /\ d > 0)
    <3>1. CASE u > 0 BY <1>6, <3>1
    <3>2. CASE u = 0 /\ d = 0 BY <1>6, <3>2
    <3>3. CASE u = 0 /\ d > 0
      <4>1. Len(k) > 0 /\ 1 \in 1 .. Len(k) /\ PlainSegs(k) BY <1>6, <3>3
      <4>2. k # <<>> /\ Head(k) = k[1] BY <1>6, <4>1
      <4> QED BY <3>3, <4>1, <4>2 DEF PlainSegs
    <3> QED BY <1>6, <3>1, <3>2, <3>3
  <2>6. c.ok <=> u = 0 /\ d > 0 BY <1>4, <1>8, <2>5 DEF Invalid
  <2>7. c.ok \in BOOLEAN /\ Inside(name) \in BOOLEAN BY <1>4 DEF Invalid, Inside
  <2>8. c.ok => c.segs = k BY <1>4 DEF Invalid
  <2> QED BY <1>1, <1>6, <2>4, <2>6, <2>7, <2>8
<1> QED BY <1>2, <1>7, <1>8

(* A name without "." and ".." is clean. *)
LEMMA CleanOfPlain ==
    ASSUME NEW Segment, ".." \in Segment, NEW rooted \in BOOLEAN,
           NEW segs \in Seq(Segment), PlainSegs(segs)
    PROVE  Clean(rooted, segs) = segs
<1>1. PICK n : n = Len(segs) OBVIOUS
<1>2. n \in Nat BY <1>1
<1>3. PICK S : S = {i \in 0 .. n : Depth(segs, i) = i /\ Lowest(segs, i) = 0} OBVIOUS
<1>4. 0 \in S
  <2>1. Depth(segs, 0) = 0 BY <1>2, DepthSteps
  <2>2. Lowest(segs, 0) = 0 BY <1>2, LowestSteps
  <2> QED BY <1>2, <1>3, <2>1, <2>2
<1>5. ASSUME NEW i \in 0 .. n, i < n, i \in S PROVE i + 1 \in S
  <2>1. i \in Nat /\ i + 1 \in 1 .. n /\ i + 1 \in 0 .. n BY <1>2, <1>5
  <2>2. segs[i + 1] \notin {".", ".."} BY <1>1, <2>1 DEF PlainSegs
  <2>3. /\ Depth(segs, i + 1) = Depth(segs, i) + 1
        /\ Lowest(segs, i + 1) = Lowest(segs, i)
    BY <2>1, <2>2, DepthSteps
  <2> QED BY <1>3, <1>5, <2>1, <2>3
<1>6. 0 .. n \subseteq S BY <1>2, <1>4, <1>5, AllPositions
<1>7. \A i \in 0 .. n : Depth(segs, i) = i /\ Lowest(segs, i) = 0 BY <1>3, <1>6
<1>8. n \in 0 .. n BY <1>2
<1>9. Ups(rooted, segs, n) = 0 /\ Depth(segs, n) = n BY <1>7, <1>8 DEF Ups
<1>10. PICK c : c = Clean(rooted, segs) OBVIOUS
<1>11. Held(Segment, rooted, segs, n, c) BY <1>1, <1>10, WalkHolds
<1>12. c \in Seq(Segment) /\ Len(c) = n
  BY <1>2, <1>9, <1>11 DEF Held
<1>13. ASSUME NEW k \in 1 .. n PROVE c[k] = segs[k]
  <2>1. 0 + k = k BY <1>2
  <2>2. PICK s \in Stays(segs, n) : Depth(segs, s) = k /\ c[k] = segs[s]
    BY <1>9, <1>11, <2>1 DEF Held
  <2>3. s \in 0 .. n BY <1>2 DEF Stays
  <2> QED BY <1>7, <2>2, <2>3
<1> QED BY <1>1, <1>2, <1>10, <1>12, <1>13

-----------------------------------------------------------------------------
(* The inductive invariant.                                                   *)

\* A save under way is on a disk the manager has, and stores all it was given.
Busy(t) ==
    call[t].pc # "idle" =>
        /\ Supported(call[t].at.disk)
        /\ call[t].id \in 1 .. saves
        /\ call[t].size = call[t].asked
        /\ call[t].pc \in {"write", "finish"} => call[t].at.segs # <<>>
        /\ call[t].pc = "write" => call[t].file \in 1 .. saves

Underway == \A t \in Threads : Busy(t)

\* A save that has not linked its file yet: nobody has the file.
Unlinked(t) == call[t].pc \in {"open", "put"}

\* Files are inodes: each one is under one name at most, and a writer's file,
\* if it still has a name, has the name the writer opened.
Inodes ==
    /\ \A p \in Places : files[p] <= saves /\ (files[p] # 0 => p.segs # <<>>)
    /\ \A p, q \in Places : files[p] # 0 /\ files[p] = files[q] => p = q
    /\ \A n \in 1 .. MaxSaves : n > saves => content[n] = <<>>
    /\ \A t, u \in Threads :
          call[t].pc # "idle" /\ call[u].pc # "idle" /\ call[t].id = call[u].id => t = u
    /\ \A t \in Threads : Unlinked(t) => /\ \A p \in Places : files[p] # call[t].id
                                         /\ content[call[t].id] = <<>>
    /\ \A t, u \in Threads : Unlinked(t) /\ call[u].pc = "write" => call[u].file # call[t].id
    /\ \A t \in Threads, p \in Places :
          call[t].pc = "write" /\ files[p] = call[t].file => p = call[t].at

Touches(t, p) == Touching(t) /\ call[t].at = p

\* Two changes of one place are both disturbed, and a place that is settled has
\* no change under way.
Apart ==
    /\ \A t, u \in Threads, p \in Places :
          Touches(t, p) /\ Touches(u, p) /\ ~call[t].disturbed => t = u
    /\ \A p \in Places : settled[p].end # "open" => \A t \in Threads : ~Touches(t, p)

\* An undisturbed save has at its place what it has done so far.
Own(t) ==
    /\ call[t].pc = "write" => /\ files[call[t].at] = call[t].file
                               /\ content[call[t].file] = <<>>
    /\ call[t].pc = "finish" =>
          /\ files[call[t].at] # 0
          /\ content[files[call[t].at]] = Bytes(call[t].id, call[t].size)

Undisturbed == \A t \in Threads : call[t].pc # "idle" /\ ~call[t].disturbed => Own(t)

\* What a settled place holds.
Rest(p) ==
    /\ settled[p].end = "saved" => /\ files[p] # 0
                                   /\ content[files[p]] = settled[p].data
                                   /\ p.segs # <<>> /\ Supported(p.disk)
    /\ settled[p].end = "gone" => settled[p] = Gone /\ files[p] = 0

AtRest == \A p \in Places : Rest(p)

IInv == TypeOK /\ Underway /\ Inodes /\ Apart /\ Undisturbed /\ AtRest
-----------------------------------------------------------------------------
(* The types in the form the steps use. *)
LEMMA Shapes ==
    ASSUME IInv
    PROVE  /\ MaxSaves \in Nat /\ saves \in 0 .. MaxSaves /\ config \in Configs
           /\ files \in [Places -> 0 .. MaxSaves]
           /\ content \in [1 .. MaxSaves -> Data]
           /\ call \in [Threads -> Calls]
           /\ settled \in [Places -> [end : {"open", "saved", "gone"}, data : Data]]
           /\ \A t \in Threads :
                 /\ call[t].pc \in {"idle", "open", "write", "put", "finish"}
                 /\ call[t].pc # "idle" => call[t].at \in Places
                 /\ call[t].id \in 0 .. MaxSaves /\ call[t].file \in 0 .. MaxSaves
                 /\ call[t].size \in Nat /\ call[t].asked \in Nat
                 /\ call[t].overwrite \in BOOLEAN /\ call[t].disturbed \in BOOLEAN
BY SavesAssumption DEF IInv, TypeOK, Calls

(* A goroutine that is in no save. *)
LEMMA IdleIsCall == Idle \in Calls /\ Idle.pc = "idle"
BY SavesAssumption DEF Idle, Calls

\* u goes on as before, perhaps disturbed.
Follows(u) ==
    /\ call'[u].pc = call[u].pc /\ call'[u].at = call[u].at /\ call'[u].id = call[u].id
    /\ call'[u].file = call[u].file /\ call'[u].size = call[u].size
    /\ call'[u].asked = call[u].asked /\ call'[u].overwrite = call[u].overwrite
    /\ call[u].disturbed => call'[u].disturbed

Following(t) == \A u \in Threads \ {t} : Follows(u)

\* Everybody who shares p with t is disturbed from now on ...
Alarmed(t, p) == \A u \in Threads \ {t} : Touches(u, p) => call'[u].disturbed

\* ... t included.
Warned(t, p) ==
    /\ Alarmed(t, p)
    /\ call'[t].disturbed \/ \A u \in Threads \ {t} : ~Touches(u, p)

(* What Disturb does to the others ... *)
LEMMA DisturbOthers ==
    ASSUME IInv, NEW t \in Threads, NEW p \in Places, NEW c,
           \A u \in Threads \ {t} : call'[u] = Disturb(t, p, c)[u]
    PROVE  /\ \A u \in Threads \ {t} : call'[u] \in Calls
           /\ Following(t) /\ Alarmed(t, p)
<1> SUFFICES ASSUME NEW u \in Threads \ {t}
             PROVE  /\ call'[u] \in Calls /\ Follows(u)
                    /\ Touches(u, p) => call'[u].disturbed
  BY DEF Following, Alarmed
<1>1. call[u] \in Calls BY Shapes
<1>2. CASE u \in Others(t, p)
  <2>1. call'[u] = [call[u] EXCEPT !.disturbed = TRUE] BY <1>2 DEF Disturb, Others
  <2> QED BY <1>1, <2>1 DEF Calls, Follows
<1>3. CASE u \notin Others(t, p)
  <2>1. call'[u] = call[u] BY <1>3 DEF Disturb
  <2>2. ~Touches(u, p) BY <1>3 DEF Others, Touches
  <2> QED BY <1>1, <2>1, <2>2 DEF Follows
<1> QED BY <1>2, <1>3

(* ... and to the one whose step it is. *)
LEMMA DisturbEffect ==
    ASSUME IInv, NEW t \in Threads, NEW p \in Places, NEW c \in Calls,
           call' = Disturb(t, p, c)
    PROVE  /\ call' \in [Threads -> Calls]
           /\ Following(t) /\ Warned(t, p)
           /\ call'[t].pc = c.pc /\ call'[t].at = c.at /\ call'[t].id = c.id
           /\ call'[t].file = c.file /\ call'[t].size = c.size
           /\ call'[t].asked = c.asked /\ call'[t].overwrite = c.overwrite
<1> DEFINE new == [c EXCEPT !.disturbed = @ \/ Others(t, p) # {}]
<1>1. /\ new \in Calls /\ new.pc = c.pc /\ new.at = c.at /\ new.id = c.id
      /\ new.file = c.file /\ new.size = c.size /\ new.asked = c.asked
      /\ new.overwrite = c.overwrite
      /\ new.disturbed = (c.disturbed \/ Others(t, p) # {})
  BY DEF Calls
<1>2. call'[t] = new BY DEF Disturb
<1>3. /\ \A u \in Threads \ {t} : call'[u] \in Calls
      /\ Following(t) /\ Alarmed(t, p)
  BY DisturbOthers
<1>4. call' \in [Threads -> Calls]
  <2>1. /\ call' = [u \in Threads |-> call'[u]] BY DEF Disturb
  <2>2. \A u \in Threads : call'[u] \in Calls BY <1>1, <1>2, <1>3
  <2> QED BY <2>1, <2>2
<1>5. call'[t].disturbed \/ \A u \in Threads \ {t} : ~Touches(u, p)
  BY <1>1, <1>2 DEF Others, Touches
<1> QED BY <1>1, <1>2, <1>3, <1>4, <1>5 DEF Warned

\* Where t is after a step at p in which it stays in, or begins, a save.
Goes(t, p) ==
    /\ call'[t].at = p
    /\ Touching(t)' => \/ Warned(t, p)
                       \/ Touches(t, p) /\ (call[t].disturbed => call'[t].disturbed)
    /\ IF Unlinked(t)'
       THEN /\ call'[t].id = saves + 1 /\ saves' = saves + 1
            /\ files' = files /\ content' = content
       ELSE call[t].pc # "idle" /\ call'[t].id = call[t].id
    /\ call'[t].pc = "write" => call'[t].file = files'[p] /\ files'[p] # 0

\* A step of t at place p: it links at most its own new file there, and writes
\* at most to that file, to the one it has open or to the one at p; unless it
\* changes nothing, whoever shares p with t is disturbed.
Change(t, p) ==
    /\ config' = config /\ saves <= saves' /\ saves' \in 0 .. MaxSaves
    /\ Following(t)
    /\ \A q \in Places \ {p} : files'[q] = files[q] /\ settled'[q] = settled[q]
    /\ files'[p] \in {0, files[p]} \/ (Unlinked(t) /\ files'[p] = call[t].id /\ p.segs # <<>>)
    /\ \A n \in 1 .. MaxSaves : content'[n] # content[n] =>
          \/ n = files[p]
          \/ Unlinked(t) /\ n = call[t].id
          \/ call[t].pc = "write" /\ n = call[t].file
    /\ call[t].pc # "idle" => call[t].at = p
    /\ Touches(t, p) \/ Alarmed(t, p) \/ (files' = files /\ content' = content)
    /\ call'[t].pc # "idle" => Goes(t, p)

(* Such a step leaves the other saves on their disks, ... *)
LEMMA UnderwayKeeps ==
    ASSUME IInv, NEW t \in Threads, NEW p \in Places, Change(t, p), Busy(t)'
    PROVE  Underway'
<1> SUFFICES ASSUME NEW u \in Threads \ {t} PROVE Busy(u)'
  BY DEF Underway
<1>1. Busy(u) /\ Follows(u) /\ config' = config BY DEF IInv, Underway, Change, Following
<1>2. saves \in Nat /\ saves' \in Nat /\ saves <= saves' BY Shapes DEF Change
<1> QED BY <1>1, <1>2 DEF Busy, Follows, Supported, manager, Backend

(* ... keeps one name for every file, ... *)
LEMMA InodesKeeps ==
    ASSUME IInv, NEW t \in Threads, NEW p \in Places, Change(t, p), Busy(t)'
    PROVE  Inodes'
<1>0. /\ saves \in 0 .. MaxSaves /\ saves' \in 0 .. MaxSaves /\ saves <= saves'
      /\ MaxSaves \in Nat
  BY Shapes DEF Change
<1>1. \A u \in Threads \ {t} : Follows(u) BY DEF Change, Following
<1>2. \A u \in Threads : Busy(u) BY DEF IInv, Underway
<1>3. \A q \in Places : files[q] \in 0 .. saves BY Shapes DEF IInv, Inodes
<1>4. \A u \in Threads : Unlinked(u) => call[u].pc # "idle" /\ call[u].id \in 1 .. saves
  BY <1>2 DEF Unlinked, Busy
<1>5. \A q \in Places : files'[q] <= saves' /\ (files'[q] # 0 => q.segs # <<>>)
  <2>1. \A q \in Places : files'[q] <= saves' BY <1>0, <1>3, <1>4 DEF Change
  <2>2. \A q \in Places : files'[q] # 0 => q.segs # <<>> BY DEF Change, IInv, Inodes
  <2> QED BY <2>1, <2>2
<1>6. \A q, r \in Places : files'[q] # 0 /\ files'[q] = files'[r] => q = r
  BY DEF Change, IInv, Inodes
<1>7. \A n \in 1 .. MaxSaves : n > saves' => content'[n] = <<>>
  <2> SUFFICES ASSUME NEW n \in 1 .. MaxSaves, n > saves' PROVE content'[n] = <<>>
    OBVIOUS
  <2>1. n > saves BY <1>0
  <2>2. content[n] = <<>> BY <2>1 DEF IInv, Inodes
  <2>3. content'[n] = content[n]
    BY <2>1, <1>0, <1>2, <1>3, <1>4 DEF Change, Busy
  <2> QED BY <2>2, <2>3
<1>8. \A a, b \in Threads :
        call'[a].pc # "idle" /\ call'[b].pc # "idle" /\ call'[a].id = call'[b].id => a = b
  <2>1. ASSUME NEW u \in Threads \ {t}, call'[u].pc # "idle", call'[t].pc # "idle"
        PROVE  call'[u].id # call'[t].id
    <3>1. call[u].pc # "idle" /\ call'[u].id = call[u].id /\ call[u].id \in 1 .. saves
      BY <2>1, <1>1, <1>2 DEF Follows, Busy
    <3>2. Goes(t, p) BY <2>1 DEF Change
    <3>3. \/ call'[t].id = saves + 1
          \/ call[t].pc # "idle" /\ call'[t].id = call[t].id
      BY <3>2 DEF Goes
    <3> QED BY <3>1, <3>3, <1>0 DEF IInv, Inodes
  <2>2. ASSUME NEW a \in Threads \ {t}, NEW b \in Threads \ {t},
               call'[a].pc # "idle", call'[b].pc # "idle", call'[a].id = call'[b].id
        PROVE  a = b
    BY <2>2, <1>1 DEF Follows, IInv, Inodes
  <2> QED BY <2>1, <2>2
<1>9. ASSUME NEW u \in Threads, Unlinked(u)'
      PROVE  (\A q \in Places : files'[q] # call'[u].id) /\ content'[call'[u].id] = <<>>
  <2>1. CASE u = t
    <3>1. Goes(t, p) BY <1>9, <2>1 DEF Change, Unlinked
    <3>2. /\ call'[t].id = saves + 1 /\ saves' = saves + 1
          /\ files' = files /\ content' = content
      BY <3>1, <1>9, <2>1 DEF Goes
    <3>3. content[saves + 1] = <<>> BY <3>2, <1>0 DEF IInv, Inodes
    <3> QED BY <3>2, <3>3, <1>0, <1>3, <2>1
  <2>2. CASE u # t
    <3>1. Unlinked(u) /\ call'[u].id = call[u].id BY <1>1, <1>9, <2>2 DEF Unlinked, Follows
    <3>2. /\ \A q \in Places : files[q] # call[u].id
          /\ content[call[u].id] = <<>> /\ call[u].id \in 1 .. saves
      BY <3>1, <1>4 DEF IInv, Inodes
    <3>3. Unlinked(t) => call[t].id # call[u].id
      BY <3>1, <1>4, <2>2 DEF IInv, Inodes
    <3>4. call[t].pc = "write" => call[t].file # call[u].id
      BY <3>1 DEF IInv, Inodes
    <3>5. \A q \in Places : files'[q] # call[u].id BY <3>2, <3>3, <1>0 DEF Change
    <3>6. content'[call[u].id] = content[call[u].id]
      BY <3>2, <3>3, <3>4, <1>0 DEF Change
    <3> QED BY <3>1, <3>2, <3>5, <3>6
  <2> QED BY <2>1, <2>2
<1>10. ASSUME NEW a \in Threads, NEW b \in Threads, Unlinked(a)', call'[b].pc = "write"
       PROVE  call'[b].file # call'[a].id
  <2>1. CASE b = t
    <3>1. call'[b].file = files'[p] BY <1>10, <2>1 DEF Change, Goes
    <3> QED BY <3>1, <1>9, <1>10
  <2>2. CASE b # t
    <3>1. call[b].pc = "write" /\ call'[b].file = call[b].file BY <1>1, <1>10, <2>2 DEF Follows
    <3>2. call[b].file \in 1 .. saves BY <3>1, <1>2 DEF Busy
    <3>3. CASE a = t
      <4>1. call'[a].id = saves + 1 BY <1>10, <3>3 DEF Change, Goes, Unlinked
      <4> QED BY <4>1, <3>1, <3>2, <1>0
    <3>4. CASE a # t
      <4>1. Unlinked(a) /\ call'[a].id = call[a].id BY <1>1, <1>10, <3>4 DEF Unlinked, Follows
      <4> QED BY <4>1, <3>1 DEF IInv, Inodes
    <3> QED BY <3>3, <3>4
  <2> QED BY <2>1, <2>2
<1>11. ASSUME NEW b \in Threads, NEW q \in Places,
              call'[b].pc = "write", files'[q] = call'[b].file
       PROVE  q = call'[b].at
  <2>1. CASE b = t
    <3>1. call'[t].at = p /\ call'[t].file = files'[p] /\ files'[p] # 0
      BY <1>11, <2>1 DEF Change, Goes
    <3> QED BY <3>1, <1>6, <1>11, <2>1
  <2>2. CASE b # t
    <3>1. /\ call[b].pc = "write" /\ call'[b].file = call[b].file /\ call'[b].at = call[b].at
      BY <1>1, <1>11, <2>2 DEF Follows
    <3>2. call[b].file \in 1 .. saves BY <3>1, <1>2 DEF Busy
    <3>3. Unlinked(t) => call[b].file # call[t].id BY <3>1 DEF IInv, Inodes
    <3>4. files'[q] = files[q] BY <3>1, <3>2, <3>3, <1>0, <1>11 DEF Change
    <3> QED BY <3>1, <3>4, <1>11 DEF IInv, Inodes
  <2> QED BY <2>1, <2>2
<1> QED BY <1>5, <1>6, <1>7, <1>8, <1>9, <1>10, <1>11 DEF Inodes

(* ... keeps the accounts of who overlaps whom, ... *)
LEMMA ApartKeeps ==
    ASSUME IInv, NEW t \in Threads, NEW p \in Places, Change(t, p),
           settled'[p].end # "open" => \A u \in Threads : ~Touches(u, p)'
    PROVE  Apart'
<1>1. \A u \in Threads \ {t} : Follows(u) BY DEF Change, Following
<1>2. \A u \in Threads \ {t}, q \in Places : Touches(u, q)' <=> Touches(u, q)
  BY <1>1 DEF Follows, Touches, Touching
<1>3. \A q \in Places : Touches(t, q)' => q = p /\ Goes(t, p) /\ Touching(t)'
  BY DEF Touches, Touching, Change, Goes
<1>4. ASSUME NEW a \in Threads, NEW b \in Threads, NEW q \in Places,
             Touches(a, q)', Touches(b, q)', ~call'[a].disturbed
      PROVE  a = b
  <2>1. CASE a # t /\ b # t
    BY <1>1, <1>2, <1>4, <2>1 DEF Follows, IInv, Apart
  <2>2. CASE a = t /\ b # t
    <3>1. q = p /\ Touches(b, p) BY <1>2, <1>3, <1>4, <2>2
    <3>2. Warned(t, p) \/ (Touches(t, p) /\ (call[t].disturbed => call'[t].disturbed))
      BY <1>3, <1>4, <2>2 DEF Goes
    <3> QED BY <3>1, <3>2, <1>4, <2>2 DEF Warned, Alarmed, IInv, Apart
  <2>3. CASE a # t /\ b = t
    <3>1. q = p /\ Touches(a, p) /\ ~call[a].disturbed
      BY <1>1, <1>2, <1>3, <1>4, <2>3 DEF Follows
    <3>2. Warned(t, p) \/ Touches(t, p) BY <1>3, <1>4, <2>3 DEF Goes
    <3> QED BY <3>1, <3>2, <1>4, <2>3 DEF Warned, Alarmed, IInv, Apart
  <2> QED BY <2>1, <2>2, <2>3
<1>5. ASSUME NEW q \in Places \ {p}, settled'[q].end # "open", NEW u \in Threads
      PROVE  ~Touches(u, q)'
  <2>1. settled[q].end # "open" BY <1>5 DEF Change
  <2> QED BY <2>1, <1>2, <1>3, <1>5 DEF IInv, Apart
<1> QED BY <1>4, <1>5 DEF Apart

(* A file under another name, and one under this name when nobody else is at  *)
(* work there, keeps its bytes.                                               *)
LEMMA ElsewhereKept ==
    ASSUME IInv, NEW t \in Threads, NEW p \in Places, Change(t, p),
           NEW q \in Places \ {p}, files[q] # 0
    PROVE  files'[q] = files[q] /\ content'[files[q]] = content[files[q]]
<1>1. files'[q] = files[q] /\ files[q] \in 1 .. MaxSaves BY Shapes DEF Change
<1>2. files[q] # files[p] BY DEF IInv, Inodes
<1>3. Unlinked(t) => files[q] # call[t].id BY DEF IInv, Inodes
<1>4. call[t].pc = "write" => files[q] # call[t].file
  BY DEF Change, IInv, Inodes
<1> QED BY <1>1, <1>2, <1>3, <1>4 DEF Change

(* ... leaves undisturbed saves what they have done, ... *)
LEMMA UndisturbedKeeps ==
    ASSUME IInv, NEW t \in Threads, NEW p \in Places, Change(t, p),
           call'[t].pc # "idle" /\ ~call'[t].disturbed => Own(t)'
    PROVE  Undisturbed'
<1> SUFFICES ASSUME NEW u \in Threads \ {t}, call'[u].pc # "idle", ~call'[u].disturbed
             PROVE  Own(u)'
  BY DEF Undisturbed
<1>1. Follows(u) BY DEF Change, Following
<1>2. call[u].pc # "idle" /\ ~call[u].disturbed /\ Own(u)
  BY <1>1 DEF Follows, IInv, Undisturbed
<1>3. call[u].at \in Places BY <1>2, Shapes
<1>4. CASE call[u].pc \notin {"write", "finish"}
  BY <1>1, <1>4 DEF Follows, Own
<1>5. CASE call[u].pc \in {"write", "finish"}
  <2>1. files[call[u].at] # 0
    BY <1>2, <1>5 DEF Own, IInv, Underway, Busy
  <2>2. CASE call[u].at # p
    <3>1. /\ files'[call[u].at] = files[call[u].at]
          /\ content'[files[call[u].at]] = content[files[call[u].at]]
      BY <1>3, <2>1, <2>2, ElsewhereKept
    <3> QED BY <1>1, <1>2, <3>1 DEF Follows, Own
  <2>3. CASE call[u].at = p
    <3>1. Touches(u, p) BY <1>5, <2>3 DEF Touches, Touching
    <3>2. ~Touches(t, p) BY <3>1, <1>2 DEF IInv, Apart
    <3>3. ~Alarmed(t, p) BY <3>1 DEF Alarmed
    <3>4. files' = files /\ content' = content BY <3>2, <3>3 DEF Change
    <3> QED BY <1>1, <1>2, <3>4 DEF Follows, Own
  <2> QED BY <2>2, <2>3
<1> QED BY <1>4, <1>5

(* ... and what is settled elsewhere settled. *)
LEMMA AtRestKeeps ==
    ASSUME IInv, NEW t \in Threads, NEW p \in Places, Change(t, p), Rest(p)'
    PROVE  AtRest'
<1> SUFFICES ASSUME NEW q \in Places \ {p} PROVE Rest(q)'
  BY DEF AtRest
<1>1. /\ Rest(q) /\ config' = config /\ settled'[q] = settled[q] /\ files'[q] = files[q]
  BY DEF IInv, AtRest, Change
<1>2. files[q] # 0 => content'[files[q]] = content[files[q]] BY ElsewhereKept
<1> QED BY <1>1, <1>2 DEF Rest, Supported, manager, Backend

Typed == /\ files \in [Places -> 0 .. MaxSaves]
         /\ content \in [1 .. MaxSaves -> Data]
         /\ call \in [Threads -> Calls]
         /\ settled \in [Places -> [end : {"open", "saved", "gone"}, data : Data]]

(* So only t and p are left to look at. *)
LEMMA ChangeKeeps ==
    ASSUME IInv, NEW t \in Threads, NEW p \in Places, Change(t, p), Typed', Busy(t)',
           settled'[p].end # "open" => \A u \in Threads : ~Touches(u, p)',
           call'[t].pc # "idle" /\ ~call'[t].disturbed => Own(t)',
           Rest(p)'
    PROVE  IInv'
<1>1. TypeOK'
  <2>1. ASSUME NEW u \in Threads, call'[u].pc # "idle" PROVE call'[u].at \in Places
    <3>1. CASE u = t BY <2>1, <3>1 DEF Change, Goes
    <3>2. CASE u # t
      <4>1. Follows(u) BY <3>2 DEF Change, Following
      <4> QED BY <2>1, <4>1, Shapes DEF Follows
    <3> QED BY <3>1, <3>2
  <2>2. config' \in Configs /\ saves' \in 0 .. MaxSaves BY Shapes DEF Change
  <2> QED BY <2>1, <2>2 DEF Typed, TypeOK
<1>2. Underway' BY UnderwayKeeps
<1>3. Inodes' BY InodesKeeps
<1>4. Apart' BY ApartKeeps
<1>5. Undisturbed' BY UndisturbedKeeps
<1>6. AtRest' BY AtRestKeeps
<1> QED BY <1>1, <1>2, <1>3, <1>4, <1>5, <1>6 DEF IInv

-----------------------------------------------------------------------------
(* The steps of a save and Delete, one by one.                                *)

(* A name the manager accepts leads to a place. *)
LEMMA LeadsToPlace ==
    ASSUME config \in Configs, NEW d \in manager.disks, NEW c \in Located, c.ok
    PROVE  Place(d, c.segs) \in Places
<1>1. d \in UNION {DiskNames(DOMAIN k.backends) : k \in Configs} BY DEF manager
<1>2. c \in {l \in Located : l.ok} OBVIOUS
<1> QED BY <1>1, <1>2 DEF Places

(* Names, and names that are generated, are located. *)
LEMMA NameLocated ==
    ASSUME saves \in Nat, saves < MaxSaves, NEW dir \in Dirs, NEW name \in FileNames
    PROVE  cleanObjectPath(JoinDir(dir, name)) \in Located
<1>1. CASE name \in Names BY <1>1 DEF Located, AnyName
<1>2. CASE name = Name(0, <<Generated[saves + 1]>>)
  <2>1. saves + 1 \in DOMAIN Generated BY SavesAssumption
  <2>2. Generated[saves + 1] \in Range(Generated) BY <2>1 DEF Range
  <2>3. name \in AnyName BY <1>2, <2>2 DEF AnyName
  <2> QED BY <2>3 DEF Located
<1> QED BY <1>1, <1>2 DEF FileNames

(* So is a name without a directory. *)
LEMMA PlainNameLocated ==
    ASSUME NEW name \in Names
    PROVE  cleanObjectPath(name) \in Located
<1>1. PICK dir \in Dirs : dir = <<>> BY NameAssumption
<1>2. JoinDir(dir, name) = name BY <1>1 DEF JoinDir
<1>3. cleanObjectPath(JoinDir(dir, name)) \in Located BY DEF Located, AnyName
<1> QED BY <1>2, <1>3

(* A save begins: one that may harm what is at its place disturbs the others. *)
LEMMA SaveKeeps ==
    ASSUME IInv, NEW t \in Threads, NEW size \in Nat, NEW maxBytes, NEW diskName,
           NEW dir \in Dirs, NEW name \in FileNames, NEW overwrite \in BOOLEAN,
           Save(t, size, size, maxBytes, diskName, dir, name, overwrite)
    PROVE  IInv'
<1>1. PICK d, c, p : /\ d = DiskFor(manager, diskName)
                     /\ c = cleanObjectPath(JoinDir(dir, name))
                     /\ p = Place(d, c.segs)
  OBVIOUS
<1>2. /\ call[t].pc = "idle" /\ saves < MaxSaves /\ Supported(d) /\ c.ok
      /\ saves' = saves + 1
      /\ config' = config /\ files' = files /\ content' = content
  BY <1>1 DEF Save
<1>3. p \in Places /\ p.disk = d
  BY <1>1, <1>2, LeadsToPlace, NameLocated, Shapes DEF Supported, Place
<1>4. PICK pc, new, touches :
        /\ pc = IF Backend(d) = "upyun" THEN "put" ELSE "open"
        /\ touches = (Backend(d) = "upyun" \/ overwrite)
        /\ new = [pc |-> pc, at |-> p, id |-> saves + 1, file |-> 0, size |-> size,
                  asked |-> size, overwrite |-> overwrite, disturbed |-> FALSE]
  OBVIOUS
<1>5. /\ call' = IF touches THEN Disturb(t, p, new) ELSE [call EXCEPT ![t] = new]
      /\ settled' = IF touches THEN [settled EXCEPT ![p] = Open] ELSE settled
  BY <1>1, <1>4 DEF Save
<1>6. new \in Calls /\ touches \in BOOLEAN /\ pc \in {"open", "put"}
  BY <1>2, <1>3, <1>4, Shapes DEF Calls
<1>7. /\ call' \in [Threads -> Calls] /\ Following(t)
      /\ touches => Warned(t, p)
      /\ call'[t].pc = pc /\ call'[t].at = p /\ call'[t].id = saves + 1
      /\ call'[t].size = size /\ call'[t].asked = size /\ call'[t].overwrite = overwrite
  <2>1. CASE touches
    <3>1. call' = Disturb(t, p, new) BY <1>5, <2>1
    <3>2. /\ call' \in [Threads -> Calls] /\ Following(t) /\ Warned(t, p)
          /\ call'[t].pc = new.pc /\ call'[t].at = new.at /\ call'[t].id = new.id
          /\ call'[t].size = new.size /\ call'[t].asked = new.asked
          /\ call'[t].overwrite = new.overwrite
      BY <3>1, <1>3, <1>6, DisturbEffect
    <3> QED BY <3>2, <1>4
  <2>2. CASE ~touches
    BY <1>4, <1>5, <1>6, <2>2, Shapes DEF Following, Follows
  <2> QED BY <2>1, <2>2
<1>8. Touching(t)' => touches BY <1>4, <1>7 DEF Touching
<1>9. Goes(t, p) BY <1>2, <1>6, <1>7, <1>8 DEF Goes, Unlinked
<1>10. Change(t, p)
  <2>1. \A q \in Places \ {p} : settled'[q] = settled[q] BY <1>5, Shapes
  <2>2. saves <= saves' /\ saves' \in 0 .. MaxSaves BY <1>2, Shapes
  <2> QED BY <2>1, <2>2, <1>2, <1>7, <1>9 DEF Change
<1>11. Typed'
  <2>1. settled' \in [Places -> [end : {"open", "saved", "gone"}, data : Data]]
    BY <1>3, <1>5, Shapes DEF Open, Data
  <2> QED BY <2>1, <1>2, <1>7, Shapes DEF Typed
<1>12. Busy(t)'
  BY <1>2, <1>3, <1>6, <1>7, Shapes DEF Busy, Supported, manager, Backend
<1>13. settled'[p].end # "open" => /\ settled'[p] = settled[p]
                                   /\ \A u \in Threads : ~Touches(u, p)'
  <2> SUFFICES ASSUME settled'[p].end # "open"
               PROVE  /\ settled'[p] = settled[p]
                      /\ \A u \in Threads : ~Touches(u, p)'
    OBVIOUS
  <2>1. ~touches BY <1>3, <1>5, Shapes DEF Open
  <2>2. settled'[p] = settled[p] BY <1>5, <2>1
  <2>3. \A u \in Threads \ {t} : ~Touches(u, p)'
    BY <2>2, <1>3, <1>7 DEF Following, Follows, Touches, Touching, IInv, Apart
  <2> QED BY <2>1, <2>2, <2>3, <1>8 DEF Touches
<1>14. Own(t)' BY <1>6, <1>7 DEF Own
<1>15. Rest(p)'
  <2>1. Rest(p) BY <1>3 DEF IInv, AtRest
  <2>2. settled'[p] = settled[p] \/ settled'[p].end = "open" BY <1>13
  <2> QED BY <2>1, <2>2, <1>2 DEF Rest, Supported, manager, Backend
<1> QED BY <1>3, <1>10, <1>11, <1>12, <1>13, <1>14, <1>15, ChangeKeeps

(* What the reader of an upload accepts is everything the client sent. *)
LEMMA ReadsAll ==
    ASSUME NEW size \in Nat, NEW limit \in Nat,
           ~TooLarge(ReadUpload(size, limit), limit)
    PROVE  ReadUpload(size, limit) = size
BY SizeAssumption DEF TooLarge, ReadUpload, Limit, Lesser

(* The three ways to begin a save. *)
LEMMA BeginKeeps ==
    ASSUME IInv, NEW t \in Threads, SaveBytes(t) \/ Put(t) \/ SaveUpload(t)
    PROVE  IInv'
<1>1. CASE SaveBytes(t)
  <2>1. PICK size \in Sizes, limit \in Limits, d \in {""} \union manager.disks,
             dir \in Dirs, name \in FileNames, overwrite \in BOOLEAN :
               Save(t, size, size, limit, d, dir, name, overwrite)
    BY <1>1 DEF SaveBytes
  <2>2. size \in Nat BY SizeAssumption
  <2> QED BY <2>1, <2>2, SaveKeeps
<1>2. CASE Put(t)
  <2>1. PICK size \in Sizes, d \in {""} \union manager.disks, name \in Names :
               Save(t, size, size, 0, d, <<>>, name, TRUE)
    BY <1>2 DEF Put
  <2>2. size \in Nat /\ <<>> \in Dirs /\ name \in FileNames
    BY SizeAssumption, NameAssumption DEF FileNames
  <2> QED BY <2>1, <2>2, SaveKeeps
<1>3. CASE SaveUpload(t)
  <2>1. PICK size \in Sizes, limit \in Limits, d \in {""} \union manager.disks,
             dir \in Dirs, name \in FileNames, overwrite \in BOOLEAN :
               Save(t, ReadUpload(size, limit), size, limit, d, dir, name, overwrite)
    BY <1>3 DEF SaveUpload
  <2>2. size \in Nat /\ limit \in Nat BY SizeAssumption
  <2>3. ~TooLarge(ReadUpload(size, limit), limit) BY <2>1 DEF Save
  <2>4. ReadUpload(size, limit) = size BY <2>2, <2>3, ReadsAll
  <2>5. Save(t, size, size, limit, d, dir, name, overwrite) BY <2>1, <2>4
  <2> QED BY <2>2, <2>5, SaveKeeps
<1> QED BY <1>1, <1>2, <1>3

(* What a write leaves in the file. *)
LEMMA OverlayIsData ==
    ASSUME NEW old \in Data, NEW n \in 1 .. MaxSaves, NEW size \in Nat
    PROVE  Overlay(old, n, size) \in Data /\ Bytes(n, size) \in Data
<1> DEFINE D == (1 .. MaxSaves) \X Nat
<1>1. PICK m \in Nat : m = IF Len(old) > size THEN Len(old) ELSE size
  BY DEF Data
<1>2. ASSUME NEW i \in 1 .. m PROVE (IF i <= size THEN <<n, i>> ELSE old[i]) \in D
  <2>1. i \in Nat BY <1>1
  <2>2. CASE i <= size BY <2>1, <2>2
  <2>3. CASE ~(i <= size)
    <3>1. i \in 1 .. Len(old) BY <1>1, <2>3 DEF Data
    <3> QED BY <3>1, <2>3 DEF Data
  <2> QED BY <2>2, <2>3
<1>3. [i \in 1 .. m |-> IF i <= size THEN <<n, i>> ELSE old[i]] \in [1 .. m -> D]
  BY <1>2
<1>4. Overlay(old, n, size) \in [1 .. m -> D] BY <1>1, <1>3 DEF Overlay
<1>5. Bytes(n, size) \in [1 .. size -> D] BY DEF Bytes
<1>6. \A k \in Nat : \A f \in [1 .. k -> D] : f \in Seq(D) OBVIOUS
<1> QED BY <1>4, <1>5, <1>6 DEF Data

(* On an empty file these are the bytes of the save. *)
LEMMA OverlayEmpty ==
    ASSUME NEW n, NEW size \in Nat
    PROVE  Overlay(<<>>, n, size) = Bytes(n, size)
<1>1. (IF Len(<<>>) > size THEN Len(<<>>) ELSE size) = size OBVIOUS
<1>2. \A i \in 1 .. size : i <= size OBVIOUS
<1> QED BY <1>1, <1>2 DEF Overlay, Bytes

(* The goroutine is out of the save. *)
LEMMA ReturnEffect ==
    ASSUME IInv, NEW t \in Threads, Return(t)
    PROVE  /\ call' \in [Threads -> Calls] /\ call'[t].pc = "idle" /\ Following(t)
           /\ Busy(t)' /\ \A p \in Places : ~Touches(t, p)'
<1>1. call'[t] = Idle /\ call' \in [Threads -> Calls] BY Shapes, IdleIsCall DEF Return
<1>2. Following(t) BY Shapes DEF Return, Following, Follows
<1> QED BY <1>1, <1>2, IdleIsCall DEF Busy, Touches, Touching

(* Its step to pc, with the file it has open. *)
LEMMA MoveEffect ==
    ASSUME IInv, NEW t \in Threads, NEW pc \in {"write", "finish"}, NEW n \in 0 .. MaxSaves,
           \/ call' = [call EXCEPT ![t].pc = pc, ![t].file = n]
           \/ call' = [call EXCEPT ![t].pc = pc] /\ n = call[t].file
    PROVE  /\ call' \in [Threads -> Calls] /\ Following(t)
           /\ call'[t].pc = pc /\ call'[t].file = n
           /\ call'[t].at = call[t].at /\ call'[t].id = call[t].id
           /\ call'[t].size = call[t].size /\ call'[t].asked = call[t].asked
           /\ call'[t].overwrite = call[t].overwrite
           /\ call'[t].disturbed = call[t].disturbed
<1>1. \A u \in Threads \ {t} : call'[u] = call[u] BY Shapes
<1>2. Following(t) BY <1>1 DEF Following, Follows
<1>3. call[t] \in Calls /\ call[t].file \in 0 .. MaxSaves BY Shapes
<1>4. \/ call'[t] = [call[t] EXCEPT !.pc = pc, !.file = n]
      \/ call'[t] = [call[t] EXCEPT !.pc = pc] /\ n = call[t].file
  BY Shapes
<1>5. call'[t] \in Calls BY <1>3, <1>4 DEF Calls
<1>6. call' \in [Threads -> Calls] BY <1>5, Shapes
<1> QED BY <1>2, <1>3, <1>4, <1>6 DEF Calls

(* The others at a place where t is at work are not settled. *)
LEMMA OpenWhileTouched ==
    ASSUME IInv, NEW t \in Threads, NEW p \in Places, Touches(t, p)
    PROVE  settled[p].end = "open"
BY DEF IInv, Apart

(* Supported depends on the configuration only. *)
LEMMA SameDisks == config' = config => \A d : Supported(d)' <=> Supported(d)
BY DEF Supported, manager, Backend

(* OpenFails: the save is over before it did anything. *)
LEMMA OpenFailsKeeps ==
    ASSUME IInv, NEW t \in Threads, OpenFails(t)
    PROVE  IInv'
<1>1. /\ call[t].pc = "open" /\ Return(t)
      /\ UNCHANGED <<config, files, content, saves, settled>>
  BY DEF OpenFails
<1>2. PICK p \in Places : p = call[t].at BY <1>1, Shapes
<1>3. Change(t, p) BY <1>1, <1>2, ReturnEffect, Shapes DEF Change
<1>4. Typed' BY <1>1, ReturnEffect, Shapes DEF Typed
<1>5. settled'[p].end # "open" => \A u \in Threads : ~Touches(u, p)'
  BY <1>1, ReturnEffect DEF Following, Follows, Touches, Touching, IInv, Apart
<1>6. Rest(p)' BY <1>1, SameDisks DEF Rest, IInv, AtRest
<1> QED BY <1>1, <1>3, <1>4, <1>5, <1>6, ReturnEffect, ChangeKeeps

(* An overwriting save empties the file it finds, or makes one. *)
LEMMA OpenTruncatingKeeps ==
    ASSUME IInv, NEW t \in Threads, OpenTruncating(t)
    PROVE  IInv'
<1>1. call[t].pc = "open" /\ call[t].overwrite /\ call[t].at.segs # <<>>
  BY DEF OpenTruncating
<1>2. PICK p \in Places : p = call[t].at BY <1>1, Shapes
<1>3. PICK n : n = IF files[p] = 0 THEN call[t].id ELSE files[p] OBVIOUS
<1>4. /\ files' = [files EXCEPT ![p] = n] /\ content' = [content EXCEPT ![n] = <<>>]
      /\ call' = [call EXCEPT ![t].pc = "write", ![t].file = n]
      /\ UNCHANGED <<config, saves, settled>>
  BY <1>2, <1>3 DEF OpenTruncating
<1>5. Busy(t) /\ call[t].id \in 1 .. saves /\ files[p] \in 0 .. saves
  BY <1>1, Shapes DEF IInv, Underway, Busy, Inodes
<1>6. n \in 1 .. saves /\ n \in 1 .. MaxSaves /\ n \in 0 .. MaxSaves
  BY <1>3, <1>5, Shapes
<1>7. Touches(t, p) BY <1>1, <1>2 DEF Touches, Touching
<1>8. /\ call' \in [Threads -> Calls] /\ Following(t)
      /\ call'[t].pc = "write" /\ call'[t].file = n
      /\ call'[t].at = p /\ call'[t].id = call[t].id
      /\ call'[t].size = call[t].size /\ call'[t].asked = call[t].asked
      /\ call'[t].disturbed = call[t].disturbed
  BY <1>2, <1>4, <1>6, MoveEffect
<1>9. files'[p] = n /\ content'[n] = <<>> /\ n # 0 BY <1>4, <1>6, Shapes
<1>10. Goes(t, p) BY <1>1, <1>7, <1>8, <1>9 DEF Goes, Unlinked
<1>11. Change(t, p)
  <2>1. \A q \in Places \ {p} : files'[q] = files[q] /\ settled'[q] = settled[q]
    BY <1>4, Shapes
  <2>2. n = files[p] \/ (Unlinked(t) /\ n = call[t].id) BY <1>1, <1>3 DEF Unlinked
  <2>3. \A k \in 1 .. MaxSaves : content'[k] # content[k] => k = n BY <1>4, Shapes
  <2>4. p.segs # <<>> BY <1>1, <1>2
  <2> QED BY <2>1, <2>2, <2>3, <2>4, <1>2, <1>4, <1>7, <1>8, <1>9, <1>10, Shapes DEF Change
<1>12. Typed'
  <2>1. <<>> \in Data BY DEF Data
  <2> QED BY <2>1, <1>4, <1>6, <1>8, Shapes DEF Typed
<1>13. Busy(t)' BY <1>1, <1>2, <1>4, <1>5, <1>6, <1>8, SameDisks DEF Busy
<1>14. settled'[p].end = "open" BY <1>4, <1>7, OpenWhileTouched
<1>15. Own(t)' BY <1>8, <1>9 DEF Own
<1>16. Rest(p)' BY <1>14 DEF Rest
<1> QED BY <1>11, <1>12, <1>13, <1>14, <1>15, <1>16, ChangeKeeps

(* A save without Overwrite makes its file where there was none. *)
LEMMA OpenExclusiveKeeps ==
    ASSUME IInv, NEW t \in Threads, OpenExclusive(t)
    PROVE  IInv'
<1>1. call[t].pc = "open" /\ ~call[t].overwrite /\ call[t].at.segs # <<>>
  BY DEF OpenExclusive
<1>2. PICK p \in Places : p = call[t].at BY <1>1, Shapes
<1>3. PICK n : n = call[t].id OBVIOUS
<1>4. PICK c : c = [call[t] EXCEPT !.pc = "write", !.file = n] OBVIOUS
<1>5. /\ files[p] = 0 /\ files' = [files EXCEPT ![p] = n] /\ content' = content
      /\ call' = Disturb(t, p, c)
      /\ settled' = IF settled[p] = Gone THEN [settled EXCEPT ![p] = Open] ELSE settled
      /\ UNCHANGED <<config, saves>>
  BY <1>2, <1>3, <1>4 DEF OpenExclusive
<1>6. Busy(t) /\ n \in 1 .. saves /\ n \in 0 .. MaxSaves /\ n # 0 /\ n \in 1 .. MaxSaves
  BY <1>1, <1>3, Shapes DEF IInv, Underway, Busy
<1>7. /\ c \in Calls /\ c.pc = "write" /\ c.file = n /\ c.at = p /\ c.id = n
      /\ c.size = call[t].size /\ c.asked = call[t].asked
  <2>1. call[t] \in Calls BY Shapes
  <2> QED BY <2>1, <1>2, <1>3, <1>4, <1>6 DEF Calls
<1>8. /\ call' \in [Threads -> Calls] /\ Following(t) /\ Warned(t, p)
      /\ call'[t].pc = c.pc /\ call'[t].at = c.at /\ call'[t].id = c.id
      /\ call'[t].file = c.file /\ call'[t].size = c.size /\ call'[t].asked = c.asked
  BY <1>5, <1>7, DisturbEffect
<1>9. files'[p] = n BY <1>5, Shapes
<1>10. Goes(t, p) BY <1>1, <1>3, <1>6, <1>7, <1>8, <1>9 DEF Goes, Unlinked
<1>11. Change(t, p)
  <2>1. \A q \in Places \ {p} : files'[q] = files[q] /\ settled'[q] = settled[q]
    BY <1>5, Shapes
  <2> QED BY <2>1, <1>1, <1>2, <1>3, <1>5, <1>8, <1>9, <1>10, Shapes
     DEF Change, Unlinked, Warned
<1>12. Typed'
  <2>1. settled' \in [Places -> [end : {"open", "saved", "gone"}, data : Data]]
    BY <1>5, Shapes DEF Open, Data
  <2> QED BY <2>1, <1>5, <1>6, <1>8, Shapes DEF Typed
<1>13. Busy(t)' BY <1>1, <1>2, <1>5, <1>6, <1>7, <1>8, SameDisks DEF Busy
<1>14. settled'[p].end = "open"
  <2>1. settled[p].end # "saved" /\ (settled[p].end = "gone" => settled[p] = Gone)
    BY <1>5 DEF IInv, AtRest, Rest
  <2>2. settled[p].end \in {"open", "saved", "gone"} BY Shapes
  <2> QED BY <2>1, <2>2, <1>5, Shapes DEF Open
<1>15. Own(t)'
  <2>1. content[n] = <<>> BY <1>1, <1>3 DEF IInv, Inodes, Unlinked
  <2> QED BY <2>1, <1>5, <1>7, <1>8, <1>9 DEF Own
<1>16. Rest(p)' BY <1>14 DEF Rest
<1> QED BY <1>11, <1>12, <1>13, <1>14, <1>15, <1>16, ChangeKeeps

(* The write itself. *)
LEMMA WriteKeeps ==
    ASSUME IInv, NEW t \in Threads, Write(t)
    PROVE  IInv'
<1>1. call[t].pc = "write" BY DEF Write
<1>2. PICK p \in Places : p = call[t].at BY <1>1, Shapes
<1>3. PICK n, id, size : n = call[t].file /\ id = call[t].id /\ size = call[t].size OBVIOUS
<1>4. /\ content' = [content EXCEPT ![n] = Overlay(@, id, size)]
      /\ call' = [call EXCEPT ![t].pc = "finish"]
      /\ UNCHANGED <<config, files, saves, settled>>
  BY <1>3 DEF Write
<1>5. Busy(t) /\ n \in 1 .. saves /\ id \in 1 .. saves /\ p.segs # <<>>
  BY <1>1, <1>2, <1>3 DEF IInv, Underway, Busy
<1>6. /\ n \in 1 .. MaxSaves /\ n \in 0 .. MaxSaves /\ id \in 1 .. MaxSaves /\ size \in Nat
      /\ n # 0
  BY <1>3, <1>5, Shapes
<1>7. Touches(t, p) BY <1>1, <1>2 DEF Touches, Touching
<1>8. /\ call' \in [Threads -> Calls] /\ Following(t)
      /\ call'[t].pc = "finish" /\ call'[t].at = p /\ call'[t].id = id
      /\ call'[t].size = size /\ call'[t].asked = call[t].asked
      /\ call'[t].disturbed = call[t].disturbed
  BY <1>2, <1>3, <1>4, <1>6, MoveEffect
<1>9. Goes(t, p) BY <1>1, <1>3, <1>7, <1>8 DEF Goes, Unlinked
<1>10. \A k \in 1 .. MaxSaves : content'[k] # content[k] => k = n BY <1>4, Shapes
<1>11. Change(t, p)
  BY <1>1, <1>2, <1>3, <1>4, <1>7, <1>8, <1>9, <1>10, Shapes DEF Change
<1>12. Typed'
  <2>1. Overlay(content[n], id, size) \in Data BY <1>6, Shapes, OverlayIsData
  <2> QED BY <2>1, <1>4, <1>6, <1>8, Shapes DEF Typed
<1>13. Busy(t)' BY <1>1, <1>2, <1>3, <1>4, <1>5, <1>8, SameDisks DEF Busy
<1>14. settled'[p].end = "open" BY <1>4, <1>7, OpenWhileTouched
<1>15. ~call'[t].disturbed => Own(t)'
  <2> SUFFICES ASSUME ~call'[t].disturbed PROVE Own(t)'
    OBVIOUS
  <2>1. files[p] = n /\ content[n] = <<>>
    BY <1>1, <1>2, <1>3, <1>8 DEF IInv, Undisturbed, Own
  <2>2. content'[n] = Bytes(id, size) BY <2>1, <1>4, <1>6, Shapes, OverlayEmpty
  <2> QED BY <2>1, <2>2, <1>4, <1>6, <1>8 DEF Own
<1>16. Rest(p)' BY <1>14 DEF Rest
<1> QED BY <1>11, <1>12, <1>13, <1>14, <1>15, <1>16, ChangeKeeps

(* A step that ends the save of t at a place it was at work on, and leaves    *)
(* that place in whatever state it settles or stays open in.                  *)
LEMMA EndKeeps ==
    ASSUME IInv, NEW t \in Threads, NEW p \in Places, Touches(t, p), Return(t),
           config' = config, saves' = saves, Typed',
           \A q \in Places \ {p} : files'[q] = files[q] /\ settled'[q] = settled[q],
           \/ files'[p] \in {0, files[p]}
           \/ Unlinked(t) /\ files'[p] = call[t].id /\ p.segs # <<>>,
           \A n \in 1 .. MaxSaves : content'[n] # content[n] =>
              \/ Unlinked(t) /\ n = call[t].id
              \/ call[t].pc = "write" /\ n = call[t].file,
           settled'[p].end = "open" \/ (~call[t].disturbed /\ Rest(p)')
    PROVE  IInv'
<1>1. /\ call'[t].pc = "idle" /\ Following(t) /\ Busy(t)' /\ ~Touches(t, p)'
  BY ReturnEffect
<1>2. call[t].at = p BY DEF Touches
<1>3. Change(t, p) BY <1>1, <1>2, Shapes DEF Change
<1>4. settled'[p].end # "open" => \A u \in Threads : ~Touches(u, p)'
  <2> SUFFICES ASSUME settled'[p].end # "open", NEW u \in Threads \ {t}
               PROVE  ~Touches(u, p)'
    BY <1>1
  <2>1. ~Touches(u, p) BY DEF IInv, Apart
  <2> QED BY <2>1, <1>1 DEF Following, Follows, Touches, Touching
<1>5. Rest(p)' BY DEF Rest
<1> QED BY <1>1, <1>3, <1>4, <1>5, ChangeKeeps

(* A write that fails half way. *)
LEMMA WriteFailsKeeps ==
    ASSUME IInv, NEW t \in Threads, WriteFails(t)
    PROVE  IInv'
<1>1. call[t].pc = "write" BY DEF WriteFails
<1>2. PICK p \in Places : p = call[t].at BY <1>1, Shapes
<1>3. PICK n, id : n = call[t].file /\ id = call[t].id OBVIOUS
<1>4. PICK size \in 0 .. call[t].size - 1 :
        content' = [content EXCEPT ![n] = Overlay(@, id, size)]
  BY <1>3 DEF WriteFails
<1>5. Return(t) /\ UNCHANGED <<config, files, saves, settled>> BY DEF WriteFails
<1>6. n \in 1 .. MaxSaves /\ id \in 1 .. MaxSaves /\ size \in Nat
  BY <1>1, <1>3, Shapes DEF IInv, Underway, Busy
<1>7. Touches(t, p) BY <1>1, <1>2 DEF Touches, Touching
<1>8. Typed'
  <2>1. Overlay(content[n], id, size) \in Data BY <1>6, Shapes, OverlayIsData
  <2> QED BY <2>1, <1>4, <1>5, <1>6, ReturnEffect, Shapes DEF Typed
<1>9. \A k \in 1 .. MaxSaves : content'[k] # content[k] => k = n BY <1>4, Shapes
<1>10. settled'[p].end = "open" BY <1>5, <1>7, OpenWhileTouched
<1> QED BY <1>1, <1>3, <1>5, <1>7, <1>8, <1>9, <1>10, EndKeeps

(* The effect of a Put on the bucket. *)
LEMMA PutEffect ==
    ASSUME IInv, NEW t \in Threads, NEW p \in Places, call[t].pc = "put", call[t].at = p,
           files' = [files EXCEPT ![p] = call[t].id],
           content' = [content EXCEPT ![call[t].id] = Bytes(call[t].id, call[t].size)]
    PROVE  /\ Touches(t, p) /\ Unlinked(t)
           /\ call[t].id \in 1 .. saves /\ call[t].id # 0
           /\ files' \in [Places -> 0 .. MaxSaves] /\ content' \in [1 .. MaxSaves -> Data]
           /\ files'[p] = call[t].id
           /\ content'[call[t].id] = Bytes(call[t].id, call[t].size)
           /\ \A q \in Places \ {p} : files'[q] = files[q]
           /\ \A k \in 1 .. MaxSaves : content'[k] # content[k] => k = call[t].id
<1>1. Touches(t, p) /\ Unlinked(t) BY DEF Touches, Touching, Unlinked
<1>2. /\ call[t].id \in 1 .. saves /\ call[t].id \in 1 .. MaxSaves /\ call[t].size \in Nat
      /\ call[t].id \in 0 .. MaxSaves /\ call[t].id # 0
  BY Shapes DEF IInv, Underway, Busy
<1>3. Bytes(call[t].id, call[t].size) \in Data
  BY <1>2, Shapes, OverlayIsData
<1>4. files' \in [Places -> 0 .. MaxSaves] /\ content' \in [1 .. MaxSaves -> Data]
  BY <1>2, <1>3, Shapes
<1> QED BY <1>1, <1>2, <1>4, Shapes

(* A bucket replaces the whole object. *)
LEMMA PutObjectKeeps ==
    ASSUME IInv, NEW t \in Threads, PutObject(t)
    PROVE  IInv'
<1>1. call[t].pc = "put" /\ call[t].at.segs # <<>> BY DEF PutObject
<1>2. PICK p \in Places : p = call[t].at BY <1>1, Shapes
<1>3. PICK id, size : id = call[t].id /\ size = call[t].size OBVIOUS
<1>4. /\ files' = [files EXCEPT ![p] = id]
      /\ content' = [content EXCEPT ![id] = Bytes(id, size)]
      /\ call' = [call EXCEPT ![t].pc = "finish"]
      /\ UNCHANGED <<config, saves, settled>>
  BY <1>2, <1>3 DEF PutObject
<1>5. /\ Touches(t, p) /\ Unlinked(t) /\ id \in 1 .. saves /\ id # 0
      /\ files' \in [Places -> 0 .. MaxSaves] /\ content' \in [1 .. MaxSaves -> Data]
      /\ files'[p] = id /\ content'[id] = Bytes(id, size)
      /\ \A q \in Places \ {p} : files'[q] = files[q]
      /\ \A k \in 1 .. MaxSaves : content'[k] # content[k] => k = id
  BY <1>1, <1>2, <1>3, <1>4, PutEffect
<1>6. /\ call' \in [Threads -> Calls] /\ Following(t)
      /\ call'[t].pc = "finish" /\ call'[t].at = p /\ call'[t].id = id
      /\ call'[t].size = size /\ call'[t].asked = call[t].asked
      /\ call'[t].disturbed = call[t].disturbed
  BY <1>2, <1>3, <1>4, MoveEffect, Shapes
<1>7. Goes(t, p) BY <1>1, <1>3, <1>5, <1>6 DEF Goes, Unlinked
<1>8. Change(t, p) BY <1>1, <1>2, <1>3, <1>4, <1>5, <1>6, <1>7, Shapes DEF Change
<1>9. Typed' BY <1>4, <1>5, <1>6, Shapes DEF Typed
<1>10. Busy(t)'
  <2>1. Busy(t) BY DEF IInv, Underway
  <2> QED BY <2>1, <1>1, <1>2, <1>3, <1>4, <1>5, <1>6, SameDisks DEF Busy
<1>11. settled'[p].end = "open" BY <1>4, <1>5, OpenWhileTouched
<1>12. Own(t)' BY <1>5, <1>6 DEF Own
<1>13. Rest(p)' BY <1>11 DEF Rest
<1> QED BY <1>8, <1>9, <1>10, <1>11, <1>12, <1>13, ChangeKeeps

(* A Put that fails, before or after its effect. *)
LEMMA PutFailsKeeps ==
    ASSUME IInv, NEW t \in Threads, PutFails(t)
    PROVE  IInv'
<1>1. call[t].pc = "put" /\ Return(t) /\ UNCHANGED <<config, saves, settled>>
  BY DEF PutFails
<1>2. PICK p \in Places : p = call[t].at BY <1>1, Shapes
<1>3. Touches(t, p) BY <1>1, <1>2 DEF Touches, Touching
<1>4. settled'[p].end = "open" BY <1>1, <1>3, OpenWhileTouched
<1>5. CASE UNCHANGED <<files, content>>
  <2>1. Typed' BY <1>1, <1>5, ReturnEffect, Shapes DEF Typed
  <2> QED BY <2>1, <1>1, <1>3, <1>4, <1>5, EndKeeps
<1>6. CASE /\ p.segs # <<>> /\ files' = [files EXCEPT ![p] = call[t].id]
           /\ content' = [content EXCEPT ![call[t].id] = Bytes(call[t].id, call[t].size)]
  <2>1. /\ Unlinked(t)
        /\ files' \in [Places -> 0 .. MaxSaves] /\ content' \in [1 .. MaxSaves -> Data]
        /\ files'[p] = call[t].id
        /\ \A q \in Places \ {p} : files'[q] = files[q]
        /\ \A k \in 1 .. MaxSaves : content'[k] # content[k] => k = call[t].id
    BY <1>1, <1>2, <1>6, PutEffect
  <2>2. Typed' BY <2>1, <1>1, ReturnEffect, Shapes DEF Typed
  <2> QED BY <2>1, <2>2, <1>1, <1>3, <1>4, <1>6, EndKeeps
<1> QED BY <1>2, <1>5, <1>6 DEF PutFails

(* How the place stands when the save of t ends with an outcome. *)
LEMMA SettleEffect ==
    ASSUME IInv, NEW t \in Threads, NEW p \in Places, Touches(t, p),
           NEW outcome \in [end : {"open", "saved", "gone"}, data : Data],
           Settle(t, p, outcome)
    PROVE  /\ settled' \in [Places -> [end : {"open", "saved", "gone"}, data : Data]]
           /\ \A q \in Places \ {p} : settled'[q] = settled[q]
           /\ \/ settled'[p].end = "open"
              \/ ~call[t].disturbed /\ settled'[p] = outcome
<1>1. settled[p].end = "open" BY OpenWhileTouched
<1>2. CASE call[t].disturbed BY <1>1, <1>2, Shapes DEF Settle
<1>3. CASE ~call[t].disturbed BY <1>3, Shapes DEF Settle
<1> QED BY <1>2, <1>3

(* A save that returns, undisturbed, left all its bytes. *)
LEMMA SaveReturnsKeeps ==
    ASSUME IInv, NEW t \in Threads, SaveReturns(t)
    PROVE  IInv'
<1>1. /\ call[t].pc = "finish" /\ Return(t)
      /\ UNCHANGED <<config, files, content, saves>>
  BY DEF SaveReturns
<1>2. PICK p \in Places : p = call[t].at BY <1>1, Shapes
<1>3. Touches(t, p) BY <1>1, <1>2 DEF Touches, Touching
<1>4. PICK data : data = Bytes(call[t].id, call[t].asked) OBVIOUS
<1>5. Settle(t, p, Saved(data)) BY <1>2, <1>4 DEF SaveReturns
<1>6. /\ Supported(p.disk) /\ call[t].id \in 1 .. MaxSaves
      /\ call[t].size = call[t].asked /\ call[t].asked \in Nat /\ p.segs # <<>>
  BY <1>1, <1>2, Shapes DEF IInv, Underway, Busy
<1>7. data \in Data
  <2>1. <<>> \in Data BY DEF Data
  <2> QED BY <2>1, <1>4, <1>6, OverlayIsData
<1>8. Saved(data) \in [end : {"open", "saved", "gone"}, data : Data]
  BY <1>7 DEF Saved
<1>9. /\ settled' \in [Places -> [end : {"open", "saved", "gone"}, data : Data]]
      /\ \A q \in Places \ {p} : settled'[q] = settled[q]
      /\ \/ settled'[p].end = "open"
         \/ ~call[t].disturbed /\ settled'[p] = Saved(data)
  BY <1>3, <1>5, <1>8, SettleEffect
<1>10. ASSUME ~call[t].disturbed, settled'[p] = Saved(data) PROVE Rest(p)'
  <2>1. Own(t) BY <1>1, <1>10 DEF IInv, Undisturbed
  <2>2. files[p] # 0 /\ content[files[p]] = data BY <2>1, <1>1, <1>2, <1>4, <1>6 DEF Own
  <2>3. settled'[p].end = "saved" /\ settled'[p].data = data BY <1>10 DEF Saved
  <2> QED BY <2>2, <2>3, <1>1, <1>6, SameDisks DEF Rest
<1>11. Typed' BY <1>1, <1>9, ReturnEffect, Shapes DEF Typed
<1> QED BY <1>1, <1>3, <1>9, <1>10, <1>11, EndKeeps

(* Nothing is left, and nothing is settled, as an absence. *)
LEMMA GoneIsOutcome == /\ Gone \in [end : {"open", "saved", "gone"}, data : Data]
                       /\ Open \in [end : {"open", "saved", "gone"}, data : Data]
                       /\ Gone.end = "gone" /\ Open.end = "open"
<1>1. <<>> \in Data BY DEF Data
<1> QED BY <1>1 DEF Gone, Open

(* A cancelled save removes what is under its name, or fails to. *)
LEMMA CancelKeeps ==
    ASSUME IInv, NEW t \in Threads, SaveCancelled(t)
    PROVE  IInv'
<1>1. call[t].pc = "finish" /\ Return(t) /\ UNCHANGED <<config, content, saves>>
  BY DEF SaveCancelled
<1>2. PICK p \in Places : p = call[t].at BY <1>1, Shapes
<1>3. Touches(t, p) BY <1>1, <1>2 DEF Touches, Touching
<1>4. CASE files' = [files EXCEPT ![p] = 0] /\ Settle(t, p, Gone)
  <2>1. /\ settled' \in [Places -> [end : {"open", "saved", "gone"}, data : Data]]
        /\ \A q \in Places \ {p} : settled'[q] = settled[q]
        /\ \/ settled'[p].end = "open"
           \/ ~call[t].disturbed /\ settled'[p] = Gone
    BY <1>3, <1>4, GoneIsOutcome, SettleEffect
  <2>2. /\ files' \in [Places -> 0 .. MaxSaves] /\ files'[p] = 0
        /\ \A q \in Places \ {p} : files'[q] = files[q]
    BY <1>4, Shapes
  <2>3. settled'[p] = Gone => Rest(p)' BY <2>2, GoneIsOutcome DEF Rest
  <2>4. Typed' BY <2>1, <2>2, <1>1, ReturnEffect, Shapes DEF Typed
  <2> QED BY <2>1, <2>2, <2>3, <2>4, <1>1, <1>3, EndKeeps
<1>5. CASE UNCHANGED <<files, settled>>
  <2>1. Typed' BY <1>1, <1>5, ReturnEffect, Shapes DEF Typed
  <2>2. settled'[p].end = "open" BY <1>3, <1>5, OpenWhileTouched
  <2> QED BY <2>1, <2>2, <1>1, <1>3, <1>5, EndKeeps
<1> QED BY <1>2, <1>4, <1>5 DEF SaveCancelled

(* Delete at a place, alone there or not, with or without its effect. *)
LEMMA RemoveKeeps ==
    ASSUME IInv, NEW t \in Threads, NEW p \in Places, call[t].pc = "idle",
           call' = [Disturb(t, p, Idle) EXCEPT ![t] = Idle],
           config' = config, content' = content, saves' = saves,
           files' = files \/ files' = [files EXCEPT ![p] = 0],
           \/ settled' = [settled EXCEPT ![p] = Open]
           \/ /\ Others(t, p) = {} /\ settled' = [settled EXCEPT ![p] = Gone]
              /\ files' = [files EXCEPT ![p] = 0]
    PROVE  IInv'
<1>1. call'[t] = Idle /\ \A u \in Threads \ {t} : call'[u] = Disturb(t, p, Idle)[u]
  BY DEF Disturb
<1>2. /\ \A u \in Threads \ {t} : call'[u] \in Calls
      /\ Following(t) /\ Alarmed(t, p)
  BY <1>1, DisturbOthers
<1>3. call' \in [Threads -> Calls]
  <2>1. call' = [u \in Threads |-> call'[u]] BY DEF Disturb
  <2>2. \A u \in Threads : call'[u] \in Calls BY <1>1, <1>2, IdleIsCall
  <2> QED BY <2>1, <2>2
<1>4. /\ files' \in [Places -> 0 .. MaxSaves] /\ files'[p] \in {0, files[p]}
      /\ \A q \in Places \ {p} : files'[q] = files[q]
  BY Shapes
<1>5. /\ settled' \in [Places -> [end : {"open", "saved", "gone"}, data : Data]]
      /\ settled'[p] = Open \/ (Others(t, p) = {} /\ settled'[p] = Gone /\ files'[p] = 0)
      /\ \A q \in Places \ {p} : settled'[q] = settled[q]
  <2>1. CASE settled' = [settled EXCEPT ![p] = Open] BY <2>1, Shapes, GoneIsOutcome
  <2>2. CASE /\ Others(t, p) = {} /\ settled' = [settled EXCEPT ![p] = Gone]
             /\ files' = [files EXCEPT ![p] = 0]
    <3>1. files'[p] = 0 BY <2>2, Shapes
    <3> QED BY <2>2, <3>1, Shapes, GoneIsOutcome
  <2> QED BY <2>1, <2>2
<1>6. call'[t].pc = "idle" BY <1>1, IdleIsCall
<1>7. Change(t, p)
  <2>1. saves <= saves' /\ saves' \in 0 .. MaxSaves BY Shapes
  <2> QED BY <2>1, <1>2, <1>4, <1>5, <1>6 DEF Change
<1>8. Typed' BY <1>3, <1>4, <1>5, Shapes DEF Typed
<1>9. Busy(t)' BY <1>6 DEF Busy
<1>10. settled'[p].end # "open" => \A u \in Threads : ~Touches(u, p)'
  <2> SUFFICES ASSUME settled'[p].end # "open" PROVE \A u \in Threads : ~Touches(u, p)'
    OBVIOUS
  <2>1. Others(t, p) = {} BY <1>5, GoneIsOutcome
  <2>2. \A u \in Threads \ {t} : ~Touches(u, p) BY <2>1 DEF Others, Touches
  <2>3. \A u \in Threads \ {t} : ~Touches(u, p)'
    BY <2>2, <1>2 DEF Following, Follows, Touches, Touching
  <2>4. ~Touches(t, p)' BY <1>6 DEF Touches, Touching
  <2> QED BY <2>3, <2>4
<1>11. Rest(p)' BY <1>5, GoneIsOutcome DEF Rest
<1> QED BY <1>6, <1>7, <1>8, <1>9, <1>10, <1>11, ChangeKeeps

(* Delete of a name removes at the place the name leads to. *)
LEMMA DeleteKeeps ==
    ASSUME IInv, NEW t \in Threads, Delete(t)
    PROVE  IInv'
<1>1. PICK diskName \in {""} \union manager.disks, name \in Names,
           removed \in BOOLEAN, ok \in BOOLEAN :
        LET d == DiskFor(manager, diskName)
            c == cleanObjectPath(name)
            p == Place(d, c.segs)
        IN  /\ call[t].pc = "idle"
            /\ Supported(d)
            /\ c.ok /\ c.segs # <<>>
            /\ IF Backend(d) = "upyun" THEN ok => removed ELSE ok = removed
            /\ files' = IF removed THEN [files EXCEPT ![p] = 0] ELSE files
            /\ call' = [Disturb(t, p, Idle) EXCEPT ![t] = Idle]
            /\ settled' = [settled EXCEPT ![p] = IF ok /\ Others(t, p) = {} THEN Gone ELSE Open]
            /\ UNCHANGED <<config, content, saves>>
  BY DEF Delete
<1>2. PICK d, c, p : /\ d = DiskFor(manager, diskName)
                     /\ c = cleanObjectPath(name)
                     /\ p = Place(d, c.segs)
  OBVIOUS
<1>3. /\ call[t].pc = "idle" /\ Supported(d) /\ c.ok
      /\ call' = [Disturb(t, p, Idle) EXCEPT ![t] = Idle]
      /\ config' = config /\ content' = content /\ saves' = saves
  BY <1>1, <1>2
<1>4. files' = IF removed THEN [files EXCEPT ![p] = 0] ELSE files BY <1>1, <1>2
<1>5. settled' = [settled EXCEPT ![p] = IF ok /\ Others(t, p) = {} THEN Gone ELSE Open]
  BY <1>1, <1>2
<1>6. ok => removed BY <1>1, <1>2
<1>7. files' = files \/ files' = [files EXCEPT ![p] = 0] BY <1>4
<1>8. \/ settled' = [settled EXCEPT ![p] = Open]
      \/ /\ Others(t, p) = {} /\ settled' = [settled EXCEPT ![p] = Gone]
         /\ files' = [files EXCEPT ![p] = 0]
  <2>1. CASE ok /\ Others(t, p) = {}
    <3>1. settled' = [settled EXCEPT ![p] = Gone] BY <2>1, <1>5
    <3>2. files' = [files EXCEPT ![p] = 0] BY <2>1, <1>4, <1>6
    <3> QED BY <2>1, <3>1, <3>2
  <2>2. CASE ~(ok /\ Others(t, p) = {}) BY <2>2, <1>5
  <2> QED BY <2>1, <2>2
<1>9. p \in Places
  <2>1. c \in Located BY <1>2, PlainNameLocated
  <2>2. d \in manager.disks BY <1>3 DEF Supported
  <2>3. config \in Configs BY DEF IInv, TypeOK
  <2> QED BY <2>1, <2>2, <2>3, <1>2, <1>3, LeadsToPlace
<1> QED BY <1>3, <1>7, <1>8, <1>9, RemoveKeeps

-----------------------------------------------------------------------------
(* The invariant holds at the start: nothing is stored, nobody is at work. *)
LEMMA IInvInit == Init => IInv
<1> SUFFICES ASSUME Init PROVE IInv
  OBVIOUS
<1>1. /\ config \in Configs /\ saves = 0 /\ MaxSaves \in Nat
      /\ \A p \in Places : files[p] = 0 /\ settled[p] = Open
      /\ \A n \in 1 .. MaxSaves : content[n] = <<>>
      /\ \A t \in Threads : call[t] = Idle
  BY SavesAssumption DEF Init
<1>2. <<>> \in Data BY DEF Data
<1>3. \A t \in Threads : call[t].pc = "idle" BY <1>1, IdleIsCall
<1>4. TypeOK
  <2>1. files \in [Places -> 0 .. MaxSaves] BY SavesAssumption DEF Init
  <2>2. content \in [1 .. MaxSaves -> Data] BY <1>2 DEF Init
  <2>3. call \in [Threads -> Calls] BY IdleIsCall DEF Init
  <2>4. settled \in [Places -> [end : {"open", "saved", "gone"}, data : Data]]
    BY GoneIsOutcome DEF Init
  <2> QED BY <2>1, <2>2, <2>3, <2>4, <1>1, <1>3 DEF TypeOK
<1>5. Underway BY <1>3 DEF Underway, Busy
<1>6. Inodes BY <1>1, <1>3 DEF Inodes, Unlinked
<1>7. Apart BY <1>1, <1>3, GoneIsOutcome DEF Apart, Touches, Touching
<1>8. Undisturbed BY <1>3 DEF Undisturbed
<1>9. AtRest BY <1>1, GoneIsOutcome DEF AtRest, Rest
<1> QED BY <1>4, <1>5, <1>6, <1>7, <1>8, <1>9 DEF IInv

(* Every step keeps it. *)
LEMMA IInvStep == IInv /\ [Next]_vars => IInv'
<1> SUFFICES ASSUME IInv, [Next]_vars PROVE IInv'
  OBVIOUS
<1>1. CASE UNCHANGED vars
  BY <1>1 DEF vars, IInv, TypeOK, Underway, Busy, Supported, manager, Backend, Inodes,
     Unlinked, Apart, Touches, Touching, Undisturbed, Own, AtRest, Rest
<1>2. CASE Next
  <2>1. PICK t \in Threads :
          \/ SaveBytes(t) \/ Put(t) \/ SaveUpload(t)
          \/ OpenTruncating(t) \/ OpenExclusive(t) \/ OpenFails(t)
          \/ Write(t) \/ WriteFails(t)
          \/ PutObject(t) \/ PutFails(t)
          \/ SaveReturns(t) \/ SaveCancelled(t)
          \/ Delete(t)
    BY <1>2 DEF Next
  <2>2. CASE SaveBytes(t) \/ Put(t) \/ SaveUpload(t) BY <2>2, BeginKeeps
  <2>3. CASE OpenTruncating(t) BY <2>3, OpenTruncatingKeeps
  <2>4. CASE OpenExclusive(t) BY <2>4, OpenExclusiveKeeps
  <2>5. CASE OpenFails(t) BY <2>5, OpenFailsKeeps
  <2>6. CASE Write(t) BY <2>6, WriteKeeps
  <2>7. CASE WriteFails(t) BY <2>7, WriteFailsKeeps
  <2>8. CASE PutObject(t) BY <2>8, PutObjectKeeps
  <2>9. CASE PutFails(t) BY <2>9, PutFailsKeeps
  <2>10. CASE SaveReturns(t) BY <2>10, SaveReturnsKeeps
  <2>11. CASE SaveCancelled(t) BY <2>11, CancelKeeps
  <2>12. CASE Delete(t) BY <2>12, DeleteKeeps
  <2> QED BY <2>1, <2>2, <2>3, <2>4, <2>5, <2>6, <2>7, <2>8, <2>9, <2>10, <2>11, <2>12
<1> QED BY <1>1, <1>2

(* The storage package keeps its accounts: every file under one name, every   *)
(* undisturbed save in possession of its file, every settled place at rest.   *)
THEOREM IInvHolds == Spec => []IInv
<1>1. Init => IInv BY IInvInit
<1>2. IInv /\ [Next]_vars => IInv' BY IInvStep
<1> QED BY <1>1, <1>2, PTL DEF Spec

(* The types of Storage hold in every reachable state. *)
THEOREM TypeOKHolds == Spec => []TypeOK
<1>1. IInv => TypeOK BY DEF IInv
<1> QED BY <1>1, IInvHolds, PTL

(* Every name of a place leads to the file at the place, if the disk is there *)
(* and the place is not the root.                                             *)
LEMMA NameLeads ==
    ASSUME NEW p \in Places, NEW q \in NamesOf(p)
    PROVE  FileAt(q[1], q[2]) = IF Supported(p.disk) /\ p.segs # <<>> THEN files[p] ELSE 0
<1>1. PICK d, c : d = DiskFor(manager, q[1]) /\ c = cleanObjectPath(q[2]) OBVIOUS
<1>2. d = p.disk /\ c.ok /\ c.segs = p.segs BY <1>1 DEF NamesOf
<1>3. p = Place(p.disk, p.segs) BY DEF Places, Place
<1> QED BY <1>1, <1>2, <1>3 DEF FileAt

(* A save that returned and that no other change overlapped is read back      *)
(* complete under every name of the object, until the next change of it.      *)
THEOREM SavedReadsBackHolds == Spec => []SavedReadsBack
<1>1. IInv => SavedReadsBack
  <2> SUFFICES ASSUME IInv, NEW p \in Places, settled[p].end = "saved", NEW q \in NamesOf(p)
               PROVE  Exists(q[1], q[2]) /\ Get(q[1], q[2]) = settled[p].data
    BY DEF SavedReadsBack
  <2>1. /\ files[p] # 0 /\ content[files[p]] = settled[p].data
        /\ p.segs # <<>> /\ Supported(p.disk)
    BY DEF IInv, AtRest, Rest
  <2>2. FileAt(q[1], q[2]) = files[p] BY <2>1, NameLeads
  <2> QED BY <2>1, <2>2 DEF Exists, Get
<1> QED BY <1>1, IInvHolds, PTL

(* After a Delete that returned nil, or a cancelled save whose removal        *)
(* worked, no name finds the object until the next save reaches the disk.     *)
THEOREM GoneStaysGoneHolds == Spec => []GoneStaysGone
<1>1. IInv => GoneStaysGone
  <2> SUFFICES ASSUME IInv, NEW p \in Places, settled[p].end = "gone", NEW q \in NamesOf(p)
               PROVE  ~Exists(q[1], q[2])
    BY DEF GoneStaysGone
  <2>1. files[p] = 0 BY DEF IInv, AtRest, Rest
  <2>2. FileAt(q[1], q[2]) = 0 BY <2>1, NameLeads
  <2> QED BY <2>2 DEF Exists
<1> QED BY <1>1, IInvHolds, PTL

-----------------------------------------------------------------------------
(* Where files are, and what opens them.                                      *)

\* The segments of names and of what Clean makes of them.
Segment == STRING \union {".."}

(* The name of a file in the directory of the options. *)
LEMMA JoinDirType ==
    ASSUME NEW dir \in Seq(STRING), NEW name \in [slashes : Nat, segs : Seq(STRING)]
    PROVE  JoinDir(dir, name) \in [slashes : Nat, segs : Seq(Segment)]
<1>1. \A s \in Seq(STRING) : s \in Seq(Segment) BY DEF Segment
<1>2. CASE dir = <<>> BY <1>1, <1>2 DEF JoinDir
<1>3. CASE dir # <<>>
  <2>1. PICK all : all = dir \o name.segs OBVIOUS
  <2>2. all \in Seq(Segment) BY <1>1, <2>1
  <2>3. ".." \in Segment /\ FALSE \in BOOLEAN BY DEF Segment
  <2>4. PICK c : c = Clean(FALSE, all) OBVIOUS
  <2>5. c \in Seq(Segment) BY <2>2, <2>3, <2>4, CleanResult DEF Cleaned
  <2>6. JoinDir(dir, name) = [slashes |-> 0, segs |-> c] BY <1>3, <2>1, <2>4 DEF JoinDir, Name
  <2> QED BY <2>5, <2>6
<1> QED BY <1>2, <1>3

(* The places of files have names without "." and "..". *)
LEMMA PlacesPlain ==
    ASSUME NEW p \in Places
    PROVE  p = Place(p.disk, p.segs) /\ p.segs \in Seq(Segment) /\ PlainSegs(p.segs)
<1>1. PICK c \in Located : c.ok /\ \E d : p = Place(d, c.segs) BY DEF Places
<1>2. PICK name \in [slashes : Nat, segs : Seq(Segment)] : c = cleanObjectPath(name)
  <2>1. PICK dir \in Dirs, name \in AnyName : c = cleanObjectPath(JoinDir(dir, name))
    BY DEF Located
  <2>2. name \in [slashes : Nat, segs : Seq(STRING)]
    <3>1. CASE name \in Names BY <3>1, NameAssumption
    <3>2. CASE \E g \in Range(Generated) : name = Name(0, <<g>>)
      <4>1. PICK g \in Range(Generated) : name = Name(0, <<g>>) BY <3>2
      <4>2. g \in STRING BY SavesAssumption DEF Range
      <4> QED BY <4>1, <4>2 DEF Name
    <3> QED BY <3>1, <3>2 DEF AnyName
  <2>3. dir \in Seq(STRING) BY NameAssumption
  <2>4. JoinDir(dir, name) \in [slashes : Nat, segs : Seq(Segment)] BY <2>2, <2>3, JoinDirType
  <2> QED BY <2>1, <2>4
<1>3. ".." \in Segment BY DEF Segment
<1>4. c.segs \in Seq(Segment) /\ PlainSegs(c.segs) BY <1>1, <1>2, <1>3, CleanObjectPathInside
<1> QED BY <1>1, <1>4 DEF Place

(* Such a name is accepted as it is. *)
LEMMA PlainAccepted ==
    ASSUME NEW S, ".." \in S, NEW segs \in Seq(S), segs # <<>>, PlainSegs(segs),
           NEW slashes \in 0 .. 1
    PROVE  cleanObjectPath(Name(slashes, segs)) = [ok |-> TRUE, rooted |-> FALSE, segs |-> segs]
<1>1. PICK name : name = Name(slashes, segs) OBVIOUS
<1>2. name.slashes = slashes /\ name.segs = segs BY <1>1 DEF Name
<1>3. (name.slashes > 1) = FALSE BY <1>2
<1>4. Clean(FALSE, segs) = segs
  <2>1. FALSE \in BOOLEAN OBVIOUS
  <2> QED BY <2>1, CleanOfPlain
<1>5. Head(segs) # ".."
  <2>1. Len(segs) \in Nat /\ Len(segs) > 0 /\ 1 \in 1 .. Len(segs) /\ Head(segs) = segs[1]
    OBVIOUS
  <2> QED BY <2>1 DEF PlainSegs
<1> QED BY <1>1, <1>2, <1>3, <1>4, <1>5 DEF cleanObjectPath

(* A plain path on a disk of the manager, given to Manager.OpenPath. *)
LEMMA PlainOpened ==
    ASSUME NEW m, NEW diskName, NEW d, d = DiskFor(m, diskName), d \in m.disks,
           NEW segs \in Seq(Segment), segs # <<>>, PlainSegs(segs)
    PROVE  OpenPath(m, diskName, Name(0, segs)) =
              IF d \in m.local THEN [disk |-> d, segs |-> segs] ELSE Unsupported
<1>1. PICK c : c = cleanObjectPath(Name(0, segs)) OBVIOUS
<1>2. c.ok /\ c.segs = segs
  <2>1. 0 \in 0 .. 1 /\ ".." \in Segment BY DEF Segment
  <2>2. c = [ok |-> TRUE, rooted |-> FALSE, segs |-> segs] BY <1>1, <2>1, PlainAccepted
  <2> QED BY <2>2
<1>3. CASE d \in m.local BY <1>1, <1>2, <1>3 DEF OpenPath, LocalOpenPath
<1>4. CASE d \notin m.local BY <1>4 DEF OpenPath
<1> QED BY <1>3, <1>4

(* No disk is called "", so the name of a disk stands for that disk. *)
LEMMA DiskNamed ==
    ASSUME config \in Configs, NEW d \in manager.disks
    PROVE  DiskFor(manager, d) = d
<1>1. d # ""
  <2>1. CASE DOMAIN config.backends = {} BY <2>1 DEF manager, DiskNames
  <2>2. CASE DOMAIN config.backends # {} BY <2>2, ConfigAssumption DEF manager, DiskNames
  <2> QED BY <2>1, <2>2
<1> QED BY <1>1 DEF DiskFor

(* Each public path of an object leads to its place, or is refused for the    *)
(* disk of the object.                                                        *)
LEMMA PublicPath ==
    ASSUME config \in Configs, NEW p \in Places, p.disk \in manager.disks, p.segs # <<>>,
           NEW name \in PublicNames(p)
    PROVE  OpenPublicPath(manager, name) =
              IF p.disk \in manager.local THEN p ELSE Unsupported
<1>1. PICK d, segs, m : d = p.disk /\ segs = p.segs /\ m = manager OBVIOUS
<1>2. /\ p = [disk |-> d, segs |-> segs] /\ segs \in Seq(Segment) /\ PlainSegs(segs)
      /\ segs # <<>> /\ ".." \in Segment
  BY <1>1, PlacesPlain DEF Place, Segment
<1>3. ASSUME d \notin {".", ".."}, NEW slashes \in 0 .. 1, name = Name(slashes, <<d>> \o segs)
      PROVE  OpenPublicPath(m, name) = OpenPath(m, d, Name(0, segs))
  <2>1. PICK S : S = Segment \union {d} OBVIOUS
  <2>2. PICK all : all = <<d>> \o segs OBVIOUS
  <2>3. /\ all \in Seq(S) /\ Len(all) = Len(segs) + 1 /\ all[1] = d /\ all # <<>>
        /\ \A k \in 1 .. Len(segs) : all[k + 1] = segs[k]
    <3>1. segs \in Seq(S) /\ <<d>> \in Seq(S) BY <1>2, <2>1
    <3>2. all \in Seq(S) /\ Len(all) = Len(segs) + 1 BY <2>2, <3>1
    <3> QED BY <2>2, <3>1, <3>2
  <2>4. PlainSegs(all)
    <3>1. \A k \in 1 .. Len(all) : k = 1 \/ (k - 1 \in 1 .. Len(segs) /\ k - 1 + 1 = k)
      BY <1>2, <2>3
    <3> QED BY <1>2, <1>3, <2>3, <3>1 DEF PlainSegs
  <2>5. cleanObjectPath(Name(slashes, all)) = [ok |-> TRUE, rooted |-> FALSE, segs |-> all]
    BY <1>2, <2>1, <2>3, <2>4, PlainAccepted
  <2>6. Len(all) > 1 /\ Head(all) = d /\ Tail(all) = segs
    <3>1. Len(segs) \in Nat /\ Len(segs) > 0 BY <1>2
    <3>2. Len(all) > 1 /\ Head(all) = d BY <2>3, <3>1
    <3>3. Tail(all) = segs BY <1>2, <2>3, <3>1
    <3> QED BY <3>2, <3>3
  <2>7. d \in m.disks BY <1>1
  <2>8. PICK c : c = cleanObjectPath(name) OBVIOUS
  <2>9. c.ok /\ ~c.rooted /\ c.segs = all BY <1>3, <2>2, <2>5, <2>8
  <2> QED BY <2>6, <2>7, <2>8, <2>9 DEF OpenPublicPath
<1>4. ASSUME ~(Len(segs) > 1 /\ Head(segs) \in m.disks), name = Name(0, segs)
      PROVE  OpenPublicPath(m, name) = OpenPath(m, "", Name(0, segs))
  <2>1. 0 \in 0 .. 1 OBVIOUS
  <2>2. PICK c : c = cleanObjectPath(name) OBVIOUS
  <2>3. c = [ok |-> TRUE, rooted |-> FALSE, segs |-> segs] BY <1>2, <1>4, <2>1, <2>2, PlainAccepted
  <2>4. c.ok /\ ~c.rooted /\ c.segs = segs BY <2>3
  <2>5. Rewritten(c) = Name(0, segs) BY <2>4 DEF Rewritten
  <2> QED BY <1>4, <2>2, <2>4, <2>5 DEF OpenPublicPath
<1>5. CASE name \in {n \in {Name(slashes, <<d>> \o segs) : slashes \in 0 .. 1} :
                       d \notin {".", ".."}}
  <2>1. OpenPublicPath(m, name) = OpenPath(m, d, Name(0, segs)) BY <1>3, <1>5
  <2>2. d = DiskFor(m, d) /\ d \in m.disks BY <1>1, DiskNamed
  <2> QED BY <1>1, <1>2, <2>1, <2>2, PlainOpened
<1>6. CASE name \in {n \in {Name(0, segs)} : d = m.default /\ ~Shadowed(p)}
  <2>1. OpenPublicPath(m, name) = OpenPath(m, "", Name(0, segs))
    BY <1>1, <1>4, <1>6 DEF Shadowed
  <2>2. d = DiskFor(m, "") /\ d \in m.disks BY <1>1, <1>6 DEF DiskFor
  <2> QED BY <1>1, <1>2, <2>1, <2>2, PlainOpened
<1> QED BY <1>1, <1>5, <1>6 DEF PublicNames

(* On a local disk each public path of an object opens what was saved until   *)
(* the next change, and nothing after a removal; on the other disks each is   *)
(* refused: for every configuration, set of names and directory.              *)
THEOREM PublicPathOpensHolds == Spec => []PublicPathOpens
<1>1. IInv => PublicPathOpens
  <2> SUFFICES ASSUME IInv, NEW p \in Places, p.disk \in manager.disks, p.segs # <<>>,
                      NEW name \in PublicNames(p)
               PROVE  IF p.disk \in manager.local
                      THEN /\ settled[p].end = "saved" =>
                                 /\ FileOpened(name) # 0
                                 /\ content[FileOpened(name)] = settled[p].data
                           /\ settled[p].end = "gone" => FileOpened(name) = 0
                      ELSE OpenPublicPath(manager, name) = Unsupported
    BY DEF PublicPathOpens
  <2>1. OpenPublicPath(manager, name) =
           IF p.disk \in manager.local THEN p ELSE Unsupported
    BY PublicPath DEF IInv, TypeOK
  <2>2. CASE p.disk \in manager.local
    <3>1. FileOpened(name) = files[p] BY <2>1, <2>2 DEF FileOpened
    <3>2. settled[p].end = "saved" => files[p] # 0 /\ content[files[p]] = settled[p].data
      BY DEF IInv, AtRest, Rest
    <3>3. settled[p].end = "gone" => files[p] = 0 BY DEF IInv, AtRest, Rest
    <3> QED BY <2>2, <3>1, <3>2, <3>3
  <2>3. CASE p.disk \notin manager.local BY <2>1, <2>3
  <2> QED BY <2>2, <2>3
<1> QED BY <1>1, IInvHolds, PTL

(* cleanObjectPath decides and leads as the walk through the segments does,   *)
(* however long the names are.                                                *)
THEOREM NamesStayInsideHolds == Spec => []NamesStayInside
<1>1. IInv => NamesStayInside
  <2> SUFFICES ASSUME NEW name \in AllNames, NEW c, c = cleanObjectPath(name)
               PROVE  c.ok = Inside(name) /\ (c.ok => c.segs = Kept(name.segs))
    BY DEF NamesStayInside
  <2>1. PICK S : S = {"a", "b", ".", ".."} OBVIOUS
  <2>2. PICK slashes \in 0 .. 2, segs \in SeqOf(S, MaxSegments) : name = Name(slashes, segs)
    BY <2>1 DEF AllNames
  <2>3. segs \in Seq(S)
    <3>1. PICK m \in 0 .. MaxSegments : segs \in [1 .. m -> S] BY DEF SeqOf
    <3>2. m \in Nat BY SavesAssumption
    <3> QED BY <3>1, <3>2
  <2>4. name \in [slashes : Nat, segs : Seq(S)] BY <2>2, <2>3 DEF Name
  <2>5. ".." \in S BY <2>1
  <2> QED BY <2>4, <2>5, CleanObjectPathInside
<1> QED BY <1>1, IInvHolds, PTL
=============================================================================
