-------------------------- MODULE SessionDiffProofs --------------------------
(***************************************************************************)
(* A chain of diffs is the changes, whatever the tables hold, the limits   *)
(* and the clock.  Positions are ordered, and a row's position tells which *)
(* row it is.  So a collector that scans a bounded number of rows leaves   *)
(* out only what lies after all it returns, and a page ends no later than  *)
(* the first such end: what is not after the cursor's position has been    *)
(* delivered, and what is written later lies after it.  Rewritten history  *)
(* is told because the snapshot a cursor carries shows what was delivered, *)
(* and whatever is taken from the files since is counted, or changes the   *)
(* text the thread's history begins with.                                  *)
(***************************************************************************)
EXTENDS SessionDiff, FiniteSetTheorems, SequenceTheorems, WellFoundedInduction, TLAPS

----------------------------------------------------------------------------
(* Finite sets.                                                            *)

\* A finite set that is not empty has elements with none before them.
LEMMA FiniteSetsHaveAFirst ==
  ASSUME NEW T, IsFiniteSet(T), T # {}, NEW R,
         \A x \in T : << x, x >> \notin R,
         \A x, y, z \in T : << x, y >> \in R /\ << y, z >> \in R => << x, z >> \in R
  PROVE  \E x \in T : \A y \in T : << y, x >> \notin R
<1> DEFINE Down(x) == {y \in T : << y, x >> \in R}
           D == {Down(x) : x \in T}
<1>1. D \subseteq FiniteSubsetsOf(T) /\ D # {}
  <2>1. \A S \in SUBSET T : IsFiniteSet(S)
    BY FS_Subset
  <2>2. \A x \in T : Down(x) \in FiniteSubsetsOf(T)
    <3>1. \A x \in T : Down(x) \in SUBSET T
      OBVIOUS
    <3> HIDE DEF Down
    <3> QED BY <2>1, <3>1 DEF FiniteSubsetsOf
  <2> HIDE DEF Down
  <2> QED BY <2>2
<1>2. PICK d \in D : \A e \in D : << e, d >> \notin StrictSubsetOrdering(T)
  <2> HIDE DEF D
  <2> QED BY <1>1, FS_StrictSubsetOrderingWellFounded, WFMin, Zenon
<1>3. PICK x \in T : d = Down(x)
  OBVIOUS
<1>4. ASSUME NEW y \in T, << y, x >> \in R
      PROVE  FALSE
  <2>1. Down(y) \subseteq Down(x) /\ y \in Down(x) /\ y \notin Down(y)
    BY <1>4
  <2>2. << Down(y), Down(x) >> \in StrictSubsetOrdering(T)
    BY <2>1 DEF StrictSubsetOrdering
  <2> QED BY <1>2, <1>3, <2>2
<1> QED BY <1>4

\* Numbers up to a bound with a property have a least one.
LEMMA LeastNumber ==
  ASSUME NEW n \in Nat, NEW T \in SUBSET (1 .. n), T # {}
  PROVE  \E x \in T : \A y \in T : x <= y
<1> DEFINE R == {xy \in Nat \X Nat : xy[1] < xy[2]}
<1>1. IsFiniteSet(T)
  <2>1. IsFiniteSet(1 .. n)
    BY FS_Interval
  <2> QED BY <2>1, FS_Subset
<1>2. \A x, y \in T : << x, y >> \in R <=> x < y
  OBVIOUS
<1>3. PICK x \in T : \A y \in T : << y, x >> \notin R
  <2>1. \A x \in T : << x, x >> \notin R
    BY <1>2
  <2>2. \A x, y, z \in T : << x, y >> \in R /\ << y, z >> \in R => << x, z >> \in R
    BY <1>2
  <2> HIDE DEF R
  <2> QED BY <1>1, <2>1, <2>2, FiniteSetsHaveAFirst
<1>4. T \subseteq Nat
  OBVIOUS
<1> HIDE DEF R
<1>5. ASSUME NEW y \in T
      PROVE  x <= y
  <2>1. ~(y < x) /\ x \in Nat /\ y \in Nat
    BY <1>2, <1>3, <1>4
  <2> QED BY <2>1
<1> QED BY <1>5

----------------------------------------------------------------------------
(* The order of positions.                                                 *)

Keys == Seq(Nat)

\* No position is before itself.
LEMMA LessIrreflexive ==
  ASSUME NEW p \in Keys
  PROVE  ~Less(p, p)
BY DEF Less, Keys

\* Positions are ordered: what is before a second that is before a third is before it.
LEMMA LessTransitive ==
  ASSUME NEW p \in Keys, NEW q \in Keys, NEW r \in Keys, Less(p, q), Less(q, r)
  PROVE  Less(p, r)
<1>1. PICK i \in 1 .. Len(q) : /\ \A j \in 1 .. i - 1 : j <= Len(p) /\ p[j] = q[j]
                               /\ i > Len(p) \/ p[i] < q[i]
  BY DEF Less
<1>2. PICK k \in 1 .. Len(r) : /\ \A j \in 1 .. k - 1 : j <= Len(q) /\ q[j] = r[j]
                               /\ k > Len(q) \/ q[k] < r[k]
  BY DEF Less
<1>3. CASE i < k
  <2>1. i \in 1 .. Len(r) /\ q[i] = r[i]
    BY <1>1, <1>2, <1>3
  <2>2. \A j \in 1 .. i - 1 : j <= Len(p) /\ p[j] = r[j]
    BY <1>1, <1>2, <1>3
  <2> QED BY <1>1, <2>1, <2>2 DEF Less
<1>4. CASE k <= i
  <2>1. \A j \in 1 .. k - 1 : j <= Len(p) /\ p[j] = r[j]
    BY <1>1, <1>2, <1>4
  <2>2. k > Len(p) \/ p[k] < r[k]
    <3>1. k <= Len(q) /\ q[k] < r[k]
      BY <1>1, <1>2, <1>4
    <3>2. CASE k < i
      BY <1>1, <1>2, <3>1, <3>2 DEF Keys
    <3>3. CASE k = i
      BY <1>1, <1>2, <3>1, <3>3 DEF Keys
    <3> QED BY <1>4, <3>2, <3>3
  <2> QED BY <2>1, <2>2 DEF Less
<1> QED BY <1>3, <1>4 DEF Keys

\* Of two positions that differ one is before the other.
LEMMA LessTotal ==
  ASSUME NEW p \in Keys, NEW q \in Keys
  PROVE  p = q \/ Less(p, q) \/ Less(q, p)
<1> SUFFICES ASSUME p # q
             PROVE  Less(p, q) \/ Less(q, p)
  OBVIOUS
<1> DEFINE n == IF Len(p) < Len(q) THEN Len(q) ELSE Len(p)
           D == {j \in 1 .. n : j > Len(p) \/ j > Len(q) \/ p[j] # q[j]}
<1>1. D # {}
  <2>1. CASE Len(p) = Len(q)
    <3>1. PICK j \in 1 .. Len(p) : p[j] # q[j]
      BY <2>1, SeqEqual DEF Keys
    <3> QED BY <2>1, <3>1 DEF Keys
  <2>2. CASE Len(p) # Len(q)
    <3>1. n \in D
      BY <2>2 DEF Keys
    <3> QED BY <3>1
  <2> QED BY <2>1, <2>2
<1>2. PICK i \in D : \A j \in D : i <= j
  <2>1. n \in Nat /\ D \in SUBSET (1 .. n)
    BY DEF Keys
  <2> HIDE DEF D, n
  <2> QED BY <1>1, <2>1, LeastNumber
<1>3. /\ i \in 1 .. n /\ (i > Len(p) \/ i > Len(q) \/ p[i] # q[i])
      /\ Len(p) \in Nat /\ Len(q) \in Nat
  BY DEF Keys
<1>4. \A j \in 1 .. i - 1 : j <= Len(p) /\ j <= Len(q) /\ p[j] = q[j]
  BY <1>2, <1>3
<1>5. CASE i > Len(p)
  <2>1. i \in 1 .. Len(q)
    BY <1>3, <1>5
  <2> QED BY <1>4, <1>5, <2>1 DEF Less
<1>6. CASE i > Len(q)
  <2>1. i \in 1 .. Len(p)
    BY <1>3, <1>6
  <2> QED BY <1>4, <1>6, <2>1 DEF Less
<1>7. CASE i <= Len(p) /\ i <= Len(q)
  <2>1. /\ i \in 1 .. Len(p) /\ i \in 1 .. Len(q) /\ p[i] \in Nat /\ q[i] \in Nat
        /\ p[i] < q[i] \/ q[i] < p[i]
    BY <1>3, <1>7 DEF Keys
  <2> QED BY <1>4, <2>1 DEF Less
<1> QED BY <1>3, <1>5, <1>6, <1>7

\* The first element decides, and what follows it if the first ones are the same.
LEMMA LessByFirst ==
  ASSUME NEW a \in Nat, NEW b \in Nat, NEW s \in Keys, NEW t \in Keys
  PROVE  Less(<< a >> \o s, << b >> \o t) <=> (a < b \/ (a = b /\ Less(s, t)))
<1> DEFINE p == << a >> \o s
           q == << b >> \o t
<1>1. /\ p \in Keys /\ Len(p) = Len(s) + 1 /\ Len(s) \in Nat
      /\ p[1] = a /\ \A i \in 1 .. Len(s) : p[i + 1] = s[i]
  BY DEF Keys
<1>2. /\ q \in Keys /\ Len(q) = Len(t) + 1 /\ Len(t) \in Nat
      /\ q[1] = b /\ \A i \in 1 .. Len(t) : q[i + 1] = t[i]
  BY DEF Keys
<1> HIDE DEF p, q
<1>3. ASSUME Less(p, q)
      PROVE  a < b \/ (a = b /\ Less(s, t))
  <2>1. PICK i \in 1 .. Len(q) : /\ \A j \in 1 .. i - 1 : j <= Len(p) /\ p[j] = q[j]
                                 /\ i > Len(p) \/ p[i] < q[i]
    BY <1>3 DEF Less
  <2>2. CASE i = 1
    BY <1>1, <1>2, <2>1, <2>2
  <2>3. CASE i # 1
    <3>1. a = b
      BY <1>1, <1>2, <2>1, <2>3
    <3>2. i - 1 \in 1 .. Len(t) /\ q[i] = t[i - 1]
      BY <1>2, <2>1, <2>3
    <3>3. ASSUME NEW j \in 1 .. (i - 1) - 1
          PROVE  j <= Len(s) /\ s[j] = t[j]
      <4>1. j + 1 <= Len(p) /\ p[j + 1] = q[j + 1] /\ j \in 1 .. Len(t)
        BY <2>1, <1>2, <3>2
      <4>2. j \in 1 .. Len(s)
        BY <1>1, <4>1
      <4> QED BY <1>1, <1>2, <4>1, <4>2
    <3>4. i - 1 > Len(s) \/ s[i - 1] < t[i - 1]
      <4>1. CASE i - 1 <= Len(s)
        <5>1. p[i] = s[i - 1]
          BY <1>1, <2>3, <4>1
        <5> QED BY <1>1, <2>1, <3>2, <4>1, <5>1
      <4> QED BY <1>1, <2>1, <4>1
    <3> QED BY <3>1, <3>2, <3>3, <3>4 DEF Less
  <2> QED BY <2>2, <2>3
<1>4. ASSUME a < b
      PROVE  Less(p, q)
  <2>1. 1 \in 1 .. Len(q) /\ p[1] < q[1]
    BY <1>1, <1>2, <1>4
  <2> QED BY <2>1 DEF Less
<1>5. ASSUME a = b, Less(s, t)
      PROVE  Less(p, q)
  <2>1. PICK i \in 1 .. Len(t) : /\ \A j \in 1 .. i - 1 : j <= Len(s) /\ s[j] = t[j]
                                 /\ i > Len(s) \/ s[i] < t[i]
    BY <1>5 DEF Less
  <2>2. i + 1 \in 1 .. Len(q) /\ q[i + 1] = t[i]
    BY <1>2, <2>1
  <2>3. ASSUME NEW j \in 1 .. (i + 1) - 1
        PROVE  j <= Len(p) /\ p[j] = q[j]
    <3>1. CASE j = 1
      BY <1>1, <1>2, <1>5, <3>1
    <3>2. CASE j # 1
      <4>1. j - 1 \in 1 .. i - 1
        BY <2>1, <3>2
      <4>2. j - 1 <= Len(s) /\ s[j - 1] = t[j - 1] /\ j - 1 \in 1 .. Len(t)
        BY <2>1, <4>1
      <4> QED BY <1>1, <1>2, <4>1, <4>2
    <3> QED BY <3>1, <3>2
  <2>4. i + 1 > Len(p) \/ p[i + 1] < q[i + 1]
    <3>1. CASE i <= Len(s)
      BY <1>1, <2>1, <2>2, <3>1
    <3> QED BY <1>1, <2>1, <3>1
  <2> QED BY <2>2, <2>3, <2>4 DEF Less
<1> QED BY <1>3, <1>4, <1>5 DEF p, q

\* What has a position: a row, or a watermark.
IsPoint(x) == x.at \in Nat /\ x.kind \in Nat /\ x.key \in Keys

\* By time, then kind, then key.
LEMMA BeforeByFields ==
  ASSUME NEW x, NEW y, IsPoint(x), IsPoint(y)
  PROVE  Before(x, y) <=> \/ x.at < y.at
                          \/ x.at = y.at /\ x.kind < y.kind
                          \/ x.at = y.at /\ x.kind = y.kind /\ Less(x.key, y.key)
<1>1. \A z : IsPoint(z) => /\ << z.kind >> \o z.key \in Keys
                           /\ Position(z) = << z.at >> \o (<< z.kind >> \o z.key)
  <2>1. ASSUME NEW z, NEW a \in Nat, NEW k \in Nat, NEW s \in Keys
        PROVE  << k >> \o s \in Keys /\ << a, k >> \o s = << a >> \o (<< k >> \o s)
    <3>1. << a >> \in Keys /\ << k >> \in Keys /\ << a >> \o << k >> = << a, k >>
      <4>1. << a >> \in Keys /\ << k >> \in Keys
        BY DEF Keys
      <4>2. << a >> \o << k >> = << a, k >>
        <5>1. << a >> \in Seq(Nat) /\ << k >> \in Seq(Nat) /\ << a, k >> \in Seq(Nat)
          OBVIOUS
        <5>2. << a >> \o << k >> \in Seq(Nat) /\ Len(<< a >> \o << k >>) = Len(<< a, k >>)
          BY <5>1
        <5>3. \A i \in 1 .. Len(<< a >> \o << k >>) : (<< a >> \o << k >>)[i] = << a, k >>[i]
          OBVIOUS
        <5> QED BY <5>1, <5>2, <5>3, SeqEqual
      <4> QED BY <4>1, <4>2
    <3>2. << k >> \o s \in Keys
      BY <3>1 DEF Keys
    <3>3. (<< a >> \o << k >>) \o s = << a >> \o (<< k >> \o s)
      BY <3>1, ConcatAssociative DEF Keys
    <3> QED BY <3>1, <3>2, <3>3
  <2> QED BY <2>1 DEF IsPoint, Position
<1>2. Less(Position(x), Position(y)) <=>
        (x.at < y.at \/ (x.at = y.at /\ Less(<< x.kind >> \o x.key, << y.kind >> \o y.key)))
  <2> DEFINE s == << x.kind >> \o x.key
             t == << y.kind >> \o y.key
  <2>1. /\ Position(x) = << x.at >> \o s /\ Position(y) = << y.at >> \o t
        /\ s \in Keys /\ t \in Keys /\ x.at \in Nat /\ y.at \in Nat
    BY <1>1 DEF IsPoint
  <2> HIDE DEF s, t
  <2>2. Less(<< x.at >> \o s, << y.at >> \o t) <=> (x.at < y.at \/ (x.at = y.at /\ Less(s, t)))
    BY <2>1, LessByFirst
  <2> QED BY <2>1, <2>2 DEF s, t
<1>3. Less(<< x.kind >> \o x.key, << y.kind >> \o y.key) <=>
        (x.kind < y.kind \/ (x.kind = y.kind /\ Less(x.key, y.key)))
  BY LessByFirst DEF IsPoint
<1> QED BY <1>2, <1>3 DEF Before

\* A position is a sequence of numbers.
LEMMA PositionsAreKeys ==
  ASSUME NEW x, IsPoint(x)
  PROVE  Position(x) \in Keys
BY DEF Position, IsPoint, Keys

\* Rows and watermarks are ordered by their positions.
LEMMA BeforeIsAnOrder ==
  /\ \A x : IsPoint(x) => ~Before(x, x)
  /\ \A x, y, z : IsPoint(x) /\ IsPoint(y) /\ IsPoint(z) =>
       /\ Before(x, y) /\ Before(y, z) => Before(x, z)
       /\ Before(x, y) /\ ~Before(z, y) => Before(x, z)
       /\ ~Before(y, x) /\ Before(y, z) => Before(x, z)
<1>1. \A x : IsPoint(x) => ~Before(x, x)
  BY PositionsAreKeys, LessIrreflexive DEF Before
<1>2. ASSUME NEW x, NEW y, NEW z, IsPoint(x), IsPoint(y), IsPoint(z)
      PROVE  /\ Before(x, y) /\ Before(y, z) => Before(x, z)
             /\ Before(x, y) /\ ~Before(z, y) => Before(x, z)
             /\ ~Before(y, x) /\ Before(y, z) => Before(x, z)
  <2>1. Position(x) \in Keys /\ Position(y) \in Keys /\ Position(z) \in Keys
    BY <1>2, PositionsAreKeys
  <2>2. \A p, q, r \in Keys : Less(p, q) /\ Less(q, r) => Less(p, r)
    BY LessTransitive
  <2>3. \A p, q \in Keys : p = q \/ Less(p, q) \/ Less(q, p)
    BY LessTotal
  <2> QED BY <2>1, <2>2, <2>3 DEF Before
<1> QED BY <1>1, <1>2

\* Points of one position have the same fields.
LEMMA OnePosition ==
  ASSUME NEW x, NEW y, IsPoint(x), IsPoint(y), ~Before(x, y), ~Before(y, x)
  PROVE  x.at = y.at /\ x.kind = y.kind /\ x.key = y.key
<1>1. x.at = y.at /\ x.kind = y.kind /\ ~Less(x.key, y.key) /\ ~Less(y.key, x.key)
  BY BeforeByFields DEF IsPoint
<1> QED BY <1>1, LessTotal DEF IsPoint

\* Rows that are not after a row come first among finitely many, and others last.
LEMMA EarliestIsFirst ==
  ASSUME NEW T, IsFiniteSet(T), T # {}, \A x \in T : IsPoint(x)
  PROVE  Earliest(T) \in T /\ \A x \in T : ~Before(x, Earliest(T))
<1> DEFINE R == {xy \in T \X T : Before(xy[1], xy[2])}
<1>1. \A x, y \in T : << x, y >> \in R <=> Before(x, y)
  OBVIOUS
<1>2. \A x \in T : << x, x >> \notin R
  BY <1>1, BeforeIsAnOrder
<1>3. \A x, y, z \in T : << x, y >> \in R /\ << y, z >> \in R => << x, z >> \in R
  BY <1>1, BeforeIsAnOrder
<1> HIDE DEF R
<1>4. \E x \in T : \A y \in T : ~Before(y, x)
  BY <1>1, <1>2, <1>3, FiniteSetsHaveAFirst
<1> QED BY <1>4 DEF Earliest

\* Finitely many rows have a last one, which sessionDiffNextWatermark takes.
LEMMA LatestIsLast ==
  ASSUME NEW T, IsFiniteSet(T), T # {}, \A x \in T : IsPoint(x)
  PROVE  Latest(T) \in T /\ \A x \in T : ~Before(Latest(T), x)
<1> DEFINE R == {xy \in T \X T : Before(xy[2], xy[1])}
<1>1. \A x, y \in T : << x, y >> \in R <=> Before(y, x)
  OBVIOUS
<1>2. \A x \in T : << x, x >> \notin R
  BY <1>1, BeforeIsAnOrder
<1>3. \A x, y, z \in T : << x, y >> \in R /\ << y, z >> \in R => << x, z >> \in R
  BY <1>1, BeforeIsAnOrder
<1> HIDE DEF R
<1>4. \E x \in T : \A y \in T : ~Before(x, y)
  BY <1>1, <1>2, <1>3, FiniteSetsHaveAFirst
<1> QED BY <1>4 DEF Latest

\* The rows before one of them are fewer than those before a later one, and no more than
\* those before one that is not earlier.
LEMMA RanksGrow ==
  ASSUME NEW T, IsFiniteSet(T), \A x \in T : IsPoint(x),
         NEW x, IsPoint(x)
  PROVE  /\ Rank(x, T) \in Nat
         /\ x \in T => Rank(x, T) < Cardinality(T)
         /\ \A y : IsPoint(y) /\ ~Before(y, x) => Rank(x, T) <= Rank(y, T)
         /\ \A y : IsPoint(y) /\ x \in T /\ Before(x, y) => Rank(x, T) < Rank(y, T)
<1> DEFINE Down(y) == {z \in T : Before(z, y)}
<1>1. \A y : IsFiniteSet(Down(y)) /\ Cardinality(Down(y)) \in Nat /\ Rank(y, T) = Cardinality(Down(y))
  <2>1. \A y : Down(y) \in SUBSET T
    OBVIOUS
  <2>2. \A y : IsFiniteSet(Down(y))
    BY <2>1, FS_Subset
  <2>3. \A y : Rank(y, T) = Cardinality(Down(y))
    BY DEF Rank
  <2> QED BY <2>2, <2>3, FS_CardinalityType
<1>2. \A S : S \subseteq T => Cardinality(S) <= Cardinality(T) /\ (Cardinality(T) = Cardinality(S) => T = S)
  BY FS_Subset
<1>3. Cardinality(T) \in Nat
  BY FS_CardinalityType
<1>4. ASSUME x \in T
      PROVE  Rank(x, T) < Cardinality(T)
  <2>1. Down(x) \subseteq T /\ Down(x) # T
    BY <1>4, BeforeIsAnOrder
  <2> HIDE DEF Down
  <2> QED BY <1>1, <1>2, <1>3, <2>1
<1>5. ASSUME NEW y, IsPoint(y), ~Before(y, x)
      PROVE  Rank(x, T) <= Rank(y, T)
  <2>1. Down(x) \subseteq Down(y)
    BY <1>5, BeforeIsAnOrder
  <2> HIDE DEF Down
  <2>2. Cardinality(Down(x)) <= Cardinality(Down(y))
    BY <1>1, <2>1, FS_Subset
  <2> QED BY <1>1, <2>2
<1>6. ASSUME NEW y, IsPoint(y), x \in T, Before(x, y)
      PROVE  Rank(x, T) < Rank(y, T)
  <2>1. Down(x) \subseteq Down(y) /\ Down(x) # Down(y)
    BY <1>6, BeforeIsAnOrder
  <2> HIDE DEF Down
  <2>2. Cardinality(Down(x)) <= Cardinality(Down(y)) /\ Cardinality(Down(x)) # Cardinality(Down(y))
    BY <1>1, <2>1, FS_Subset
  <2> QED BY <1>1, <2>2
<1> QED BY <1>1, <1>4, <1>5, <1>6

\* Of finitely many rows one has none before it.
LEMMA TheFirstRankIsZero ==
  ASSUME NEW T, IsFiniteSet(T), T # {}, \A x \in T : IsPoint(x)
  PROVE  \E x \in T : Rank(x, T) = 0
<1>1. {z \in T : Before(z, Earliest(T))} = {}
  BY EarliestIsFirst
<1>2. Rank(Earliest(T), T) = 0
  BY <1>1, FS_EmptySet DEF Rank
<1> QED BY <1>2, EarliestIsFirst

----------------------------------------------------------------------------
(* Rows.                                                                   *)

\* A row has a position, a stamp that is not 0 and one of the five kinds.
LEMMA RowsArePoints ==
  \A r \in TableRows : IsPoint(r) /\ r.at \in Nat \ {0} /\ r.kind \in 1 .. 5
BY DEF TableRows, IsPoint, Keys, PreparedCard, Observation

\* Two rows of one position are the same row.
LEMMA RowsByPosition ==
  ASSUME NEW x \in TableRows, NEW y \in TableRows, ~Before(x, y), ~Before(y, x)
  PROVE  x = y
<1>1. x.at = y.at /\ x.kind = y.kind /\ x.key = y.key
  BY RowsArePoints, OnePosition
<1>2. x.safe = y.safe
  BY <1>1 DEF TableRows
<1> QED BY <1>1, <1>2 DEF TableRows

\* A sorted set has each of its rows, once and in order.
LEMMA SortedIsInOrder ==
  ASSUME NEW T, IsFiniteSet(T), T \subseteq TableRows
  PROVE  /\ Sorted(T) \in Seq(T) /\ Len(Sorted(T)) = Cardinality(T)
         /\ \A x \in T : \E i \in 1 .. Cardinality(T) : Sorted(T)[i] = x
         /\ \A i, j \in 1 .. Cardinality(T) : i < j => Before(Sorted(T)[i], Sorted(T)[j])
<1> DEFINE n == Cardinality(T)
           g == [x \in T |-> Rank(x, T) + 1]
<1>1. n \in Nat /\ \A x \in T : IsPoint(x)
  BY FS_CardinalityType, RowsArePoints
<1>2. \A x \in T : Rank(x, T) \in 0 .. n - 1
  BY <1>1, RanksGrow
<1>3. \A x, y \in T : Rank(x, T) = Rank(y, T) => x = y
  <2> SUFFICES ASSUME NEW x \in T, NEW y \in T, Rank(x, T) = Rank(y, T), x # y
               PROVE  FALSE
    OBVIOUS
  <2>1. Before(x, y) \/ Before(y, x)
    BY RowsByPosition
  <2> QED BY <1>1, <2>1, <1>2, RanksGrow
<1>4. g \in Injection(T, 1 .. n)
  <2>1. g \in [T -> 1 .. n]
    BY <1>1, <1>2
  <2>2. \A x, y \in T : g[x] = g[y] => x = y
    BY <1>2, <1>3
  <2>3. DOMAIN g = T
    OBVIOUS
  <2> HIDE DEF g, n
  <2> QED BY <2>1, <2>2, <2>3 DEF Injection, IsInjective
<1>5. IsFiniteSet(1 .. n) /\ Cardinality(1 .. n) = n
  BY <1>1, FS_Interval
<1>6. g \in Surjection(T, 1 .. n)
  <2> HIDE DEF g, n
  <2>1. Cardinality(T) = Cardinality(1 .. n)
    BY <1>5 DEF n
  <2> QED BY <1>4, <1>5, <2>1, FS_Injection
<1>7. \A i \in 1 .. n : \E x \in T : Rank(x, T) = i - 1
  <2> TAKE i \in 1 .. n
  <2>1. PICK x \in T : g[x] = i
    BY <1>6 DEF Surjection
  <2> QED BY <1>2, <2>1
<1>8. /\ Sorted(T) = [i \in 1 .. n |-> CHOOSE x \in T : Rank(x, T) = i - 1]
      /\ \A i \in 1 .. n : Sorted(T)[i] \in T /\ Rank(Sorted(T)[i], T) = i - 1
  BY <1>7 DEF Sorted
<1>9. Sorted(T) \in Seq(T) /\ Len(Sorted(T)) = n
  <2>1. Sorted(T) \in [1 .. n -> T]
    BY <1>8
  <2> HIDE DEF n
  <2> QED BY <1>1, <2>1
<1>10. ASSUME NEW x \in T
       PROVE  \E i \in 1 .. n : Sorted(T)[i] = x
  <2>1. Rank(x, T) + 1 \in 1 .. n
    BY <1>1, <1>2
  <2>2. Rank(Sorted(T)[Rank(x, T) + 1], T) = Rank(x, T)
    BY <1>2, <1>8, <2>1
  <2> QED BY <1>3, <1>8, <2>1, <2>2
<1>11. ASSUME NEW i \in 1 .. n, NEW j \in 1 .. n, i < j
       PROVE  Before(Sorted(T)[i], Sorted(T)[j])
  <2>1. PICK x, y \in T : x = Sorted(T)[i] /\ y = Sorted(T)[j] /\ Rank(x, T) = i - 1 /\ Rank(y, T) = j - 1
    BY <1>8
  <2>2. ~(Rank(y, T) <= Rank(x, T))
    BY <1>11, <2>1
  <2> QED BY <1>1, <2>1, <2>2, RanksGrow
<1> QED BY <1>9, <1>10, <1>11

\* What a table is made of is finite when what it is made from is.
LEMMA ImagesAreFinite ==
  ASSUME NEW T, IsFiniteSet(T), NEW f
  PROVE  IsFiniteSet({f[x] : x \in T})
<1> DEFINE U == {f[x] : x \in T}
           g == [x \in T |-> f[x]]
<1>1. g \in Surjection(T, U)
  <2>1. g \in [T -> U]
    OBVIOUS
  <2>2. \A y \in U : \E x \in T : g[x] = y
    OBVIOUS
  <2> HIDE DEF g, U
  <2> QED BY <2>1, <2>2 DEF Surjection
<1> HIDE DEF g, U
<1>2. IsFiniteSet(U)
  BY <1>1, FS_Surjection
<1> QED BY <1>2 DEF U

\* A finite set of numbers has a greatest.
LEMMA MaxIsGreatest ==
  ASSUME NEW T, IsFiniteSet(T), T # {}, T \subseteq Nat
  PROVE  Max(T) \in T /\ \A x \in T : x <= Max(T)
<1> DEFINE R == {xy \in Nat \X Nat : xy[1] > xy[2]}
<1>1. \A x, y \in T : << x, y >> \in R <=> x > y
  OBVIOUS
<1>2. \A x \in T : << x, x >> \notin R
  BY <1>1
<1>3. \A x, y, z \in T : << x, y >> \in R /\ << y, z >> \in R => << x, z >> \in R
  BY <1>1
<1> HIDE DEF R
<1>4. PICK x \in T : \A y \in T : << y, x >> \notin R
  BY <1>2, <1>3, FiniteSetsHaveAFirst
<1>5. \A y \in T : y <= x
  <2> TAKE y \in T
  <2>1. ~(y > x) /\ x \in Nat /\ y \in Nat
    BY <1>1, <1>4
  <2> QED BY <2>1
<1> QED BY <1>5 DEF Max

\* The file a row is about.
FileOf(row) == IF row.kind = Observation THEN row.key[2] ELSE row.key[1]

\* What the rows of a table are.
IsTable(kind, T, S) ==
  /\ T \subseteq TableRows /\ IsFiniteSet(T)
  /\ \A row \in T : row.kind = kind /\ FileOf(row) \in S

\* A text can be part of a key.
LEMMA LinesAreNumbers ==
  Seq(Lines) \subseteq Seq(Nat)
BY FilesAssumption, SeqMonotonic

\* prepared_source_ranges: a row for each line, about its file.
LEMMA RangeRowsAreATable ==
  TablesInv => \A S \in SUBSET Files : IsTable(SourceRange, RangeRows(S), S)
<1> SUFFICES ASSUME TablesInv, NEW S \in SUBSET Files
             PROVE  IsTable(SourceRange, RangeRows(S), S)
  OBVIOUS
<1> DEFINE Row(f, i) == [kind |-> SourceRange, key |-> << f, i, source[f].hash[i] >>,
                         at |-> ranges[f][i], safe |-> source[f].hash[i] \notin UnsafeLines]
           Own(f) == {Row(f, i) : i \in 1 .. Len(ranges[f])}
<1>1. RangeRows(S) = UNION {Own(f) : f \in S}
  BY DEF RangeRows
<1>2. ASSUME NEW f \in S, NEW i \in 1 .. Len(ranges[f])
      PROVE  Row(f, i) \in TableRows /\ Row(f, i).kind = SourceRange /\ FileOf(Row(f, i)) = f
  <2>1. /\ ranges[f] \in Seq(Nat \ {0}) /\ ranges[f] # << >> /\ i \in Nat
        /\ source[f].hash \in Seq(Lines) /\ Len(ranges[f]) = Len(source[f].hash)
    BY <1>2 DEF TablesInv
  <2>2. ranges[f][i] \in Nat \ {0} /\ source[f].hash[i] \in Lines
    BY <2>1
  <2>3. f \in Nat /\ source[f].hash[i] \in Nat
    BY <2>2, FilesAssumption
  <2>4. << f, i, source[f].hash[i] >> \in Seq(Nat) /\ << f, i, source[f].hash[i] >>[3] = source[f].hash[i]
    BY <2>1, <2>3
  <2>5. Row(f, i) \in [kind : 1 .. 5, key : Seq(Nat), at : Nat \ {0}, safe : BOOLEAN]
    BY <2>2, <2>4 DEF SourceRange
  <2>6. Row(f, i).safe = (source[f].hash[i] \notin UnsafeLines) /\ Row(f, i).key[3] = source[f].hash[i]
    BY <2>4
  <2> QED BY <2>5, <2>6 DEF TableRows, FileOf, SourceRange, PreparedCard, Observation
<1>3. \A f \in S : IsFiniteSet(Own(f))
  <2> TAKE f \in S
  <2>1. Len(ranges[f]) \in Nat
    BY DEF TablesInv
  <2> DEFINE g == [i \in 1 .. Len(ranges[f]) |-> Row(f, i)]
  <2>2. {g[i] : i \in 1 .. Len(ranges[f])} = Own(f)
    OBVIOUS
  <2> HIDE DEF g, Own
  <2>3. IsFiniteSet(1 .. Len(ranges[f]))
    BY <2>1, FS_Interval
  <2> QED BY <2>2, <2>3, ImagesAreFinite
<1>4. IsFiniteSet(RangeRows(S))
  <2> DEFINE h == [f \in S |-> Own(f)]
             U == {h[f] : f \in S}
  <2>1. U = {Own(f) : f \in S} /\ \A T \in U : IsFiniteSet(T)
    BY <1>3
  <2>2. IsFiniteSet(S)
    BY FilesAssumption, FS_Subset
  <2>3. RangeRows(S) = UNION U
    BY <1>1, <2>1
  <2>4. IsFiniteSet(U)
    <3> HIDE DEF h
    <3> QED BY <2>2, ImagesAreFinite
  <2> HIDE DEF U, h
  <2> QED BY <2>1, <2>3, <2>4, FS_UNION
<1>5. \A row \in RangeRows(S) : \E f \in S : \E i \in 1 .. Len(ranges[f]) : row = Row(f, i)
  BY <1>1
<1> HIDE DEF Row
<1> QED BY <1>2, <1>4, <1>5 DEF IsTable

\* summary_leaves: at most one row for each file.
LEMMA LeafRowsAreATable ==
  TablesInv => \A S \in SUBSET Files : IsTable(SummaryLeaf, LeafRows(S), S)
<1> SUFFICES ASSUME TablesInv, NEW S \in SUBSET Files
             PROVE  IsTable(SummaryLeaf, LeafRows(S), S)
  OBVIOUS
<1> DEFINE Row(f) == [kind |-> SummaryLeaf, key |-> << f >> \o leaf[f].body,
                      at |-> leaf[f].at, safe |-> TRUE]
           M == {f \in S : leaf[f] # NoRow}
<1>1. LeafRows(S) = {Row(f) : f \in M}
  BY DEF LeafRows
<1>2. ASSUME NEW f \in M
      PROVE  Row(f) \in TableRows /\ Row(f).kind = SummaryLeaf /\ FileOf(Row(f)) = f
  <2>1. leaf[f].body \in Seq(Lines) /\ leaf[f].at \in Nat \ {0} /\ f \in Nat
    <3>1. f \in Files /\ leaf[f] \in [body : Seq(Lines), at : Nat \ {0}]
      BY DEF TablesInv
    <3> QED BY <3>1, FilesAssumption
  <2>2. leaf[f].body \in Seq(Nat)
    BY <2>1, LinesAreNumbers
  <2>3. << f >> \o leaf[f].body \in Seq(Nat) /\ (<< f >> \o leaf[f].body)[1] = f
    <3> DEFINE s == leaf[f].body
    <3>1. s \in Seq(Nat)
      BY <2>2
    <3> HIDE DEF s
    <3>2. << f >> \o s \in Seq(Nat) /\ (<< f >> \o s)[1] = f
      BY <2>1, <3>1
    <3> QED BY <3>2 DEF s
  <2>4. Row(f) \in [kind : 1 .. 5, key : Seq(Nat), at : Nat \ {0}, safe : BOOLEAN]
    BY <2>1, <2>3 DEF SummaryLeaf
  <2>5. Row(f).kind = 4 /\ Row(f).safe = TRUE /\ Row(f).key[1] = f
    BY <2>3 DEF SummaryLeaf
  <2> HIDE DEF Row
  <2> QED BY <2>4, <2>5 DEF TableRows, FileOf, SummaryLeaf, SourceRange, PreparedCard, Observation
<1>3. IsFiniteSet(LeafRows(S))
  <2> DEFINE g == [f \in M |-> Row(f)]
  <2>1. {g[f] : f \in M} = LeafRows(S)
    BY <1>1
  <2>2. IsFiniteSet(M)
    BY FilesAssumption, FS_Subset
  <2> HIDE DEF g, M
  <2> QED BY <2>1, <2>2, ImagesAreFinite
<1> HIDE DEF Row
<1> QED BY <1>1, <1>2, <1>3 DEF IsTable

\* prepared_cards and prepared_inbox_items: at most one row for each file.
LEMMA CardRowsAreATable ==
  TablesInv => \A S \in SUBSET Files, kind \in {PreparedCard, InboxItem} :
                 IsTable(kind, CardRows(S, kind), S)
<1> SUFFICES ASSUME TablesInv, NEW S \in SUBSET Files, NEW kind \in {PreparedCard, InboxItem}
             PROVE  IsTable(kind, CardRows(S, kind), S)
  OBVIOUS
<1> DEFINE Row(f) == [kind |-> kind, key |-> << f, card[f].watched >> \o card[f].body,
                      at |-> card[f].at, safe |-> TRUE]
           M == {f \in S : card[f] # NoRow}
<1>1. CardRows(S, kind) = {Row(f) : f \in M}
  BY DEF CardRows
<1>2. ASSUME NEW f \in M
      PROVE  Row(f) \in TableRows /\ Row(f).kind = kind /\ FileOf(Row(f)) = f
  <2>1. /\ card[f].body \in Seq(Lines) /\ card[f].at \in Nat \ {0} /\ card[f].watched \in Nat
        /\ f \in Nat
    <3>1. f \in Files /\ card[f] \in [body : Seq(Lines), watched : {0, 1}, at : Nat \ {0}]
      BY DEF TablesInv
    <3> QED BY <3>1, FilesAssumption
  <2>2. card[f].body \in Seq(Nat)
    BY <2>1, LinesAreNumbers
  <2>3. /\ << f, card[f].watched >> \o card[f].body \in Seq(Nat)
        /\ (<< f, card[f].watched >> \o card[f].body)[1] = f
    <3> DEFINE s == card[f].body
               w == card[f].watched
    <3>1. s \in Seq(Nat) /\ w \in Nat
      BY <2>1, <2>2
    <3> HIDE DEF s, w
    <3>2. << f, w >> \in Seq(Nat) /\ << f, w >>[1] = f /\ Len(<< f, w >>) = 2
      BY <2>1, <3>1
    <3>3. << f, w >> \o s \in Seq(Nat) /\ (<< f, w >> \o s)[1] = f
      BY <3>1, <3>2
    <3> QED BY <3>3 DEF s, w
  <2>4. Row(f) \in [kind : 1 .. 5, key : Seq(Nat), at : Nat \ {0}, safe : BOOLEAN]
    BY <2>1, <2>3 DEF PreparedCard, InboxItem
  <2>5. Row(f).kind = kind /\ kind \in {1, 2} /\ Row(f).safe = TRUE /\ Row(f).key[1] = f
    BY <2>3 DEF PreparedCard, InboxItem
  <2> HIDE DEF Row
  <2> QED BY <2>4, <2>5 DEF TableRows, FileOf, SourceRange, PreparedCard, Observation
<1>3. IsFiniteSet(CardRows(S, kind))
  <2> DEFINE g == [f \in M |-> Row(f)]
  <2>1. {g[f] : f \in M} = CardRows(S, kind)
    BY <1>1
  <2>2. IsFiniteSet(M)
    BY FilesAssumption, FS_Subset
  <2> HIDE DEF g, M
  <2> QED BY <2>1, <2>2, ImagesAreFinite
<1> HIDE DEF Row
<1> QED BY <1>1, <1>2, <1>3 DEF IsTable

\* watcher_observations: a row for each observation, about its target.
LEMMA ObservationRowsAreATable ==
  TablesInv => \A S \in SUBSET Files : IsTable(Observation, ObservationRows(S), S)
<1> SUFFICES ASSUME TablesInv, NEW S \in SUBSET Files
             PROVE  IsTable(Observation, ObservationRows(S), S)
  OBVIOUS
<1> DEFINE Row(o) == [kind |-> Observation, key |-> << o.watch, o.target, o.seen >>,
                      at |-> o.at, safe |-> TRUE]
           M == {o \in observations : o.target \in S}
<1>1. ObservationRows(S) = {Row(o) : o \in M}
  BY DEF ObservationRows
<1>2. ASSUME NEW o \in M
      PROVE  Row(o) \in TableRows /\ Row(o).kind = Observation /\ FileOf(Row(o)) \in S
  <2>1. o.watch \in Nat /\ o.target \in Nat /\ o.seen \in Nat /\ o.at \in Nat \ {0} /\ o.target \in S
    <3>1. o \in [watch : Watches, target : Files, seen : 1 .. 2, at : Nat \ {0}] /\ o.target \in S
      BY DEF TablesInv
    <3>2. o.watch \in Watches /\ o.target \in Files /\ o.seen \in 1 .. 2 /\ o.at \in Nat \ {0}
      BY <3>1
    <3>3. o.target \in S
      BY <3>1
    <3>4. Watches \subseteq Nat /\ Files \subseteq Nat
      BY FilesAssumption
    <3>5. o.watch \in Nat /\ o.target \in Nat
      BY <3>2, <3>4
    <3>6. o.seen \in Nat
      BY <3>2
    <3> QED BY <3>2, <3>3, <3>5, <3>6
  <2>2. /\ << o.watch, o.target, o.seen >> \in Seq(Nat)
        /\ << o.watch, o.target, o.seen >>[2] = o.target
    BY <2>1
  <2>3. Row(o) \in [kind : 1 .. 5, key : Seq(Nat), at : Nat \ {0}, safe : BOOLEAN]
    BY <2>1, <2>2 DEF Observation
  <2>4. Row(o).kind = 5 /\ Row(o).safe = TRUE /\ Row(o).key[2] \in S
    BY <2>1, <2>2 DEF Observation
  <2> HIDE DEF Row
  <2> QED BY <2>3, <2>4 DEF TableRows, FileOf, SourceRange, PreparedCard, Observation
<1>3. IsFiniteSet(ObservationRows(S))
  <2> DEFINE g == [o \in M |-> Row(o)]
  <2>1. {g[o] : o \in M} = ObservationRows(S)
    BY <1>1
  <2>2. IsFiniteSet(M)
    BY FS_Subset DEF TablesInv
  <2> HIDE DEF g, M
  <2> QED BY <2>1, <2>2, ImagesAreFinite
<1> HIDE DEF Row
<1> QED BY <1>1, <1>2, <1>3 DEF IsTable

\* Every table is one, and what it holds of some files is what is about them.
LEMMA Tables ==
  TablesInv =>
    \A S \in SUBSET Files :
      /\ \A kind \in 1 .. 5 : IsTable(kind, Table(kind, S), S)
      /\ Rows(S) \subseteq TableRows /\ IsFiniteSet(Rows(S))
      /\ \A row \in Rows(S) : row \in Table(row.kind, S) /\ FileOf(row) \in S
<1> SUFFICES ASSUME TablesInv, NEW S \in SUBSET Files
             PROVE  /\ \A kind \in 1 .. 5 : IsTable(kind, Table(kind, S), S)
                    /\ Rows(S) \subseteq TableRows /\ IsFiniteSet(Rows(S))
                    /\ \A row \in Rows(S) : row \in Table(row.kind, S) /\ FileOf(row) \in S
  OBVIOUS
<1>1. \A kind \in 1 .. 5 : IsTable(kind, Table(kind, S), S)
  <2> TAKE kind \in 1 .. 5
  <2>1. IsTable(SourceRange, RangeRows(S), S)
    BY RangeRowsAreATable
  <2>2. IsTable(SummaryLeaf, LeafRows(S), S)
    BY LeafRowsAreATable
  <2>3. IsTable(PreparedCard, CardRows(S, PreparedCard), S) /\ IsTable(InboxItem, CardRows(S, InboxItem), S)
    BY CardRowsAreATable
  <2>4. IsTable(Observation, ObservationRows(S), S)
    BY ObservationRowsAreATable
  <2> QED BY <2>1, <2>2, <2>3, <2>4
          DEF Table, SourceRange, SummaryLeaf, PreparedCard, InboxItem, Observation
<1>2. Rows(S) = UNION {Table(kind, S) : kind \in 1 .. 5}
  BY DEF Rows, PreparedCard, Observation
<1>3. \A row \in Rows(S) : \E kind \in 1 .. 5 : row \in Table(kind, S)
  BY <1>2
<1>4. \A row \in Rows(S) : row \in TableRows /\ row \in Table(row.kind, S) /\ FileOf(row) \in S
  BY <1>1, <1>3 DEF IsTable
<1>5. IsFiniteSet(Rows(S))
  <2> DEFINE h == [kind \in 1 .. 5 |-> Table(kind, S)]
             U == {h[kind] : kind \in 1 .. 5}
  <2>1. Rows(S) = UNION U /\ \A T \in U : IsFiniteSet(T)
    BY <1>1, <1>2 DEF IsTable
  <2>2. IsFiniteSet(U)
    <3> HIDE DEF h
    <3>1. \A n \in Nat : IsFiniteSet(1 .. n)
      BY FS_Interval
    <3> QED BY <3>1, ImagesAreFinite
  <2> HIDE DEF U
  <2> QED BY <2>1, <2>2, FS_UNION
<1> QED BY <1>1, <1>4, <1>5

\* The rows of all files are those of some and those of the others.
LEMMA RowsOfAll ==
  ASSUME NEW S \in SUBSET Files
  PROVE  Rows(Files) = Rows(S) \cup Rows(Files \ S)
<1>1. RangeRows(Files) = RangeRows(S) \cup RangeRows(Files \ S)
  BY DEF RangeRows
<1>2. LeafRows(Files) = LeafRows(S) \cup LeafRows(Files \ S)
  BY DEF LeafRows
<1>3. \A kind : CardRows(Files, kind) = CardRows(S, kind) \cup CardRows(Files \ S, kind)
  BY DEF CardRows
<1>4. ObservationRows(Files) \subseteq ObservationRows(S) \cup ObservationRows(Files \ S)
      /\ ObservationRows(S) \cup ObservationRows(Files \ S) \subseteq ObservationRows(Files)
  BY DEF ObservationRows
<1>5. \A kind \in 1 .. 5 : Table(kind, Files) = Table(kind, S) \cup Table(kind, Files \ S)
  BY <1>1, <1>2, <1>3, <1>4
     DEF Table, SourceRange, SummaryLeaf, PreparedCard, InboxItem, Observation
<1>6. \A T, row : row \in Rows(T) <=> \E kind \in 1 .. 5 : row \in Table(kind, T)
  BY DEF Rows, PreparedCard, Observation
<1>7. \A row : row \in Rows(Files) <=> row \in Rows(S) \/ row \in Rows(Files \ S)
  <2> TAKE row
  <2>1. row \in Rows(Files) <=> \E kind \in 1 .. 5 : row \in Table(kind, Files)
    BY <1>6
  <2>2. row \in Rows(S) <=> \E kind \in 1 .. 5 : row \in Table(kind, S)
    BY <1>6
  <2>3. row \in Rows(Files \ S) <=> \E kind \in 1 .. 5 : row \in Table(kind, Files \ S)
    BY <1>6
  <2>4. \A kind \in 1 .. 5 :
          row \in Table(kind, Files) <=> (row \in Table(kind, S) \/ row \in Table(kind, Files \ S))
    BY <1>5
  <2> QED BY <2>1, <2>2, <2>3, <2>4
<1> QED BY <1>7

\* The rows of some files are those about them.
LEMMA RowsAboutFiles ==
  TablesInv =>
    \A S \in SUBSET Files : Rows(S) = {row \in Rows(Files) : FileOf(row) \in S}
<1> SUFFICES ASSUME TablesInv, NEW S \in SUBSET Files
             PROVE  Rows(S) = {row \in Rows(Files) : FileOf(row) \in S}
  OBVIOUS
<1>1. Rows(Files) = Rows(S) \cup Rows(Files \ S)
  BY RowsOfAll
<1>2. (\A row \in Rows(S) : FileOf(row) \in S) /\ (\A row \in Rows(Files \ S) : FileOf(row) \in Files \ S)
  BY Tables
<1> QED BY <1>1, <1>2

\* allocateSessionDiffMutationTimestamp gives a number whatever is stored.
LEMMA StampsAreNumbers ==
  TablesInv => /\ Stamps \subseteq Nat \ {0} /\ IsFiniteSet(Stamps)
               /\ \A now \in Clock : MutationTimestamp(now) \in Nat \ {0}
<1> SUFFICES ASSUME TablesInv
             PROVE  /\ Stamps \subseteq Nat \ {0} /\ IsFiniteSet(Stamps)
                    /\ \A now \in Clock : MutationTimestamp(now) \in Nat \ {0}
  OBVIOUS
<1>1. Rows(Files) \subseteq TableRows /\ IsFiniteSet(Rows(Files))
  BY Tables
<1>2. Stamps \subseteq Nat \ {0}
  BY <1>1, RowsArePoints DEF Stamps
<1>3. IsFiniteSet(Stamps)
  <2> DEFINE g == [row \in Rows(Files) |-> row.at]
  <2>1. {g[row] : row \in Rows(Files)} = Stamps
    BY DEF Stamps
  <2> HIDE DEF g
  <2> QED BY <1>1, <2>1, ImagesAreFinite
<1>4. \A now \in Clock : MutationTimestamp(now) \in Nat \ {0}
  <2>1. Stamps # {} => Max(Stamps) \in Nat \ {0}
    BY <1>2, <1>3, MaxIsGreatest
  <2> QED BY <2>1, ClockAssumption DEF MutationTimestamp
<1> QED BY <1>2, <1>3, <1>4

----------------------------------------------------------------------------
(* The writers keep the tables.                                            *)

\* An appended delta adds a line and its range.
LEMMA AppendDeltaKeepsTables ==
  ASSUME TablesInv, NEW f \in Files, NEW line \in Lines, AppendDelta(f, line)
  PROVE  TablesInv'
<1>1. /\ source[f] # NoRow
      /\ source[f] \in [hash : Seq(Lines), epoch : Seq(Lines), generation : Nat]
      /\ ranges[f] \in Seq(Nat \ {0}) /\ Len(ranges[f]) = Len(source[f].hash)
  BY DEF TablesInv, AppendDelta
<1>2. PICK now \in Clock :
        ranges' = [ranges EXCEPT ![f] = Append(@, MutationTimestamp(now))]
  BY DEF AppendDelta
<1>3. PICK at \in Nat \ {0} : ranges' = [ranges EXCEPT ![f] = Append(ranges[f], at)]
  BY <1>2, StampsAreNumbers DEF TablesInv
<1>4. PICK s : /\ s = [hash |-> Append(source[f].hash, line), epoch |-> source[f].epoch,
                       generation |-> source[f].generation + 1]
               /\ source' = [source EXCEPT ![f] = s]
  <2>1. source' = [source EXCEPT ![f] = [hash |-> Append(source[f].hash, line),
                     epoch |-> source[f].epoch, generation |-> source[f].generation + 1]]
    <3>1. source' = [source EXCEPT ![f].hash = Append(@, line), ![f].generation = @ + 1]
      BY DEF AppendDelta
    <3>2. source' = [source EXCEPT ![f] = [[source[f] EXCEPT !.hash = Append(source[f].hash, line)]
                                           EXCEPT !.generation = source[f].generation + 1]]
      BY <1>1, <3>1 DEF TablesInv
    <3>3. [[source[f] EXCEPT !.hash = Append(source[f].hash, line)]
              EXCEPT !.generation = source[f].generation + 1]
          = [hash |-> Append(source[f].hash, line), epoch |-> source[f].epoch,
             generation |-> source[f].generation + 1]
      <4>1. ASSUME NEW r \in [hash : Seq(Lines), epoch : Seq(Lines), generation : Nat], NEW a, NEW b
            PROVE  [[r EXCEPT !.hash = a] EXCEPT !.generation = b]
                     = [hash |-> a, epoch |-> r.epoch, generation |-> b]
        <5>1. PICK u : u = [r EXCEPT !.hash = a]
          OBVIOUS
        <5>2. u = [hash |-> a, epoch |-> r.epoch, generation |-> r.generation]
          BY <5>1
        <5>3. [u EXCEPT !.generation = b] = [hash |-> a, epoch |-> r.epoch, generation |-> b]
          BY <5>2
        <5> QED BY <5>1, <5>3
      <4> QED BY <1>1, <4>1
    <3> QED BY <3>2, <3>3
  <2> QED BY <2>1
<1>5. /\ s \in [hash : Seq(Lines), epoch : Seq(Lines), generation : Nat]
      /\ s.hash \in Seq(Lines) /\ Len(s.hash) = Len(source[f].hash) + 1
  BY <1>1, <1>4
<1>6. Append(ranges[f], at) \in Seq(Nat \ {0}) /\ Len(Append(ranges[f], at)) = Len(source[f].hash) + 1
  BY <1>1
<1>7. source'[f] = s /\ ranges'[f] = Append(ranges[f], at)
  BY <1>3, <1>4 DEF TablesInv
<1>8. \A g \in Files \ {f} : source'[g] = source[g] /\ ranges'[g] = ranges[g]
  BY <1>3, <1>4 DEF TablesInv
<1>9. \A g \in Files :
        /\ source'[g] # NoRow => Len(ranges'[g]) = Len(source'[g].hash)
        /\ ranges'[g] # << >> => source'[g].hash \in Seq(Lines) /\ Len(ranges'[g]) = Len(source'[g].hash)
  <2> TAKE g \in Files
  <2>1. CASE g = f
    BY <1>5, <1>6, <1>7, <2>1
  <2>2. CASE g # f
    BY <1>8, <2>2 DEF TablesInv
  <2> QED BY <2>1, <2>2
<1> HIDE DEF TablesInv
<1>10. source' \in [Files -> [hash : Seq(Lines), epoch : Seq(Lines), generation : Nat] \cup {NoRow}]
  BY <1>4, <1>5 DEF TablesInv
<1>11. ranges' \in [Files -> Seq(Nat \ {0})]
  BY <1>3, <1>6 DEF TablesInv
<1>12. leaf' = leaf /\ card' = card /\ observations' = observations
  BY DEF AppendDelta
<1> QED BY <1>9, <1>10, <1>11, <1>12 DEF TablesInv

\* A session parsed afresh has a range for each of its lines.
LEMMA UpsertSessionKeepsTables ==
  ASSUME TablesInv, NEW f \in Files, NEW text \in Texts, UpsertSession(f, text)
  PROVE  TablesInv'
<1>1. text \in Seq(Lines)
  BY SizesAssumption DEF Texts
<1>2. PICK now \in Clock :
        ranges' = [ranges EXCEPT ![f] = [i \in 1 .. Len(text) |-> MutationTimestamp(now)]]
  BY DEF UpsertSession
<1>3. PICK r : r = [i \in 1 .. Len(text) |-> MutationTimestamp(now)] /\ ranges' = [ranges EXCEPT ![f] = r]
  BY <1>2
<1>4. r \in Seq(Nat \ {0}) /\ Len(r) = Len(text)
  <2>1. Len(text) \in Nat /\ MutationTimestamp(now) \in Nat \ {0}
    BY <1>1, StampsAreNumbers
  <2> QED BY <1>3, <2>1
<1>5. PICK s : s = NewSource(f, text) /\ source' = [source EXCEPT ![f] = s]
  BY DEF UpsertSession
<1>6. s \in [hash : Seq(Lines), epoch : Seq(Lines), generation : Nat] /\ s.hash = text
  <2>1. source[f] # NoRow => source[f].epoch \in Seq(Lines) /\ source[f].generation \in Nat
    BY DEF TablesInv
  <2> QED BY <1>1, <1>5, <2>1 DEF NewSource
<1>7. leaf' = [leaf EXCEPT ![f] = NoRow] /\ card' = card /\ observations' = observations
  BY DEF UpsertSession
<1>8. source'[f] = s /\ ranges'[f] = r
  BY <1>3, <1>5 DEF TablesInv
<1>9. \A g \in Files \ {f} : source'[g] = source[g] /\ ranges'[g] = ranges[g]
  BY <1>3, <1>5 DEF TablesInv
<1>10. \A g \in Files :
        /\ source'[g] # NoRow => Len(ranges'[g]) = Len(source'[g].hash)
        /\ ranges'[g] # << >> => source'[g].hash \in Seq(Lines) /\ Len(ranges'[g]) = Len(source'[g].hash)
  <2> TAKE g \in Files
  <2>1. CASE g = f
    BY <1>1, <1>4, <1>6, <1>8, <2>1
  <2>2. CASE g # f
    BY <1>9, <2>2 DEF TablesInv
  <2> QED BY <2>1, <2>2
<1>11. source' \in [Files -> [hash : Seq(Lines), epoch : Seq(Lines), generation : Nat] \cup {NoRow}]
  BY <1>5, <1>6 DEF TablesInv
<1>12. ranges' \in [Files -> Seq(Nat \ {0})]
  BY <1>3, <1>4 DEF TablesInv
<1>13. leaf' \in [Files -> [body : Seq(Lines), at : Nat \ {0}] \cup {NoRow}]
  BY <1>7 DEF TablesInv
<1> QED BY <1>7, <1>10, <1>11, <1>12, <1>13 DEF TablesInv

\* Clearing takes the lines and the ranges together.
LEMMA ClearKeepsTables ==
  ASSUME TablesInv, NEW f \in Files, ClearSourceFileIndex(f)
  PROVE  TablesInv'
<1>1. /\ source' = [source EXCEPT ![f] = NoRow] /\ ranges' = [ranges EXCEPT ![f] = << >>]
      /\ leaf' = [leaf EXCEPT ![f] = NoRow] /\ card' = card /\ observations' = observations
  BY DEF ClearSourceFileIndex
<1>2. source'[f] = NoRow /\ ranges'[f] = << >>
  BY <1>1 DEF TablesInv
<1>3. \A g \in Files \ {f} : source'[g] = source[g] /\ ranges'[g] = ranges[g]
  BY <1>1 DEF TablesInv
<1>4. \A g \in Files :
        /\ source'[g] # NoRow => Len(ranges'[g]) = Len(source'[g].hash)
        /\ ranges'[g] # << >> => source'[g].hash \in Seq(Lines) /\ Len(ranges'[g]) = Len(source'[g].hash)
  BY <1>2, <1>3 DEF TablesInv
<1>5. source' \in [Files -> [hash : Seq(Lines), epoch : Seq(Lines), generation : Nat] \cup {NoRow}]
  BY <1>1 DEF TablesInv
<1>6. ranges' \in [Files -> Seq(Nat \ {0})]
  <2>1. << >> \in Seq(Nat \ {0})
    OBVIOUS
  <2> QED BY <1>1, <2>1 DEF TablesInv
<1>7. leaf' \in [Files -> [body : Seq(Lines), at : Nat \ {0}] \cup {NoRow}]
  BY <1>1 DEF TablesInv
<1> QED BY <1>1, <1>4, <1>5, <1>6, <1>7 DEF TablesInv

\* A leaf is made of a stored text.
LEMMA LeavesKeepTables ==
  ASSUME TablesInv, NEW f \in Files, MaterializeSummaryLeaves(f)
  PROVE  TablesInv'
<1>1. PICK now \in Clock :
        leaf' = [leaf EXCEPT ![f] =
                   IF ranges[f] = << >> THEN NoRow
                   ELSE Renewed(@, [body |-> source[f].hash, at |-> MutationTimestamp(now)])]
  BY DEF MaterializeSummaryLeaves
<1>2. PICK l : /\ leaf' = [leaf EXCEPT ![f] = l]
               /\ \/ l \in {NoRow, leaf[f]}
                  \/ /\ ranges[f] # << >>
                     /\ l = [body |-> source[f].hash, at |-> MutationTimestamp(now)]
  <2>1. PICK l : /\ l = IF ranges[f] = << >> THEN NoRow
                        ELSE Renewed(leaf[f], [body |-> source[f].hash, at |-> MutationTimestamp(now)])
                 /\ leaf' = [leaf EXCEPT ![f] = l]
    BY <1>1 DEF TablesInv
  <2> QED BY <2>1 DEF Renewed
<1>3. l \in [body : Seq(Lines), at : Nat \ {0}] \cup {NoRow}
  <2>1. MutationTimestamp(now) \in Nat \ {0}
    BY StampsAreNumbers
  <2>2. ranges[f] # << >> => source[f].hash \in Seq(Lines)
    BY DEF TablesInv
  <2>3. leaf[f] \in [body : Seq(Lines), at : Nat \ {0}] \cup {NoRow}
    BY DEF TablesInv
  <2> QED BY <1>2, <2>1, <2>2, <2>3
<1>4. leaf' \in [Files -> [body : Seq(Lines), at : Nat \ {0}] \cup {NoRow}]
  BY <1>2, <1>3 DEF TablesInv
<1>5. source' = source /\ ranges' = ranges /\ card' = card /\ observations' = observations
  BY DEF MaterializeSummaryLeaves
<1> QED BY <1>4, <1>5 DEF TablesInv

\* A card is made of a stored leaf.
LEMMA CardsKeepTables ==
  ASSUME TablesInv, NEW S \in SUBSET Files, MaterializePreparedCards(S)
  PROVE  TablesInv'
<1>1. PICK now \in Clock :
        card' = [f \in Files |->
                   CASE f \notin S -> card[f]
                     [] f \in S /\ leaf[f] = NoRow -> NoRow
                     [] f \in S /\ leaf[f] # NoRow ->
                          Renewed(card[f], [body |-> leaf[f].body, watched |-> Watched(f),
                                            at |-> MutationTimestamp(now)])]
  BY DEF MaterializePreparedCards
<1>2. MutationTimestamp(now) \in Nat \ {0}
  BY StampsAreNumbers
<1>3. \A f \in Files : card'[f] \in [body : Seq(Lines), watched : {0, 1}, at : Nat \ {0}] \cup {NoRow}
  <2> TAKE f \in Files
  <2>1. card[f] \in [body : Seq(Lines), watched : {0, 1}, at : Nat \ {0}] \cup {NoRow}
    BY DEF TablesInv
  <2>2. CASE f \notin S
    BY <1>1, <2>1, <2>2
  <2>3. CASE f \in S /\ leaf[f] = NoRow
    BY <1>1, <2>3
  <2>4. CASE f \in S /\ leaf[f] # NoRow
    <3>1. leaf[f].body \in Seq(Lines) /\ Watched(f) \in {0, 1}
      BY <2>4 DEF TablesInv, Watched
    <3>2. PICK n : /\ n = [body |-> leaf[f].body, watched |-> Watched(f), at |-> MutationTimestamp(now)]
                   /\ card'[f] = Renewed(card[f], n)
      BY <1>1, <2>4
    <3>3. n \in [body : Seq(Lines), watched : {0, 1}, at : Nat \ {0}]
      BY <1>2, <3>1, <3>2
    <3> QED BY <2>1, <3>2, <3>3 DEF Renewed
  <2> QED BY <2>2, <2>3, <2>4
<1>4. card' \in [Files -> [body : Seq(Lines), watched : {0, 1}, at : Nat \ {0}] \cup {NoRow}]
  <2>1. DOMAIN card' = Files /\ card' = [f \in Files |-> card'[f]]
    BY <1>1
  <2> QED BY <1>3, <2>1
<1>5. source' = source /\ ranges' = ranges /\ leaf' = leaf /\ observations' = observations
  BY DEF MaterializePreparedCards
<1> QED BY <1>4, <1>5 DEF TablesInv

\* An observation is about a file, and there are finitely many.
LEMMA ObservationKeepsTables ==
  ASSUME TablesInv, NEW w \in Watches, NEW f \in Files, NEW seen \in 1 .. 2,
         PersistWatcherObservation(w, f, seen)
  PROVE  TablesInv'
<1>1. PICK now \in Clock, last \in SUBSET observations, same \in SUBSET observations :
        observations' = (observations \ last) \cup
          (IF same # {} THEN same
           ELSE {[watch |-> w, target |-> f, seen |-> seen, at |-> MutationTimestamp(now)]})
  BY DEF PersistWatcherObservation
<1>2. PICK o : o = [watch |-> w, target |-> f, seen |-> seen, at |-> MutationTimestamp(now)]
  OBVIOUS
<1>3. o \in [watch : Watches, target : Files, seen : 1 .. 2, at : Nat \ {0}]
  BY <1>2, StampsAreNumbers
<1>4. observations' \subseteq observations \cup {o}
  BY <1>1, <1>2
<1>5. observations' \subseteq [watch : Watches, target : Files, seen : 1 .. 2, at : Nat \ {0}]
  BY <1>3, <1>4 DEF TablesInv
<1>6. IsFiniteSet(observations')
  <2>1. IsFiniteSet(observations \cup {o})
    BY FS_Union, FS_Singleton DEF TablesInv
  <2> QED BY <1>4, <2>1, FS_Subset
<1>7. source' = source /\ ranges' = ranges /\ leaf' = leaf /\ card' = card
  BY DEF PersistWatcherObservation
<1> QED BY <1>5, <1>6, <1>7 DEF TablesInv

----------------------------------------------------------------------------
(* A page.                                                                 *)

\* What a cursor may hold.
IsWatermark(wm) == IsPoint(wm) /\ (wm.kind = 0 => wm = Start)

\* The scan's clause, whatever the kinds, asks for what lies after the watermark.
LEMMA ScanIsAfter ==
  ASSUME NEW row \in TableRows, NEW wm, IsWatermark(wm)
  PROVE  ScanAfter(row, wm) <=> Before(wm, row)
<1>1. IsPoint(row) /\ IsPoint(wm) /\ row.at > 0 /\ row.kind > 0
  BY RowsArePoints DEF IsWatermark
<1>2. Before(wm, row) <=> \/ wm.at < row.at
                          \/ wm.at = row.at /\ wm.kind < row.kind
                          \/ wm.at = row.at /\ wm.kind = row.kind /\ Less(wm.key, row.key)
  BY <1>1, BeforeByFields
<1>3. Less(<< wm.at >> \o wm.key, << row.at >> \o row.key)
        <=> (wm.at < row.at \/ (wm.at = row.at /\ Less(wm.key, row.key)))
  BY <1>1, LessByFirst DEF IsPoint
<1>4. wm.at \in Nat /\ row.at \in Nat /\ wm.kind \in Nat /\ row.kind \in Nat
  BY <1>1 DEF IsPoint
<1>5. CASE wm.kind = 0
  <2>1. wm.at = 0
    BY <1>5 DEF IsWatermark, Start
  <2> QED BY <1>1, <1>2, <1>4, <1>5, <2>1 DEF ScanAfter
<1>6. CASE wm.kind # 0
  <2>1. CASE row.kind = wm.kind
    BY <1>2, <1>3, <1>4, <1>6, <2>1 DEF ScanAfter
  <2>2. CASE row.kind # wm.kind
    BY <1>2, <1>4, <1>6, <2>2 DEF ScanAfter
  <2> QED BY <2>1, <2>2
<1> QED BY <1>5, <1>6

\* A collector returns rows after the watermark, and what it leaves out lies after
\* all it returns.
LEMMA CollectIsCollected ==
  ASSUME TablesInv, StampsInv, scope.files \in SUBSET Files, IsWatermark(watermark),
         NEW kind \in 1 .. 5
  PROVE  /\ Collected(Collect(kind))
         /\ \A row \in Table(kind, scope.files) : Before(watermark, row) =>
              \/ row \in Collect(kind).rows
              \/ ~Collect(kind).exhausted /\ \A x \in Collect(kind).rows : Before(x, row)
<1> DEFINE found == {row \in Table(kind, scope.files) : ScanAfter(row, watermark)}
           near  == {row \in found : Rank(row, found) < ScanLimit}
<1>1. Collect(kind).rows = near /\ (Collect(kind).exhausted <=> Cardinality(found) <= ScanLimit)
  BY DEF Collect
<1>2. IsTable(kind, Table(kind, scope.files), scope.files) /\ Rows(Files) \subseteq TableRows
  BY Tables
<1>3. found \subseteq TableRows /\ IsFiniteSet(found)
  <2>1. found \subseteq Table(kind, scope.files)
    OBVIOUS
  <2> HIDE DEF found
  <2> QED BY <1>2, <2>1, FS_Subset DEF IsTable
<1>4. \A row \in Table(kind, scope.files) : row \in found <=> Before(watermark, row)
  BY <1>2, ScanIsAfter DEF IsTable
<1>5. \A row \in found : row.at <= issued
  <2>1. \A row \in Table(kind, scope.files) : row \in Rows(scope.files)
    BY DEF Rows, PreparedCard, Observation
  <2>2. Rows(scope.files) \subseteq Rows(Files)
    BY RowsAboutFiles
  <2> QED BY <2>1, <2>2 DEF StampsInv
<1>6. \A row \in found : Before(watermark, row)
  BY <1>4
<1>7. near \subseteq found /\ IsFiniteSet(near) /\ \A row \in found : IsPoint(row) /\ Rank(row, found) \in Nat
  <2>1. near \subseteq found
    OBVIOUS
  <2>2. \A row \in found : IsPoint(row)
    BY <1>3, RowsArePoints
  <2> HIDE DEF near, found
  <2> QED BY <1>3, <2>1, <2>2, FS_Subset, RanksGrow
<1>8. Cardinality(found) > ScanLimit => near # {}
  <2> HAVE Cardinality(found) > ScanLimit
  <2>1. found # {}
    BY FS_EmptySet, SizesAssumption
  <2>2. PICK row \in found : Rank(row, found) = 0
    <3> HIDE DEF found
    <3> QED BY <1>3, <1>7, <2>1, TheFirstRankIsZero
  <2>3. row \in near
    BY <2>2, SizesAssumption
  <2> QED BY <2>3
<1>9. ASSUME NEW row \in found, row \notin near
      PROVE  Cardinality(found) > ScanLimit /\ \A x \in near : Before(x, row)
  <2>1. Rank(row, found) >= ScanLimit
    BY <1>7, <1>9, SizesAssumption
  <2>2. Rank(row, found) < Cardinality(found) /\ Cardinality(found) \in Nat
    <3> HIDE DEF found
    <3> QED BY <1>3, <1>7, RanksGrow, FS_CardinalityType
  <2>3. Cardinality(found) > ScanLimit
    BY <1>7, <2>1, <2>2, SizesAssumption
  <2>4. ASSUME NEW x \in near
        PROVE  Before(x, row)
    <3>1. x \in found /\ Rank(x, found) < ScanLimit /\ Rank(x, found) \in Nat
      BY <1>7
    <3>2. ~Before(x, row) => Rank(row, found) <= Rank(x, found)
      <4> HIDE DEF found
      <4> QED BY <1>3, <1>7, <3>1, RanksGrow
    <3> QED BY <1>7, <2>1, <3>1, <3>2, SizesAssumption
  <2> QED BY <2>3, <2>4
<1>10. Cardinality(found) \in Nat
  <2> HIDE DEF found
  <2> QED BY <1>3, FS_CardinalityType
<1> HIDE DEF found, near
<1>11. Collected(Collect(kind))
  <2>1. near \subseteq TableRows /\ \A row \in near : Before(watermark, row) /\ row.at <= issued
    BY <1>3, <1>5, <1>6, <1>7
  <2>2. ~Collect(kind).exhausted => near # {}
    BY <1>1, <1>8, <1>10, SizesAssumption
  <2> QED BY <1>1, <1>7, <2>1, <2>2 DEF Collected
<1>12. ASSUME NEW row \in Table(kind, scope.files), Before(watermark, row)
       PROVE  \/ row \in Collect(kind).rows
              \/ ~Collect(kind).exhausted /\ \A x \in Collect(kind).rows : Before(x, row)
  <2>1. row \in found
    BY <1>4, <1>12
  <2>2. CASE row \in near
    BY <1>1, <2>2
  <2>3. CASE row \notin near
    <3>1. Cardinality(found) > ScanLimit /\ \A x \in near : Before(x, row)
      BY <1>9, <2>1, <2>3
    <3>2. ~Collect(kind).exhausted
      BY <1>1, <1>10, <3>1, SizesAssumption
    <3> QED BY <1>1, <3>1, <3>2
  <2> QED BY <2>2, <2>3
<1> QED BY <1>11, <1>12

\* What the collectors' ends are.
LEMMA Ends ==
  ASSUME NEW R, IsFiniteSet(R), \A r \in R : Collected(r), issued \in Nat
  PROVE  /\ IsFiniteSet(ScanWatermarks(R)) /\ IsFiniteSet(Barriers(R))
         /\ \A wm \in ScanWatermarks(R) :
              /\ wm \in [at : 0 .. issued, kind : 1 .. 5, key : Seq(Nat)]
              /\ Before(watermark, wm) 
         /\ Barriers(R) \subseteq ScanWatermarks(R)
         /\ \A r \in R : ~r.exhausted =>
              \E wm \in Barriers(R), x \in r.rows : wm = Watermark(x)
<1> DEFINE End(r) == Watermark(Latest(r.rows))
           Some == {r \in R : r.rows # {}}
<1>1. ScanWatermarks(R) = {End(r) : r \in Some} /\ Barriers(R) \subseteq ScanWatermarks(R)
  BY DEF ScanWatermarks, Barriers
<1>2. IsFiniteSet(ScanWatermarks(R))
  <2> DEFINE g == [r \in Some |-> End(r)]
  <2>1. {g[r] : r \in Some} = ScanWatermarks(R)
    BY <1>1
  <2>2. IsFiniteSet(Some)
    BY FS_Subset
  <2> HIDE DEF g, Some
  <2> QED BY <2>1, <2>2, ImagesAreFinite
<1>3. IsFiniteSet(Barriers(R))
  BY <1>1, <1>2, FS_Subset
<1>4. \A r \in Some : Latest(r.rows) \in r.rows
  <2> TAKE r \in Some
  <2>1. IsFiniteSet(r.rows) /\ r.rows # {} /\ \A x \in r.rows : IsPoint(x)
    BY RowsArePoints DEF Collected
  <2> QED BY <2>1, LatestIsLast
<1>5. ASSUME NEW r \in Some
      PROVE  /\ End(r) \in [at : 0 .. issued, kind : 1 .. 5, key : Seq(Nat)]
             /\ Before(watermark, End(r))
  <2>1. PICK x \in r.rows : End(r) = Watermark(x)
    BY <1>4
  <2>2. x \in TableRows /\ Before(watermark, x) /\ x.at <= issued
    BY DEF Collected
  <2>3. x.at \in 0 .. issued /\ x.kind \in 1 .. 5 /\ x.key \in Seq(Nat)
    BY <2>2, RowsArePoints DEF IsPoint, Keys
  <2> HIDE DEF End, Some
  <2>4. End(r) = [at |-> x.at, kind |-> x.kind, key |-> x.key]
    BY <2>1 DEF Watermark
  <2>5. Before(watermark, End(r))
    BY <2>2, <2>4 DEF Before, Position
  <2> QED BY <2>3, <2>4, <2>5
<1>6. \A r \in R : ~r.exhausted => \E wm \in Barriers(R), x \in r.rows : wm = Watermark(x)
  <2> TAKE r \in R
  <2> HAVE ~r.exhausted
  <2>1. r.rows # {}
    BY DEF Collected
  <2>2. Watermark(Latest(r.rows)) \in Barriers(R)
    BY <2>1 DEF Barriers, ScanWatermarks
  <2> QED BY <1>4, <2>1, <2>2
<1> QED BY <1>1, <1>2, <1>3, <1>5, <1>6

\* Where a page ends: not before the watermark, any row of the page, nor, when there
\* are barriers, after the first of them.
LEMMA NextIsReached ==
  ASSUME NEW R, IsFiniteSet(R), \A r \in R : Collected(r),
         TypeInv, page >= 1, IsWatermark(watermark),
         watermark \in [at : 0 .. issued, kind : 0 .. 5, key : Seq(Nat)]
  PROVE  /\ Candidates(R) \subseteq TableRows /\ IsFiniteSet(Candidates(R))
         /\ Selected(R) \subseteq Candidates(R) /\ IsFiniteSet(Selected(R))
         /\ (Candidates(R) # {} => Selected(R) # {})
         /\ NextWatermark(R) \in [at : 0 .. issued, kind : 0 .. 5, key : Seq(Nat)]
         /\ IsWatermark(NextWatermark(R))
         /\ ~Before(NextWatermark(R), watermark)
         /\ \A row \in Selected(R) : Before(watermark, row) /\ ~Before(NextWatermark(R), row)
         /\ Selected(R) # {} => NextWatermark(R) = Watermark(Latest(Selected(R)))
         /\ Barriers(R) # {} => ~Before(Earliest(Barriers(R)), NextWatermark(R))
<1>1. Scanned(R) \subseteq TableRows /\ IsFiniteSet(Scanned(R))
      /\ \A row \in Scanned(R) : Before(watermark, row) /\ row.at <= issued
  <2> DEFINE h == [r \in R |-> r.rows]
             U == {h[r] : r \in R}
  <2>1. Scanned(R) = UNION U /\ \A T \in U : IsFiniteSet(T)
    BY DEF Scanned, Collected
  <2>2. IsFiniteSet(U)
    <3> HIDE DEF h
    <3> QED BY ImagesAreFinite
  <2>3. IsFiniteSet(Scanned(R))
    <3> HIDE DEF U
    <3> QED BY <2>1, <2>2, FS_UNION
  <2>4. \A row \in Scanned(R) : row \in TableRows /\ Before(watermark, row) /\ row.at <= issued
    BY DEF Scanned, Collected
  <2> QED BY <2>3, <2>4
<1>2. Candidates(R) \subseteq Scanned(R)
  BY DEF Candidates
<1>3. Candidates(R) \subseteq TableRows /\ IsFiniteSet(Candidates(R)) /\ \A x \in Candidates(R) : IsPoint(x)
  BY <1>1, <1>2, FS_Subset, RowsArePoints
<1>4. Selected(R) \subseteq Candidates(R) /\ IsFiniteSet(Selected(R))
  <2>1. Selected(R) \subseteq Candidates(R)
    BY DEF Selected
  <2> QED BY <1>3, <2>1, FS_Subset
<1>5. Candidates(R) # {} => Selected(R) # {}
  <2> HAVE Candidates(R) # {}
  <2>1. PICK x \in Candidates(R) : Rank(x, Candidates(R)) = 0
    BY <1>3, TheFirstRankIsZero
  <2>2. x \in Selected(R)
    BY <2>1 DEF Selected, TypeInv
  <2> QED BY <2>2
<1>6. /\ IsFiniteSet(ScanWatermarks(R)) /\ IsFiniteSet(Barriers(R))
      /\ Barriers(R) \subseteq ScanWatermarks(R)
      /\ \A wm \in ScanWatermarks(R) :
           /\ wm \in [at : 0 .. issued, kind : 0 .. 5, key : Seq(Nat)]
           /\ IsWatermark(wm) /\ Before(watermark, wm)
  <2>1. \A wm \in ScanWatermarks(R) : /\ wm \in [at : 0 .. issued, kind : 1 .. 5, key : Seq(Nat)]
                                      /\ Before(watermark, wm)
    BY Ends DEF TypeInv
  <2>2. \A wm \in ScanWatermarks(R) :
          /\ wm \in [at : 0 .. issued, kind : 0 .. 5, key : Seq(Nat)]
          /\ IsWatermark(wm) /\ Before(watermark, wm)
    BY <2>1 DEF TypeInv, IsWatermark, IsPoint, Keys
  <2> QED BY <2>2, Ends DEF TypeInv
<1>7. Barriers(R) # {} => /\ Earliest(Barriers(R)) \in Barriers(R)
                          /\ \A wm \in Barriers(R) : ~Before(wm, Earliest(Barriers(R)))
  BY <1>6, EarliestIsFirst DEF IsWatermark
<1>8. CASE Selected(R) # {}
  <2>1. Latest(Selected(R)) \in Selected(R) /\ \A x \in Selected(R) : ~Before(Latest(Selected(R)), x)
    BY <1>3, <1>4, <1>8, LatestIsLast
  <2>2. PICK x \in Selected(R) : x = Latest(Selected(R)) /\ NextWatermark(R) = Watermark(x)
    BY <1>8, <2>1 DEF NextWatermark
  <2>3. x \in TableRows /\ x \in Scanned(R) /\ x \in Candidates(R)
    BY <1>1, <1>2, <1>4
  <2>4. x.at \in 0 .. issued /\ x.kind \in 1 .. 5 /\ x.key \in Keys
    BY <1>1, <2>3, RowsArePoints DEF TypeInv, IsPoint
  <2>5. /\ NextWatermark(R).at = x.at /\ NextWatermark(R).kind = x.kind /\ NextWatermark(R).key = x.key
    BY <2>2 DEF Watermark
  <2>6. IsWatermark(NextWatermark(R))
    BY <2>4, <2>5 DEF IsWatermark, IsPoint, TypeInv
  <2>7. \A y : /\ Before(y, NextWatermark(R)) <=> Before(y, x)
               /\ Before(NextWatermark(R), y) <=> Before(x, y)
    BY <2>5 DEF Before, Position
  <2>8. ~Before(NextWatermark(R), watermark)
    <3>1. Before(watermark, x) /\ IsPoint(x) /\ IsPoint(watermark)
      BY <1>1, <2>3, RowsArePoints DEF IsWatermark
    <3> QED BY <2>7, <3>1, BeforeIsAnOrder
  <2>9. \A row \in Selected(R) : Before(watermark, row) /\ ~Before(NextWatermark(R), row)
    BY <1>1, <1>2, <1>4, <2>1, <2>2, <2>7
  <2>10. Barriers(R) # {} => ~Before(Earliest(Barriers(R)), NextWatermark(R))
    BY <2>3, <2>7 DEF Candidates
  <2>11. NextWatermark(R) \in [at : 0 .. issued, kind : 0 .. 5, key : Seq(Nat)]
    BY <2>2, <2>4 DEF Watermark, Keys
  <2> QED BY <1>3, <1>4, <1>5, <2>2, <2>4, <2>5, <2>6, <2>8, <2>9, <2>10, <2>11 DEF TypeInv
<1>9. CASE Selected(R) = {}
  <2>1. CASE Barriers(R) # {}
    <3>1. NextWatermark(R) = Latest({Earliest(Barriers(R))})
      BY <1>9, <2>1 DEF NextWatermark
    <3>2. IsPoint(Earliest(Barriers(R)))
      BY <1>6, <1>7, <2>1 DEF IsWatermark
    <3>3. NextWatermark(R) = Earliest(Barriers(R))
      BY <3>1, <3>2, BeforeIsAnOrder DEF Latest
    <3>4. NextWatermark(R) \in ScanWatermarks(R)
      BY <1>6, <1>7, <2>1, <3>3
    <3>5. ~Before(NextWatermark(R), watermark) /\ ~Before(NextWatermark(R), NextWatermark(R))
      BY <1>6, <3>4, BeforeIsAnOrder DEF IsWatermark
    <3> QED BY <1>3, <1>4, <1>5, <1>6, <1>9, <3>3, <3>4, <3>5
  <2>2. CASE Barriers(R) = {} /\ ScanWatermarks(R) # {}
    <3>1. NextWatermark(R) = Latest(ScanWatermarks(R))
      BY <1>9, <2>2 DEF NextWatermark
    <3>2. NextWatermark(R) \in ScanWatermarks(R)
      BY <1>6, <2>2, <3>1, LatestIsLast DEF IsWatermark
    <3>3. ~Before(NextWatermark(R), watermark)
      BY <1>6, <3>2, BeforeIsAnOrder DEF IsWatermark
    <3> QED BY <1>3, <1>4, <1>5, <1>6, <1>9, <2>2, <3>2, <3>3
  <2>3. CASE Barriers(R) = {} /\ ScanWatermarks(R) = {}
    <3>1. NextWatermark(R) = watermark
      BY <1>9, <2>3 DEF NextWatermark
    <3>2. ~Before(NextWatermark(R), watermark)
      BY <3>1, BeforeIsAnOrder DEF IsWatermark
    <3> QED BY <1>3, <1>4, <1>5, <1>9, <2>3, <3>1, <3>2
  <2> QED BY <2>1, <2>2, <2>3
<1> QED BY <1>8, <1>9

\* What lies after the watermark, and not after the next one or when there is no more, is
\* on the page.
LEMMA PageIsComplete ==
  ASSUME TypeInv, TablesInv, StampsInv, scope.files \in SUBSET Files, page >= 1,
         IsWatermark(watermark), watermark \in [at : 0 .. issued, kind : 0 .. 5, key : Seq(Nat)],
         NEW R, R = {Collect(kind) : kind \in 1 .. 5},
         NEW row \in Rows(scope.files), row.safe, Before(watermark, row),
         ~Before(NextWatermark(R), row) \/ ~HasMore(R)
  PROVE  row \in Selected(R)
<1>1. IsFiniteSet(R)
  <2> DEFINE g == [kind \in 1 .. 5 |-> Collect(kind)]
  <2>1. {g[kind] : kind \in 1 .. 5} = R
    OBVIOUS
  <2>2. \A n \in Nat : IsFiniteSet(1 .. n)
    BY FS_Interval
  <2>3. PICK T : T = 1 .. 5 /\ IsFiniteSet(T)
    BY <2>2
  <2> HIDE DEF g
  <2>4. IsFiniteSet({g[kind] : kind \in T})
    BY <2>3, ImagesAreFinite
  <2> QED BY <2>1, <2>3, <2>4
<1>2. \A r \in R : Collected(r)
  BY CollectIsCollected
<1>3. row \in TableRows /\ row.kind \in 1 .. 5 /\ row \in Table(row.kind, scope.files)
      /\ IsPoint(row)
  BY Tables, RowsArePoints
<1>4. /\ Barriers(R) # {} => ~Before(Earliest(Barriers(R)), NextWatermark(R))
      /\ Candidates(R) \subseteq TableRows /\ IsFiniteSet(Candidates(R))
      /\ Selected(R) \subseteq Candidates(R)
      /\ IsPoint(NextWatermark(R))
      /\ Candidates(R) # {} => Selected(R) # {}
      /\ Selected(R) # {} => NextWatermark(R) = Watermark(Latest(Selected(R)))
  BY <1>1, <1>2, NextIsReached DEF IsWatermark
<1>5. Barriers(R) # {} => /\ Earliest(Barriers(R)) \in Barriers(R)
                          /\ IsPoint(Earliest(Barriers(R)))
                          /\ \A wm \in Barriers(R) : IsPoint(wm) /\ ~Before(wm, Earliest(Barriers(R)))
  <2>1. /\ IsFiniteSet(Barriers(R)) /\ Barriers(R) \subseteq ScanWatermarks(R)
        /\ ScanWatermarks(R) \subseteq [at : 0 .. issued, kind : 1 .. 5, key : Seq(Nat)]
    BY <1>1, <1>2, Ends DEF TypeInv
  <2>2. \A wm \in [at : 0 .. issued, kind : 1 .. 5, key : Seq(Nat)] : IsPoint(wm)
    BY DEF TypeInv, IsPoint, Keys
  <2> QED BY <2>1, <2>2, EarliestIsFirst
<1>6. Barriers(R) # {} => ~Before(Earliest(Barriers(R)), row)
  <2> HAVE Barriers(R) # {}
  <2>1. ~Before(NextWatermark(R), row)
    BY DEF HasMore
  <2> QED BY <1>3, <1>4, <1>5, <2>1, BeforeIsAnOrder
<1>7. row \in Collect(row.kind).rows
  <2> SUFFICES ASSUME row \notin Collect(row.kind).rows
               PROVE  FALSE
    OBVIOUS
  <2>1. PICK r \in R : r = Collect(row.kind)
    BY <1>3
  <2>2. ~r.exhausted /\ \A x \in r.rows : Before(x, row)
    BY <1>3, <2>1, CollectIsCollected
  <2>3. PICK wm \in Barriers(R), x \in r.rows : wm = Watermark(x)
    BY <1>1, <1>2, <2>2, Ends DEF TypeInv
  <2>4. Before(wm, row)
    BY <2>2, <2>3 DEF Before, Position, Watermark
  <2> QED BY <1>3, <1>5, <1>6, <2>4, BeforeIsAnOrder
<1>8. row \in Candidates(R)
  BY <1>3, <1>6, <1>7 DEF Candidates, Scanned
<1>9. CASE ~HasMore(R)
  BY <1>8, <1>9 DEF HasMore
<1>10. CASE ~Before(NextWatermark(R), row)
  <2>1. Selected(R) # {} /\ IsFiniteSet(Selected(R)) /\ \A x \in Candidates(R) : IsPoint(x)
    BY <1>4, <1>8, FS_Subset, RowsArePoints
  <2>2. Latest(Selected(R)) \in Selected(R)
    BY <1>4, <2>1, LatestIsLast
  <2>3. PICK x \in Selected(R) : NextWatermark(R) = Watermark(x)
    BY <1>4, <2>1, <2>2
  <2>4. ~Before(x, row)
    BY <1>10, <2>3 DEF Before, Position, Watermark
  <2>5. x \in Candidates(R) /\ Rank(x, Candidates(R)) < page
    BY DEF Selected
  <2>6. Rank(row, Candidates(R)) <= Rank(x, Candidates(R))
    BY <1>3, <1>4, <2>1, <2>4, <2>5, RanksGrow
  <2>7. Rank(row, Candidates(R)) \in Nat /\ Rank(x, Candidates(R)) \in Nat
    BY <1>3, <1>4, <2>1, <2>5, RanksGrow
  <2> QED BY <1>8, <2>5, <2>6, <2>7 DEF Selected, TypeInv
<1> QED BY <1>9, <1>10

----------------------------------------------------------------------------
(* The steps.                                                              *)

\* What the rows of some files are, in a state whose tables are sound and in the next.
RowsByFile ==
  \A S \in SUBSET Files :
    /\ Rows(S) = {row \in Rows(Files) : FileOf(row) \in S}
    /\ Rows(S) \subseteq TableRows /\ IsFiniteSet(Rows(S))

\* The rows by file, in a state with sound tables.
LEMMA RowsNow == TablesInv => RowsByFile
BY Tables, RowsAboutFiles DEF RowsByFile

\* The rows by file, after a step that leaves the tables sound.
LEMMA RowsNext == TablesInv' => RowsByFile'
BY RowsNow, PTL

\* Every writer keeps the tables sound.
LEMMA WriteKeepsTables ==
  ASSUME TablesInv, Write
  PROVE  TablesInv'
<1>1. CASE \E f \in Files, line \in Lines : AppendDelta(f, line)
  BY <1>1, AppendDeltaKeepsTables
<1>2. CASE \E f \in Files, text \in Texts : UpsertSession(f, text)
  BY <1>2, UpsertSessionKeepsTables
<1>3. CASE \E f \in Files : ClearSourceFileIndex(f)
  BY <1>3, ClearKeepsTables
<1>4. CASE \E f \in Files : MaterializeSummaryLeaves(f)
  BY <1>4, LeavesKeepTables
<1>5. CASE \E S \in {Files} \cup {{f} : f \in Files} : MaterializePreparedCards(S)
  <2>1. PICK S \in {Files} \cup {{f} : f \in Files} : MaterializePreparedCards(S)
    BY <1>5
  <2>2. S \in SUBSET Files
    OBVIOUS
  <2> QED BY <2>1, <2>2, CardsKeepTables
<1>6. CASE \E w \in Watches, f \in Files, seen \in 1 .. 2 : PersistWatcherObservation(w, f, seen)
  BY <1>6, ObservationKeepsTables
<1> QED BY <1>1, <1>2, <1>3, <1>4, <1>5, <1>6 DEF Write

\* The stamps of new rows are accounted for, and unless the chain is torn by it they are
\* later than any before them.
LEMMA CommitStamps ==
  ASSUME TypeInv, TablesInv, TablesInv', StampsInv, Commit
  PROVE  /\ TypeInv' /\ StampsInv' /\ issued <= issued'
         /\ torn => torn'
         /\ ~torn' => /\ pc = "idle"
                      /\ \A row \in Rows(Files)' \ Rows(Files) : row.at > issued
<1>1. PICK new : new = Rows(Files)' \ Rows(Files)
  OBVIOUS
<1>2. new \subseteq TableRows /\ IsFiniteSet(new)
  <2>1. Rows(Files)' \subseteq TableRows /\ IsFiniteSet(Rows(Files)')
    BY RowsNext DEF RowsByFile
  <2> QED BY <1>1, <2>1, FS_Subset
<1>3. PICK given : given = {row.at : row \in new}
  OBVIOUS
<1>4. given \subseteq Nat \ {0} /\ IsFiniteSet(given)
  <2>1. given \subseteq Nat \ {0}
    BY <1>2, <1>3, RowsArePoints
  <2> DEFINE g == [row \in new |-> row.at]
  <2>2. {g[row] : row \in new} = given
    BY <1>3
  <2> HIDE DEF g
  <2> QED BY <1>2, <2>1, <2>2, ImagesAreFinite
<1>5. /\ issued' = Max(given \cup {issued})
      /\ torn' = (torn \/ pc # "idle" \/ \E at \in given : at <= issued)
  BY <1>1, <1>3 DEF Commit
<1>6. issued' \in given \cup {issued} /\ \A at \in given \cup {issued} : at <= issued'
  <2>1. given \cup {issued} \subseteq Nat /\ given \cup {issued} # {} /\ IsFiniteSet(given \cup {issued})
    BY <1>4, FS_Union, FS_Singleton DEF TypeInv
  <2> QED BY <1>5, <2>1, MaxIsGreatest
<1>7. issued' \in Nat /\ issued <= issued'
  BY <1>4, <1>6 DEF TypeInv
<1>8. StampsInv'
  <2>1. \A row \in Rows(Files)' : row.at <= issued'
    <3> TAKE row \in Rows(Files)'
    <3>1. CASE row \in new
      BY <1>3, <1>6, <3>1
    <3>2. CASE row \notin new
      <4>1. row \in Rows(Files) /\ row.at <= issued
        BY <1>1, <3>2 DEF StampsInv
      <4>2. row.at \in Nat
        BY <4>1, Tables, RowsArePoints
      <4> QED BY <1>7, <4>1, <4>2 DEF TypeInv
    <3> QED BY <3>1, <3>2
  <2> QED BY <2>1 DEF StampsInv
<1>9. TypeInv'
  BY <1>5, <1>7 DEF TypeInv, Commit, callVars
<1>10. torn => torn'
  BY <1>5
<1>11. ASSUME ~torn'
       PROVE  pc = "idle" /\ \A row \in Rows(Files)' \ Rows(Files) : row.at > issued
  <2>1. pc = "idle" /\ \A at \in given : ~(at <= issued)
    BY <1>5, <1>11
  <2>2. \A row \in new : row.at \in given /\ row.at \in Nat
    BY <1>2, <1>3, RowsArePoints
  <2> QED BY <1>1, <2>1, <2>2 DEF TypeInv
<1> QED BY <1>7, <1>8, <1>9, <1>10, <1>11

\* Rows with later stamps lie after every position reached.
LEMMA ReachedStays ==
  ASSUME TypeInv, TablesInv, TablesInv', StampsInv, Commit, NEW wm, NEW S, Reached(wm, S)
  PROVE  Reached(wm, S)'
<1>1. /\ TypeInv' /\ issued <= issued' /\ pages' = pages /\ (torn => torn')
      /\ ~torn' => \A row \in Rows(Files)' \ Rows(Files) : row.at > issued
  BY CommitStamps DEF Commit
<1>2. wm \in [at : 0 .. issued', kind : 0 .. 5, key : Seq(Nat)]
  BY <1>1 DEF Reached, TypeInv
<1>3. S.files \in SUBSET Files
  BY DEF Reached
<1>4. Rows(S.files) = {row \in Rows(Files) : FileOf(row) \in S.files}
  BY <1>3, RowsAboutFiles
<1>5. Rows(S.files)' = {row \in Rows(Files)' : FileOf(row) \in S.files} /\ Rows(Files)' \subseteq TableRows
  BY <1>3, RowsNext DEF RowsByFile
<1>6. ASSUME ~torn', NEW row \in Rows(S.files)', row.safe, ~Before(wm, row)
      PROVE  \E i \in DOMAIN pages : pages[i] = row
  <2>1. row \in Rows(Files)' /\ FileOf(row) \in S.files /\ row \in TableRows
    BY <1>5, <1>6
  <2>2. CASE row \in Rows(Files)
    BY <1>1, <1>4, <1>6, <2>1, <2>2 DEF Reached
  <2>3. CASE row \notin Rows(Files)
    <3>1. row.at > issued /\ IsPoint(row)
      BY <1>1, <1>6, <2>1, <2>3, RowsArePoints
    <3>2. IsPoint(wm) /\ wm.at <= issued
      BY DEF Reached, IsPoint, TypeInv, Keys
    <3>3. Before(wm, row)
      BY <3>1, <3>2, BeforeByFields DEF IsPoint, TypeInv
    <3> QED BY <1>6, <3>3
  <2> QED BY <2>2, <2>3
<1>7. \A i \in DOMAIN pages : ~Before(wm, pages[i])
  BY DEF Reached
<1> QED BY <1>1, <1>2, <1>3, <1>6, <1>7 DEF Reached

\* A commit, between two diffs or during one, keeps the chain.
LEMMA WriteKeepsChain ==
  ASSUME DiffInv, Write
  PROVE  DiffInv'
<1>1. /\ TypeInv /\ TablesInv /\ TablesInv' /\ StampsInv /\ Commit
  BY WriteKeepsTables DEF DiffInv, Write
<1>2. /\ TypeInv' /\ StampsInv' /\ issued <= issued' /\ (torn => torn') /\ (~torn' => pc = "idle")
  BY <1>1, CommitStamps
<1>3. /\ pc' = pc /\ page' = page /\ scope' = scope /\ watermark' = watermark /\ got' = got
      /\ cursor' = cursor /\ missing' = missing /\ pages' = pages
  BY <1>1 DEF Commit, callVars
<1>4. CallInv'
  <2>1. ASSUME NEW r, Collected(r)
        PROVE  Collected(r)'
    <3>1. \A row \in r.rows : row.at <= issued'
      <4> TAKE row \in r.rows
      <4>1. row.at <= issued /\ row.at \in Nat
        BY <2>1, RowsArePoints DEF Collected
      <4> QED BY <1>1, <1>2, <4>1 DEF TypeInv
    <3>2. \A row \in r.rows : Before(watermark', row)
      BY <1>3, <2>1 DEF Collected
    <3> QED BY <2>1, <3>1, <3>2 DEF Collected
  <2>2. pc' # "idle" => page' >= 1 /\ IsFiniteSet(got') /\ \A r \in got' : Collected(r)'
    BY <1>3, <2>1 DEF DiffInv, CallInv
  <2>3. ~torn' => pc' = "idle"
    BY <1>2, <1>3
  <2> QED BY <2>2, <2>3 DEF CallInv
<1>5. ChainInv'
  <2>1. pages' \in Seq(TableRows) /\ InOrderOnce' /\ NothingIsLost'
    BY <1>2, <1>3 DEF DiffInv, ChainInv, InOrderOnce, NothingIsLost
  <2>2. pc' # "idle" => Reached(watermark, scope)'
    <3> HAVE pc' # "idle"
    <3>1. PICK wm, S : wm = watermark /\ S = scope
      OBVIOUS
    <3>2. Reached(wm, S)'
      BY <1>1, <1>3, <3>1, ReachedStays DEF DiffInv, ChainInv
    <3> QED BY <1>3, <3>1, <3>2 DEF Reached
  <2>3. pc' = "idle" => \/ cursor' = NoCursor /\ pages' = << >>
                        \/ Reached(cursor.watermark, cursor.scope)'
    <3> HAVE pc' = "idle"
    <3>1. CASE cursor = NoCursor /\ pages = << >>
      BY <1>3, <3>1
    <3>2. CASE Reached(cursor.watermark, cursor.scope)
      <4>1. PICK wm, S : wm = cursor.watermark /\ S = cursor.scope
        OBVIOUS
      <4>2. Reached(wm, S)'
        BY <1>1, <3>2, <4>1, ReachedStays
      <4> QED BY <1>3, <4>1, <4>2 DEF Reached
    <3> QED BY <1>3, <3>1, <3>2 DEF DiffInv, ChainInv
  <2> QED BY <2>1, <2>2, <2>3 DEF ChainInv
<1> QED BY <1>1, <1>2, <1>4, <1>5 DEF DiffInv

\* Nothing is read or asked by changing a table.
LEMMA TablesStay ==
  ASSUME UNCHANGED dbVars
  PROVE  /\ TablesInv' <=> TablesInv
         /\ \A T, kind : Table(kind, T)' = Table(kind, T)
         /\ \A T : Rows(T)' = Rows(T)
<1>1. /\ source' = source /\ destructive' = destructive /\ ranges' = ranges /\ leaf' = leaf
      /\ card' = card /\ observations' = observations
  BY DEF dbVars
<1>2. \A T : RangeRows(T)' = RangeRows(T) /\ LeafRows(T)' = LeafRows(T)
             /\ ObservationRows(T)' = ObservationRows(T)
  BY <1>1 DEF RangeRows, LeafRows, ObservationRows
<1>3. \A T, kind : CardRows(T, kind)' = CardRows(T, kind)
  BY <1>1 DEF CardRows
<1>4. \A T, kind : Table(kind, T)' = Table(kind, T)
  BY <1>2, <1>3 DEF Table
<1>5. \A T : Rows(T)' = Rows(T)
  BY <1>4 DEF Rows
<1> QED BY <1>1, <1>4, <1>5 DEF TablesInv

\* A diff that begins, afresh or from a cursor, keeps the chain.
LEMMA AskKeepsChain ==
  ASSUME DiffInv, NEW S \in Scopes, NEW size \in PageSizes, NEW given \in {NoCursor, cursor},
         Ask(S, size, given)
  PROVE  DiffInv'
<1> DEFINE accepted == given # NoCursor /\ given.scope = S
<1>1. /\ pc = "idle" /\ pc' = "ranges" /\ scope' = S /\ page' = size /\ got' = {}
      /\ watermark' = IF accepted THEN given.watermark ELSE Start
      /\ told' = (accepted /\ (told \/ Stale(given.snapshot, Snapshot(S))))
      /\ torn' = (accepted /\ torn)
      /\ base' = {row \in Rows(S.files) : row.safe} /\ missing' = {}
      /\ pages' = IF accepted THEN pages ELSE << >>
      /\ issued' = issued /\ UNCHANGED dbVars
  BY DEF Ask
<1>2. S.files \subseteq Files
  BY FilesAssumption DEF Scopes
<1>3. TablesInv' /\ \A T : Rows(T)' = Rows(T)
  BY <1>1, TablesStay DEF DiffInv
<1>4. TypeInv'
  <2>1. told' \in BOOLEAN /\ torn' \in BOOLEAN
    BY <1>1
  <2>2. page' \in Nat /\ issued' \in Nat
    BY <1>1, SizesAssumption DEF DiffInv, TypeInv
  <2> QED BY <2>1, <2>2 DEF TypeInv
<1>5. StampsInv'
  BY <1>1, <1>3 DEF StampsInv, DiffInv
<1>6. CallInv'
  <2>1. page' >= 1 /\ IsFiniteSet(got') /\ got' = {}
    BY <1>1, SizesAssumption, FS_EmptySet
  <2>2. ReadBefore' = {}
    BY <1>1 DEF ReadBefore
  <2>3. base' = {row \in Rows(S.files)' : row.safe}
    BY <1>1, <1>3
  <2> QED BY <1>1, <2>1, <2>2, <2>3 DEF CallInv
<1>7. CASE accepted
  <2>1. given = cursor /\ cursor # NoCursor /\ cursor.scope = S /\ Reached(cursor.watermark, cursor.scope)
    BY <1>1, <1>7 DEF DiffInv, ChainInv
  <2>2. PICK wm : wm = cursor.watermark
    OBVIOUS
  <2>3. watermark' = wm /\ pages' = pages /\ Reached(wm, S) /\ (~torn' => ~torn)
    BY <1>1, <1>7, <2>1, <2>2
  <2>4. Reached(wm, S)'
    BY <1>1, <1>3, <2>3 DEF Reached
  <2>5. Reached(watermark, scope)'
    BY <1>1, <2>3, <2>4 DEF Reached
  <2>6. pages' \in Seq(TableRows) /\ InOrderOnce' /\ NothingIsLost'
    BY <1>1, <2>3 DEF DiffInv, ChainInv, InOrderOnce, NothingIsLost
  <2> QED BY <1>1, <1>3, <1>4, <1>5, <1>6, <2>5, <2>6 DEF DiffInv, ChainInv
<1>8. CASE ~accepted
  <2>1. watermark' = Start /\ pages' = << >>
    BY <1>1, <1>8
  <2>2. Start \in [at : 0 .. issued, kind : 0 .. 5, key : Seq(Nat)] /\ IsPoint(Start)
    BY DEF Start, DiffInv, TypeInv, IsPoint, Keys
  <2>3. \A row \in Rows(S.files)' : Before(Start, row)
    <3> TAKE row \in Rows(S.files)'
    <3>1. row \in TableRows
      BY <1>2, <1>3, Tables DEF DiffInv
    <3>2. IsPoint(row) /\ row.at > 0
      BY <3>1, RowsArePoints
    <3>3. Start.at < row.at
      BY <3>2 DEF Start
    <3> QED BY <2>2, <3>2, <3>3, BeforeByFields
  <2>4. Reached(Start, S)'
    BY <1>1, <1>2, <2>1, <2>2, <2>3 DEF Reached
  <2>5. Reached(watermark, scope)'
    BY <1>1, <2>1, <2>4 DEF Reached
  <2>6. pages' \in Seq(TableRows) /\ InOrderOnce' /\ NothingIsLost'
    <3>1. pages' \in Seq(TableRows) /\ DOMAIN pages' = {}
      BY <2>1
    <3>2. InOrderOnce'
      BY <3>1 DEF InOrderOnce
    <3>3. NothingIsLost'
      BY <1>1 DEF NothingIsLost
    <3> QED BY <3>1, <3>2, <3>3
  <2> QED BY <1>1, <1>3, <1>4, <1>5, <1>6, <2>5, <2>6 DEF DiffInv, ChainInv
<1> QED BY <1>7, <1>8

\* While a page is collected.
LEMMA WatermarkIsReached ==
  ASSUME DiffInv, pc # "idle"
  PROVE  /\ TypeInv /\ TablesInv /\ StampsInv /\ page >= 1 /\ IsFiniteSet(got)
         /\ \A r \in got : Collected(r)
         /\ scope.files \in SUBSET Files /\ IsWatermark(watermark)
         /\ watermark \in [at : 0 .. issued, kind : 0 .. 5, key : Seq(Nat)]
         /\ Reached(watermark, scope)
<1>1. Reached(watermark, scope)
  BY DEF DiffInv, ChainInv
<1>2. IsWatermark(watermark)
  BY <1>1 DEF Reached, IsWatermark, IsPoint, Keys, DiffInv, TypeInv
<1> QED BY <1>1, <1>2 DEF DiffInv, CallInv, Reached

\* A collector returns the same while tables, scope and watermark are the same.
LEMMA CollectStays ==
  ASSUME UNCHANGED << dbVars, scope, watermark >>, NEW k
  PROVE  Collect(k)' = Collect(k)
<1>1. PICK T, wm : T = scope.files /\ wm = watermark
  OBVIOUS
<1>2. PICK found : found = {row \in Table(k, T) : ScanAfter(row, wm)}
  OBVIOUS
<1>3. Table(k, T)' = Table(k, T)
  BY TablesStay
<1>4. Collect(k) = [rows |-> {row \in found : Rank(row, found) < ScanLimit},
                    exhausted |-> Cardinality(found) <= ScanLimit]
  BY <1>1, <1>2 DEF Collect
<1>5. Collect(k)' = [rows |-> {row \in found : Rank(row, found) < ScanLimit},
                     exhausted |-> Cardinality(found) <= ScanLimit]
  BY <1>1, <1>2, <1>3 DEF Collect
<1> QED BY <1>4, <1>5

\* A collector that returns keeps the chain.
LEMMA ReadKeepsChain ==
  ASSUME DiffInv, NEW from, NEW kind \in 1 .. 5, NEW to, Read(from, kind, to),
         from # "idle", to # "idle", ReadBefore' = ReadBefore \cup {kind}
  PROVE  DiffInv'
<1>1. /\ pc # "idle" /\ pc' # "idle" /\ got' = got \cup {Collect(kind)} /\ UNCHANGED dbVars
      /\ issued' = issued /\ scope' = scope /\ page' = page /\ watermark' = watermark
      /\ torn' = torn /\ told' = told /\ base' = base /\ missing' = missing /\ pages' = pages
  BY DEF Read, historyVars
<1>2. /\ TypeInv /\ TablesInv /\ StampsInv /\ page >= 1 /\ IsFiniteSet(got)
      /\ \A r \in got : Collected(r)
      /\ scope.files \in SUBSET Files /\ IsWatermark(watermark)
      /\ Reached(watermark, scope)
  BY <1>1, WatermarkIsReached
<1>3. TablesInv' /\ (\A T : Rows(T)' = Rows(T)) /\ \A T, k : Table(k, T)' = Table(k, T)
  BY <1>1, <1>2, TablesStay
<1>4. TypeInv' /\ StampsInv'
  BY <1>1, <1>2, <1>3 DEF TypeInv, StampsInv
<1>5. \A k : Collect(k)' = Collect(k)
  BY <1>1, CollectStays
<1>6. CallInv'
  <2>1. \A r \in got' : Collected(r)
    BY <1>1, <1>2, CollectIsCollected
  <2>2. \A r \in got' : Collected(r)'
    BY <1>1, <2>1 DEF Collected
  <2>3. IsFiniteSet(got')
    BY <1>1, <1>2, FS_Union, FS_Singleton
  <2>4. ~torn => got = {Collect(k) : k \in ReadBefore} /\ base = {row \in Rows(scope.files) : row.safe}
    BY <1>1 DEF DiffInv, CallInv
  <2>5. ~torn' => got' = {Collect(k)' : k \in ReadBefore'} /\ base' = {row \in Rows(scope.files)' : row.safe}
    <3> HAVE ~torn'
    <3>1. got' = {Collect(k) : k \in ReadBefore'}
      BY <1>1, <2>4
    <3>2. got' = {Collect(k)' : k \in ReadBefore'}
      BY <1>5, <3>1
    <3>3. PICK T : T = scope.files
      OBVIOUS
    <3>4. Rows(scope.files)' = Rows(T)
      BY <1>1, <1>3, <3>3
    <3> QED BY <1>1, <2>4, <3>2, <3>3, <3>4
  <2> QED BY <1>1, <1>2, <2>2, <2>3, <2>5 DEF CallInv
<1>7. ChainInv'
  <2>1. pages' \in Seq(TableRows) /\ InOrderOnce' /\ NothingIsLost'
    BY <1>1 DEF DiffInv, ChainInv, InOrderOnce, NothingIsLost
  <2>2. PICK wm, S : wm = watermark /\ S = scope
    OBVIOUS
  <2>3. Reached(wm, S)'
    BY <1>1, <1>2, <1>3, <2>2 DEF Reached
  <2>4. Reached(watermark, scope)'
    BY <1>1, <2>2, <2>3 DEF Reached
  <2> QED BY <1>1, <2>1, <2>4 DEF ChainInv
<1> QED BY <1>3, <1>4, <1>6, <1>7 DEF DiffInv

\* An answer adds its page to the chain and reaches the next watermark.
LEMMA AnswerKeepsChain ==
  ASSUME DiffInv, Answer
  PROVE  DiffInv'
<1>1. PICK R : R = got \cup {Collect(Observation)}
  OBVIOUS
<1>2. PICK nwm, new : nwm = NextWatermark(R) /\ new = Selected(R)
  OBVIOUS
<1>3. /\ pc = "observations" /\ pc' = "idle"
      /\ cursor' = [scope |-> scope, watermark |-> nwm, snapshot |-> snapshot]
      /\ (more' <=> HasMore(R))
      /\ pages' = pages \o Sorted(new)
      /\ missing' = IF more' \/ told THEN {}
                    ELSE (base \cap Rows(Files)) \ {pages'[i] : i \in DOMAIN pages'}
      /\ page' = 0 /\ UNCHANGED dbVars /\ issued' = issued /\ torn' = torn /\ told' = told
  BY <1>1, <1>2 DEF Answer
<1>4. /\ TypeInv /\ TablesInv /\ StampsInv /\ page >= 1 /\ IsFiniteSet(got)
      /\ \A r \in got : Collected(r)
      /\ scope.files \in SUBSET Files /\ IsWatermark(watermark)
      /\ watermark \in [at : 0 .. issued, kind : 0 .. 5, key : Seq(Nat)]
      /\ Reached(watermark, scope)
  BY <1>3, WatermarkIsReached
<1>5. TablesInv' /\ (\A T : Rows(T)' = Rows(T))
  BY <1>3, <1>4, TablesStay
<1>6. TypeInv' /\ StampsInv' /\ CallInv'
  BY <1>3, <1>4, <1>5 DEF TypeInv, StampsInv, CallInv
<1>7. IsFiniteSet(R) /\ \A r \in R : Collected(r)
  <2>1. Collected(Collect(Observation))
    BY <1>4, CollectIsCollected DEF Observation
  <2> QED BY <1>1, <1>4, <2>1, FS_Union, FS_Singleton
<1>8. /\ new \subseteq TableRows /\ IsFiniteSet(new)
      /\ nwm \in [at : 0 .. issued, kind : 0 .. 5, key : Seq(Nat)] /\ IsWatermark(nwm)
      /\ ~Before(nwm, watermark)
      /\ \A row \in new : Before(watermark, row) /\ ~Before(nwm, row)
  BY <1>2, <1>4, <1>7, NextIsReached
<1>9. ~torn => R = {Collect(kind) : kind \in 1 .. 5}
               /\ base = {row \in Rows(scope.files) : row.safe}
  <2> HAVE ~torn
  <2>1. /\ got = {Collect(kind) : kind \in ReadBefore}
        /\ base = {row \in Rows(scope.files) : row.safe}
    BY <1>3 DEF DiffInv, CallInv
  <2>2. ReadBefore \cup {Observation} = 1 .. 5
    BY <1>3 DEF ReadBefore, SourceRange, SummaryLeaf, PreparedCard, InboxItem, Observation
  <2> QED BY <1>1, <2>1, <2>2
<1>10. /\ pages \in Seq(TableRows) /\ InOrderOnce /\ NothingIsLost
  BY DEF DiffInv, ChainInv
<1>11. PICK n, m, sorted : n = Len(pages) /\ m = Cardinality(new) /\ sorted = Sorted(new)
  OBVIOUS
<1>12. /\ n \in Nat /\ m \in Nat /\ sorted \in Seq(TableRows)
       /\ pages' = pages \o sorted /\ pages' \in Seq(TableRows) /\ DOMAIN pages' = 1 .. n + m
       /\ DOMAIN pages = 1 .. n
       /\ \A i \in 1 .. n : pages'[i] = pages[i]
       /\ \A i \in n + 1 .. n + m : pages'[i] = sorted[i - n]
       /\ \A i \in 1 .. m : sorted[i] \in new
       /\ \A row \in new : \E i \in 1 .. m : sorted[i] = row
       /\ \A i, j \in 1 .. m : i < j => Before(sorted[i], sorted[j])
  <2>1. /\ Sorted(new) \in Seq(new) /\ Len(Sorted(new)) = Cardinality(new)
        /\ \A row \in new : \E i \in 1 .. Cardinality(new) : Sorted(new)[i] = row
        /\ \A i, j \in 1 .. Cardinality(new) : i < j => Before(Sorted(new)[i], Sorted(new)[j])
    BY <1>8, SortedIsInOrder
  <2>2. /\ sorted \in Seq(TableRows) /\ sorted \in Seq(new) /\ Len(sorted) = m /\ m \in Nat
        /\ \A i \in 1 .. m : sorted[i] \in new
    BY <1>8, <1>11, <2>1, SeqMonotonic, FS_CardinalityType
  <2>3. pages' = pages \o sorted
    BY <1>3, <1>11
  <2>4. n \in Nat /\ DOMAIN pages = 1 .. n
    BY <1>10, <1>11
  <2>5. /\ pages \o sorted \in Seq(TableRows) /\ DOMAIN (pages \o sorted) = 1 .. n + m
        /\ \A i \in 1 .. n : (pages \o sorted)[i] = pages[i]
        /\ \A i \in n + 1 .. n + m : (pages \o sorted)[i] = sorted[i - n]
    BY <1>10, <1>11, <2>2
  <2> QED BY <1>11, <2>1, <2>2, <2>3, <2>4, <2>5
<1>13. /\ \A i \in DOMAIN pages' : (\E j \in DOMAIN pages : pages'[i] = pages[j]) \/ pages'[i] \in new
       /\ \A j \in DOMAIN pages : \E i \in DOMAIN pages' : pages'[i] = pages[j]
       /\ \A row \in new : \E i \in DOMAIN pages' : pages'[i] = row
  <2>1. ASSUME NEW i \in DOMAIN pages'
        PROVE  (\E j \in DOMAIN pages : pages'[i] = pages[j]) \/ pages'[i] \in new
    <3>1. CASE i <= n
      BY <1>10, <1>12, <2>1, <3>1
    <3>2. CASE i > n
      <4>1. i - n \in 1 .. m /\ i \in n + 1 .. n + m
        BY <1>12, <2>1, <3>2
      <4> QED BY <1>12, <4>1
    <3> QED BY <1>12, <3>1, <3>2
  <2>2. ASSUME NEW j \in DOMAIN pages
        PROVE  \E i \in DOMAIN pages' : pages'[i] = pages[j]
    BY <1>10, <1>12
  <2>3. ASSUME NEW row \in new
        PROVE  \E i \in DOMAIN pages' : pages'[i] = row
    <3>1. PICK j \in 1 .. m : sorted[j] = row
      BY <1>12
    <3>2. n + j \in n + 1 .. n + m /\ (n + j) - n = j
      BY <1>12
    <3>3. pages'[n + j] = row /\ n + j \in DOMAIN pages'
      BY <1>12, <3>1, <3>2
    <3> QED BY <3>3
  <2> QED BY <2>1, <2>2, <2>3
<1>14. \A j \in DOMAIN pages : IsPoint(pages[j]) /\ ~Before(watermark, pages[j])
  BY <1>4, <1>10, RowsArePoints DEF Reached
<1>15. InOrderOnce'
  <2>1. ASSUME NEW i \in 1 .. n + m, NEW j \in 1 .. n + m, i < j
        PROVE  Before(pages'[i], pages'[j])
    <3>1. CASE j <= n
      <4>1. i \in DOMAIN pages /\ j \in DOMAIN pages
        BY <1>10, <1>12, <2>1, <3>1
      <4> QED BY <1>10, <1>12, <2>1, <4>1 DEF InOrderOnce
    <3>2. CASE i <= n /\ j > n
      <4>1. i \in DOMAIN pages /\ pages'[i] = pages[i] /\ j - n \in 1 .. m /\ j \in n + 1 .. n + m
        BY <1>10, <1>12, <2>1, <3>2
      <4>2. pages'[j] \in new
        BY <1>12, <4>1
      <4>3. Before(watermark, pages'[j]) /\ IsPoint(pages'[j]) /\ IsPoint(watermark)
        BY <1>4, <1>8, <4>2, RowsArePoints DEF IsWatermark
      <4> QED BY <1>14, <4>1, <4>3, BeforeIsAnOrder
    <3>3. CASE i > n
      <4>1. i - n \in 1 .. m /\ j - n \in 1 .. m /\ i - n < j - n
            /\ i \in n + 1 .. n + m /\ j \in n + 1 .. n + m
        BY <1>12, <2>1, <3>3
      <4> QED BY <1>12, <4>1
    <3> QED BY <1>12, <2>1, <3>1, <3>2, <3>3
  <2> QED BY <1>12, <2>1 DEF InOrderOnce
<1>16. ASSUME NEW S, S = scope
       PROVE  Reached(nwm, S)'
  <2>1. \A i \in DOMAIN pages' : ~Before(nwm, pages'[i])
    <3> TAKE i \in DOMAIN pages'
    <3>1. CASE pages'[i] \in new
      BY <1>8, <3>1
    <3>2. CASE \E j \in DOMAIN pages : pages'[i] = pages[j]
      BY <1>4, <1>8, <1>14, <3>2, BeforeIsAnOrder DEF IsWatermark
    <3> QED BY <1>13, <3>1, <3>2
  <2>2. ASSUME ~torn, NEW row \in Rows(scope.files), row.safe, ~Before(nwm, row)
        PROVE  \E i \in DOMAIN pages' : pages'[i] = row
    <3>1. CASE ~Before(watermark, row)
      <4>1. PICK j \in DOMAIN pages : pages[j] = row
        BY <1>4, <2>2, <3>1 DEF Reached
      <4> QED BY <1>13, <4>1
    <3>2. CASE Before(watermark, row)
      <4>1. row \in new
        BY <1>2, <1>4, <1>9, <2>2, <3>2, PageIsComplete
      <4> QED BY <1>13, <4>1
    <3> QED BY <3>1, <3>2
  <2> QED BY <1>3, <1>4, <1>5, <1>8, <1>16, <2>1, <2>2 DEF Reached, IsWatermark
<1>17. NothingIsLost'
  <2>1. ASSUME ~torn, ~more', NEW row \in base
        PROVE  \E i \in DOMAIN pages' : pages'[i] = row
    <3>1. row \in Rows(scope.files) /\ row.safe /\ ~HasMore(R)
      BY <1>3, <1>9, <2>1
    <3>2. CASE ~Before(watermark, row)
      <4>1. PICK j \in DOMAIN pages : pages[j] = row
        BY <1>4, <2>1, <3>1, <3>2 DEF Reached
      <4> QED BY <1>13, <4>1
    <3>3. CASE Before(watermark, row)
      <4>1. row \in new
        BY <1>2, <1>4, <1>9, <2>1, <3>1, <3>3, PageIsComplete
      <4> QED BY <1>13, <4>1
    <3> QED BY <3>2, <3>3
  <2>2. ~torn => missing' = {}
    BY <1>3, <2>1
  <2> QED BY <1>3, <2>2 DEF NothingIsLost
<1>18. ChainInv'
  <2>1. PICK S : S = scope
    OBVIOUS
  <2>2. Reached(nwm, S)' /\ cursor'.watermark = nwm /\ cursor'.scope = S
    BY <1>3, <1>16, <2>1
  <2>3. Reached(cursor.watermark, cursor.scope)'
    BY <2>2 DEF Reached
  <2> QED BY <1>3, <1>12, <1>15, <1>17, <2>3 DEF ChainInv
<1> QED BY <1>5, <1>6, <1>18 DEF DiffInv

\* Nothing is stored and nothing delivered at first.
LEMMA DiffInvHoldsAtFirst ==
  ASSUME Init
  PROVE  DiffInv
<1>1. TypeInv /\ TablesInv
  <2>1. /\ source = [f \in Files |-> NoRow] /\ ranges = [f \in Files |-> << >>]
        /\ leaf = [f \in Files |-> NoRow] /\ card = [f \in Files |-> NoRow]
        /\ observations = {} /\ issued = 0 /\ page = 0 /\ told = FALSE /\ torn = FALSE
    BY DEF Init
  <2>2. ranges \in [Files -> Seq(Nat \ {0})]
    <3>1. << >> \in Seq(Nat \ {0})
      OBVIOUS
    <3> QED BY <2>1, <3>1
  <2>3. \A T : [f \in Files |-> NoRow] \in [Files -> T \cup {NoRow}]
    OBVIOUS
  <2>4. \A f \in Files : source[f] = NoRow /\ ranges[f] = << >>
    BY <2>1
  <2> QED BY <2>1, <2>2, <2>3, <2>4, FS_EmptySet DEF TypeInv, TablesInv
<1>2. Rows(Files) = {}
  <2>1. RangeRows(Files) = {}
    <3>1. \A f \in Files : Len(ranges[f]) = 0
      BY DEF Init
    <3> QED BY <3>1 DEF RangeRows
  <2>2. LeafRows(Files) = {} /\ ObservationRows(Files) = {}
    BY DEF Init, LeafRows, ObservationRows
  <2>3. \A kind : CardRows(Files, kind) = {}
    BY DEF Init, CardRows
  <2>4. \A kind \in 1 .. 5 : Table(kind, Files) = {}
    BY <2>1, <2>2, <2>3 DEF Table, SourceRange, SummaryLeaf, PreparedCard, InboxItem, Observation
  <2> QED BY <2>4 DEF Rows, PreparedCard, Observation
<1>3. StampsInv /\ CallInv
  BY <1>2 DEF Init, StampsInv, CallInv
<1>4. ChainInv
  BY DEF Init, ChainInv, InOrderOnce, NothingIsLost
<1> QED BY <1>1, <1>3, <1>4 DEF DiffInv

\* A step that changes nothing keeps the chain.
LEMMA StutteringKeepsChain ==
  ASSUME DiffInv, UNCHANGED vars
  PROVE  DiffInv'
<1>1. /\ UNCHANGED dbVars /\ issued' = issued /\ pc' = pc /\ scope' = scope /\ page' = page
      /\ watermark' = watermark /\ got' = got /\ cursor' = cursor /\ torn' = torn
      /\ told' = told /\ base' = base /\ missing' = missing /\ pages' = pages
  BY DEF vars, callVars, historyVars
<1>2. TablesInv' /\ (\A T : Rows(T)' = Rows(T)) /\ \A k : Collect(k)' = Collect(k)
  BY <1>1, TablesStay, CollectStays DEF DiffInv
<1>3. TypeInv' /\ StampsInv'
  BY <1>1, <1>2 DEF DiffInv, TypeInv, StampsInv
<1>4. CallInv'
  <2>1. \A r : Collected(r)' <=> Collected(r)
    BY <1>1 DEF Collected
  <2>2. ReadBefore' = ReadBefore
    BY <1>1 DEF ReadBefore
  <2>3. Rows(scope.files)' = Rows(scope.files)
    <3>1. PICK T : T = scope.files
      OBVIOUS
    <3> QED BY <1>1, <1>2, <3>1
  <2> QED BY <1>1, <1>2, <2>1, <2>2, <2>3 DEF DiffInv, CallInv
<1>5. \A wm, S : Reached(wm, S)' <=> Reached(wm, S)
  <2> TAKE wm, S
  <2>1. PICK T : T = S.files
    OBVIOUS
  <2> QED BY <1>1, <1>2, <2>1 DEF Reached
<1>6. ChainInv'
  <2>1. PICK wm, S, cw, cs : wm = watermark /\ S = scope /\ cw = cursor.watermark /\ cs = cursor.scope
    OBVIOUS
  <2>2. /\ Reached(watermark, scope) <=> Reached(wm, S)
        /\ Reached(cursor.watermark, cursor.scope) <=> Reached(cw, cs)
        /\ Reached(watermark, scope)' <=> Reached(wm, S)'
        /\ Reached(cursor.watermark, cursor.scope)' <=> Reached(cw, cs)'
    BY <1>1, <2>1 DEF Reached
  <2> QED BY <1>1, <1>5, <2>2 DEF DiffInv, ChainInv, InOrderOnce, NothingIsLost
<1> QED BY <1>2, <1>3, <1>4, <1>6 DEF DiffInv

\* Every step keeps the invariant.
LEMMA StepsKeepDiffInv ==
  ASSUME DiffInv, [Next]_vars
  PROVE  DiffInv'
<1>1. CASE Write
  BY <1>1, WriteKeepsChain
<1>2. CASE AskAny
  BY <1>2, AskKeepsChain DEF AskAny
<1>3. CASE Read("ranges", SourceRange, "leaves")
  <2>1. ReadBefore' = ReadBefore \cup {SourceRange}
    BY <1>3 DEF Read, ReadBefore
  <2>2. SourceRange \in 1 .. 5
    BY DEF SourceRange
  <2> QED BY <1>3, <2>1, <2>2, ReadKeepsChain
<1>4. CASE Read("leaves", SummaryLeaf, "cards")
  <2>1. ReadBefore' = ReadBefore \cup {SummaryLeaf}
    BY <1>4 DEF Read, ReadBefore
  <2>2. SummaryLeaf \in 1 .. 5
    BY DEF SummaryLeaf
  <2> QED BY <1>4, <2>1, <2>2, ReadKeepsChain
<1>5. CASE Read("cards", PreparedCard, "inbox")
  <2>1. ReadBefore' = ReadBefore \cup {PreparedCard}
    BY <1>5 DEF Read, ReadBefore
  <2>2. PreparedCard \in 1 .. 5
    BY DEF PreparedCard
  <2> QED BY <1>5, <2>1, <2>2, ReadKeepsChain
<1>6. CASE Read("inbox", InboxItem, "observations")
  <2>1. ReadBefore' = ReadBefore \cup {InboxItem}
    BY <1>6 DEF Read, ReadBefore
  <2>2. InboxItem \in 1 .. 5
    BY DEF InboxItem
  <2> QED BY <1>6, <2>1, <2>2, ReadKeepsChain
<1>7. CASE Answer
  BY <1>7, AnswerKeepsChain
<1>8. CASE UNCHANGED vars
  BY <1>8, StutteringKeepsChain
<1> QED BY <1>1, <1>2, <1>3, <1>4, <1>5, <1>6, <1>7, <1>8 DEF Next, Collecting

\* The invariant of the tables, the call and the chain holds in every state.
THEOREM DiffInvariant == Spec => []DiffInv
<1>1. Init => DiffInv
  BY DiffInvHoldsAtFirst
<1>2. DiffInv /\ [Next]_vars => DiffInv'
  BY StepsKeepDiffInv
<1> QED BY <1>1, <1>2, PTL DEF Spec

\* A chain of diffs delivers every change once and in order, and when it says that there
\* is no more it has left nothing out (getSessionDiff, its collectors, sessionDiffNextWatermark).
THEOREM ChainsAreTheChanges == Spec => []ChainIsTheChanges
<1>1. DiffInv => ChainIsTheChanges
  BY DEF DiffInv, ChainInv, ChainIsTheChanges
<1> QED BY <1>1, DiffInvariant, PTL

----------------------------------------------------------------------------
(* Rewrites are told.                                                      *)

\* A text keeps another when its lines begin with those of the other.
LEMMA KeepsTheLines ==
  ASSUME NEW text \in Seq(Lines), NEW hash \in Seq(Lines)
  PROVE  Keeps(text, hash) <=> /\ Len(hash) <= Len(text)
                               /\ \A i \in 1 .. Len(hash) : text[i] = hash[i]
<1>1. PICK n \in Nat, m \in Nat : n = Len(text) /\ m = Len(hash)
  OBVIOUS
<1>2. ASSUME m <= n
      PROVE  /\ SubSeq(text, 1, m) \in Seq(Lines) /\ Len(SubSeq(text, 1, m)) = m
             /\ \A i \in 1 .. m : SubSeq(text, 1, m)[i] = text[i]
  BY <1>1, <1>2
<1>3. ASSUME m <= n, \A i \in 1 .. m : text[i] = hash[i]
      PROVE  SubSeq(text, 1, m) = hash
  BY <1>1, <1>2, <1>3, SeqEqual
<1>4. ASSUME m = n, \A i \in 1 .. m : text[i] = hash[i]
      PROVE  text = hash
  BY <1>1, <1>4, SeqEqual
<1>5. ASSUME Keeps(text, hash)
      PROVE  m <= n /\ \A i \in 1 .. m : text[i] = hash[i]
  <2>1. CASE text = hash
    BY <1>1, <2>1
  <2>2. CASE Extends(text, hash)
    BY <1>1, <1>2, <2>2 DEF Extends
  <2> QED BY <1>5, <2>1, <2>2 DEF Keeps
<1>6. ASSUME m <= n, \A i \in 1 .. m : text[i] = hash[i]
      PROVE  Keeps(text, hash)
  <2>1. CASE m = n
    BY <1>4, <1>6, <2>1 DEF Keeps
  <2>2. CASE m < n
    BY <1>1, <1>3, <1>6, <2>2 DEF Keeps, Extends
  <2> QED BY <1>1, <1>6, <2>1, <2>2
<1> QED BY <1>1, <1>5, <1>6

\* What keeps a text that keeps another keeps the other.
LEMMA KeepsIsTransitive ==
  ASSUME NEW a \in Seq(Lines), NEW b \in Seq(Lines), NEW c \in Seq(Lines), Keeps(a, b), Keeps(b, c)
  PROVE  Keeps(a, c)
<1>1. PICK l \in Nat, m \in Nat, n \in Nat : l = Len(a) /\ m = Len(b) /\ n = Len(c)
  OBVIOUS
<1>2. m <= l /\ (\A i \in 1 .. m : a[i] = b[i]) /\ n <= m /\ (\A i \in 1 .. n : b[i] = c[i])
  BY <1>1, KeepsTheLines
<1>3. n <= l /\ \A i \in 1 .. n : a[i] = c[i]
  BY <1>1, <1>2
<1> QED BY <1>1, <1>3, KeepsTheLines

\* The fields of a snapshot.
LEMMA SnapshotFields ==
  ASSUME NEW S
  PROVE  /\ Snapshot(S).files = Tracked(S.files)
         /\ Snapshot(S).hashes = [f \in Tracked(S.files) |-> source[f].hash]
         /\ Snapshot(S).epochs = [f \in Tracked(S.files) |-> source[f].epoch]
         /\ Snapshot(S).destructive = IF S.global THEN destructive ELSE 0
  BY DEF Snapshot

\* What a stored file is.
LEMMA StoredFiles ==
  TablesInv /\ HistoriesInv =>
    /\ destructive \in Nat
    /\ \A f \in Files :
         /\ source[f] # NoRow =>
              /\ source[f] \in [hash : Seq(Lines), epoch : Seq(Lines), generation : Nat]
              /\ source[f].hash \in Seq(Lines) /\ source[f].epoch \in Seq(Lines)
              /\ Len(ranges[f]) = Len(source[f].hash)
              /\ Keeps(source[f].hash, source[f].epoch)
         /\ source[f] = NoRow => ranges[f] = << >>
  BY DEF TablesInv, HistoriesInv

\* What a writer may do to the histories.
Continues ==
  /\ HistoriesInv' /\ destructive <= destructive'
  /\ destructive' = destructive =>
       \A f \in Files : source[f] # NoRow =>
         source'[f] # NoRow /\ Keeps(source'[f].hash, source[f].hash)

\* An append keeps the lines there were.
LEMMA AppendContinues ==
  ASSUME TablesInv, HistoriesInv, NEW f \in Files, NEW line \in Lines, AppendDelta(f, line)
  PROVE  Continues
<1>1. PICK s : s = source[f] /\ s \in [hash : Seq(Lines), epoch : Seq(Lines), generation : Nat]
               /\ source[f] # NoRow /\ s.hash \in Seq(Lines) /\ s.epoch \in Seq(Lines)
               /\ Keeps(s.hash, s.epoch)
  BY StoredFiles DEF AppendDelta
<1>2. PICK h \in Seq(Lines) : h = Append(s.hash, line)
  <2>1. \A q \in Seq(Lines) : Append(q, line) \in Seq(Lines)
    OBVIOUS
  <2> QED BY <1>1, <2>1, Zenon
<1>3. /\ source' = [source EXCEPT ![f].hash = Append(@, line), ![f].generation = @ + 1]
      /\ destructive' = destructive /\ source \in [Files -> [hash : Seq(Lines), epoch : Seq(Lines), generation : Nat] \cup {NoRow}]
  BY DEF AppendDelta, TablesInv
<1>4. PICK new : /\ source'[f] = new /\ new.hash = h /\ new.epoch = s.epoch
                 /\ new \in [hash : Seq(Lines), epoch : Seq(Lines), generation : Nat]
  <2>1. TablesInv'
    BY AppendDeltaKeepsTables
  <2>2. source'[f] = [[s EXCEPT !.hash = h] EXCEPT !.generation = s.generation + 1]
    BY <1>1, <1>2, <1>3
  <2>3. PICK u : u = [s EXCEPT !.hash = h]
    OBVIOUS
  <2>4. u = [hash |-> h, epoch |-> s.epoch, generation |-> s.generation]
    BY <1>1, <2>3
  <2>5. PICK g : g = s.generation + 1 /\ g \in Nat
    BY <1>1
  <2>6. source'[f] = [u EXCEPT !.generation = g]
    BY <2>2, <2>3, <2>5
  <2>7. source'[f] = [hash |-> h, epoch |-> s.epoch, generation |-> g]
    BY <2>4, <2>6
  <2> QED BY <1>1, <1>2, <2>5, <2>7
<1>5. \A g \in Files \ {f} : source'[g] = source[g] /\ ranges'[g] = ranges[g]
  BY <1>3 DEF AppendDelta, TablesInv
<1>6. Keeps(h, s.hash)
  <2>1. PICK n \in Nat : n = Len(s.hash) /\ Len(h) = n + 1 /\ \A i \in 1 .. n : h[i] = s.hash[i]
    BY <1>1, <1>2
  <2>2. Len(s.hash) <= Len(h) /\ \A i \in 1 .. Len(s.hash) : h[i] = s.hash[i]
    BY <2>1
  <2> QED BY <1>1, <1>2, <2>2, KeepsTheLines
<1>7. Keeps(h, s.epoch)
  BY <1>1, <1>2, <1>6, KeepsIsTransitive
<1>8. new # NoRow
  BY <1>4, NoRowAssumption
<1>9. HistoriesInv'
  BY <1>3, <1>4, <1>5, <1>7, <1>8 DEF HistoriesInv
<1>10. \A g \in Files : source[g] # NoRow => source'[g] # NoRow /\ Keeps(source'[g].hash, source[g].hash)
  BY <1>1, <1>4, <1>5, <1>6, <1>8 DEF Keeps
<1> QED BY <1>3, <1>9, <1>10 DEF Continues, HistoriesInv

\* A file parsed afresh is counted unless it keeps its lines.
LEMMA UpsertContinues ==
  ASSUME TablesInv, HistoriesInv, NEW f \in Files, NEW text \in Texts, UpsertSession(f, text)
  PROVE  Continues
<1>1. text \in Seq(Lines)
  BY SizesAssumption DEF Texts
<1>2. PICK new : new = NewSource(f, text)
  OBVIOUS
<1>3. /\ source' = [source EXCEPT ![f] = new]
      /\ destructive' = destructive +
           (IF source[f] # NoRow /\ source[f].hash # text /\ ~Extends(text, source[f].hash)
            THEN 1 ELSE 0)
      /\ destructive \in Nat
  BY <1>2 DEF UpsertSession, HistoriesInv
<1>4. source'[f] = new /\ \A g \in Files \ {f} : source'[g] = source[g] /\ ranges'[g] = ranges[g]
  BY <1>3 DEF UpsertSession, TablesInv
<1>5. new \in [hash : Seq(Lines), epoch : Seq(Lines), generation : Nat] /\ new.hash = text
  <2>1. source[f] # NoRow => source[f].epoch \in Seq(Lines) /\ source[f].generation \in Nat
    BY DEF TablesInv
  <2> QED BY <1>1, <1>2, <2>1 DEF NewSource
<1>6. new # NoRow
  BY <1>5, NoRowAssumption
<1>7. Keeps(text, new.epoch)
  <2>1. CASE source[f] # NoRow /\ Extends(text, source[f].hash)
    <3>1. new.epoch = source[f].epoch
      BY <1>2, <2>1 DEF NewSource
    <3>2. /\ Keeps(source[f].hash, source[f].epoch) /\ source[f].hash \in Seq(Lines)
          /\ source[f].epoch \in Seq(Lines)
      BY <2>1, StoredFiles
    <3>3. Keeps(text, source[f].hash)
      BY <2>1 DEF Keeps
    <3> QED BY <1>1, <3>1, <3>2, <3>3, KeepsIsTransitive
  <2>2. CASE ~(source[f] # NoRow /\ Extends(text, source[f].hash))
    BY <1>2, <2>2 DEF NewSource, Keeps
  <2> QED BY <2>1, <2>2
<1>8. HistoriesInv'
  <2>1. destructive' \in Nat
    BY <1>3
  <2> QED BY <1>4, <1>5, <1>6, <1>7, <2>1 DEF HistoriesInv
<1>9. destructive <= destructive'
      /\ (destructive' = destructive /\ source[f] # NoRow => Keeps(text, source[f].hash))
  BY <1>3 DEF Keeps
<1>10. destructive' = destructive =>
         \A g \in Files : source[g] # NoRow => source'[g] # NoRow /\ Keeps(source'[g].hash, source[g].hash)
  BY <1>4, <1>5, <1>6, <1>9 DEF Keeps
<1> QED BY <1>8, <1>9, <1>10 DEF Continues

\* A file that is cleared is counted.
LEMMA ClearContinues ==
  ASSUME TablesInv, HistoriesInv, NEW f \in Files, ClearSourceFileIndex(f)
  PROVE  Continues
<1>1. /\ source'[f] = NoRow /\ ranges'[f] = << >> /\ destructive' = destructive + 1
      /\ destructive \in Nat
      /\ \A g \in Files \ {f} : source'[g] = source[g] /\ ranges'[g] = ranges[g]
  BY DEF ClearSourceFileIndex, TablesInv, HistoriesInv
<1>2. destructive' # destructive /\ destructive <= destructive' /\ destructive' \in Nat
  BY <1>1
<1>3. HistoriesInv'
  BY <1>1, <1>2 DEF HistoriesInv
<1> QED BY <1>2, <1>3 DEF Continues

\* The other writers leave the sources alone.
LEMMA SourcesContinue ==
  ASSUME TablesInv, HistoriesInv, source' = source, ranges' = ranges, destructive' = destructive
  PROVE  Continues
  BY DEF Continues, HistoriesInv, Keeps

\* Whatever is written, nothing is destroyed uncounted.
LEMMA WriteContinues ==
  ASSUME TablesInv, HistoriesInv, Write
  PROVE  Continues
<1>1. CASE \E f \in Files, line \in Lines : AppendDelta(f, line)
  BY <1>1, AppendContinues
<1>2. CASE \E f \in Files, text \in Texts : UpsertSession(f, text)
  BY <1>2, UpsertContinues
<1>3. CASE \E f \in Files : ClearSourceFileIndex(f)
  BY <1>3, ClearContinues
<1>4. CASE \E f \in Files : MaterializeSummaryLeaves(f)
  BY <1>4, SourcesContinue DEF MaterializeSummaryLeaves
<1>5. CASE \E S \in {Files} \cup {{f} : f \in Files} : MaterializePreparedCards(S)
  BY <1>5, SourcesContinue DEF MaterializePreparedCards
<1>6. CASE \E w \in Watches, f \in Files, seen \in 1 .. 2 : PersistWatcherObservation(w, f, seen)
  BY <1>6, SourcesContinue DEF PersistWatcherObservation
<1> QED BY <1>1, <1>2, <1>3, <1>4, <1>5, <1>6 DEF Write

----------------------------------------------------------------------------
(* The snapshots.                                                          *)

\* What a snapshot that is taken now is of the files.
LEMMA SnapshotIsOfFiles ==
  ASSUME TablesInv, HistoriesInv, NEW S \in Scopes, NEW n, n = Snapshot(S)
  PROVE  /\ n.files = Tracked(S.files) /\ n.files \subseteq S.files /\ n.files \subseteq Files
         /\ n.hashes \in [n.files -> Seq(Lines)] /\ n.epochs \in [n.files -> Seq(Lines)]
         /\ \A f \in n.files : /\ n.hashes[f] = source[f].hash /\ n.epochs[f] = source[f].epoch
                              /\ source[f] # NoRow
<1>1. S.files \subseteq Files
  BY FilesAssumption DEF Scopes
<1>2. /\ n.files = Tracked(S.files)
      /\ n.hashes = [f \in Tracked(S.files) |-> source[f].hash]
      /\ n.epochs = [f \in Tracked(S.files) |-> source[f].epoch]
  BY SnapshotFields
<1>3. \A f \in Tracked(S.files) : /\ f \in Files /\ source[f] # NoRow /\ f \in S.files
                                  /\ source[f].hash \in Seq(Lines) /\ source[f].epoch \in Seq(Lines)
  BY <1>1, StoredFiles DEF Tracked
<1> QED BY <1>2, <1>3

\* A commit between diffs.
LEMMA WriteKeepsSnapshots ==
  ASSUME DiffInv, RewriteInv, Write
  PROVE  RewriteInv'
<1>1. TypeInv /\ TablesInv /\ StampsInv /\ HistoriesInv
  BY DEF DiffInv, RewriteInv
<1>2. Continues /\ TablesInv'
  BY <1>1, WriteContinues, WriteKeepsTables
<1>3. Commit /\ pc' = pc /\ cursor' = cursor /\ told' = told /\ anew' = anew /\ pages' = pages
  BY DEF Write, Commit
<1>4. ~torn' => ~torn /\ pc = "idle"
  BY <1>1, <1>2, <1>3, CommitStamps
<1>5. ASSUME ~torn', cursor # NoCursor
      PROVE  /\ Shows(cursor.snapshot, cursor.scope)'
             /\ cursor.scope.global => Lasts(cursor.snapshot)'
  <2>1. PICK s, S : s = cursor.snapshot /\ S = cursor.scope
    OBVIOUS
  <2>2. Shows(s, S) /\ (S.global => Lasts(s))
    BY <1>4, <1>5, <2>1 DEF RewriteInv, SnapshotInv
  <2>3. Shows(s, S)'
    BY <1>3, <2>2 DEF Shows, Delivered
  <2>4. Lasts(s) => Lasts(s)'
    <3>1. ASSUME Lasts(s)
          PROVE  s.destructive \in 0 .. destructive'
      BY <1>1, <1>2, <3>1 DEF Lasts, Continues, HistoriesInv
    <3>2. ASSUME Lasts(s), s.destructive = destructive', NEW f \in s.files
          PROVE  source'[f] # NoRow /\ Keeps(source'[f].hash, s.hashes[f])
      <4>1. destructive' = destructive /\ s.destructive = destructive
        BY <1>1, <1>2, <3>2 DEF Lasts, Continues, HistoriesInv
      <4>2. source[f] # NoRow /\ Keeps(source[f].hash, s.hashes[f])
        BY <3>2, <4>1 DEF Lasts
      <4>3. f \in Files /\ s.hashes[f] \in Seq(Lines)
        BY <2>2, <3>2, FilesAssumption DEF Shows, Scopes
      <4>4. source'[f] # NoRow /\ Keeps(source'[f].hash, source[f].hash)
        BY <1>2, <4>1, <4>2, <4>3 DEF Continues
      <4>5. source[f].hash \in Seq(Lines) /\ source'[f].hash \in Seq(Lines)
        BY <1>1, <1>2, <4>2, <4>3, <4>4 DEF TablesInv
      <4> QED BY <4>2, <4>3, <4>4, <4>5, KeepsIsTransitive
    <3> QED BY <3>1, <3>2 DEF Lasts
  <2> QED BY <1>3, <2>1, <2>2, <2>3, <2>4 DEF Shows, Lasts, Delivered
<1> QED BY <1>2, <1>3, <1>4, <1>5 DEF RewriteInv, SnapshotInv, Continues

\* What lasts until the next diff is asked for.
LEMMA NotStaleKeeps ==
  ASSUME DiffInv, RewriteInv, NEW S \in Scopes, NEW s, NEW n, n = Snapshot(S),
         Shows(s, S), S.global => Lasts(s), ~Stale(s, n), S.global \/ ~BegunAnew(s, n)
  PROVE  \A f \in s.files : f \in n.files /\ Keeps(n.hashes[f], s.hashes[f])
<1>1. TablesInv /\ HistoriesInv
  BY DEF DiffInv, RewriteInv
<1>2. /\ n.files = Tracked(S.files) /\ n.files \subseteq S.files /\ n.files \subseteq Files
      /\ n.hashes \in [n.files -> Seq(Lines)] /\ n.epochs \in [n.files -> Seq(Lines)]
      /\ \A f \in n.files : /\ n.hashes[f] = source[f].hash /\ n.epochs[f] = source[f].epoch
                           /\ source[f] # NoRow
  BY <1>1, SnapshotIsOfFiles
<1>3. n.destructive = IF S.global THEN destructive ELSE 0
  BY SnapshotFields
<1>4. s.files \subseteq S.files
  BY DEF Shows
<1>5. ~Fewer(s, n)
  BY DEF Stale
<1>6. CASE S.global
  <2>1. s.destructive = destructive
    BY <1>3, <1>5, <1>6 DEF Fewer
  <2>2. \A f \in s.files : source[f] # NoRow /\ Keeps(source[f].hash, s.hashes[f])
    BY <1>6, <2>1 DEF Lasts
  <2> QED BY <1>2, <1>4, <2>2 DEF Tracked
<1>7. CASE ~S.global
  <2> SUFFICES ASSUME NEW f \in s.files
               PROVE  f \in n.files /\ Keeps(n.hashes[f], s.hashes[f])
    OBVIOUS
  <2>1. S.files = {f}
    <3>1. \E g \in Asked : S.files = {g}
      BY <1>7 DEF Scopes
    <3> QED BY <1>4, <3>1
  <2>2. s.files = {f} /\ Cardinality(s.files) = 1
    <3>1. s.files = {f}
      BY <1>4, <2>1
    <3>2. Cardinality({f}) = 1
      BY FS_Singleton, Zenon
    <3> QED BY <3>1, <3>2, Zenon
  <2>3. n.files = {f}
    <3>1. n.files = {} => Cardinality(n.files) = 0
      BY FS_EmptySet
    <3>2. n.files # {}
      BY <1>5, <2>2, <3>1 DEF Fewer
    <3> QED BY <1>2, <2>1, <3>2
  <2>4. ~FilesAdded(s, n)
    BY <2>2, <2>3 DEF FilesAdded
  <2>5. s.hashes = n.hashes \/ s.epochs = n.epochs
    BY <2>4 DEF Stale, AppendShape
  <2>6. CASE s.hashes = n.hashes
    BY <2>3, <2>6 DEF Keeps
  <2>7. CASE s.epochs = n.epochs
    <3>1. Keeps(source[f].hash, source[f].epoch)
      BY <1>1, <1>2, <2>3, StoredFiles
    <3>2. n.epochs[f] = s.epochs[f] /\ Keeps(n.hashes[f], s.epochs[f]) /\ f \in s.files \cap n.files
      BY <1>2, <2>3, <2>7, <3>1
    <3> QED BY <1>7, <2>3, <3>2 DEF BegunAnew
  <2> QED BY <2>5, <2>6, <2>7
<1> QED BY <1>6, <1>7

\* A diff that is asked for.
LEMMA AskKeepsSnapshots ==
  ASSUME DiffInv, RewriteInv, NEW S \in Scopes, NEW size \in PageSizes,
         NEW given \in {NoCursor, cursor}, Ask(S, size, given)
  PROVE  RewriteInv'
<1> DEFINE accepted == given # NoCursor /\ given.scope = S
<1>1. PICK n : n = Snapshot(S)
  OBVIOUS
<1>2. /\ pc = "idle" /\ pc' # "idle" /\ scope' = S /\ snapshot' = n
      /\ told' = (accepted /\ (told \/ Stale(given.snapshot, n)))
      /\ torn' = (accepted /\ torn)
      /\ anew' = (accepted /\ (anew \/ BegunAnew(given.snapshot, n)))
      /\ pages' = IF accepted THEN pages ELSE << >>
      /\ UNCHANGED dbVars
  BY <1>1 DEF Ask
<1>3. TablesInv /\ HistoriesInv
  BY DEF DiffInv, RewriteInv
<1>4. HistoriesInv'
  BY <1>2, <1>3 DEF HistoriesInv, dbVars
<1>5. /\ n.files \subseteq S.files /\ Current(n, S)
      /\ n.hashes \in [n.files -> Seq(Lines)] /\ n.epochs \in [n.files -> Seq(Lines)]
  <2>1. S.global => n.destructive = destructive
    BY <1>1, SnapshotFields
  <2> QED BY <1>1, <1>3, <2>1, SnapshotIsOfFiles DEF Current
<1>6. ASSUME ~torn', ~told', S.global \/ ~anew', NEW key \in Delivered'
      PROVE  \E f \in n.files : \E i \in DOMAIN n.hashes[f] : key = << f, i, n.hashes[f][i] >>
  <2>1. accepted
    <3>1. pages' = << >> => Delivered' = {}
      BY DEF Delivered
    <3> QED BY <1>2, <1>6, <3>1
  <2>2. PICK s : s = cursor.snapshot /\ given = cursor /\ cursor # NoCursor /\ cursor.scope = S
    BY <2>1
  <2>3. /\ ~torn /\ ~told /\ ~Stale(s, n) /\ (S.global \/ ~anew)
        /\ (S.global \/ ~BegunAnew(s, n)) /\ key \in Delivered
    BY <1>2, <1>6, <2>1, <2>2 DEF Delivered
  <2>4. Shows(s, S) /\ (S.global => Lasts(s))
    BY <1>2, <2>2, <2>3 DEF RewriteInv, SnapshotInv
  <2>5. \A f \in s.files : f \in n.files /\ Keeps(n.hashes[f], s.hashes[f])
    BY <1>1, <2>3, <2>4, NotStaleKeeps
  <2>6. PICK f \in s.files : \E i \in DOMAIN s.hashes[f] : key = << f, i, s.hashes[f][i] >>
    BY <2>3, <2>4 DEF Shows
  <2>7. PICK i \in DOMAIN s.hashes[f] : key = << f, i, s.hashes[f][i] >>
    BY <2>6
  <2>8. PICK old \in Seq(Lines), new \in Seq(Lines) : old = s.hashes[f] /\ new = n.hashes[f]
    BY <1>5, <2>4, <2>5 DEF Shows
  <2>9. Len(old) <= Len(new) /\ \A j \in 1 .. Len(old) : new[j] = old[j]
    BY <2>5, <2>8, KeepsTheLines
  <2>10. i \in DOMAIN new /\ new[i] = old[i]
    <3>1. i \in 1 .. Len(old)
      BY <2>7, <2>8
    <3>2. PICK l \in Nat, m \in Nat : l = Len(old) /\ m = Len(new) /\ DOMAIN new = 1 .. m
      OBVIOUS
    <3> QED BY <2>9, <3>1, <3>2
  <2> QED BY <2>5, <2>7, <2>8, <2>10
<1>7. ~torn' => Shows(n, S)'
  <2>1. S \in Scopes'
    BY DEF Scopes
  <2> QED BY <1>5, <1>6, <2>1 DEF Shows
<1>8. ~torn' => Current(snapshot, scope)' /\ Shows(snapshot, scope)'
  <2>1. Current(n, S)'
    BY <1>2, <1>5 DEF Current, Tracked, dbVars
  <2> QED BY <1>2, <1>7, <2>1 DEF Shows, Current, Tracked
<1> QED BY <1>2, <1>4, <1>8 DEF RewriteInv, SnapshotInv

\* While a page is collected.
LEMMA ReadKeepsSnapshots ==
  ASSUME RewriteInv, pc # "idle", pc' # "idle", UNCHANGED << dbVars, scope, snapshot, told, anew, torn, pages >>
  PROVE  RewriteInv'
<1>1. HistoriesInv'
  BY DEF RewriteInv, HistoriesInv, dbVars
<1>2. PICK s, S : s = snapshot /\ S = scope
  OBVIOUS
<1>3. (Shows(s, S) => Shows(s, S)') /\ (Current(s, S) => Current(s, S)')
  BY DEF Shows, Delivered, Scopes, Current, Tracked, dbVars
<1>4. ~torn' => Current(snapshot, scope)' /\ Shows(snapshot, scope)'
  <2>1. ~torn => Current(s, S) /\ Shows(s, S)
    BY <1>2 DEF RewriteInv, SnapshotInv
  <2> QED BY <1>2, <1>3, <2>1 DEF Shows, Current, Tracked
<1> QED BY <1>1, <1>4 DEF RewriteInv, SnapshotInv

\* The answer: what it delivers of the sources is in the store, and so in the snapshot.
LEMMA AnswerKeepsSnapshots ==
  ASSUME DiffInv, RewriteInv, Answer
  PROVE  RewriteInv'
<1>1. PICK R, new : R = got \cup {Collect(Observation)} /\ new = Selected(R)
  OBVIOUS
<1>2. PICK s, S : s = snapshot /\ S = scope
  OBVIOUS
<1>3. /\ pc = "observations" /\ pc' = "idle" /\ cursor'.snapshot = s /\ cursor'.scope = S
      /\ pages' = pages \o Sorted(new)
      /\ UNCHANGED dbVars /\ torn' = torn /\ told' = told /\ anew' = anew
  BY <1>1, <1>2 DEF Answer
<1>4. /\ TypeInv /\ TablesInv /\ HistoriesInv /\ page >= 1 /\ IsFiniteSet(got)
      /\ (\A r \in got : Collected(r)) /\ pages \in Seq(TableRows) /\ S.files \in SUBSET Files
      /\ watermark \in [at : 0 .. issued, kind : 0 .. 5, key : Seq(Nat)] /\ IsWatermark(watermark)
  BY <1>2, <1>3, WatermarkIsReached DEF RewriteInv, DiffInv, ChainInv
<1>5. IsFiniteSet(R) /\ \A r \in R : Collected(r)
  <2>1. Collected(Collect(Observation))
    BY <1>2, <1>3, <1>4, WatermarkIsReached, CollectIsCollected DEF Observation
  <2> QED BY <1>1, <1>4, <2>1, FS_Union, FS_Singleton
<1>6. new \subseteq TableRows /\ IsFiniteSet(new)
  BY <1>1, <1>4, <1>5, NextIsReached
<1>7. /\ Sorted(new) \in Seq(new) /\ pages \in Seq(TableRows)
  BY <1>4, <1>6, SortedIsInOrder
<1>8. \A i \in DOMAIN pages' : (\E j \in DOMAIN pages : pages'[i] = pages[j]) \/ pages'[i] \in new
  <2>1. \A q \in Seq(new) : \A i \in DOMAIN (pages \o q) :
           (\E j \in DOMAIN pages : (pages \o q)[i] = pages[j]) \/ (pages \o q)[i] \in new
    BY <1>7
  <2> QED BY <1>3, <1>7, <2>1
<1>9. ASSUME ~torn, NEW row \in new, row.kind = SourceRange
      PROVE  \E f \in s.files : \E i \in DOMAIN s.hashes[f] : row.key = << f, i, s.hashes[f][i] >>
  <2>1. row \in RangeRows(S.files)
    <3>1. \E r \in R : row \in r.rows
      BY <1>1, <1>9 DEF Selected, Candidates, Scanned
    <3>2. got = {Collect(kind) : kind \in ReadBefore}
      BY <1>3, <1>9 DEF DiffInv, CallInv
    <3>3. PICK kind \in 1 .. 5 : row \in Collect(kind).rows
      BY <1>1, <1>3, <3>1, <3>2
         DEF ReadBefore, SourceRange, SummaryLeaf, PreparedCard, InboxItem, Observation
    <3>4. row \in Table(kind, S.files)
      BY <1>2, <3>3 DEF Collect
    <3>5. kind = SourceRange
      BY <1>4, <1>9, <3>4, Tables DEF IsTable
    <3> QED BY <3>4, <3>5
            DEF Table, SourceRange, SummaryLeaf, PreparedCard, InboxItem, Observation
  <2>2. PICK f \in S.files : \E i \in 1 .. Len(ranges[f]) : row.key = << f, i, source[f].hash[i] >>
    BY <2>1 DEF RangeRows
  <2>3. PICK i \in 1 .. Len(ranges[f]) : row.key = << f, i, source[f].hash[i] >>
    BY <2>2
  <2>4. f \in Files /\ source[f] # NoRow
    <3>1. Len(<< >>) = 0 /\ f \in Files
      BY <1>4
    <3> QED BY <1>4, <2>3, <3>1, StoredFiles
  <2>5. source[f].hash \in Seq(Lines) /\ Len(ranges[f]) = Len(source[f].hash)
    BY <1>4, <2>4, StoredFiles
  <2>6. Current(s, S)
    BY <1>2, <1>3, <1>9 DEF RewriteInv, SnapshotInv
  <2>7. f \in s.files /\ s.hashes[f] = source[f].hash
    BY <2>4, <2>6 DEF Current, Tracked
  <2> QED BY <2>3, <2>5, <2>7
<1>10. ASSUME ~torn
       PROVE  Shows(s, S)'
  <2>1. Shows(s, S)
    BY <1>2, <1>3, <1>10 DEF RewriteInv, SnapshotInv
  <2>2. ASSUME ~told, S.global \/ ~anew, NEW key \in Delivered'
        PROVE  \E f \in s.files : \E i \in DOMAIN s.hashes[f] : key = << f, i, s.hashes[f][i] >>
    <3>1. PICK i \in DOMAIN pages' : pages'[i].kind = SourceRange /\ key = pages'[i].key
      BY <2>2 DEF Delivered
    <3>2. CASE pages'[i] \in new
      BY <1>9, <1>10, <3>1, <3>2
    <3>3. CASE \E j \in DOMAIN pages : pages'[i] = pages[j]
      <4>1. key \in Delivered
        BY <3>1, <3>3 DEF Delivered
      <4> QED BY <2>1, <2>2, <4>1 DEF Shows
    <3> QED BY <1>8, <3>1, <3>2, <3>3
  <2>3. S \in Scopes'
    BY <2>1 DEF Shows, Scopes
  <2> QED BY <1>3, <2>1, <2>2, <2>3 DEF Shows
<1>11. ASSUME ~torn, S.global
       PROVE  Lasts(s)'
  <2>1. Current(s, S) /\ Shows(s, S)
    BY <1>2, <1>3, <1>11 DEF RewriteInv, SnapshotInv
  <2>2. destructive' = destructive /\ source' = source /\ destructive \in Nat
    BY <1>3, <1>4 DEF dbVars, HistoriesInv
  <2>3. \A f \in s.files : source[f] # NoRow /\ Keeps(source[f].hash, s.hashes[f])
    BY <2>1 DEF Current, Tracked, Keeps
  <2> QED BY <1>11, <2>1, <2>2, <2>3 DEF Lasts, Current
<1>12. HistoriesInv'
  BY <1>3, <1>4 DEF HistoriesInv, dbVars
<1>13. ~torn' => Shows(cursor.snapshot, cursor.scope)'
                 /\ (cursor'.scope.global => Lasts(cursor.snapshot)')
  BY <1>3, <1>10, <1>11 DEF Shows, Lasts
<1> QED BY <1>3, <1>12, <1>13 DEF RewriteInv, SnapshotInv

\* There is no snapshot at first.
LEMMA RewriteInvHoldsAtFirst == Init => RewriteInv
  BY DEF Init, RewriteInv, HistoriesInv, SnapshotInv

\* A step that changes nothing.
LEMMA StutteringKeepsSnapshots ==
  ASSUME RewriteInv, UNCHANGED vars
  PROVE  RewriteInv'
<1>1. /\ UNCHANGED << dbVars, scope, snapshot, told, anew, torn, pages >> /\ pc' = pc
      /\ cursor' = cursor
  BY DEF vars, callVars, historyVars
<1>2. CASE pc # "idle"
  BY <1>1, <1>2, ReadKeepsSnapshots
<1>3. CASE pc = "idle"
  <2>1. HistoriesInv'
    BY <1>1 DEF RewriteInv, HistoriesInv, dbVars
  <2>2. PICK s, S : s = cursor.snapshot /\ S = cursor.scope
    OBVIOUS
  <2>3. (Shows(s, S) => Shows(s, S)') /\ (Lasts(s) => Lasts(s)')
    BY <1>1 DEF Shows, Delivered, Scopes, Lasts, dbVars
  <2>4. ~torn /\ cursor # NoCursor => Shows(s, S) /\ (S.global => Lasts(s))
    BY <1>3, <2>2 DEF RewriteInv, SnapshotInv
  <2>5. ~torn' /\ cursor' # NoCursor =>
          Shows(cursor.snapshot, cursor.scope)' /\ (cursor'.scope.global => Lasts(cursor.snapshot)')
    BY <1>1, <2>2, <2>3, <2>4 DEF Shows, Lasts
  <2> QED BY <1>1, <1>3, <2>1, <2>5 DEF RewriteInv, SnapshotInv
<1> QED BY <1>2, <1>3

\* Every step keeps the invariant of the snapshots.
LEMMA StepsKeepRewriteInv ==
  ASSUME DiffInv, RewriteInv, [Next]_vars
  PROVE  RewriteInv'
<1>1. CASE Write
  BY <1>1, WriteKeepsSnapshots
<1>2. CASE AskAny
  BY <1>2, AskKeepsSnapshots DEF AskAny
<1>3. ASSUME NEW from, NEW kind, NEW to, Read(from, kind, to), from # "idle", to # "idle"
      PROVE  RewriteInv'
  BY <1>3, ReadKeepsSnapshots DEF Read, historyVars
<1>4. CASE Answer
  BY <1>4, AnswerKeepsSnapshots
<1>5. CASE UNCHANGED vars
  BY <1>5, StutteringKeepsSnapshots
<1> QED BY <1>1, <1>2, <1>3, <1>4, <1>5 DEF Next, Collecting

\* The invariant of the histories and the snapshots holds in every state.
THEOREM RewriteInvariant == Spec => []RewriteInv
<1>1. Init => RewriteInv
  BY RewriteInvHoldsAtFirst
<1>2. DiffInv /\ RewriteInv /\ [Next]_vars => RewriteInv'
  BY StepsKeepRewriteInv
<1> QED BY <1>1, <1>2, DiffInvariant, PTL DEF Spec

\* A diff tells a caller when history it was given has been rewritten or is gone
\* (createSessionDiffSnapshot, sessionDiffSnapshotStaleReasons), unless it is about one
\* thread and that began anew from the text it had begun with.
THEOREM RewrittenHistoryIsTold == Spec => RewritesAreTold
<1>1. ASSUME DiffInv, RewriteInv, DiffInv', RewriteInv', [Next]_vars,
             pc = "idle", pc' # "idle", ~told', ~torn', scope'.global \/ ~anew',
             NEW i \in DOMAIN pages', pages'[i].kind = SourceRange
      PROVE  \E row \in RangeRows(Files) : row.key = pages'[i].key
  <2>1. UNCHANGED dbVars
    BY <1>1 DEF Next, AskAny, Ask, Write, Commit, Collecting, Read, Answer, vars
  <2>2. PICK s, S : s = snapshot' /\ S = scope'
    OBVIOUS
  <2>3. Shows(s, S)' /\ Current(s, S)'
    BY <1>1, <2>2 DEF RewriteInv, SnapshotInv, Shows, Current, Tracked
  <2>4. pages'[i].key \in Delivered'
    BY <1>1 DEF Delivered
  <2>5. PICK f \in s.files : \E j \in DOMAIN s.hashes[f] : pages'[i].key = << f, j, s.hashes[f][j] >>
    BY <1>1, <2>2, <2>3, <2>4 DEF Shows
  <2>6. PICK j \in DOMAIN s.hashes[f] : pages'[i].key = << f, j, s.hashes[f][j] >>
    BY <2>5
  <2>7. f \in Files /\ source[f] # NoRow /\ s.hashes[f] = source[f].hash
    BY <2>1, <2>3, FilesAssumption DEF Current, Tracked, Shows, Scopes, dbVars
  <2>8. source[f].hash \in Seq(Lines) /\ Len(ranges[f]) = Len(source[f].hash)
    BY <1>1, <2>7, StoredFiles DEF DiffInv, RewriteInv
  <2>9. j \in 1 .. Len(ranges[f])
    BY <2>6, <2>7, <2>8
  <2>10. PICK row : row = [kind |-> SourceRange, key |-> << f, j, source[f].hash[j] >>,
                           at |-> ranges[f][j], safe |-> source[f].hash[j] \notin UnsafeLines]
    OBVIOUS
  <2>11. row \in RangeRows(Files)
    <3>1. row \in {[kind |-> SourceRange, key |-> << f, m, source[f].hash[m] >>,
                    at |-> ranges[f][m], safe |-> source[f].hash[m] \notin UnsafeLines] :
                     m \in 1 .. Len(ranges[f])}
      BY <2>9, <2>10
    <3> QED BY <2>7, <3>1, Zenon DEF RangeRows
  <2> QED BY <2>6, <2>7, <2>10, <2>11
<1>2. DiffInv /\ RewriteInv /\ DiffInv' /\ RewriteInv' /\ [Next]_vars =>
        (pc = "idle" /\ pc' # "idle" /\ ~told' /\ ~torn' /\ (scope'.global \/ ~anew') =>
           \A i \in DOMAIN pages' : pages'[i].kind = SourceRange =>
             \E row \in RangeRows(Files) : row.key = pages'[i].key)
  BY <1>1
<1> QED BY <1>2, DiffInvariant, RewriteInvariant, PTL DEF Spec, RewritesAreTold
==============================================================================
