------------------------ MODULE SourceIndexerProofs ------------------------
(***************************************************************************)
(* The index of a session file that one process keeps, for any number of   *)
(* writes of the file by Codex and any caps.                               *)
(***************************************************************************)
EXTENDS SourceIndexer, SequenceTheorems, FiniteSetTheorems, TLAPS

----------------------------------------------------------------------------
(* Texts.  Those that one begins are lines before it, and a text that      *)
(* extends another at the end of a line holds the lines of both.           *)

Ends(t, i) == {j \in 1 .. i - 1 : t[j].end}

Lines(t) == {j \in 1 .. Len(t) - 1 : ~t[j].end /\ t[j + 1] = LineEnd(t[j].line)}

LEMMA EndsFinite ==
  ASSUME NEW t, NEW i \in Nat
  PROVE  /\ IsFiniteSet(Ends(t, i)) /\ Before(t, i) = Cardinality(Ends(t, i))
         /\ Before(t, i) \in Nat
<1>1. i - 1 \in Int /\ 1 \in Int
  OBVIOUS
<1>2. IsFiniteSet(1 .. i - 1)
  BY <1>1, FS_Interval
<1>3. Ends(t, i) \in SUBSET (1 .. i - 1)
  BY DEF Ends
<1>4. IsFiniteSet(Ends(t, i))
  BY <1>2, <1>3, FS_Subset
<1>5. Before(t, i) = Cardinality(Ends(t, i))
  BY DEF Before, Ends
<1> QED BY <1>4, <1>5, FS_CardinalityType

\* A text that begins with another has the other's ends of line at its head.
LEMMA EndsOfPrefix ==
  ASSUME NEW h, NEW t, NEW i \in Nat,
         \A j \in 1 .. i - 1 : t[j] = h[j]
  PROVE  Before(t, i) = Before(h, i)
<1>1. Ends(t, i) = Ends(h, i)
  BY DEF Ends
<1> QED BY <1>1, EndsFinite

LEMMA EndsJoined ==
  ASSUME NEW h \in Seq(Pieces), NEW b \in Seq(Pieces), NEW i \in 1 .. Len(b) + 1
  PROVE  Before(h \o b, Len(h) + i) = Before(h, Len(h) + 1) + Before(b, i)
<1> DEFINE n == Len(h)
           t == h \o b
           U == {j \in n + 1 .. n + i - 1 : t[j].end}
           f == [j \in Ends(b, i) |-> n + j]
<1>1. n \in Nat /\ Len(b) \in Nat /\ i \in Nat /\ n + 1 \in Nat /\ n + i \in Nat
  OBVIOUS
<1>2. \A j \in 1 .. n + Len(b) : t[j] = IF j <= n THEN h[j] ELSE b[j - n]
  BY ConcatProperties
<1>3. Ends(t, n + i) = Ends(h, n + 1) \cup U
  <2>1. \A j \in 1 .. n : t[j] = h[j]
    BY <1>1, <1>2
  <2> QED BY <1>1, <2>1 DEF Ends
<1>4. Ends(h, n + 1) \cap U = {}
  BY <1>1 DEF Ends
<1>5. f \in Bijection(Ends(b, i), U)
  <2>1. \A j \in 1 .. i - 1 : t[n + j] = b[j]
    BY <1>1, <1>2
  <2>2. \A j \in Ends(b, i) : n + j \in U
    BY <1>1, <2>1 DEF Ends
  <2>3. \A k \in U : k - n \in Ends(b, i) /\ n + (k - n) = k
    BY <1>1, <2>1 DEF Ends
  <2>4. \A j, k \in Ends(b, i) : n + j = n + k => j = k
    BY <1>1 DEF Ends
  <2>5. f \in [Ends(b, i) -> U]
    BY <2>2
  <2>6. \A j \in Ends(b, i) : f[j] = n + j
    OBVIOUS
  <2> HIDE DEF f, U
  <2>7. f \in Injection(Ends(b, i), U)
    <3>1. \A j, k \in Ends(b, i) : f[j] = f[k] => j = k
      BY <2>4, <2>6
    <3> QED BY <2>5, <3>1 DEF Injection, IsInjective
  <2>8. f \in Surjection(Ends(b, i), U)
    BY <2>3, <2>5, <2>6 DEF Surjection
  <2> QED BY <2>7, <2>8 DEF Bijection
<1>6. IsFiniteSet(U) /\ Cardinality(U) = Cardinality(Ends(b, i))
  BY <1>1, <1>5, EndsFinite, FS_Bijection DEF ExistsBijection
<1>7. Cardinality(Ends(t, n + i)) =
        Cardinality(Ends(h, n + 1)) + Cardinality(U) - Cardinality({})
  <2>1. IsFiniteSet(Ends(h, n + 1))
    BY <1>1, EndsFinite
  <2> HIDE DEF U, n, t
  <2>2. Cardinality(Ends(h, n + 1) \cup U) =
          Cardinality(Ends(h, n + 1)) + Cardinality(U)
            - Cardinality(Ends(h, n + 1) \cap U)
    BY <1>6, <2>1, FS_Union
  <2> QED BY <1>3, <1>4, <2>2
<1>8. Cardinality({}) = 0
  BY FS_EmptySet
<1> HIDE DEF U, t, n
<1>9. /\ Before(t, n + i) = Cardinality(Ends(t, n + i))
      /\ Before(h, n + 1) = Cardinality(Ends(h, n + 1))
      /\ Before(b, i) = Cardinality(Ends(b, i))
      /\ Before(h, n + 1) \in Nat /\ Before(b, i) \in Nat
  BY <1>1, EndsFinite
<1>10. Before(t, n + i) = Before(h, n + 1) + Before(b, i)
  BY <1>6, <1>7, <1>8, <1>9
<1> QED BY <1>10 DEF t, n

LEMMA ParsedFinite ==
  ASSUME NEW t \in Seq(Pieces), NEW k \in Nat
  PROVE  /\ IsFiniteSet(Parsed(t, k)) /\ Cardinality(Parsed(t, k)) \in Nat
         /\ Parsed(t, k) \subseteq Nat \X Nat
<1> DEFINE f == [i \in Lines(t) |-> << k + Before(t, i), t[i].line >>]
<1>1. Len(t) - 1 \in Int /\ 1 \in Int
  OBVIOUS
<1>2. IsFiniteSet(1 .. Len(t) - 1)
  BY <1>1, FS_Interval
<1>3. Lines(t) \in SUBSET (1 .. Len(t) - 1)
  BY DEF Lines
<1>4. IsFiniteSet(Lines(t))
  BY <1>2, <1>3, FS_Subset
<1>5. Parsed(t, k) = {k2 \in Parsed(t, k) : \E i \in Lines(t) : f[i] = k2}
  BY DEF Parsed, Lines
<1>6. \A i \in Lines(t) : f[i] \in Parsed(t, k)
  BY DEF Parsed, Lines
<1>7. f \in Surjection(Lines(t), Parsed(t, k))
  BY <1>5, <1>6 DEF Surjection
<1>8. IsFiniteSet(Parsed(t, k))
  BY <1>4, <1>7, FS_Surjection
<1>9. \A i \in Lines(t) : t[i].line \in Nat /\ k + Before(t, i) \in Nat
  <2>1. \A i \in Lines(t) : i \in 1 .. Len(t) /\ i \in Nat
    BY DEF Lines
  <2>2. \A i \in 1 .. Len(t) : t[i] \in Pieces
    OBVIOUS
  <2> QED BY <2>1, <2>2, EndsFinite DEF Pieces
<1>10. Parsed(t, k) \subseteq Nat \X Nat
  BY <1>9 DEF Parsed, Lines
<1> QED BY <1>8, <1>10, FS_CardinalityType

\* A text that begins with another has the lines of the other.
LEMMA ParsedOfPrefix ==
  ASSUME NEW h \in Seq(Pieces), NEW t \in Seq(Pieces),
         Len(h) <= Len(t), \A j \in 1 .. Len(h) : t[j] = h[j]
  PROVE  Parsed(h, 0) \subseteq Parsed(t, 0)
<1> SUFFICES ASSUME NEW i \in Lines(h)
             PROVE  << 0 + Before(h, i), h[i].line >> \in Parsed(t, 0)
  BY DEF Parsed, Lines
<1>1. i \in Nat /\ i \in 1 .. Len(h) /\ i + 1 \in 1 .. Len(h) /\ i \in 1 .. Len(t) - 1
  BY DEF Lines
<1>2. t[i] = h[i] /\ t[i + 1] = h[i + 1]
  BY <1>1
<1>3. Before(t, i) = Before(h, i)
  <2>1. \A j \in 1 .. i - 1 : t[j] = h[j]
    BY <1>1
  <2> QED BY <1>1, <2>1, EndsOfPrefix
<1> QED BY <1>1, <1>2, <1>3 DEF Parsed, Lines

\* The lines of a text and of what is written after its last end of line.
LEMMA ParsedJoined ==
  ASSUME NEW h \in Seq(Pieces), NEW b \in Seq(Pieces), EndsLine(h)
  PROVE  Parsed(h \o b, 0) = Parsed(h, 0) \cup Parsed(b, Before(h, Len(h) + 1))
<1> DEFINE n == Len(h)
           k == Before(h, n + 1)
           t == h \o b
<1>1. /\ n \in Nat /\ Len(b) \in Nat /\ n >= 1 /\ h[n].end
      /\ Len(t) = n + Len(b) /\ t \in Seq(Pieces)
  BY ConcatProperties DEF EndsLine
<1>2. \A j \in 1 .. n + Len(b) : t[j] = IF j <= n THEN h[j] ELSE b[j - n]
  BY ConcatProperties
<1>3. k \in Nat
  BY <1>1, EndsFinite
<1> HIDE DEF n, k, t
<1>4. Parsed(h, 0) \subseteq Parsed(t, 0)
  <2>1. \A j \in 1 .. Len(h) : t[j] = h[j]
    BY <1>1, <1>2 DEF n
  <2>2. Len(h) <= Len(t)
    BY <1>1 DEF n
  <2> QED BY <1>1, <2>1, <2>2, ParsedOfPrefix
<1>5. \A j \in Lines(b) :
        /\ n + j \in Lines(t) /\ t[n + j] = b[j]
        /\ Before(t, n + j) = k + Before(b, j)
  <2> SUFFICES ASSUME NEW j \in Lines(b)
               PROVE  /\ n + j \in Lines(t) /\ t[n + j] = b[j]
                      /\ Before(t, n + j) = k + Before(b, j)
    OBVIOUS
  <2>1. j \in 1 .. Len(b) - 1 /\ ~b[j].end /\ b[j + 1] = LineEnd(b[j].line)
    BY DEF Lines
  <2>2. t[n + j] = b[j] /\ t[n + j + 1] = b[j + 1]
    BY <1>1, <1>2, <2>1
  <2>3. n + j \in 1 .. Len(t) - 1
    BY <1>1, <2>1
  <2>4. j \in 1 .. Len(b) + 1
    BY <1>1, <2>1
  <2> QED BY <2>1, <2>2, <2>3, <2>4, EndsJoined DEF Lines, t, k, n
<1>6. Parsed(b, k) \subseteq Parsed(t, 0)
  <2> SUFFICES ASSUME NEW j \in Lines(b)
               PROVE  << k + Before(b, j), b[j].line >> \in Parsed(t, 0)
    BY DEF Parsed, Lines
  <2>1. << 0 + Before(t, n + j), t[n + j].line >> \in Parsed(t, 0)
    BY <1>5 DEF Parsed, Lines
  <2>2. j \in Nat
    BY DEF Lines
  <2>3. Before(b, j) \in Nat
    BY <2>2, EndsFinite
  <2>4. 0 + Before(t, n + j) = k + Before(b, j)
    BY <1>3, <1>5, <2>3
  <2> QED BY <1>5, <2>1, <2>4
<1>7. ASSUME NEW i \in Lines(t)
      PROVE  << 0 + Before(t, i), t[i].line >> \in Parsed(h, 0) \cup Parsed(b, k)
  <2>1. i \in 1 .. Len(t) - 1 /\ ~t[i].end /\ t[i + 1] = LineEnd(t[i].line) /\ i \in Nat
    BY DEF Lines
  <2>2. CASE i < n
    <3>1. i \in 1 .. n - 1 /\ t[i] = h[i] /\ t[i + 1] = h[i + 1]
      BY <1>1, <1>2, <2>1, <2>2
    <3>2. i \in Lines(h)
      BY <2>1, <3>1 DEF Lines, n
    <3>3. \A j \in 1 .. i - 1 : t[j] = h[j]
      BY <1>1, <1>2, <2>1, <2>2
    <3>4. Before(t, i) = Before(h, i)
      BY <2>1, <3>3, EndsOfPrefix
    <3> QED BY <3>1, <3>2, <3>4 DEF Parsed, Lines
  <2>3. CASE i = n
    BY <1>1, <1>2, <2>1, <2>3
  <2>4. CASE i > n
    <3>1. /\ i - n \in 1 .. Len(b) - 1 /\ t[i] = b[i - n]
          /\ t[i + 1] = b[(i - n) + 1] /\ n + (i - n) = i
      BY <1>1, <1>2, <2>1, <2>4
    <3>2. i - n \in Lines(b)
      BY <2>1, <3>1 DEF Lines
    <3>3. Before(t, i) = k + Before(b, i - n)
      BY <1>5, <3>1, <3>2
    <3>4. Before(b, i - n) \in Nat
      BY <3>1, EndsFinite
    <3>5. 0 + Before(t, i) = k + Before(b, i - n)
      BY <1>3, <3>3, <3>4
    <3>6. << k + Before(b, i - n), b[i - n].line >> \in Parsed(b, k)
      BY <3>2 DEF Parsed, Lines
    <3> QED BY <3>1, <3>5, <3>6
  <2> QED BY <1>1, <2>1, <2>2, <2>3, <2>4
<1>8. Parsed(t, 0) \subseteq Parsed(h, 0) \cup Parsed(b, k)
  BY <1>7 DEF Parsed, Lines
<1>9. Parsed(t, 0) = Parsed(h, 0) \cup Parsed(b, k)
  BY <1>4, <1>6, <1>8
<1> QED BY <1>9 DEF t, k, n

LEMMA ParsedShifted ==
  ASSUME NEW b \in Seq(Pieces), NEW k \in Nat
  PROVE  Cardinality(Parsed(b, k)) = Cardinality(Parsed(b, 0))
<1> DEFINE g == [r \in Parsed(b, 0) |-> << k + r[1], r[2] >>]
<1>1. Parsed(b, 0) \subseteq Nat \X Nat
  BY ParsedFinite
<1>2. \A j \in Lines(b) : Before(b, j) \in Nat
  BY EndsFinite DEF Lines
<1>3. \A r \in Parsed(b, 0) : << k + r[1], r[2] >> \in Parsed(b, k)
  BY <1>2 DEF Parsed, Lines
<1>4. \A q \in Parsed(b, k) : \E r \in Parsed(b, 0) : << k + r[1], r[2] >> = q
  <2> SUFFICES ASSUME NEW j \in Lines(b)
               PROVE  \E r \in Parsed(b, 0) :
                        << k + r[1], r[2] >> = << k + Before(b, j), b[j].line >>
    BY DEF Parsed, Lines
  <2>1. << 0 + Before(b, j), b[j].line >> \in Parsed(b, 0)
    BY DEF Parsed, Lines
  <2>2. 0 + Before(b, j) = Before(b, j)
    BY <1>2
  <2> QED BY <2>1, <2>2
<1>5. \A q, r \in Parsed(b, 0) :
        << k + q[1], q[2] >> = << k + r[1], r[2] >> => q = r
  BY <1>1
<1>6. \A r \in Parsed(b, 0) : g[r] = << k + r[1], r[2] >>
  OBVIOUS
<1>7. g \in [Parsed(b, 0) -> Parsed(b, k)]
  BY <1>3
<1> HIDE DEF g
<1>8. g \in Injection(Parsed(b, 0), Parsed(b, k))
  <2>1. \A q, r \in Parsed(b, 0) : g[q] = g[r] => q = r
    BY <1>5, <1>6
  <2> QED BY <1>7, <2>1 DEF Injection, IsInjective
<1>9. g \in Surjection(Parsed(b, 0), Parsed(b, k))
  <2>1. \A q \in Parsed(b, k) : \E r \in Parsed(b, 0) : g[r] = q
    BY <1>4, <1>6
  <2> QED BY <1>7, <2>1 DEF Surjection
<1>10. ExistsBijection(Parsed(b, 0), Parsed(b, k))
  BY <1>8, <1>9 DEF Bijection, ExistsBijection
<1> QED BY <1>10, ParsedFinite, FS_Bijection

\* The lines of a text bear the ordinals below the number of its ends.
LEMMA ParsedBelow ==
  ASSUME NEW h \in Seq(Pieces), NEW r \in Parsed(h, 0)
  PROVE  r[1] < Before(h, Len(h) + 1)
<1>1. PICK i \in Lines(h) : r = << 0 + Before(h, i), h[i].line >>
  BY DEF Parsed, Lines
<1>2. /\ i \in Nat /\ i + 1 \in 1 .. Len(h) /\ h[i + 1] = LineEnd(h[i].line)
      /\ Len(h) + 1 \in Nat
  BY DEF Lines
<1>3. h[i + 1].end
  BY <1>2 DEF LineEnd
<1>4. Ends(h, i) \in SUBSET Ends(h, Len(h) + 1)
  BY <1>2 DEF Ends
<1>5. i + 1 \in Ends(h, Len(h) + 1) /\ i + 1 \notin Ends(h, i)
  BY <1>2, <1>3 DEF Ends
<1>6. IsFiniteSet(Ends(h, Len(h) + 1))
  BY <1>2, EndsFinite
<1>7. /\ Cardinality(Ends(h, i)) <= Cardinality(Ends(h, Len(h) + 1))
      /\ Cardinality(Ends(h, i)) # Cardinality(Ends(h, Len(h) + 1))
  BY <1>4, <1>5, <1>6, FS_Subset
<1>8. /\ Before(h, i) = Cardinality(Ends(h, i)) /\ Before(h, i) \in Nat
      /\ Before(h, Len(h) + 1) = Cardinality(Ends(h, Len(h) + 1))
      /\ Before(h, Len(h) + 1) \in Nat
  BY <1>2, EndsFinite
<1> QED BY <1>1, <1>7, <1>8

\* A text counts as many events as rows when its two parts do.
LEMMA NoDriftJoined ==
  ASSUME NEW h \in Seq(Pieces), NEW b \in Seq(Pieces), EndsLine(h),
         ~Drifts(h), ~Drifts(b)
  PROVE  ~Drifts(h \o b)
<1> DEFINE t == h \o b
           k == Before(h, Len(h) + 1)
<1>1. /\ Len(h) \in Nat /\ Len(b) \in Nat /\ t \in Seq(Pieces)
      /\ Len(t) = Len(h) + Len(b) /\ h # << >> /\ h[Len(h)].end
      /\ \A j \in 1 .. Len(h) + Len(b) : t[j] = IF j <= Len(h) THEN h[j] ELSE b[j - Len(h)]
  BY ConcatProperties DEF EndsLine
<1>2. k \in Nat /\ Before(b, Len(b) + 1) \in Nat
  BY <1>1, EndsFinite
<1>3. Before(t, Len(t) + 1) = k + Before(b, Len(b) + 1)
  <2>1. Len(b) + 1 \in 1 .. Len(b) + 1
    BY <1>1
  <2>2. Before(t, Len(h) + (Len(b) + 1)) = k + Before(b, Len(b) + 1)
    BY <2>1, EndsJoined
  <2>3. Len(h) + (Len(b) + 1) = Len(t) + 1
    BY <1>1
  <2> QED BY <2>2, <2>3
<1>4. Cardinality(Parsed(h, 0)) = k
  BY <1>2 DEF Drifts, Events
<1>5. Events(t) = k + Events(b)
  <2>1. CASE b = << >>
    <3>1. t = h
      BY <2>1, ConcatEmptySeq
    <3>2. Len(b) + 1 = 1 /\ 1 \in Nat
      BY <2>1
    <3>3. Ends(b, 1) = {}
      BY DEF Ends
    <3>4. Before(b, Len(b) + 1) = 0
      BY <3>2, <3>3, EndsFinite, FS_EmptySet
    <3> QED BY <1>2, <2>1, <3>1, <3>4 DEF Events
  <2>2. CASE b # << >>
    <3>1. Len(b) > 0
      BY <2>2, <1>1
    <3>2. t # << >> /\ t[Len(t)] = b[Len(b)]
      BY <1>1, <3>1
    <3>3. EndsLine(t) = EndsLine(b)
      BY <2>2, <3>2 DEF EndsLine
    <3>4. Before(t, Len(t) + 1) \in Nat
      BY <1>2, <1>3
    <3> QED BY <1>2, <1>3, <2>2, <3>2, <3>3 DEF Events
  <2> QED BY <2>1, <2>2
<1>6. Parsed(h, 0) \cap Parsed(b, k) = {}
  <2> SUFFICES ASSUME NEW r \in Parsed(h, 0), r \in Parsed(b, k)
               PROVE  FALSE
    OBVIOUS
  <2>1. PICK j \in Lines(b) : r = << k + Before(b, j), b[j].line >>
    BY DEF Parsed, Lines
  <2>2. Before(b, j) \in Nat
    BY EndsFinite DEF Lines
  <2>3. r[1] < k
    BY ParsedBelow
  <2> QED BY <1>2, <2>1, <2>2, <2>3
<1>7. Cardinality(Parsed(t, 0)) = k + Cardinality(Parsed(b, 0))
  <2>1. Parsed(t, 0) = Parsed(h, 0) \cup Parsed(b, k)
    BY ParsedJoined
  <2>2. IsFiniteSet(Parsed(h, 0)) /\ IsFiniteSet(Parsed(b, k))
    BY <1>2, ParsedFinite
  <2>3. Cardinality(Parsed(h, 0) \cup Parsed(b, k)) =
          Cardinality(Parsed(h, 0)) + Cardinality(Parsed(b, k))
            - Cardinality(Parsed(h, 0) \cap Parsed(b, k))
    BY <2>2, FS_Union
  <2>4. Cardinality(Parsed(h, 0) \cap Parsed(b, k)) = 0
    BY <1>6, FS_EmptySet
  <2>5. Cardinality(Parsed(b, k)) = Cardinality(Parsed(b, 0))
    BY <1>2, ParsedShifted
  <2>6. Cardinality(Parsed(b, 0)) \in Nat
    BY ParsedFinite
  <2> HIDE DEF t, k
  <2>7. Cardinality(Parsed(t, 0)) = k + Cardinality(Parsed(b, 0)) - 0
    BY <1>4, <2>1, <2>3, <2>4, <2>5
  <2> QED BY <1>2, <2>6, <2>7
<1>8. Cardinality(Parsed(b, 0)) = Events(b)
  BY DEF Drifts
<1> QED BY <1>5, <1>7, <1>8 DEF Drifts
----------------------------------------------------------------------------
Places ==
  {"idle", "done", "stat", "limit", "limitRow", "mark", "seed", "prefix", "tail",
   "stats", "append", "read", "decide", "upsert", "ranges", "leaves", "leafMark",
   "card", "cardMark"}

Rows == SUBSET (Nat \X Nat)

TypeInv ==
  /\ exists \in BOOLEAN /\ text \in Seq(Pieces) /\ mtime \in Nat
  /\ mark \in Marks \cup {NoMark}
  /\ session \in Rows /\ ranges \in Rows /\ leaves \in Rows /\ card \in Rows
  /\ limited \in BOOLEAN /\ destructive \in Nat
  /\ pc \in [Procs -> Places]
  /\ verify \in [Procs -> BOOLEAN]
  /\ size \in [Procs -> Nat]
  /\ stamp \in [Procs -> Nat]
  /\ seen \in [Procs -> Marks \cup {NoMark}]
  /\ got \in [Procs -> Rows]
  /\ buffer \in [Procs -> Seq(Pieces)]
  /\ prev \in [Procs -> Marks \cup {NoMark}]
  /\ calm \in [Procs -> BOOLEAN]

\* The watermark is not ahead of the file, what it says of the text is so when
\* it agrees with the file, and each row is that of what it was derived from.
Honest(m) ==
  /\ m.mtime <= mtime
  /\ m.mtime = mtime /\ m.size = Len(text) => m.hash = text

MarkInv ==
  /\ ranges = session
  /\ mark # NoMark =>
       /\ Honest(mark)
       /\ session = Parsed(mark.hash, 0)
       /\ ~mark.drift => ~Drifts(mark.hash)
       /\ mark.leaves => leaves = ranges
       /\ mark.cards => card = leaves

\* The places of a run, from its stat to its end.
Appending == {"seed", "prefix", "tail", "stats", "append"}
Parsing   == {"read", "decide", "upsert"}
Deriving  == {"ranges", "leaves", "leafMark", "card", "cardMark"}
Stated    == Places \ {"idle", "done", "stat"}

\* As long as the file has the mtime of the stat it has its size.
StatInv(p) ==
  pc[p] \in Stated =>
    stamp[p] <= mtime /\ (stamp[p] = mtime => size[p] = Len(text))

\* What a run has read is still so, of the file as long as the mtime stands.
ReadInv(p) ==
  /\ pc[p] \in Appending \cup Parsing => seen[p] = mark
  /\ pc[p] \in Appending => MayAppend(p, mark)
  /\ pc[p] \in Appending \ {"seed"} => ~mark.drift /\ got[p] = session
  /\ pc[p] \in Appending \ {"seed", "prefix"} =>
       /\ Len(mark.hash) = mark.size /\ EndsLine(mark.hash)
       /\ stamp[p] = mtime => SubSeq(text, 1, mark.size) = mark.hash
  /\ pc[p] \in {"stats", "append"} /\ stamp[p] = mtime =>
       buffer[p] = SubSeq(text, mark.size + 1, size[p])
  /\ pc[p] = "append" => ~Drifts(buffer[p])
  /\ pc[p] \in {"decide", "upsert"} /\ stamp[p] = mtime => buffer[p] = text
  /\ pc[p] = "upsert" => prev[p] = mark

\* What a run derives, it derives from the row it wrote.
DeriveInv(p) ==
  /\ pc[p] = "limitRow" => mark = NoMark
  /\ pc[p] \in Deriving =>
       mark # NoMark /\ Same(p, mark) /\ ~mark.cards
  /\ pc[p] \in {"ranges", "leaves", "leafMark"} => ~mark.leaves
  /\ pc[p] = "leaves" => got[p] = ranges
  /\ pc[p] = "leafMark" => leaves = ranges
  /\ pc[p] = "cardMark" => card = leaves

\* While nothing disturbs a run its stat holds, and at its end the file is
\* indexed, or over a cap and not indexed at all.
CalmInv(p) ==
  calm[p] =>
    /\ exists
    /\ pc[p] \in Stated => stamp[p] = mtime /\ size[p] = Len(text)
    /\ pc[p] \in {"card", "cardMark"} => mark.leaves
    /\ pc[p] = "done" => Unchanged \/ (limited /\ mark = NoMark)

RunInv(p) == StatInv(p) /\ ReadInv(p) /\ DeriveInv(p) /\ CalmInv(p)

IndexInv == TypeInv /\ MarkInv /\ \A p \in Procs : RunInv(p)

LEMMA ClearedType ==
  ASSUME TypeInv, ClearIndex
  PROVE  /\ mark' \in Marks \cup {NoMark}
         /\ session' \in Rows /\ ranges' \in Rows /\ leaves' \in Rows /\ card' \in Rows
         /\ limited' \in BOOLEAN /\ destructive' \in Nat
<1>1. destructive' \in Nat
  BY DEF TypeInv, ClearIndex
<1>2. {} \in Rows
  BY DEF Rows
<1> QED BY <1>1, <1>2 DEF TypeInv, ClearIndex

LEMMA BeginKept ==
  ASSUME NEW p, Procs = {p}, IndexInv, Begin(p)
  PROVE  IndexInv'
<1> USE DEF Begin, Go, dbVars, fileVars
<1>0. p \in Procs /\ TypeInv /\ MarkInv /\ RunInv(p)
  BY DEF IndexInv
<1>1. TypeInv'
  BY <1>0 DEF TypeInv, Places
<1>2. MarkInv'
  BY <1>0 DEF MarkInv, Honest
<1>3. StatInv(p)'
  BY <1>0 DEF StatInv, Stated
<1>4. ReadInv(p)'
  BY <1>0 DEF ReadInv, Appending, Parsing
<1>5. DeriveInv(p)'
  BY <1>0 DEF DeriveInv, Deriving
<1>6. CalmInv(p)'
  BY <1>0 DEF TypeInv, CalmInv, Stated
<1> QED BY <1>1, <1>2, <1>3, <1>4, <1>5, <1>6 DEF IndexInv, RunInv

LEMMA PruneKept ==
  ASSUME NEW p, Procs = {p}, IndexInv, Prune(p)
  PROVE  IndexInv'
<1> USE DEF Prune, Go, Writing, Disturb, ClearIndex, localVars, fileVars
<1>0. p \in Procs /\ TypeInv /\ MarkInv /\ RunInv(p)
  BY DEF IndexInv
<1>1. TypeInv'
  BY <1>0, ClearedType DEF TypeInv, Places
<1>2. MarkInv'
  BY <1>0 DEF MarkInv
<1>3. StatInv(p)'
  BY <1>0 DEF StatInv, Stated
<1>4. ReadInv(p)'
  BY <1>0 DEF ReadInv, Appending, Parsing
<1>5. DeriveInv(p)'
  BY <1>0 DEF DeriveInv, Deriving
<1>6. CalmInv(p)'
  BY <1>0 DEF RunInv, CalmInv
<1> QED BY <1>1, <1>2, <1>3, <1>4, <1>5, <1>6 DEF IndexInv, RunInv

LEMMA StatKept ==
  ASSUME NEW p, Procs = {p}, IndexInv, Stat(p)
  PROVE  IndexInv'
<1> USE DEF Stat, Go, Reading, dbVars, fileVars
<1>0. p \in Procs /\ TypeInv /\ MarkInv /\ RunInv(p)
  BY DEF IndexInv
<1>1. TypeInv'
  BY <1>0 DEF TypeInv, Places
<1>2. MarkInv'
  BY <1>0 DEF MarkInv, Honest
<1>3. StatInv(p)'
  BY <1>0 DEF TypeInv, StatInv
<1>4. ReadInv(p)'
  BY <1>0 DEF ReadInv, Appending, Parsing
<1>5. DeriveInv(p)'
  BY <1>0 DEF DeriveInv, Deriving
<1>6. CalmInv(p)'
  BY <1>0 DEF TypeInv, CalmInv
<1> QED BY <1>1, <1>2, <1>3, <1>4, <1>5, <1>6 DEF IndexInv, RunInv

LEMMA LimitKept ==
  ASSUME NEW p, Procs = {p}, IndexInv, Limit(p)
  PROVE  IndexInv'
<1> USE DEF Limit, Step, Go, Writing, Disturb, ClearIndex, localVars, fileVars
<1>0. p \in Procs /\ TypeInv /\ MarkInv /\ RunInv(p)
  BY DEF IndexInv
<1>1. TypeInv'
  BY <1>0, ClearedType DEF TypeInv, Places
<1>2. MarkInv'
  BY <1>0 DEF MarkInv
<1>3. StatInv(p)'
  BY <1>0 DEF RunInv, StatInv, Stated, Places
<1>4. ReadInv(p)'
  BY <1>0 DEF ReadInv, Appending, Parsing
<1>5. DeriveInv(p)'
  BY <1>0 DEF DeriveInv, Deriving
<1>6. CalmInv(p)'
  BY <1>0 DEF TypeInv, RunInv, CalmInv, Stated
<1> QED BY <1>1, <1>2, <1>3, <1>4, <1>5, <1>6 DEF IndexInv, RunInv

LEMMA LimitRowKept ==
  ASSUME NEW p, Procs = {p}, IndexInv, LimitRow(p)
  PROVE  IndexInv'
<1> USE DEF LimitRow, Go, Leave, Finish, Writing, Disturb, fileVars
<1>0. p \in Procs /\ TypeInv /\ MarkInv /\ RunInv(p)
  BY DEF IndexInv
<1>1. TypeInv'
  BY <1>0 DEF TypeInv, Places, Rows
<1>2. MarkInv'
  BY <1>0 DEF MarkInv, Honest
<1>3. StatInv(p)'
  BY <1>0 DEF TypeInv, StatInv, Stated
<1>4. ReadInv(p)'
  BY <1>0 DEF ReadInv, Appending, Parsing
<1>5. DeriveInv(p)'
  BY <1>0 DEF RunInv, DeriveInv, Deriving
<1>6. CalmInv(p)'
  BY <1>0 DEF TypeInv, RunInv, CalmInv, DeriveInv, Stated
<1> QED BY <1>1, <1>2, <1>3, <1>4, <1>5, <1>6 DEF IndexInv, RunInv

LEMMA ReadMarkKept ==
  ASSUME NEW p, Procs = {p}, IndexInv, ReadMark(p)
  PROVE  IndexInv'
<1> USE DEF ReadMark, Go, Leave, Finish, Reading, dbVars, fileVars
<1>0. p \in Procs /\ TypeInv /\ MarkInv /\ RunInv(p)
  BY DEF IndexInv
<1>1. TypeInv'
  <2>1. CASE Finish(p)
    BY <1>0, <2>1 DEF TypeInv, Places, Rows
  <2>2. CASE ~Finish(p)
    BY <1>0, <2>2 DEF TypeInv, Places
  <2> QED BY <2>1, <2>2
<1>2. MarkInv'
  BY <1>0 DEF MarkInv, Honest
<1>3. StatInv(p)'
  BY <1>0 DEF TypeInv, RunInv, StatInv, Stated
<1>4. ReadInv(p)'
  BY <1>0 DEF TypeInv, ReadInv, Appending, Parsing, MayAppend
<1>5. DeriveInv(p)'
  BY <1>0 DEF TypeInv, DeriveInv, Deriving
<1>6. CalmInv(p)'
  BY <1>0 DEF TypeInv, RunInv, CalmInv, Stated, Unchanged, Same
<1> QED BY <1>1, <1>2, <1>3, <1>4, <1>5, <1>6 DEF IndexInv, RunInv

LEMMA ReadSeedKept ==
  ASSUME NEW p, Procs = {p}, IndexInv, ReadSeed(p)
  PROVE  IndexInv'
<1> USE DEF ReadSeed, Step, Go, FallBack, Reading, localVars, dbVars, fileVars
<1>0. p \in Procs /\ TypeInv /\ MarkInv /\ RunInv(p)
  BY DEF IndexInv
<1>1. TypeInv'
  BY <1>0 DEF TypeInv, Places
<1>2. MarkInv'
  BY <1>0 DEF MarkInv, Honest
<1>3. StatInv(p)'
  BY <1>0 DEF RunInv, StatInv, Stated, Places
<1>4. ReadInv(p)'
  BY <1>0 DEF TypeInv, RunInv, ReadInv, Appending, MayAppend, Resumable
<1>5. DeriveInv(p)'
  BY <1>0 DEF TypeInv, DeriveInv, Deriving
<1>6. CalmInv(p)'
  BY <1>0 DEF TypeInv, RunInv, CalmInv, Stated
<1> QED BY <1>1, <1>2, <1>3, <1>4, <1>5, <1>6 DEF IndexInv, RunInv

LEMMA ReadPrefixKept ==
  ASSUME NEW p, Procs = {p}, IndexInv, ReadPrefix(p)
  PROVE  IndexInv'
<1> USE DEF ReadPrefix, Step, Go, FallBack, Reading, localVars, dbVars, fileVars
<1>0. p \in Procs /\ TypeInv /\ MarkInv /\ RunInv(p)
  BY DEF IndexInv
<1>1. TypeInv'
  BY <1>0 DEF TypeInv, Places
<1>2. MarkInv'
  BY <1>0 DEF MarkInv, Honest
<1>3. StatInv(p)'
  BY <1>0 DEF RunInv, StatInv, Stated, Places
<1>4. ReadInv(p)'
  BY <1>0 DEF TypeInv, RunInv, ReadInv, Appending, Marks, MayAppend, Current, PrefixHolds
<1>5. DeriveInv(p)'
  BY <1>0 DEF TypeInv, DeriveInv, Deriving
<1>6. CalmInv(p)'
  BY <1>0 DEF TypeInv, RunInv, CalmInv, Stated
<1> QED BY <1>1, <1>2, <1>3, <1>4, <1>5, <1>6 DEF IndexInv, RunInv

LEMMA ReadTailKept ==
  ASSUME NEW p, Procs = {p}, IndexInv, ReadTail(p)
  PROVE  IndexInv'
<1> USE DEF ReadTail, Step, Go, FallBack, Reading, localVars, dbVars, fileVars
<1>0. p \in Procs /\ TypeInv /\ MarkInv /\ RunInv(p)
  BY DEF IndexInv
<1>1. TypeInv'
  <2>1. ASSUME Fits(p), pc[p] = "tail"
        PROVE  Appended(p) \in Seq(Pieces)
    <3>1. /\ seen[p] \in Marks /\ size[p] \in Nat /\ Len(text) \in Nat
          /\ size[p] <= Len(text) /\ seen[p].size + 1 \in 1 .. Len(text) + 1
      BY <1>0, <2>1 DEF TypeInv, RunInv, ReadInv, Appending, MayAppend, Current, Fits
    <3>2. \A i \in seen[p].size + 1 .. size[p] : text[i] \in Pieces
      BY <1>0, <3>1 DEF TypeInv
    <3> QED BY <3>1, <3>2, SubSeqProperties DEF Appended
  <2> QED BY <1>0, <2>1 DEF TypeInv, Places
<1>2. MarkInv'
  BY <1>0 DEF MarkInv, Honest
<1>3. StatInv(p)'
  BY <1>0 DEF RunInv, StatInv, Stated, Places
<1>4. ReadInv(p)'
  <2>1. CASE FallBack(p, "tail")
    BY <1>0, <2>1 DEF TypeInv, RunInv, ReadInv, Appending
  <2>2. CASE pc[p] = "tail" /\ Fits(p) /\ ~FallBack(p, "tail")
    <3>1. buffer'[p] = SubSeq(text, mark.size + 1, size[p])
      BY <1>0, <2>2 DEF TypeInv, RunInv, ReadInv, Appending, Appended
    <3> QED BY <1>0, <2>2, <3>1 DEF TypeInv, RunInv, ReadInv, Appending, MayAppend
  <2> QED BY <2>1, <2>2
<1>5. DeriveInv(p)'
  BY <1>0 DEF TypeInv, DeriveInv, Deriving
<1>6. CalmInv(p)'
  BY <1>0 DEF TypeInv, RunInv, CalmInv, Stated
<1> QED BY <1>1, <1>2, <1>3, <1>4, <1>5, <1>6 DEF IndexInv, RunInv

LEMMA CheckRowsKept ==
  ASSUME NEW p, Procs = {p}, IndexInv, CheckRows(p)
  PROVE  IndexInv'
<1> USE DEF CheckRows, Step, Go, FallBack, Reading, localVars, dbVars, fileVars
<1>0. p \in Procs /\ TypeInv /\ MarkInv /\ RunInv(p)
  BY DEF IndexInv
<1>1. TypeInv'
  BY <1>0 DEF TypeInv, Places
<1>2. MarkInv'
  BY <1>0 DEF MarkInv, Honest
<1>3. StatInv(p)'
  BY <1>0 DEF RunInv, StatInv, Stated, Places
<1>4. ReadInv(p)'
  BY <1>0 DEF TypeInv, RunInv, ReadInv, Appending, MayAppend
<1>5. DeriveInv(p)'
  BY <1>0 DEF TypeInv, DeriveInv, Deriving
<1>6. CalmInv(p)'
  BY <1>0 DEF TypeInv, RunInv, CalmInv, Stated
<1> QED BY <1>1, <1>2, <1>3, <1>4, <1>5, <1>6 DEF IndexInv, RunInv

LEMMA AppendDeltaKept ==
  ASSUME NEW p, Procs = {p}, IndexInv, AppendDelta(p)
  PROVE  IndexInv'
<1> DEFINE h == mark.hash
           b == buffer[p]
<1>1. p \in Procs /\ TypeInv /\ MarkInv /\ RunInv(p) /\ pc[p] = "append" /\ mark # NoMark
  BY DEF IndexInv, AppendDelta, Step
<1>2. /\ mark \in Marks /\ h \in Seq(Pieces) /\ b \in Seq(Pieces) /\ mark.gen + 1 \in Nat
      /\ size[p] \in Nat /\ stamp[p] \in Nat
  BY <1>1 DEF TypeInv, Marks
<1>3. /\ seen[p] = mark /\ got[p] = session /\ ranges = session
      /\ session = Parsed(h, 0) /\ EndsLine(h) /\ ~Drifts(h) /\ ~Drifts(b)
      /\ Len(h) = mark.size
      /\ stamp[p] <= mtime
      /\ stamp[p] = mtime => /\ SubSeq(text, 1, mark.size) = h
                             /\ SubSeq(text, mark.size + 1, size[p]) = b
      /\ mark.size < size[p]
  BY <1>1 DEF RunInv, ReadInv, MarkInv, StatInv, MayAppend, Appending, Stated, Places
<1>4. h \o b \in Seq(Pieces) /\ ~Drifts(h \o b)
  BY <1>2, <1>3, NoDriftJoined
<1>5. session \cup Parsed(b, Cardinality(got[p])) = Parsed(h \o b, 0)
  <2>1. Before(h, Len(h) + 1) \in Nat
    BY <1>2, EndsFinite
  <2>2. Cardinality(got[p]) = Before(h, Len(h) + 1)
    BY <1>3, <2>1 DEF Drifts, Events
  <2> QED BY <1>2, <1>3, <2>2, ParsedJoined
<1>6. /\ mark' \in Marks /\ mark' # NoMark
      /\ mark'.size = size[p] /\ mark'.mtime = stamp[p] /\ mark'.hash = h \o b
      /\ ~mark'.drift /\ ~mark'.leaves /\ ~mark'.cards
  <2>1. mark' = [mark EXCEPT !.gen = mark.gen + 1, !.hash = h \o b, !.size = size[p],
                   !.mtime = stamp[p], !.drift = FALSE, !.leaves = FALSE, !.cards = FALSE]
    BY <1>2, <1>3 DEF AppendDelta, Outdated, Marks
  <2>2. mark' \in Marks
    BY <1>2, <1>4, <2>1 DEF Marks
  <2> QED BY <1>2, <2>1, <2>2, NoMarkAssumption DEF Marks
<1>7. session' = Parsed(h \o b, 0) /\ ranges' = session' /\ Parsed(h \o b, 0) \in Rows
  BY <1>3, <1>4, <1>5, ParsedFinite DEF AppendDelta, Rows
<1>8. /\ pc' = [pc EXCEPT ![p] = "ranges"]
      /\ UNCHANGED << fileVars, localVars, leaves, card, limited, destructive >>
      /\ calm' = [q \in Procs |-> q = p /\ calm[p]]
  BY DEF AppendDelta, Step, Go, Writing, Disturb
<1> HIDE DEF h, b
<1>9. TypeInv'
  BY <1>1, <1>6, <1>7, <1>8 DEF TypeInv, Places, fileVars, localVars
<1>10. Honest(mark)'
  <2>1. ASSUME stamp[p] = mtime, size[p] = Len(text)
        PROVE  h \o b = text
    <3>1. text \in Seq(Pieces) /\ mark.size \in Nat
      BY <1>1, <1>2 DEF TypeInv, Marks
    <3>2. SubSeq(text, 1, mark.size) \o SubSeq(text, mark.size + 1, Len(text)) =
            SubSeq(text, 1, Len(text))
      <4>1. /\ 1 \in 1 .. Len(text) + 1 /\ mark.size \in 1 - 1 .. Len(text)
            /\ Len(text) \in mark.size .. Len(text)
        BY <1>3, <2>1, <3>1
      <4> QED BY <3>1, <4>1, ConcatAdjacentSubSeq
    <3>3. SubSeq(text, 1, Len(text)) = text
      BY <3>1, SubSeqFull
    <3> QED BY <1>3, <2>1, <3>2, <3>3
  <2> QED BY <1>3, <1>6, <1>8, <2>1 DEF Honest, fileVars
<1>11. MarkInv'
  BY <1>4, <1>6, <1>7, <1>10 DEF MarkInv
<1>12. pc'[p] = "ranges" /\ calm'[p] = calm[p]
  BY <1>1, <1>8 DEF TypeInv
<1>13. StatInv(p)'
  BY <1>1, <1>8, <1>12 DEF RunInv, StatInv, Stated, Places, fileVars, localVars
<1>14. ReadInv(p)'
  BY <1>12 DEF ReadInv, Appending, Parsing
<1>15. DeriveInv(p)'
  BY <1>6, <1>8, <1>12 DEF DeriveInv, Same, localVars
<1>16. CalmInv(p)'
  BY <1>1, <1>8, <1>12 DEF RunInv, CalmInv, Stated, Places, fileVars, localVars
<1> QED BY <1>9, <1>11, <1>13, <1>14, <1>15, <1>16, <1>8 DEF IndexInv, RunInv

LEMMA ReadTextKept ==
  ASSUME NEW p, Procs = {p}, IndexInv, ReadText(p)
  PROVE  IndexInv'
<1> USE DEF ReadText, Go, Reading, dbVars, fileVars
<1>0. p \in Procs /\ TypeInv /\ MarkInv /\ RunInv(p)
  BY DEF IndexInv
<1>1. TypeInv'
  BY <1>0 DEF TypeInv, Places
<1>2. MarkInv'
  BY <1>0 DEF MarkInv, Honest
<1>3. StatInv(p)'
  BY <1>0 DEF RunInv, StatInv, Stated, Places
<1>4. ReadInv(p)'
  BY <1>0 DEF TypeInv, RunInv, ReadInv, Appending, Parsing
<1>5. DeriveInv(p)'
  BY <1>0 DEF DeriveInv, Deriving
<1>6. CalmInv(p)'
  BY <1>0 DEF RunInv, CalmInv, Stated, Places
<1> QED BY <1>1, <1>2, <1>3, <1>4, <1>5, <1>6 DEF IndexInv, RunInv

LEMMA DecideKept ==
  ASSUME NEW p, Procs = {p}, IndexInv, Decide(p)
  PROVE  IndexInv'
<1>1. p \in Procs /\ TypeInv /\ MarkInv /\ RunInv(p) /\ pc[p] = "decide"
  BY DEF IndexInv, Decide
<1>2. /\ seen[p] = mark /\ mark \in Marks \cup {NoMark}
      /\ buffer[p] \in Seq(Pieces) /\ size[p] \in Nat /\ stamp[p] \in Nat
      /\ stamp[p] <= mtime /\ (stamp[p] = mtime => buffer[p] = text)
  BY <1>1 DEF TypeInv, RunInv, StatInv, ReadInv, Parsing, Stated, Places
\* The hash is that of the row, and the row agrees with the stat.
<1>3. CASE SameHash(p) /\ Same(p, seen[p]) /\ Finish(p) /\ Reading
  <2>1. TypeInv'
    BY <1>1, <1>3 DEF TypeInv, Places, Rows, Finish, Leave, Go, Reading, fileVars, dbVars
  <2>2. MarkInv'
    BY <1>1, <1>3 DEF MarkInv, Honest, Reading, fileVars, dbVars
  <2>3. pc'[p] = "done"
    BY <1>1, <1>3 DEF TypeInv, Finish, Leave, Go
  <2>4. StatInv(p)' /\ ReadInv(p)' /\ DeriveInv(p)'
    BY <2>3 DEF StatInv, Stated, ReadInv, Appending, Parsing, DeriveInv, Deriving
  <2>5. calm[p] => exists /\ Unchanged
    BY <1>1, <1>2, <1>3
    DEF RunInv, CalmInv, Stated, Places, Unchanged, SameHash, Current, Same
  <2>6. CalmInv(p)'
    BY <1>3, <2>3, <2>5 DEF CalmInv, Stated, Unchanged, Current, Reading, fileVars, dbVars
  <2> QED BY <2>1, <2>2, <2>4, <2>6 DEF IndexInv, RunInv
\* The row is given the stat.
<1>4. CASE /\ SameHash(p) /\ mark' = Refreshed(p) /\ limited' = FALSE
           /\ Finish(p) /\ Writing(p)
           /\ UNCHANGED << session, ranges, leaves, card, destructive >>
  <2>1. mark # NoMark /\ mark \in Marks /\ Current(mark) /\ mark.hash = buffer[p]
    BY <1>2, <1>4 DEF SameHash, Current
  <2>2. mark' = [mark EXCEPT !.size = size[p], !.mtime = stamp[p]]
    BY <1>4, <2>1 DEF Refreshed
  <2>3. /\ mark' \in Marks /\ mark' # NoMark
        /\ mark'.size = size[p] /\ mark'.mtime = stamp[p] /\ mark'.hash = mark.hash
        /\ mark'.drift = mark.drift /\ mark'.leaves = mark.leaves /\ mark'.cards = mark.cards
    BY <1>2, <2>1, <2>2, NoMarkAssumption DEF Marks
  <2>4. calm' = [q \in Procs |-> q = p /\ calm[p]] /\ UNCHANGED fileVars
    BY <1>4 DEF Writing, Disturb
  <2>5. TypeInv'
    <3>1. FALSE \in BOOLEAN /\ "done" \in Places /\ {} \in Rows /\ 0 \in Nat /\ << >> \in Seq(Pieces)
      BY DEF Places, Rows
    <3>2. /\ pc' \in [Procs -> Places] /\ verify' \in [Procs -> BOOLEAN]
          /\ size' \in [Procs -> Nat] /\ stamp' \in [Procs -> Nat]
          /\ seen' \in [Procs -> Marks \cup {NoMark}] /\ got' \in [Procs -> Rows]
          /\ buffer' \in [Procs -> Seq(Pieces)] /\ prev' \in [Procs -> Marks \cup {NoMark}]
      BY <1>1, <1>4, <3>1 DEF TypeInv, Finish, Leave, Go
    <3> QED BY <1>1, <1>4, <2>3, <2>4, <3>1, <3>2 DEF TypeInv, fileVars
  <2>6. MarkInv'
    BY <1>1, <1>2, <1>4, <2>1, <2>3, <2>4 DEF MarkInv, Honest, fileVars
  <2>7. pc'[p] = "done" /\ calm'[p] = calm[p]
    BY <1>1, <1>4, <2>4 DEF TypeInv, Finish, Leave, Go
  <2>8. StatInv(p)' /\ ReadInv(p)' /\ DeriveInv(p)'
    BY <2>7 DEF StatInv, Stated, ReadInv, Appending, Parsing, DeriveInv, Deriving
  <2>9. calm[p] => exists /\ Unchanged'
    BY <1>1, <2>1, <2>3, <2>4
    DEF RunInv, CalmInv, Stated, Places, Unchanged, Current, fileVars
  <2>10. CalmInv(p)'
    BY <2>4, <2>7, <2>9 DEF CalmInv, Stated, fileVars
  <2> QED BY <2>5, <2>6, <2>8, <2>10 DEF IndexInv, RunInv
\* The text is to be parsed.
<1>5. CASE /\ prev' = [prev EXCEPT ![p] = mark] /\ Go(p, "upsert") /\ Reading
           /\ UNCHANGED << verify, size, stamp, seen, got, buffer >>
  <2>1. TypeInv'
    BY <1>1, <1>5 DEF TypeInv, Places, Go, Reading, fileVars, dbVars
  <2>2. MarkInv'
    BY <1>1, <1>5 DEF MarkInv, Honest, Reading, fileVars, dbVars
  <2>3. pc'[p] = "upsert" /\ prev'[p] = mark
    BY <1>1, <1>5 DEF TypeInv, Go
  <2>4. StatInv(p)' /\ ReadInv(p)' /\ DeriveInv(p)'
    BY <1>1, <1>2, <1>5, <2>3
    DEF RunInv, StatInv, Stated, Places, ReadInv, Appending, Parsing, DeriveInv, Deriving,
        Reading, fileVars, dbVars
  <2>5. CalmInv(p)'
    BY <1>1, <1>5, <2>3 DEF RunInv, CalmInv, Stated, Places, Reading, fileVars, dbVars
  <2> QED BY <2>1, <2>2, <2>4, <2>5 DEF IndexInv, RunInv
<1> QED BY <1>3, <1>4, <1>5 DEF Decide

LEMMA UpsertKept ==
  ASSUME NEW p, Procs = {p}, IndexInv, Upsert(p)
  PROVE  IndexInv'
<1> DEFINE b == buffer[p]
<1>1. p \in Procs /\ TypeInv /\ MarkInv /\ RunInv(p) /\ pc[p] = "upsert"
  BY DEF IndexInv, Upsert, Step
<1>2. /\ b \in Seq(Pieces) /\ size[p] \in Nat /\ stamp[p] \in Nat
      /\ stamp[p] <= mtime /\ (stamp[p] = mtime => b = text)
  BY <1>1 DEF TypeInv, RunInv, StatInv, ReadInv, Stated, Places
<1>3. /\ mark' \in Marks /\ mark' # NoMark
      /\ mark'.size = size[p] /\ mark'.mtime = stamp[p] /\ mark'.hash = b
      /\ mark'.drift = Drifts(b) /\ ~mark'.leaves /\ ~mark'.cards
  <2> DEFINE e == IF Monotonic(p) THEN prev[p].epoch ELSE b
             g == IF Monotonic(p) THEN prev[p].gen + 1 ELSE 0
  <2>1. mark' = [size |-> size[p], mtime |-> stamp[p], hash |-> b, epoch |-> e, gen |-> g,
                 drift |-> Drifts(b), leaves |-> FALSE, cards |-> FALSE]
    BY DEF Upsert, StampOf
  <2>2. Monotonic(p) => prev[p] \in Marks
    BY <1>1 DEF TypeInv, Monotonic
  <2>3. e \in Seq(Pieces) /\ g \in Nat
    BY <1>2, <2>2 DEF Marks
  <2>4. Drifts(b) \in BOOLEAN
    BY DEF Drifts
  <2> HIDE DEF e, g, b
  <2>5. mark' \in Marks
    BY <1>2, <2>1, <2>3, <2>4 DEF Marks
  <2> QED BY <2>1, <2>5, NoMarkAssumption
<1>4. session' = Parsed(b, 0) /\ ranges' = session' /\ Parsed(b, 0) \in Rows
  BY <1>2, ParsedFinite DEF Upsert, Rows
<1>5. /\ leaves' = {} /\ card' = {} /\ {} \in Rows /\ limited' = FALSE
      /\ destructive' \in Nat
  <2>1. \A n \in {0, 1} : destructive + n \in Nat
    BY <1>1 DEF TypeInv
  <2> QED BY <2>1 DEF Upsert, Rows
<1>6. /\ pc' = [pc EXCEPT ![p] = "ranges"] /\ UNCHANGED << fileVars, localVars >>
      /\ calm' = [q \in Procs |-> q = p /\ calm[p]]
  BY DEF Upsert, Step, Go, Writing, Disturb
<1> HIDE DEF b
<1>7. TypeInv'
  BY <1>1, <1>3, <1>4, <1>5, <1>6 DEF TypeInv, Places, fileVars, localVars
<1>8. MarkInv'
  BY <1>2, <1>3, <1>4, <1>6 DEF MarkInv, Honest, fileVars
<1>9. pc'[p] = "ranges" /\ calm'[p] = calm[p]
  BY <1>1, <1>6 DEF TypeInv
<1>10. StatInv(p)'
  BY <1>1, <1>6, <1>9 DEF RunInv, StatInv, Stated, Places, fileVars, localVars
<1>11. ReadInv(p)'
  BY <1>9 DEF ReadInv, Appending, Parsing
<1>12. DeriveInv(p)'
  BY <1>3, <1>6, <1>9 DEF DeriveInv, Same, localVars
<1>13. CalmInv(p)'
  BY <1>1, <1>6, <1>9 DEF RunInv, CalmInv, Stated, Places, fileVars, localVars
<1> QED BY <1>6, <1>7, <1>8, <1>10, <1>11, <1>12, <1>13 DEF IndexInv, RunInv

LEMMA ReadRangesKept ==
  ASSUME NEW p, Procs = {p}, IndexInv, ReadRanges(p)
  PROVE  IndexInv'
<1> USE DEF ReadRanges, Go, Reading, dbVars, fileVars
<1>0. p \in Procs /\ TypeInv /\ MarkInv /\ RunInv(p)
  BY DEF IndexInv
<1>1. TypeInv'
  BY <1>0 DEF TypeInv, Places
<1>2. MarkInv'
  BY <1>0 DEF MarkInv, Honest
<1>3. StatInv(p)'
  BY <1>0 DEF RunInv, StatInv, Stated, Places
<1>4. ReadInv(p)'
  BY <1>0 DEF ReadInv, Appending, Parsing
<1>5. DeriveInv(p)'
  BY <1>0 DEF TypeInv, RunInv, DeriveInv, Deriving, Same
<1>6. CalmInv(p)'
  BY <1>0 DEF RunInv, CalmInv, Stated, Places
<1> QED BY <1>1, <1>2, <1>3, <1>4, <1>5, <1>6 DEF IndexInv, RunInv

LEMMA WriteLeavesKept ==
  ASSUME NEW p, Procs = {p}, IndexInv, WriteLeaves(p)
  PROVE  IndexInv'
<1> USE DEF WriteLeaves, Step, Go, Writing, Disturb, localVars, fileVars
<1>0. p \in Procs /\ TypeInv /\ MarkInv /\ RunInv(p)
  BY DEF IndexInv
<1>1. TypeInv'
  BY <1>0 DEF TypeInv, Places
<1>2. MarkInv'
  BY <1>0 DEF RunInv, MarkInv, Honest, DeriveInv, Deriving
<1>3. StatInv(p)'
  BY <1>0 DEF RunInv, StatInv, Stated, Places
<1>4. ReadInv(p)'
  BY <1>0 DEF ReadInv, Appending, Parsing
<1>5. DeriveInv(p)'
  BY <1>0 DEF RunInv, DeriveInv, Deriving, Same
<1>6. CalmInv(p)'
  BY <1>0 DEF TypeInv, RunInv, CalmInv, Stated
<1> QED BY <1>1, <1>2, <1>3, <1>4, <1>5, <1>6 DEF IndexInv, RunInv

LEMMA MarkLeavesKept ==
  ASSUME NEW p, Procs = {p}, IndexInv, MarkLeaves(p)
  PROVE  IndexInv'
<1> USE DEF MarkLeaves, Step, Go, Writing, Disturb, localVars, fileVars
<1>0. p \in Procs /\ TypeInv /\ MarkInv /\ RunInv(p)
  BY DEF IndexInv
<1>1. TypeInv'
  BY <1>0 DEF TypeInv, Marks, Places
<1>2. MarkInv'
  BY <1>0 DEF RunInv, MarkInv, Honest, DeriveInv
<1>3. StatInv(p)'
  BY <1>0 DEF RunInv, StatInv, Stated, Places
<1>4. ReadInv(p)'
  BY <1>0 DEF ReadInv, Appending, Parsing
<1>9. mark # NoMark /\ mark \in Marks /\ mark' = [mark EXCEPT !.leaves = TRUE]
  BY <1>0 DEF TypeInv, RunInv, DeriveInv, Deriving
<1>10. /\ mark' \in Marks /\ mark'.size = mark.size /\ mark'.mtime = mark.mtime
       /\ mark'.cards = mark.cards /\ mark'.leaves
  BY <1>9 DEF Marks
<1>5. DeriveInv(p)'
  BY <1>0, <1>9, <1>10, NoMarkAssumption DEF TypeInv, RunInv, DeriveInv, Deriving, Same
<1>6. CalmInv(p)'
  BY <1>0 DEF TypeInv, RunInv, CalmInv, DeriveInv, Deriving, Stated
<1> QED BY <1>1, <1>2, <1>3, <1>4, <1>5, <1>6 DEF IndexInv, RunInv

LEMMA WriteCardKept ==
  ASSUME NEW p, Procs = {p}, IndexInv, WriteCard(p)
  PROVE  IndexInv'
<1> USE DEF WriteCard, Step, Go, Writing, Disturb, localVars, fileVars
<1>0. p \in Procs /\ TypeInv /\ MarkInv /\ RunInv(p)
  BY DEF IndexInv
<1>1. TypeInv'
  BY <1>0 DEF TypeInv, Places
<1>2. MarkInv'
  BY <1>0 DEF MarkInv, Honest
<1>3. StatInv(p)'
  BY <1>0 DEF RunInv, StatInv, Stated, Places
<1>4. ReadInv(p)'
  BY <1>0 DEF ReadInv, Appending, Parsing
<1>5. DeriveInv(p)'
  BY <1>0 DEF RunInv, DeriveInv, Deriving, Same
<1>6. CalmInv(p)'
  BY <1>0 DEF TypeInv, RunInv, CalmInv, Stated
<1> QED BY <1>1, <1>2, <1>3, <1>4, <1>5, <1>6 DEF IndexInv, RunInv

LEMMA MarkCardKept ==
  ASSUME NEW p, Procs = {p}, IndexInv, MarkCard(p)
  PROVE  IndexInv'
<1>1. p \in Procs /\ TypeInv /\ MarkInv /\ RunInv(p) /\ pc[p] = "cardMark"
  BY DEF IndexInv, MarkCard
<1>2. mark # NoMark /\ mark \in Marks /\ mark' = [mark EXCEPT !.cards = TRUE]
  BY <1>1 DEF TypeInv, RunInv, DeriveInv, Deriving, MarkCard
<1>3. /\ mark' \in Marks /\ mark' # NoMark
      /\ mark'.size = mark.size /\ mark'.mtime = mark.mtime /\ mark'.hash = mark.hash
      /\ mark'.drift = mark.drift /\ mark'.leaves = mark.leaves /\ mark'.cards
  BY <1>2, NoMarkAssumption DEF Marks
<1>4. /\ calm' = [q \in Procs |-> q = p /\ calm[p]]
      /\ UNCHANGED << fileVars, session, ranges, leaves, card, limited, destructive >>
  BY DEF MarkCard, Writing, Disturb
<1>5. TypeInv'
  BY <1>1, <1>3, <1>4 DEF TypeInv, Places, Rows, MarkCard, Finish, Leave, Go, fileVars
<1>6. MarkInv'
  BY <1>1, <1>2, <1>3, <1>4 DEF MarkInv, Honest, RunInv, DeriveInv, fileVars
<1>7. pc'[p] = "done" /\ calm'[p] = calm[p]
  BY <1>1, <1>4 DEF TypeInv, MarkCard, Finish, Leave, Go
<1>8. StatInv(p)' /\ ReadInv(p)' /\ DeriveInv(p)'
  BY <1>7 DEF StatInv, Stated, ReadInv, Appending, Parsing, DeriveInv, Deriving
<1>9. CalmInv(p)'
  <2> SUFFICES ASSUME calm[p]
               PROVE  exists /\ Unchanged'
    BY <1>4, <1>7 DEF CalmInv, Stated, fileVars
  <2>1. exists /\ stamp[p] = mtime /\ size[p] = Len(text) /\ mark.leaves
    BY <1>1 DEF RunInv, CalmInv, Stated, Places
  <2>2. mark.size = size[p] /\ mark.mtime = stamp[p]
    BY <1>1 DEF RunInv, DeriveInv, Deriving, Same
  <2> QED BY <1>3, <1>4, <2>1, <2>2 DEF Unchanged, Current, fileVars
<1> QED BY <1>5, <1>6, <1>8, <1>9 DEF IndexInv, RunInv

LEMMA LeavesFailKept ==
  ASSUME NEW p, Procs = {p}, IndexInv, LeavesFail(p)
  PROVE  IndexInv'
<1> USE DEF LeavesFail, Go, localVars, dbVars, fileVars
<1>0. p \in Procs /\ TypeInv /\ MarkInv /\ RunInv(p)
  BY DEF IndexInv
<1>1. TypeInv'
  BY <1>0 DEF TypeInv, Places
<1>2. MarkInv'
  BY <1>0 DEF MarkInv, Honest
<1>3. StatInv(p)'
  BY <1>0 DEF RunInv, StatInv, Stated, Places
<1>4. ReadInv(p)'
  BY <1>0 DEF ReadInv, Appending, Parsing
<1>5. DeriveInv(p)'
  BY <1>0 DEF RunInv, DeriveInv, Deriving, Same
<1>6. CalmInv(p)'
  BY <1>0 DEF TypeInv, CalmInv
<1> QED BY <1>1, <1>2, <1>3, <1>4, <1>5, <1>6 DEF IndexInv, RunInv

LEMMA AbandonKept ==
  ASSUME NEW p, Procs = {p}, IndexInv, Abandon(p)
  PROVE  IndexInv'
<1> USE DEF Abandon, Go, Leave, Reading, dbVars, fileVars
<1>0. p \in Procs /\ TypeInv /\ MarkInv /\ RunInv(p)
  BY DEF IndexInv
<1>1. TypeInv'
  BY <1>0 DEF TypeInv, Places, Rows
<1>2. MarkInv'
  BY <1>0 DEF MarkInv, Honest
<1>3. StatInv(p)'
  BY <1>0 DEF TypeInv, StatInv, Stated
<1>4. ReadInv(p)'
  BY <1>0 DEF TypeInv, ReadInv, Appending, Parsing
<1>5. DeriveInv(p)'
  BY <1>0 DEF TypeInv, DeriveInv, Deriving
<1>6. CalmInv(p)'
  BY <1>0 DEF TypeInv, RunInv, CalmInv, Stated
<1> QED BY <1>1, <1>2, <1>3, <1>4, <1>5, <1>6 DEF IndexInv, RunInv
\* Codex gives the file another text and mtime.
LEMMA ChangedKept ==
  ASSUME NEW p, Procs = {p}, IndexInv, NEW t \in Seq(Pieces), Changed(t)
  PROVE  IndexInv'
<1>1. p \in Procs /\ TypeInv /\ MarkInv /\ RunInv(p)
  BY DEF IndexInv
<1>2. /\ mtime' = mtime + 1 /\ exists' = TRUE /\ text' = t
      /\ calm' = [q \in Procs |-> FALSE]
      /\ UNCHANGED << dbVars, pc, localVars >>
  BY DEF Changed
<1>3. TypeInv'
  BY <1>1, <1>2 DEF TypeInv, dbVars, localVars
<1>4. MarkInv'
  BY <1>1, <1>2 DEF TypeInv, MarkInv, Honest, Marks, dbVars
<1>5. StatInv(p)'
  BY <1>1, <1>2 DEF TypeInv, RunInv, StatInv, localVars
<1>6. pc[p] \in Stated => stamp[p] # mtime'
  BY <1>1, <1>2 DEF TypeInv, RunInv, StatInv
<1>7. ReadInv(p)'
  BY <1>1, <1>2, <1>6
  DEF RunInv, ReadInv, Appending, Parsing, Stated, Places, MayAppend, Current,
      dbVars, localVars
<1>8. DeriveInv(p)'
  BY <1>1, <1>2 DEF RunInv, DeriveInv, Same, dbVars, localVars
<1>9. CalmInv(p)'
  BY <1>1, <1>2 DEF CalmInv
<1> QED BY <1>2, <1>3, <1>4, <1>5, <1>7, <1>8, <1>9 DEF IndexInv, RunInv

LEMMA RemoveKept ==
  ASSUME NEW p, Procs = {p}, IndexInv, Remove
  PROVE  IndexInv'
<1>1. p \in Procs /\ TypeInv /\ MarkInv /\ RunInv(p)
  BY DEF IndexInv
<1>2. /\ exists' = FALSE /\ calm' = [q \in Procs |-> FALSE]
      /\ UNCHANGED << text, mtime, dbVars, pc, localVars >>
  BY DEF Remove
<1>3. TypeInv'
  BY <1>1, <1>2 DEF TypeInv, dbVars, localVars
<1>4. MarkInv'
  BY <1>1, <1>2 DEF MarkInv, Honest, dbVars
<1>5. StatInv(p)' /\ ReadInv(p)' /\ DeriveInv(p)'
  BY <1>1, <1>2
  DEF RunInv, StatInv, ReadInv, DeriveInv, MayAppend, Current, Same, dbVars, localVars
<1>6. CalmInv(p)'
  BY <1>1, <1>2 DEF CalmInv
<1> QED BY <1>2, <1>3, <1>4, <1>5, <1>6 DEF IndexInv, RunInv

\* Whatever Codex writes is a text.
LEMMA CodexWritesTexts ==
  ASSUME TypeInv, AppendLine \/ AppendHalf \/ EndLine \/ Rewrite
  PROVE  \E t \in Seq(Pieces) : Changed(t)
<1>1. text \in Seq(Pieces) /\ Fresh \in Nat
  BY DEF TypeInv, Fresh
<1>2. LineText(Fresh) \in Pieces /\ LineEnd(Fresh) \in Pieces
  BY <1>1 DEF LineText, LineEnd, Pieces
<1>3. CASE AppendLine
  <2>1. text \o << LineText(Fresh), LineEnd(Fresh) >> \in Seq(Pieces)
    BY <1>1, <1>2
  <2> QED BY <1>3, <2>1 DEF AppendLine
<1>4. CASE AppendHalf
  <2>1. Append(text, LineText(Fresh)) \in Seq(Pieces)
    BY <1>1, <1>2
  <2> QED BY <1>4, <2>1 DEF AppendHalf
<1>5. CASE EndLine
  <2>1. Len(text) \in 1 .. Len(text)
    BY <1>1, <1>5 DEF EndLine
  <2>2. text[Len(text)] \in Pieces
    BY <1>1, <2>1
  <2>3. LineEnd(text[Len(text)].line) \in Pieces
    BY <2>2 DEF LineEnd, Pieces
  <2>4. Append(text, LineEnd(text[Len(text)].line)) \in Seq(Pieces)
    BY <1>1, <2>3
  <2> QED BY <1>5, <2>4 DEF EndLine
<1>6. CASE Rewrite
  <2>1. PICK rest \in {<< >>, text} :
          Changed(<< LineText(Fresh), LineEnd(Fresh) >> \o rest)
    BY <1>6 DEF Rewrite
  <2>2. rest \in Seq(Pieces)
    <3>1. << >> \in Seq(Pieces)
      OBVIOUS
    <3> QED BY <1>1, <2>1, <3>1
  <2>3. << LineText(Fresh), LineEnd(Fresh) >> \in Seq(Pieces)
    BY <1>2
  <2>4. << LineText(Fresh), LineEnd(Fresh) >> \o rest \in Seq(Pieces)
    BY <2>2, <2>3, ConcatProperties
  <2> QED BY <2>1, <2>4
<1> QED BY <1>3, <1>4, <1>5, <1>6

----------------------------------------------------------------------------
\* The database has one process.
OneProcess == \E p : Procs = {p}

LEMMA IndexInit ==
  ASSUME OneProcess, Init
  PROVE  IndexInv
<1>1. TypeInv
  <2>1. << >> \in Seq(Pieces) /\ {} \in Rows /\ "idle" \in Places
    BY DEF Rows, Places
  <2> QED BY <2>1 DEF Init, TypeInv
<1>2. MarkInv
  BY DEF Init, MarkInv
<1>3. ASSUME NEW p \in Procs
      PROVE  RunInv(p)
  BY <1>3
  DEF Init, RunInv, StatInv, Stated, ReadInv, Appending, Parsing, DeriveInv, Deriving,
      CalmInv
<1> QED BY <1>1, <1>2, <1>3 DEF IndexInv

LEMMA IndexKept ==
  ASSUME NEW p, Procs = {p}, IndexInv, [Next]_vars
  PROVE  IndexInv'
<1>1. CASE UNCHANGED vars
  BY <1>1
  DEF IndexInv, TypeInv, MarkInv, Honest, RunInv, StatInv, ReadInv, DeriveInv, CalmInv,
      MayAppend, Same, Unchanged, Current, vars, fileVars, dbVars, localVars
<1>2. CASE Begin(p) \/ Prune(p) \/ Stat(p) \/ Limit(p) \/ LimitRow(p) \/ ReadMark(p)
  BY <1>2, BeginKept, PruneKept, StatKept, LimitKept, LimitRowKept, ReadMarkKept
<1>3. CASE ReadSeed(p) \/ ReadPrefix(p) \/ ReadTail(p) \/ CheckRows(p) \/ AppendDelta(p)
  BY <1>3, ReadSeedKept, ReadPrefixKept, ReadTailKept, CheckRowsKept, AppendDeltaKept
<1>4. CASE ReadText(p) \/ Decide(p) \/ Upsert(p)
  BY <1>4, ReadTextKept, DecideKept, UpsertKept
<1>5. CASE \/ ReadRanges(p) \/ WriteLeaves(p) \/ MarkLeaves(p) \/ WriteCard(p)
           \/ MarkCard(p) \/ LeavesFail(p) \/ Abandon(p)
  BY <1>5, ReadRangesKept, WriteLeavesKept, MarkLeavesKept, WriteCardKept, MarkCardKept,
     LeavesFailKept, AbandonKept
<1>6. CASE AppendLine \/ AppendHalf \/ EndLine \/ Rewrite
  BY <1>6, CodexWritesTexts, ChangedKept DEF IndexInv
<1>7. CASE Remove
  BY <1>7, RemoveKept
<1> QED BY <1>1, <1>2, <1>3, <1>4, <1>5, <1>6, <1>7 DEF Next

(***************************************************************************)
(* The rows of a file that one process indexes are those of one text, the  *)
(* one its watermark has the hash of, and a watermark that agrees with the *)
(* file has the hash of its text.                                          *)
(***************************************************************************)
THEOREM IndexInvariant ==
  ASSUME OneProcess
  PROVE  Spec => []IndexInv
<1>1. Init => IndexInv
  BY IndexInit
<1>2. IndexInv /\ [Next]_vars => IndexInv'
  BY IndexKept DEF OneProcess
<1> QED BY <1>1, <1>2, PTL DEF Spec

(***************************************************************************)
(* However the file changes between the stat of a run and its reading of   *)
(* the text, the watermark it leaves agrees with the file only if it bears *)
(* the hash of the text.                                                   *)
(***************************************************************************)
THEOREM WatermarksAreHonest ==
  ASSUME OneProcess
  PROVE  Spec => []WatermarkIsHonest
<1>1. IndexInv => WatermarkIsHonest
  BY DEF IndexInv, MarkInv, Honest, WatermarkIsHonest
<1> QED BY <1>1, IndexInvariant, PTL

(***************************************************************************)
(* What a run skips as unchanged is what a full parse of the file would    *)
(* give, the session, its ranges, its leaves and its card.                 *)
(***************************************************************************)
THEOREM SkipsAreSound ==
  ASSUME OneProcess
  PROVE  Spec => []SkipIsSound
<1>1. IndexInv => SkipIsSound
  BY DEF IndexInv, MarkInv, Honest, SkipIsSound, Unchanged, Current, Derived
<1> QED BY <1>1, IndexInvariant, PTL

(***************************************************************************)
(* A run that nothing disturbed leaves the file indexed, or over a cap and *)
(* not indexed at all.                                                     *)
(***************************************************************************)
THEOREM RunsCatchUp ==
  ASSUME OneProcess
  PROVE  Spec => []CatchesUp
<1>1. IndexInv => CatchesUp
  BY DEF IndexInv, RunInv, CalmInv, CatchesUp
<1> QED BY <1>1, IndexInvariant, PTL

----------------------------------------------------------------------------
\* An upsert that is no destructive one has every row there was.
LEMMA UpsertAdds ==
  ASSUME NEW p, Procs = {p}, IndexInv, Upsert(p), mark # NoMark, destructive' = destructive
  PROVE  ranges \subseteq ranges'
<1>1. p \in Procs /\ TypeInv /\ MarkInv /\ RunInv(p) /\ pc[p] = "upsert"
  BY DEF IndexInv, Upsert, Step
<1>2. /\ seen[p] = mark /\ prev[p] = mark /\ mark \in Marks
      /\ buffer[p] \in Seq(Pieces) /\ mark.hash \in Seq(Pieces) /\ mark.size \in Nat
  BY <1>1 DEF TypeInv, RunInv, ReadInv, Parsing, Marks
<1>3. ranges = Parsed(mark.hash, 0) /\ ranges' = Parsed(buffer[p], 0)
  BY <1>1 DEF MarkInv, Upsert
<1>4. mark.hash = buffer[p] \/ Monotonic(p)
  BY <1>1, <1>2 DEF Upsert, TypeInv
<1>5. CASE Monotonic(p)
  <2> DEFINE b == buffer[p]
             h == mark.hash
  <2>1. mark.size > 0 /\ Len(b) > mark.size /\ SubSeq(b, 1, mark.size) = h
    BY <1>2, <1>5 DEF Monotonic, Extends
  <2>2. \A i \in 1 .. mark.size : b[i] \in Pieces
    BY <1>2, <2>1
  <2>3. Len(h) = mark.size /\ \A i \in 1 .. mark.size : h[i] = b[i]
    <3>1. /\ Len(SubSeq(b, 1, mark.size)) = mark.size
          /\ \A i \in 1 .. mark.size : SubSeq(b, 1, mark.size)[i] = b[i]
      BY <1>2, <2>1
    <3> QED BY <2>1, <3>1
  <2> QED BY <1>2, <1>3, <2>1, <2>3, ParsedOfPrefix
<1> QED BY <1>3, <1>4, <1>5

(***************************************************************************)
(* While the epoch of a file and the destructive generation stand, rows    *)
(* are added and none goes.                                                *)
(***************************************************************************)
THEOREM EpochsOnlyGrow ==
  ASSUME OneProcess
  PROVE  Spec => EpochOnlyGrows
<1>1. PICK p : Procs = {p}
  BY DEF OneProcess
<1>2. ASSUME IndexInv, IndexInv', [Next]_vars, mark # NoMark, destructive' = destructive
      PROVE  mark' # NoMark /\ ranges \subseteq ranges'
  <2>1. TypeInv /\ TypeInv' /\ MarkInv /\ mark \in Marks
    BY <1>2 DEF IndexInv, TypeInv
  <2>2. CASE UNCHANGED << mark, ranges >>
    BY <1>2, <2>2
  <2>3. CASE ClearIndex
    BY <1>2, <2>1, <2>3 DEF TypeInv, ClearIndex
  <2>4. CASE AppendDelta(p)
    <3>1. pc'[p] = "ranges"
      BY <1>1, <2>1, <2>4 DEF AppendDelta, Step, Go, TypeInv
    <3>2. mark' # NoMark
      BY <1>1, <1>2, <3>1 DEF IndexInv, RunInv, DeriveInv, Deriving
    <3> QED BY <2>4, <3>2 DEF AppendDelta
  <2>5. CASE Upsert(p)
    <3>1. pc'[p] = "ranges"
      BY <1>1, <2>1, <2>5 DEF Upsert, Step, Go, TypeInv
    <3>2. mark' # NoMark
      BY <1>1, <1>2, <3>1 DEF IndexInv, RunInv, DeriveInv, Deriving
    <3> QED BY <1>1, <1>2, <2>5, <3>2, UpsertAdds
  <2>6. CASE Decide(p)
    <3>1. mark' = mark \/ mark' = [mark EXCEPT !.size = size[p], !.mtime = stamp[p]]
      BY <1>2, <2>6 DEF Decide, Refreshed, Reading, dbVars
    <3>2. p \in Procs /\ size[p] \in Nat /\ stamp[p] \in Nat
      BY <1>1, <2>1 DEF TypeInv
    <3>3. mark' # NoMark
      BY <1>2, <2>1, <3>1, <3>2, NoMarkAssumption DEF Marks
    <3> QED BY <2>6, <3>3 DEF Decide, Reading, dbVars
  <2>7. CASE MarkLeaves(p) \/ MarkCard(p)
    <3>1. \/ mark' = [mark EXCEPT !.leaves = TRUE]
          \/ mark' = [mark EXCEPT !.cards = TRUE]
      BY <1>2, <2>7 DEF MarkLeaves, MarkCard
    <3>2. mark' # NoMark
      BY <2>1, <3>1, NoMarkAssumption DEF Marks
    <3> QED BY <2>7, <3>2 DEF MarkLeaves, MarkCard
  <2>8. \/ UNCHANGED << mark, ranges >> \/ ClearIndex \/ AppendDelta(p) \/ Upsert(p)
        \/ Decide(p) \/ MarkLeaves(p) \/ MarkCard(p)
    BY <1>1, <1>2
    DEF Next, vars, dbVars, Reading, Begin, Prune, Stat, Limit, LimitRow, ReadMark, ReadSeed,
        ReadPrefix, ReadTail, CheckRows, FallBack, ReadText, ReadRanges, WriteLeaves,
        WriteCard, LeavesFail, Abandon, AppendLine, AppendHalf, EndLine, Rewrite, Changed,
        Remove
  <2> QED BY <2>2, <2>3, <2>4, <2>5, <2>6, <2>7, <2>8
<1>3. IndexInv /\ IndexInv' /\ [Next]_vars =>
        [(/\ mark # NoMark /\ destructive' = destructive
          /\ (mark' = NoMark \/ mark'.epoch = mark.epoch))
         => mark' # NoMark /\ ranges \subseteq ranges']_vars
  BY <1>2
<1> QED BY <1>3, IndexInvariant, PTL DEF Spec, EpochOnlyGrows
=============================================================================
