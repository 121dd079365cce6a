-------------------------- MODULE MarketData_proofs -------------------------
(***************************************************************************)
(* The market-data pipeline, for every list of timeframes, every length of *)
(* a minute and of a gap, and every feed: the types and the derived bar in *)
(* progress for late trades too, what reaches the bus for trades in order. *)
(***************************************************************************)
EXTENDS MarketData, SequenceTheorems, WellFoundedInduction, TLAPS

-----------------------------------------------------------------------------
(* FlattenSeq(s) is the last of the sequences that a recursive function    *)
(* builds, one part of s after the other.  A fact about all of them is     *)
(* proved by the shortest of them it does not hold of.                     *)

\* f appends the first n parts of s, one after the other.
Flattens(f, s, n) ==
    f = [i \in 1..n |-> IF i = 1 THEN s[i] ELSE f[i - 1] \o s[i]]

\* A set of natural numbers that is not empty has a smallest one.
LEMMA Smallest ==
    ASSUME NEW C \in SUBSET Nat, C # {}
    PROVE  \E n \in C : \A k \in C : n <= k
<1>1. PICK n \in C : \A k \in C : ~(<<k, n>> \in OpToRel(<, Nat))
  BY NatLessThanWellFounded, WFMin
<1>2. ASSUME NEW k \in C PROVE ~(k < n)
  BY <1>1 DEF OpToRel
<1>3. \A k \in C : n <= k
  BY <1>2
<1>. QED
  BY <1>3

\* Two such functions agree as far as both go.
LEMMA FlattensAgree ==
    ASSUME NEW s, NEW m \in Nat, NEW n \in Nat, NEW f, NEW g,
           Flattens(f, s, m), Flattens(g, s, n),
           NEW k \in 1..m, k <= n
    PROVE  f[k] = g[k]
<1>. DEFINE C == {i \in 1..m : i <= n /\ f[i] # g[i]}
<1>. SUFFICES ASSUME C # {} PROVE FALSE
  OBVIOUS
<1>1. C \in SUBSET Nat
  OBVIOUS
<1>. HIDE DEF C
<1>2. PICK i \in C : \A j \in C : i <= j
  BY <1>1, Smallest
<1>. USE DEF C
<1>3. i \in 1..m /\ i \in 1..n /\ f[i] # g[i]
  OBVIOUS
<1>4. f[i] = IF i = 1 THEN s[i] ELSE f[i - 1] \o s[i]
  BY <1>3 DEF Flattens
<1>5. g[i] = IF i = 1 THEN s[i] ELSE g[i - 1] \o s[i]
  BY <1>3 DEF Flattens
<1>6. i # 1
  BY <1>3, <1>4, <1>5
<1>7. i - 1 \in 1..m /\ i - 1 <= n /\ ~(i <= i - 1)
  BY <1>3, <1>6
<1>8. f[i - 1] = g[i - 1]
  BY <1>2, <1>7
<1>. QED
  BY <1>3, <1>4, <1>5, <1>8

\* There is such a function for every number of parts.
LEMMA FlattensExists ==
    ASSUME NEW s, NEW n \in Nat
    PROVE  \E f : Flattens(f, s, n)
<1>. DEFINE C == {k \in Nat : ~(\E f : Flattens(f, s, k))}
<1>. SUFFICES ASSUME C # {} PROVE FALSE
  OBVIOUS
<1>1. C \in SUBSET Nat
  OBVIOUS
<1>. HIDE DEF C
<1>2. PICK k \in C : \A j \in C : k <= j
  BY <1>1, Smallest
<1>. USE DEF C
<1>3. k \in Nat /\ ~(\E f : Flattens(f, s, k))
  OBVIOUS
<1>4. k # 0
  <2>1. Flattens([i \in 1..0 |-> <<>>], s, 0)
    BY DEF Flattens
  <2>. QED
    BY <2>1, <1>3
<1>5. k - 1 \in Nat /\ ~(k <= k - 1)
  BY <1>3, <1>4
<1>6. PICK f : Flattens(f, s, k - 1)
  BY <1>2, <1>5
<1>. DEFINE g == [i \in 1..k |-> IF i < k THEN f[i]
                                 ELSE IF k = 1 THEN s[k] ELSE f[k - 1] \o s[k]]
<1>7. ASSUME NEW i \in 1..k
      PROVE  g[i] = IF i = 1 THEN s[i] ELSE g[i - 1] \o s[i]
  <2>1. CASE i < k
    <3>1. i \in 1..(k - 1)
      BY <2>1, <1>3
    <3>2. f[i] = IF i = 1 THEN s[i] ELSE f[i - 1] \o s[i]
      BY <3>1, <1>6 DEF Flattens
    <3>3. i # 1 => i - 1 \in 1..k /\ i - 1 < k
      BY <2>1, <1>3
    <3>. QED
      BY <3>2, <3>3, <2>1
  <2>2. CASE ~(i < k)
    <3>1. i = k
      BY <2>2, <1>3
    <3>2. k # 1 => k - 1 \in 1..k /\ k - 1 < k
      BY <1>3, <1>4
    <3>. QED
      BY <3>1, <3>2, <1>3
  <2>. QED
    BY <2>1, <2>2
<1>8. g = [i \in 1..k |-> IF i = 1 THEN s[i] ELSE g[i - 1] \o s[i]]
  <2>. DEFINE h == [i \in 1..k |-> IF i = 1 THEN s[i] ELSE g[i - 1] \o s[i]]
  <2>1. \A i \in 1..k : g[i] = h[i]
    BY <1>7
  <2>. HIDE DEF h
  <2>2. DOMAIN g = 1..k /\ g = [i \in DOMAIN g |-> g[i]]
    OBVIOUS
  <2>3. DOMAIN h = 1..k /\ h = [i \in DOMAIN h |-> h[i]]
    BY DEF h
  <2>. HIDE DEF g
  <2>4. g = h
    BY <2>1, <2>2, <2>3
  <2>. QED
    BY <2>4 DEF h
<1>. HIDE DEF g
<1>9. Flattens(g, s, k)
  BY <1>8 DEF Flattens
<1>. QED
  BY <1>3, <1>9

\* FlattenSeq is the last value of such a function.
LEMMA FlattenSeqIs ==
    ASSUME NEW s, Len(s) \in Nat, Len(s) # 0
    PROVE  \E f : Flattens(f, s, Len(s)) /\ FlattenSeq(s) = f[Len(s)]
<1>. DEFINE f == CHOOSE h : h = [i \in 1..Len(s) |->
                                    IF i = 1 THEN s[i] ELSE h[i - 1] \o s[i]]
<1>1. PICK g : Flattens(g, s, Len(s))
  BY FlattensExists
<1>2. Flattens(f, s, Len(s))
  BY <1>1 DEF Flattens
<1>3. FlattenSeq(s) = f[Len(s)]
  BY DEF FlattenSeq
<1>. QED
  BY <1>2, <1>3

\* The flattening of sequences of elements of T is a sequence of elements of T.
LEMMA FlattenType ==
    ASSUME NEW T, NEW s \in Seq(Seq(T))
    PROVE  FlattenSeq(s) \in Seq(T)
<1>1. CASE Len(s) = 0
  <2>1. s = <<>>
    BY <1>1
  <2>2. FlattenSeq(s) = s
    BY <1>1 DEF FlattenSeq
  <2>. QED
    BY <2>1, <2>2, EmptySeq
<1>2. CASE Len(s) # 0
  <2>1. PICK f : Flattens(f, s, Len(s)) /\ FlattenSeq(s) = f[Len(s)]
    BY <1>2, FlattenSeqIs
  <2>. DEFINE C == {k \in 1..Len(s) : f[k] \notin Seq(T)}
  <2>. SUFFICES ASSUME C # {} PROVE FALSE
    <3>1. Len(s) \in 1..Len(s)
      BY <1>2
    <3>. QED
      BY <3>1, <2>1
  <2>2. C \in SUBSET Nat
    OBVIOUS
  <2>. HIDE DEF C
  <2>3. PICK k \in C : \A j \in C : k <= j
    BY <2>2, Smallest
  <2>. USE DEF C
  <2>4. k \in 1..Len(s) /\ f[k] \notin Seq(T)
    OBVIOUS
  <2>5. f[k] = IF k = 1 THEN s[k] ELSE f[k - 1] \o s[k]
    BY <2>1, <2>4 DEF Flattens
  <2>6. s[k] \in Seq(T)
    BY <2>4
  <2>7. k # 1 => k - 1 \in 1..Len(s) /\ ~(k <= k - 1)
    BY <2>4
  <2>8. k # 1 => f[k - 1] \in Seq(T)
    BY <2>3, <2>7
  <2>. HIDE DEF C
  <2>. QED
    BY <2>4, <2>5, <2>6, <2>8, ConcatProperties
<1>. QED
  BY <1>1, <1>2

\* Sequences of at most one element.
Singles(T) == {<<>>} \cup {<<x>> : x \in T}

\* r has the elements of the first k parts of s, in the order of the parts.
Collects(r, s, k) ==
    /\ \A j \in 1..Len(r) : \E i \in 1..k : s[i] # <<>> /\ r[j] = s[i][1]
    /\ \A i \in 1..k : s[i] # <<>> => \E j \in 1..Len(r) : r[j] = s[i][1]
    /\ \A j1, j2 \in 1..Len(r) : j1 < j2 =>
          \E i1, i2 \in 1..k :
              /\ i1 < i2 /\ s[i1] # <<>> /\ s[i2] # <<>>
              /\ r[j1] = s[i1][1] /\ r[j2] = s[i2][1]

\* One more part of at most one element.
LEMMA CollectsNext ==
    ASSUME NEW T, NEW n \in Nat, NEW s \in [1..n -> Singles(T)],
           NEW k \in 0..(n - 1), NEW r \in Seq(T), Collects(r, s, k)
    PROVE  Collects(r \o s[k + 1], s, k + 1)
<1>. DEFINE p == s[k + 1]
            q == r \o p
<1>1. k + 1 \in 1..n
  OBVIOUS
<1>2. p = <<>> \/ \E x \in T : p = <<x>>
  BY <1>1 DEF Singles
<1>. HIDE DEF p
<1>. SUFFICES Collects(q, s, k + 1)
  BY DEF p
<1>3. CASE p = <<>>
  <2>1. q = r
    BY <1>3, ConcatEmptySeq
  <2>a. s[k + 1] = <<>>
    BY <1>3 DEF p
  <2>2. \A i \in 1..(k + 1) : s[i] # <<>> => i \in 1..k
    BY <2>a
  <2>3. 1..k \subseteq 1..(k + 1)
    OBVIOUS
  <2>. HIDE DEF q
  <2>. QED
    BY <2>1, <2>2, <2>3 DEF Collects
<1>4. ASSUME NEW x \in T, p = <<x>> PROVE Collects(q, s, k + 1)
  <2>0. s[k + 1] # <<>>
    BY <1>4, EmptySeq DEF p
  <2>a. p \in Seq(T) /\ Len(p) = 1
    BY <1>4
  <2>b. q \in Seq(T) /\ Len(q) = Len(r) + Len(p)
    BY <2>a, ConcatProperties
  <2>1. q \in Seq(T) /\ Len(q) = Len(r) + 1
    BY <2>a, <2>b
  <2>2. \A j \in 1..Len(r) : q[j] = r[j]
    BY <2>a, ConcatProperties
  <2>3. q[Len(r) + 1] = s[k + 1][1]
    BY <2>a, ConcatProperties DEF p
  <2>4. \A j \in 1..Len(q) : j \in 1..Len(r) \/ j = Len(r) + 1
    BY <2>1
  <2>5. Len(r) + 1 \in 1..Len(q) /\ 1..Len(r) \subseteq 1..Len(q)
    BY <2>1
  <2>6. k + 1 \in 1..(k + 1) /\ 1..k \subseteq 1..(k + 1)
    OBVIOUS
  <2>7. \A i \in 1..(k + 1) : i \in 1..k \/ i = k + 1
    OBVIOUS
  <2>. HIDE DEF q
  <2>8. ASSUME NEW j \in 1..Len(q)
        PROVE  \E i \in 1..(k + 1) : s[i] # <<>> /\ q[j] = s[i][1]
    BY <2>0, <2>1, <2>2, <2>3, <2>4, <2>6 DEF Collects
  <2>9. ASSUME NEW i \in 1..(k + 1), s[i] # <<>>
        PROVE  \E j \in 1..Len(q) : q[j] = s[i][1]
    <3>1. CASE i \in 1..k
      BY <2>9, <3>1, <2>2, <2>5 DEF Collects
    <3>2. CASE i = k + 1
      BY <3>2, <2>3, <2>5
    <3>. QED
      BY <3>1, <3>2, <2>7
  <2>10. ASSUME NEW j1 \in 1..Len(q), NEW j2 \in 1..Len(q), j1 < j2
         PROVE  \E i1, i2 \in 1..(k + 1) :
                   /\ i1 < i2 /\ s[i1] # <<>> /\ s[i2] # <<>>
                   /\ q[j1] = s[i1][1] /\ q[j2] = s[i2][1]
    <3>1. j1 \in 1..Len(r)
      BY <2>1, <2>10
    <3>2. CASE j2 \in 1..Len(r)
      <4>1. PICK i1 \in 1..k, i2 \in 1..k :
               /\ i1 < i2 /\ s[i1] # <<>> /\ s[i2] # <<>>
               /\ r[j1] = s[i1][1] /\ r[j2] = s[i2][1]
        BY <3>1, <3>2, <2>10 DEF Collects
      <4>. QED
        BY <4>1, <3>1, <3>2, <2>2, <2>6
    <3>3. CASE j2 = Len(r) + 1
      <4>1. PICK i1 \in 1..k : s[i1] # <<>> /\ r[j1] = s[i1][1]
        BY <3>1 DEF Collects
      <4>2. i1 < k + 1
        OBVIOUS
      <4>. QED
        BY <4>1, <4>2, <3>1, <3>3, <2>0, <2>1, <2>2, <2>3, <2>6
    <3>. QED
      BY <3>2, <3>3, <2>4
  <2>. QED
    BY <2>8, <2>9, <2>10 DEF Collects
<1>. QED
  BY <1>2, <1>3, <1>4

\* The flattening of parts of at most one element has the elements of all the parts,
\* in the order of the parts.
LEMMA FlattenSingles ==
    ASSUME NEW T, NEW n \in Nat, NEW s \in [1..n -> Singles(T)]
    PROVE  FlattenSeq(s) \in Seq(T) /\ Collects(FlattenSeq(s), s, n)
<1>0. ASSUME NEW p \in Singles(T) PROVE p \in Seq(T)
  <2>1. CASE p = <<>>
    BY <2>1, EmptySeq
  <2>2. ASSUME NEW x \in T, p = <<x>> PROVE p \in Seq(T)
    BY <2>2
  <2>. QED
    BY <2>1, <2>2 DEF Singles
<1>1. s \in Seq(Singles(T)) /\ Len(s) = n
  OBVIOUS
<1>2. s \in Seq(Seq(T))
  <2>1. s \in [1..n -> Seq(T)]
    BY <1>0
  <2>. QED
    BY <2>1
<1>3. Collects(<<>>, s, 0)
  BY DEF Collects
<1>4. CASE n = 0
  <2>1. s = <<>>
    BY <1>1, <1>4
  <2>2. FlattenSeq(s) = s
    BY <1>1, <1>4 DEF FlattenSeq
  <2>. QED
    BY <1>2, <1>3, <1>4, <2>1, <2>2, FlattenType
<1>5. CASE n # 0
  <2>1. PICK f : Flattens(f, s, n) /\ FlattenSeq(s) = f[n]
    BY <1>1, <1>5, FlattenSeqIs
  <2>. DEFINE Good(k) == f[k] \in Seq(T) /\ Collects(f[k], s, k)
              C == {k \in 1..n : ~Good(k)}
  <2>. SUFFICES ASSUME C # {} PROVE FALSE
    BY <1>5, <2>1
  <2>2. C \in SUBSET Nat
    OBVIOUS
  <2>. HIDE DEF C
  <2>3. PICK k \in C : \A j \in C : k <= j
    BY <2>2, Smallest
  <2>4. k \in 1..n /\ ~Good(k)
    BY DEF C
  <2>5. f[k] = IF k = 1 THEN s[k] ELSE f[k - 1] \o s[k]
    BY <2>1, <2>4 DEF Flattens
  <2>6. s[k] \in Seq(T)
    BY <2>4, <1>0
  <2>7. CASE k = 1
    <3>1. f[k] = <<>> \o s[0 + 1]
      BY <2>5, <2>6, <2>7, ConcatEmptySeq
    <3>2. 0 \in 0..(n - 1) /\ <<>> \in Seq(T)
      BY <2>4
    <3>3. Collects(<<>> \o s[0 + 1], s, 0 + 1)
      BY <3>2, <1>3, CollectsNext
    <3>4. Collects(f[k], s, k)
      BY <3>1, <3>3, <2>7
    <3>. QED
      BY <3>4, <2>4, <2>5, <2>6, <2>7
  <2>8. CASE k # 1
    <3>1. k - 1 \in 1..n /\ ~(k <= k - 1) /\ k - 1 \in 0..(n - 1) /\ (k - 1) + 1 = k
      BY <2>4, <2>8
    <3>2. Good(k - 1)
      BY <2>3, <3>1 DEF C
    <3>3. f[k - 1] \in Seq(T) /\ Collects(f[k - 1], s, k - 1)
      BY <3>2
    <3>4. Collects(f[k - 1] \o s[(k - 1) + 1], s, (k - 1) + 1)
      BY <3>1, <3>3, CollectsNext
    <3>5. Collects(f[k], s, k)
      BY <3>4, <3>1, <2>5, <2>8
    <3>6. f[k] \in Seq(T)
      BY <3>3, <2>5, <2>6, <2>8, ConcatProperties
    <3>. QED
      BY <3>5, <3>6, <2>4
  <2>. QED
    BY <2>7, <2>8
<1>. QED
  BY <1>4, <1>5

-----------------------------------------------------------------------------
(* Minutes and windows.                                                    *)

\* The minute of a time is one of the minutes, and time does not run back.
LEMMA MinuteFacts ==
    ASSUME NEW s \in 0..MaxTime, NEW t \in 0..MaxTime
    PROVE  Minute(t) \in Minutes /\ (s <= t => Minute(s) <= Minute(t))
<1>. DEFINE k == MinuteLength
<1>1. k \in Nat \ {0} /\ MaxTime \in Nat
  BY MarketDataAssumption
<1>. HIDE DEF k
<1>2. t \div k \in Nat /\ s \div k \in Nat
  BY <1>1
<1>3. t \div k <= MaxTime \div k
  BY <1>1
<1>4. s <= t => s \div k <= t \div k
  BY <1>1
<1>5. MaxTime \div k \in Nat
  BY <1>1
<1>. QED
  BY <1>2, <1>3, <1>4, <1>5 DEF Minute, Minutes, k

\* Minutes are natural numbers, an interval that starts at 0.
LEMMA MinutesAreNaturals ==
    /\ Minutes \subseteq Nat
    /\ \A m \in Minutes, n \in Nat : n <= m => n \in Minutes
<1>1. MaxTime \div MinuteLength \in Nat
  BY MarketDataAssumption
<1>. QED
  BY <1>1 DEF Minutes

\* The window of a minute starts at or before it, ends after it, and starts where
\* the windows of its timeframe do; windows do not run back.
LEMMA WindowFacts ==
    ASSUME NEW tf \in Timeframes, NEW m \in Minutes
    PROVE  /\ Window(tf, m) \in Minutes
           /\ Window(tf, m) <= m /\ m < Window(tf, m) + Multiplier[tf]
           /\ Window(tf, m) % Multiplier[tf] = 0
           /\ \A n \in Minutes : n <= m => Window(tf, n) <= Window(tf, m)
<1>. DEFINE k == Multiplier[tf]
<1>1. k \in Nat \ {0}
  BY MarketDataAssumption
<1>2. m \in Nat
  BY MinutesAreNaturals
<1>. HIDE DEF k
<1>3. (m \div k) * k <= m /\ m < (m \div k) * k + k
  BY <1>1, <1>2
<1>4. m \div k \in Nat
  BY <1>1, <1>2
<1>5. (m \div k) * k \in Nat
  BY <1>1, <1>4
<1>6. ((m \div k) * k) % k = 0
  BY <1>1, <1>2
<1>7. ASSUME NEW n \in Minutes, n <= m PROVE (n \div k) * k <= (m \div k) * k
  <2>1. n \in Nat
    BY MinutesAreNaturals
  <2>. QED
    BY <2>1, <1>1, <1>2, <1>7
<1>8. (m \div k) * k \in Minutes
  BY <1>2, <1>3, <1>5, MinutesAreNaturals
<1>. QED
  BY <1>3, <1>6, <1>7, <1>8 DEF Window, k

\* What leaves no remainder is a multiple.
LEMMA IsMultiple ==
    ASSUME NEW k \in Nat \ {0}, NEW a \in Nat, a % k = 0
    PROVE  \E p \in Nat : a = p * k
OBVIOUS

\* Of two windows of a timeframe the one ends before the other starts.
LEMMA WindowsApart ==
    ASSUME NEW tf \in Timeframes, NEW a \in Nat, NEW b \in Nat,
           a % Multiplier[tf] = 0, b % Multiplier[tf] = 0, a < b
    PROVE  a + Multiplier[tf] <= b
<1>. DEFINE k == Multiplier[tf]
<1>1. k \in Nat \ {0} /\ a % k = 0 /\ b % k = 0
  BY MarketDataAssumption
<1>. HIDE DEF k
<1>2. PICK p \in Nat : a = p * k
  BY <1>1, IsMultiple
<1>3. PICK q \in Nat : b = q * k
  BY <1>1, IsMultiple
<1>4. p < q
  BY <1>1, <1>2, <1>3
<1>5. p + 1 <= q
  BY <1>4
<1>6. (p + 1) * k <= q * k
  BY <1>1, <1>5
<1>7. (p + 1) * k = p * k + k
  BY <1>1
<1>. QED
  BY <1>1, <1>2, <1>3, <1>6, <1>7 DEF k

-----------------------------------------------------------------------------
(* The engine.                                                             *)

\* The stored minutes, and the windows the engine computes from them.
BaseType == [Minutes -> Seq(Seqs)]

\* An aggregate of stored minutes is a bar.
LEMMA AggregateType ==
    ASSUME NEW tf \in Timeframes, NEW start \in Minutes, NEW base \in BaseType
    PROVE  /\ ComputeAggregatedBar(tf, start, base) \in Bars
           /\ ComputeAggregatedBar(tf, start, base).start = start
<1>. DEFINE bars == InWindow(tf, start, base)
<1>1. Multiplier[tf] \in Nat
  BY MarketDataAssumption
<1>2. \A m \in Minutes : base[m] \in Seq(Seqs)
  BY DEF BaseType
<1>3. <<>> \in Seq(Seqs)
  BY EmptySeq
<1>4. bars \in [1..Multiplier[tf] -> Seq(Seqs)]
  BY <1>2, <1>3 DEF InWindow
<1>5. bars \in Seq(Seq(Seqs))
  BY <1>1, <1>4
<1>. HIDE DEF bars
<1>6. FlattenSeq(bars) \in Seq(Seqs)
  BY <1>5, FlattenType
<1>7. (\A i \in DOMAIN bars : bars[i] # <<>>) \in BOOLEAN
  OBVIOUS
<1>8. ComputeAggregatedBar(tf, start, base) =
        [start |-> start, trades |-> FlattenSeq(bars),
         isComplete |-> \A i \in DOMAIN bars : bars[i] # <<>>]
  BY DEF ComputeAggregatedBar, bars
<1>. QED
  BY <1>6, <1>7, <1>8 DEF Bars

\* A window does not notice what happens to the minutes after its end.
LEMMA LaterMinutesUnseen ==
    ASSUME NEW tf \in Timeframes, NEW start \in Minutes, NEW base, NEW later,
           \A m \in Minutes : m < start + Multiplier[tf] => later[m] = base[m]
    PROVE  ComputeAggregatedBar(tf, start, later) = ComputeAggregatedBar(tf, start, base)
<1>1. Multiplier[tf] \in Nat /\ start \in Nat
  BY MarketDataAssumption, MinutesAreNaturals
<1>2. ASSUME NEW i \in 1..Multiplier[tf], start + i - 1 \in Minutes
      PROVE  later[start + i - 1] = base[start + i - 1]
  <2>1. start + i - 1 < start + Multiplier[tf]
    BY <1>1
  <2>. QED
    BY <2>1, <1>2
<1>3. InWindow(tf, start, later) = InWindow(tf, start, base)
  BY <1>2 DEF InWindow
<1>. QED
  BY <1>3 DEF ComputeAggregatedBar

-----------------------------------------------------------------------------
(* What a base bar makes the pipeline publish.                             *)

\* The event of a timeframe whose window is closed.
ClosedEvent(tf) ==
    [timeframe |-> tf, bar |-> [derivedBars[tf] EXCEPT !.isComplete = TRUE]]

\* What the i-th timeframe contributes.
Part(i, bar) ==
    IF Derived[i] \in Wired /\ Crosses(Derived[i], bar.start)
    THEN <<ClosedEvent(Derived[i])>> ELSE <<>>

Parts(bar) == [i \in 1..Len(Derived) |-> Part(i, bar)]

\* The derived timeframes are the elements of a sequence, each listed once.
LEMMA DerivedFacts ==
    /\ Len(Derived) \in Nat /\ DOMAIN Derived = 1..Len(Derived)
    /\ \A i \in 1..Len(Derived) : Derived[i] \in Timeframes
    /\ \A tf \in Timeframes : \E i \in 1..Len(Derived) : Derived[i] = tf
    /\ \A i, j \in 1..Len(Derived) : Derived[i] = Derived[j] => i = j
<1>1. Len(Derived) \in Nat /\ DOMAIN Derived = 1..Len(Derived)
  BY MarketDataAssumption, LenProperties
<1>2. \A i \in 1..Len(Derived) : Derived[i] \in Timeframes
  BY <1>1 DEF Timeframes, Range
<1>3. \A tf \in Timeframes : \E i \in 1..Len(Derived) : Derived[i] = tf
  BY <1>1 DEF Timeframes, Range
<1>4. \A i, j \in 1..Len(Derived) : Derived[i] = Derived[j] => i = j
  BY <1>1, MarketDataAssumption DEF IsInjective
<1>. QED
  BY <1>1, <1>2, <1>3, <1>4

\* Published flattens these contributions.
LEMMA PublishedIs ==
    ASSUME NEW bar
    PROVE  Published(bar) = FlattenSeq(Parts(bar))
<1>. DEFINE Of(i) == IF Derived[i] \in Wired
                     THEN [j \in DOMAIN Closed(Derived[i], bar) |->
                             [timeframe |-> Derived[i], bar |-> Closed(Derived[i], bar)[j]]]
                     ELSE <<>>
<1>1. ASSUME NEW i \in 1..Len(Derived) PROVE Of(i) = Part(i, bar)
  <2>. DEFINE c == [derivedBars[Derived[i]] EXCEPT !.isComplete = TRUE]
  <2>1. CASE Derived[i] \in Wired /\ Crosses(Derived[i], bar.start)
    <3>1. Closed(Derived[i], bar) = <<c>>
      BY <2>1 DEF Closed
    <3>. HIDE DEF c
    <3>2. DOMAIN <<c>> = 1..1 /\ \A j \in 1..1 : <<c>>[j] = c
      OBVIOUS
    <3>3. Of(i) = [j \in 1..1 |-> [timeframe |-> Derived[i], bar |-> c]]
      BY <2>1, <3>1, <3>2
    <3>4. Of(i) = <<[timeframe |-> Derived[i], bar |-> c]>>
      BY <3>3
    <3>5. Part(i, bar) = <<[timeframe |-> Derived[i], bar |-> c]>>
      BY <2>1 DEF Part, ClosedEvent, c
    <3>. QED
      BY <3>4, <3>5
  <2>2. CASE Derived[i] \in Wired /\ ~Crosses(Derived[i], bar.start)
    <3>1. Closed(Derived[i], bar) = <<>>
      BY <2>2 DEF Closed
    <3>2. Of(i) = <<>>
      BY <2>2, <3>1
    <3>. QED
      BY <2>2, <3>2 DEF Part
  <2>3. CASE Derived[i] \notin Wired
    BY <2>3 DEF Part
  <2>. QED
    BY <2>1, <2>2, <2>3
<1>2. Published(bar) = FlattenSeq([i \in DOMAIN Derived |-> Of(i)])
  BY DEF Published
<1>. HIDE DEF Of
<1>3. [i \in DOMAIN Derived |-> Of(i)] = Parts(bar)
  BY <1>1, DerivedFacts DEF Parts
<1>. QED
  BY <1>2, <1>3

\* A base bar makes the pipeline publish the closed bar of every wired timeframe
\* whose window it leaves, each once, and nothing else.
LEMMA PublishedFacts ==
    ASSUME NEW bar, derivedBars \in [Timeframes -> Bars \cup {NoBar}]
    PROVE  /\ Published(bar) \in Seq(Events)
           /\ \A j \in 1..Len(Published(bar)) :
                 \E tf \in Timeframes \cap Wired :
                    Crosses(tf, bar.start) /\ Published(bar)[j] = ClosedEvent(tf)
           /\ \A tf \in Timeframes \cap Wired : Crosses(tf, bar.start) =>
                 \E j \in 1..Len(Published(bar)) : Published(bar)[j] = ClosedEvent(tf)
           /\ \A j1, j2 \in 1..Len(Published(bar)) :
                 Published(bar)[j1].timeframe = Published(bar)[j2].timeframe => j1 = j2
<1>. DEFINE n == Len(Derived)
            r == Published(bar)
            s == Parts(bar)
<1>1. n \in Nat
  BY DerivedFacts
<1>2. ASSUME NEW tf \in Timeframes \cap Wired, Crosses(tf, bar.start)
      PROVE  ClosedEvent(tf) \in Events
  <2>1. derivedBars[tf] \in Bars
    BY <1>2 DEF Crosses
  <2>2. [derivedBars[tf] EXCEPT !.isComplete = TRUE] \in Bars
    BY <2>1 DEF Bars
  <2>. QED
    BY <2>2 DEF ClosedEvent, Events
<1>3. ASSUME NEW i \in 1..n PROVE Part(i, bar) \in Singles(Events)
  BY <1>2, DerivedFacts DEF Part, Singles
<1>4. s \in [1..n -> Singles(Events)] /\ \A i \in 1..n : s[i] = Part(i, bar)
  BY <1>3 DEF Parts
<1>5. r = FlattenSeq(s)
  BY PublishedIs
<1>. HIDE DEF s, r
<1>6. r \in Seq(Events) /\ Collects(r, s, n)
  BY <1>1, <1>4, <1>5, FlattenSingles
<1>7. ASSUME NEW i \in 1..n, s[i] # <<>>
      PROVE  /\ Derived[i] \in Timeframes \cap Wired /\ Crosses(Derived[i], bar.start)
             /\ s[i][1] = ClosedEvent(Derived[i])
  <2>1. Derived[i] \in Timeframes
    BY DerivedFacts
  <2>2. s[i] = Part(i, bar)
    BY <1>4
  <2>3. Derived[i] \in Wired /\ Crosses(Derived[i], bar.start)
    BY <1>7, <2>2 DEF Part
  <2>4. s[i] = <<ClosedEvent(Derived[i])>>
    BY <2>2, <2>3 DEF Part
  <2>. QED
    BY <2>1, <2>3, <2>4
<1>8. ASSUME NEW j \in 1..Len(r)
      PROVE  \E tf \in Timeframes \cap Wired :
                Crosses(tf, bar.start) /\ r[j] = ClosedEvent(tf)
  <2>1. PICK i \in 1..n : s[i] # <<>> /\ r[j] = s[i][1]
    BY <1>6 DEF Collects
  <2>. QED
    BY <2>1, <1>7
<1>9. ASSUME NEW tf \in Timeframes \cap Wired, Crosses(tf, bar.start)
      PROVE  \E j \in 1..Len(r) : r[j] = ClosedEvent(tf)
  <2>1. PICK i \in 1..n : Derived[i] = tf
    BY DerivedFacts
  <2>2. s[i] = <<ClosedEvent(tf)>>
    BY <2>1, <1>4, <1>9 DEF Part
  <2>3. s[i] # <<>>
    BY <2>2
  <2>4. PICK j \in 1..Len(r) : r[j] = s[i][1]
    BY <2>3, <1>6 DEF Collects
  <2>. QED
    BY <2>2, <2>4
<1>10. ASSUME NEW j1 \in 1..Len(r), NEW j2 \in 1..Len(r), j1 < j2
       PROVE  r[j1].timeframe # r[j2].timeframe
  <2>1. PICK i1 \in 1..n, i2 \in 1..n :
           /\ i1 < i2 /\ s[i1] # <<>> /\ s[i2] # <<>>
           /\ r[j1] = s[i1][1] /\ r[j2] = s[i2][1]
    BY <1>6, <1>10 DEF Collects
  <2>2. r[j1] = ClosedEvent(Derived[i1]) /\ r[j2] = ClosedEvent(Derived[i2])
    BY <2>1, <1>7
  <2>3. r[j1].timeframe = Derived[i1] /\ r[j2].timeframe = Derived[i2]
    BY <2>2 DEF ClosedEvent
  <2>4. i1 # i2
    BY <2>1
  <2>. QED
    BY <2>3, <2>4, DerivedFacts
<1>11. \A j1, j2 \in 1..Len(r) : r[j1].timeframe = r[j2].timeframe => j1 = j2
  <2>1. \A j1, j2 \in 1..Len(r) : j1 < j2 \/ j2 < j1 \/ j1 = j2
    BY <1>6
  <2>. QED
    BY <2>1, <1>10
<1>. QED
  BY <1>6, <1>8, <1>9, <1>11 DEF r

-----------------------------------------------------------------------------
\* What DerivedFollowsBase says of one timeframe, once it has a bar.
Follows(tf) ==
    derivedBars[tf] = ComputeAggregatedBar(tf, derivedBars[tf].start, baseBars)

\* A base bar makes the engine compute every timeframe from the stored minutes,
\* the minute it just stored included: none keeps a bar of before.
LEMMA BaseBarUpdatesAll ==
    ASSUME NEW bar, OnBase1mBar(bar), NEW tf \in Timeframes
    PROVE  Follows(tf)'
<1>1. derivedBars' = [t \in Timeframes |-> ComputeAggregatedBar(t, Window(t, bar.start), baseBars')]
  BY DEF OnBase1mBar, NextDerivedBar
<1>2. derivedBars'[tf] = ComputeAggregatedBar(tf, Window(tf, bar.start), baseBars')
  BY <1>1
<1>3. derivedBars'[tf].start = Window(tf, bar.start)
  BY <1>2 DEF ComputeAggregatedBar
<1>. QED
  BY <1>2, <1>3 DEF Follows

\* A trade that closes no bar touches neither the stored minutes nor the engine.
LEMMA TradePreserves ==
    ASSUME DerivedFollowsBase, NEW time, OnExchangeTrade(time)
    PROVE  DerivedFollowsBase'
<1>1. CASE Finalizes(time)
  <2>1. OnBase1mBar(currentBar)
    BY <1>1 DEF OnExchangeTrade, OnTrade
  <2>. QED
    BY <2>1, BaseBarUpdatesAll DEF DerivedFollowsBase, Follows
<1>2. CASE ~Finalizes(time)
  <2>1. UNCHANGED <<baseBars, derivedBars>>
    BY <1>2 DEF OnExchangeTrade, OnTrade
  <2>. QED
    BY <2>1 DEF DerivedFollowsBase
<1>. QED
  BY <1>1, <1>2

\* Whatever the order and the spacing of the trades, the bar in progress of every
\* timeframe is the aggregate of the minutes stored for its window
\* (TimeframeEngine.ts:75-83, 136-221).
THEOREM DerivedBarsFollow == Spec => []DerivedFollowsBase
<1>1. Init => DerivedFollowsBase
  BY DEF Init, DerivedFollowsBase
<1>2. DerivedFollowsBase /\ [Next]_vars => DerivedFollowsBase'
  <2>1. DerivedFollowsBase /\ Next => DerivedFollowsBase'
    BY TradePreserves DEF Next
  <2>2. DerivedFollowsBase /\ UNCHANGED vars => DerivedFollowsBase'
    BY DEF vars, DerivedFollowsBase
  <2>. QED
    BY <2>1, <2>2
<1>. QED
  BY <1>1, <1>2, PTL DEF Spec

-----------------------------------------------------------------------------
(* The types.                                                              *)

\* A base bar is stored, and every timeframe is computed from the stored minutes.
LEMMA StoreStep ==
    ASSUME TypeOK, NEW bar \in Bars, OnBase1mBar(bar)
    PROVE  /\ bar.start \in Minutes /\ bar.trades \in Seq(Seqs)
           /\ baseBars' = [baseBars EXCEPT ![bar.start] = bar.trades]
           /\ baseBars' \in BaseType
           /\ derivedBars' \in [Timeframes -> Bars \cup {NoBar}]
           /\ \A tf \in Timeframes :
                 /\ derivedBars'[tf] \in Bars
                 /\ derivedBars'[tf].start = Window(tf, bar.start)
<1>1. bar.start \in Minutes /\ bar.trades \in Seq(Seqs)
  BY DEF Bars
<1>2. baseBars' = [baseBars EXCEPT ![bar.start] = bar.trades]
  BY DEF OnBase1mBar
<1>3. baseBars' \in BaseType
  BY <1>1, <1>2 DEF TypeOK, BaseType
<1>4. derivedBars' = [tf \in Timeframes |->
                        ComputeAggregatedBar(tf, Window(tf, bar.start), baseBars')]
  BY DEF OnBase1mBar, NextDerivedBar
<1>5. ASSUME NEW tf \in Timeframes
      PROVE  derivedBars'[tf] \in Bars /\ derivedBars'[tf].start = Window(tf, bar.start)
  <2>1. Window(tf, bar.start) \in Minutes
    BY <1>1, WindowFacts
  <2>2. derivedBars'[tf] = ComputeAggregatedBar(tf, Window(tf, bar.start), baseBars')
    BY <1>4
  <2>. QED
    BY <2>1, <2>2, <1>3, AggregateType
<1>6. derivedBars' \in [Timeframes -> Bars \cup {NoBar}]
  BY <1>4, <1>5
<1>. QED
  BY <1>1, <1>2, <1>3, <1>5, <1>6

\* The bus appends what is published and keeps it as the newest of its timeframe.
LEMMA BusStep ==
    ASSUME TypeOK, NEW bar \in Bars, OnBase1mBar(bar)
    PROVE  /\ eventBuffer' = eventBuffer \o Published(bar)
           /\ eventBuffer' \in Seq(Events)
           /\ hotCache' \in [Wired -> Bars \cup {NoBar}]
           /\ \A tf \in Wired :
                 (\A j \in 1..Len(Published(bar)) : Published(bar)[j].timeframe # tf)
                     => hotCache'[tf] = hotCache[tf]
           /\ \A j \in 1..Len(Published(bar)) :
                 hotCache'[Published(bar)[j].timeframe] = Published(bar)[j].bar
<1>. DEFINE r == Published(bar)
            Mine(tf) == {i \in DOMAIN r : r[i].timeframe = tf}
<1>0. derivedBars \in [Timeframes -> Bars \cup {NoBar}]
  BY DEF TypeOK
<1>1. r \in Seq(Events)
  BY <1>0, PublishedFacts
<1>2. \A j1, j2 \in 1..Len(r) : r[j1].timeframe = r[j2].timeframe => j1 = j2
  BY <1>0, PublishedFacts
<1>3. eventBuffer' = eventBuffer \o r
  BY DEF OnBase1mBar, PublishBars
<1>4. hotCache' = [tf \in Wired |->
                     IF Mine(tf) = {} THEN hotCache[tf] ELSE r[Max(Mine(tf))].bar]
  BY DEF OnBase1mBar, PublishBars
<1>. HIDE DEF r
<1>5. DOMAIN r = 1..Len(r) /\ \A j \in 1..Len(r) : r[j] \in Events
  BY <1>1
<1>6. eventBuffer' \in Seq(Events)
  BY <1>1, <1>3, ConcatProperties DEF TypeOK
<1>7. ASSUME NEW tf \in Wired, \A j \in 1..Len(r) : r[j].timeframe # tf
      PROVE  hotCache'[tf] = hotCache[tf]
  <2>1. Mine(tf) = {}
    BY <1>5, <1>7
  <2>. QED
    BY <2>1, <1>4
<1>8. ASSUME NEW j \in 1..Len(r)
      PROVE  hotCache'[r[j].timeframe] = r[j].bar
  <2>. DEFINE tf == r[j].timeframe
  <2>1. tf \in Wired
    BY <1>5 DEF Events
  <2>2. Mine(tf) = {j}
    BY <1>2, <1>5
  <2>3. Max({j}) = j
    <3>1. j \in Int
      OBVIOUS
    <3>2. \A x \in {j} : (\A y \in {j} : x >= y) /\ x = j
      BY <3>1
    <3>. QED
      BY <3>2 DEF Max
  <2>. HIDE DEF Mine
  <2>4. hotCache'[tf] = r[Max(Mine(tf))].bar
    BY <1>4, <2>1, <2>2
  <2>. QED
    BY <2>2, <2>3, <2>4
<1>9. ASSUME NEW tf \in Wired
      PROVE  hotCache'[tf] \in Bars \cup {NoBar}
  <2>1. CASE \E j \in 1..Len(r) : r[j].timeframe = tf
    <3>1. PICK j \in 1..Len(r) : r[j].timeframe = tf
      BY <2>1
    <3>2. r[j].bar \in Bars
      BY <1>5 DEF Events
    <3>. QED
      BY <3>1, <3>2, <1>8
  <2>2. CASE \A j \in 1..Len(r) : r[j].timeframe # tf
    BY <2>2, <1>7 DEF TypeOK
  <2>. QED
    BY <2>1, <2>2
<1>10. hotCache' \in [Wired -> Bars \cup {NoBar}]
  <2>1. hotCache' = [tf \in Wired |-> hotCache'[tf]]
    BY <1>4
  <2>. QED
    BY <2>1, <1>9
<1>. QED
  BY <1>3, <1>6, <1>7, <1>8, <1>10 DEF r

\* A trade is appended to the feed and moves the builder to its minute.
LEMMA TradeStep ==
    ASSUME TypeOK, NEW time \in 1..MaxTime, OnExchangeTrade(time)
    PROVE  /\ feed' = Append(feed, time) /\ feed' \in Seq(1..MaxTime)
           /\ lastBarTime' \in 0..MaxTime
           /\ currentBar' \in Bars /\ currentBar'.start = Minute(time)
<1>1. feed' = Append(feed, time) /\ feed' \in Seq(1..MaxTime)
  BY DEF OnExchangeTrade, TypeOK
<1>2. lastBarTime' = time /\ time \in 0..MaxTime
  BY MarketDataAssumption DEF OnExchangeTrade, OnTrade
<1>. DEFINE seq == Len(feed) + 1
<1>3. seq \in Seqs
  <2>1. Len(feed) \in Nat /\ Len(feed) < MaxTrades /\ MaxTrades \in Nat
    BY MarketDataAssumption DEF OnExchangeTrade, TypeOK
  <2>. QED
    BY <2>1 DEF Seqs
<1>4. currentBar' = NextBar(seq, time)
  BY DEF OnExchangeTrade, OnTrade
<1>. HIDE DEF seq
<1>5. Minute(time) \in Minutes
  BY <1>2, MinuteFacts
<1>. DEFINE trades == IF currentBar = NoBar \/ Finalizes(time)
                      THEN <<seq, seq>> ELSE Append(currentBar.trades, seq)
<1>6. trades \in Seq(Seqs)
  <2>1. CASE currentBar = NoBar \/ Finalizes(time)
    BY <2>1, <1>3
  <2>2. CASE ~(currentBar = NoBar \/ Finalizes(time))
    <3>1. currentBar.trades \in Seq(Seqs)
      BY <2>2 DEF TypeOK, Bars
    <3>. QED
      BY <3>1, <2>2, <1>3
  <2>. QED
    BY <2>1, <2>2
<1>7. currentBar' = [start |-> Minute(time), isComplete |-> FALSE, trades |-> trades]
  BY <1>4 DEF NextBar
<1>. HIDE DEF trades
<1>8. currentBar' \in Bars /\ currentBar'.start = Minute(time)
  BY <1>5, <1>6, <1>7 DEF Bars
<1>. QED
  BY <1>1, <1>2, <1>8

\* Every trade keeps the types.
LEMMA TradeKeepsTypes ==
    ASSUME TypeOK, NEW time \in 1..MaxTime, OnExchangeTrade(time)
    PROVE  TypeOK'
<1>1. CASE Finalizes(time)
  <2>1. OnBase1mBar(currentBar) /\ currentBar \in Bars
    BY <1>1 DEF OnExchangeTrade, OnTrade, Finalizes, TypeOK
  <2>2. /\ baseBars' \in [Minutes -> Seq(Seqs)]
        /\ derivedBars' \in [Timeframes -> Bars \cup {NoBar}]
        /\ currentBar.start \in Minutes
        /\ \A tf \in Timeframes : derivedBars'[tf].start = Window(tf, currentBar.start)
    BY <2>1, StoreStep DEF BaseType
  <2>3. eventBuffer' \in Seq(Events) /\ hotCache' \in [Wired -> Bars \cup {NoBar}]
    BY <2>1, BusStep
  <2>4. \A tf \in Timeframes : derivedBars'[tf].start % Multiplier[tf] = 0
    BY <2>2, WindowFacts
  <2>. QED
    BY <2>2, <2>3, <2>4, TradeStep DEF TypeOK
<1>2. CASE ~Finalizes(time)
  <2>1. UNCHANGED <<baseBars, derivedBars, eventBuffer, hotCache>>
    BY <1>2 DEF OnExchangeTrade, OnTrade
  <2>. QED
    BY <2>1, TradeStep DEF TypeOK
<1>. QED
  BY <1>1, <1>2

\* The initial state has the types.
LEMMA InitTypes == Init => TypeOK
<1>. SUFFICES ASSUME Init PROVE TypeOK
  OBVIOUS
<1>1. <<>> \in Seq(1..MaxTime) /\ <<>> \in Seq(Seqs) /\ <<>> \in Seq(Events)
  BY EmptySeq
<1>2. 0 \in 0..MaxTime
  BY MarketDataAssumption
<1>. QED
  BY <1>1, <1>2 DEF Init, TypeOK

\* The builder, the engine and the bus keep bars, and every derived bar starts where
\* the windows of its timeframe do, for every feed (TimeframeEngine.ts:136-138).
THEOREM TypeCorrect == Spec => []TypeOK
<1>1. TypeOK /\ [Next]_vars => TypeOK'
  <2>1. TypeOK /\ Next => TypeOK'
    BY TradeKeepsTypes DEF Next
  <2>2. TypeOK /\ UNCHANGED vars => TypeOK'
    BY DEF vars, TypeOK
  <2>. QED
    BY <2>1, <2>2
<1>. QED
  BY <1>1, InitTypes, PTL DEF Spec

-----------------------------------------------------------------------------
(* As long as the trades arrive in the order of their times.               *)

\* The builder works on the minute of the last trade.
ClockFollowsFeed ==
    IF feed = <<>>
    THEN currentBar = NoBar
    ELSE currentBar # NoBar /\ currentBar.start = Minute(feed[Len(feed)])

\* The minutes that were stored are not ahead of the builder.
StoredBehindBuilder ==
    \A m \in Minutes : baseBars[m] # <<>> => currentBar # NoBar /\ m <= currentBar.start

\* The engine works on the newest window: every stored minute is of this window or
\* of an earlier one, and the builder is not behind it.
EngineAtNewestWindow ==
    \A tf \in Timeframes :
        /\ \A m \in Minutes : baseBars[m] # <<>> =>
              derivedBars[tf] # NoBar /\ Window(tf, m) <= derivedBars[tf].start
        /\ derivedBars[tf] # NoBar =>
              currentBar # NoBar /\ derivedBars[tf].start <= Window(tf, currentBar.start)

\* What was published is of windows before the one the engine works on.
PublishedBehindEngine ==
    \A i \in DOMAIN eventBuffer :
        LET e == eventBuffer[i] IN
        /\ e.timeframe \in Timeframes \cap Wired
        /\ e.bar.start % Multiplier[e.timeframe] = 0
        /\ derivedBars[e.timeframe] # NoBar
        /\ e.bar.start < derivedBars[e.timeframe].start

Behind ==
    ClockFollowsFeed /\ StoredBehindBuilder /\ EngineAtNewestWindow /\ PublishedBehindEngine

\* What PublishedOnceAndTrue says of feeds in order, in three parts.
StillTrue(i) ==
    eventBuffer[i].bar.trades =
        ComputeAggregatedBar(eventBuffer[i].timeframe, eventBuffer[i].bar.start, baseBars).trades

Once(i) == \A j \in DOMAIN eventBuffer :
    eventBuffer[j].timeframe = eventBuffer[i].timeframe
        /\ eventBuffer[j].bar.start = eventBuffer[i].bar.start => i = j

Newest(i) == hotCache[eventBuffer[i].timeframe].start >= eventBuffer[i].bar.start

OnceAndTrue == \A i \in DOMAIN eventBuffer : StillTrue(i) /\ Once(i) /\ Newest(i)

\* What NothingSkipped says of feeds in order.
NoneSkipped ==
    \A tf \in Timeframes \cap Wired, m \in Minutes :
        /\ derivedBars[tf] # NoBar /\ baseBars[m] # <<>>
        /\ Window(tf, m) < derivedBars[tf].start
        => \E i \in DOMAIN eventBuffer :
              eventBuffer[i].timeframe = tf /\ eventBuffer[i].bar.start = Window(tf, m)

\* The inductive invariant.
OrderInv == InOrder => Behind /\ OnceAndTrue /\ NoneSkipped
IInv     == TypeOK /\ DerivedFollowsBase /\ OrderInv

\* A feed in order was in order before its last trade, which is not before any other.
LEMMA OrderSoFar ==
    ASSUME TypeOK, NEW time \in 1..MaxTime, feed' = Append(feed, time), InOrder'
    PROVE  InOrder /\ (feed # <<>> => feed[Len(feed)] <= time)
<1>. DEFINE n == Len(feed)
<1>1. n \in Nat /\ feed \in Seq(1..MaxTime)
  BY DEF TypeOK
<1>2. /\ Len(feed') = n + 1 /\ feed'[n + 1] = time
      /\ \A i \in 1..n : feed'[i] = feed[i]
  BY <1>1
<1>3. \A i \in 2..(n + 1) : feed'[i - 1] <= feed'[i]
  BY <1>2 DEF InOrder
<1>4. ASSUME NEW i \in 2..n PROVE feed[i - 1] <= feed[i]
  <2>1. i \in 2..(n + 1) /\ i \in 1..n /\ i - 1 \in 1..n
    BY <1>1
  <2>. QED
    BY <2>1, <1>2, <1>3
<1>5. ASSUME feed # <<>> PROVE feed[n] <= time
  <2>1. n # 0
    BY <1>1, <1>5, EmptySeq
  <2>2. n + 1 \in 2..(n + 1) /\ n \in 1..n /\ (n + 1) - 1 = n
    BY <1>1, <2>1
  <2>3. feed'[(n + 1) - 1] <= feed'[n + 1]
    BY <2>2, <1>3
  <2>. QED
    BY <2>2, <2>3, <1>2
<1>. QED
  BY <1>4, <1>5 DEF InOrder

\* The event of a window that is closed has the window of the derived bar, and what
\* the engine last computed for it.
LEMMA ClosedEventFacts ==
    ASSUME NEW tf, derivedBars[tf] \in Bars
    PROVE  /\ ClosedEvent(tf).timeframe = tf
           /\ ClosedEvent(tf).bar.start = derivedBars[tf].start
           /\ ClosedEvent(tf).bar.trades = derivedBars[tf].trades
BY DEF ClosedEvent, Bars

\* What the bus holds after a base bar: what it held, and once the closed bar of
\* every wired timeframe whose window the base bar leaves.
LEMMA BusEvents ==
    ASSUME TypeOK, NEW bar \in Bars, OnBase1mBar(bar)
    PROVE  /\ \A i \in DOMAIN eventBuffer :
                 i \in DOMAIN eventBuffer' /\ eventBuffer'[i] = eventBuffer[i]
           /\ \A i \in DOMAIN eventBuffer' \ DOMAIN eventBuffer :
                 \E tf \in Timeframes \cap Wired :
                    Crosses(tf, bar.start) /\ eventBuffer'[i] = ClosedEvent(tf)
           /\ \A tf \in Timeframes \cap Wired : Crosses(tf, bar.start) =>
                 \E i \in DOMAIN eventBuffer' : eventBuffer'[i] = ClosedEvent(tf)
           /\ \A i, j \in DOMAIN eventBuffer' \ DOMAIN eventBuffer :
                 eventBuffer'[i].timeframe = eventBuffer'[j].timeframe => i = j
           /\ \A tf \in Timeframes \cap Wired :
                 hotCache'[tf] = IF Crosses(tf, bar.start)
                                 THEN ClosedEvent(tf).bar ELSE hotCache[tf]
<1>. DEFINE r == Published(bar)
            n == Len(eventBuffer)
<1>0. derivedBars \in [Timeframes -> Bars \cup {NoBar}]
  BY DEF TypeOK
<1>1. /\ r \in Seq(Events)
      /\ \A j \in 1..Len(r) : \E tf \in Timeframes \cap Wired :
            Crosses(tf, bar.start) /\ r[j] = ClosedEvent(tf)
      /\ \A tf \in Timeframes \cap Wired : Crosses(tf, bar.start) =>
            \E j \in 1..Len(r) : r[j] = ClosedEvent(tf)
      /\ \A j1, j2 \in 1..Len(r) : r[j1].timeframe = r[j2].timeframe => j1 = j2
  BY <1>0, PublishedFacts
<1>2. /\ eventBuffer' = eventBuffer \o r
      /\ \A tf \in Wired : (\A j \in 1..Len(r) : r[j].timeframe # tf)
                              => hotCache'[tf] = hotCache[tf]
      /\ \A j \in 1..Len(r) : hotCache'[r[j].timeframe] = r[j].bar
  BY BusStep
<1>. HIDE DEF r
<1>3. n \in Nat /\ Len(r) \in Nat /\ eventBuffer \in Seq(Events) /\ DOMAIN eventBuffer = 1..n
  BY <1>1 DEF TypeOK
<1>4. /\ DOMAIN eventBuffer' = 1..(n + Len(r))
      /\ \A i \in 1..n : eventBuffer'[i] = eventBuffer[i]
      /\ \A i \in (n + 1)..(n + Len(r)) : eventBuffer'[i] = r[i - n]
  <2>1. /\ eventBuffer' \in Seq(Events) /\ Len(eventBuffer') = n + Len(r)
        /\ \A i \in 1..(n + Len(r)) :
              eventBuffer'[i] = IF i <= n THEN eventBuffer[i] ELSE r[i - n]
    BY <1>1, <1>2, <1>3, ConcatProperties
  <2>2. DOMAIN eventBuffer' = 1..(n + Len(r))
    BY <2>1
  <2>. HIDE DEF n
  <2>3. \A i \in 1..n : eventBuffer'[i] = eventBuffer[i]
    BY <2>1, <1>3
  <2>4. \A i \in (n + 1)..(n + Len(r)) : eventBuffer'[i] = r[i - n]
    BY <2>1, <1>3
  <2>. QED
    BY <2>2, <2>3, <2>4
<1>. HIDE DEF n
<1>5. \A i \in DOMAIN eventBuffer' \ DOMAIN eventBuffer :
         i - n \in 1..Len(r) /\ eventBuffer'[i] = r[i - n]
  BY <1>3, <1>4
<1>6. ASSUME NEW tf \in Timeframes \cap Wired, Crosses(tf, bar.start)
      PROVE  \E i \in DOMAIN eventBuffer' : eventBuffer'[i] = ClosedEvent(tf)
  <2>1. PICK j \in 1..Len(r) : r[j] = ClosedEvent(tf)
    BY <1>1, <1>6
  <2>2. n + j \in (n + 1)..(n + Len(r)) /\ n + j \in 1..(n + Len(r)) /\ (n + j) - n = j
    BY <1>3
  <2>. QED
    BY <2>1, <2>2, <1>4
<1>7. ASSUME NEW i \in DOMAIN eventBuffer' \ DOMAIN eventBuffer,
             NEW j \in DOMAIN eventBuffer' \ DOMAIN eventBuffer,
             eventBuffer'[i].timeframe = eventBuffer'[j].timeframe
      PROVE  i = j
  <2>3. \A k, l \in 1..Len(r) : r[k].timeframe = r[l].timeframe => k = l
    BY <1>1
  <2>4. /\ i - n \in 1..Len(r) /\ eventBuffer'[i] = r[i - n]
        /\ j - n \in 1..Len(r) /\ eventBuffer'[j] = r[j - n]
    BY <1>5
  <2>5. r[i - n].timeframe = r[j - n].timeframe
    BY <2>4, <1>7
  <2>1. i - n = j - n
    BY <2>3, <2>4, <2>5
  <2>2. i \in Int /\ j \in Int
    BY <1>4
  <2>. QED
    BY <2>1, <2>2, <1>3
<1>8. ASSUME NEW tf \in Timeframes \cap Wired
      PROVE  hotCache'[tf] = IF Crosses(tf, bar.start) THEN ClosedEvent(tf).bar ELSE hotCache[tf]
  <2>1. CASE Crosses(tf, bar.start)
    <3>1. PICK j \in 1..Len(r) : r[j] = ClosedEvent(tf)
      BY <1>1, <2>1
    <3>2. r[j].timeframe = tf
      BY <3>1 DEF ClosedEvent
    <3>. QED
      BY <3>1, <3>2, <2>1, <1>2
  <2>2. CASE ~Crosses(tf, bar.start)
    <3>1. ASSUME NEW j \in 1..Len(r) PROVE r[j].timeframe # tf
      <4>1. PICK t \in Timeframes \cap Wired : Crosses(t, bar.start) /\ r[j] = ClosedEvent(t)
        BY <1>1
      <4>2. r[j].timeframe = t
        BY <4>1 DEF ClosedEvent
      <4>. QED
        BY <4>1, <4>2, <2>2
    <3>. QED
      BY <3>1, <2>2, <1>2
  <2>. QED
    BY <2>1, <2>2
<1>. QED
  BY <1>1, <1>3, <1>4, <1>5, <1>6, <1>7, <1>8

\* The bar that a trade in order closes is of a minute that is over.
LEMMA ClosingFacts ==
    ASSUME TypeOK, Behind, NEW time \in 1..MaxTime, OnExchangeTrade(time), Finalizes(time),
           feed # <<>> => feed[Len(feed)] <= time
    PROVE  /\ currentBar \in Bars /\ OnBase1mBar(currentBar)
           /\ currentBar.start \in Minutes /\ Minute(time) \in Minutes
           /\ currentBar.start <= Minute(time)
           /\ currentBar' \in Bars /\ currentBar'.start = Minute(time)
           /\ currentBar' # NoBar
<1>1. currentBar # NoBar
  BY DEF Finalizes
<1>2. currentBar \in Bars /\ OnBase1mBar(currentBar) /\ currentBar.start \in Minutes
  BY <1>1 DEF OnExchangeTrade, OnTrade, TypeOK, Bars
<1>3. feed # <<>> /\ currentBar.start = Minute(feed[Len(feed)])
  BY <1>1 DEF Behind, ClockFollowsFeed
<1>4. feed[Len(feed)] \in 0..MaxTime
  <2>1. feed \in Seq(1..MaxTime) /\ Len(feed) \in Nat \ {0}
    BY <1>3, EmptySeq DEF TypeOK
  <2>. QED
    BY <2>1, MarketDataAssumption
<1>5. time \in 0..MaxTime
  BY MarketDataAssumption
<1>6. currentBar.start <= Minute(time) /\ Minute(time) \in Minutes
  BY <1>3, <1>4, <1>5, MinuteFacts
<1>7. currentBar' \in Bars /\ currentBar'.start = Minute(time)
  BY TradeStep
<1>8. currentBar' # NoBar
  BY <1>7, MarketDataAssumption
<1>. QED
  BY <1>2, <1>6, <1>7, <1>8

\* A trade in order that closes a bar leaves the minutes, the engine and the bus
\* behind one another.
LEMMA CloseKeepsBehind ==
    ASSUME TypeOK, Behind, NEW time \in 1..MaxTime, OnExchangeTrade(time), Finalizes(time),
           feed # <<>> => feed[Len(feed)] <= time
    PROVE  Behind'
<1>. DEFINE b == currentBar.start
<1>1. /\ currentBar \in Bars /\ OnBase1mBar(currentBar)
      /\ b \in Minutes /\ Minute(time) \in Minutes /\ b <= Minute(time)
      /\ currentBar' \in Bars /\ currentBar'.start = Minute(time) /\ currentBar' # NoBar
  BY ClosingFacts
<1>2. /\ baseBars' = [baseBars EXCEPT ![b] = currentBar.trades]
      /\ \A tf \in Timeframes :
            derivedBars'[tf] \in Bars /\ derivedBars'[tf].start = Window(tf, b)
  BY <1>1, StoreStep
<1>3. currentBar # NoBar
  BY DEF Finalizes
<1>4. \A m \in Minutes : m \in Nat
  BY MinutesAreNaturals
<1>5. ASSUME NEW m \in Minutes, baseBars'[m] # <<>>
      PROVE  m <= b
  <2>1. CASE m = b
    BY <2>1, <1>4
  <2>2. CASE m # b
    <3>1. baseBars[m] # <<>>
      BY <2>2, <1>2, <1>5 DEF TypeOK
    <3>. QED
      BY <3>1 DEF Behind, StoredBehindBuilder
  <2>. QED
    BY <2>1, <2>2
<1>6. ClockFollowsFeed'
  <2>1. feed' = Append(feed, time) /\ feed \in Seq(1..MaxTime)
    BY TradeStep DEF TypeOK
  <2>2. Len(feed') = Len(feed) + 1 /\ feed'[Len(feed) + 1] = time /\ Len(feed) \in Nat
    BY <2>1
  <2>3. feed' # <<>>
    BY <2>2, EmptySeq
  <2>4. feed'[Len(feed')] = time
    BY <2>2
  <2>. QED
    BY <2>3, <2>4, <1>1 DEF ClockFollowsFeed, Minute
<1>7. StoredBehindBuilder'
  <2>1. ASSUME NEW m \in Minutes, baseBars'[m] # <<>>
        PROVE  currentBar' # NoBar /\ m <= currentBar'.start
    <3>1. m <= b
      BY <2>1, <1>5
    <3>2. m \in Nat /\ b \in Nat /\ Minute(time) \in Nat
      BY <1>1, <1>4
    <3>. QED
      BY <3>1, <3>2, <1>1
  <2>. QED
    BY <2>1 DEF StoredBehindBuilder
<1>8. EngineAtNewestWindow'
  <2>1. ASSUME NEW tf \in Timeframes, NEW m \in Minutes, baseBars'[m] # <<>>
        PROVE  derivedBars'[tf] # NoBar /\ Window(tf, m) <= derivedBars'[tf].start
    <3>1. Window(tf, m) <= Window(tf, b)
      BY <2>1, <1>1, <1>5, WindowFacts
    <3>. QED
      BY <3>1, <1>2, MarketDataAssumption
  <2>2. ASSUME NEW tf \in Timeframes
        PROVE  currentBar' # NoBar /\ derivedBars'[tf].start <= Window(tf, currentBar'.start)
    BY <1>1, <1>2, WindowFacts
  <2>. QED
    BY <2>1, <2>2 DEF EngineAtNewestWindow, Window
<1>9. PublishedBehindEngine'
  <2>1. ASSUME NEW i \in DOMAIN eventBuffer'
        PROVE  /\ eventBuffer'[i].timeframe \in Timeframes \cap Wired
               /\ eventBuffer'[i].bar.start % Multiplier[eventBuffer'[i].timeframe] = 0
               /\ derivedBars'[eventBuffer'[i].timeframe] # NoBar
               /\ eventBuffer'[i].bar.start < derivedBars'[eventBuffer'[i].timeframe].start
    <3>1. CASE i \in DOMAIN eventBuffer
      <4>. DEFINE e == eventBuffer[i]
      <4>1. eventBuffer'[i] = e
        BY <3>1, <1>1, BusEvents
      <4>2. /\ e.timeframe \in Timeframes \cap Wired
            /\ e.bar.start % Multiplier[e.timeframe] = 0
            /\ derivedBars[e.timeframe] # NoBar
            /\ e.bar.start < derivedBars[e.timeframe].start
        BY <3>1 DEF Behind, PublishedBehindEngine
      <4>3. e \in Events
        BY <3>1 DEF TypeOK
      <4>. HIDE DEF e
      <4>4. derivedBars[e.timeframe].start <= Window(e.timeframe, b)
        BY <4>2 DEF Behind, EngineAtNewestWindow
      <4>5. e.bar.start \in Nat
        BY <4>3, <1>4 DEF Events, Bars
      <4>6. derivedBars[e.timeframe].start \in Nat
        BY <4>2, <1>4 DEF TypeOK, Bars
      <4>7. Window(e.timeframe, b) \in Nat
        BY <4>2, <1>1, <1>4, WindowFacts
      <4>8. e.bar.start < Window(e.timeframe, b)
        BY <4>2, <4>4, <4>5, <4>6, <4>7
      <4>9. derivedBars'[e.timeframe] \in Bars /\ derivedBars'[e.timeframe].start = Window(e.timeframe, b)
        BY <4>2, <1>2
      <4>. QED
        BY <4>1, <4>2, <4>8, <4>9, MarketDataAssumption
    <3>2. CASE i \notin DOMAIN eventBuffer
      <4>1. PICK tf \in Timeframes \cap Wired :
               Crosses(tf, b) /\ eventBuffer'[i] = ClosedEvent(tf)
        BY <3>2, <1>1, BusEvents
      <4>2. derivedBars[tf] \in Bars /\ derivedBars[tf] # NoBar
        BY <4>1 DEF Crosses, TypeOK
      <4>3. eventBuffer'[i].timeframe = tf /\ eventBuffer'[i].bar.start = derivedBars[tf].start
        BY <4>1, <4>2, ClosedEventFacts
      <4>4. derivedBars[tf].start % Multiplier[tf] = 0
        BY <4>2 DEF TypeOK
      <4>5. derivedBars[tf].start <= Window(tf, b) /\ derivedBars[tf].start # Window(tf, b)
        BY <4>1, <4>2 DEF Behind, EngineAtNewestWindow, Crosses
      <4>6. derivedBars[tf].start \in Nat /\ Window(tf, b) \in Nat
        BY <4>2, <1>1, <1>4, WindowFacts DEF Bars
      <4>7. derivedBars[tf].start < Window(tf, b)
        BY <4>5, <4>6
      <4>8. derivedBars'[tf] \in Bars /\ derivedBars'[tf].start = Window(tf, b)
        BY <1>2
      <4>. QED
        BY <4>3, <4>4, <4>7, <4>8, MarketDataAssumption
    <3>. QED
      BY <3>1, <3>2
  <2>. QED
    BY <2>1 DEF PublishedBehindEngine
<1>. QED
  BY <1>6, <1>7, <1>8, <1>9 DEF Behind

\* A minute that is stored for the builder's bar is after the windows behind the
\* engine's: what was computed for them is still computed for them.
LEMMA EarlierWindowsKept ==
    ASSUME TypeOK, NEW tf \in Timeframes, NEW start \in Minutes,
           start % Multiplier[tf] = 0, NEW bar \in Bars, start < Window(tf, bar.start),
           OnBase1mBar(bar)
    PROVE  ComputeAggregatedBar(tf, start, baseBars')
           = ComputeAggregatedBar(tf, start, baseBars)
<1>. DEFINE b == bar.start
            w == Window(tf, b)
<1>1. b \in Minutes /\ baseBars' = [baseBars EXCEPT ![b] = bar.trades] /\ baseBars \in BaseType
  BY StoreStep DEF TypeOK, BaseType
<1>2. w \in Minutes /\ w <= b /\ w % Multiplier[tf] = 0
  BY <1>1, WindowFacts
<1>3. w \in Nat /\ b \in Nat /\ start \in Nat /\ Multiplier[tf] \in Nat
  BY <1>1, <1>2, MinutesAreNaturals, MarketDataAssumption
<1>4. start + Multiplier[tf] <= w
  BY <1>2, <1>3, WindowsApart
<1>. HIDE DEF w, b
<1>5. start + Multiplier[tf] <= b
  BY <1>2, <1>3, <1>4
<1>6. ASSUME NEW m \in Minutes, m < start + Multiplier[tf]
      PROVE  baseBars'[m] = baseBars[m]
  <2>1. m \in Nat
    BY MinutesAreNaturals
  <2>2. m # b
    BY <2>1, <1>3, <1>5, <1>6
  <2>. QED
    BY <2>2, <1>1 DEF BaseType
<1>. QED
  BY <1>6, LaterMinutesUnseen

\* A trade in order that closes a bar leaves every published bar true, once on the
\* bus and not newer than the hot cache.
LEMMA CloseKeepsPublished ==
    ASSUME TypeOK, DerivedFollowsBase, Behind, OnceAndTrue,
           NEW time \in 1..MaxTime, OnExchangeTrade(time), Finalizes(time),
           feed # <<>> => feed[Len(feed)] <= time
    PROVE  OnceAndTrue'
<1>. DEFINE b == currentBar.start
            old == DOMAIN eventBuffer
            new == DOMAIN eventBuffer' \ DOMAIN eventBuffer
<1>1. currentBar \in Bars /\ OnBase1mBar(currentBar) /\ b \in Minutes
  BY ClosingFacts
<1>2. /\ \A i \in old : i \in DOMAIN eventBuffer' /\ eventBuffer'[i] = eventBuffer[i]
      /\ \A i \in new : \E tf \in Timeframes \cap Wired :
            Crosses(tf, b) /\ eventBuffer'[i] = ClosedEvent(tf)
      /\ \A i, j \in new : eventBuffer'[i].timeframe = eventBuffer'[j].timeframe => i = j
      /\ \A tf \in Timeframes \cap Wired :
            hotCache'[tf] = IF Crosses(tf, b) THEN ClosedEvent(tf).bar ELSE hotCache[tf]
  BY <1>1, BusEvents
<1>3. \A m \in Minutes : m \in Nat
  BY MinutesAreNaturals
\* What is known of an event that was on the bus, and of one that is put there.
<1>4. ASSUME NEW i \in old
      PROVE  /\ eventBuffer[i].timeframe \in Timeframes \cap Wired
             /\ eventBuffer[i].bar.start \in Minutes
             /\ eventBuffer[i].bar.start % Multiplier[eventBuffer[i].timeframe] = 0
             /\ derivedBars[eventBuffer[i].timeframe] \in Bars
             /\ eventBuffer[i].bar.start < derivedBars[eventBuffer[i].timeframe].start
             /\ eventBuffer[i].bar.start < Window(eventBuffer[i].timeframe, b)
  <2>. DEFINE e == eventBuffer[i]
  <2>1. /\ e.timeframe \in Timeframes \cap Wired
        /\ e.bar.start % Multiplier[e.timeframe] = 0
        /\ derivedBars[e.timeframe] # NoBar
        /\ e.bar.start < derivedBars[e.timeframe].start
    BY <1>4 DEF Behind, PublishedBehindEngine
  <2>2. e \in Events
    BY <1>4 DEF TypeOK
  <2>. HIDE DEF e
  <2>3. e.bar.start \in Minutes
    BY <2>2 DEF Events, Bars
  <2>4. derivedBars[e.timeframe] \in Bars
    BY <2>1 DEF TypeOK
  <2>5. derivedBars[e.timeframe].start \in Nat
    BY <2>4, <1>3 DEF Bars
  <2>6. derivedBars[e.timeframe].start <= Window(e.timeframe, b)
    BY <2>1 DEF Behind, EngineAtNewestWindow
  <2>7. Window(e.timeframe, b) \in Nat
    BY <2>1, <1>1, <1>3, WindowFacts
  <2>8. e.bar.start < Window(e.timeframe, b)
    BY <2>1, <2>3, <2>5, <2>6, <2>7, <1>3
  <2>. QED
    BY <2>1, <2>3, <2>4, <2>8 DEF e
<1>5. ASSUME NEW i \in new
      PROVE  \E tf \in Timeframes \cap Wired :
                /\ Crosses(tf, b) /\ derivedBars[tf] \in Bars
                /\ eventBuffer'[i].timeframe = tf
                /\ eventBuffer'[i].bar = ClosedEvent(tf).bar
                /\ eventBuffer'[i].bar.start = derivedBars[tf].start
                /\ eventBuffer'[i].bar.trades = derivedBars[tf].trades
                /\ derivedBars[tf].start \in Minutes
                /\ derivedBars[tf].start % Multiplier[tf] = 0
                /\ derivedBars[tf].start < Window(tf, b)
  <2>1. PICK tf \in Timeframes \cap Wired :
           Crosses(tf, b) /\ eventBuffer'[i] = ClosedEvent(tf)
    BY <1>2
  <2>2. derivedBars[tf] \in Bars /\ derivedBars[tf] # NoBar
    BY <2>1 DEF Crosses, TypeOK
  <2>3. derivedBars[tf].start \in Minutes
    BY <2>2 DEF Bars
  <2>4. derivedBars[tf].start <= Window(tf, b) /\ derivedBars[tf].start # Window(tf, b)
    BY <2>1, <2>2 DEF Behind, EngineAtNewestWindow, Crosses
  <2>5. Window(tf, b) \in Nat
    BY <1>1, <1>3, WindowFacts
  <2>6. derivedBars[tf].start < Window(tf, b)
    BY <2>3, <2>4, <2>5, <1>3
  <2>7. derivedBars[tf].start % Multiplier[tf] = 0
    BY <2>2 DEF TypeOK
  <2>. QED
    BY <2>1, <2>2, <2>3, <2>6, <2>7, ClosedEventFacts
<1>6. ASSUME NEW i \in DOMAIN eventBuffer' PROVE StillTrue(i)'
  <2>1. CASE i \in old
    <3>. DEFINE e == eventBuffer[i]
    <3>1. eventBuffer'[i] = e
      BY <2>1, <1>2
    <3>2. ComputeAggregatedBar(e.timeframe, e.bar.start, baseBars')
            = ComputeAggregatedBar(e.timeframe, e.bar.start, baseBars)
      BY <2>1, <1>1, <1>4, EarlierWindowsKept
    <3>3. e.bar.trades = ComputeAggregatedBar(e.timeframe, e.bar.start, baseBars).trades
      BY <2>1 DEF OnceAndTrue, StillTrue
    <3>. HIDE DEF e
    <3>. QED
      BY <3>1, <3>2, <3>3 DEF StillTrue
  <2>2. CASE i \in new
    <3>1. PICK tf \in Timeframes \cap Wired :
                /\ Crosses(tf, b) /\ derivedBars[tf] \in Bars
                /\ eventBuffer'[i].timeframe = tf
                /\ eventBuffer'[i].bar.start = derivedBars[tf].start
                /\ eventBuffer'[i].bar.trades = derivedBars[tf].trades
                /\ derivedBars[tf].start \in Minutes
                /\ derivedBars[tf].start % Multiplier[tf] = 0
                /\ derivedBars[tf].start < Window(tf, b)
      BY <2>2, <1>5
    <3>2. ComputeAggregatedBar(tf, derivedBars[tf].start, baseBars')
            = ComputeAggregatedBar(tf, derivedBars[tf].start, baseBars)
      BY <3>1, <1>1, EarlierWindowsKept
    <3>3. derivedBars[tf] = ComputeAggregatedBar(tf, derivedBars[tf].start, baseBars)
      BY <3>1 DEF DerivedFollowsBase, Crosses
    <3>4. derivedBars[tf].trades
            = ComputeAggregatedBar(tf, derivedBars[tf].start, baseBars').trades
      BY <3>2, <3>3
    <3>. QED
      BY <3>1, <3>4 DEF StillTrue
  <2>. QED
    BY <2>1, <2>2
<1>7. ASSUME NEW i \in DOMAIN eventBuffer', NEW j \in DOMAIN eventBuffer',
             eventBuffer'[j].timeframe = eventBuffer'[i].timeframe,
             eventBuffer'[j].bar.start = eventBuffer'[i].bar.start
      PROVE  i = j
  <2>1. CASE i \in old /\ j \in old
    BY <2>1, <1>2, <1>7 DEF OnceAndTrue, Once
  <2>2. ASSUME NEW k \in old, NEW l \in new,
               eventBuffer'[k].timeframe = eventBuffer'[l].timeframe
        PROVE  eventBuffer'[k].bar.start # eventBuffer'[l].bar.start
    <3>1. PICK tf \in Timeframes \cap Wired :
             /\ derivedBars[tf] \in Bars /\ derivedBars[tf].start \in Minutes
             /\ eventBuffer'[l].timeframe = tf
             /\ eventBuffer'[l].bar.start = derivedBars[tf].start
      BY <1>5
    <3>2. eventBuffer'[k] = eventBuffer[k] /\ eventBuffer[k].bar.start \in Minutes
      BY <1>2, <1>4
    <3>3. eventBuffer[k].bar.start < derivedBars[tf].start
      BY <3>1, <3>2, <2>2, <1>4
    <3>4. eventBuffer[k].bar.start # derivedBars[tf].start
      BY <3>1, <3>2, <3>3, <1>3
    <3>. QED
      BY <3>1, <3>2, <3>4
  <2>3. CASE i \in new /\ j \in new
    BY <2>3, <1>2, <1>7
  <2>. QED
    BY <2>1, <2>2, <2>3, <1>7
<1>8. ASSUME NEW i \in DOMAIN eventBuffer' PROVE Newest(i)'
  <2>1. CASE i \in old
    <3>. DEFINE e == eventBuffer[i]
    <3>1. eventBuffer'[i] = e
      BY <2>1, <1>2
    <3>2. /\ e.timeframe \in Timeframes \cap Wired /\ e.bar.start \in Minutes
          /\ derivedBars[e.timeframe] \in Bars
          /\ e.bar.start < derivedBars[e.timeframe].start
      BY <2>1, <1>4
    <3>3. hotCache[e.timeframe].start >= e.bar.start
      BY <2>1 DEF OnceAndTrue, Newest
    <3>. HIDE DEF e
    <3>4. CASE Crosses(e.timeframe, b)
      <4>1. hotCache'[e.timeframe].start = derivedBars[e.timeframe].start
        BY <3>2, <3>4, <1>2, ClosedEventFacts
      <4>2. derivedBars[e.timeframe].start \in Nat /\ e.bar.start \in Nat
        BY <3>2, <1>3 DEF Bars
      <4>3. derivedBars[e.timeframe].start >= e.bar.start
        BY <4>2, <3>2
      <4>. QED
        BY <3>1, <4>1, <4>3 DEF Newest
    <3>5. CASE ~Crosses(e.timeframe, b)
      <4>1. hotCache'[e.timeframe] = hotCache[e.timeframe]
        BY <3>2, <3>5, <1>2
      <4>. QED
        BY <3>1, <3>3, <4>1 DEF Newest
    <3>. QED
      BY <3>4, <3>5
  <2>2. CASE i \in new
    <3>1. PICK tf \in Timeframes \cap Wired :
             /\ Crosses(tf, b) /\ eventBuffer'[i].timeframe = tf
             /\ eventBuffer'[i].bar = ClosedEvent(tf).bar
             /\ eventBuffer'[i].bar.start = derivedBars[tf].start
             /\ derivedBars[tf].start \in Minutes
      BY <2>2, <1>5
    <3>2. hotCache'[tf] = ClosedEvent(tf).bar
      BY <3>1, <1>2
    <3>3. eventBuffer'[i].bar.start \in Nat
      BY <3>1, <1>3
    <3>4. hotCache'[tf].start >= eventBuffer'[i].bar.start
      BY <3>1, <3>2, <3>3
    <3>. QED
      BY <3>1, <3>4 DEF Newest
  <2>. QED
    BY <2>1, <2>2
<1>. QED
  BY <1>6, <1>7, <1>8 DEF OnceAndTrue, Once

\* A trade in order that closes a bar publishes every window the engine leaves.
LEMMA CloseSkipsNone ==
    ASSUME TypeOK, Behind, NoneSkipped,
           NEW time \in 1..MaxTime, OnExchangeTrade(time), Finalizes(time),
           feed # <<>> => feed[Len(feed)] <= time
    PROVE  NoneSkipped'
<1>. DEFINE b == currentBar.start
<1>1. currentBar \in Bars /\ OnBase1mBar(currentBar) /\ b \in Minutes
  BY ClosingFacts
<1>2. /\ \A i \in DOMAIN eventBuffer : i \in DOMAIN eventBuffer' /\ eventBuffer'[i] = eventBuffer[i]
      /\ \A tf \in Timeframes \cap Wired : Crosses(tf, b) =>
            \E i \in DOMAIN eventBuffer' : eventBuffer'[i] = ClosedEvent(tf)
  BY <1>1, BusEvents
<1>3. /\ baseBars' = [baseBars EXCEPT ![b] = currentBar.trades]
      /\ \A tf \in Timeframes : derivedBars'[tf].start = Window(tf, b)
  BY <1>1, StoreStep
<1>4. \A m \in Minutes : m \in Nat
  BY MinutesAreNaturals
<1>5. ASSUME NEW tf \in Timeframes \cap Wired, NEW m \in Minutes,
             baseBars'[m] # <<>>, Window(tf, m) < derivedBars'[tf].start
      PROVE  \E i \in DOMAIN eventBuffer' :
                eventBuffer'[i].timeframe = tf /\ eventBuffer'[i].bar.start = Window(tf, m)
  <2>1. Window(tf, m) < Window(tf, b) /\ Window(tf, m) \in Nat /\ Window(tf, b) \in Nat
    BY <1>1, <1>3, <1>4, <1>5, WindowFacts
  <2>2. m # b
    BY <2>1
  <2>3. baseBars[m] # <<>>
    BY <2>2, <1>3, <1>5 DEF TypeOK
  <2>4. derivedBars[tf] # NoBar /\ Window(tf, m) <= derivedBars[tf].start
    BY <2>3 DEF Behind, EngineAtNewestWindow
  <2>5. derivedBars[tf] \in Bars /\ derivedBars[tf].start \in Nat
    BY <2>4, <1>4 DEF TypeOK, Bars
  <2>6. CASE Window(tf, m) < derivedBars[tf].start
    <3>1. PICK i \in DOMAIN eventBuffer :
             eventBuffer[i].timeframe = tf /\ eventBuffer[i].bar.start = Window(tf, m)
      BY <2>3, <2>4, <2>6 DEF NoneSkipped
    <3>. QED
      BY <3>1, <1>2
  <2>7. CASE Window(tf, m) = derivedBars[tf].start
    <3>1. Crosses(tf, b)
      BY <2>1, <2>4, <2>7 DEF Crosses
    <3>2. PICK i \in DOMAIN eventBuffer' : eventBuffer'[i] = ClosedEvent(tf)
      BY <3>1, <1>2
    <3>. QED
      BY <3>2, <2>5, <2>7, ClosedEventFacts
  <2>8. Window(tf, m) < derivedBars[tf].start \/ Window(tf, m) = derivedBars[tf].start
    BY <2>1, <2>4, <2>5
  <2>. QED
    BY <2>6, <2>7, <2>8
<1>. HIDE DEF b
<1>. QED
  BY <1>5 DEF NoneSkipped, Window

\* A trade that closes no bar moves at most the builder, forward.
LEMMA OpenKeeps ==
    ASSUME TypeOK, Behind, OnceAndTrue, NoneSkipped,
           NEW time \in 1..MaxTime, OnExchangeTrade(time), ~Finalizes(time)
    PROVE  Behind' /\ OnceAndTrue' /\ NoneSkipped'
<1>1. UNCHANGED <<baseBars, derivedBars, eventBuffer, hotCache>>
  BY DEF OnExchangeTrade, OnTrade
<1>2. /\ feed' = Append(feed, time) /\ feed \in Seq(1..MaxTime)
      /\ currentBar' \in Bars /\ currentBar'.start = Minute(time)
  BY TradeStep DEF TypeOK
<1>3. currentBar' # NoBar
  BY <1>2, MarketDataAssumption
<1>4. currentBar # NoBar => currentBar'.start = currentBar.start
  BY <1>2 DEF Finalizes
<1>5. ClockFollowsFeed'
  <2>1. Len(feed') = Len(feed) + 1 /\ feed'[Len(feed) + 1] = time /\ Len(feed) \in Nat
    BY <1>2
  <2>2. feed' # <<>>
    BY <2>1, EmptySeq
  <2>3. feed'[Len(feed')] = time
    BY <2>1
  <2>. QED
    BY <2>2, <2>3, <1>2, <1>3 DEF ClockFollowsFeed, Minute
<1>6. StoredBehindBuilder'
  BY <1>1, <1>3, <1>4 DEF Behind, StoredBehindBuilder
<1>7. EngineAtNewestWindow'
  BY <1>1, <1>3, <1>4 DEF Behind, EngineAtNewestWindow, Window
<1>8. PublishedBehindEngine'
  BY <1>1 DEF Behind, PublishedBehindEngine
<1>9. OnceAndTrue'
  BY <1>1 DEF OnceAndTrue, StillTrue, Once, Newest
<1>10. NoneSkipped'
  BY <1>1 DEF NoneSkipped, Window
<1>. QED
  BY <1>5, <1>6, <1>7, <1>8, <1>9, <1>10 DEF Behind

\* A trade keeps what holds of feeds in order.
LEMMA TradeKeepsOrder ==
    ASSUME IInv, NEW time \in 1..MaxTime, OnExchangeTrade(time)
    PROVE  OrderInv'
<1>. SUFFICES ASSUME InOrder' PROVE Behind' /\ OnceAndTrue' /\ NoneSkipped'
  BY DEF OrderInv
<1>1. TypeOK /\ DerivedFollowsBase
  BY DEF IInv
<1>2. feed' = Append(feed, time)
  BY DEF OnExchangeTrade
<1>3. InOrder /\ (feed # <<>> => feed[Len(feed)] <= time)
  BY <1>1, <1>2, OrderSoFar
<1>4. Behind /\ OnceAndTrue /\ NoneSkipped
  BY <1>3 DEF IInv, OrderInv
<1>5. CASE Finalizes(time)
  BY <1>1, <1>3, <1>4, <1>5, CloseKeepsBehind, CloseKeepsPublished, CloseSkipsNone
<1>6. CASE ~Finalizes(time)
  BY <1>1, <1>4, <1>6, OpenKeeps
<1>. QED
  BY <1>5, <1>6

\* Before the first trade nothing is stored and nothing is published.
LEMMA InitOrder == Init => IInv
<1>. SUFFICES ASSUME Init PROVE IInv
  OBVIOUS
<1>1. TypeOK
  BY InitTypes
<1>2. DerivedFollowsBase
  BY DEF Init, DerivedFollowsBase
<1>3. /\ \A m \in Minutes : baseBars[m] = <<>>
      /\ \A tf \in Timeframes : derivedBars[tf] = NoBar
      /\ feed = <<>> /\ currentBar = NoBar
  BY DEF Init
<1>4. DOMAIN eventBuffer = {}
  BY DEF Init
<1>5. ClockFollowsFeed
  BY <1>3 DEF ClockFollowsFeed
<1>6. StoredBehindBuilder /\ EngineAtNewestWindow /\ NoneSkipped
  BY <1>3 DEF StoredBehindBuilder, EngineAtNewestWindow, NoneSkipped
<1>7. PublishedBehindEngine /\ OnceAndTrue
  BY <1>4 DEF PublishedBehindEngine, OnceAndTrue
<1>. QED
  BY <1>1, <1>2, <1>5, <1>6, <1>7 DEF IInv, OrderInv, Behind

\* The invariant holds in every reachable state.
LEMMA OrderInvariance == Spec => []IInv
<1>1. IInv /\ [Next]_vars => IInv'
  <2>1. IInv /\ Next => IInv'
    <3>. SUFFICES ASSUME IInv, NEW time \in 1..MaxTime, OnExchangeTrade(time)
                  PROVE  IInv'
      BY DEF Next
    <3>1. TypeOK' /\ DerivedFollowsBase'
      BY TradeKeepsTypes, TradePreserves DEF IInv
    <3>2. OrderInv'
      BY TradeKeepsOrder
    <3>. QED
      BY <3>1, <3>2 DEF IInv
  <2>2. IInv /\ UNCHANGED vars => IInv'
    BY DEF vars, IInv, TypeOK, DerivedFollowsBase, OrderInv, InOrder, Behind,
           ClockFollowsFeed, StoredBehindBuilder, EngineAtNewestWindow,
           PublishedBehindEngine, OnceAndTrue, StillTrue, Once, Newest, NoneSkipped,
           Window
  <2>. QED
    BY <2>1, <2>2
<1>. QED
  BY <1>1, InitOrder, PTL DEF Spec

\* However the trades are spaced, as long as they are in order: a window reaches the
\* bus at most once, what was published still is the aggregate of its minutes, and the
\* hot cache is not behind it (TimeframeEngine.ts:140-149, DataBus.ts:94-124).
THEOREM PublishedHolds == Spec => []PublishedOnceAndTrue
<1>1. IInv => PublishedOnceAndTrue
  BY DEF IInv, OrderInv, OnceAndTrue, StillTrue, Once, Newest, PublishedOnceAndTrue
<1>. QED
  BY <1>1, OrderInvariance, PTL

\* However the trades are spaced, as long as they are in order, and however many
\* minutes they leave out: every window with a stored minute that the engine has left
\* was published (TimeframeEngine.ts:140-149).
THEOREM NoWindowSkipped == Spec => []NothingSkipped
<1>1. IInv => NothingSkipped
  BY DEF IInv, OrderInv, NoneSkipped, NothingSkipped
<1>. QED
  BY <1>1, OrderInvariance, PTL
=============================================================================
