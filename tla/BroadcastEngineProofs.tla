---------------------------- MODULE BroadcastEngineProofs ----------------------------
(* The order in which transactions are posted, where pooled outputs come     *)
(* from, and that none is spent twice.  Where the engine folds over          *)
(* sequences of any length, the recursive definitions of the library are     *)
(* unfolded first, by induction over sets of naturals.                       *)
EXTENDS BroadcastEngine, WellFoundedInduction, FiniteSetTheorems, SequenceTheorems, TLAPS

LEMMA NatWF == IsWellFoundedOn({ss \in Nat \X Nat : ss[1] < ss[2]}, Nat)
  BY NatLessThanWellFounded DEF OpToRel
\* A set of naturals that is not empty has a least member.
LEMMA LeastNat == ASSUME NEW T \in SUBSET Nat, T # {} PROVE \E x \in T : \A y \in T : ~(y < x)
  <1> DEFINE R == {ss \in Nat \X Nat : ss[1] < ss[2]}
  <1>1. \E x \in T : \A y \in T : ~(<<y, x>> \in R)
    <2>1. IsWellFoundedOn(R, Nat)
      BY NatWF
    <2> HIDE DEF R
    <2> QED BY <2>1, WFMin
  <1>2. \A x, y \in Nat : y < x => <<y, x>> \in R
    OBVIOUS
  <1> HIDE DEF R
  <1> QED BY <1>1, <1>2

\* Induction over the naturals, for sets.
LEMMA NatSetInduction ==
    ASSUME NEW T \in SUBSET Nat, 0 \in T, \A n \in T : n + 1 \in T
    PROVE  T = Nat
  <1> SUFFICES ASSUME Nat \ T # {} PROVE FALSE
    OBVIOUS
  <1>1. PICK x \in Nat \ T : \A y \in Nat \ T : ~(y < x)
    BY LeastNat
  <1>2. x - 1 \in Nat /\ x - 1 \notin Nat \ T
    BY <1>1
  <1> QED BY <1>1, <1>2

\* What FlattenSeq computes: one sequence more with every step.
Flattened(seqs, f, i) == IF i = 1 THEN seqs[i] ELSE f[i-1] \o seqs[i]

LEMMA FlattenSteps ==
    ASSUME NEW S, NEW seqs \in Seq(Seq(S)), Len(seqs) # 0
    PROVE  \E f : FlattenSeq(seqs) = f[Len(seqs)] /\ \A i \in 1..Len(seqs) : f[i] = Flattened(seqs, f, i)
  <1> DEFINE n == Len(seqs)
             Goes(k) == \E f : f = [i \in 1..k |-> Flattened(seqs, f, i)]
  <1>0. n \in Nat \ {0}
    OBVIOUS
  <1>1. \A k \in Nat : Goes(k)
    <2> DEFINE T == {k \in Nat : Goes(k)}
    <2>1. Goes(0)
      <3>1. [i \in 1..0 |-> 0] = [i \in 1..0 |-> Flattened(seqs, [j \in 1..0 |-> 0], i)]
        OBVIOUS
      <3> QED BY <3>1
    <2>2. ASSUME NEW k \in Nat, Goes(k) PROVE Goes(k + 1)
      <3>1. PICK f : f = [i \in 1..k |-> Flattened(seqs, f, i)]
        BY <2>2
      <3>4. \A i \in 1..k : f[i] = Flattened(seqs, f, i)
        BY <3>1
      <3> DEFINE g == [i \in 1..(k + 1) |-> IF i <= k THEN f[i] ELSE Flattened(seqs, f, i)]
      <3>2. \A i \in 1..(k + 1) : g[i] = Flattened(seqs, g, i)
        <4> SUFFICES ASSUME NEW i \in 1..(k + 1) PROVE g[i] = Flattened(seqs, g, i)
          OBVIOUS
        <4>1. i # 1 => i - 1 \in 1..k /\ g[i - 1] = f[i - 1]
          OBVIOUS
        <4>2. Flattened(seqs, g, i) = Flattened(seqs, f, i)
          BY <4>1 DEF Flattened
        <4>3. i <= k => f[i] = Flattened(seqs, f, i)
          <5>1. i <= k => i \in 1..k
            OBVIOUS
          <5> QED BY <3>4, <5>1
        <4> QED BY <4>2, <4>3
      <3>3. g = [i \in 1..(k + 1) |-> Flattened(seqs, g, i)]
        BY <3>2
      <3> QED BY <3>3
    <2>3. T = Nat
      <3>1. 0 \in T /\ \A k \in T : k + 1 \in T
        <4> HIDE DEF Goes
        <4> QED BY <2>1, <2>2
      <3> HIDE DEF T
      <3>2. T \in SUBSET Nat
        BY DEF T
      <3> QED BY <3>1, <3>2, NatSetInduction
    <2> QED BY <2>3
  <1> DEFINE f == CHOOSE f : f = [i \in 1..n |-> Flattened(seqs, f, i)]
  <1>2. f = [i \in 1..n |-> Flattened(seqs, f, i)]
    <2>1. Goes(n)
      BY <1>0, <1>1
    <2> QED BY <2>1
  <1>3. FlattenSeq(seqs) = f[n]
    BY DEF FlattenSeq, Flattened
  <1> HIDE DEF f
  <1> QED BY <1>2, <1>3

LEMMA FlattenType ==
    ASSUME NEW S, NEW seqs \in Seq(Seq(S))
    PROVE  FlattenSeq(seqs) \in Seq(S)
  <1>1. CASE Len(seqs) = 0
    BY <1>1 DEF FlattenSeq
  <1>2. CASE Len(seqs) # 0
    <2> DEFINE n == Len(seqs)
    <2>1. n \in Nat \ {0} /\ \A i \in 1..n : seqs[i] \in Seq(S)
      BY <1>2
    <2>2. PICK f : FlattenSeq(seqs) = f[n] /\ \A i \in 1..n : f[i] = Flattened(seqs, f, i)
      BY <1>2, FlattenSteps
    <2>4. \A i \in 1..n : f[i] \in Seq(S)
      <3> DEFINE T == {k \in Nat : k + 1 \in 1..n => f[k + 1] \in Seq(S)}
      <3>1. 0 \in T
        BY <2>1, <2>2 DEF Flattened
      <3>2. ASSUME NEW k \in T PROVE k + 1 \in T
        <4>1. SUFFICES ASSUME (k + 1) + 1 \in 1..n PROVE f[(k + 1) + 1] \in Seq(S)
          OBVIOUS
        <4>2. k \in Nat /\ k + 1 \in 1..n /\ (k + 1) + 1 # 1 /\ ((k + 1) + 1) - 1 = k + 1
          BY <2>1, <4>1
        <4>3. f[(k + 1) + 1] = f[k + 1] \o seqs[(k + 1) + 1]
          BY <2>2, <4>1, <4>2 DEF Flattened
        <4>4. f[k + 1] \in Seq(S) /\ seqs[(k + 1) + 1] \in Seq(S)
          BY <2>1, <4>1, <4>2
        <4> QED BY <4>3, <4>4
      <3>3. T = Nat
        <4> HIDE DEF T
        <4>2. T \in SUBSET Nat
          BY DEF T
        <4> QED BY <3>1, <3>2, <4>2, NatSetInduction
      <3> SUFFICES ASSUME NEW i \in 1..n PROVE f[i] \in Seq(S)
        OBVIOUS
      <3>4. i - 1 \in Nat /\ (i - 1) + 1 = i
        BY <2>1
      <3>5. (i - 1) + 1 \in 1..n => f[(i - 1) + 1] \in Seq(S)
        BY <3>3, <3>4
      <3> QED BY <3>4, <3>5
    <2> QED BY <2>1, <2>2, <2>4
  <1> QED BY <1>1, <1>2

\* No entry twice, and none in two of the sequences.
NoRepeats(q) == \A i, j \in DOMAIN q : q[i] = q[j] => i = j
Distinct(f) == \A i, k \in DOMAIN f : \A x \in DOMAIN f[i], y \in DOMAIN f[k] :
                  f[i][x] = f[k][y] => i = k /\ x = y

LEMMA ConcatOnce ==
    ASSUME NEW S, NEW q \in Seq(S), NEW r \in Seq(S),
           NoRepeats(q), NoRepeats(r), Range(q) \intersect Range(r) = {}
    PROVE  NoRepeats(q \o r)
  <1> DEFINE c == q \o r
  <1>1. /\ Len(q) \in Nat /\ Len(r) \in Nat /\ DOMAIN q = 1..Len(q) /\ DOMAIN r = 1..Len(r)
        /\ DOMAIN c = 1..(Len(q) + Len(r)) /\ \A i \in 1..Len(q) : c[i] = q[i]
        /\ \A i \in (Len(q) + 1)..(Len(q) + Len(r)) : c[i] = r[i - Len(q)] /\ i - Len(q) \in 1..Len(r)
    OBVIOUS
  <1> HIDE DEF c
  <1>2. \A i \in DOMAIN q, j \in DOMAIN r : q[i] # r[j]
    BY DEF Range
  <1> SUFFICES ASSUME NEW i \in DOMAIN c, NEW j \in DOMAIN c, c[i] = c[j] PROVE i = j
    BY DEF NoRepeats, c
  <1>3. /\ i \in 1..Len(q) \/ i \in (Len(q) + 1)..(Len(q) + Len(r))
        /\ j \in 1..Len(q) \/ j \in (Len(q) + 1)..(Len(q) + Len(r))
    BY <1>1
  <1>4. CASE i \in 1..Len(q) /\ j \in 1..Len(q)
    BY <1>1, <1>4 DEF NoRepeats
  <1>5. CASE i \in (Len(q) + 1)..(Len(q) + Len(r)) /\ j \in (Len(q) + 1)..(Len(q) + Len(r))
    <2>1. i - Len(q) = j - Len(q)
      BY <1>1, <1>5 DEF NoRepeats
    <2> QED BY <1>1, <1>5, <2>1
  <1> QED BY <1>1, <1>2, <1>3, <1>4, <1>5

LEMMA FlattenOnce ==
    ASSUME NEW S, NEW seqs \in Seq(Seq(S)), Distinct(seqs)
    PROVE  NoRepeats(FlattenSeq(seqs))
  <1>1. CASE Len(seqs) = 0
    <2>1. seqs = <<>>
      BY <1>1
    <2> QED BY <1>1, <2>1 DEF FlattenSeq, NoRepeats
  <1>2. CASE Len(seqs) # 0
    <2> DEFINE n == Len(seqs)
    <2>1. n \in Nat \ {0} /\ DOMAIN seqs = 1..n /\ \A i \in 1..n : seqs[i] \in Seq(S)
      BY <1>2
    <2>2. PICK f : FlattenSeq(seqs) = f[n] /\ \A i \in 1..n : f[i] = Flattened(seqs, f, i)
      BY <1>2, FlattenSteps
    <2> DEFINE Good(k) == /\ f[k] \in Seq(S) /\ NoRepeats(f[k])
                          /\ \A x \in Range(f[k]) : \E i \in 1..k : x \in Range(seqs[i])
               T == {k \in Nat : k + 1 \in 1..n => Good(k + 1)}
    <2>3. \A i \in 1..n : NoRepeats(seqs[i])
      BY <2>1 DEF NoRepeats, Distinct
    <2> HIDE DEF n
    <2>4. 0 \in T
      <3>1. f[1] = seqs[1] /\ 1 \in 1..n
        BY <2>1, <2>2 DEF Flattened
      <3>2. Good(1)
        BY <2>1, <2>3, <3>1
      <3> HIDE DEF Good
      <3> QED BY <3>2
    <2>5. ASSUME NEW k \in T PROVE k + 1 \in T
      <3>1. SUFFICES ASSUME (k + 1) + 1 \in 1..n PROVE Good((k + 1) + 1)
        OBVIOUS
      <3> DEFINE m == k + 1
      <3>2. k \in Nat /\ m \in 1..n /\ m + 1 \in 1..n /\ m + 1 # 1 /\ (m + 1) - 1 = m /\ 1..m \subseteq 1..(m + 1)
        BY <2>1, <3>1
      <3>3. Good(m)
        BY <3>2
      <3> HIDE DEF m
      <3>4. f[m + 1] = f[m] \o seqs[m + 1]
        BY <2>2, <3>2 DEF Flattened
      <3>5. f[m] \in Seq(S) /\ seqs[m + 1] \in Seq(S) /\ NoRepeats(f[m]) /\ NoRepeats(seqs[m + 1])
        BY <2>1, <2>3, <3>2, <3>3
      <3>6. Range(f[m]) \intersect Range(seqs[m + 1]) = {}
        <4> SUFFICES ASSUME NEW x, x \in Range(f[m]), x \in Range(seqs[m + 1]) PROVE FALSE
          OBVIOUS
        <4>1. PICK i \in 1..m : x \in Range(seqs[i])
          BY <3>3
        <4>2. PICK a \in DOMAIN seqs[i] : x = seqs[i][a]
          BY <4>1 DEF Range
        <4>3. PICK b \in DOMAIN seqs[m + 1] : x = seqs[m + 1][b]
          BY DEF Range
        <4>4. i \in DOMAIN seqs /\ m + 1 \in DOMAIN seqs /\ i # m + 1
          BY <2>1, <3>2
        <4>5. seqs[i][a] = seqs[m + 1][b]
          BY <4>2, <4>3
        <4> QED BY <4>2, <4>3, <4>4, <4>5 DEF Distinct
      <3>7. NoRepeats(f[m + 1]) /\ f[m + 1] \in Seq(S)
        BY <3>4, <3>5, <3>6, ConcatOnce
      <3>8. \A x \in Range(f[m + 1]) : \E i \in 1..(m + 1) : x \in Range(seqs[i])
        <4>1. Range(f[m + 1]) = Range(f[m]) \union Range(seqs[m + 1])
          BY <3>4, <3>5, RangeConcatenation
        <4>2. m + 1 \in 1..(m + 1)
          BY <3>2
        <4> QED BY <3>2, <3>3, <4>1, <4>2
      <3> QED BY <3>7, <3>8 DEF m
    <2>6. n - 1 \in T
      <3>1. T = Nat
        <4> HIDE DEF T
        <4>2. T \in SUBSET Nat
          BY DEF T
        <4> QED BY <2>4, <2>5, <4>2, NatSetInduction
      <3> HIDE DEF T
      <3> QED BY <2>1, <3>1
    <2>7. Good(n)
      <3>1. (n - 1) + 1 = n /\ n \in 1..n
        BY <2>1
      <3> HIDE DEF Good
      <3> QED BY <2>6, <3>1
    <2> QED BY <2>2, <2>7 DEF n
  <1> QED BY <1>1, <1>2

-------------------------------------------------------------------------------
(* Accept: what a batch adds to the transactions the network has. *)

Accepting(acc, batch, f, s) ==
    IF s = {} THEN acc
    ELSE LET i == Max(s) IN IF Valid(batch[i], f[s \ {i}]) THEN f[s \ {i}] \union {batch[i]} ELSE f[s \ {i}]

LEMMA MaxOfFinite ==
    ASSUME NEW n \in Nat, NEW s, s \subseteq 1..n, s # {}
    PROVE  Max(s) \in s
  <1> DEFINE T == {k \in Nat : \E i \in s : i + k = n}
  <1>1. T # {} /\ T \in SUBSET Nat
    <2>1. PICK i \in s : TRUE
      OBVIOUS
    <2>2. i \in 1..n
      BY <2>1
    <2>3. n - i \in T
      BY <2>1, <2>2
    <2> QED BY <2>3
  <1>2. PICK k \in T : \A j \in T : ~(j < k)
    <2> HIDE DEF T
    <2> QED BY <1>1, LeastNat
  <1>3. PICK i \in s : i + k = n
    BY <1>2
  <1>4. \A j \in s : i >= j
    <2> SUFFICES ASSUME NEW j \in s PROVE i >= j
      OBVIOUS
    <2>1. j \in 1..n /\ i \in 1..n
      OBVIOUS
    <2>2. n - j \in T
      BY <2>1
    <2>3. ~(n - j < k) /\ k \in Nat
      BY <1>2, <2>2
    <2> QED BY <1>3, <2>1, <2>3
  <1>5. \E x \in s : \A y \in s : x >= y
    BY <1>4
  <1> QED BY <1>5 DEF Max

LEMMA AcceptGrows ==
    ASSUME NEW acc, NEW batch, NEW S, batch \in Seq(S)
    PROVE  /\ acc \subseteq Accept(acc, batch) /\ Accept(acc, batch) \subseteq acc \union Range(batch)
           /\ \A t \in Accept(acc, batch) \ acc : \A u \in Inputs(t) : u.txid \in Accept(acc, batch)
           /\ \A t : batch = <<t>> /\ Valid(t, acc) => t \in Accept(acc, batch)
  <1> DEFINE n == Len(batch)
             D == 1..n
             UpTo(k) == {s \in SUBSET D : Cardinality(s) <= k}
             Goes(k) == \E f : f = [s \in UpTo(k) |-> Accepting(acc, batch, f, s)]
  <1>1. n \in Nat /\ IsFiniteSet(D) /\ Cardinality(D) = n /\ DOMAIN batch = D
    <2>1. n \in Nat /\ DOMAIN batch = D
      OBVIOUS
    <2>2. IsFiniteSet(1..n) /\ Cardinality(1..n) = IF 1 > n THEN 0 ELSE n - 1 + 1
      BY <2>1, FS_Interval
    <2> QED BY <2>1, <2>2
  <1>2. ASSUME NEW s \in SUBSET D, s # {}
        PROVE  /\ Max(s) \in s /\ IsFiniteSet(s) /\ Cardinality(s) \in Nat
               /\ Cardinality(s \ {Max(s)}) = Cardinality(s) - 1
    <2>1. Max(s) \in s
      BY <1>1, <1>2, MaxOfFinite
    <2>2. IsFiniteSet(s) /\ Cardinality(s) \in Nat
      BY <1>1, FS_Subset, FS_CardinalityType
    <2> QED BY <2>1, <2>2, FS_RemoveElement
  <1>3. Cardinality({}) = 0
    BY FS_EmptySet
  <1>4. \A k \in Nat : Goes(k)
    <2>1. Goes(0)
      <3> DEFINE f == [s \in UpTo(0) |-> acc]
      <3>1. ASSUME NEW s \in UpTo(0) PROVE s = {}
        <4>1. s # {} => Cardinality(s \ {Max(s)}) = Cardinality(s) - 1 /\ Cardinality(s) \in Nat
          BY <1>2
        <4>2. s # {} => Cardinality(s \ {Max(s)}) \in Nat
          BY <1>1, FS_Subset, FS_CardinalityType
        <4> QED BY <4>1, <4>2
      <3>2. \A s \in UpTo(0) : f[s] = Accepting(acc, batch, f, s)
        BY <3>1 DEF Accepting
      <3>3. f = [s \in UpTo(0) |-> Accepting(acc, batch, f, s)]
        BY <3>2
      <3> QED BY <3>3
    <2>2. ASSUME NEW k \in Nat, Goes(k) PROVE Goes(k + 1)
      <3>1. PICK f : f = [s \in UpTo(k) |-> Accepting(acc, batch, f, s)]
        BY <2>2
      <3>2. \A s \in UpTo(k) : f[s] = Accepting(acc, batch, f, s)
        BY <3>1
      <3> DEFINE g == [s \in UpTo(k + 1) |-> IF s \in UpTo(k) THEN f[s] ELSE Accepting(acc, batch, f, s)]
      <3>3. ASSUME NEW s \in UpTo(k + 1) PROVE g[s] = Accepting(acc, batch, g, s)
        <4>1. s # {} => s \ {Max(s)} \in UpTo(k) /\ s \ {Max(s)} \in UpTo(k + 1)
          <5>1. s \in SUBSET D /\ Cardinality(s) <= k + 1
            BY <3>3
          <5>2. s # {} => Cardinality(s \ {Max(s)}) = Cardinality(s) - 1 /\ Cardinality(s) \in Nat
            BY <1>2, <5>1
          <5>3. s # {} => Cardinality(s \ {Max(s)}) <= k /\ Cardinality(s \ {Max(s)}) <= k + 1
            BY <5>1, <5>2
          <5> QED BY <5>1, <5>3
        <4>2. s # {} => g[s \ {Max(s)}] = f[s \ {Max(s)}]
          BY <4>1
        <4>3. Accepting(acc, batch, g, s) = Accepting(acc, batch, f, s)
          <5> HIDE DEF g
          <5> QED BY <4>2 DEF Accepting
        <4>4. s \in UpTo(k) => f[s] = Accepting(acc, batch, f, s)
          BY <3>2
        <4>5. g[s] = IF s \in UpTo(k) THEN f[s] ELSE Accepting(acc, batch, f, s)
          BY <3>3
        <4> QED BY <4>3, <4>4, <4>5
      <3>4. g = [s \in UpTo(k + 1) |-> Accepting(acc, batch, g, s)]
        BY <3>3
      <3> QED BY <3>4
    <2> DEFINE T == {k \in Nat : Goes(k)}
    <2>3. 0 \in T /\ T \in SUBSET Nat /\ \A k \in T : k + 1 \in T
      <3> HIDE DEF Goes
      <3> QED BY <2>1, <2>2
    <2>4. T = Nat
      <3> HIDE DEF T
      <3> QED BY <2>3, NatSetInduction
    <2> QED BY <2>4
  <1> DEFINE f == CHOOSE f : f = [s \in SUBSET D |-> Accepting(acc, batch, f, s)]
  <1>5. f = [s \in SUBSET D |-> Accepting(acc, batch, f, s)]
    <2>1. UpTo(n) = SUBSET D
      <3>1. \A s \in SUBSET D : Cardinality(s) <= n
        <4>1. \A s \in SUBSET D : Cardinality(s) <= Cardinality(D)
          BY <1>1, FS_Subset
        <4> QED BY <1>1, <4>1
      <3> QED BY <3>1
    <2>2. Goes(n)
      BY <1>1, <1>4
    <2>3. \E h : h = [s \in SUBSET D |-> Accepting(acc, batch, h, s)]
      BY <2>1, <2>2
    <2> QED BY <2>3
  <1>6. Accept(acc, batch) = f[D]
    BY <1>1 DEF Accept, FoldLeft, MapThenFoldSet, Accepting
  <1> HIDE DEF f
  <1>7. \A s \in SUBSET D : f[s] = Accepting(acc, batch, f, s)
    BY <1>5
  <1> DEFINE Fits(s) == /\ acc \subseteq f[s] /\ f[s] \subseteq acc \union Range(batch)
                        /\ \A t \in f[s] \ acc : \A u \in Inputs(t) : u.txid \in f[s]
             T == {k \in Nat : \A s \in SUBSET D : Cardinality(s) = k => Fits(s)}
  <1>8. T = Nat
    <2>1. 0 \in T
      <3>1. ASSUME NEW s \in SUBSET D, Cardinality(s) = 0 PROVE Fits(s)
        <4>1. s = {}
          BY <1>1, <3>1, FS_Subset, FS_EmptySet
        <4> QED BY <1>7, <4>1 DEF Accepting
      <3> QED BY <3>1
    <2>2. ASSUME NEW k \in T PROVE k + 1 \in T
      <3>1. ASSUME NEW s \in SUBSET D, Cardinality(s) = k + 1 PROVE Fits(s)
        <4>1. s # {}
          <5>1. k \in Nat /\ k + 1 # 0
            OBVIOUS
          <5> QED BY <1>3, <3>1, <5>1
        <4>2. Max(s) \in s /\ Cardinality(s \ {Max(s)}) = k
          <5>1. Max(s) \in s /\ Cardinality(s \ {Max(s)}) = Cardinality(s) - 1
            BY <1>2, <4>1
          <5>2. k \in Nat /\ (k + 1) - 1 = k
            OBVIOUS
          <5> QED BY <3>1, <5>1, <5>2
        <4>3. Fits(s \ {Max(s)})
          BY <4>2
        <4>4. batch[Max(s)] \in Range(batch)
          BY <1>1, <4>2 DEF Range
        <4>5. \/ f[s] = f[s \ {Max(s)}]
              \/ f[s] = f[s \ {Max(s)}] \union {batch[Max(s)]} /\ Valid(batch[Max(s)], f[s \ {Max(s)}])
          BY <1>7, <4>1 DEF Accepting
        <4>6. Valid(batch[Max(s)], f[s \ {Max(s)}])
              => \A u \in Inputs(batch[Max(s)]) : u.txid \in f[s \ {Max(s)}]
          BY DEF Valid
        <4> QED BY <4>3, <4>4, <4>5, <4>6
      <3> QED BY <3>1
    <2>3. T \in SUBSET Nat
      OBVIOUS
    <2> HIDE DEF T
    <2> QED BY <2>1, <2>2, <2>3, NatSetInduction
  <1>9. Fits(D)
    BY <1>1, <1>8
  <1>10. ASSUME NEW t, batch = <<t>>, Valid(t, acc) PROVE t \in f[D]
    <2>1. D = {1} /\ batch[1] = t
      BY <1>1, <1>10
    <2>2. Max(D) = 1 /\ D # {} /\ D \ {Max(D)} = {}
      BY <1>2, <2>1
    <2>3. f[{}] = acc
      BY <1>7 DEF Accepting
    <2>4. f[D] = Accepting(acc, batch, f, D)
      BY <1>7
    <2> HIDE DEF D
    <2> QED BY <1>10, <2>1, <2>2, <2>3, <2>4 DEF Accepting
  <1> QED BY <1>6, <1>9, <1>10
-------------------------------------------------------------------------------
(* Total: the sum of what the outputs of a sequence are worth. *)

Valued == [satoshis : Int]
Summing(q, f, s) == IF s = {} THEN 0 ELSE LET x == CHOOSE x \in s : TRUE IN q[x].satoshis + f[s \ {x}]

\* One member of s can be set apart, whichever it is.
SumOf(q, f) ==
    /\ f \in [SUBSET DOMAIN q -> Int] /\ f[{}] = 0
    /\ \A s \in SUBSET DOMAIN q : \A i \in s : f[s] = q[i].satoshis + f[s \ {i}]

LEMMA FiniteParts ==
    ASSUME NEW D, IsFiniteSet(D), NEW s \in SUBSET D, NEW x \in s
    PROVE  /\ Cardinality(s) \in Nat \ {0} /\ Cardinality(s \ {x}) = Cardinality(s) - 1
           /\ Cardinality(s) <= Cardinality(D)
  <1>1. IsFiniteSet(s) /\ Cardinality(s) \in Nat /\ Cardinality(s) <= Cardinality(D)
    BY FS_Subset, FS_CardinalityType
  <1>2. Cardinality(s \ {x}) = Cardinality(s) - 1
    BY <1>1, FS_RemoveElement
  <1>3. Cardinality(s \ {x}) \in Nat
    BY <1>1, FS_Subset, FS_CardinalityType
  <1> QED BY <1>1, <1>2, <1>3

LEMMA SumExists ==
    ASSUME NEW q, IsFiniteSet(DOMAIN q)
    PROVE  \E f : f = [s \in SUBSET DOMAIN q |-> Summing(q, f, s)]
  <1> DEFINE D == DOMAIN q
             UpTo(k) == {s \in SUBSET D : Cardinality(s) <= k}
             Goes(k) == \E f : f = [s \in UpTo(k) |-> Summing(q, f, s)]
  <1>1. Goes(0)
    <2> DEFINE f == [s \in UpTo(0) |-> 0]
    <2>1. \A s \in UpTo(0) : s = {}
      <3> SUFFICES ASSUME NEW s \in UpTo(0), NEW x \in s PROVE FALSE
        OBVIOUS
      <3>1. Cardinality(s) \in Nat \ {0} /\ Cardinality(s) <= 0
        BY FiniteParts
      <3> QED BY <3>1
    <2>2. \A s \in UpTo(0) : f[s] = Summing(q, f, s)
      BY <2>1 DEF Summing
    <2>3. f = [s \in UpTo(0) |-> Summing(q, f, s)]
      BY <2>2
    <2> QED BY <2>3
  <1>2. ASSUME NEW k \in Nat, Goes(k) PROVE Goes(k + 1)
    <2>1. PICK f : f = [s \in UpTo(k) |-> Summing(q, f, s)]
      BY <1>2
    <2>2. \A s \in UpTo(k) : f[s] = Summing(q, f, s)
      BY <2>1
    <2> DEFINE g == [s \in UpTo(k + 1) |-> IF s \in UpTo(k) THEN f[s] ELSE Summing(q, f, s)]
    <2>3. ASSUME NEW s \in UpTo(k + 1) PROVE g[s] = Summing(q, g, s)
      <3>1. ASSUME NEW x \in s PROVE s \ {x} \in UpTo(k) /\ s \ {x} \in UpTo(k + 1)
        <4>1. s \in SUBSET D /\ Cardinality(s) <= k + 1 /\ Cardinality(s) \in Nat
              /\ Cardinality(s \ {x}) = Cardinality(s) - 1
          BY <2>3, FiniteParts
        <4>2. Cardinality(s \ {x}) <= k /\ Cardinality(s \ {x}) <= k + 1
          BY <4>1
        <4> QED BY <4>1, <4>2
      <3>2. \A x \in s : g[s \ {x}] = f[s \ {x}]
        BY <3>1
      <3>3. Summing(q, g, s) = Summing(q, f, s)
        <4> HIDE DEF g
        <4>1. s # {} => (CHOOSE x \in s : TRUE) \in s
          OBVIOUS
        <4> QED BY <3>2, <4>1 DEF Summing
      <3>4. s \in UpTo(k) => f[s] = Summing(q, f, s)
        BY <2>2
      <3>5. g[s] = IF s \in UpTo(k) THEN f[s] ELSE Summing(q, f, s)
        BY <2>3
      <3> QED BY <3>3, <3>4, <3>5
    <2>4. g = [s \in UpTo(k + 1) |-> Summing(q, g, s)]
      BY <2>3
    <2> QED BY <2>4
  <1> DEFINE T == {k \in Nat : Goes(k)}
  <1>3. 0 \in T /\ T \in SUBSET Nat /\ \A k \in T : k + 1 \in T
    <2> HIDE DEF Goes
    <2> QED BY <1>1, <1>2
  <1>4. T = Nat
    <2> HIDE DEF T
    <2> QED BY <1>3, NatSetInduction
  <1>5. Cardinality(D) \in Nat
    BY FS_CardinalityType
  <1>6. UpTo(Cardinality(D)) = SUBSET D
    BY FS_Subset
  <1>7. Goes(Cardinality(D))
    BY <1>4, <1>5
  <1> QED BY <1>6, <1>7

LEMMA TotalIsSum ==
    ASSUME NEW q, IsFiniteSet(DOMAIN q), \A i \in DOMAIN q : q[i].satoshis \in Int
    PROVE  \E f : SumOf(q, f) /\ Total(q) = f[DOMAIN q]
  <1> DEFINE D == DOMAIN q
             f == CHOOSE f : f = [s \in SUBSET D |-> Summing(q, f, s)]
  <1>1. f = [s \in SUBSET D |-> Summing(q, f, s)]
    BY SumExists
  <1>2. Total(q) = f[D]
    BY DEF Total, FoldSeq, FoldFunction, FoldFunctionOnSet, MapThenFoldSet, Summing
  <1> HIDE DEF f
  <1>3. \A s \in SUBSET D : f[s] = Summing(q, f, s)
    BY <1>1
  <1>4. f[{}] = 0
    BY <1>3 DEF Summing
  <1> DEFINE Apart(s) == f[s] \in Int /\ \A i \in s : f[s] = q[i].satoshis + f[s \ {i}]
             T == {k \in Nat : \A s \in SUBSET D : Cardinality(s) <= k => Apart(s)}
  <1>5. 0 \in T
    <2> SUFFICES ASSUME NEW s \in SUBSET D, Cardinality(s) <= 0 PROVE Apart(s)
      OBVIOUS
    <2>1. \A x \in s : Cardinality(s) \in Nat \ {0}
      BY FiniteParts
    <2>2. s = {}
      BY <2>1
    <2> QED BY <1>4, <2>2
  <1>6. ASSUME NEW k \in T PROVE k + 1 \in T
    <2>0. k \in Nat /\ k + 1 \in Nat /\ (k + 1) - 1 = k /\ k + 1 # 0
      BY <1>6
    <2>9. Apart({})
      BY <1>4
    <2>1. SUFFICES ASSUME NEW s \in SUBSET D, Cardinality(s) <= k + 1, s # {} PROVE Apart(s)
      <3> HIDE DEF Apart
      <3> QED BY <2>0, <2>9
    <2>2. ASSUME NEW w \in SUBSET s, NEW i \in w PROVE w \ {i} \in SUBSET D /\ Cardinality(w \ {i}) <= k /\ Apart(w \ {i})
      <3>1. /\ Cardinality(s) \in Nat /\ Cardinality(w) \in Nat /\ Cardinality(w) <= Cardinality(s)
            /\ Cardinality(w \ {i}) = Cardinality(w) - 1
        <4>1. IsFiniteSet(s) /\ Cardinality(s) \in Nat
          BY FS_Subset, FS_CardinalityType
        <4> QED BY <4>1, FiniteParts
      <3>3. Cardinality(w \ {i}) <= k
        BY <2>0, <2>1, <3>1
      <3>2. w \ {i} \in SUBSET D
        OBVIOUS
      <3> QED BY <1>6, <3>2, <3>3
    <2> DEFINE x == CHOOSE x \in s : TRUE
    <2>3. s # {}
      BY <2>1
    <2>4. x \in s
      BY <2>3
    <2>5. f[s] = q[x].satoshis + f[s \ {x}]
      BY <1>3, <2>3 DEF Summing
    <2> HIDE DEF x
    <2>6. f[s \ {x}] \in Int /\ \A i \in s \ {x} : f[s \ {x}] = q[i].satoshis + f[(s \ {x}) \ {i}]
      BY <2>2, <2>4
    <2>7. ASSUME NEW i \in s PROVE f[s] = q[i].satoshis + f[s \ {i}]
      <3>1. CASE i = x
        BY <2>5, <3>1
      <3>2. CASE i # x
        <4>1. f[s \ {x}] = q[i].satoshis + f[(s \ {x}) \ {i}]
          BY <2>6, <3>2
        <4>2. f[s \ {i}] = q[x].satoshis + f[(s \ {i}) \ {x}] /\ f[s \ {i}] \in Int
          BY <2>2, <2>4, <3>2
        <4>3. (s \ {x}) \ {i} = (s \ {i}) \ {x}
          OBVIOUS
        <4>4. f[(s \ {i}) \ {x}] \in Int
          <5>1. s \ {i} \in SUBSET s /\ x \in s \ {i}
            BY <2>4, <3>2
          <5> QED BY <2>2, <5>1
        <4>5. q[x].satoshis \in Int /\ q[i].satoshis \in Int
          BY <2>4, <2>7
        <4>6. f[s \ {x}] = q[i].satoshis + f[(s \ {i}) \ {x}]
          BY <4>1, <4>3
        <4> QED BY <2>5, <4>2, <4>4, <4>5, <4>6
      <3> QED BY <3>1, <3>2
    <2>8. f[s] \in Int
      <3>1. q[x].satoshis \in Int
        BY <2>4
      <3> QED BY <2>5, <2>6, <3>1
    <2> QED BY <2>7, <2>8
  <1>7. T = Nat
    <2>1. T \in SUBSET Nat
      OBVIOUS
    <2> HIDE DEF T
    <2> QED BY <1>5, <1>6, <2>1, NatSetInduction
  <1>8. ASSUME NEW s \in SUBSET D PROVE Apart(s)
    <2>1. Cardinality(s) \in Nat
      BY FS_Subset, FS_CardinalityType
    <2>2. Cardinality(s) \in T
      <3> HIDE DEF T
      <3> QED BY <1>7, <2>1
    <2>3. Cardinality(s) <= Cardinality(s)
      BY <2>1
    <2> QED BY <2>2, <2>3
  <1>9. f \in [SUBSET D -> Int]
    BY <1>1, <1>8
  <1>10. SumOf(q, f)
    BY <1>4, <1>8, <1>9 DEF SumOf
  <1> QED BY <1>2, <1>10
\* A sum depends only on the values it is taken over.
LEMMA SumsAgree ==
    ASSUME NEW q, NEW r, NEW f, NEW g, SumOf(q, f), SumOf(r, g), NEW D, IsFiniteSet(D),
           D \subseteq DOMAIN q, D \subseteq DOMAIN r, \A i \in D : q[i].satoshis = r[i].satoshis
    PROVE  f[D] = g[D]
  <1> DEFINE T == {k \in Nat : \A s \in SUBSET D : Cardinality(s) <= k => f[s] = g[s]}
  <1>1. 0 \in T
    <2> SUFFICES ASSUME NEW s \in SUBSET D, Cardinality(s) <= 0 PROVE f[s] = g[s]
      OBVIOUS
    <2>1. \A x \in s : Cardinality(s) \in Nat \ {0}
      BY FiniteParts
    <2>2. s = {}
      BY <2>1
    <2> QED BY <2>2 DEF SumOf
  <1>2. ASSUME NEW k \in T PROVE k + 1 \in T
    <2>0. k \in Nat /\ k + 1 \in Nat
      BY <1>2
    <2>1. SUFFICES ASSUME NEW s \in SUBSET D, Cardinality(s) <= k + 1, NEW x \in s PROVE f[s] = g[s]
      <3>1. f[{}] = g[{}]
        BY DEF SumOf
      <3> QED BY <2>0, <3>1
    <2>2. Cardinality(s \ {x}) = Cardinality(s) - 1 /\ Cardinality(s) \in Nat
      BY FiniteParts
    <2>3. s \ {x} \in SUBSET D /\ Cardinality(s \ {x}) <= k
      BY <2>0, <2>1, <2>2
    <2>4. f[s \ {x}] = g[s \ {x}]
      BY <1>2, <2>3
    <2>5. f[s] = q[x].satoshis + f[s \ {x}]
      BY DEF SumOf
    <2>6. g[s] = r[x].satoshis + g[s \ {x}]
      BY DEF SumOf
    <2> QED BY <2>4, <2>5, <2>6
  <1>3. T = Nat
    <2>1. T \in SUBSET Nat
      OBVIOUS
    <2> HIDE DEF T
    <2> QED BY <1>1, <1>2, <2>1, NatSetInduction
  <1>4. Cardinality(D) \in T /\ Cardinality(D) <= Cardinality(D)
    BY <1>3, FS_CardinalityType
  <1> QED BY <1>4


LEMMA TotalEmpty == Total(<<>>) = 0
  <1>1. DOMAIN <<>> = {} /\ IsFiniteSet({})
    BY FS_EmptySet
  <1>2. PICK f : SumOf(<<>>, f) /\ Total(<<>>) = f[DOMAIN <<>>]
    BY <1>1, TotalIsSum
  <1> QED BY <1>1, <1>2 DEF SumOf

LEMMA TotalAppend ==
    ASSUME NEW S, NEW q \in Seq(S), NEW x \in S, \A u \in S : u.satoshis \in Int
    PROVE  Total(q) \in Int /\ Total(Append(q, x)) = Total(q) + x.satoshis
  <1> DEFINE r == Append(q, x)
             n == Len(q)
  <1>1. /\ n \in Nat /\ DOMAIN q = 1..n /\ DOMAIN r = 1..(n + 1)
        /\ r[n + 1] = x /\ (\A i \in 1..n : r[i] = q[i] /\ q[i] \in S)
    OBVIOUS
  <1>2. (\A i \in DOMAIN q : q[i].satoshis \in Int) /\ (\A i \in DOMAIN r : r[i].satoshis \in Int)
    BY <1>1
  <1>3. IsFiniteSet(1..n) /\ IsFiniteSet(1..(n + 1))
    BY <1>1, FS_Interval
  <1> HIDE DEF r
  <1>4. PICK f : SumOf(q, f) /\ Total(q) = f[1..n]
    BY <1>1, <1>2, <1>3, TotalIsSum
  <1>5. PICK g : SumOf(r, g) /\ Total(r) = g[1..(n + 1)]
    BY <1>1, <1>2, <1>3, TotalIsSum
  <1>6. f[1..n] = g[1..n]
    <2>1. \A i \in 1..n : q[i].satoshis = r[i].satoshis
      BY <1>1
    <2>2. 1..n \subseteq DOMAIN q /\ 1..n \subseteq DOMAIN r
      BY <1>1
    <2> QED BY <1>3, <1>4, <1>5, <2>1, <2>2, SumsAgree
  <1>7. g[1..(n + 1)] = r[n + 1].satoshis + g[(1..(n + 1)) \ {n + 1}]
    <2>1. n + 1 \in 1..(n + 1) /\ 1..(n + 1) \in SUBSET DOMAIN r
      BY <1>1
    <2> QED BY <1>5, <2>1 DEF SumOf
  <1>8. (1..(n + 1)) \ {n + 1} = 1..n
    BY <1>1
  <1>9. f[1..n] \in Int
    BY <1>1, <1>4 DEF SumOf
  <1>10. Total(r) = Total(q) + x.satoshis
    <2>1. x.satoshis \in Int
      OBVIOUS
    <2>2. Total(r) = x.satoshis + f[1..n]
      BY <1>1, <1>5, <1>6, <1>7, <1>8
    <2> QED BY <1>4, <1>9, <2>1, <2>2
  <1> QED BY <1>4, <1>9, <1>10 DEF r

\* What sequences of no, one and two outputs are worth.
LEMMA TotalShort ==
    ASSUME NEW x, x.satoshis \in Int
    PROVE  /\ Total(<<x>>) = x.satoshis
           /\ \A y : y.satoshis \in Int => Total(<<x, y>>) = x.satoshis + y.satoshis
  <1>1. \A y : y.satoshis \in Int => Total(<<x>>) = x.satoshis /\ Total(<<x, y>>) = x.satoshis + y.satoshis
    <2> SUFFICES ASSUME NEW y, y.satoshis \in Int
                 PROVE Total(<<x>>) = x.satoshis /\ Total(<<x, y>>) = x.satoshis + y.satoshis
      OBVIOUS
    <2> DEFINE S == {x, y}
    <2>1. <<>> \in Seq(S) /\ <<x>> \in Seq(S)
      OBVIOUS
    <2>5. Append(<<>>, x) = <<x>>
      OBVIOUS
    <2>6. Append(<<x>>, y) = <<x, y>>
      <3> DEFINE q == <<x>>
                 r == <<x, y>>
      <3>1. q \in Seq(S) /\ r \in Seq(S) /\ y \in S /\ Len(q) = 1 /\ Len(r) = 2 /\ q[1] = x /\ r[1] = x /\ r[2] = y
        OBVIOUS
      <3> HIDE DEF q, r, S
      <3>5. \A w : w \in Seq(S) => /\ Append(w, y) \in Seq(S) /\ Len(Append(w, y)) = Len(w) + 1
                                   /\ Append(w, y)[Len(w) + 1] = y
                                   /\ \A i \in 1..Len(w) : Append(w, y)[i] = w[i]
        BY <3>1
      <3>6. Append(q, y) \in Seq(S) /\ Len(Append(q, y)) = Len(q) + 1
            /\ Append(q, y)[Len(q) + 1] = y /\ \A i \in 1..Len(q) : Append(q, y)[i] = q[i]
        BY <3>1, <3>5
      <3>2. Append(q, y) \in Seq(S) /\ Len(Append(q, y)) = 2 /\ Append(q, y)[1] = x /\ Append(q, y)[2] = y
        BY <3>1, <3>6
      <3>3. \A i \in 1..2 : Append(q, y)[i] = r[i]
        BY <3>1, <3>2
      <3>4. Append(q, y) = r
        BY <3>1, <3>2, <3>3
      <3> QED BY <3>4 DEF q, r
    <2>2. x \in S /\ y \in S /\ \A u \in S : u.satoshis \in Int
      OBVIOUS
    <2> HIDE DEF S
    <2>3. Total(Append(<<>>, x)) = Total(<<>>) + x.satoshis
      BY <2>1, <2>2, TotalAppend
    <2>4. Total(Append(<<x>>, y)) = Total(<<x>>) + y.satoshis
      BY <2>1, <2>2, TotalAppend
    <2>7. Total(<<x>>) = x.satoshis
      BY <2>3, <2>5, TotalEmpty
    <2> QED BY <2>4, <2>6, <2>7
  <1> QED BY <1>1

\* n equal outputs.
LEMMA TotalEqual ==
    ASSUME NEW n \in Nat, NEW u, u.satoshis \in Int
    PROVE  Total([i \in 1..n |-> u]) = n * u.satoshis
  <1> DEFINE T == {k \in Nat : Total([i \in 1..k |-> u]) = k * u.satoshis}
  <1>1. 0 \in T
    <2>1. [i \in 1..0 |-> u] = <<>>
      OBVIOUS
    <2>2. 0 * u.satoshis = 0
      OBVIOUS
    <2> QED BY <2>1, <2>2, TotalEmpty
  <1>2. ASSUME NEW k \in T PROVE k + 1 \in T
    <2>1. [i \in 1..(k + 1) |-> u] = Append([i \in 1..k |-> u], u) /\ [i \in 1..k |-> u] \in Seq({u})
      OBVIOUS
    <2>2. Total(Append([i \in 1..k |-> u], u)) = Total([i \in 1..k |-> u]) + u.satoshis
      <3> DEFINE S == {u}
                 q == [i \in 1..k |-> u]
      <3>1. q \in Seq(S) /\ u \in S /\ \A w \in S : w.satoshis \in Int
        BY <2>1
      <3> HIDE DEF S, q
      <3>2. Total(Append(q, u)) = Total(q) + u.satoshis
        BY <3>1, TotalAppend
      <3> QED BY <3>2 DEF q
    <2>3. (k + 1) * u.satoshis = k * u.satoshis + u.satoshis
      <3>1. k \in Int /\ u.satoshis \in Int
        OBVIOUS
      <3> QED BY <3>1
    <2>4. Total([i \in 1..(k + 1) |-> u]) = (k + 1) * u.satoshis /\ k + 1 \in Nat
      <3>1. Total([i \in 1..k |-> u]) = k * u.satoshis /\ k \in Nat
        BY <1>2
      <3>2. Total([i \in 1..(k + 1) |-> u]) = Total(Append([i \in 1..k |-> u], u))
        BY <2>1
      <3>3. Total([i \in 1..(k + 1) |-> u]) = k * u.satoshis + u.satoshis
        BY <2>2, <3>1, <3>2
      <3> QED BY <2>3, <3>1, <3>3
    <2> QED BY <2>4
  <1>3. T = Nat
    <2>1. T \in SUBSET Nat
      OBVIOUS
    <2> HIDE DEF T
    <2> QED BY <1>1, <1>2, <2>1, NatSetInduction
  <1> QED BY <1>3
-------------------------------------------------------------------------------
(* What the wallet is made of. *)

\* Outputs of the transactions T, transactions that spend such outputs, and calls with such a transaction.
Known(T) == [txid : T, vout : Int, satoshis : Nat]
Out == [lock : Locks, satoshis : Nat]
Outs == Seq(Out)
Kinds == CallKinds \union {"funding", "split", "sweep"}
TxOver(T) == [kind : Kinds, ins : Seq(Known(T)), prev : Seq(Known(T)), outs : Outs]
CallOver(T) == [stream : Streams, tx : TxOver(T), txid : Int, stage : {"signing", "sending", "sent"}, attempt : Int]

\* Every transaction spends outputs of earlier ones.
TxsOK == /\ txs \in Seq(TxOver(Nat)) /\ Len(txs) >= 1
         /\ \A t \in DOMAIN txs : txs[t] \in TxOver(1..(t - 1))

LEMMA MoreKnown ==
    ASSUME NEW T, NEW U, T \subseteq U
    PROVE  /\ Known(T) \subseteq Known(U) /\ Seq(Known(T)) \subseteq Seq(Known(U))
           /\ TxOver(T) \subseteq TxOver(U) /\ CallOver(T) \subseteq CallOver(U)
  <1>1. Known(T) \subseteq Known(U)
    BY DEF Known
  <1>2. Seq(Known(T)) \subseteq Seq(Known(U))
    BY <1>1
  <1>3. TxOver(T) \subseteq TxOver(U)
    BY <1>2 DEF TxOver
  <1>4. CallOver(T) \subseteq CallOver(U)
    BY <1>3 DEF CallOver
  <1> QED BY <1>1, <1>2, <1>3, <1>4

LEMMA PartOf ==
    ASSUME NEW S, NEW q \in Seq(S), NEW m \in 1..(Len(q) + 1), NEW n \in 0..Len(q)
    PROVE  /\ SubSeq(q, m, n) \in Seq(S) /\ Len(SubSeq(q, m, n)) = IF m <= n THEN n - m + 1 ELSE 0
           /\ \A i \in 1..Len(SubSeq(q, m, n)) : SubSeq(q, m, n)[i] = q[m + i - 1] /\ m + i - 1 \in m..n
  <1>1. \A i \in m..n : q[i] \in S
    OBVIOUS
  <1> QED BY <1>1, SMTT(30)

LEMMA LeastOf ==
    ASSUME NEW S, NEW q \in Seq(S), NEW I \in SUBSET DOMAIN q, I # {}
    PROVE  \E i \in I : \A j \in I : i <= j
  <1>1. I \in SUBSET Nat
    OBVIOUS
  <1>2. PICK i \in I : \A j \in I : ~(j < i)
    BY <1>1, LeastNat
  <1> QED BY <1>1, <1>2

LEMMA FirstUsefulIn ==
    ASSUME NEW S, NEW pool \in Seq(S), \E i \in DOMAIN pool : Useful(pool[i])
    PROVE  FirstUseful(pool) \in DOMAIN pool /\ Useful(pool[FirstUseful(pool)])
  <1> DEFINE I == {i \in DOMAIN pool : Useful(pool[i])}
  <1>1. I # {} /\ I \in SUBSET DOMAIN pool
    OBVIOUS
  <1>2. PICK i \in I : \A j \in I : i <= j
    <2> HIDE DEF I
    <2> QED BY <1>1, LeastOf
  <1>3. \A j \in 1..(i - 1) : ~Useful(pool[j])
    <2> SUFFICES ASSUME NEW j \in 1..(i - 1), Useful(pool[j]) PROVE FALSE
      OBVIOUS
    <2>1. i \in 1..Len(pool) /\ Len(pool) \in Nat
      BY <1>2
    <2>2. j \in DOMAIN pool /\ ~(i <= j)
      BY <2>1
    <2> QED BY <1>2, <2>2
  <1>4. \E k \in DOMAIN pool : Useful(pool[k]) /\ \A j \in 1..(k - 1) : ~Useful(pool[j])
    BY <1>2, <1>3
  <1> QED BY <1>4 DEF FirstUseful

LEMMA PartitionType ==
    ASSUME NEW S, NEW q \in Seq(S)
    PROVE  Partition(q) \in [Streams -> Seq(S)]
  <1> DEFINE N == NumStreams
  <1>1. N \in Nat \ {0} /\ Len(q) \in Nat
    BY EngineAssumption
  <1>2. ASSUME NEW s \in Streams
        PROVE  [i \in 1..((Len(q) - s + N - 1) \div N) |-> q[(i - 1) * N + s + 1]] \in Seq(S)
    <2> DEFINE x == Len(q) - s + N - 1
               d == x \div N
    <2>1. s \in Int /\ 0 <= s /\ s <= N - 1 /\ x \in Nat
      BY <1>1 DEF Streams
    <2>2. d \in Nat /\ d * N <= x
      BY <1>1, <2>1
    <2>3. ASSUME NEW i \in 1..d PROVE (i - 1) * N + s + 1 \in 1..Len(q)
      <3>1. i \in Int /\ 1 <= i /\ i <= d /\ d \in Int
        BY <2>2
      <3> HIDE DEF d, N
      <3>2. (i - 1) * N >= 0
        BY <1>1, <3>1
      <3>3. (i - 1) * N <= (d - 1) * N
        BY <1>1, <3>1
      <3>4. (d - 1) * N = d * N - N /\ d * N \in Int /\ (i - 1) * N \in Int
        BY <1>1, <3>1
      <3> DEFINE a == (i - 1) * N
      <3>5. a + s + 1 >= 1 /\ a + s + 1 <= Len(q) /\ a + s + 1 \in Int
        <4> DEFINE b == d * N
        <4>1. a \in Int /\ b \in Int /\ a >= 0 /\ a <= b - N /\ b <= Len(q) - s + N - 1
          BY <2>2, <3>2, <3>3, <3>4
        <4> HIDE DEF a, b
        <4> QED BY <1>1, <2>1, <4>1
      <3> QED BY <1>1, <3>5
    <2>4. \A i \in 1..d : q[(i - 1) * N + s + 1] \in S
      <3> HIDE DEF d
      <3> QED BY <2>3
    <2> HIDE DEF d
    <2>5. [i \in 1..d |-> q[(i - 1) * N + s + 1]] \in Seq(S)
      BY <2>2, <2>4
    <2> QED BY <2>5 DEF d
  <1> HIDE DEF N
  <1>3. [s \in Streams |-> [i \in 1..((Len(q) - s + N - 1) \div N) |-> q[(i - 1) * N + s + 1]]] \in [Streams -> Seq(S)]
    BY <1>2
  <1> QED BY <1>3 DEF Partition, N

LEMMA InOrderType ==
    ASSUME TxsOK, NEW S
    PROVE  InOrder(S) \in Seq(S)
  <1> DEFINE of(t) == [v \in DOMAIN txs[t].outs |-> LET u == Utxo(t, v - 1, txs[t].outs[v].satoshis)
                                                   IN IF u \in S THEN <<u>> ELSE <<>>]
  <1>1. ASSUME NEW t \in DOMAIN txs PROVE FlattenSeq(of(t)) \in Seq(S)
    <2>1. txs[t].outs \in Outs
      BY <1>1 DEF TxsOK, TxOver
    <2>2. DOMAIN txs[t].outs = 1..Len(txs[t].outs) /\ Len(txs[t].outs) \in Nat
      BY <2>1 DEF Outs
    <2>3. \A v \in DOMAIN txs[t].outs : of(t)[v] \in Seq(S)
      OBVIOUS
    <2>4. of(t) \in Seq(Seq(S))
      BY <2>2, <2>3
    <2> QED BY <2>4, FlattenType
  <1> HIDE DEF of
  <1>2. [t \in DOMAIN txs |-> FlattenSeq(of(t))] \in Seq(Seq(S))
    <2>1. DOMAIN txs = 1..Len(txs) /\ Len(txs) \in Nat
      BY DEF TxsOK
    <2> QED BY <1>1, <2>1
  <1>3. FlattenSeq([t \in DOMAIN txs |-> FlattenSeq(of(t))]) \in Seq(S)
    BY <1>2, FlattenType
  <1> QED BY <1>3 DEF InOrder, of

LEMMA OutputsKnown ==
    ASSUME TxsOK, NEW S \in SUBSET DOMAIN txs
    PROVE  OutputsOf(S) \subseteq Known(S)
  <1> SUFFICES ASSUME NEW t \in S, NEW v \in DOMAIN txs[t].outs
               PROVE  Utxo(t, v - 1, txs[t].outs[v].satoshis) \in Known(S)
    BY DEF OutputsOf
  <1>1. txs[t].outs \in Outs
    BY DEF TxsOK, TxOver
  <1>2. v \in Int /\ txs[t].outs[v].satoshis \in Nat
    <2>1. \A o \in Outs : \A w \in DOMAIN o : w \in Int /\ o[w].satoshis \in Nat
      <3> SUFFICES ASSUME NEW o \in Outs, NEW w \in DOMAIN o PROVE w \in Int /\ o[w].satoshis \in Nat
        OBVIOUS
      <3>1. o \in Seq(Out)
        BY DEF Outs
      <3>2. w \in 1..Len(o) /\ Len(o) \in Nat
        BY <3>1
      <3>3. o[w] \in Out
        BY <3>1, <3>2
      <3> QED BY <3>2, <3>3 DEF Out
    <2> QED BY <1>1, <2>1
  <1> QED BY <1>2 DEF Utxo, Known

\* The pools one behind the other, as the final sweep takes them.
LEMMA PoolsFlat ==
    ASSUME NEW S, NEW pools \in [Streams -> Seq(S)]
    PROVE  FlattenSeq([i \in 1..NumStreams |-> pools[i - 1]]) \in Seq(S)
  <1>1. NumStreams \in Nat
    BY EngineAssumption
  <1>2. \A i \in 1..NumStreams : i - 1 \in Streams
    BY <1>1 DEF Streams
  <1>3. [i \in 1..NumStreams |-> pools[i - 1]] \in Seq(Seq(S))
    BY <1>1, <1>2
  <1> QED BY <1>3, FlattenType

-------------------------------------------------------------------------------
(* What the transactions are made of. *)

LEMMA TotalInt ==
    ASSUME NEW T, NEW q \in Seq(Known(T))
    PROVE  Total(q) \in Int
  <1>1. Len(q) \in Nat /\ DOMAIN q = 1..Len(q) /\ \A i \in DOMAIN q : q[i] \in Known(T)
    OBVIOUS
  <1>2. IsFiniteSet(DOMAIN q)
    BY <1>1, FS_Interval
  <1>3. \A i \in DOMAIN q : q[i].satoshis \in Int
    BY <1>1 DEF Known
  <1>4. PICK f : SumOf(q, f) /\ Total(q) = f[DOMAIN q]
    BY <1>2, <1>3, TotalIsSum
  <1> QED BY <1>4 DEF SumOf

\* A transaction leaves the miner his fee.
Pays(tx) == Total(tx.ins) + Total(tx.prev) >= Total(tx.outs) + LeastFee(tx.kind)

LEMMA FixedOuts ==
    ASSUME NEW kind \in CallKinds
    PROVE  /\ Fixed(kind) \in Outs /\ Len(Fixed(kind)) >= 1
           /\ Total(Fixed(kind)) \in Int
           /\ kind # "fund" => Len(Fixed(kind)) = 1 /\ Total(Fixed(kind)) <= CellSatoshis
           /\ kind = "fund" => Total(Fixed(kind)) = ChannelSatoshis
  <1>0. CellSatoshis \in Nat /\ ChannelSatoshis \in Nat
    BY EngineAssumption
  <1> DEFINE c == Output("cell", CellSatoshis)
             d == Output("data", 0)
             m == Output("multisig", ChannelSatoshis)
  <1>1. /\ c \in Out /\ d \in Out /\ m \in Out
        /\ c.satoshis = CellSatoshis /\ d.satoshis = 0 /\ m.satoshis = ChannelSatoshis
    BY <1>0 DEF Output, Out, Locks
  <1>2. Fixed(kind) \in {<<c>>, <<d>>, <<d, m>>} /\ (kind # "fund" => Fixed(kind) \in {<<c>>, <<d>>})
    BY DEF Fixed, CallKinds
  <1> HIDE DEF c, d, m
  <1>3. Total(<<c>>) = CellSatoshis /\ Total(<<d>>) = 0 /\ Total(<<d, m>>) = 0 + ChannelSatoshis
    BY <1>0, <1>1, TotalShort
  <1>4. <<c>> \in Seq(Out) /\ <<d>> \in Seq(Out) /\ <<d, m>> \in Seq(Out)
    BY <1>1
  <1>5. Len(<<c>>) = 1 /\ Len(<<d>>) = 1 /\ Len(<<d, m>>) = 2
    OBVIOUS
  <1>6. \A q \in {<<c>>, <<d>>} : q \in Seq(Out) /\ Len(q) = 1 /\ Total(q) \in Int /\ Total(q) <= CellSatoshis
    BY <1>0, <1>3, <1>4, <1>5, SMTT(30)
  <1>7. <<d, m>> \in Seq(Out) /\ Len(<<d, m>>) >= 1 /\ Total(<<d, m>>) \in Int
    BY <1>0, <1>3, <1>4, <1>5
  <1> DEFINE fixed == Fixed(kind)
  <1>8. CASE fixed \in {<<c>>, <<d>>}
    <2>1. fixed \in Seq(Out) /\ Len(fixed) = 1 /\ Total(fixed) \in Int /\ Total(fixed) <= CellSatoshis
      BY <1>6, <1>8
    <2>2. kind # "fund"
      <3>1. kind = "fund" => fixed = <<d, m>>
        BY DEF Fixed, c, d, m
      <3>2. Len(<<d, m>>) # Len(fixed)
        BY <1>5, <2>1
      <3> QED BY <3>1, <3>2
    <2> QED BY <2>1, <2>2 DEF Outs
  <1>9. CASE fixed = <<d, m>>
    <2>1. fixed \in Seq(Out) /\ Len(fixed) >= 1 /\ Total(fixed) \in Int /\ Total(fixed) = ChannelSatoshis
      BY <1>0, <1>3, <1>7, <1>9
    <2>2. kind = "fund"
      <3>1. Len(<<d, m>>) = 2
        BY <1>5
      <3>2. kind # "fund" => Len(fixed) = 1
        BY <1>2, <1>5
      <3> QED BY <1>9, <3>1, <3>2
    <2> QED BY <2>1, <2>2 DEF Outs
  <1>10. fixed \in {<<c>>, <<d>>} \/ fixed = <<d, m>>
    BY <1>2
  <1> QED BY <1>8, <1>9, <1>10

\* What a call signs spends what it was given, and pays its fee also when it leaves no change.
LEMMA CallTxOver ==
    ASSUME NEW T, NEW kind \in CallKinds, NEW ins \in Seq(Known(T)), NEW prev \in Seq(Known(T))
    PROVE  LET tx == CallTx(kind, ins, prev)
           IN /\ tx \in TxOver(T) /\ Len(tx.outs) >= 1 /\ tx.kind = kind /\ tx.ins = ins /\ tx.prev = prev
              /\ kind # "fund" /\ Total(ins) + Total(prev) >= MinFee + CellSatoshis => Pays(tx)
              /\ kind = "fund" /\ Total(ins) + Total(prev) >= ChannelSatoshis + Fee["fund"] => Pays(tx)
  <1> DEFINE tx == CallTx(kind, ins, prev)
             fixed == Fixed(kind)
             change == Total(ins) + Total(prev) - Total(fixed) - Fee[kind]
             outs == fixed \o IF change > 0 THEN <<Output("own", change)>> ELSE <<>>
  <1>1. tx = [kind |-> kind, ins |-> ins, prev |-> prev, outs |-> outs]
    BY DEF CallTx, Tx
  <1>2. /\ MinFee \in Nat /\ CellSatoshis \in Nat /\ Fee[kind] \in Nat /\ (kind # "fund" => Fee[kind] >= MinFee)
        /\ ChannelSatoshis \in Nat /\ LeastFee(kind) \in Nat /\ Fee[kind] >= LeastFee(kind)
        /\ (kind # "fund" => LeastFee(kind) = MinFee) /\ (kind = "fund" => LeastFee(kind) = Fee["fund"])
    BY EngineAssumption DEF LeastFee
  <1>3. Total(ins) \in Int /\ Total(prev) \in Int
    BY TotalInt
  <1>4. fixed \in Seq(Out) /\ Len(fixed) >= 1 /\ Total(fixed) \in Int
        /\ (kind # "fund" => Total(fixed) <= CellSatoshis) /\ (kind = "fund" => Total(fixed) = ChannelSatoshis)
    BY FixedOuts DEF Outs
  <1> HIDE DEF fixed
  <1>5. change \in Int
    BY <1>2, <1>3, <1>4
  <1>6. kind \in Kinds
    BY DEF Kinds
  <1>7. CASE change > 0
    <2> DEFINE o == Output("own", change)
    <2>1. o \in Out /\ o.satoshis = change
      BY <1>5, <1>7 DEF Output, Out, Locks
    <2> HIDE DEF o
    <2>2. outs = Append(fixed, o)
      <3>1. outs = fixed \o <<o>>
        BY <1>7 DEF o
      <3> HIDE DEF outs
      <3>2. fixed \o <<o>> = Append(fixed, o)
        BY <1>4, <2>1, AppendIsConcat
      <3> QED BY <3>1, <3>2
    <2>3. outs \in Outs /\ Len(outs) >= 1
      BY <1>4, <2>1, <2>2 DEF Outs
    <2>4. Total(outs) = Total(fixed) + change
      <3>1. \A u \in Out : u.satoshis \in Int
        BY DEF Out
      <3> QED BY <1>4, <2>1, <2>2, <3>1, TotalAppend
    <2> HIDE DEF outs
    <2>5. Total(ins) + Total(prev) >= Total(outs) + LeastFee(kind)
      BY <1>2, <1>3, <1>4, <2>4, SMTT(30)
    <2> QED BY <1>1, <1>6, <2>3, <2>5 DEF TxOver, Pays
  <1>8. CASE ~(change > 0)
    <2>1. outs = fixed
      <3>1. outs = fixed \o <<>>
        BY <1>8
      <3> HIDE DEF outs
      <3> QED BY <1>4, <3>1
    <2> HIDE DEF outs
    <2>2. /\ kind # "fund" /\ Total(ins) + Total(prev) >= MinFee + CellSatoshis
             => Total(ins) + Total(prev) >= Total(outs) + LeastFee(kind)
          /\ kind = "fund" /\ Total(ins) + Total(prev) >= ChannelSatoshis + Fee["fund"]
             => Total(ins) + Total(prev) >= Total(outs) + LeastFee(kind)
      BY <1>2, <1>3, <1>4, <2>1
    <2>3. tx \in TxOver(T) /\ Len(tx.outs) >= 1 /\ tx.kind = kind /\ tx.ins = ins /\ tx.prev = prev
      BY <1>1, <1>4, <1>6, <2>1 DEF TxOver, Outs
    <2> QED BY <1>1, <2>2, <2>3 DEF Pays
  <1> QED BY <1>7, <1>8

LEMMA SplitCount ==
    ASSUME NEW T, NEW u \in Known(T), Splits(u) >= NumStreams
    PROVE  /\ Splits(u) \in Nat /\ Splits(u) >= 1 /\ splitFee(Splits(u)) \in Int /\ splitFee(Splits(u)) >= MinFee
           /\ Splits(u) * SplitSatoshis \in Int /\ Splits(u) * SplitSatoshis + MinFee <= u.satoshis
  <1> DEFINE d == SplitSatoshis + OutputFee
             m == maxSplits(u)
             n == Splits(u)
             x == u.satoshis - splitFee(1)
  <1>1. /\ SplitSatoshis \in Nat /\ OutputFee \in Nat /\ MinFee \in Nat /\ d \in Nat /\ d > 0
        /\ NumStreams \in Nat \ {0} /\ MaxSplitsPerStream \in Nat
    BY EngineAssumption
  <1>2. u.satoshis \in Nat
    BY DEF Known
  <1>3. \A k \in Nat : splitFee(k) \in Int /\ splitFee(k) >= MinFee
    <2> SUFFICES ASSUME NEW k \in Nat PROVE splitFee(k) \in Int /\ splitFee(k) >= MinFee
      OBVIOUS
    <2>1. OutputFee * (k + 1) \in Int
      BY <1>1
    <2> QED BY <1>1, <2>1 DEF splitFee, Larger
  <1>4. x \in Int /\ x <= u.satoshis - MinFee
    BY <1>1, <1>2, <1>3
  <1>5. m = x \div d
    BY DEF maxSplits
  <1> HIDE DEF d, x
  <1>6. m \in Int /\ m * d <= x
    <2>1. x \div d \in Int /\ (x \div d) * d <= x
      BY <1>1, <1>4
    <2> QED BY <1>5, <2>1
  <1> HIDE DEF m
  <1>7. NumStreams * MaxSplitsPerStream \in Int
    BY <1>1
  <1>8. n \in Int /\ n <= m
    BY <1>6, <1>7 DEF Splits, m
  <1> HIDE DEF n
  <1>9. n \in Nat /\ n >= 1
    BY <1>1, <1>8 DEF n
  <1>10. n * d <= m * d
    BY <1>1, <1>6, <1>8, <1>9
  <1>11. n * d = n * SplitSatoshis + n * OutputFee
    BY <1>1, <1>9 DEF d
  <1>12. n * SplitSatoshis \in Int /\ n * OutputFee \in Int /\ n * OutputFee >= 0 /\ n * d \in Int /\ m * d \in Int
    BY <1>1, <1>6, <1>9
  <1>13. n * SplitSatoshis + MinFee <= u.satoshis
    <2> DEFINE a == n * SplitSatoshis
               b == n * OutputFee
               e == n * d
               g == m * d
    <2>1. a \in Int /\ b \in Int /\ b >= 0 /\ e \in Int /\ g \in Int /\ e = a + b /\ e <= g /\ g <= x
      BY <1>6, <1>10, <1>11, <1>12
    <2> HIDE DEF a, b, e, g
    <2>2. a + MinFee <= u.satoshis
      BY <1>1, <1>2, <1>4, <2>1
    <2> QED BY <2>2 DEF a
  <1> QED BY <1>3, <1>9, <1>12, <1>13 DEF n

LEMMA SplitTxOver ==
    ASSUME NEW T, NEW u \in Known(T), Splits(u) >= NumStreams
    PROVE  SplitTx(u) \in TxOver(T) /\ SplitTx(u).ins = <<u>> /\ SplitTx(u).prev = <<>> /\ Pays(SplitTx(u))
  <1> DEFINE n == Splits(u)
             fee == splitFee(n)
             change == u.satoshis - n * SplitSatoshis - fee
             one == Output("own", SplitSatoshis)
             ones == [i \in 1..n |-> one]
             outs == ones \o IF change > DustLimit THEN <<Output("own", change)>> ELSE <<>>
             tx == SplitTx(u)
  <1>1. tx = [kind |-> "split", ins |-> <<u>>, prev |-> <<>>, outs |-> outs]
    BY DEF SplitTx, Tx
  <1> HIDE DEF tx
  <1>2. SplitSatoshis \in Nat /\ MinFee \in Nat /\ DustLimit \in Nat /\ u.satoshis \in Nat
    BY EngineAssumption DEF Known
  <1>3. n \in Nat /\ fee \in Int /\ fee >= MinFee /\ n * SplitSatoshis \in Int /\ n * SplitSatoshis + MinFee <= u.satoshis
    BY SplitCount
  <1> HIDE DEF n, fee
  <1>4. change \in Int
    BY <1>2, <1>3
  <1>5. one \in Out /\ one.satoshis = SplitSatoshis
    BY <1>2 DEF Output, Out, Locks
  <1> HIDE DEF one
  <1>6. ones \in Seq(Out) /\ Total(ones) = n * SplitSatoshis
    <2>1. Total([i \in 1..n |-> one]) = n * one.satoshis
      <3>1. one.satoshis \in Int /\ n \in Nat
        BY <1>2, <1>3, <1>5
      <3> HIDE DEF n
      <3> QED BY <3>1, TotalEqual
    <2> QED BY <1>3, <1>5, <2>1
  <1> HIDE DEF ones
  <1>7. <<u>> \in Seq(Known(T)) /\ <<>> \in Seq(Known(T)) /\ "split" \in Kinds
    BY DEF Kinds
  <1>8. Total(<<u>>) = u.satoshis /\ Total(<<>>) = 0
    BY <1>2, TotalShort, TotalEmpty
  <1>9. outs \in Seq(Out) /\ Total(outs) \in Int /\ Total(outs) + MinFee <= u.satoshis
    <2>1. CASE change > DustLimit
      <3> DEFINE o == Output("own", change)
      <3>1. o \in Out /\ o.satoshis = change
        BY <1>2, <1>4, <2>1 DEF Output, Out, Locks
      <3> HIDE DEF o
      <3>2. outs = Append(ones, o)
        <4>1. outs = ones \o <<o>>
          BY <2>1 DEF o
        <4> HIDE DEF outs
        <4>2. ones \o <<o>> = Append(ones, o)
          BY <1>6, <3>1, AppendIsConcat
        <4> QED BY <4>1, <4>2
      <3> HIDE DEF outs
      <3>3. Total(outs) = Total(ones) + change
        <4>1. \A w \in Out : w.satoshis \in Int
          BY DEF Out
        <4> QED BY <1>6, <3>1, <3>2, <4>1, TotalAppend
      <3>4. outs \in Seq(Out)
        BY <1>6, <3>1, <3>2
      <3> QED BY <1>2, <1>3, <1>4, <1>6, <3>3, <3>4, SMTT(30)
    <2>2. CASE ~(change > DustLimit)
      <3>1. outs = ones
        <4>1. outs = ones \o <<>>
          BY <2>2
        <4> HIDE DEF outs
        <4> QED BY <1>6, <4>1
      <3> HIDE DEF outs
      <3> QED BY <1>3, <1>6, <3>1
    <2> QED BY <2>1, <2>2
  <1> HIDE DEF outs
  <1>10. tx \in TxOver(T)
    BY <1>1, <1>7, <1>9 DEF TxOver, Outs
  <1>11. Pays(tx)
    BY <1>1, <1>2, <1>8, <1>9 DEF Pays, LeastFee
  <1> QED BY <1>1, <1>10, <1>11 DEF tx

LEMMA SweepTxOver ==
    ASSUME NEW T, NEW ins \in Seq(Known(T)), ~(SweepTx(ins).outs[1].satoshis <= DustLimit)
    PROVE  SweepTx(ins) \in TxOver(T) /\ SweepTx(ins).ins = ins /\ SweepTx(ins).prev = <<>> /\ Pays(SweepTx(ins))
  <1> DEFINE fee == Larger(MinFee, InputFee * Len(ins))
             sats == Total(ins) - fee
             o == Output("foreign", sats)
             tx == SweepTx(ins)
  <1>1. tx = [kind |-> "sweep", ins |-> ins, prev |-> <<>>, outs |-> <<o>>]
    BY DEF SweepTx, Tx
  <1>2. MinFee \in Nat /\ InputFee \in Nat /\ Len(ins) \in Nat /\ DustLimit \in Nat
    BY EngineAssumption
  <1>3. fee \in Int /\ fee >= MinFee
    <2>1. InputFee * Len(ins) \in Int
      BY <1>2
    <2> QED BY <1>2, <2>1 DEF Larger
  <1>4. Total(ins) \in Int
    BY TotalInt
  <1> HIDE DEF fee
  <1>5. sats \in Int /\ o.satoshis = sats
    BY <1>3, <1>4 DEF Output
  <1>6. sats > DustLimit
    <2>1. ~(sats <= DustLimit)
      BY <1>1, <1>5
    <2> QED BY <1>2, <1>5, <2>1
  <1>7. o \in Out
    BY <1>2, <1>5, <1>6 DEF Output, Out, Locks
  <1>8. Total(<<o>>) = sats /\ Total(<<>>) = 0
    BY <1>5, TotalShort, TotalEmpty
  <1> HIDE DEF o, tx
  <1>9. <<o>> \in Seq(Out) /\ <<>> \in Seq(Known(T)) /\ "sweep" \in Kinds
    BY <1>7 DEF Kinds
  <1>10. tx \in TxOver(T)
    BY <1>1, <1>9 DEF TxOver, Outs
  <1>11. Pays(tx)
    BY <1>1, <1>2, <1>3, <1>4, <1>8 DEF Pays, LeastFee
  <1> QED BY <1>1, <1>10, <1>11 DEF tx

-------------------------------------------------------------------------------
(* How the transactions grow. *)

\* No step signs more than one transaction, and what it signs spends what was there.
Extends == \/ txs' = txs
           \/ \E tx \in TxOver(DOMAIN txs) : txs' = Append(txs, tx) /\ Pays(tx)

LEMMA TxsGrow ==
    ASSUME TxsOK, Extends
    PROVE  /\ TxsOK' /\ DOMAIN txs \subseteq DOMAIN txs'
           /\ \A t \in DOMAIN txs : txs'[t] = txs[t]
  <1>1. CASE txs' = txs
    BY <1>1 DEF TxsOK
  <1>2. ASSUME NEW tx \in TxOver(DOMAIN txs), txs' = Append(txs, tx)
        PROVE  /\ TxsOK' /\ DOMAIN txs \subseteq DOMAIN txs'
               /\ \A t \in DOMAIN txs : txs'[t] = txs[t]
    <2> DEFINE n == Len(txs)
               X == TxOver(Nat)
    <2>1. txs \in Seq(X) /\ n \in Nat /\ n >= 1 /\ DOMAIN txs = 1..n
      BY DEF TxsOK
    <2>2. tx \in X /\ tx \in TxOver(1..n)
      <3>1. 1..n \subseteq Nat
        OBVIOUS
      <3>2. TxOver(1..n) \subseteq TxOver(Nat)
        BY <3>1, MoreKnown
      <3>3. tx \in TxOver(1..n)
        BY <1>2, <2>1
      <3> QED BY <3>2, <3>3 DEF X
    <2> HIDE DEF X
    <2>3. /\ txs' \in Seq(X) /\ Len(txs') = n + 1 /\ DOMAIN txs' = 1..(n + 1)
          /\ txs'[n + 1] = tx /\ \A t \in 1..n : txs'[t] = txs[t]
      BY <1>2, <2>1, <2>2
    <2>4. ASSUME NEW t \in 1..(n + 1) PROVE txs'[t] \in TxOver(1..(t - 1))
      <3>1. CASE t \in 1..n
        BY <2>1, <2>3, <3>1 DEF TxsOK
      <3>2. CASE t = n + 1
        <4>1. t - 1 = n
          BY <2>1, <3>2
        <4> QED BY <2>2, <2>3, <3>2, <4>1
      <3> QED BY <2>1, <3>1, <3>2
    <2>5. TxsOK'
      BY <2>1, <2>3, <2>4 DEF TxsOK, X
    <2> QED BY <2>1, <2>3, <2>5
  <1> QED BY <1>1, <1>2 DEF Extends

LEMMA InputsKnown ==
    ASSUME TxsOK, NEW t \in DOMAIN txs
    PROVE  /\ Inputs(t) \subseteq Known(1..(t - 1)) /\ 1..(t - 1) \subseteq DOMAIN txs
           /\ \A u \in Inputs(t) : u.txid \in 1..(t - 1)
  <1>1. txs[t] \in TxOver(1..(t - 1))
    BY DEF TxsOK
  <1>2. txs[t].ins \in Seq(Known(1..(t - 1))) /\ txs[t].prev \in Seq(Known(1..(t - 1)))
    BY <1>1 DEF TxOver
  <1>3. \A S : \A q \in Seq(S) : Range(q) \subseteq S
    <2> SUFFICES ASSUME NEW S, NEW q \in Seq(S), NEW i \in DOMAIN q PROVE q[i] \in S
      BY DEF Range
    <2> QED OBVIOUS
  <1>4. Inputs(t) \subseteq Known(1..(t - 1))
    BY <1>2, <1>3 DEF Inputs
  <1>5. 1..(t - 1) \subseteq DOMAIN txs
    BY DEF TxsOK
  <1> QED BY <1>4, <1>5 DEF Known

-------------------------------------------------------------------------------
(* Where the outputs come from that the wallet and its files hold. *)

\* All of them are outputs of the transactions T, which the calls that have been broadcast are among.
Backed(T) ==
    /\ utxoPools \in [Streams -> Seq(Known(T))] /\ sweepLeft \in Seq(Known(T)) /\ cells \subseteq Known(T)
    /\ disk \in [chainTip : [Streams -> Seq(Known(T))], beef : SUBSET T] /\ beef \subseteq T
    /\ calls \subseteq CallOver(T) /\ \A c \in calls : c.stage = "sent" => c.txid \in T

\* T has what the network has, and the parents of all it has.
Closed(T) == /\ accepted \subseteq T /\ T \subseteq DOMAIN txs /\ 1 \in T
             /\ \A t \in T : \A u \in Inputs(t) : u.txid \in T

\* What the network has accepted or a process has taken for accepted.
Taken == accepted \union assumed

\* What a step may add to U: what the network accepts, what is taken for accepted and what is broadcast.
Adds(U) == Taken' \subseteq U /\ \A c \in calls' : c.stage = "sent" => c.txid \in U

LEMMA BackedMore ==
    ASSUME NEW T, NEW U, T \subseteq U, Backed(T)
    PROVE  Backed(U)
  <1>1. [Streams -> Seq(Known(T))] \subseteq [Streams -> Seq(Known(U))]
    BY MoreKnown
  <1>2. utxoPools \in [Streams -> Seq(Known(U))] /\ sweepLeft \in Seq(Known(U)) /\ cells \subseteq Known(U)
    BY <1>1, MoreKnown DEF Backed
  <1>3. disk \in [chainTip : [Streams -> Seq(Known(U))], beef : SUBSET U] /\ beef \subseteq U
    <2> DEFINE P == [Streams -> Seq(Known(T))]
               Q == [Streams -> Seq(Known(U))]
    <2>1. disk \in [chainTip : P, beef : SUBSET T] /\ P \subseteq Q /\ beef \subseteq U
      BY <1>1 DEF Backed
    <2> HIDE DEF P, Q
    <2>2. disk \in [chainTip : Q, beef : SUBSET U]
      BY <2>1
    <2> QED BY <2>1, <2>2 DEF Q
  <1>4. calls \subseteq CallOver(U) /\ \A c \in calls : c.stage = "sent" => c.txid \in U
    <2>1. CallOver(T) \subseteq CallOver(U)
      BY MoreKnown
    <2> QED BY <2>1 DEF Backed
  <1> QED BY <1>2, <1>3, <1>4 DEF Backed

LEMMA UnspentKnown ==
    ASSUME TxsOK, NEW T, T \subseteq DOMAIN txs
    PROVE  /\ (accepted \subseteq T => OnChain \subseteq Known(T))
           /\ (disk.beef \subseteq T => BeefTips \subseteq Known(T))
  <1>1. ASSUME NEW S, S \subseteq T PROVE OutputsOf(S) \subseteq Known(T)
    <2>1. OutputsOf(S) \subseteq Known(S)
      BY <1>1, OutputsKnown
    <2>2. Known(S) \subseteq Known(T)
      BY <1>1, MoreKnown
    <2> QED BY <2>1, <2>2
  <1> QED BY <1>1 DEF OnChain, BeefTips

LEMMA FundingKnown ==
    ASSUME setup \in Setups, NEW T, 1 \in T
    PROVE  ingestFunding \in Known(T) /\ FundingOuts \in Seq(Out) /\ Len(FundingOuts) >= 1
  <1>1. FundingOuts \in Seq(Out) /\ FundingVout + 1 \in DOMAIN FundingOuts
    BY EngineAssumption DEF FundingOuts, Out
  <1>2. FundingVout + 1 \in 1..Len(FundingOuts) /\ Len(FundingOuts) \in Nat
    BY <1>1
  <1>3. FundingOuts[FundingVout + 1] \in Out
    BY <1>1, <1>2
  <1>4. FundingOuts[FundingVout + 1].satoshis \in Nat
    BY <1>3 DEF Out
  <1>5. FundingVout \in Int
    BY EngineAssumption
  <1> QED BY <1>1, <1>2, <1>4, <1>5 DEF ingestFunding, Utxo, Known

\* Steps that touch neither the wallet nor its files.
LEMMA BackedStays ==
    ASSUME UNCHANGED <<walletVars, storeVars>>, NEW T, NEW U, T \subseteq U, Backed(T)
    PROVE  Backed(U)'
  <1>1. Backed(U)
    BY BackedMore
  <1> QED BY <1>1 DEF Backed, walletVars, storeVars

LEMMA BackedBoot ==
    ASSUME Boot, TxsOK, NEW T, Closed(T), NEW U, T \subseteq U, Backed(T)
    PROVE  Backed(U)'
  <1>1. Backed(U)
    BY BackedMore
  <1>2. disk.beef \subseteq T /\ disk.beef \subseteq U /\ disk.chainTip \in [Streams -> Seq(Known(U))]
    BY <1>1 DEF Backed
  <1>3. Partition(InOrder(BeefTips)) \in [Streams -> Seq(Known(U))]
    <2>1. BeefTips \subseteq Known(U)
      <3>1. BeefTips \subseteq Known(T)
        BY <1>2, UnspentKnown DEF Closed
      <3> QED BY <3>1, MoreKnown
    <2>2. InOrder(BeefTips) \in Seq(BeefTips)
      BY InOrderType
    <2>3. InOrder(BeefTips) \in Seq(Known(U))
      BY <2>1, <2>2
    <2> QED BY <2>3, PartitionType
  <1>4. EmptyPools \in [Streams -> Seq(Known(U))]
    BY DEF EmptyPools
  <1>5. utxoPools' \in [Streams -> Seq(Known(U))] /\ beef' \subseteq U
    BY <1>2, <1>3, <1>4 DEF Boot
  <1>6. UNCHANGED <<calls, cells, sweepLeft, disk>>
    BY DEF Boot
  <1> QED BY <1>1, <1>5, <1>6 DEF Backed

LEMMA BackedPreSplit ==
    ASSUME NEW T, Closed(T), NEW U, T \subseteq U, Backed(T), Adds(U), NEW u \in Known(T), preSplit(u)
    PROVE  Backed(U)'
  <1>1. Backed(U)
    BY BackedMore
  <1>2. SplitId(u) \in U /\ u.txid \in U
    BY DEF preSplit, Adds, Taken, Known
  <1>3. [i \in 1..Splits(u) |-> Utxo(SplitId(u), i - 1, SplitSatoshis)] \in Seq(Known(U))
    <2>1. Splits(u) \in Nat
      BY SplitCount DEF preSplit
    <2>2. \A i \in 1..Splits(u) : Utxo(SplitId(u), i - 1, SplitSatoshis) \in Known(U)
      <3>1. SplitSatoshis \in Nat
        BY EngineAssumption
      <3> QED BY <1>2, <3>1 DEF Utxo, Known
    <2> QED BY <2>1, <2>2
  <1>4. utxoPools' \in [Streams -> Seq(Known(U))]
    BY <1>3, PartitionType DEF preSplit
  <1>5. beef' \subseteq U
    BY <1>1, <1>2 DEF preSplit, mergeTransaction, Backed
  <1>6. UNCHANGED <<calls, cells, sweepLeft, disk>>
    BY DEF preSplit
  <1> QED BY <1>1, <1>4, <1>5, <1>6 DEF Backed

LEMMA BackedDiscover ==
    ASSUME discoverUtxos, TxsOK, NEW T, Closed(T), NEW U, T \subseteq U, Backed(T)
    PROVE  Backed(U)'
  <1>1. Backed(U)
    BY BackedMore
  <1>2. OnChain \subseteq Known(U)
    <2>1. OnChain \subseteq Known(T)
      BY UnspentKnown DEF Closed
    <2> QED BY <2>1, MoreKnown
  <1>3. utxoPools' \in [Streams -> Seq(Known(U))]
    <2>1. CASE UNCHANGED utxoPools
      BY <1>1, <2>1 DEF Backed
    <2>2. ASSUME NEW found \in SUBSET {u \in OnChain : u.satoshis >= Fee["create"] + 2}, utxoPools' = Partition(InOrder(found))
          PROVE  utxoPools' \in [Streams -> Seq(Known(U))]
      <3>1. InOrder(found) \in Seq(Known(U))
        BY <1>2, InOrderType
      <3> QED BY <2>2, <3>1, PartitionType
    <2> QED BY <2>1, <2>2 DEF discoverUtxos
  <1>4. UNCHANGED <<calls, cells, sweepLeft, disk, beef>>
    BY DEF discoverUtxos
  <1> QED BY <1>1, <1>3, <1>4 DEF Backed

\* A step that changes the pool of one stream and the calls.
LEMMA BackedPool ==
    ASSUME NEW U, Backed(U), NEW s \in Streams, NEW pool \in Seq(Known(U)),
           utxoPools' = [utxoPools EXCEPT ![s] = pool], cells' \subseteq Known(U),
           calls' \subseteq CallOver(U), \A c \in calls' : c.stage = "sent" => c.txid \in U,
           beef' \subseteq U, UNCHANGED <<sweepLeft, disk>>
    PROVE  Backed(U)'
  <1>1. utxoPools' \in [Streams -> Seq(Known(U))]
    BY DEF Backed
  <1> QED BY <1>1 DEF Backed

\* What a call starts from.
LEMMA CallOk ==
    ASSUME NEW T, NEW s \in Streams, NEW tx \in TxOver(T)
    PROVE  Call(s, tx) \in CallOver(T) /\ Call(s, tx).stage = "signing" /\ Call(s, tx).tx = tx
  BY DEF Call, CallOver

\* The call that is begun has picked u, and prev where it spends a cell.
Picks(s, kind, u, prev) ==
    /\ kind # "fund" /\ Total(<<u>>) + Total(prev) >= MinFee + CellSatoshis
    /\ utxoPools' = [utxoPools EXCEPT ![s] = PickedPool(utxoPools[s])]
    /\ calls' = calls \union {Call(s, CallTx(kind, <<u>>, prev))} /\ cells' \subseteq cells

LEMMA BeginPicks ==
    ASSUME NEW s \in Streams, NEW kind \in CallKinds, Begin(s, kind), NEW T, Backed(T)
    PROVE  \/ /\ PickedPool(utxoPools[s]) \in Seq(Known(T))
              /\ \E u \in Known(T), prev \in Seq(Known(T)) : Picks(s, kind, u, prev)
           \/ /\ utxoPools' = [utxoPools EXCEPT ![s] = <<>>]
              /\ UNCHANGED <<calls, cells>>
  <1> DEFINE pool == utxoPools[s]
  <1>1. pool \in Seq(Known(T)) /\ cells \subseteq Known(T)
    BY DEF Backed
  <1>2. CASE \E i \in DOMAIN pool : Useful(pool[i])
    <2>1. FirstUseful(pool) \in DOMAIN pool /\ Useful(pool[FirstUseful(pool)])
      BY <1>1, <1>2, FirstUsefulIn
    <2> DEFINE u == pool[FirstUseful(pool)]
    <2>2. u \in Known(T)
      BY <1>1, <2>1
    <2>3. PickedPool(pool) \in Seq(Known(T))
      <3>1. FirstUseful(pool) + 1 \in 1..(Len(pool) + 1) /\ Len(pool) \in 0..Len(pool)
        BY <1>1, <2>1
      <3> QED BY <1>1, <3>1, PartOf DEF PickedPool
    <2>4. PICK prev \in IF kind = "transition" THEN {<<c>> : c \in cells} ELSE {<<>>} :
              /\ utxoPools' = [utxoPools EXCEPT ![s] = PickedPool(pool)]
              /\ calls' = calls \union {Call(s, CallTx(kind, <<pool[FirstUseful(pool)]>>, prev))}
              /\ cells' = cells \ Range(prev)
      BY <1>2 DEF Begin
    <2>5. prev \in Seq(Known(T))
      <3>1. <<>> \in Seq(Known(T)) /\ \A c \in cells : <<c>> \in Seq(Known(T))
        BY <1>1
      <3> QED BY <2>4, <3>1
    <2>6. kind # "fund" /\ Total(<<u>>) + Total(prev) >= MinFee + CellSatoshis
      <3> HIDE DEF u
      <3>1. u.satoshis \in Nat /\ MinFee \in Nat /\ CellSatoshis \in Nat
        BY <2>2, EngineAssumption DEF Known
      <3>2. u.satoshis >= MinFee + CellSatoshis
        BY <2>1 DEF Useful, u
      <3>3. Total(<<u>>) = u.satoshis
        BY <3>1, TotalShort
      <3>4. Total(prev) \in Nat
        <4>1. CASE prev = <<>>
          BY <4>1, TotalEmpty
        <4>2. ASSUME NEW c \in cells, prev = <<c>> PROVE Total(prev) \in Nat
          <5>1. c.satoshis \in Nat
            BY <1>1 DEF Known
          <5> QED BY <4>2, <5>1, TotalShort
        <4> QED BY <2>4, <4>1, <4>2
      <3> QED BY <3>1, <3>2, <3>3, <3>4 DEF Begin
    <2> HIDE DEF pool
    <2>7. calls' = calls \union {Call(s, CallTx(kind, <<u>>, prev))} /\ cells' \subseteq cells
      BY <2>4
    <2> HIDE DEF u
    <2>8. Picks(s, kind, u, prev)
      BY <2>4, <2>6, <2>7 DEF Picks, pool
    <2> QED BY <2>2, <2>3, <2>5, <2>8 DEF pool
  <1>3. CASE ~\E i \in DOMAIN pool : Useful(pool[i])
    BY <1>3 DEF Begin
  <1> QED BY <1>2, <1>3

LEMMA BackedBegin ==
    ASSUME NEW s \in Streams, NEW kind \in CallKinds, Begin(s, kind), NEW T, NEW U, T \subseteq U, Backed(T)
    PROVE  Backed(U)'
  <1>1. Backed(U)
    BY BackedMore
  <1>2. UNCHANGED <<sweepLeft, disk, beef>>
    BY DEF Begin, storeVars
  <1>3. cells \subseteq Known(U) /\ calls \subseteq CallOver(U) /\ beef \subseteq U /\ <<>> \in Seq(Known(U))
        /\ \A c \in calls : c.stage = "sent" => c.txid \in U
    BY <1>1 DEF Backed
  <1>4. ASSUME NEW u \in Known(U), NEW prev \in Seq(Known(U)), Picks(s, kind, u, prev),
               PickedPool(utxoPools[s]) \in Seq(Known(U))
        PROVE  Backed(U)'
    <2>0. /\ utxoPools' = [utxoPools EXCEPT ![s] = PickedPool(utxoPools[s])] /\ cells' \subseteq cells
          /\ calls' = calls \union {Call(s, CallTx(kind, <<u>>, prev))}
      BY <1>4 DEF Picks
    <2> DEFINE tx == CallTx(kind, <<u>>, prev)
    <2>1. <<u>> \in Seq(Known(U))
      OBVIOUS
    <2>2. tx \in TxOver(U)
      BY <2>1, CallTxOver
    <2> HIDE DEF tx
    <2>3. Call(s, tx) \in CallOver(U) /\ Call(s, tx).stage = "signing"
      BY <2>2, CallOk
    <2>4. calls' = calls \union {Call(s, tx)}
      BY <2>0 DEF tx
    <2>5. calls' \subseteq CallOver(U) /\ \A c \in calls' : c.stage = "sent" => c.txid \in U
      BY <1>3, <2>3, <2>4
    <2>6. cells' \subseteq Known(U) /\ beef' \subseteq U
      BY <1>2, <1>3, <2>0
    <2> QED BY <1>1, <1>2, <1>4, <2>0, <2>5, <2>6, BackedPool
  <1>5. CASE utxoPools' = [utxoPools EXCEPT ![s] = <<>>] /\ UNCHANGED <<calls, cells>>
    <2>1. beef' \subseteq U /\ cells' \subseteq Known(U) /\ calls' \subseteq CallOver(U)
          /\ \A c \in calls' : c.stage = "sent" => c.txid \in U
      BY <1>2, <1>3, <1>5
    <2> QED BY <1>1, <1>2, <1>3, <1>5, <2>1, BackedPool
  <1> QED BY <1>1, <1>4, <1>5, BeginPicks

LEMMA FundCuts ==
    ASSUME NEW s \in Streams, fundChannel(s), NEW T, Backed(T)
    PROVE  \E n \in 0..Len(utxoPools[s]) :
              LET ins == SubSeq(utxoPools[s], 1, n)
                  rest == SubSeq(utxoPools[s], n + 1, Len(utxoPools[s]))
              IN \/ /\ utxoPools' = [utxoPools EXCEPT ![s] = rest]
                    /\ calls' = calls \union {Call(s, CallTx("fund", ins, <<>>))}
                    /\ Total(ins) >= ChannelSatoshis + Fee["fund"]
                 \/ utxoPools' = [utxoPools EXCEPT ![s] = rest \o ins] /\ UNCHANGED calls
  <1> DEFINE pool == utxoPools[s]
             enough == {n \in DOMAIN pool : n <= 10 /\ Total(SubSeq(pool, 1, n)) >= ChannelSatoshis + Fee["fund"]}
             consumed == IF enough # {} THEN CHOOSE n \in enough : \A k \in enough : n <= k
                         ELSE IF Len(pool) < 10 THEN Len(pool) ELSE 10
             rest == SubSeq(pool, consumed + 1, Len(pool))
             ins == SubSeq(pool, 1, consumed)
  <1>1. pool \in Seq(Known(T)) /\ Len(pool) \in Nat /\ DOMAIN pool = 1..Len(pool)
    BY DEF Backed
  <1>2. IF enough # {}
        THEN /\ utxoPools' = [utxoPools EXCEPT ![s] = rest]
             /\ calls' = calls \union {Call(s, CallTx("fund", ins, <<>>))}
        ELSE utxoPools' = [utxoPools EXCEPT ![s] = rest \o ins] /\ UNCHANGED calls
    BY DEF fundChannel
  <1>3. enough \in SUBSET DOMAIN pool
        /\ \A n \in enough : Total(SubSeq(pool, 1, n)) >= ChannelSatoshis + Fee["fund"]
    OBVIOUS
  <1> HIDE DEF pool, enough
  <1>4. consumed \in 0..Len(pool) /\ (enough # {} => Total(ins) >= ChannelSatoshis + Fee["fund"])
    <2>1. CASE enough # {}
      <3>1. \E n \in enough : \A k \in enough : n <= k
        BY <1>1, <1>3, <2>1, LeastOf
      <3>2. (CHOOSE n \in enough : \A k \in enough : n <= k) \in enough
        BY <3>1
      <3>3. consumed \in enough
        BY <2>1, <3>2
      <3> HIDE DEF consumed
      <3> QED BY <1>1, <1>3, <3>3
    <2>2. CASE enough = {}
      BY <1>1, <2>2
    <2> QED BY <2>1, <2>2
  <1> HIDE DEF consumed
  <1> QED BY <1>2, <1>4 DEF pool

LEMMA FundTakes ==
    ASSUME NEW s \in Streams, fundChannel(s), NEW T, Backed(T)
    PROVE  \E pool \in Seq(Known(T)) :
              /\ utxoPools' = [utxoPools EXCEPT ![s] = pool]
              /\ \/ UNCHANGED calls
                 \/ \E ins \in Seq(Known(T)) : /\ calls' = calls \union {Call(s, CallTx("fund", ins, <<>>))}
                                              /\ Total(ins) >= ChannelSatoshis + Fee["fund"]
  <1> DEFINE pool == utxoPools[s]
             ins(n) == SubSeq(pool, 1, n)
             rest(n) == SubSeq(pool, n + 1, Len(pool))
  <1>1. pool \in Seq(Known(T)) /\ Len(pool) \in Nat
    BY DEF Backed
  <1>2. PICK n \in 0..Len(pool) :
              \/ /\ utxoPools' = [utxoPools EXCEPT ![s] = rest(n)]
                 /\ calls' = calls \union {Call(s, CallTx("fund", ins(n), <<>>))}
                 /\ Total(ins(n)) >= ChannelSatoshis + Fee["fund"]
              \/ utxoPools' = [utxoPools EXCEPT ![s] = rest(n) \o ins(n)] /\ UNCHANGED calls
    BY FundCuts
  <1> HIDE DEF pool
  <1>3. rest(n) \in Seq(Known(T)) /\ ins(n) \in Seq(Known(T))
    <2>1. n + 1 \in 1..(Len(pool) + 1) /\ Len(pool) \in 0..Len(pool) /\ 1 \in 1..(Len(pool) + 1)
      BY <1>1
    <2> QED BY <1>1, <2>1, PartOf
  <1> HIDE DEF rest, ins
  <1>4. rest(n) \o ins(n) \in Seq(Known(T))
    BY <1>3
  <1> QED BY <1>2, <1>3, <1>4

LEMMA BackedFund ==
    ASSUME NEW s \in Streams, fundChannel(s), NEW T, NEW U, T \subseteq U, Backed(T)
    PROVE  Backed(U)'
  <1>1. Backed(U)
    BY BackedMore
  <1>2. UNCHANGED <<sweepLeft, disk, beef, cells>>
    BY DEF fundChannel, storeVars
  <1>3. cells' \subseteq Known(U) /\ calls \subseteq CallOver(U) /\ beef' \subseteq U
        /\ \A c \in calls : c.stage = "sent" => c.txid \in U
    BY <1>1, <1>2 DEF Backed
  <1>4. PICK pool \in Seq(Known(U)) :
              /\ utxoPools' = [utxoPools EXCEPT ![s] = pool]
              /\ \/ UNCHANGED calls
                 \/ \E ins \in Seq(Known(U)) : calls' = calls \union {Call(s, CallTx("fund", ins, <<>>))}
    BY <1>1, FundTakes
  <1>5. calls' \subseteq CallOver(U) /\ \A c \in calls' : c.stage = "sent" => c.txid \in U
    <2>1. ASSUME NEW ins \in Seq(Known(U)), calls' = calls \union {Call(s, CallTx("fund", ins, <<>>))}
          PROVE  calls' \subseteq CallOver(U) /\ \A c \in calls' : c.stage = "sent" => c.txid \in U
      <3> DEFINE tx == CallTx("fund", ins, <<>>)
      <3>1. "fund" \in CallKinds /\ <<>> \in Seq(Known(U))
        BY DEF CallKinds
      <3>2. tx \in TxOver(U)
        BY <3>1, CallTxOver
      <3> HIDE DEF tx
      <3>3. Call(s, tx) \in CallOver(U) /\ Call(s, tx).stage = "signing"
        BY <3>2, CallOk
      <3>4. calls' = calls \union {Call(s, tx)}
        BY <2>1 DEF tx
      <3> QED BY <1>3, <3>3, <3>4
    <2> QED BY <1>3, <1>4, <2>1
  <1> QED BY <1>1, <1>2, <1>3, <1>4, <1>5, BackedPool

LEMMA BackedSign ==
    ASSUME NEW c \in calls, Sign(c), TxsOK, NEW T, NEW U, T \subseteq U, Backed(T), Adds(U)
    PROVE  Backed(U)'
  <1>1. Backed(U)
    BY BackedMore
  <1>2. UNCHANGED <<utxoPools, sweepLeft, disk, cells, beef>>
    BY DEF Sign, storeVars
  <1>3. PICK stage \in {"sending", "sent"} : calls' = (calls \ {c}) \union {[c EXCEPT !.txid = Len(txs) + 1, !.stage = stage]}
    BY DEF Sign, Replace
  <1>4. [c EXCEPT !.txid = Len(txs) + 1, !.stage = stage] \in CallOver(U)
    <2>1. c \in CallOver(U) /\ Len(txs) + 1 \in Int
      BY <1>1 DEF Backed, TxsOK
    <2> QED BY <2>1 DEF CallOver
  <1>5. calls' \subseteq CallOver(U)
    BY <1>1, <1>3, <1>4 DEF Backed
  <1> QED BY <1>1, <1>2, <1>5 DEF Backed, Adds

LEMMA LastOut ==
    ASSUME NEW q \in Outs, q # <<>>
    PROVE  Len(q) \in DOMAIN q /\ Len(q) - 1 \in Int /\ q[Len(q)] \in Out
  <1>1. q \in Seq(Out)
    BY DEF Outs
  <1> QED BY <1>1

LEMMA BackedFinish ==
    ASSUME NEW c \in calls, Finish(c), TxsOK, c.tx.outs # <<>>,
           NEW T, Closed(T), NEW U, T \subseteq U, Backed(T), Adds(U)
    PROVE  Backed(U)'
  <1>1. Backed(U)
    BY BackedMore
  <1>2. c \in CallOver(U) /\ c.txid \in T /\ c.txid \in U /\ UNCHANGED <<sweepLeft, disk>> /\ calls' \subseteq calls
    BY <1>1 DEF Finish, Backed
  <1>3. cells' \subseteq Known(U)
    <2>1. OutputsOf({c.txid}) \subseteq Known({c.txid})
      BY <1>2, OutputsKnown DEF Closed
    <2>2. Known({c.txid}) \subseteq Known(U)
      BY <1>2, MoreKnown
    <2> QED BY <1>1, <2>1, <2>2 DEF Finish, Backed
  <1>4. beef' \subseteq U
    <2>1. {c.txid} \union {u.txid : u \in Inputs(c.txid)} \subseteq U
      BY <1>2 DEF Closed
    <2> QED BY <1>1, <2>1 DEF Finish, mergeTransaction, Backed
  <1>5. c.stream \in Streams /\ c.tx.outs \in Outs
    BY <1>2 DEF CallOver, TxOver
  <1>6. \E pool \in Seq(Known(U)) : utxoPools' = [utxoPools EXCEPT ![c.stream] = pool]
    <2>1. utxoPools[c.stream] \in Seq(Known(U))
      BY <1>1, <1>5 DEF Backed
    <2>2. CASE c.tx.kind # "fund" /\ Last(c.tx.outs).lock = "own"
      <3>1. ChangeOf(c) \in Known(U)
        <4>1. Len(c.tx.outs) - 1 \in Int /\ c.tx.outs[Len(c.tx.outs)].satoshis \in Nat
          BY <1>5, LastOut DEF Out
        <4> QED BY <1>2, <4>1 DEF ChangeOf, Utxo, Known
      <3>2. utxoPools' = [utxoPools EXCEPT ![c.stream] = Append(utxoPools[c.stream], ChangeOf(c))]
        BY <2>2 DEF Finish
      <3>3. Append(utxoPools[c.stream], ChangeOf(c)) \in Seq(Known(U))
        BY <2>1, <3>1
      <3> QED BY <3>2, <3>3
    <2>3. CASE ~(c.tx.kind # "fund" /\ Last(c.tx.outs).lock = "own")
      <3>1. utxoPools' = utxoPools
        BY <2>3 DEF Finish
      <3>2. utxoPools' = [utxoPools EXCEPT ![c.stream] = utxoPools[c.stream]]
        BY <1>1, <3>1 DEF Backed
      <3> QED BY <2>1, <3>2
    <2> QED BY <2>2, <2>3
  <1>7. calls' \subseteq CallOver(U) /\ \A d \in calls' : d.stage = "sent" => d.txid \in U
    BY <1>1, <1>2 DEF Backed
  <1> QED BY <1>1, <1>2, <1>3, <1>4, <1>5, <1>6, <1>7, BackedPool

LEMMA BackedSend ==
    ASSUME NEW c \in calls, SendAttempt(c), NEW T, NEW U, T \subseteq U, Backed(T), Adds(U)
    PROVE  Backed(U)'
  <1>1. Backed(U)
    BY BackedMore
  <1>2. UNCHANGED <<sweepLeft, disk, beef>>
    BY DEF SendAttempt, storeVars
  <1>3. c \in CallOver(U) /\ calls \subseteq CallOver(U)
    BY <1>1 DEF Backed
  <1>4. CASE UNCHANGED <<utxoPools, cells>> /\ \E d \in CallOver(U) : Replace(c, d)
    <2>1. calls' \subseteq CallOver(U)
      BY <1>3, <1>4 DEF Replace
    <2> QED BY <1>1, <1>2, <1>4, <2>1 DEF Backed, Adds
  <1>5. CASE Fail(c)
    <2>1. c.stream \in Streams /\ c.tx.ins \in Seq(Known(U)) /\ c.tx.prev \in Seq(Known(U))
      BY <1>3 DEF CallOver, TxOver
    <2>2. utxoPools[c.stream] \in Seq(Known(U)) /\ Returned(c) \in Seq(Known(U))
      <3>1. <<>> \in Seq(Known(U))
        OBVIOUS
      <3> QED BY <1>1, <2>1, <3>1 DEF Backed, Returned
    <2>3. utxoPools' = [utxoPools EXCEPT ![c.stream] = utxoPools[c.stream] \o Returned(c)]
      BY <1>5 DEF Fail
    <2>4. utxoPools[c.stream] \o Returned(c) \in Seq(Known(U))
      BY <2>2
    <2>5. cells' \subseteq Known(U) /\ beef' \subseteq U
      <3>1. Range(c.tx.prev) \subseteq Known(U)
        BY <2>1 DEF Range
      <3> QED BY <1>1, <1>2, <1>5, <3>1 DEF Fail, Backed
    <2>6. calls' \subseteq CallOver(U) /\ \A d \in calls' : d.stage = "sent" => d.txid \in U
      BY <1>3, <1>5 DEF Fail, Adds
    <2> QED BY <1>1, <1>2, <2>1, <2>3, <2>4, <2>5, <2>6, BackedPool
  <1>6. [c EXCEPT !.stage = "sent"] \in CallOver(U) /\ [c EXCEPT !.attempt = c.attempt + 1] \in CallOver(U)
    BY <1>3 DEF CallOver
  <1>7. Fail(c) \/ (UNCHANGED <<utxoPools, cells>> /\ \E d \in CallOver(U) : Replace(c, d))
    BY <1>6 DEF SendAttempt
  <1> QED BY <1>4, <1>5, <1>7

LEMMA BackedFlushDone ==
    ASSUME FlushDone, NEW T, NEW U, T \subseteq U, Backed(T)
    PROVE  Backed(U)'
  <1>1. Backed(U)
    BY BackedMore
  <1>2. UNCHANGED <<calls, cells, beef>>
    BY DEF FlushDone
  <1>3. disk' \in [chainTip : [Streams -> Seq(Known(U))], beef : SUBSET U]
    <2> DEFINE P == [Streams -> Seq(Known(U))]
    <2>1. disk \in [chainTip : P, beef : SUBSET U] /\ utxoPools \in P /\ beef \subseteq U
      BY <1>1 DEF Backed
    <2> HIDE DEF P
    <2>2. disk.beef \subseteq U
      BY <2>1
    <2>3. disk' \in [chainTip : P, beef : SUBSET U]
      BY <2>1, <2>2 DEF FlushDone
    <2> QED BY <2>3 DEF P
  <1>4. utxoPools' \in [Streams -> Seq(Known(U))] /\ sweepLeft' \in Seq(Known(U))
    <2>1. utxoPools \in [Streams -> Seq(Known(U))] /\ sweepLeft \in Seq(Known(U))
      BY <1>1 DEF Backed
    <2>2. EmptyPools \in [Streams -> Seq(Known(U))]
      BY DEF EmptyPools
    <2>3. FlattenSeq([i \in 1..NumStreams |-> utxoPools[i - 1]]) \in Seq(Known(U))
      BY <2>1, PoolsFlat
    <2> QED BY <2>1, <2>2, <2>3 DEF FlushDone
  <1> QED BY <1>1, <1>2, <1>3, <1>4 DEF Backed

LEMMA Sweeps ==
    ASSUME sweepAll, NEW T, Backed(T)
    PROVE  LET n == IF Len(sweepLeft) < SweepBatch THEN Len(sweepLeft) ELSE SweepBatch
           IN /\ SubSeq(sweepLeft, 1, n) \in Seq(Known(T)) /\ SubSeq(sweepLeft, n + 1, Len(sweepLeft)) \in Seq(Known(T))
              /\ sweepLeft' \in Seq(Known(T))
  <1> DEFINE n == IF Len(sweepLeft) < SweepBatch THEN Len(sweepLeft) ELSE SweepBatch
  <1>1. sweepLeft \in Seq(Known(T)) /\ SweepBatch \in Nat
    BY EngineAssumption DEF Backed
  <1>2. n \in 0..Len(sweepLeft) /\ 1 \in 1..(Len(sweepLeft) + 1)
        /\ n + 1 \in 1..(Len(sweepLeft) + 1) /\ Len(sweepLeft) \in 0..Len(sweepLeft)
    BY <1>1
  <1> HIDE DEF n
  <1>3. SubSeq(sweepLeft, 1, n) \in Seq(Known(T)) /\ SubSeq(sweepLeft, n + 1, Len(sweepLeft)) \in Seq(Known(T))
    BY <1>1, <1>2, PartOf
  <1>4. sweepLeft' \in {<<>>, SubSeq(sweepLeft, n + 1, Len(sweepLeft))}
    BY DEF sweepAll, n
  <1>5. sweepLeft' \in Seq(Known(T))
    <2>1. <<>> \in Seq(Known(T))
      OBVIOUS
    <2> QED BY <1>3, <1>4, <2>1
  <1> QED BY <1>3, <1>5 DEF n

LEMMA BackedSweep ==
    ASSUME sweepAll, NEW T, NEW U, T \subseteq U, Backed(T)
    PROVE  Backed(U)'
  <1>1. Backed(U)
    BY BackedMore
  <1>2. sweepLeft' \in Seq(Known(U))
    BY <1>1, Sweeps
  <1>3. UNCHANGED <<utxoPools, calls, cells, storeVars>>
    BY DEF sweepAll
  <1> QED BY <1>1, <1>2, <1>3 DEF Backed, storeVars

LEMMA BackedTimers ==
    ASSUME ChainTipTimer \/ BeefTimer, NEW T, NEW U, T \subseteq U, Backed(T)
    PROVE  Backed(U)'
  <1>1. Backed(U)
    BY BackedMore
  <1>2. UNCHANGED <<utxoPools, calls, cells, sweepLeft, beef>>
    BY DEF ChainTipTimer, BeefTimer, walletVars
  <1>3. disk' \in [chainTip : [Streams -> Seq(Known(U))], beef : SUBSET U]
    <2> DEFINE P == [Streams -> Seq(Known(U))]
    <2>1. disk \in [chainTip : P, beef : SUBSET U] /\ utxoPools \in P /\ beef \subseteq U
      BY <1>1 DEF Backed
    <2>2. disk' = [disk EXCEPT !.chainTip = utxoPools] \/ disk' = [disk EXCEPT !.beef = beef]
      BY DEF ChainTipTimer, BeefTimer
    <2> HIDE DEF P
    <2>3. disk' \in [chainTip : P, beef : SUBSET U]
      BY <2>1, <2>2
    <2> QED BY <2>3 DEF P
  <1> QED BY <1>1, <1>2, <1>3 DEF Backed

LEMMA BackedRestart ==
    ASSUME Restart, NEW T, NEW U, T \subseteq U, Backed(T)
    PROVE  Backed(U)'
  <1>1. Backed(U)
    BY BackedMore
  <1>2. /\ utxoPools' = EmptyPools /\ calls' = {} /\ cells' = {} /\ sweepLeft' = <<>> /\ beef' = {}
        /\ UNCHANGED disk
    BY DEF Restart
  <1>3. EmptyPools \in [Streams -> Seq(Known(U))]
    BY DEF EmptyPools
  <1> QED BY <1>1, <1>2, <1>3 DEF Backed

\* Every step keeps what the wallet holds, and what its files list, within what there is.
LEMMA BackedStep ==
    ASSUME [EngineNext]_engineVars, TxsOK, setup \in Setups, \A c \in calls : c.tx.outs # <<>>,
           NEW T, Closed(T), NEW U, T \subseteq U, Backed(T), Adds(U)
    PROVE  Backed(U)'
  <1> USE DEF walletVars, storeVars, queueVars, lifeVars
  <1>1. CASE Boot
    BY <1>1, BackedBoot
  <1>2. CASE PreSplitFunding
    <2>1. ingestFunding \in Known(T)
      BY FundingKnown DEF Closed
    <2>2. CASE preSplit(ingestFunding)
      BY <2>1, <2>2, BackedPreSplit
    <2>3. CASE preSplitFails(ingestFunding, "discover")
      BY <2>3, BackedStays DEF preSplitFails
    <2> QED BY <1>2, <2>2, <2>3 DEF PreSplitFunding
  <1>3. CASE discoverUtxos
    BY <1>3, BackedDiscover
  <1>4. CASE waitForFunding
    <2>1. OnChain \subseteq Known(T)
      BY UnspentKnown DEF Closed
    <2>2. ASSUME NEW u \in OnChain, preSplit(u) PROVE Backed(U)'
      BY <2>1, <2>2, BackedPreSplit
    <2>3. ASSUME NEW u \in OnChain, preSplitFails(u, "dead") PROVE Backed(U)'
      BY <2>3, BackedStays DEF preSplitFails
    <2>4. CASE UNCHANGED <<walletVars, storeVars>>
      BY <2>4, BackedStays
    <2> QED BY <1>4, <2>2, <2>3, <2>4 DEF waitForFunding
  <1>5. ASSUME NEW s \in Streams, fundChannel(s) PROVE Backed(U)'
    BY <1>5, BackedFund
  <1>6. ASSUME NEW s \in Streams, NEW k \in CallKinds, Begin(s, k) PROVE Backed(U)'
    BY <1>6, BackedBegin
  <1>7. ASSUME NEW c \in calls, Sign(c) PROVE Backed(U)'
    BY <1>7, BackedSign
  <1>8. ASSUME NEW c \in calls, Finish(c) PROVE Backed(U)'
    BY <1>8, BackedFinish
  <1>9. ASSUME NEW c \in calls, SendAttempt(c) PROVE Backed(U)'
    BY <1>9, BackedSend
  <1>10. CASE BatchTimer
    BY <1>10, BackedStays DEF BatchTimer
  <1>11. ASSUME NEW b \in wire, BatchSettles(b) PROVE Backed(U)'
    BY <1>11, BackedStays DEF BatchSettles
  <1>12. CASE Shutdown
    BY <1>12, BackedStays DEF Shutdown
  <1>13. CASE EndOfRun
    BY <1>13, BackedStays DEF EndOfRun
  <1>14. CASE FlushDone
    BY <1>14, BackedFlushDone
  <1>15. CASE sweepAll
    BY <1>15, BackedSweep
  <1>16. CASE SweepDone
    BY <1>16, BackedStays DEF SweepDone
  <1>17. CASE ChainTipTimer \/ BeefTimer
    BY <1>17, BackedTimers
  <1>18. CASE Crash
    BY <1>18, BackedStays DEF Crash
  <1>19. CASE Restart
    BY <1>19, BackedRestart
  <1>20. CASE UNCHANGED engineVars
    BY <1>20, BackedStays DEF engineVars
  <1> QED BY <1>1, <1>2, <1>3, <1>4, <1>5, <1>6, <1>7, <1>8, <1>9, <1>10, <1>11, <1>12, <1>13, <1>14, <1>15,
             <1>16, <1>17, <1>18, <1>19, <1>20 DEF EngineNext

-------------------------------------------------------------------------------
(* What one step signs, calls and gets accepted. *)

\* What a call signs has outputs and pays; what it has signed is a transaction.
CallsOK == \A c \in calls : /\ c.tx.outs # <<>> /\ Pays(c.tx)
                            /\ c.stage # "signing" => c.txid \in DOMAIN txs /\ txs[c.txid] = c.tx

\* What transaction t of list spends.
InputsIn(list, t) == Range(list[t].ins) \union Range(list[t].prev)

LEMMA SplitSigns ==
    ASSUME TxsOK, NEW u \in Known(DOMAIN txs), Splits(u) >= NumStreams, signSplit(u)
    PROVE  Extends /\ SplitId(u) \in DOMAIN txs' /\ InputsIn(txs', SplitId(u)) = {u}
  <1> DEFINE tx == SplitTx(u)
             k == SplitId(u)
  <1>1. tx \in TxOver(DOMAIN txs) /\ tx.ins = <<u>> /\ tx.prev = <<>> /\ Pays(tx)
    BY SplitTxOver
  <1> HIDE DEF tx
  <1>2. Range(<<u>>) = {u} /\ Range(<<>>) = {}
    BY DEF Range
  <1>3. CASE tx \in Range(txs)
    <2>1. \E t \in DOMAIN txs : txs[t] = tx
      BY <1>3 DEF Range
    <2>2. k = CHOOSE t \in DOMAIN txs : txs[t] = tx
      BY <1>3 DEF SplitId, tx
    <2>3. k \in DOMAIN txs /\ txs[k] = tx
      BY <2>1, <2>2
    <2>4. txs' = txs
      BY <2>3 DEF signSplit
    <2> QED BY <1>1, <1>2, <2>3, <2>4 DEF Extends, InputsIn
  <1>4. CASE tx \notin Range(txs)
    <2>1. k = Len(txs) + 1
      BY <1>4 DEF SplitId, tx
    <2>2. txs \in Seq(TxOver(Nat))
      BY DEF TxsOK
    <2>3. k \notin DOMAIN txs
      BY <2>1, <2>2
    <2>4. txs' = Append(txs, tx)
      BY <2>3 DEF signSplit, tx
    <2>5. k \in DOMAIN txs' /\ txs'[k] = tx
      BY <2>1, <2>2, <2>4
    <2> HIDE DEF k
    <2>6. InputsIn(txs', k) = {u}
      BY <1>1, <1>2, <2>5 DEF InputsIn
    <2>7. Extends
      BY <1>1, <2>4 DEF Extends
    <2> QED BY <2>5, <2>6, <2>7 DEF k
  <1> QED BY <1>3, <1>4

LEMMA SplitsCompare ==
    ASSUME NEW T, NEW u \in Known(T)
    PROVE  ~(Splits(u) < NumStreams) => Splits(u) >= NumStreams
  <1> DEFINE d == SplitSatoshis + OutputFee
  <1>1. NumStreams \in Nat /\ NumStreams * MaxSplitsPerStream \in Int /\ u.satoshis - splitFee(1) \in Int /\ d \in Nat /\ d > 0
    <2>1. /\ NumStreams \in Nat /\ MaxSplitsPerStream \in Nat /\ OutputFee \in Nat /\ MinFee \in Nat
          /\ SplitSatoshis \in Nat /\ d > 0
      BY EngineAssumption
    <2>2. u.satoshis \in Nat
      BY DEF Known
    <2>3. splitFee(1) \in Int
      BY <2>1 DEF splitFee, Larger
    <2> QED BY <2>1, <2>2, <2>3
  <1>2. maxSplits(u) \in Int
    BY <1>1 DEF maxSplits
  <1> QED BY <1>1, <1>2 DEF Splits

\* The step of a pre-split, whether it succeeds or not.
LEMMA PreSplitAdds ==
    ASSUME TxsOK, Closed(DOMAIN txs), Closed(accepted), NEW u \in Known(accepted), NEW next,
           preSplit(u) \/ preSplitFails(u, next)
    PROVE  /\ Extends /\ accepted \subseteq accepted' /\ accepted' \subseteq DOMAIN txs'
           /\ \A t \in accepted' \ accepted : \A w \in InputsIn(txs', t) : w.txid \in accepted'
  <1>1. u \in Known(DOMAIN txs) /\ u.txid \in accepted
    BY MoreKnown DEF Closed, Known
  <1>2. CASE Splits(u) >= NumStreams /\ signSplit(u) /\ accepted' \in {accepted, accepted \union {SplitId(u)}}
    <2>1. Extends /\ SplitId(u) \in DOMAIN txs' /\ InputsIn(txs', SplitId(u)) = {u}
      BY <1>1, <1>2, SplitSigns
    <2>2. DOMAIN txs \subseteq DOMAIN txs'
      BY <2>1, TxsGrow
    <2> QED BY <1>1, <1>2, <2>1, <2>2 DEF Closed
  <1>3. CASE UNCHANGED <<txs, accepted>>
    BY <1>3 DEF Extends, Closed
  <1>4. preSplitFails(u, next) /\ ~(Splits(u) < NumStreams)
        => signSplit(u) /\ accepted' \in {accepted, accepted \union {SplitId(u)}}
    BY DEF preSplitFails
  <1>5. ~(Splits(u) < NumStreams) => Splits(u) >= NumStreams
    BY SplitsCompare
  <1>6. preSplit(u) => Splits(u) >= NumStreams /\ signSplit(u) /\ accepted' \in {accepted, accepted \union {SplitId(u)}}
    BY DEF preSplit
  <1>7. preSplitFails(u, next) /\ Splits(u) < NumStreams => UNCHANGED <<txs, accepted>>
    BY DEF preSplitFails
  <1> QED BY <1>2, <1>3, <1>4, <1>5, <1>6, <1>7

\* What is accepted has been signed, with all it spends from.
Grows == /\ Extends /\ accepted \subseteq accepted' /\ accepted' \subseteq DOMAIN txs'
         /\ \A t \in accepted' \ accepted : \A w \in InputsIn(txs', t) : w.txid \in accepted'

\* A call that a step adds or changes is a new one, or one whose transaction has been signed; it is
\* over when the transaction is queued or taken for accepted.
NewCalls == \A d \in calls' :
    \/ d \in calls
    \/ d.stage = "signing" /\ d.tx.outs # <<>> /\ Pays(d.tx)
    \/ /\ \E c \in calls : d.tx = c.tx
       /\ d.txid \in DOMAIN txs' /\ txs'[d.txid] = d.tx
       /\ d.stage = "sent" => Mode = "batch" \/ d.txid \in Taken'

\* What the steps start from.
WalletOK ==
    /\ setup \in Setups /\ TxsOK /\ Closed(accepted) /\ Backed(DOMAIN txs) /\ CallsOK
    /\ \A b \in wire : b \in Seq(DOMAIN txs) /\ b # <<>>

LEMMA ClosedAll ==
    ASSUME TxsOK, Closed(accepted)
    PROVE  Closed(DOMAIN txs)
  <1>1. \A t \in DOMAIN txs : \A u \in Inputs(t) : u.txid \in DOMAIN txs
    BY InputsKnown
  <1> QED BY <1>1 DEF Closed

LEMMA GrowsStays ==
    ASSUME WalletOK, UNCHANGED <<txs, accepted>>
    PROVE  Grows
  BY DEF WalletOK, Closed, Grows, Extends

LEMMA GrowsAccept ==
    ASSUME WalletOK, UNCHANGED txs, NEW b \in Seq(DOMAIN txs), accepted' = Accept(accepted, b)
    PROVE  Grows
  <1>1. /\ accepted \subseteq accepted' /\ accepted' \subseteq accepted \union Range(b)
        /\ \A t \in accepted' \ accepted : \A u \in Inputs(t) : u.txid \in accepted'
    BY AcceptGrows
  <1>2. Range(b) \subseteq DOMAIN txs
    BY DEF Range
  <1>3. accepted' \subseteq DOMAIN txs'
    BY <1>1, <1>2 DEF WalletOK, Closed
  <1>4. \A t \in accepted' \ accepted : \A w \in InputsIn(txs', t) : w.txid \in accepted'
    BY <1>1 DEF InputsIn, Inputs
  <1> QED BY <1>1, <1>3, <1>4 DEF Grows, Extends

LEMMA GrowsSweep ==
    ASSUME WalletOK, sweepAll
    PROVE  Grows
  <1> DEFINE n == IF Len(sweepLeft) < SweepBatch THEN Len(sweepLeft) ELSE SweepBatch
             ins == SubSeq(sweepLeft, 1, n)
             tx == SweepTx(ins)
             t == Len(txs) + 1
  <1>1. ins \in Seq(Known(DOMAIN txs))
    BY Sweeps DEF WalletOK
  <1>2. \/ UNCHANGED <<txs, accepted>>
        \/ /\ ~(tx.outs[1].satoshis <= DustLimit) /\ txs' = Append(txs, tx)
           /\ accepted' = accepted \/ ((\A u \in Range(tx.ins) : u \in OnChain) /\ accepted' = accepted \union {t})
    BY DEF sweepAll
  <1> HIDE DEF ins
  <1>3. CASE /\ ~(tx.outs[1].satoshis <= DustLimit) /\ txs' = Append(txs, tx)
             /\ accepted' = accepted \/ ((\A u \in Range(tx.ins) : u \in OnChain) /\ accepted' = accepted \union {t})
    <2>1. tx \in TxOver(DOMAIN txs) /\ tx.ins = ins /\ tx.prev = <<>> /\ Pays(tx)
      BY <1>1, <1>3, SweepTxOver
    <2> HIDE DEF tx
    <2>2. Extends
      BY <1>3, <2>1 DEF Extends
    <2>3. DOMAIN txs \subseteq DOMAIN txs'
      BY <2>2, TxsGrow DEF WalletOK
    <2>4. t \in DOMAIN txs' /\ txs'[t] = tx
      BY <1>3 DEF WalletOK, TxsOK
    <2> HIDE DEF t
    <2>5. InputsIn(txs', t) = Range(tx.ins)
      <3>1. Range(<<>>) = {}
        BY DEF Range
      <3> QED BY <2>1, <2>4, <3>1 DEF InputsIn
    <2>6. \A u \in OnChain : u.txid \in accepted
      <3>1. OnChain \subseteq Known(accepted)
        BY UnspentKnown DEF WalletOK, Closed
      <3> QED BY <3>1 DEF Known
    <2> QED BY <1>3, <2>2, <2>3, <2>4, <2>5, <2>6 DEF Grows, WalletOK, Closed
  <1> QED BY <1>2, <1>3, GrowsStays

LEMMA GrowsStep ==
    ASSUME WalletOK, [EngineNext]_engineVars
    PROVE  Grows
  <1> USE DEF walletVars, storeVars, queueVars, lifeVars
  <1>1. CASE Boot
    BY <1>1, GrowsStays DEF Boot
  <1>2. CASE PreSplitFunding
    <2>1. ingestFunding \in Known(accepted)
      BY FundingKnown DEF WalletOK, Closed
    <2>2. Closed(DOMAIN txs) /\ Closed(accepted) /\ TxsOK
      BY ClosedAll DEF WalletOK
    <2> QED BY <1>2, <2>1, <2>2, PreSplitAdds DEF PreSplitFunding, Grows
  <1>3. CASE discoverUtxos
    BY <1>3, GrowsStays DEF discoverUtxos
  <1>4. CASE waitForFunding
    <2>1. OnChain \subseteq Known(accepted)
      BY UnspentKnown DEF WalletOK, Closed
    <2>2. Closed(DOMAIN txs) /\ Closed(accepted) /\ TxsOK
      BY ClosedAll DEF WalletOK
    <2>3. ASSUME NEW u \in OnChain, preSplit(u) \/ preSplitFails(u, "dead") PROVE Grows
      <3>1. u \in Known(accepted)
        BY <2>1
      <3> QED BY <2>2, <2>3, <3>1, PreSplitAdds DEF Grows
    <2>4. CASE UNCHANGED <<txs, accepted>>
      BY <2>4, GrowsStays
    <2> QED BY <1>4, <2>3, <2>4 DEF waitForFunding
  <1>5. ASSUME NEW s \in Streams, fundChannel(s) PROVE Grows
    BY <1>5, GrowsStays DEF fundChannel
  <1>6. ASSUME NEW s \in Streams, NEW k \in CallKinds, Begin(s, k) PROVE Grows
    BY <1>6, GrowsStays DEF Begin
  <1>7. ASSUME NEW c \in calls, Sign(c) PROVE Grows
    <2>1. txs' = Append(txs, c.tx) /\ accepted' = accepted
      BY <1>7 DEF Sign
    <2>2. c.tx \in TxOver(DOMAIN txs) /\ Pays(c.tx)
      BY DEF WalletOK, Backed, CallOver, CallsOK
    <2>3. Extends
      BY <2>1, <2>2 DEF Extends
    <2>4. DOMAIN txs \subseteq DOMAIN txs'
      BY <2>3, TxsGrow DEF WalletOK
    <2> QED BY <2>1, <2>3, <2>4 DEF Grows, WalletOK, Closed
  <1>8. ASSUME NEW c \in calls, Finish(c) PROVE Grows
    BY <1>8, GrowsStays DEF Finish
  <1>9. ASSUME NEW c \in calls, SendAttempt(c) PROVE Grows
    <2>1. c.txid \in DOMAIN txs /\ UNCHANGED txs
      BY <1>9 DEF SendAttempt, WalletOK, CallsOK
    <2>2. <<c.txid>> \in Seq(DOMAIN txs)
      BY <2>1
    <2>3. accepted' = Accept(accepted, <<c.txid>>) \/ accepted' = accepted
      BY <1>9 DEF SendAttempt
    <2> QED BY <2>1, <2>2, <2>3, GrowsStays, GrowsAccept
  <1>10. CASE BatchTimer
    BY <1>10, GrowsStays DEF BatchTimer
  <1>11. ASSUME NEW b \in wire, BatchSettles(b) PROVE Grows
    <2>1. b \in Seq(DOMAIN txs) /\ b # <<>> /\ UNCHANGED txs
      BY <1>11 DEF WalletOK, BatchSettles
    <2>2. <<Head(b)>> \in Seq(DOMAIN txs)
      BY <2>1
    <2>3. accepted' \in {accepted, Accept(accepted, b), Accept(accepted, <<Head(b)>>)}
      BY <1>11 DEF BatchSettles
    <2> QED BY <2>1, <2>2, <2>3, GrowsStays, GrowsAccept
  <1>12. CASE Shutdown
    BY <1>12, GrowsStays DEF Shutdown
  <1>13. CASE EndOfRun
    BY <1>13, GrowsStays DEF EndOfRun
  <1>14. CASE FlushDone
    BY <1>14, GrowsStays DEF FlushDone
  <1>15. CASE sweepAll
    BY <1>15, GrowsSweep
  <1>16. CASE SweepDone
    BY <1>16, GrowsStays DEF SweepDone
  <1>17. CASE ChainTipTimer \/ BeefTimer
    BY <1>17, GrowsStays DEF ChainTipTimer, BeefTimer
  <1>18. CASE Crash
    BY <1>18, GrowsStays DEF Crash
  <1>19. CASE Restart
    BY <1>19, GrowsStays DEF Restart
  <1>20. CASE UNCHANGED engineVars
    BY <1>20, GrowsStays DEF engineVars
  <1> QED BY <1>1, <1>2, <1>3, <1>4, <1>5, <1>6, <1>7, <1>8, <1>9, <1>10, <1>11, <1>12, <1>13, <1>14, <1>15,
             <1>16, <1>17, <1>18, <1>19, <1>20 DEF EngineNext

LEMMA NewCallsStep ==
    ASSUME WalletOK, [EngineNext]_engineVars, Grows
    PROVE  NewCalls
  <1> USE DEF walletVars, storeVars, queueVars, lifeVars
  <1>1. ASSUME calls' \subseteq calls PROVE NewCalls
    BY <1>1 DEF NewCalls
  <1>2. ASSUME NEW s \in Streams, fundChannel(s) PROVE NewCalls
    <2>1. Backed(DOMAIN txs)
      BY DEF WalletOK
    <2>2. ASSUME NEW ins \in Seq(Known(DOMAIN txs)), calls' = calls \union {Call(s, CallTx("fund", ins, <<>>))},
                 Total(ins) >= ChannelSatoshis + Fee["fund"]
          PROVE  NewCalls
      <3> DEFINE tx == CallTx("fund", ins, <<>>)
      <3>1. "fund" \in CallKinds /\ <<>> \in Seq(Known(DOMAIN txs))
        BY DEF CallKinds
      <3>2. Len(tx.outs) >= 1 /\ Pays(tx)
        <4>1. \A T : \A ins2, prev \in Seq(Known(T)) :
                 LET tx2 == CallTx("fund", ins2, prev)
                 IN Len(tx2.outs) >= 1 /\ (Total(ins2) + Total(prev) >= ChannelSatoshis + Fee["fund"] => Pays(tx2))
          BY <3>1, CallTxOver
        <4>2. Total(ins) \in Int /\ Total(<<>>) = 0
          BY TotalInt, TotalEmpty
        <4>3. Total(ins) + Total(<<>>) >= ChannelSatoshis + Fee["fund"]
          BY <2>2, <4>2
        <4> QED BY <3>1, <4>1, <4>3
      <3> HIDE DEF tx
      <3>3. Call(s, tx).stage = "signing" /\ Call(s, tx).tx = tx
        BY DEF Call
      <3>4. tx.outs # <<>>
        BY <3>2
      <3>5. calls' = calls \union {Call(s, tx)}
        BY <2>2 DEF tx
      <3> QED BY <3>2, <3>3, <3>4, <3>5 DEF NewCalls
    <2> QED BY <1>1, <1>2, <2>1, <2>2, FundTakes
  <1>3. ASSUME NEW s \in Streams, NEW k \in CallKinds, Begin(s, k) PROVE NewCalls
    <2>1. Backed(DOMAIN txs)
      BY DEF WalletOK
    <2>2. ASSUME NEW u \in Known(DOMAIN txs), NEW prev \in Seq(Known(DOMAIN txs)), Picks(s, k, u, prev)
          PROVE  NewCalls
      <3>0. /\ k # "fund" /\ Total(<<u>>) + Total(prev) >= MinFee + CellSatoshis
            /\ calls' = calls \union {Call(s, CallTx(k, <<u>>, prev))}
        BY <2>2 DEF Picks
      <3> DEFINE tx == CallTx(k, <<u>>, prev)
      <3>1. <<u>> \in Seq(Known(DOMAIN txs))
        OBVIOUS
      <3>2. tx.kind = k /\ Len(tx.outs) >= 1 /\ Pays(tx)
        <4>1. \A T : \A ins, p \in Seq(Known(T)) :
                 LET tx2 == CallTx(k, ins, p)
                 IN tx2.kind = k /\ Len(tx2.outs) >= 1
                    /\ (Total(ins) + Total(p) >= MinFee + CellSatoshis => Pays(tx2))
          BY <3>0, CallTxOver
        <4> QED BY <3>0, <3>1, <4>1
      <3> HIDE DEF tx
      <3>3. Call(s, tx).stage = "signing" /\ Call(s, tx).tx = tx
        BY DEF Call
      <3>4. tx.outs # <<>>
        BY <3>2
      <3>5. calls' = calls \union {Call(s, tx)}
        BY <3>0 DEF tx
      <3> QED BY <3>2, <3>3, <3>4, <3>5 DEF NewCalls
    <2> QED BY <1>1, <1>3, <2>1, <2>2, BeginPicks
  <1>4. ASSUME NEW c \in calls, Sign(c) PROVE NewCalls
    <2>1. c \in CallOver(DOMAIN txs)
      BY DEF WalletOK, Backed
    <2>2. PICK stage : /\ calls' = (calls \ {c}) \union {[c EXCEPT !.txid = Len(txs) + 1, !.stage = stage]}
                       /\ stage = "sent" => Mode = "batch"
      BY <1>4 DEF Sign, Replace, Awaited
    <2> DEFINE d == [c EXCEPT !.txid = Len(txs) + 1, !.stage = stage]
    <2>3. d.tx = c.tx /\ d.txid = Len(txs) + 1 /\ d.stage = stage
      BY <2>1 DEF CallOver
    <2>4. Len(txs) + 1 \in DOMAIN txs' /\ txs'[Len(txs) + 1] = c.tx
      BY <1>4 DEF Sign, WalletOK, TxsOK
    <2> HIDE DEF d
    <2>5. calls' = (calls \ {c}) \union {d}
      BY <2>2 DEF d
    <2> QED BY <2>2, <2>3, <2>4, <2>5 DEF NewCalls
  <1>5. ASSUME NEW c \in calls, Finish(c) PROVE NewCalls
    BY <1>1, <1>5 DEF Finish
  <1>6. ASSUME NEW c \in calls, SendAttempt(c) PROVE NewCalls
    <2>1. c \in CallOver(DOMAIN txs) /\ c.stage = "sending" /\ c.txid \in DOMAIN txs' /\ txs'[c.txid] = c.tx
      BY <1>6 DEF SendAttempt, WalletOK, Backed, CallsOK
    <2>2. [c EXCEPT !.stage = "sent"].tx = c.tx /\ [c EXCEPT !.stage = "sent"].txid = c.txid
      BY <2>1 DEF CallOver
    <2>3. /\ [c EXCEPT !.attempt = c.attempt + 1].tx = c.tx /\ [c EXCEPT !.attempt = c.attempt + 1].txid = c.txid
          /\ [c EXCEPT !.attempt = c.attempt + 1].stage = "sending"
      BY <2>1 DEF CallOver
    <2>4. CASE c.txid \in Taken' /\ Replace(c, [c EXCEPT !.stage = "sent"])
      BY <2>1, <2>2, <2>4 DEF NewCalls, Replace
    <2>5. CASE Replace(c, [c EXCEPT !.attempt = c.attempt + 1])
      BY <2>1, <2>3, <2>5 DEF NewCalls, Replace
    <2>6. CASE Fail(c)
      BY <1>1, <2>6 DEF Fail
    <2> QED BY <1>6, <2>4, <2>5, <2>6 DEF SendAttempt, Confirmed, Taken
  <1>7. CASE \/ Boot \/ PreSplitFunding \/ discoverUtxos \/ waitForFunding \/ BatchTimer \/ Shutdown \/ EndOfRun
             \/ FlushDone \/ sweepAll \/ SweepDone \/ ChainTipTimer \/ BeefTimer \/ Crash
             \/ UNCHANGED engineVars
    <2>1. UNCHANGED calls
      BY <1>7 DEF Boot, PreSplitFunding, discoverUtxos, waitForFunding, preSplit, preSplitFails, BatchTimer, Shutdown,
                  EndOfRun, FlushDone, sweepAll, SweepDone, ChainTipTimer, BeefTimer, Crash, engineVars
    <2> QED BY <1>1, <2>1
  <1>8. ASSUME NEW b \in wire, BatchSettles(b) PROVE NewCalls
    BY <1>1, <1>8 DEF BatchSettles
  <1>9. CASE Restart
    BY <1>1, <1>9 DEF Restart
  <1> QED BY <1>2, <1>3, <1>4, <1>5, <1>6, <1>7, <1>8, <1>9 DEF EngineNext

-------------------------------------------------------------------------------
(* The order of the ids in the queue and on the wire. *)

Incr(q) == \A i, j \in DOMAIN q : i < j => q[i] < q[j]
Before(b, q) == \A i \in DOMAIN b, j \in DOMAIN q : b[i] < q[j]

\* The ids D, as queued in q and as posted in the batches w.
InTurn(q, w, D) == /\ q \in Seq(D) /\ Incr(q)
                   /\ \A b \in w : b \in Seq(D) /\ b # <<>> /\ Incr(b) /\ Before(b, q)

LEMMA PartInTurn ==
    ASSUME NEW D, NEW q \in Seq(D), Incr(q), NEW m \in 1..(Len(q) + 1), NEW n \in 0..Len(q)
    PROVE  /\ SubSeq(q, m, n) \in Seq(D) /\ Incr(SubSeq(q, m, n))
           /\ m <= n => SubSeq(q, m, n) # <<>>
           /\ \A b : Before(b, q) => Before(b, SubSeq(q, m, n))
  <1> DEFINE p == SubSeq(q, m, n)
  <1>1. /\ p \in Seq(D) /\ Len(p) = IF m <= n THEN n - m + 1 ELSE 0
        /\ \A i \in 1..Len(p) : p[i] = q[m + i - 1] /\ m + i - 1 \in m..n
    BY PartOf
  <1> HIDE DEF p
  <1>2. Len(p) \in Nat /\ DOMAIN p = 1..Len(p) /\ m..n \subseteq DOMAIN q
    BY <1>1
  <1>3. Incr(p)
    <2> SUFFICES ASSUME NEW i \in DOMAIN p, NEW j \in DOMAIN p, i < j PROVE p[i] < p[j]
      BY DEF Incr
    <2>1. /\ p[i] = q[m + i - 1] /\ m + i - 1 \in DOMAIN q /\ p[j] = q[m + j - 1] /\ m + j - 1 \in DOMAIN q
      BY <1>1, <1>2
    <2>2. m + i - 1 < m + j - 1
      BY <1>2
    <2> QED BY <2>1, <2>2 DEF Incr
  <1>4. m <= n => p # <<>>
    BY <1>1, <1>2
  <1>5. ASSUME NEW b, Before(b, q) PROVE Before(b, p)
    <2> SUFFICES ASSUME NEW i \in DOMAIN b, NEW j \in DOMAIN p PROVE b[i] < p[j]
      BY DEF Before
    <2>1. p[j] = q[m + j - 1] /\ m + j - 1 \in DOMAIN q
      BY <1>1, <1>2
    <2> QED BY <1>5, <2>1 DEF Before
  <1> QED BY <1>1, <1>3, <1>4, <1>5 DEF p

LEMMA MoreInTurn ==
    ASSUME NEW D, NEW E, D \subseteq E, NEW q, NEW w, InTurn(q, w, D), NEW v \in SUBSET w
    PROVE  InTurn(q, v, E)
  <1>1. Seq(D) \subseteq Seq(E)
    OBVIOUS
  <1> QED BY <1>1 DEF InTurn

\* A new id goes behind all there are.
LEMMA PushInTurn ==
    ASSUME NEW n \in Nat, NEW q, NEW w, InTurn(q, w, 1..n)
    PROVE  InTurn(Append(q, n + 1), w, 1..(n + 1))
  <1> DEFINE p == Append(q, n + 1)
  <1>1. q \in Seq(1..n) /\ Incr(q) /\ Seq(1..n) \subseteq Seq(1..(n + 1))
    BY DEF InTurn
  <1>2. /\ p \in Seq(1..(n + 1)) /\ Len(q) \in Nat /\ DOMAIN q = 1..Len(q) /\ DOMAIN p = 1..(Len(q) + 1)
        /\ p[Len(q) + 1] = n + 1 /\ \A i \in 1..Len(q) : p[i] = q[i] /\ q[i] \in 1..n
    BY <1>1
  <1> HIDE DEF p
  <1>3. Incr(p)
    <2> SUFFICES ASSUME NEW i \in DOMAIN p, NEW j \in DOMAIN p, i < j PROVE p[i] < p[j]
      BY DEF Incr
    <2>1. i \in 1..Len(q)
      BY <1>2
    <2>2. CASE j \in 1..Len(q)
      <3>1. q[i] < q[j]
        BY <1>1, <1>2, <2>1, <2>2 DEF Incr
      <3> QED BY <1>2, <2>1, <2>2, <3>1
    <2>3. CASE j = Len(q) + 1
      <3>1. p[i] \in 1..n
        BY <1>2, <2>1
      <3> QED BY <1>2, <2>3, <3>1
    <2> QED BY <1>2, <2>2, <2>3
  <1>4. ASSUME NEW b \in w PROVE b \in Seq(1..(n + 1)) /\ b # <<>> /\ Incr(b) /\ Before(b, p)
    <2>1. b \in Seq(1..n) /\ b # <<>> /\ Incr(b) /\ Before(b, q)
      BY DEF InTurn
    <2>2. ASSUME NEW i \in DOMAIN b, NEW j \in DOMAIN p PROVE b[i] < p[j]
      <3>1. b[i] \in 1..n
        BY <2>1
      <3>2. CASE j \in 1..Len(q)
        <4>1. b[i] < q[j]
          BY <1>2, <2>1, <3>2 DEF Before
        <4> QED BY <1>2, <3>2, <4>1
      <3>3. CASE j = Len(q) + 1
        BY <1>2, <3>1, <3>3
      <3> QED BY <1>2, <3>2, <3>3
    <2> QED BY <1>1, <2>1, <2>2 DEF Before
  <1> QED BY <1>2, <1>3, <1>4 DEF InTurn, p

\* The front of the queue goes on the wire before the rest of it.
LEMMA FlushInTurn ==
    ASSUME NEW D \in SUBSET Nat, NEW q, NEW w, InTurn(q, w, D), NEW n \in 0..Len(q)
    PROVE  InTurn(SubSeq(q, n + 1, Len(q)), w \union (IF n = 0 THEN {} ELSE {SubSeq(q, 1, n)}), D)
  <1> DEFINE front == SubSeq(q, 1, n)
             rest == SubSeq(q, n + 1, Len(q))
  <1>1. q \in Seq(D) /\ Incr(q) /\ Len(q) \in Nat
    BY DEF InTurn
  <1>2. n + 1 \in 1..(Len(q) + 1) /\ Len(q) \in 0..Len(q) /\ 1 \in 1..(Len(q) + 1) /\ n \in Nat
    BY <1>1
  <1>3. rest \in Seq(D) /\ Incr(rest) /\ (\A b : Before(b, q) => Before(b, rest))
    BY <1>1, <1>2, PartInTurn
  <1>4. front \in Seq(D) /\ Incr(front) /\ (1 <= n => front # <<>>)
    BY <1>1, <1>2, PartInTurn
  <1>5. Before(front, rest)
    <2> SUFFICES ASSUME NEW i \in DOMAIN front, NEW j \in DOMAIN rest PROVE front[i] < rest[j]
      BY DEF Before
    <2>1. \A k \in 1..Len(front) : front[k] = q[1 + k - 1] /\ 1 + k - 1 \in 1..n
      BY <1>1, <1>2, PartOf
    <2>2. \A k \in 1..Len(rest) : rest[k] = q[(n + 1) + k - 1] /\ (n + 1) + k - 1 \in (n + 1)..Len(q)
      BY <1>1, <1>2, PartOf
    <2>3. i \in 1..Len(front) /\ j \in 1..Len(rest)
      BY <1>3, <1>4
    <2>4. /\ front[i] = q[1 + i - 1] /\ 1 + i - 1 \in DOMAIN q /\ rest[j] = q[(n + 1) + j - 1]
          /\ (n + 1) + j - 1 \in DOMAIN q /\ 1 + i - 1 < (n + 1) + j - 1
      BY <1>1, <1>2, <2>1, <2>2, <2>3
    <2> HIDE DEF front, rest
    <2> QED BY <1>1, <2>4 DEF Incr
  <1> HIDE DEF front, rest
  <1>6. ASSUME NEW b \in w \union (IF n = 0 THEN {} ELSE {front})
        PROVE  b \in Seq(D) /\ b # <<>> /\ Incr(b) /\ Before(b, rest)
    <2>1. CASE b \in w
      BY <1>3, <2>1 DEF InTurn
    <2>2. CASE b \notin w
      <3>1. n # 0 /\ b = front
        BY <1>6, <2>2
      <3> QED BY <1>2, <1>4, <1>5, <3>1
    <2> QED BY <2>1, <2>2
  <1> QED BY <1>3, <1>6 DEF InTurn, front, rest

\* A flush posts the whole queue, in batches.
LEMMA StartInTurn ==
    ASSUME NEW next, startFlush(next), NEW D \in SUBSET Nat, InTurn(batchQueue, wire, D)
    PROVE  InTurn(batchQueue', wire', D)
  <1> DEFINE q == batchQueue
             end(i) == IF i + BatchSize - 1 < Len(q) THEN i + BatchSize - 1 ELSE Len(q)
  <1>1. q \in Seq(D) /\ Incr(q) /\ Len(q) \in Nat /\ BatchSize \in Nat \ {0}
    BY EngineAssumption DEF InTurn
  <1>2. batchQueue' = <<>> /\ wire' \subseteq wire \union {SubSeq(q, i, end(i)) : i \in DOMAIN q}
    BY DEF startFlush
  <1>3. ASSUME NEW i \in DOMAIN q
        PROVE  SubSeq(q, i, end(i)) \in Seq(D) /\ SubSeq(q, i, end(i)) # <<>> /\ Incr(SubSeq(q, i, end(i)))
    <2>1. i \in 1..(Len(q) + 1) /\ end(i) \in 0..Len(q) /\ i <= end(i)
      BY <1>1
    <2> QED BY <1>1, <2>1, PartInTurn
  <1>4. \A b : Before(b, <<>>)
    BY DEF Before
  <1>5. <<>> \in Seq(D) /\ Incr(<<>>)
    BY DEF Incr
  <1> QED BY <1>2, <1>3, <1>4, <1>5 DEF InTurn

LEMMA FlushBatchInTurn ==
    ASSUME NEW q, flushBatch(q), NEW D \in SUBSET Nat, InTurn(q, wire, D)
    PROVE  InTurn(batchQueue', wire', D)
  <1> DEFINE n == IF Len(q) < BatchSize THEN Len(q) ELSE BatchSize
  <1>1. n \in 0..Len(q)
    BY EngineAssumption DEF InTurn
  <1>2. /\ batchQueue' = SubSeq(q, n + 1, Len(q))
        /\ wire' = wire \union (IF n = 0 THEN {} ELSE {SubSeq(q, 1, n)})
    BY DEF flushBatch
  <1> HIDE DEF n
  <1> QED BY <1>1, <1>2, FlushInTurn

LEMMA EnqueueInTurn ==
    ASSUME NEW n \in Nat, enqueue(n + 1), InTurn(batchQueue, wire, 1..n)
    PROVE  InTurn(batchQueue', wire', 1..(n + 1))
  <1>1. InTurn(PushedQueue(n + 1), wire, 1..(n + 1))
    BY PushInTurn DEF PushedQueue
  <1>2. CASE flushBatch(PushedQueue(n + 1))
    <2>1. 1..(n + 1) \in SUBSET Nat
      OBVIOUS
    <2> QED BY <1>1, <1>2, <2>1, FlushBatchInTurn
  <1>3. CASE hold(PushedQueue(n + 1))
    BY <1>1, <1>3 DEF hold
  <1> QED BY <1>2, <1>3 DEF enqueue

LEMMA QueueStep ==
    ASSUME WalletOK, [EngineNext]_engineVars, Grows, InTurn(batchQueue, wire, DOMAIN txs)
    PROVE  InTurn(batchQueue', wire', DOMAIN txs')
  <1> USE DEF walletVars, storeVars, queueVars, lifeVars
  <1> DEFINE n == Len(txs)
             D == DOMAIN txs
  <1>1. n \in Nat /\ D = 1..n /\ D \in SUBSET Nat /\ DOMAIN txs' \in SUBSET Nat /\ D \subseteq DOMAIN txs'
    <2>1. TxsOK' /\ D \subseteq DOMAIN txs'
      BY TxsGrow DEF WalletOK, Grows
    <2> QED BY <2>1 DEF WalletOK, TxsOK
  <1>2. ASSUME InTurn(batchQueue', wire', D) PROVE InTurn(batchQueue', wire', DOMAIN txs')
    BY <1>1, <1>2, MoreInTurn
  <1>3. ASSUME UNCHANGED batchQueue, wire' \subseteq wire PROVE InTurn(batchQueue', wire', DOMAIN txs')
    BY <1>1, <1>3, MoreInTurn
  <1>4. ASSUME NEW tx, txs' = Append(txs, tx), enqueue(n + 1) PROVE InTurn(batchQueue', wire', DOMAIN txs')
    <2>1. InTurn(batchQueue', wire', 1..(n + 1))
      BY <1>1, <1>4, EnqueueInTurn
    <2>2. DOMAIN txs' = 1..(n + 1)
      BY <1>4 DEF WalletOK, TxsOK
    <2> QED BY <2>1, <2>2
  <1>5. ASSUME NEW next, startFlush(next) PROVE InTurn(batchQueue', wire', DOMAIN txs')
    BY <1>1, <1>2, <1>5, StartInTurn
  <1>6. ASSUME NEW c \in calls, Sign(c) PROVE InTurn(batchQueue', wire', DOMAIN txs')
    <2>1. txs' = Append(txs, c.tx) /\ (enqueue(n + 1) \/ UNCHANGED <<batchQueue, wire>>)
      BY <1>6 DEF Sign
    <2> QED BY <1>3, <1>4, <2>1
  <1>7. CASE sweepAll
    <2>1. UNCHANGED <<batchQueue, wire>> \/ (enqueue(n + 1) /\ \E tx : txs' = Append(txs, tx))
      BY <1>7 DEF sweepAll
    <2> QED BY <1>3, <1>4, <2>1
  <1>8. CASE BatchTimer
    <2>1. flushBatch(batchQueue)
      BY <1>8 DEF BatchTimer
    <2> QED BY <1>1, <1>2, <2>1, FlushBatchInTurn
  <1>9. CASE Shutdown \/ EndOfRun \/ SweepDone
    BY <1>5, <1>9 DEF Shutdown, EndOfRun, SweepDone
  <1>10. ASSUME NEW b \in wire, BatchSettles(b) PROVE InTurn(batchQueue', wire', DOMAIN txs')
    BY <1>3, <1>10 DEF BatchSettles, settle
  <1>11. CASE Restart
    <2>1. batchQueue' = <<>> /\ wire' = {}
      BY <1>11 DEF Restart
    <2>2. <<>> \in Seq(DOMAIN txs') /\ Incr(<<>>)
      BY DEF Incr
    <2> QED BY <2>1, <2>2 DEF InTurn
  <1>12. CASE Boot \/ PreSplitFunding \/ discoverUtxos \/ waitForFunding \/ FlushDone
              \/ ChainTipTimer \/ BeefTimer \/ Crash \/ UNCHANGED engineVars
    <2>1. UNCHANGED <<batchQueue, wire>>
      BY <1>12 DEF Boot, PreSplitFunding, discoverUtxos, waitForFunding, preSplit, preSplitFails,
                   FlushDone, ChainTipTimer, BeefTimer, Crash, engineVars
    <2> QED BY <1>3, <2>1
  <1>13. ASSUME NEW s \in Streams, fundChannel(s) PROVE InTurn(batchQueue', wire', DOMAIN txs')
    BY <1>3, <1>13 DEF fundChannel
  <1>14. ASSUME NEW s \in Streams, NEW k \in CallKinds, Begin(s, k) PROVE InTurn(batchQueue', wire', DOMAIN txs')
    BY <1>3, <1>14 DEF Begin
  <1>15. ASSUME NEW c \in calls, Finish(c) \/ SendAttempt(c) PROVE InTurn(batchQueue', wire', DOMAIN txs')
    BY <1>3, <1>15 DEF Finish, SendAttempt
  <1> QED BY <1>6, <1>7, <1>8, <1>9, <1>10, <1>11, <1>12, <1>13, <1>14, <1>15 DEF EngineNext

-------------------------------------------------------------------------------
(* The invariant and what follows from it. *)

EngineInv == /\ WalletOK /\ InTurn(batchQueue, wire, DOMAIN txs) /\ FeesCovered
             /\ Closed(Taken) /\ (Mode # "batch" => Backed(Taken)) /\ (LossyNetwork \/ assumed = {})

\* What a process takes for accepted has been signed, and what it spends is taken for accepted too.
LEMMA TakenStep ==
    ASSUME EngineInv, [EngineNext]_engineVars, Grows
    PROVE  /\ Taken \subseteq Taken' /\ Taken' \subseteq DOMAIN txs'
           /\ \A t \in Taken' \ Taken : \A w \in InputsIn(txs', t) : w.txid \in Taken'
           /\ LossyNetwork \/ assumed' = {}
  <1>0. WalletOK /\ TxsOK /\ Closed(Taken) /\ DOMAIN txs \subseteq DOMAIN txs' /\ \A t \in DOMAIN txs : txs'[t] = txs[t]
    BY TxsGrow DEF EngineInv, WalletOK, Grows
  <1>1. ASSUME NEW u \in Known(accepted), preSplit(u), assumed' = assumed \union {SplitId(u)}
        PROVE  SplitId(u) \in DOMAIN txs' /\ InputsIn(txs', SplitId(u)) = {u} /\ u.txid \in accepted
    <2>1. u \in Known(DOMAIN txs) /\ u.txid \in accepted
      BY <1>0, MoreKnown DEF Closed, Known, WalletOK
    <2> QED BY <1>0, <1>1, <2>1, SplitSigns DEF preSplit
  <1>2. ASSUME NEW c \in calls, SendAttempt(c), Mode # "batch"
        PROVE  c.txid \in DOMAIN txs' /\ \A w \in InputsIn(txs', c.txid) : w.txid \in Taken
    <2>1. c \in CallOver(Taken) /\ c.txid \in DOMAIN txs /\ txs[c.txid] = c.tx
      BY <1>0, <1>2 DEF SendAttempt, EngineInv, Backed, WalletOK, CallsOK
    <2>2. c.tx.ins \in Seq(Known(Taken)) /\ c.tx.prev \in Seq(Known(Taken))
      BY <2>1 DEF CallOver, TxOver
    <2>3. Range(c.tx.ins) \subseteq Known(Taken) /\ Range(c.tx.prev) \subseteq Known(Taken)
      BY <2>2 DEF Range
    <2>4. txs'[c.txid] = c.tx
      BY <1>0, <2>1
    <2> QED BY <1>0, <2>1, <2>3, <2>4 DEF InputsIn, Known
  <1>3. \/ assumed' = assumed
        \/ LossyNetwork /\ \E u \in Known(accepted) : preSplit(u) /\ assumed' = assumed \union {SplitId(u)}
        \/ LossyNetwork /\ \E c \in calls : SendAttempt(c) /\ Mode # "batch" /\ assumed' = assumed \union {c.txid}
    <2>1. OnChain \subseteq Known(accepted) /\ ingestFunding \in Known(accepted)
      BY <1>0, UnspentKnown, FundingKnown DEF WalletOK, Closed
    <2>2. ASSUME NEW u \in Known(accepted), preSplit(u)
          PROVE  assumed' = assumed \/ (LossyNetwork /\ assumed' = assumed \union {SplitId(u)})
      BY <2>2 DEF preSplit, Presumes
    <2>3. ASSUME NEW u, NEW next, preSplitFails(u, next) PROVE assumed' = assumed
      BY <2>3 DEF preSplitFails, lifeVars
    <2>4. CASE PreSplitFunding
      BY <2>1, <2>2, <2>3, <2>4 DEF PreSplitFunding
    <2>5. CASE waitForFunding
      BY <2>1, <2>2, <2>3, <2>5 DEF waitForFunding, lifeVars
    <2>6. ASSUME NEW c \in calls, SendAttempt(c)
          PROVE  assumed' = assumed \/ (LossyNetwork /\ Mode # "batch" /\ assumed' = assumed \union {c.txid})
      BY <2>6 DEF SendAttempt, Presumes
    <2>7. ASSUME NEW s \in Streams, fundChannel(s) \/ \E k \in CallKinds : Begin(s, k) PROVE assumed' = assumed
      BY <2>7 DEF fundChannel, Begin, lifeVars
    <2>8. ASSUME NEW c \in calls, Sign(c) \/ Finish(c) PROVE assumed' = assumed
      BY <2>8 DEF Sign, Finish, lifeVars
    <2>9. ASSUME NEW b \in wire, BatchSettles(b) PROVE assumed' = assumed
      BY <2>9 DEF BatchSettles, lifeVars
    <2>10. CASE \/ Boot \/ discoverUtxos \/ BatchTimer \/ Shutdown \/ EndOfRun \/ FlushDone \/ sweepAll \/ SweepDone
                \/ ChainTipTimer \/ BeefTimer \/ Crash \/ Restart \/ UNCHANGED engineVars
      BY <2>10 DEF Boot, discoverUtxos, BatchTimer, Shutdown, EndOfRun, FlushDone, sweepAll, SweepDone, ChainTipTimer,
                   BeefTimer, Crash, Restart, lifeVars, engineVars
    <2> QED BY <2>4, <2>5, <2>6, <2>7, <2>8, <2>9, <2>10, <2>2 DEF EngineNext
  <1>4. \/ assumed' = assumed
        \/ \E t \in DOMAIN txs' : assumed' = assumed \union {t} /\ \A w \in InputsIn(txs', t) : w.txid \in Taken
    BY <1>1, <1>2, <1>3 DEF Taken
  <1>9. LossyNetwork \/ assumed' = {}
    BY <1>3 DEF EngineInv
  <1>5. accepted \subseteq accepted' /\ accepted' \subseteq DOMAIN txs' /\ Taken \subseteq DOMAIN txs
        /\ \A t \in accepted' \ accepted : \A w \in InputsIn(txs', t) : w.txid \in accepted'
    BY <1>0 DEF Grows, Closed
  <1>6. assumed \subseteq assumed'
    BY <1>4
  <1>7. Taken \subseteq Taken' /\ Taken' \subseteq DOMAIN txs'
    BY <1>0, <1>4, <1>5, <1>6 DEF Taken
  <1>8. ASSUME NEW t \in Taken' \ Taken, NEW w \in InputsIn(txs', t) PROVE w.txid \in Taken'
    <2>1. t \in accepted' \ accepted \/ t \in assumed' \ assumed
      BY DEF Taken
    <2>2. accepted' \subseteq Taken'
      BY DEF Taken
    <2> QED BY <1>4, <1>5, <1>7, <2>1, <2>2
  <1> QED BY <1>7, <1>8, <1>9

LEMMA FeesStep ==
    ASSUME TxsOK, Extends, FeesCovered
    PROVE  FeesCovered'
  <1> SUFFICES ASSUME NEW t \in 2..Len(txs')
               PROVE  Total(txs'[t].ins) + Total(txs'[t].prev) >= Total(txs'[t].outs) + LeastFee(txs'[t].kind)
    BY DEF FeesCovered, LeastFee
  <1>1. txs \in Seq(TxOver(Nat)) /\ Len(txs) \in Nat
    BY DEF TxsOK
  <1>2. CASE t \in 2..Len(txs)
    <2>1. t \in DOMAIN txs
      BY <1>1, <1>2
    <2>2. txs'[t] = txs[t]
      BY <2>1, TxsGrow
    <2> QED BY <1>2, <2>2 DEF FeesCovered
  <1>3. CASE t \notin 2..Len(txs)
    <2>1. txs' # txs
      BY <1>3
    <2>2. PICK tx \in TxOver(DOMAIN txs) : txs' = Append(txs, tx) /\ Pays(tx)
      BY <2>1 DEF Extends
    <2>3. Len(txs') = Len(txs) + 1 /\ txs'[Len(txs) + 1] = tx
      BY <1>1, <2>2
    <2>4. t = Len(txs) + 1
      BY <1>1, <1>3, <2>3
    <2> QED BY <2>2, <2>3, <2>4 DEF Pays
  <1> QED BY <1>2, <1>3

LEMMA EngineInvInit ==
    ASSUME EngineInit
    PROVE  EngineInv
  <1> DEFINE tx == Tx("funding", <<>>, <<>>, FundingOuts)
  <1>1. setup \in Setups /\ txs = <<tx>> /\ accepted = {1} /\ calls = {} /\ wire = {} /\ batchQueue = <<>>
    BY DEF EngineInit
  <1>2. FundingOuts \in Seq(Out)
    BY <1>1, FundingKnown
  <1>3. \A T : tx \in TxOver(T)
    <2>1. \A T : <<>> \in Seq(Known(T))
      OBVIOUS
    <2>2. "funding" \in Kinds
      BY DEF Kinds
    <2> QED BY <1>2, <2>1, <2>2 DEF Tx, TxOver, Outs
  <1>4. tx.ins = <<>> /\ tx.prev = <<>> /\ Range(<<>>) = {}
    BY DEF Tx, Range
  <1> HIDE DEF tx
  <1>5. Len(txs) = 1 /\ DOMAIN txs = {1} /\ txs[1] = tx
    BY <1>1
  <1>6. TxsOK
    <2>1. txs \in Seq(TxOver(Nat))
      BY <1>1, <1>3
    <2> QED BY <1>3, <1>5, <2>1 DEF TxsOK
  <1>7. Closed(accepted)
    BY <1>1, <1>4, <1>5 DEF Closed, Inputs
  <1>8. \A T : Backed(T)
    <2>1. EmptyPools = [s \in Streams |-> <<>>]
      BY DEF EmptyPools
    <2> QED BY <2>1 DEF EngineInit, Backed
  <1>9. WalletOK
    BY <1>1, <1>6, <1>7, <1>8 DEF WalletOK, CallsOK
  <1>10. InTurn(batchQueue, wire, DOMAIN txs)
    BY <1>1 DEF InTurn, Incr
  <1>11. FeesCovered
    BY <1>5 DEF FeesCovered
  <1>12. Taken = accepted /\ Closed(Taken)
        /\ assumed = {}
    BY <1>7 DEF EngineInit, Taken
  <1> QED BY <1>8, <1>9, <1>10, <1>11, <1>12 DEF EngineInv

LEMMA EngineInvStep ==
    ASSUME EngineInv, [EngineNext]_engineVars
    PROVE  EngineInv'
  <1>1. WalletOK /\ Grows /\ NewCalls /\ InTurn(batchQueue', wire', DOMAIN txs')
    BY GrowsStep, NewCallsStep, QueueStep DEF EngineInv
  <1>2. setup' = setup /\ Mode' = Mode
    <2>1. UNCHANGED setup
      BY DEF EngineNext, Boot, PreSplitFunding, discoverUtxos, waitForFunding, preSplit, preSplitFails, fundChannel,
             Begin, Sign, Finish, SendAttempt, BatchTimer, BatchSettles, Shutdown, EndOfRun, FlushDone, sweepAll,
             SweepDone, ChainTipTimer, BeefTimer, Crash, Restart, lifeVars, engineVars
    <2> QED BY <2>1 DEF Mode
  <1>3. TxsOK' /\ DOMAIN txs \subseteq DOMAIN txs' /\ \A t \in DOMAIN txs : txs'[t] = txs[t]
    BY <1>1, TxsGrow DEF WalletOK, Grows
  <1>4. Closed(accepted)'
    <2>1. \A t \in accepted' : \A w \in InputsIn(txs', t) : w.txid \in accepted'
      <3>1. ASSUME NEW t \in accepted PROVE \A w \in InputsIn(txs', t) : w.txid \in accepted'
        <4>1. t \in DOMAIN txs /\ txs'[t] = txs[t]
          BY <1>1, <1>3 DEF WalletOK, Closed
        <4> QED BY <1>1, <4>1 DEF WalletOK, Closed, Grows, Inputs, InputsIn
      <3> QED BY <1>1, <3>1 DEF Grows
    <2>2. 1 \in accepted' /\ accepted' \subseteq DOMAIN txs'
      BY <1>1 DEF WalletOK, Closed, Grows
    <2> QED BY <2>1, <2>2 DEF Closed, Inputs, InputsIn
  <1>5. CallsOK'
    <2> SUFFICES ASSUME NEW d \in calls'
                 PROVE  /\ d.tx.outs # <<>> /\ Pays(d.tx)
                        /\ d.stage # "signing" => d.txid \in DOMAIN txs' /\ txs'[d.txid] = d.tx
      BY DEF CallsOK, Pays, LeastFee
    <2> QED BY <1>1, <1>3 DEF NewCalls, WalletOK, CallsOK
  <1>6. \A c \in calls : c.tx.outs # <<>>
    BY <1>1 DEF WalletOK, CallsOK
  <1>14. /\ Taken \subseteq Taken' /\ Taken' \subseteq DOMAIN txs'
         /\ \A t \in Taken' \ Taken : \A w \in InputsIn(txs', t) : w.txid \in Taken'
    BY <1>1, TakenStep
  <1>16. LossyNetwork' \/ assumed' = {}
    <2>1. LossyNetwork' = LossyNetwork
      BY <1>2 DEF LossyNetwork
    <2> QED BY <1>1, <2>1, TakenStep
  <1>15. Closed(Taken)'
    <2>1. \A t \in Taken' : \A w \in InputsIn(txs', t) : w.txid \in Taken'
      <3>1. ASSUME NEW t \in Taken PROVE \A w \in InputsIn(txs', t) : w.txid \in Taken'
        <4>1. t \in DOMAIN txs /\ txs'[t] = txs[t]
          BY <1>3 DEF EngineInv, Closed
        <4>2. \A w \in InputsIn(txs, t) : w.txid \in Taken
          BY DEF EngineInv, Closed, Inputs, InputsIn
        <4> QED BY <1>14, <4>1, <4>2 DEF InputsIn
      <3> QED BY <1>14, <3>1
    <2>2. 1 \in Taken' /\ Taken' \subseteq DOMAIN txs' /\ accepted' \subseteq Taken'
      <3>1. 1 \in Taken
        BY DEF EngineInv, Closed
      <3>2. accepted' \subseteq Taken'
        BY DEF Taken
      <3> QED BY <1>14, <3>1, <3>2
    <2> QED BY <2>1, <2>2 DEF Closed, Inputs, InputsIn
  <1>7. ASSUME NEW T, NEW U, T = DOMAIN txs, U = DOMAIN txs' PROVE Backed(U)'
    <2>1. Closed(T) /\ Backed(T) /\ T \subseteq U
      BY <1>1, <1>3, <1>7, ClosedAll DEF WalletOK
    <2>2. Adds(U)
      <3>1. ASSUME NEW d \in calls', d.stage = "sent" PROVE d.txid \in U
        BY <1>1, <1>3, <1>7, <3>1 DEF NewCalls, WalletOK, CallsOK
      <3> QED BY <1>7, <1>14, <3>1 DEF Adds
    <2> QED BY <1>1, <1>6, <2>1, <2>2, BackedStep DEF WalletOK
  <1>8. Backed(DOMAIN txs)'
    <2>1. PICK T, U : T = DOMAIN txs /\ U = DOMAIN txs'
      OBVIOUS
    <2>2. Backed(U)'
      BY <1>7, <2>1
    <2> QED BY <2>1, <2>2 DEF Backed
  <1>9. ASSUME NEW T, NEW U, T = Taken, U = Taken', Mode # "batch" PROVE Backed(U)'
    <2>1. Closed(T) /\ Backed(T) /\ T \subseteq U
      BY <1>9, <1>14 DEF EngineInv
    <2>2. Adds(U)
      <3>1. ASSUME NEW d \in calls', d.stage = "sent" PROVE d.txid \in U
        <4>1. d \in calls => d.txid \in T
          BY <2>1, <3>1 DEF Backed
        <4> QED BY <1>1, <1>9, <2>1, <3>1, <4>1 DEF NewCalls
      <3> QED BY <1>9, <3>1 DEF Adds
    <2> QED BY <1>1, <1>6, <2>1, <2>2, BackedStep DEF WalletOK
  <1>10. Mode' # "batch" => Backed(Taken)'
    <2>1. PICK T, U : T = Taken /\ U = Taken'
      OBVIOUS
    <2>2. Mode # "batch" => Backed(U)'
      BY <1>9, <2>1
    <2> QED BY <1>2, <2>1, <2>2 DEF Backed
  <1>11. FeesCovered'
    BY <1>1, FeesStep DEF EngineInv, WalletOK, Grows
  <1>12. \A b \in wire' : b \in Seq(DOMAIN txs') /\ b # <<>>
    BY <1>1 DEF InTurn
  <1>13. WalletOK'
    <2>1. setup' \in Setups
      BY <1>1, <1>2 DEF WalletOK
    <2> QED BY <1>3, <1>4, <1>5, <1>8, <1>12, <2>1 DEF WalletOK
  <1> QED BY <1>1, <1>10, <1>11, <1>13, <1>15, <1>16 DEF EngineInv

LEMMA EngineInvHolds == EngineSpec => []EngineInv
  BY EngineInvInit, EngineInvStep, PTL DEF EngineSpec

\* Whatever is signed and however often the process is started, a transaction is posted no earlier than its
\* parents: ids in the queue and on the wire are in the order of signing, and parents were signed before.
THEOREM ParentsGoFirst == EngineSpec => []ParentsFirst
  <1>1. ASSUME EngineInv PROVE ParentsFirst
    <2> DEFINE parents(t) == {u.txid : u \in Inputs(t)}
               ordered(q) == \A i \in DOMAIN q : \A j \in i..Len(q) : q[j] \notin parents(q[i])
    <2>1. TxsOK /\ InTurn(batchQueue, wire, DOMAIN txs) /\ DOMAIN txs \in SUBSET Nat
      BY <1>1 DEF EngineInv, WalletOK, TxsOK
    <2>2. \A t \in DOMAIN txs : \A k \in parents(t) : k \in Nat /\ k < t
      <3> SUFFICES ASSUME NEW t \in DOMAIN txs, NEW u \in Inputs(t) PROVE u.txid \in Nat /\ u.txid < t
        OBVIOUS
      <3>1. u.txid \in 1..(t - 1) /\ t \in Nat
        BY <2>1, InputsKnown
      <3> QED BY <3>1
    <2> HIDE DEF parents
    <2>3. ASSUME NEW q \in Seq(DOMAIN txs), Incr(q) PROVE ordered(q)
      <3> SUFFICES ASSUME NEW i \in DOMAIN q, NEW j \in i..Len(q), q[j] \in parents(q[i]) PROVE FALSE
        OBVIOUS
      <3>1. j \in DOMAIN q /\ q[i] \in DOMAIN txs /\ q[j] \in DOMAIN txs /\ (i = j \/ i < j)
        OBVIOUS
      <3>2. q[i] \in Nat /\ q[j] \in Nat /\ q[j] < q[i]
        BY <2>1, <2>2, <3>1
      <3>3. i < j => q[i] < q[j]
        BY <2>3, <3>1 DEF Incr
      <3> QED BY <3>1, <3>2, <3>3
    <2>4. ASSUME NEW b \in wire, NEW t \in Range(b) PROVE parents(t) \intersect Queued = {}
      <3> SUFFICES ASSUME NEW k \in parents(t), k \in Queued PROVE FALSE
        OBVIOUS
      <3>1. PICK i \in DOMAIN b : t = b[i]
        BY <2>4 DEF Range
      <3>2. PICK j \in DOMAIN batchQueue : k = batchQueue[j]
        BY DEF Queued, Range
      <3>3. b \in Seq(DOMAIN txs) /\ b[i] < batchQueue[j]
        BY <2>1 DEF InTurn, Before
      <3>4. t \in DOMAIN txs
        BY <3>1, <3>3
      <3>5. k \in Nat /\ k < t /\ t < k /\ t \in Nat
        BY <2>1, <2>2, <3>1, <3>2, <3>3, <3>4
      <3> QED BY <3>5
    <2>5. ordered(batchQueue) /\ \A b \in wire : ordered(b)
      <3> HIDE DEF ordered
      <3> QED BY <2>1, <2>3 DEF InTurn
    <2> QED BY <2>4, <2>5 DEF ParentsFirst, parents
  <1> QED BY <1>1, EngineInvHolds, PTL

\* Where broadcasts are awaited, no output gets into a pool, and none out of a snapshot, whose transaction the
\* network does not have, but for those of a transaction taken for accepted on an answer that could not be read.
THEOREM TipsAreAccepted == EngineSpec => []TipsAccepted
  <1>1. ASSUME EngineInv PROVE TipsAccepted
    <2> SUFFICES ASSUME Mode # "batch", NEW s \in Streams, NEW u \in Range(utxoPools[s]) PROVE u.txid \in Taken
      BY DEF TipsAccepted, Pooled, Taken
    <2>1. utxoPools[s] \in Seq(Known(Taken))
      BY <1>1 DEF EngineInv, Backed
    <2>2. u \in Known(Taken)
      <3>1. PICK i \in DOMAIN utxoPools[s] : u = utxoPools[s][i]
        BY DEF Range
      <3> QED BY <2>1, <3>1
    <2> QED BY <2>2 DEF Known
  <1> QED BY <1>1, EngineInvHolds, PTL

\* Every transaction pays the miner at least the floor, and the funding of a channel its fixed fee, whatever
\* outputs it spends and whether or not it has change.
THEOREM FeesAlwaysCovered == EngineSpec => []FeesCovered
  <1>1. EngineInv => FeesCovered
    BY DEF EngineInv
  <1> QED BY <1>1, EngineInvHolds, PTL

-------------------------------------------------------------------------------
(* Nothing is held twice: walks over outputs and the dealing of the pools. *)

LEMMA RangeIn ==
    ASSUME NEW S, NEW q \in Seq(S)
    PROVE  Range(q) \subseteq S
  <1> SUFFICES ASSUME NEW i \in DOMAIN q PROVE q[i] \in S
    BY DEF Range
  <1> QED OBVIOUS

\* Each output is met once, at its transaction and its place there.
LEMMA InOrderOnce ==
    ASSUME TxsOK, NEW S
    PROVE  NoRepeats(InOrder(S)) /\ Range(InOrder(S)) \subseteq S
  <1> DEFINE at(t, v) == Utxo(t, v - 1, txs[t].outs[v].satoshis)
             of(t) == [v \in DOMAIN txs[t].outs |-> LET u == Utxo(t, v - 1, txs[t].outs[v].satoshis)
                                                   IN IF u \in S THEN <<u>> ELSE <<>>]
             walk == [t \in DOMAIN txs |-> FlattenSeq(of(t))]
             From(t) == {u \in S : u.txid = t}
  <1>1. ASSUME NEW t \in DOMAIN txs PROVE FlattenSeq(of(t)) \in Seq(From(t)) /\ NoRepeats(FlattenSeq(of(t)))
    <2>1. txs[t].outs \in Outs
      BY <1>1 DEF TxsOK, TxOver
    <2>2. DOMAIN txs[t].outs = 1..Len(txs[t].outs) /\ Len(txs[t].outs) \in Nat
      BY <2>1 DEF Outs
    <2>3. /\ DOMAIN of(t) = DOMAIN txs[t].outs
          /\ \A v \in DOMAIN txs[t].outs : of(t)[v] = IF at(t, v) \in S THEN <<at(t, v)>> ELSE <<>>
      OBVIOUS
    <2>4. \A v : at(t, v).txid = t /\ at(t, v).vout = v - 1
      BY DEF Utxo
    <2> DEFINE q == of(t)
               D == DOMAIN txs[t].outs
    <2>5. q \in Seq(Seq(From(t)))
      <3>1. \A v \in D : q[v] \in Seq(From(t))
        <4> SUFFICES ASSUME NEW v \in D PROVE q[v] \in Seq(From(t))
          OBVIOUS
        <4> DEFINE u == at(t, v)
        <4>1. q[v] = IF u \in S THEN <<u>> ELSE <<>>
          BY <2>3
        <4>2. u.txid = t
          BY <2>4
        <4> HIDE DEF u, q
        <4>3. u \in S => u \in From(t)
          BY <4>2
        <4> HIDE DEF From
        <4> QED BY <4>1, <4>3
      <3>2. q = [v \in D |-> q[v]] /\ D = 1..Len(txs[t].outs)
        BY <2>2
      <3> HIDE DEF q, From, D
      <3> QED BY <2>2, <3>1, <3>2
    <2>6. Distinct(q)
      <3> SUFFICES ASSUME NEW v \in D, NEW w \in D, NEW x \in DOMAIN q[v], NEW y \in DOMAIN q[w], q[v][x] = q[w][y]
                   PROVE  v = w /\ x = y
        BY <2>3 DEF Distinct
      <3> DEFINE a == at(t, v)
                 b == at(t, w)
      <3>1. q[v] = (IF a \in S THEN <<a>> ELSE <<>>) /\ q[w] = (IF b \in S THEN <<b>> ELSE <<>>)
        BY <2>3
      <3>2. a.vout = v - 1 /\ b.vout = w - 1
        BY <2>4
      <3> HIDE DEF a, b, q
      <3>3. x = 1 /\ y = 1 /\ q[v][x] = a /\ q[w][y] = b
        BY <3>1
      <3>4. v \in Int /\ w \in Int
        BY <2>2
      <3> QED BY <3>2, <3>3, <3>4
    <2> HIDE DEF q
    <2>7. FlattenSeq(q) \in Seq(From(t)) /\ NoRepeats(FlattenSeq(q))
      BY <2>5, <2>6, FlattenType, FlattenOnce
    <2> QED BY <2>7 DEF q
  <1> HIDE DEF of
  <1>2. DOMAIN txs = 1..Len(txs) /\ Len(txs) \in Nat /\ DOMAIN walk = DOMAIN txs
    BY DEF TxsOK
  <1>3. \A t \in DOMAIN txs : walk[t] \in Seq(From(t)) /\ NoRepeats(walk[t]) /\ walk[t] \in Seq(S)
    <2>1. \A t : Seq(From(t)) \subseteq Seq(S)
      OBVIOUS
    <2> HIDE DEF From
    <2> QED BY <1>1, <2>1
  <1>4. walk \in Seq(Seq(S))
    <2> HIDE DEF From
    <2> QED BY <1>2, <1>3
  <1> HIDE DEF walk
  <1>5. Distinct(walk)
    <2> SUFFICES ASSUME NEW t \in DOMAIN txs, NEW k \in DOMAIN txs, NEW x \in DOMAIN walk[t], NEW y \in DOMAIN walk[k],
                        walk[t][x] = walk[k][y]
                 PROVE  t = k /\ x = y
      BY <1>2 DEF Distinct
    <2>1. walk[t][x] \in From(t) /\ walk[k][y] \in From(k)
      <3> HIDE DEF From
      <3> QED BY <1>3
    <2>2. t = k
      BY <2>1
    <2> QED BY <1>3, <2>2 DEF NoRepeats
  <1>6. FlattenSeq(walk) \in Seq(S) /\ NoRepeats(FlattenSeq(walk))
    BY <1>4, <1>5, FlattenType, FlattenOnce
  <1>7. InOrder(S) = FlattenSeq(walk)
    BY DEF InOrder, walk, of
  <1> QED BY <1>6, <1>7, RangeIn

\* Dealing gives no entry to two streams.
LEMMA PartitionOnce ==
    ASSUME NEW S, NEW q \in Seq(S), NoRepeats(q)
    PROVE  /\ Distinct(Partition(q)) /\ DOMAIN Partition(q) = Streams
           /\ \A s \in Streams : Range(Partition(q)[s]) \subseteq Range(q)
  <1> DEFINE N == NumStreams
             p == Partition(q)
             size(s) == (Len(q) - s + N - 1) \div N
  <1>1. N \in Nat \ {0} /\ Len(q) \in Nat /\ DOMAIN q = 1..Len(q)
    BY EngineAssumption
  <1>2. /\ DOMAIN p = Streams
        /\ \A s \in Streams : /\ DOMAIN p[s] = 1..size(s)
                              /\ \A i \in 1..size(s) : p[s][i] = q[(i - 1) * N + s + 1]
    BY DEF Partition
  <1> HIDE DEF p
  <1>3. ASSUME NEW s \in Streams, NEW i \in 1..size(s)
        PROVE  /\ s \in Int /\ 0 <= s /\ s <= N - 1 /\ i \in Int /\ i >= 1
               /\ (i - 1) * N + s + 1 \in DOMAIN q
    <2> DEFINE x == Len(q) - s + N - 1
               d == x \div N
    <2>1. s \in Int /\ 0 <= s /\ s <= N - 1 /\ x \in Nat
      BY <1>1 DEF Streams
    <2>2. d \in Nat /\ d * N <= x /\ i \in 1..d
      BY <1>1, <2>1
    <2>3. i \in Int /\ 1 <= i /\ i <= d /\ d \in Int
      BY <2>2
    <2> HIDE DEF d, N
    <2>4. (i - 1) * N >= 0 /\ (i - 1) * N <= (d - 1) * N /\ (d - 1) * N = d * N - N /\ d * N \in Int /\ (i - 1) * N \in Int
      BY <1>1, <2>3
    <2> DEFINE a == (i - 1) * N
               b == d * N
    <2>5. a \in Int /\ b \in Int /\ a >= 0 /\ a <= b - N /\ b <= Len(q) - s + N - 1
      BY <2>2, <2>4
    <2> HIDE DEF a, b
    <2>6. a + s + 1 \in DOMAIN q
      BY <1>1, <2>1, <2>5
    <2> QED BY <2>1, <2>3, <2>6 DEF a
  <1> HIDE DEF N, size
  <1>4. Distinct(p)
    <2> SUFFICES ASSUME NEW s \in DOMAIN p, NEW r \in DOMAIN p, NEW i \in DOMAIN p[s], NEW j \in DOMAIN p[r], p[s][i] = p[r][j]
                 PROVE  s = r /\ i = j
      BY DEF Distinct
    <2>0. s \in Streams /\ r \in Streams /\ i \in 1..size(s) /\ j \in 1..size(r)
      BY <1>2
    <2>1. /\ s \in Int /\ 0 <= s /\ s <= N - 1 /\ i \in Int /\ i >= 1 /\ (i - 1) * N + s + 1 \in DOMAIN q
          /\ r \in Int /\ 0 <= r /\ r <= N - 1 /\ j \in Int /\ j >= 1 /\ (j - 1) * N + r + 1 \in DOMAIN q
      BY <1>3, <2>0
    <2>2. (i - 1) * N + s + 1 = (j - 1) * N + r + 1
      BY <1>2, <2>0, <2>1 DEF NoRepeats
    <2> DEFINE e == i - j
    <2>3. (i - 1) * N = (j - 1) * N + e * N /\ (j - 1) * N \in Int /\ e * N \in Int /\ (i - 1) * N \in Int
      <3>1. \A a, b, c \in Int : (a - 1) * c = (b - 1) * c + (a - b) * c /\ (a - 1) * c \in Int /\ (a - b) * c \in Int
        OBVIOUS
      <3> QED BY <1>1, <2>1, <3>1
    <2>4. e * N = r - s
      <3> DEFINE a == (i - 1) * N
                 b == (j - 1) * N
                 c == e * N
      <3>0. r \in Int /\ s \in Int
        BY <2>1
      <3>1. a = b + c /\ a \in Int /\ b \in Int /\ c \in Int /\ a + s + 1 = b + r + 1
        BY <2>2, <2>3
      <3> HIDE DEF a, b, c
      <3>2. c = r - s
        BY <3>0, <3>1
      <3> QED BY <3>2 DEF c
    <2>5. e \in Int /\ N \in Int /\ N > 0
      BY <1>1, <2>1
    <2> HIDE DEF e
    <2>6. ~(e >= 1)
      <3> SUFFICES ASSUME e >= 1 PROVE FALSE
        OBVIOUS
      <3> DEFINE c == e * N
      <3>1. c >= N /\ c = r - s
        BY <2>4, <2>5
      <3> HIDE DEF c
      <3> QED BY <2>1, <2>5, <3>1
    <2>7. ~(e <= -1)
      <3> SUFFICES ASSUME e <= -1 PROVE FALSE
        OBVIOUS
      <3> DEFINE c == e * N
      <3>1. c <= -N /\ c = r - s
        BY <2>4, <2>5
      <3> HIDE DEF c
      <3> QED BY <2>1, <2>5, <3>1
    <2>8. e = 0 /\ e * N = 0
      BY <2>5, <2>6, <2>7
    <2> QED BY <2>1, <2>4, <2>8 DEF e
  <1>5. \A s \in Streams : Range(p[s]) \subseteq Range(q)
    <2> SUFFICES ASSUME NEW s \in Streams, NEW i \in DOMAIN p[s] PROVE p[s][i] \in Range(q)
      BY DEF Range
    <2>1. i \in 1..size(s)
      BY <1>2
    <2> QED BY <1>2, <1>3, <2>1 DEF Range
  <1> QED BY <1>2, <1>4, <1>5 DEF p

\* The pools one behind the other.
LEMMA PoolsFlatOnce ==
    ASSUME NEW S, NEW pools \in [Streams -> Seq(S)], Distinct(pools)
    PROVE  /\ NoRepeats(FlattenSeq([i \in 1..NumStreams |-> pools[i - 1]]))
           /\ Range(FlattenSeq([i \in 1..NumStreams |-> pools[i - 1]])) \subseteq UNION {Range(pools[s]) : s \in Streams}
  <1> DEFINE seqs == [i \in 1..NumStreams |-> pools[i - 1]]
             U == UNION {Range(pools[s]) : s \in Streams}
  <1>1. NumStreams \in Nat
    BY EngineAssumption
  <1>2. \A i \in 1..NumStreams : i - 1 \in Streams
    BY <1>1 DEF Streams
  <1>3. pools \in [Streams -> Seq(U)]
    <2>1. ASSUME NEW s \in Streams PROVE pools[s] \in Seq(U)
      <3>1. pools[s] \in Seq(S) /\ Range(pools[s]) \subseteq U
        OBVIOUS
      <3> HIDE DEF U
      <3>2. \A i \in DOMAIN pools[s] : pools[s][i] \in U
        BY <3>1 DEF Range
      <3>3. DOMAIN pools[s] = 1..Len(pools[s]) /\ Len(pools[s]) \in Nat
        BY <3>1
      <3>4. pools[s] = [i \in 1..Len(pools[s]) |-> pools[s][i]]
        BY <3>1
      <3> QED BY <3>2, <3>3, <3>4
    <2> QED BY <2>1
  <1> HIDE DEF U
  <1>4. seqs \in Seq(Seq(U)) /\ DOMAIN seqs = 1..NumStreams /\ \A i \in 1..NumStreams : seqs[i] = pools[i - 1]
    BY <1>1, <1>2, <1>3
  <1> HIDE DEF seqs
  <1>5. Distinct(seqs)
    <2> SUFFICES ASSUME NEW i \in DOMAIN seqs, NEW k \in DOMAIN seqs,
                        NEW x \in DOMAIN seqs[i], NEW y \in DOMAIN seqs[k], seqs[i][x] = seqs[k][y]
                 PROVE  i = k /\ x = y
      BY DEF Distinct
    <2>1. i - 1 \in DOMAIN pools /\ k - 1 \in DOMAIN pools /\ seqs[i] = pools[i - 1] /\ seqs[k] = pools[k - 1]
      BY <1>2, <1>4
    <2>2. i - 1 = k - 1 /\ x = y
      BY <2>1 DEF Distinct
    <2> QED BY <1>1, <1>4, <2>2
  <1>6. FlattenSeq(seqs) \in Seq(U) /\ NoRepeats(FlattenSeq(seqs))
    BY <1>4, <1>5, FlattenType, FlattenOnce
  <1> QED BY <1>6, RangeIn DEF seqs, U

-------------------------------------------------------------------------------
(* What is held and what is spent, for pools, outputs to be swept (left), calls (cs), transactions *)
(* (list) and accepted ids (acc). *)

SpentAt(list, acc, t) == IF list[t].kind = "split" /\ t \notin acc THEN {} ELSE Range(list[t].ins)
Consumed(list, acc) == UNION {SpentAt(list, acc, t) : t \in DOMAIN list}
Signing(cs) == {c \in cs : c.stage = "signing"}
Picked(cs) == UNION {Range(c.tx.ins) : c \in Signing(cs)}
In(pools) == UNION {Range(pools[s]) : s \in Streams}
Holding(pools, left, cs) == In(pools) \union Range(left) \union Picked(cs)

\* Nothing is held in two places.
HeldOnce(pools, left, cs) ==
    /\ DOMAIN pools = Streams /\ Distinct(pools) /\ NoRepeats(left) /\ In(pools) \intersect Range(left) = {}
    /\ Picked(cs) \intersect (In(pools) \union Range(left)) = {}
    /\ \A c, d \in Signing(cs) : c # d => Range(c.tx.ins) \intersect Range(d.tx.ins) = {}

SpentApart(list, acc) ==
    \A t, k \in DOMAIN list : t # k => SpentAt(list, acc, t) \intersect SpentAt(list, acc, k) = {}

\* The outputs of a call's transaction, its change with them, are touched by nobody before the call is
\* over, and belong to no other call.
Alone(c, cs, list, touched) ==
    /\ c.txid \in DOMAIN list /\ list[c.txid] = c.tx /\ \A u \in touched : u.txid # c.txid
    /\ \A d \in cs : d.stage # "signing" /\ d # c => d.txid # c.txid
Untouched(cs, list, touched) == \A c \in cs : c.stage # "signing" => Alone(c, cs, list, touched)

Safe(pools, left, cs, list, acc) ==
    /\ HeldOnce(pools, left, cs) /\ SpentApart(list, acc)
    /\ Holding(pools, left, cs) \intersect Consumed(list, acc) = {}
    /\ Untouched(cs, list, Holding(pools, left, cs) \union Consumed(list, acc))
    /\ \A c \in cs : c.tx.kind \in CallKinds

\* Less is held, or the same at other places.
LEMMA SafeFewer ==
    ASSUME NEW pools, NEW left, NEW cs, NEW list, NEW acc, Safe(pools, left, cs, list, acc),
           NEW p, NEW q, NEW ds, HeldOnce(p, q, ds), Holding(p, q, ds) \subseteq Holding(pools, left, cs),
           \A d \in ds : d \in cs \/ (d.stage = "signing" /\ d.tx.kind \in CallKinds)
    PROVE  Safe(p, q, ds, list, acc)
  <1>1. Untouched(ds, list, Holding(p, q, ds) \union Consumed(list, acc))
    <2> SUFFICES ASSUME NEW c \in ds, c.stage # "signing"
                 PROVE  Alone(c, ds, list, Holding(p, q, ds) \union Consumed(list, acc))
      BY DEF Untouched
    <2>1. c \in cs /\ \A d \in ds : d.stage # "signing" => d \in cs
      OBVIOUS
    <2>2. Alone(c, cs, list, Holding(pools, left, cs) \union Consumed(list, acc))
      BY <2>1 DEF Safe, Untouched
    <2> QED BY <2>1, <2>2 DEF Alone
  <1> QED BY <1>1 DEF Safe

\* The network's answers change nothing of what is spent.
LEMMA SafeAccepted ==
    ASSUME NEW pools, NEW left, NEW cs, NEW list, NEW acc, Safe(pools, left, cs, list, acc),
           NEW more, \A t \in DOMAIN list : SpentAt(list, more, t) = SpentAt(list, acc, t)
    PROVE  Safe(pools, left, cs, list, more)
  <1>1. Consumed(list, more) = Consumed(list, acc)
    BY DEF Consumed
  <1>2. SpentApart(list, more)
    BY DEF Safe, SpentApart
  <1> QED BY <1>1, <1>2 DEF Safe

\* A call whose transaction is signed goes on, or over.
LEMMA SafeStage ==
    ASSUME NEW pools, NEW left, NEW cs, NEW list, NEW acc, Safe(pools, left, cs, list, acc),
           NEW c \in cs, c.stage # "signing", NEW d, d.tx = c.tx, d.txid = c.txid, d.stage # "signing"
    PROVE  Safe(pools, left, (cs \ {c}) \union {d}, list, acc)
  <1> DEFINE ds == (cs \ {c}) \union {d}
  <1>1. Signing(ds) = Signing(cs)
    BY DEF Signing
  <1>2. Picked(ds) = Picked(cs)
    BY <1>1 DEF Picked
  <1>3. HeldOnce(pools, left, ds) /\ Holding(pools, left, ds) = Holding(pools, left, cs)
    BY <1>1, <1>2 DEF Safe, HeldOnce, Holding
  <1> DEFINE touched == Holding(pools, left, cs) \union Consumed(list, acc)
  <1>4. Untouched(cs, list, touched)
    BY DEF Safe
  <1> HIDE DEF touched
  <1>5. Untouched(ds, list, touched)
    BY <1>4 DEF Untouched, Alone
  <1> QED BY <1>3, <1>5 DEF Safe, touched

\* Signing moves what a call has picked from what is held to what is spent.
LEMMA SafeSign ==
    ASSUME NEW pools, NEW left, NEW cs, NEW X, NEW list \in Seq(X), NEW acc, Safe(pools, left, cs, list, acc),
           NEW c \in cs, c.stage = "signing", c.tx \in X,
           \A u \in Holding(pools, left, cs) \union Consumed(list, acc) : u.txid \in DOMAIN list,
           NEW d, d.tx = c.tx, d.txid = Len(list) + 1, d.stage # "signing"
    PROVE  Safe(pools, left, (cs \ {c}) \union {d}, Append(list, c.tx), acc)
  <1> DEFINE ds == (cs \ {c}) \union {d}
             more == Append(list, c.tx)
             n == Len(list) + 1
             H == Holding(pools, left, cs)
             ins == Range(c.tx.ins)
  <1>1. /\ DOMAIN more = DOMAIN list \union {n} /\ n \notin DOMAIN list /\ more[n] = c.tx
        /\ \A t \in DOMAIN list : more[t] = list[t]
    OBVIOUS
  <1> HIDE DEF more, n
  <1>2. SpentAt(more, acc, n) = ins /\ \A t \in DOMAIN list : SpentAt(more, acc, t) = SpentAt(list, acc, t)
    <2>1. c.tx.kind # "split"
      BY DEF Safe, CallKinds
    <2> QED BY <1>1, <2>1 DEF SpentAt
  <1>3. Consumed(more, acc) = Consumed(list, acc) \union ins
    BY <1>1, <1>2 DEF Consumed
  <1>4. Signing(ds) = Signing(cs) \ {c} /\ c \in Signing(cs)
    BY DEF Signing
  <1>5. Picked(ds) \subseteq Picked(cs) /\ ins \subseteq Picked(cs) /\ Picked(ds) \intersect ins = {}
    <2>1. \A e \in Signing(ds) : Range(e.tx.ins) \intersect ins = {}
      BY <1>4 DEF Safe, HeldOnce
    <2>2. Picked(ds) \intersect ins = {}
      BY <2>1 DEF Picked
    <2>3. Picked(ds) \subseteq Picked(cs) /\ ins \subseteq Picked(cs)
      BY <1>4 DEF Picked
    <2> QED BY <2>2, <2>3
  <1>6. HeldOnce(pools, left, ds)
    BY <1>4, <1>5 DEF Safe, HeldOnce
  <1>7. Holding(pools, left, ds) \subseteq H /\ ins \subseteq H /\ Holding(pools, left, ds) \intersect ins = {}
    BY <1>5 DEF Safe, HeldOnce, Holding
  <1>8. SpentApart(more, acc)
    <2> SUFFICES ASSUME NEW t \in DOMAIN more, NEW k \in DOMAIN more, t # k
                 PROVE  SpentAt(more, acc, t) \intersect SpentAt(more, acc, k) = {}
      BY DEF SpentApart
    <2>1. \A j \in DOMAIN list : SpentAt(list, acc, j) \intersect ins = {}
      BY <1>7 DEF Safe, Consumed
    <2> QED BY <1>1, <1>2, <2>1 DEF Safe, SpentApart
  <1>9. Holding(pools, left, ds) \intersect Consumed(more, acc) = {}
    BY <1>3, <1>7 DEF Safe
  <1>10. Untouched(ds, more, H \union Consumed(list, acc))
    <2> DEFINE touched == H \union Consumed(list, acc)
    <2>1. Untouched(cs, list, touched) /\ \A u \in touched : u.txid \in DOMAIN list
      BY DEF Safe
    <2> HIDE DEF touched
    <2>2. d.txid = n
      BY DEF n
    <2> SUFFICES ASSUME NEW e \in ds, e.stage # "signing" PROVE Alone(e, ds, more, touched)
      BY DEF Untouched, touched
    <2>3. \A f \in cs : f.stage # "signing" => f.txid \in DOMAIN list /\ f.txid # n
      BY <1>1, <2>1 DEF Untouched, Alone
    <2>4. CASE e = d
      BY <1>1, <2>1, <2>2, <2>3, <2>4 DEF Alone
    <2>5. CASE e # d
      <3>1. e \in cs
        BY <2>5
      <3>2. Alone(e, cs, list, touched)
        BY <2>1, <3>1 DEF Untouched
      <3> QED BY <1>1, <2>2, <2>3, <3>1, <3>2 DEF Alone
    <2> QED BY <2>4, <2>5
  <1>11. Holding(pools, left, ds) \union Consumed(more, acc) \subseteq H \union Consumed(list, acc)
    BY <1>3, <1>7
  <1>12. Untouched(ds, more, Holding(pools, left, ds) \union Consumed(more, acc))
    BY <1>10, <1>11 DEF Untouched, Alone
  <1>13. \A e \in ds : e.tx.kind \in CallKinds
    BY DEF Safe
  <1> QED BY <1>6, <1>8, <1>9, <1>12, <1>13 DEF Safe, more

\* A call that is over puts an output of its transaction back, which nobody has touched.
LEMMA SafeFinish ==
    ASSUME NEW pools, NEW left, NEW cs, NEW list, NEW acc, Safe(pools, left, cs, list, acc),
           NEW c \in cs, c.stage # "signing", NEW s \in Streams, NEW X, pools[s] \in Seq(X),
           NEW w \in X, w.txid = c.txid
    PROVE  Safe([pools EXCEPT ![s] = Append(pools[s], w)], left, cs \ {c}, list, acc)
  <1> DEFINE ds == cs \ {c}
             p == [pools EXCEPT ![s] = Append(pools[s], w)]
             H == Holding(pools, left, cs)
  <1>1. Signing(ds) = Signing(cs) /\ Picked(ds) = Picked(cs)
    BY DEF Signing, Picked
  <1>2. w \notin H \union Consumed(list, acc)
    BY DEF Safe, Untouched, Alone
  <1>3. DOMAIN pools = Streams
    BY DEF Safe, HeldOnce
  <1>4. DOMAIN p = Streams /\ p[s] = Append(pools[s], w) /\ \A r \in Streams \ {s} : p[r] = pools[r]
    BY <1>3
  <1> HIDE DEF p
  <1>5. /\ DOMAIN pools[s] = 1..Len(pools[s]) /\ Len(pools[s]) \in Nat /\ DOMAIN p[s] = 1..(Len(pools[s]) + 1)
        /\ p[s][Len(pools[s]) + 1] = w /\ \A i \in DOMAIN pools[s] : p[s][i] = pools[s][i]
    BY <1>4
  <1>6. \A i \in DOMAIN p[s] : i \in DOMAIN pools[s] \/ i = Len(pools[s]) + 1
    BY <1>5
  <1>7. \A r \in Streams : \A i \in DOMAIN pools[r] : pools[r][i] # w
    BY <1>2 DEF Holding, In, Range
  <1>8. \A r \in Streams : \A i \in DOMAIN p[r] : (i \in DOMAIN pools[r] /\ p[r][i] = pools[r][i])
                                                  \/ (r = s /\ i = Len(pools[s]) + 1 /\ p[r][i] = w)
    BY <1>4, <1>5, <1>6
  <1>9. Distinct(p)
    <2>1. Distinct(pools)
      BY DEF Safe, HeldOnce
    <2> SUFFICES ASSUME NEW r \in Streams, NEW k \in Streams, NEW x \in DOMAIN p[r], NEW y \in DOMAIN p[k], p[r][x] = p[k][y]
                 PROVE  r = k /\ x = y
      BY <1>4 DEF Distinct
    <2>2. CASE x \in DOMAIN pools[r] /\ y \in DOMAIN pools[k] /\ p[r][x] = pools[r][x] /\ p[k][y] = pools[k][y]
      <3>1. r \in DOMAIN pools /\ k \in DOMAIN pools /\ pools[r][x] = pools[k][y]
        BY <1>3, <2>2
      <3> QED BY <2>1, <2>2, <3>1 DEF Distinct
    <2> QED BY <1>7, <1>8, <2>2
  <1>10. In(p) = In(pools) \union {w}
    <2>1. Range(p[s]) = Range(pools[s]) \union {w}
      BY <1>5, <1>6 DEF Range
    <2> QED BY <1>4, <2>1 DEF In
  <1>11. HeldOnce(p, left, ds)
    <2>1. w \notin Range(left) /\ w \notin Picked(cs)
      BY <1>2 DEF Holding
    <2> QED BY <1>1, <1>4, <1>9, <1>10, <2>1 DEF Safe, HeldOnce
  <1>12. Holding(p, left, ds) = H \union {w}
    BY <1>1, <1>10 DEF Holding
  <1>13. Holding(p, left, ds) \intersect Consumed(list, acc) = {}
    BY <1>2, <1>12 DEF Safe
  <1>14. Untouched(ds, list, H \union {w} \union Consumed(list, acc))
    <2> DEFINE touched == H \union Consumed(list, acc)
    <2>1. Untouched(cs, list, touched)
      BY DEF Safe
    <2> HIDE DEF touched
    <2>2. Untouched(ds, list, touched \union {w})
      BY <2>1 DEF Untouched, Alone
    <2>3. touched \union {w} = H \union {w} \union Consumed(list, acc)
      BY DEF touched
    <2> QED BY <2>2, <2>3
  <1> QED BY <1>11, <1>12, <1>13, <1>14 DEF Safe, p

\* A sweep spends a part of what was left to sweep.
LEMMA SafeSweep ==
    ASSUME NEW pools, NEW left, NEW cs, NEW X, NEW list \in Seq(X), NEW acc, Safe(pools, left, cs, list, acc),
           acc \subseteq DOMAIN list, NEW tx \in X, tx.kind = "sweep", NEW rest, NoRepeats(rest),
           Range(tx.ins) \union Range(rest) \subseteq Range(left), Range(tx.ins) \intersect Range(rest) = {},
           NEW more, more \in {acc, acc \union {Len(list) + 1}}
    PROVE  Safe(pools, rest, cs, Append(list, tx), more)
  <1> DEFINE l == Append(list, tx)
             n == Len(list) + 1
             H == Holding(pools, left, cs)
             ins == Range(tx.ins)
  <1>1. /\ DOMAIN l = DOMAIN list \union {n} /\ n \notin DOMAIN list /\ l[n] = tx
        /\ \A t \in DOMAIN list : l[t] = list[t]
    OBVIOUS
  <1>2. more \in {acc, acc \union {n}}
    OBVIOUS
  <1> HIDE DEF l, n
  <1>3. SpentAt(l, more, n) = ins /\ \A t \in DOMAIN list : SpentAt(l, more, t) = SpentAt(list, acc, t)
    BY <1>1, <1>2 DEF SpentAt
  <1>4. Consumed(l, more) = Consumed(list, acc) \union ins
    BY <1>1, <1>3 DEF Consumed
  <1>5. HeldOnce(pools, rest, cs)
    BY DEF Safe, HeldOnce
  <1>6. Holding(pools, rest, cs) \subseteq H /\ ins \subseteq H /\ Holding(pools, rest, cs) \intersect ins = {}
    BY DEF Safe, HeldOnce, Holding
  <1>7. SpentApart(l, more)
    <2> SUFFICES ASSUME NEW t \in DOMAIN l, NEW k \in DOMAIN l, t # k
                 PROVE  SpentAt(l, more, t) \intersect SpentAt(l, more, k) = {}
      BY DEF SpentApart
    <2>1. \A j \in DOMAIN list : SpentAt(list, acc, j) \intersect ins = {}
      BY <1>6 DEF Safe, Consumed
    <2> QED BY <1>1, <1>3, <2>1 DEF Safe, SpentApart
  <1>8. Holding(pools, rest, cs) \intersect Consumed(l, more) = {}
    BY <1>4, <1>6 DEF Safe
  <1>9. Untouched(cs, l, H \union Consumed(list, acc))
    <2> DEFINE touched == H \union Consumed(list, acc)
    <2>1. Untouched(cs, list, touched)
      BY DEF Safe
    <2> HIDE DEF touched
    <2> SUFFICES ASSUME NEW c \in cs, c.stage # "signing" PROVE Alone(c, cs, l, touched)
      BY DEF Untouched, touched
    <2>2. Alone(c, cs, list, touched)
      BY <2>1 DEF Untouched
    <2> QED BY <1>1, <2>2 DEF Alone
  <1>10. Holding(pools, rest, cs) \union Consumed(l, more) \subseteq H \union Consumed(list, acc)
    BY <1>4, <1>6
  <1>11. Untouched(cs, l, Holding(pools, rest, cs) \union Consumed(l, more))
    BY <1>9, <1>10 DEF Untouched, Alone
  <1> QED BY <1>5, <1>7, <1>8, <1>11 DEF Safe, l

\* Pools that are dealt when there are no calls.
LEMMA SafeStart ==
    ASSUME NEW list, NEW acc, SpentApart(list, acc), NEW pools, DOMAIN pools = Streams, Distinct(pools),
           In(pools) \intersect Consumed(list, acc) = {}
    PROVE  Safe(pools, <<>>, {}, list, acc)
  <1>1. Signing({}) = {} /\ Range(<<>>) = {} /\ NoRepeats(<<>>)
    BY DEF Signing, Range, NoRepeats
  <1>2. Picked({}) = {}
    BY <1>1 DEF Picked
  <1> QED BY <1>1, <1>2 DEF Safe, HeldOnce, Holding, Untouched

-------------------------------------------------------------------------------
(* What the steps take from the pools. *)

\* A queue that is cut has nothing in both of its parts.
LEMMA CutOnce ==
    ASSUME NEW S, NEW q \in Seq(S), NoRepeats(q), NEW m \in 0..Len(q), NEW n \in m..Len(q)
    PROVE  LET front == SubSeq(q, 1, m)
               rest == SubSeq(q, n + 1, Len(q))
           IN /\ front \in Seq(S) /\ rest \in Seq(S) /\ NoRepeats(front) /\ NoRepeats(rest)
              /\ Range(front) \subseteq Range(q) /\ Range(rest) \subseteq Range(q)
              /\ Range(front) \intersect Range(rest) = {}
              /\ \A i \in (m + 1)..n : q[i] \in Range(q) /\ q[i] \notin Range(rest)
  <1> DEFINE front == SubSeq(q, 1, m)
             rest == SubSeq(q, n + 1, Len(q))
  <1>1. Len(q) \in Nat /\ DOMAIN q = 1..Len(q) /\ 1 \in 1..(Len(q) + 1) /\ n + 1 \in 1..(Len(q) + 1) /\ Len(q) \in 0..Len(q)
    OBVIOUS
  <1>2. /\ front \in Seq(S) /\ \A i \in 1..Len(front) : front[i] = q[1 + i - 1] /\ 1 + i - 1 \in 1..m
    BY <1>1, PartOf
  <1>3. /\ rest \in Seq(S) /\ \A i \in 1..Len(rest) : rest[i] = q[n + 1 + i - 1] /\ n + 1 + i - 1 \in (n + 1)..Len(q)
    BY <1>1, PartOf
  <1> HIDE DEF front, rest
  <1>4. /\ \A i \in DOMAIN front : front[i] = q[i] /\ i \in 1..m
        /\ \A i \in DOMAIN rest : rest[i] = q[n + i] /\ n + i \in (n + 1)..Len(q) /\ i \in Int
    <2>1. /\ DOMAIN front = 1..Len(front) /\ Len(front) \in Nat /\ DOMAIN rest = 1..Len(rest) /\ Len(rest) \in Nat
          /\ m \in Nat /\ n \in Nat
      BY <1>1, <1>2, <1>3
    <2>2. ASSUME NEW i \in 1..Len(front) PROVE front[i] = q[i] /\ i \in 1..m
      <3>1. 1 + i - 1 = i
        BY <2>1
      <3> QED BY <1>2, <3>1
    <2>3. ASSUME NEW i \in 1..Len(rest) PROVE rest[i] = q[n + i] /\ n + i \in (n + 1)..Len(q) /\ i \in Int
      <3>1. n + 1 + i - 1 = n + i /\ i \in Int
        BY <2>1
      <3> QED BY <1>3, <3>1
    <2> QED BY <2>1, <2>2, <2>3
  <1>5. NoRepeats(front) /\ Range(front) \subseteq Range(q)
    BY <1>1, <1>4 DEF NoRepeats, Range
  <1>6. NoRepeats(rest)
    <2> SUFFICES ASSUME NEW i \in DOMAIN rest, NEW j \in DOMAIN rest, rest[i] = rest[j] PROVE i = j
      BY DEF NoRepeats
    <2>1. n + i \in DOMAIN q /\ n + j \in DOMAIN q /\ q[n + i] = q[n + j] /\ i \in Int /\ j \in Int
      BY <1>1, <1>4
    <2>2. n + i = n + j
      BY <2>1 DEF NoRepeats
    <2> QED BY <2>1, <2>2
  <1>7. Range(rest) \subseteq Range(q)
    BY <1>1, <1>4 DEF Range
  <1>8. Range(front) \intersect Range(rest) = {}
    <2> SUFFICES ASSUME NEW i \in DOMAIN front, NEW j \in DOMAIN rest, front[i] = rest[j] PROVE FALSE
      BY DEF Range
    <2>1. i \in DOMAIN q /\ n + j \in DOMAIN q /\ q[i] = q[n + j] /\ i < n + j
      BY <1>1, <1>4
    <2> QED BY <2>1 DEF NoRepeats
  <1>9. ASSUME NEW i \in (m + 1)..n PROVE q[i] \in Range(q) /\ q[i] \notin Range(rest)
    <2>1. i \in DOMAIN q
      BY <1>1
    <2>2. ASSUME NEW j \in DOMAIN rest, q[i] = rest[j] PROVE FALSE
      <3>1. n + j \in DOMAIN q /\ q[i] = q[n + j] /\ i < n + j
        BY <1>1, <1>4, <2>2
      <3> QED BY <2>1, <3>1 DEF NoRepeats
    <2> QED BY <2>1, <2>2 DEF Range
  <1> QED BY <1>2, <1>3, <1>5, <1>6, <1>7, <1>8, <1>9 DEF front, rest

\* A stream's pool shrinks, and a call may have picked from it.
LEMMA TakeOnce ==
    ASSUME NEW pools, NEW left, NEW cs, HeldOnce(pools, left, cs), NEW s \in Streams,
           NEW rest, NoRepeats(rest), Range(rest) \subseteq Range(pools[s]),
           NEW ds, NEW d, d.stage = "signing", Range(d.tx.ins) \subseteq Range(pools[s]),
           \/ ds = cs
           \/ ds = cs \union {d} /\ Range(d.tx.ins) \intersect Range(rest) = {}
    PROVE  /\ HeldOnce([pools EXCEPT ![s] = rest], left, ds)
           /\ Holding([pools EXCEPT ![s] = rest], left, ds) \subseteq Holding(pools, left, cs)
  <1> DEFINE p == [pools EXCEPT ![s] = rest]
  <1>1. DOMAIN pools = Streams /\ Distinct(pools)
    BY DEF HeldOnce
  <1>2. DOMAIN p = Streams /\ p[s] = rest /\ \A r \in Streams : r # s => p[r] = pools[r]
    BY <1>1
  <1> HIDE DEF p
  <1>3. \A r \in Streams : Range(p[r]) \subseteq Range(pools[r])
    BY <1>2
  <1>4. In(p) \subseteq In(pools) /\ Range(pools[s]) \subseteq In(pools)
    BY <1>3 DEF In
  <1>5. \A r, v \in Streams : r # v => Range(pools[r]) \intersect Range(pools[v]) = {}
    BY <1>1 DEF Distinct, Range
  <1>6. Distinct(p)
    <2> SUFFICES ASSUME NEW r \in DOMAIN p, NEW v \in DOMAIN p, NEW x \in DOMAIN p[r], NEW y \in DOMAIN p[v],
                        p[r][x] = p[v][y]
                 PROVE  r = v /\ x = y
      BY DEF Distinct
    <2>1. p[r][x] \in Range(pools[r]) /\ p[v][y] \in Range(pools[v]) /\ r \in Streams /\ v \in Streams
      BY <1>2, <1>3 DEF Range
    <2>2. r = v
      BY <1>5, <2>1
    <2>3. CASE r = s
      BY <1>2, <2>2, <2>3 DEF NoRepeats
    <2>4. CASE r # s
      BY <1>1, <1>2, <2>1, <2>2, <2>4 DEF Distinct
    <2> QED BY <2>2, <2>3, <2>4
  <1>7. Signing(ds) \subseteq Signing(cs) \union {d} /\ (d \in Signing(ds) => d \in cs \/ ds = cs \union {d})
    BY DEF Signing
  <1>8. Picked(ds) \subseteq Picked(cs) \union Range(d.tx.ins) /\ (ds = cs => Picked(ds) = Picked(cs))
    BY <1>7 DEF Picked
  <1>9. Holding(p, left, ds) \subseteq Holding(pools, left, cs)
    BY <1>4, <1>8 DEF Holding
  <1>10. ds = cs \union {d} => Range(d.tx.ins) \intersect (In(p) \union Range(left)) = {}
    <2> SUFFICES ASSUME ds = cs \union {d}, NEW u \in Range(d.tx.ins) PROVE u \notin In(p) /\ u \notin Range(left)
      OBVIOUS
    <2>1. (u \in Range(pools[s]) /\ u \notin Range(rest)) \/ ds = cs
      OBVIOUS
    <2>2. ASSUME ds = cs PROVE u \notin In(p) /\ u \notin Range(left)
      <3>1. d \in Signing(cs)
        BY <2>2 DEF Signing
      <3>2. u \in Picked(cs)
        BY <3>1 DEF Picked
      <3> QED BY <1>4, <3>2 DEF HeldOnce
    <2>3. ASSUME u \in Range(pools[s]), u \notin Range(rest) PROVE u \notin In(p) /\ u \notin Range(left)
      <3>1. u \notin Range(left)
        BY <1>4, <2>3 DEF HeldOnce
      <3>2. \A r \in Streams : u \notin Range(p[r])
        BY <1>2, <1>5, <2>3
      <3> QED BY <3>1, <3>2 DEF In
    <2> QED BY <2>1, <2>2, <2>3
  <1>11. Picked(ds) \intersect (In(p) \union Range(left)) = {}
    <2>1. Picked(cs) \intersect (In(pools) \union Range(left)) = {}
      BY DEF HeldOnce
    <2> QED BY <1>4, <1>8, <1>10, <2>1
  <1>12. ASSUME NEW c \in Signing(ds), NEW e \in Signing(ds), c # e PROVE Range(c.tx.ins) \intersect Range(e.tx.ins) = {}
    <2>1. CASE c \in Signing(cs) /\ e \in Signing(cs)
      BY <1>12, <2>1 DEF HeldOnce
    <2>2. ASSUME NEW f \in Signing(cs), d \notin Signing(cs) PROVE Range(f.tx.ins) \intersect Range(d.tx.ins) = {}
      <3>1. Range(f.tx.ins) \subseteq Picked(cs)
        BY DEF Picked
      <3> QED BY <1>4, <3>1 DEF HeldOnce
    <2> QED BY <1>7, <1>12, <2>1, <2>2
  <1>13. NoRepeats(left) /\ In(p) \intersect Range(left) = {}
    BY <1>4 DEF HeldOnce
  <1> QED BY <1>2, <1>6, <1>9, <1>11, <1>12, <1>13 DEF HeldOnce, p

\* There are fewer calls.
LEMMA DropOnce ==
    ASSUME NEW pools, NEW left, NEW cs, HeldOnce(pools, left, cs), NEW ds \in SUBSET cs
    PROVE  HeldOnce(pools, left, ds) /\ Holding(pools, left, ds) \subseteq Holding(pools, left, cs)
  <1>1. Signing(ds) \subseteq Signing(cs)
    BY DEF Signing
  <1>2. Picked(ds) \subseteq Picked(cs)
    BY <1>1 DEF Picked
  <1> QED BY <1>1, <1>2 DEF HeldOnce, Holding

-------------------------------------------------------------------------------
(* The first process of a wallet. *)

\* Nothing was left behind by an earlier process, and a channel's funding transaction, whose inputs are put
\* back when its broadcast fails, is refused by nobody who could have it: its parents are not waiting in a
\* queue, and its answer is not lost.
FirstProcess == lives = 1 /\ ("fund" \in setup.kinds => Mode # "batch" /\ ~LossyNetwork)

Plain == {t \in DOMAIN txs : txs[t].kind # "split"}

\* What is held, or was picked by a call, is the engine's own; what a call spends besides is a cell.
Owned == In(utxoPools) \union Range(sweepLeft) \union UNION {Range(c.tx.ins) : c \in calls}
Celled == cells \union UNION {Range(c.tx.prev) : c \in calls}
Locked == /\ \A u \in Owned : LockOf(u) = "own"
          /\ \A u \in Celled : LockOf(u) = "cell"
          /\ \A t \in DOMAIN txs : \A u \in Range(txs[t].prev) : LockOf(u) = "cell"

KindsOK == \A c \in calls : c.tx.kind \in setup.kinds /\ (c.tx.kind = "fund" => c.tx.prev = <<>>)

\* Until its pools are filled the process has signed nothing but splits.
Starting ==
    /\ phase \in {"boot", "presplit"} =>
           /\ disk = [chainTip |-> EmptyPools, beef |-> {}] /\ Len(txs) = 1 /\ accepted = {1}
           /\ wire = {} /\ ~batchFlushTimer /\ ~chainTipDirty /\ ~beefDirty
    /\ phase \in {"boot", "presplit", "discover"} => utxoPools = EmptyPools
    /\ phase \in {"boot", "presplit", "discover", "waiting"} =>
           calls = {} /\ sweepLeft = <<>> /\ \A t \in 2..Len(txs) : txs[t].kind = "split"

Secure == Safe(utxoPools, sweepLeft, calls, txs, accepted)

FirstInv == /\ KindsOK /\ InTurn(batchQueue, wire, Plain) /\ Locked /\ Starting
            /\ SpentApart(txs, accepted) /\ (phase # "dead" => Secure)

LEMMA SecureBegin ==
    ASSUME WalletOK, Secure, NEW s \in Streams, NEW kind \in CallKinds, Begin(s, kind)
    PROVE  Secure' /\ Holding(utxoPools', sweepLeft', calls') \subseteq Holding(utxoPools, sweepLeft, calls)
  <1> DEFINE pool == utxoPools[s]
             T == DOMAIN txs
  <1>1. pool \in Seq(Known(T)) /\ DOMAIN utxoPools = Streams
    BY DEF WalletOK, Backed
  <1>2. HeldOnce(utxoPools, sweepLeft, calls) /\ NoRepeats(pool)
    BY <1>1 DEF Secure, Safe, HeldOnce, Distinct, NoRepeats
  <1>3. UNCHANGED <<sweepLeft, txs, accepted>>
    BY DEF Begin
  <1>4. CASE \E i \in DOMAIN pool : Useful(pool[i])
    <2> DEFINE k == FirstUseful(pool)
               rest == SubSeq(pool, k + 1, Len(pool))
    <2>1. k \in DOMAIN pool
      BY <1>1, <1>4, FirstUsefulIn
    <2>2. PICK prev : utxoPools' = [utxoPools EXCEPT ![s] = rest] /\ calls' = calls \union {Call(s, CallTx(kind, <<pool[k]>>, prev))}
      BY <1>4 DEF Begin, PickedPool
    <2> DEFINE d == Call(s, CallTx(kind, <<pool[k]>>, prev))
    <2>3. d.stage = "signing" /\ d.tx.kind \in CallKinds /\ Range(d.tx.ins) = {pool[k]}
      BY DEF Call, CallTx, Tx, Range
    <2> HIDE DEF d, k
    <2>4. k \in 1..Len(pool) /\ k - 1 \in 0..Len(pool) /\ k \in (k - 1)..Len(pool) /\ k \in ((k - 1) + 1)..k
      BY <1>1, <2>1
    <2>5. NoRepeats(rest) /\ Range(rest) \subseteq Range(pool) /\ pool[k] \in Range(pool) /\ pool[k] \notin Range(rest)
      BY <1>1, <1>2, <2>4, CutOnce
    <2> HIDE DEF rest, pool
    <2>6. calls' = calls \union {d}
      BY <2>2 DEF d
    <2>7. Range(d.tx.ins) \subseteq Range(utxoPools[s]) /\ Range(d.tx.ins) \intersect Range(rest) = {}
          /\ Range(rest) \subseteq Range(utxoPools[s])
      BY <2>3, <2>5 DEF pool
    <2>8. /\ HeldOnce(utxoPools', sweepLeft, calls')
          /\ Holding(utxoPools', sweepLeft, calls') \subseteq Holding(utxoPools, sweepLeft, calls)
      BY <1>2, <2>2, <2>3, <2>5, <2>6, <2>7, TakeOnce
    <2>9. Safe(utxoPools', sweepLeft, calls', txs, accepted)
      BY <2>3, <2>6, <2>8, SafeFewer DEF Secure
    <2> QED BY <1>3, <2>8, <2>9 DEF Secure
  <1>5. CASE ~\E i \in DOMAIN pool : Useful(pool[i])
    <2>1. utxoPools' = [utxoPools EXCEPT ![s] = <<>>] /\ calls' = calls
      BY <1>5 DEF Begin
    <2>2. PICK d : d = [stage |-> "signing", tx |-> [ins |-> <<>>]]
      OBVIOUS
    <2>3. NoRepeats(<<>>) /\ Range(<<>>) = {} /\ d.stage = "signing" /\ d.tx.ins = <<>>
      BY <2>2 DEF NoRepeats, Range
    <2>4. /\ HeldOnce(utxoPools', sweepLeft, calls')
          /\ Holding(utxoPools', sweepLeft, calls') \subseteq Holding(utxoPools, sweepLeft, calls)
      BY <1>2, <2>1, <2>3, TakeOnce
    <2>5. Safe(utxoPools', sweepLeft, calls', txs, accepted)
      BY <2>1, <2>4, SafeFewer DEF Secure
    <2> QED BY <1>3, <2>4, <2>5 DEF Secure
  <1> QED BY <1>4, <1>5

LEMMA SecureFund ==
    ASSUME WalletOK, Secure, NEW s \in Streams, fundChannel(s)
    PROVE  Secure' /\ Holding(utxoPools', sweepLeft', calls') \subseteq Holding(utxoPools, sweepLeft, calls)
  <1> DEFINE pool == utxoPools[s]
             T == DOMAIN txs
             ins(n) == SubSeq(pool, 1, n)
             rest(n) == SubSeq(pool, n + 1, Len(pool))
             d(n) == Call(s, CallTx("fund", ins(n), <<>>))
  <1>1. pool \in Seq(Known(T)) /\ Backed(T)
    BY DEF WalletOK, Backed
  <1>2. HeldOnce(utxoPools, sweepLeft, calls) /\ NoRepeats(pool)
    BY <1>1 DEF Secure, Safe, HeldOnce, Distinct, NoRepeats
  <1>3. UNCHANGED <<sweepLeft, txs, accepted>>
    BY DEF fundChannel
  <1>4. PICK n \in 0..Len(pool) :
              \/ utxoPools' = [utxoPools EXCEPT ![s] = rest(n)] /\ calls' = calls \union {d(n)}
              \/ utxoPools' = [utxoPools EXCEPT ![s] = rest(n) \o ins(n)] /\ UNCHANGED calls
    BY <1>1, FundCuts
  <1>5. d(n).stage = "signing" /\ d(n).tx.kind \in CallKinds /\ d(n).tx.ins = ins(n)
    BY DEF Call, CallTx, Tx, CallKinds
  <1> HIDE DEF pool, d
  <1>6. /\ NoRepeats(rest(n)) /\ NoRepeats(ins(n)) /\ rest(n) \in Seq(Known(T)) /\ ins(n) \in Seq(Known(T))
        /\ Range(rest(n)) \subseteq Range(pool) /\ Range(ins(n)) \subseteq Range(pool)
        /\ Range(ins(n)) \intersect Range(rest(n)) = {}
    <2>1. n \in n..Len(pool)
      BY <1>1
    <2> QED BY <1>1, <1>2, <2>1, CutOnce
  <1> HIDE DEF rest, ins
  <1>7. CASE utxoPools' = [utxoPools EXCEPT ![s] = rest(n)] /\ calls' = calls \union {d(n)}
    <2>1. /\ HeldOnce(utxoPools', sweepLeft, calls')
          /\ Holding(utxoPools', sweepLeft, calls') \subseteq Holding(utxoPools, sweepLeft, calls)
      BY <1>2, <1>5, <1>6, <1>7, TakeOnce DEF pool
    <2>2. Safe(utxoPools', sweepLeft, calls', txs, accepted)
      BY <1>5, <1>7, <2>1, SafeFewer DEF Secure
    <2> QED BY <1>3, <2>1, <2>2 DEF Secure
  <1>8. CASE utxoPools' = [utxoPools EXCEPT ![s] = rest(n) \o ins(n)] /\ UNCHANGED calls
    <2> DEFINE back == rest(n) \o ins(n)
    <2>1. NoRepeats(back) /\ Range(back) \subseteq Range(pool)
      <3>1. NoRepeats(back)
        BY <1>6, ConcatOnce
      <3>2. Range(back) = Range(rest(n)) \union Range(ins(n))
        BY <1>6, RangeConcatenation
      <3> QED BY <1>6, <3>1, <3>2
    <2> HIDE DEF back
    <2>2. utxoPools' = [utxoPools EXCEPT ![s] = back] /\ calls' = calls
      BY <1>8 DEF back
    <2>3. Range(back) \subseteq Range(utxoPools[s]) /\ Range(d(n).tx.ins) \subseteq Range(utxoPools[s])
      BY <1>5, <1>6, <2>1 DEF pool
    <2>4. /\ HeldOnce(utxoPools', sweepLeft, calls')
          /\ Holding(utxoPools', sweepLeft, calls') \subseteq Holding(utxoPools, sweepLeft, calls)
      BY <1>2, <1>5, <2>1, <2>2, <2>3, TakeOnce
    <2>5. Safe(utxoPools', sweepLeft, calls', txs, accepted)
      BY <1>8, <2>4, SafeFewer DEF Secure
    <2> QED BY <1>3, <2>4, <2>5 DEF Secure
  <1> QED BY <1>4, <1>7, <1>8

\* Everything that is held or spent is an output of a transaction there is.
LEMMA AllSigned ==
    ASSUME WalletOK
    PROVE  \A u \in Holding(utxoPools, sweepLeft, calls) \union Consumed(txs, accepted) : u.txid \in DOMAIN txs
  <1> DEFINE T == DOMAIN txs
  <1>1. Backed(T) /\ TxsOK
    BY DEF WalletOK
  <1> HIDE DEF T
  <1>2. Range(sweepLeft) \subseteq Known(T) /\ In(utxoPools) \subseteq Known(T)
    BY <1>1, RangeIn DEF Backed, In
  <1>3. Picked(calls) \subseteq Known(T)
    <2>1. \A c \in calls : c.tx.ins \in Seq(Known(T))
      BY <1>1 DEF Backed, CallOver, TxOver
    <2> QED BY <2>1, RangeIn DEF Picked, Signing
  <1>4. ASSUME NEW u \in Consumed(txs, accepted) PROVE u.txid \in DOMAIN txs
    <2>1. PICK t \in DOMAIN txs : u \in Range(txs[t].ins)
      BY DEF Consumed, SpentAt
    <2> QED BY <1>1, <2>1, InputsKnown DEF Inputs
  <1> QED BY <1>2, <1>3, <1>4 DEF Holding, Known, T

LEMMA SecureSign ==
    ASSUME WalletOK, Secure, NEW c \in calls, Sign(c)
    PROVE  Secure'
  <1>1. /\ c.stage = "signing" /\ txs' = Append(txs, c.tx) /\ UNCHANGED <<utxoPools, sweepLeft, accepted>>
        /\ \E stage \in {"sending", "sent"} : calls' = (calls \ {c}) \union {[c EXCEPT !.txid = Len(txs) + 1, !.stage = stage]}
    BY DEF Sign, Replace
  <1>2. c \in CallOver(DOMAIN txs) /\ txs \in Seq(TxOver(Nat)) /\ c.tx \in TxOver(Nat)
    <2>1. c \in CallOver(DOMAIN txs) /\ txs \in Seq(TxOver(Nat))
      BY DEF WalletOK, Backed, TxsOK
    <2>2. DOMAIN txs \subseteq Nat
      BY <2>1
    <2>3. TxOver(DOMAIN txs) \subseteq TxOver(Nat)
      BY <2>2, MoreKnown
    <2> QED BY <2>1, <2>3 DEF CallOver
  <1>3. PICK stage \in {"sending", "sent"} : calls' = (calls \ {c}) \union {[c EXCEPT !.txid = Len(txs) + 1, !.stage = stage]}
    BY <1>1
  <1> DEFINE d == [c EXCEPT !.txid = Len(txs) + 1, !.stage = stage]
  <1>4. d.tx = c.tx /\ d.txid = Len(txs) + 1 /\ d.stage # "signing"
    BY <1>2 DEF CallOver
  <1> HIDE DEF d
  <1>5. calls' = (calls \ {c}) \union {d}
    BY <1>3 DEF d
  <1>6. \A u \in Holding(utxoPools, sweepLeft, calls) \union Consumed(txs, accepted) : u.txid \in DOMAIN txs
    BY AllSigned
  <1>7. Safe(utxoPools, sweepLeft, calls, txs, accepted)
    BY DEF Secure
  <1>8. Safe(utxoPools, sweepLeft, (calls \ {c}) \union {d}, Append(txs, c.tx), accepted)
    BY <1>1, <1>2, <1>4, <1>6, <1>7, SafeSign
  <1> QED BY <1>1, <1>5, <1>8 DEF Secure

LEMMA SecureFinish ==
    ASSUME WalletOK, Secure, NEW c \in calls, Finish(c)
    PROVE  Secure'
  <1>1. c.stage = "sent" /\ calls' = calls \ {c} /\ UNCHANGED <<sweepLeft, txs, accepted>>
    BY DEF Finish
  <1>2. Safe(utxoPools, sweepLeft, calls, txs, accepted) /\ HeldOnce(utxoPools, sweepLeft, calls)
    BY DEF Secure, Safe
  <1>3. c \in CallOver(DOMAIN txs) /\ c.txid \in DOMAIN txs /\ c.tx.outs # <<>>
    BY <1>1 DEF WalletOK, Backed, CallsOK
  <1>4. c.stream \in Streams /\ c.tx.outs \in Outs
    BY <1>3 DEF CallOver, TxOver
  <1>5. CASE c.tx.kind # "fund" /\ Last(c.tx.outs).lock = "own"
    <2> DEFINE X == Known(DOMAIN txs)
               w == ChangeOf(c)
               s == c.stream
    <2>1. utxoPools' = [utxoPools EXCEPT ![s] = Append(utxoPools[s], w)]
      BY <1>5 DEF Finish
    <2>2. w \in X /\ w.txid = c.txid
      <3>1. Len(c.tx.outs) - 1 \in Int /\ c.tx.outs[Len(c.tx.outs)].satoshis \in Nat
        BY <1>3, <1>4, LastOut DEF Out
      <3> QED BY <1>3, <3>1 DEF ChangeOf, Utxo, Known
    <2>3. utxoPools[s] \in Seq(X) /\ s \in Streams
      BY <1>4 DEF WalletOK, Backed
    <2> HIDE DEF X, w, s
    <2>4. Safe([utxoPools EXCEPT ![s] = Append(utxoPools[s], w)], sweepLeft, calls \ {c}, txs, accepted)
      BY <1>1, <1>2, <2>2, <2>3, SafeFinish
    <2> QED BY <1>1, <2>1, <2>4 DEF Secure
  <1>6. CASE ~(c.tx.kind # "fund" /\ Last(c.tx.outs).lock = "own")
    <2>1. utxoPools' = utxoPools
      BY <1>6 DEF Finish
    <2>2. calls \ {c} \in SUBSET calls
      OBVIOUS
    <2>3. /\ HeldOnce(utxoPools, sweepLeft, calls \ {c})
          /\ Holding(utxoPools, sweepLeft, calls \ {c}) \subseteq Holding(utxoPools, sweepLeft, calls)
      BY <1>2, <2>2, DropOnce
    <2>4. Safe(utxoPools, sweepLeft, calls \ {c}, txs, accepted)
      BY <1>2, <2>3, SafeFewer
    <2> QED BY <1>1, <2>1, <2>4 DEF Secure
  <1> QED BY <1>5, <1>6

\* The network has more, of what is no split.
LEMMA SecureAnswer ==
    ASSUME WalletOK, Secure, NEW more, accepted \subseteq more, more \subseteq accepted \union Plain
    PROVE  Safe(utxoPools, sweepLeft, calls, txs, more) /\ SpentApart(txs, more)
  <1>1. \A t \in DOMAIN txs : SpentAt(txs, more, t) = SpentAt(txs, accepted, t)
    BY DEF SpentAt, Plain
  <1>2. Safe(utxoPools, sweepLeft, calls, txs, more)
    BY <1>1, SafeAccepted DEF Secure
  <1> QED BY <1>2 DEF Safe

\* An awaited funding transaction of a channel is taken.
LEMMA FundingTaken ==
    ASSUME EngineInv, FirstInv, Secure, Mode # "batch", ~LossyNetwork,
           NEW c \in calls, c.stage = "sending", c.tx.kind = "fund"
    PROVE  c.txid \in Accept(accepted, <<c.txid>>)
  <1> DEFINE t == c.txid
  <1>1. /\ t \in DOMAIN txs /\ txs[t] = c.tx /\ c.tx.prev = <<>> /\ Range(<<>>) = {}
        /\ \A u \in Range(c.tx.ins) : LockOf(u) = "own"
    <2>1. t \in DOMAIN txs /\ txs[t] = c.tx
      BY DEF Secure, Safe, Untouched, Alone
    <2>2. c.tx.prev = <<>>
      BY DEF FirstInv, KindsOK
    <2>3. \A u \in Range(c.tx.ins) : LockOf(u) = "own"
      BY DEF FirstInv, Locked, Owned
    <2> QED BY <2>1, <2>2, <2>3 DEF Range
  <1>2. Inputs(t) = Range(c.tx.ins) /\ SpentAt(txs, accepted, t) = Range(c.tx.ins)
    BY <1>1 DEF Inputs, SpentAt
  <1>3. \A u \in Inputs(t) : u.txid \in accepted
    <2>1. c.tx.ins \in Seq(Known(accepted))
      <3>1. Taken = accepted
        BY DEF EngineInv, Taken
      <3>2. c \in CallOver(Taken)
        BY DEF EngineInv, Backed
      <3> QED BY <3>1, <3>2 DEF CallOver, TxOver
    <2>2. Range(c.tx.ins) \subseteq Known(accepted)
      BY <2>1, RangeIn
    <2> QED BY <1>2, <2>2 DEF Known
  <1>4. ASSUME NEW u \in Inputs(t), u \in SpentIn(accepted \ {t}) PROVE FALSE
    <2>1. PICK k \in accepted \ {t} : u \in Inputs(k)
      BY <1>4 DEF SpentIn
    <2>2. k \in DOMAIN txs /\ k # t
      BY DEF EngineInv, WalletOK, Closed
    <2>3. CASE u \in Range(txs[k].ins)
      <3>1. u \in SpentAt(txs, accepted, k)
        BY <2>3 DEF SpentAt
      <3> QED BY <1>1, <1>2, <2>2, <3>1 DEF FirstInv, SpentApart
    <2>4. CASE u \in Range(txs[k].prev)
      <3>1. LockOf(u) = "cell"
        BY <2>2, <2>4 DEF FirstInv, Locked
      <3>2. LockOf(u) = "own"
        BY <1>1, <1>2
      <3> QED BY <3>1, <3>2
    <2> QED BY <2>1, <2>3, <2>4 DEF Inputs
  <1>5. Valid(t, accepted)
    BY <1>1, <1>3, <1>4 DEF Valid
  <1>6. <<t>> \in Seq(DOMAIN txs)
    BY <1>1
  <1> HIDE DEF t
  <1> QED BY <1>5, <1>6, AcceptGrows DEF t

\* A failed broadcast returns nothing to the pools: only a channel's funding transaction would, and it is taken.
LEMMA PoolsKept ==
    ASSUME EngineInv, FirstProcess, FirstInv, Secure, NEW c \in calls, SendAttempt(c)
    PROVE  utxoPools' = utxoPools /\ \A d \in calls' : d \in calls \/ (d.tx = c.tx /\ d.stage # "signing")
  <1>1. c.stage = "sending" /\ c \in CallOver(DOMAIN txs)
    BY DEF SendAttempt, EngineInv, WalletOK, Backed
  <1>2. CASE UNCHANGED utxoPools /\ Replace(c, [c EXCEPT !.stage = "sent"])
    BY <1>1, <1>2 DEF Replace, CallOver
  <1>3. CASE UNCHANGED utxoPools /\ Replace(c, [c EXCEPT !.attempt = c.attempt + 1])
    BY <1>1, <1>3 DEF Replace, CallOver
  <1>4. CASE Fail(c) /\ (c.txid \notin Accept(accepted, <<c.txid>>) \/ LossyNetwork)
    <2>1. c.tx.kind # "fund"
      <3> SUFFICES ASSUME c.tx.kind = "fund" PROVE FALSE
        OBVIOUS
      <3>1. "fund" \in setup.kinds
        BY DEF FirstInv, KindsOK
      <3>2. Mode # "batch" /\ ~LossyNetwork
        BY <3>1 DEF FirstProcess
      <3> QED BY <1>1, <1>4, <3>2, FundingTaken
    <2>2. utxoPools' = [utxoPools EXCEPT ![c.stream] = utxoPools[c.stream] \o <<>>] /\ calls' = calls \ {c}
      BY <1>4, <2>1 DEF Fail, Returned
    <2>3. c.stream \in Streams /\ utxoPools \in [Streams -> Seq(Known(DOMAIN txs))]
      BY <1>1 DEF CallOver, EngineInv, WalletOK, Backed
    <2>4. utxoPools[c.stream] \o <<>> = utxoPools[c.stream]
      BY <2>3
    <2> QED BY <2>2, <2>3, <2>4
  <1>5. \/ UNCHANGED utxoPools /\ Replace(c, [c EXCEPT !.stage = "sent"])
        \/ UNCHANGED utxoPools /\ Replace(c, [c EXCEPT !.attempt = c.attempt + 1])
        \/ Fail(c) /\ (c.txid \notin Accept(accepted, <<c.txid>>) \/ LossyNetwork)
    BY DEF SendAttempt
  <1> QED BY <1>2, <1>3, <1>4, <1>5

LEMMA SecureSend ==
    ASSUME EngineInv, FirstProcess, FirstInv, Secure, NEW c \in calls, SendAttempt(c)
    PROVE  Secure'
  <1>1. /\ c.stage = "sending" /\ UNCHANGED <<sweepLeft, txs>>
        /\ accepted' = Accept(accepted, <<c.txid>>) \/ (LossyNetwork /\ accepted' = accepted)
    BY DEF SendAttempt
  <1>2. /\ c.txid \in DOMAIN txs /\ txs[c.txid] = c.tx /\ c.tx.kind \in CallKinds
        /\ c \in CallOver(DOMAIN txs)
    <2>1. c.txid \in DOMAIN txs /\ txs[c.txid] = c.tx /\ c.tx.kind \in CallKinds
      BY <1>1 DEF Secure, Safe, Untouched, Alone
    <2> QED BY <2>1 DEF EngineInv, WalletOK, Backed
  <1>3. c.txid \in Plain /\ <<c.txid>> \in Seq(Plain)
    <2>1. c.txid \in Plain
      BY <1>2 DEF Plain, CallKinds
    <2> QED BY <2>1
  <1>4. accepted \subseteq accepted' /\ accepted' \subseteq accepted \union Plain
    <2>1. Range(<<c.txid>>) \subseteq Plain
      BY <1>3, RangeIn
    <2> QED BY <1>1, <1>3, <2>1, AcceptGrows
  <1>5. Safe(utxoPools, sweepLeft, calls, txs, accepted')
    BY <1>4, SecureAnswer DEF EngineInv
  <1>6. ASSUME NEW d, d.tx = c.tx, d.txid = c.txid, d.stage # "signing", calls' = (calls \ {c}) \union {d}, UNCHANGED utxoPools
        PROVE  Secure'
    <2>1. Safe(utxoPools, sweepLeft, (calls \ {c}) \union {d}, txs, accepted')
      BY <1>1, <1>5, <1>6, SafeStage
    <2> QED BY <1>1, <1>6, <2>1 DEF Secure
  <1>7. CASE Replace(c, [c EXCEPT !.stage = "sent"]) /\ UNCHANGED <<utxoPools, cells>>
    <2> DEFINE d == [c EXCEPT !.stage = "sent"]
    <2>1. d.tx = c.tx /\ d.txid = c.txid /\ d.stage # "signing"
      BY <1>2 DEF CallOver
    <2>2. calls' = (calls \ {c}) \union {d} /\ UNCHANGED utxoPools
      BY <1>7 DEF Replace
    <2> HIDE DEF d
    <2> QED BY <1>6, <2>1, <2>2
  <1>8. CASE Replace(c, [c EXCEPT !.attempt = c.attempt + 1]) /\ UNCHANGED <<utxoPools, cells>>
    <2> DEFINE d == [c EXCEPT !.attempt = c.attempt + 1]
    <2>1. d.tx = c.tx /\ d.txid = c.txid /\ d.stage # "signing"
      BY <1>1, <1>2 DEF CallOver
    <2>2. calls' = (calls \ {c}) \union {d} /\ UNCHANGED utxoPools
      BY <1>8 DEF Replace
    <2> HIDE DEF d
    <2> QED BY <1>6, <2>1, <2>2
  <1>9. CASE Fail(c) /\ (c.txid \notin Accept(accepted, <<c.txid>>) \/ LossyNetwork)
    <2>2. utxoPools' = utxoPools /\ calls' = calls \ {c}
      BY <1>9, PoolsKept DEF Fail
    <2>3. HeldOnce(utxoPools, sweepLeft, calls) /\ calls \ {c} \in SUBSET calls
      BY DEF Secure, Safe
    <2>4. /\ HeldOnce(utxoPools, sweepLeft, calls \ {c})
          /\ Holding(utxoPools, sweepLeft, calls \ {c}) \subseteq Holding(utxoPools, sweepLeft, calls)
      BY <2>3, DropOnce
    <2>5. Safe(utxoPools, sweepLeft, calls \ {c}, txs, accepted')
      BY <1>5, <2>4, SafeFewer
    <2> QED BY <1>1, <2>2, <2>5 DEF Secure
  <1>10. \/ Replace(c, [c EXCEPT !.stage = "sent"]) /\ UNCHANGED <<utxoPools, cells>>
         \/ Replace(c, [c EXCEPT !.attempt = c.attempt + 1]) /\ UNCHANGED <<utxoPools, cells>>
         \/ Fail(c) /\ (c.txid \notin Accept(accepted, <<c.txid>>) \/ LossyNetwork)
    BY DEF SendAttempt
  <1> QED BY <1>7, <1>8, <1>9, <1>10

LEMMA SecureSettles ==
    ASSUME WalletOK, InTurn(batchQueue, wire, Plain), Secure, NEW b \in wire, BatchSettles(b)
    PROVE  Secure'
  <1>1. UNCHANGED <<utxoPools, calls, sweepLeft, txs>> /\ accepted' \in {accepted, Accept(accepted, b), Accept(accepted, <<Head(b)>>)}
    BY DEF BatchSettles, walletVars
  <1>2. b \in Seq(Plain) /\ <<Head(b)>> \in Seq(Plain)
    <2>1. b \in Seq(Plain) /\ b # <<>>
      BY DEF InTurn
    <2> QED BY <2>1
  <1>3. Range(b) \subseteq Plain /\ Range(<<Head(b)>>) \subseteq Plain
    BY <1>2, RangeIn
  <1>4. accepted \subseteq accepted' /\ accepted' \subseteq accepted \union Plain
    BY <1>1, <1>2, <1>3, AcceptGrows
  <1>5. Safe(utxoPools, sweepLeft, calls, txs, accepted')
    BY <1>4, SecureAnswer
  <1> QED BY <1>1, <1>5 DEF Secure

LEMMA SecureFlush ==
    ASSUME WalletOK, Secure, FlushDone
    PROVE  Secure'
  <1>1. UNCHANGED <<calls, txs, accepted>>
    BY DEF FlushDone
  <1>2. CASE phase = "draining"
    <2> DEFINE X == Known(DOMAIN txs)
               flat == FlattenSeq([i \in 1..NumStreams |-> utxoPools[i - 1]])
    <2>1. utxoPools' = EmptyPools /\ sweepLeft' = flat
      BY <1>2 DEF FlushDone
    <2>2. utxoPools \in [Streams -> Seq(X)] /\ HeldOnce(utxoPools, sweepLeft, calls)
      BY DEF WalletOK, Backed, Secure, Safe
    <2> HIDE DEF X
    <2>3. NoRepeats(flat) /\ Range(flat) \subseteq In(utxoPools)
      BY <2>2, PoolsFlatOnce DEF HeldOnce, In
    <2> HIDE DEF flat
    <2>4. DOMAIN EmptyPools = Streams /\ Distinct(EmptyPools) /\ In(EmptyPools) = {}
      BY DEF EmptyPools, Distinct, In, Range
    <2>5. /\ HeldOnce(EmptyPools, flat, calls)
          /\ Holding(EmptyPools, flat, calls) \subseteq Holding(utxoPools, sweepLeft, calls)
      BY <2>2, <2>3, <2>4 DEF HeldOnce, Holding
    <2>6. Safe(EmptyPools, flat, calls, txs, accepted)
      BY <2>5, SafeFewer DEF Secure
    <2> QED BY <1>1, <2>1, <2>6 DEF Secure
  <1>3. CASE phase # "draining"
    BY <1>1, <1>3 DEF FlushDone, Secure
  <1> QED BY <1>2, <1>3

LEMMA SecureSweep ==
    ASSUME WalletOK, Secure, sweepAll
    PROVE  Secure'
  <1> DEFINE n == IF Len(sweepLeft) < SweepBatch THEN Len(sweepLeft) ELSE SweepBatch
             ins == SubSeq(sweepLeft, 1, n)
             rest == SubSeq(sweepLeft, n + 1, Len(sweepLeft))
             tx == SweepTx(ins)
             X == Known(DOMAIN txs)
  <1>1. sweepLeft \in Seq(X) /\ n \in 0..Len(sweepLeft) /\ n \in n..Len(sweepLeft) /\ NoRepeats(sweepLeft)
    <2>1. sweepLeft \in Seq(X) /\ SweepBatch \in Nat /\ NoRepeats(sweepLeft)
      BY EngineAssumption DEF WalletOK, Backed, Secure, Safe, HeldOnce
    <2> HIDE DEF X
    <2> QED BY <2>1
  <1>2. UNCHANGED <<utxoPools, calls>>
    BY DEF sweepAll
  <1>3. \/ UNCHANGED <<txs, accepted>> /\ sweepLeft' = rest
        \/ /\ ~(tx.outs[1].satoshis <= DustLimit) /\ txs' = Append(txs, tx) /\ sweepLeft' \in {rest, <<>>}
           /\ accepted' \in {accepted, accepted \union {Len(txs) + 1}}
    BY DEF sweepAll
  <1> HIDE DEF X, n
  <1>4. /\ ins \in Seq(X) /\ NoRepeats(rest) /\ Range(ins) \subseteq Range(sweepLeft)
        /\ Range(rest) \subseteq Range(sweepLeft) /\ Range(ins) \intersect Range(rest) = {}
    BY <1>1, CutOnce
  <1> HIDE DEF ins, rest
  <1>5. Secure => HeldOnce(utxoPools, sweepLeft, calls)
    BY DEF Secure, Safe
  <1>6. CASE UNCHANGED <<txs, accepted>> /\ sweepLeft' = rest
    <2>1. HeldOnce(utxoPools, rest, calls) /\ Holding(utxoPools, rest, calls) \subseteq Holding(utxoPools, sweepLeft, calls)
      BY <1>4, <1>5 DEF HeldOnce, Holding
    <2>2. Safe(utxoPools, rest, calls, txs, accepted)
      BY <2>1, SafeFewer DEF Secure
    <2> QED BY <1>2, <1>6, <2>2 DEF Secure
  <1>7. CASE /\ ~(tx.outs[1].satoshis <= DustLimit) /\ txs' = Append(txs, tx) /\ sweepLeft' \in {rest, <<>>}
             /\ accepted' \in {accepted, accepted \union {Len(txs) + 1}}
    <2>1. tx \in TxOver(DOMAIN txs) /\ tx.ins = ins /\ tx.kind = "sweep"
      <3>1. tx \in TxOver(DOMAIN txs) /\ tx.ins = ins
        BY <1>4, <1>7, SweepTxOver DEF X
      <3> QED BY <3>1 DEF SweepTx, Tx
    <2> HIDE DEF tx
    <2>2. tx \in TxOver(Nat) /\ txs \in Seq(TxOver(Nat)) /\ accepted \subseteq DOMAIN txs
      <3>1. txs \in Seq(TxOver(Nat)) /\ accepted \subseteq DOMAIN txs
        BY DEF WalletOK, TxsOK, Closed
      <3>2. DOMAIN txs \subseteq Nat
        BY <3>1
      <3> QED BY <2>1, <3>1, <3>2, MoreKnown
    <2>3. ASSUME NEW left \in {rest, <<>>} PROVE NoRepeats(left) /\ Range(left) \subseteq Range(rest)
      BY <1>4 DEF NoRepeats, Range
    <2>4. PICK left \in {rest, <<>>} : sweepLeft' = left
      BY <1>7
    <2>5. Range(tx.ins) \union Range(left) \subseteq Range(sweepLeft) /\ Range(tx.ins) \intersect Range(left) = {}
      BY <1>4, <2>1, <2>3
    <2>6. Safe(utxoPools, left, calls, Append(txs, tx), accepted')
      BY <1>7, <2>1, <2>2, <2>3, <2>5, SafeSweep DEF Secure
    <2> QED BY <1>2, <1>7, <2>4, <2>6 DEF Secure
  <1> QED BY <1>3, <1>6, <1>7

-------------------------------------------------------------------------------
(* Filling the pools. *)

\* Before there are calls, whatever is spent is spent for the network too.
LEMMA OnlySplits ==
    ASSUME WalletOK, \A t \in 2..Len(txs) : txs[t].kind = "split"
    PROVE  Consumed(txs, accepted) \subseteq SpentIn(accepted)
  <1> SUFFICES ASSUME NEW t \in DOMAIN txs, NEW u \in SpentAt(txs, accepted, t) PROVE u \in SpentIn(accepted)
    BY DEF Consumed
  <1>1. u \in Range(txs[t].ins) /\ ~(txs[t].kind = "split" /\ t \notin accepted)
    BY DEF SpentAt
  <1>2. u \in Inputs(t)
    BY <1>1 DEF Inputs
  <1>3. t # 1
    <2>1. u.txid \in 1..(t - 1)
      BY <1>2, InputsKnown DEF WalletOK
    <2> QED BY <2>1
  <1>4. t \in 2..Len(txs)
    BY <1>3 DEF WalletOK, TxsOK
  <1> QED BY <1>1, <1>2, <1>4 DEF SpentIn

\* The split of an output that is not spent is one the network does not have; accepted or not, it is
\* the only one to spend that output.
LEMMA SplitFresh ==
    ASSUME WalletOK, \A t \in 2..Len(txs) : txs[t].kind = "split", SpentApart(txs, accepted),
           NEW u \in Known(accepted), u \notin SpentIn(accepted), Splits(u) >= NumStreams, signSplit(u),
           NEW k, k = SplitId(u), accepted' \in {accepted, accepted \union {k}}
    PROVE  /\ k \notin accepted /\ k \in DOMAIN txs' /\ txs'[k] = SplitTx(u) /\ SpentApart(txs', accepted')
           /\ Consumed(txs', accepted') \subseteq SpentIn(accepted) \union {u}
           /\ DOMAIN txs' = DOMAIN txs \union {k} /\ \A t \in DOMAIN txs : txs'[t] = txs[t]
           /\ Extends
  <1> DEFINE tx == SplitTx(u)
  <1>1. u \in Known(DOMAIN txs)
    <2>1. accepted \subseteq DOMAIN txs
      BY DEF WalletOK, Closed
    <2> QED BY <2>1, MoreKnown
  <1>2. tx.ins = <<u>> /\ tx.prev = <<>> /\ tx.kind = "split" /\ Range(<<u>>) = {u}
    <2>1. tx.ins = <<u>> /\ tx.prev = <<>>
      BY <1>1, SplitTxOver
    <2>2. tx.kind = "split"
      BY DEF SplitTx, Tx
    <2> QED BY <2>1, <2>2 DEF Range
  <1>3. Extends
    BY <1>1, SplitSigns DEF WalletOK
  <1>4. k \in DOMAIN txs' /\ txs'[k] = tx /\ DOMAIN txs' = DOMAIN txs \union {k} /\ \A t \in DOMAIN txs : txs'[t] = txs[t]
    <2>1. CASE tx \in Range(txs)
      <3>1. \E t \in DOMAIN txs : txs[t] = tx
        BY <2>1 DEF Range
      <3>2. k = CHOOSE t \in DOMAIN txs : txs[t] = tx
        BY <2>1 DEF SplitId, tx
      <3>3. k \in DOMAIN txs /\ txs[k] = tx
        BY <3>1, <3>2
      <3>4. txs' = txs
        BY <3>3 DEF signSplit
      <3> QED BY <3>3, <3>4
    <2>2. CASE tx \notin Range(txs)
      <3>1. k = Len(txs) + 1 /\ txs \in Seq(TxOver(Nat))
        BY <2>2 DEF SplitId, tx, WalletOK, TxsOK
      <3>2. k \notin DOMAIN txs
        BY <3>1
      <3>3. txs' = Append(txs, tx)
        BY <3>2 DEF signSplit, tx
      <3> HIDE DEF tx
      <3> QED BY <3>1, <3>3
    <2> QED BY <2>1, <2>2
  <1> HIDE DEF tx
  <1>5. k \notin accepted
    <2> SUFFICES ASSUME k \in accepted PROVE FALSE
      OBVIOUS
    <2>1. k \in DOMAIN txs
      BY DEF WalletOK, Closed
    <2>2. txs[k].ins = <<u>>
      BY <1>2, <1>4, <2>1
    <2>3. u \in Inputs(k)
      BY <1>2, <2>2 DEF Inputs
    <2> QED BY <2>3 DEF SpentIn
  <1>6. \A t \in DOMAIN txs : t # k => SpentAt(txs', accepted', t) = SpentAt(txs, accepted, t)
    BY <1>4 DEF SpentAt
  <1>7. SpentAt(txs', accepted', k) \subseteq {u}
    BY <1>2, <1>4 DEF SpentAt
  <1>8. Consumed(txs, accepted) \subseteq SpentIn(accepted)
    BY OnlySplits
  <1>9. \A t \in DOMAIN txs : u \notin SpentAt(txs, accepted, t)
    BY <1>8 DEF Consumed
  <1>10. SpentApart(txs', accepted')
    <2> SUFFICES ASSUME NEW t \in DOMAIN txs', NEW r \in DOMAIN txs', t # r
                 PROVE  SpentAt(txs', accepted', t) \intersect SpentAt(txs', accepted', r) = {}
      BY DEF SpentApart
    <2>1. CASE t # k /\ r # k
      BY <1>4, <1>6, <2>1 DEF SpentApart
    <2>2. CASE t = k \/ r = k
      BY <1>4, <1>6, <1>7, <1>9, <2>2
    <2> QED BY <2>1, <2>2
  <1>11. Consumed(txs', accepted') \subseteq SpentIn(accepted) \union {u}
    <2> SUFFICES ASSUME NEW t \in DOMAIN txs', NEW w \in SpentAt(txs', accepted', t) PROVE w \in SpentIn(accepted) \union {u}
      BY DEF Consumed
    <2>1. CASE t = k
      BY <1>7, <2>1
    <2>2. CASE t # k
      <3>1. w \in Consumed(txs, accepted)
        BY <1>4, <1>6, <2>2 DEF Consumed
      <3> QED BY <1>8, <3>1
    <2> QED BY <2>1, <2>2
  <1> QED BY <1>3, <1>4, <1>5, <1>10, <1>11 DEF tx

\* Nothing the network knows as spent is an output of a transaction it does not have.
LEMMA SpentAccepted ==
    ASSUME WalletOK
    PROVE  \A u \in SpentIn(accepted) : u.txid \in accepted
  BY DEF WalletOK, Closed, SpentIn

\* The outputs a split deals to the streams.
Dealt(u) == [i \in 1..Splits(u) |-> Utxo(SplitId(u), i - 1, SplitSatoshis)]

LEMMA DealtOnce ==
    ASSUME NEW T, NEW u \in Known(T), Splits(u) >= NumStreams
    PROVE  LET D == {w \in Range(Dealt(u)) : w.txid = SplitId(u) /\ w.vout + 1 \in 1..Splits(u)}
           IN Dealt(u) \in Seq(D) /\ NoRepeats(Dealt(u))
  <1> DEFINE q == Dealt(u)
             D == {w \in Range(q) : w.txid = SplitId(u) /\ w.vout + 1 \in 1..Splits(u)}
  <1>1. Splits(u) \in Nat
    BY SplitCount
  <1>2. PICK n \in Nat : n = Splits(u)
    BY <1>1
  <1>3. /\ DOMAIN q = 1..n /\ \A i \in 1..n : q[i].txid = SplitId(u) /\ q[i].vout = i - 1
        /\ q = [i \in 1..n |-> q[i]]
    BY <1>2 DEF Utxo, Dealt
  <1> HIDE DEF q
  <1>4. \A i \in 1..n : q[i] \in D
    <2> SUFFICES ASSUME NEW i \in 1..n PROVE q[i] \in D
      OBVIOUS
    <2>1. q[i] \in Range(q) /\ q[i].txid = SplitId(u) /\ q[i].vout + 1 = i
      BY <1>3 DEF Range
    <2> QED BY <1>2, <2>1
  <1>5. q \in Seq(D)
    <2> HIDE DEF D
    <2> QED BY <1>3, <1>4
  <1>6. NoRepeats(q)
    BY <1>3 DEF NoRepeats
  <1> QED BY <1>5, <1>6 DEF q

\* The pools after a pre-split are as good as new.
LEMMA SecurePreSplit ==
    ASSUME WalletOK, \A t \in 2..Len(txs) : txs[t].kind = "split", SpentApart(txs, accepted),
           calls = {}, sweepLeft = <<>>, NEW u \in Known(accepted), u \notin SpentIn(accepted), preSplit(u)
    PROVE  /\ Secure' /\ SpentApart(txs', accepted') /\ SplitId(u) \in DOMAIN txs' /\ txs'[SplitId(u)] = SplitTx(u)
           /\ \A w \in In(utxoPools') : w.txid = SplitId(u) /\ w.vout + 1 \in 1..Splits(u)
  <1> DEFINE D == {w \in Range(Dealt(u)) : w.txid = SplitId(u) /\ w.vout + 1 \in 1..Splits(u)}
             p == Partition(Dealt(u))
  <1>1. Splits(u) >= NumStreams /\ signSplit(u) /\ accepted' \in {accepted, accepted \union {SplitId(u)}}
        /\ utxoPools' = p /\ UNCHANGED <<calls, sweepLeft>>
    BY DEF preSplit, Dealt
  <1>2. Dealt(u) \in Seq(D) /\ NoRepeats(Dealt(u))
    BY <1>1, DealtOnce
  <1>3. Range(Dealt(u)) \subseteq D
    BY <1>2, RangeIn
  <1>4. PICK k : k = SplitId(u)
    OBVIOUS
  <1>5. /\ k \notin accepted /\ k \in DOMAIN txs' /\ txs'[k] = SplitTx(u) /\ SpentApart(txs', accepted')
        /\ Consumed(txs', accepted') \subseteq SpentIn(accepted) \union {u}
    BY <1>1, <1>4, SplitFresh
  <1>6. Distinct(p) /\ DOMAIN p = Streams /\ \A s \in Streams : Range(p[s]) \subseteq Range(Dealt(u))
    <2> HIDE DEF D
    <2> QED BY <1>2, PartitionOnce
  <1> HIDE DEF p
  <1>7. \A w \in In(p) : w.txid = k /\ w.vout + 1 \in 1..Splits(u)
    BY <1>3, <1>4, <1>6 DEF In
  <1>8. In(p) \intersect Consumed(txs', accepted') = {}
    <2>1. \A w \in SpentIn(accepted) \union {u} : w.txid \in accepted
      BY SpentAccepted DEF Known
    <2> QED BY <1>5, <1>7, <2>1
  <1>9. Safe(p, <<>>, {}, txs', accepted')
    BY <1>5, <1>6, <1>8, SafeStart
  <1> QED BY <1>1, <1>4, <1>5, <1>7, <1>9 DEF Secure

LEMMA SecureDiscover ==
    ASSUME WalletOK, \A t \in 2..Len(txs) : txs[t].kind = "split", SpentApart(txs, accepted),
           calls = {}, sweepLeft = <<>>, Secure, discoverUtxos
    PROVE  Secure' /\ \A w \in In(utxoPools') : w \in In(utxoPools) \/ w \in OnChain
  <1>1. UNCHANGED <<calls, sweepLeft, txs, accepted>>
    BY DEF discoverUtxos
  <1>2. CASE UNCHANGED utxoPools
    BY <1>1, <1>2 DEF Secure
  <1>3. ASSUME NEW found \in SUBSET OnChain, utxoPools' = Partition(InOrder(found))
        PROVE  Secure' /\ \A w \in In(utxoPools') : w \in In(utxoPools) \/ w \in OnChain
    <2>1. InOrder(found) \in Seq(found) /\ NoRepeats(InOrder(found)) /\ Range(InOrder(found)) \subseteq found
      BY InOrderType, InOrderOnce DEF WalletOK
    <2> DEFINE p == Partition(InOrder(found))
    <2>2. Distinct(p) /\ DOMAIN p = Streams /\ \A s \in Streams : Range(p[s]) \subseteq Range(InOrder(found))
      BY <2>1, PartitionOnce
    <2> HIDE DEF p
    <2>3. In(p) \subseteq found
      BY <2>1, <2>2 DEF In
    <2>4. In(p) \intersect Consumed(txs, accepted) = {}
      BY <2>3, OnlySplits DEF OnChain
    <2>5. Safe(p, <<>>, {}, txs, accepted)
      BY <2>2, <2>4, SafeStart
    <2>6. utxoPools' = p
      BY <1>3 DEF p
    <2> QED BY <1>1, <2>3, <2>5, <2>6 DEF Secure
  <1>4. \/ UNCHANGED utxoPools
        \/ \E found \in SUBSET {u \in OnChain : u.satoshis >= Fee["create"] + 2} : utxoPools' = Partition(InOrder(found))
    BY DEF discoverUtxos
  <1>5. SUBSET {u \in OnChain : u.satoshis >= Fee["create"] + 2} \subseteq SUBSET OnChain
    OBVIOUS
  <1> QED BY <1>2, <1>3, <1>4, <1>5

-------------------------------------------------------------------------------
(* Locks, kinds and the queue. *)

LEMMA LockedGrows ==
    ASSUME WalletOK, Extends, Locked,
           \A u \in In(utxoPools') \union Range(sweepLeft') : u \in Owned \/ LockOf(u)' = "own",
           \A u \in cells' : u \in Celled \/ LockOf(u)' = "cell",
           \A d \in calls' : \/ \E c \in calls : d.tx = c.tx
                             \/ Range(d.tx.ins) \subseteq Owned /\ Range(d.tx.prev) \subseteq Celled,
           \A t \in DOMAIN txs' : t \in DOMAIN txs \/ Range(txs'[t].prev) \subseteq Celled
    PROVE  Locked'
  <1> DEFINE T == DOMAIN txs
  <1>1. TxsOK /\ Backed(T) /\ \A t \in T : t \in DOMAIN txs' /\ txs'[t] = txs[t]
    BY TxsGrow DEF WalletOK
  <1>2. \A u : u.txid \in T => LockOf(u)' = LockOf(u)
    BY <1>1 DEF LockOf
  <1>3. Owned \union Celled \subseteq Known(T)
    <2> HIDE DEF T
    <2>1. Range(sweepLeft) \subseteq Known(T) /\ In(utxoPools) \subseteq Known(T) /\ cells \subseteq Known(T)
      BY <1>1, RangeIn DEF Backed, In
    <2>2. \A c \in calls : c.tx.ins \in Seq(Known(T)) /\ c.tx.prev \in Seq(Known(T))
      BY <1>1 DEF Backed, CallOver, TxOver
    <2> QED BY <2>1, <2>2, RangeIn DEF Owned, Celled
  <1>4. (\A u \in Owned : LockOf(u)' = "own") /\ (\A u \in Celled : LockOf(u)' = "cell")
    BY <1>2, <1>3 DEF Locked, Known
  <1>5. \A d \in calls' : Range(d.tx.ins) \subseteq Owned /\ Range(d.tx.prev) \subseteq Celled
    BY DEF Owned, Celled
  <1>6. \A t \in DOMAIN txs' : \A u \in Range(txs'[t].prev) : LockOf(u)' = "cell"
    <2>1. ASSUME NEW t \in T, NEW u \in Range(txs'[t].prev) PROVE LockOf(u)' = "cell"
      <3>1. u \in Range(txs[t].prev)
        BY <1>1, <2>1
      <3>2. u.txid \in T
        BY <1>1, <3>1, InputsKnown DEF Inputs
      <3> QED BY <1>2, <3>1, <3>2 DEF Locked
    <2> QED BY <1>4, <2>1
  <1>7. \A u \in Owned' : LockOf(u)' = "own"
    <2> SUFFICES ASSUME NEW u \in Owned' PROVE LockOf(u)' = "own"
      OBVIOUS
    <2>1. u \in In(utxoPools') \union Range(sweepLeft') \/ \E d \in calls' : u \in Range(d.tx.ins)
      BY DEF Owned, In
    <2> QED BY <1>4, <1>5, <2>1
  <1>8. \A u \in Celled' : LockOf(u)' = "cell"
    <2> SUFFICES ASSUME NEW u \in Celled' PROVE LockOf(u)' = "cell"
      OBVIOUS
    <2>1. u \in cells' \/ \E d \in calls' : u \in Range(d.tx.prev)
      BY DEF Celled
    <2> QED BY <1>4, <1>5, <2>1
  <1> QED BY <1>6, <1>7, <1>8 DEF Locked

\* What a new call starts from.
LEMMA BeginCalls ==
    ASSUME NEW s \in Streams, NEW kind \in CallKinds, Begin(s, kind)
    PROVE  /\ cells' \subseteq cells
           /\ \A d \in calls' : d \in calls \/ (d.stage = "signing" /\ d.tx.kind = kind /\ Range(d.tx.prev) \subseteq cells)
           /\ kind # "fund" /\ kind \in setup.kinds
  <1>1. kind # "fund" /\ kind \in setup.kinds
    BY DEF Begin, CanCall
  <1>2. CASE UNCHANGED <<calls, cells>>
    BY <1>1, <1>2
  <1>3. ASSUME NEW u, NEW prev \in IF kind = "transition" THEN {<<c>> : c \in cells} ELSE {<<>>},
               calls' = calls \union {Call(s, CallTx(kind, <<u>>, prev))}, cells' = cells \ Range(prev)
        PROVE  /\ cells' \subseteq cells
               /\ \A d \in calls' : d \in calls \/ (d.stage = "signing" /\ d.tx.kind = kind /\ Range(d.tx.prev) \subseteq cells)
    <2> DEFINE d == Call(s, CallTx(kind, <<u>>, prev))
    <2>1. Range(prev) \subseteq cells
      BY <1>3 DEF Range
    <2>2. d.stage = "signing" /\ d.tx.kind = kind /\ d.tx.prev = prev
      BY DEF Call, CallTx, Tx
    <2> HIDE DEF d
    <2>3. calls' = calls \union {d}
      BY <1>3 DEF d
    <2> QED BY <1>3, <2>1, <2>2, <2>3
  <1>4. \/ UNCHANGED <<calls, cells>>
        \/ \E u : \E prev \in IF kind = "transition" THEN {<<c>> : c \in cells} ELSE {<<>>} :
              calls' = calls \union {Call(s, CallTx(kind, <<u>>, prev))} /\ cells' = cells \ Range(prev)
    <2> DEFINE pool == utxoPools[s]
               u == pool[FirstUseful(pool)]
    <2>1. CASE \E i \in DOMAIN pool : Useful(pool[i])
      <3>1. PICK prev \in IF kind = "transition" THEN {<<c>> : c \in cells} ELSE {<<>>} :
                /\ calls' = calls \union {Call(s, CallTx(kind, <<u>>, prev))}
                /\ cells' = cells \ Range(prev)
        BY <2>1 DEF Begin
      <3> HIDE DEF u
      <3> QED BY <3>1
    <2>2. CASE ~\E i \in DOMAIN pool : Useful(pool[i])
      BY <2>2 DEF Begin
    <2> QED BY <2>1, <2>2
  <1> QED BY <1>1, <1>2, <1>3, <1>4

LEMMA FundCalls ==
    ASSUME WalletOK, NEW s \in Streams, fundChannel(s)
    PROVE  /\ cells' = cells /\ "fund" \in setup.kinds
           /\ \A d \in calls' : d \in calls \/ (d.stage = "signing" /\ d.tx.kind = "fund" /\ d.tx.prev = <<>>)
  <1>1. cells' = cells /\ "fund" \in setup.kinds
    BY DEF fundChannel, CanCall
  <1>2. Backed(DOMAIN txs)
    BY DEF WalletOK
  <1>3. ASSUME NEW ins, calls' = calls \union {Call(s, CallTx("fund", ins, <<>>))}
        PROVE  \A d \in calls' : d \in calls \/ (d.stage = "signing" /\ d.tx.kind = "fund" /\ d.tx.prev = <<>>)
    BY <1>3 DEF Call, CallTx, Tx
  <1>4. UNCHANGED calls \/ \E ins : calls' = calls \union {Call(s, CallTx("fund", ins, <<>>))}
    BY <1>2, FundTakes
  <1> QED BY <1>1, <1>3, <1>4

LEMMA SeqMore ==
    ASSUME NEW D, NEW E, D \subseteq E
    PROVE  Seq(D) \subseteq Seq(E)
  OBVIOUS

\* What is queued stays within the ids D, and those that are pushed.
LEMMA EnqueueWithin ==
    ASSUME NEW n \in Nat, NEW D \in SUBSET (1..n), enqueue(n + 1), InTurn(batchQueue, wire, D)
    PROVE  InTurn(batchQueue', wire', D \union {n + 1})
  <1> DEFINE p == Append(batchQueue, n + 1)
             E == D \union {n + 1}
  <1>1. InTurn(batchQueue, wire, 1..n)
    <2>1. wire \in SUBSET wire
      OBVIOUS
    <2> QED BY <2>1, MoreInTurn
  <1>2. InTurn(p, wire, 1..(n + 1))
    BY <1>1, PushInTurn
  <1>3. p \in Seq(E)
    <2>1. batchQueue \in Seq(D) /\ D \subseteq E /\ n + 1 \in E
      BY DEF InTurn
    <2> HIDE DEF E
    <2>2. Seq(D) \subseteq Seq(E)
      BY <2>1, SeqMore
    <2> QED BY <2>1, <2>2
  <1>4. \A b \in wire : b \in Seq(E)
    <2>1. D \subseteq E /\ \A b \in wire : b \in Seq(D)
      BY DEF InTurn
    <2> HIDE DEF E
    <2>2. Seq(D) \subseteq Seq(E)
      BY <2>1, SeqMore
    <2> QED BY <2>1, <2>2
  <1>5. E \in SUBSET Nat
    OBVIOUS
  <1> HIDE DEF p, E
  <1>6. InTurn(p, wire, E)
    BY <1>2, <1>3, <1>4 DEF InTurn
  <1>7. p = PushedQueue(n + 1)
    BY DEF p, PushedQueue
  <1>8. CASE flushBatch(PushedQueue(n + 1))
    BY <1>5, <1>6, <1>7, <1>8, FlushBatchInTurn DEF E
  <1>9. CASE hold(PushedQueue(n + 1))
    BY <1>6, <1>7, <1>9 DEF hold, E
  <1> QED BY <1>8, <1>9 DEF enqueue

LEMMA PlainStep ==
    ASSUME WalletOK, [EngineNext]_engineVars, Grows, \A c \in calls : c.tx.kind # "split",
           InTurn(batchQueue, wire, Plain)
    PROVE  InTurn(batchQueue', wire', Plain')
  <1> USE DEF walletVars, storeVars, queueVars, lifeVars
  <1> DEFINE n == Len(txs)
             Q == InTurn(batchQueue', wire', Plain')
  <1>1. /\ n \in Nat /\ Plain \in SUBSET (1..n) /\ Plain \in SUBSET Nat /\ Plain' \in SUBSET Nat /\ Plain \subseteq Plain'
        /\ DOMAIN txs = 1..n
    <2>1. TxsOK' /\ DOMAIN txs \subseteq DOMAIN txs' /\ \A t \in DOMAIN txs : txs'[t] = txs[t]
      BY TxsGrow DEF WalletOK, Grows
    <2> QED BY <2>1 DEF WalletOK, TxsOK, Plain
  <1>2. ASSUME InTurn(batchQueue', wire', Plain) PROVE Q
    BY <1>1, <1>2, MoreInTurn
  <1>3. ASSUME UNCHANGED batchQueue, wire' \subseteq wire PROVE Q
    BY <1>1, <1>3, MoreInTurn
  <1>4. ASSUME NEW tx, tx.kind # "split", txs' = Append(txs, tx), enqueue(n + 1) PROVE Q
    <2>1. InTurn(batchQueue', wire', Plain \union {n + 1})
      BY <1>1, <1>4, EnqueueWithin
    <2>2. DOMAIN txs' = 1..(n + 1) /\ txs'[n + 1] = tx
      BY <1>4 DEF WalletOK, TxsOK
    <2>3. Plain \union {n + 1} \subseteq Plain'
      BY <1>1, <1>4, <2>2 DEF Plain
    <2> QED BY <2>1, <2>3, MoreInTurn
  <1>5. ASSUME NEW next, startFlush(next) PROVE Q
    BY <1>1, <1>2, <1>5, StartInTurn
  <1>6. ASSUME NEW c \in calls, Sign(c) PROVE Q
    <2>1. txs' = Append(txs, c.tx) /\ (enqueue(n + 1) \/ UNCHANGED <<batchQueue, wire>>)
      BY <1>6 DEF Sign
    <2> QED BY <1>3, <1>4, <2>1
  <1>7. CASE sweepAll
    <2> DEFINE m == IF Len(sweepLeft) < SweepBatch THEN Len(sweepLeft) ELSE SweepBatch
               tx == SweepTx(SubSeq(sweepLeft, 1, m))
    <2>1. UNCHANGED <<batchQueue, wire>> \/ (enqueue(n + 1) /\ txs' = Append(txs, tx))
      BY <1>7 DEF sweepAll
    <2>2. tx.kind # "split"
      BY DEF SweepTx, Tx
    <2> HIDE DEF tx
    <2> QED BY <1>3, <1>4, <2>1, <2>2
  <1>8. CASE BatchTimer
    <2>1. flushBatch(batchQueue)
      BY <1>8 DEF BatchTimer
    <2> QED BY <1>1, <1>2, <2>1, FlushBatchInTurn
  <1>9. CASE Shutdown \/ EndOfRun \/ SweepDone
    BY <1>5, <1>9 DEF Shutdown, EndOfRun, SweepDone
  <1>10. ASSUME NEW b \in wire, BatchSettles(b) PROVE Q
    BY <1>3, <1>10 DEF BatchSettles, settle
  <1>11. CASE Restart
    <2>1. batchQueue' = <<>> /\ wire' = {}
      BY <1>11 DEF Restart
    <2>2. <<>> \in Seq(Plain') /\ Incr(<<>>)
      BY DEF Incr
    <2> QED BY <2>1, <2>2 DEF InTurn
  <1>12. CASE Boot \/ PreSplitFunding \/ discoverUtxos \/ waitForFunding \/ FlushDone
              \/ ChainTipTimer \/ BeefTimer \/ Crash \/ UNCHANGED engineVars
    <2>1. UNCHANGED <<batchQueue, wire>>
      BY <1>12 DEF Boot, PreSplitFunding, discoverUtxos, waitForFunding, preSplit, preSplitFails,
                   FlushDone, ChainTipTimer, BeefTimer, Crash, engineVars
    <2> QED BY <1>3, <2>1
  <1>13. ASSUME NEW s \in Streams, fundChannel(s) PROVE Q
    BY <1>3, <1>13 DEF fundChannel
  <1>14. ASSUME NEW s \in Streams, NEW k \in CallKinds, Begin(s, k) PROVE Q
    BY <1>3, <1>14 DEF Begin
  <1>15. ASSUME NEW c \in calls, Finish(c) \/ SendAttempt(c) PROVE Q
    BY <1>3, <1>15 DEF Finish, SendAttempt
  <1> QED BY <1>6, <1>7, <1>8, <1>9, <1>10, <1>11, <1>12, <1>13, <1>14, <1>15 DEF EngineNext

LEMMA KindsStep ==
    ASSUME WalletOK, KindsOK, [EngineNext]_engineVars
    PROVE  KindsOK'
  <1> USE DEF walletVars, storeVars, queueVars, lifeVars
  <1>1. setup' = setup
    BY DEF EngineNext, Boot, PreSplitFunding, discoverUtxos, waitForFunding, preSplit, preSplitFails, fundChannel,
           Begin, Sign, Finish, SendAttempt, BatchTimer, BatchSettles, Shutdown, EndOfRun, FlushDone, sweepAll,
           SweepDone, ChainTipTimer, BeefTimer, Crash, Restart, engineVars
  <1>2. ASSUME \A d \in calls' : \E c \in calls : d.tx = c.tx PROVE KindsOK'
    BY <1>1, <1>2 DEF KindsOK
  <1>3. ASSUME NEW s \in Streams, fundChannel(s) PROVE KindsOK'
    <2>1. /\ "fund" \in setup.kinds
          /\ \A d \in calls' : d \in calls \/ (d.stage = "signing" /\ d.tx.kind = "fund" /\ d.tx.prev = <<>>)
      BY <1>3, FundCalls
    <2> QED BY <1>1, <2>1 DEF KindsOK
  <1>4. ASSUME NEW s \in Streams, NEW k \in CallKinds, Begin(s, k) PROVE KindsOK'
    <2>1. /\ k # "fund" /\ k \in setup.kinds
          /\ \A d \in calls' : d \in calls \/ (d.stage = "signing" /\ d.tx.kind = k /\ Range(d.tx.prev) \subseteq cells)
      BY <1>4, BeginCalls
    <2> QED BY <1>1, <2>1 DEF KindsOK
  <1>5. ASSUME NEW c \in calls, Sign(c) \/ Finish(c) \/ SendAttempt(c) PROVE KindsOK'
    <2>1. c \in CallOver(DOMAIN txs)
      BY DEF WalletOK, Backed
    <2>2. \A d : Replace(c, d) /\ d.tx = c.tx => \A e \in calls' : e \in calls \/ e.tx = c.tx
      BY DEF Replace
    <2>3. \A d \in calls' : d \in calls \/ d.tx = c.tx
      <3>1. CASE Sign(c)
        <4>1. PICK g : Replace(c, [c EXCEPT !.txid = Len(txs) + 1, !.stage = g])
          BY <3>1 DEF Sign
        <4>2. [c EXCEPT !.txid = Len(txs) + 1, !.stage = g].tx = c.tx
          BY <2>1 DEF CallOver
        <4> QED BY <2>2, <4>1, <4>2
      <3>2. CASE Finish(c)
        BY <3>2 DEF Finish
      <3>3. CASE SendAttempt(c)
        <4>1. [c EXCEPT !.stage = "sent"].tx = c.tx /\ [c EXCEPT !.attempt = c.attempt + 1].tx = c.tx
          BY <2>1 DEF CallOver
        <4>2. \/ Replace(c, [c EXCEPT !.stage = "sent"])
              \/ Replace(c, [c EXCEPT !.attempt = c.attempt + 1])
              \/ calls' = calls \ {c}
          BY <3>3 DEF SendAttempt, Fail
        <4> QED BY <2>2, <4>1, <4>2
      <3> QED BY <1>5, <3>1, <3>2, <3>3
    <2> QED BY <1>2, <2>3
  <1>6. CASE Restart
    BY <1>2, <1>6 DEF Restart
  <1>7. CASE \/ Boot \/ PreSplitFunding \/ discoverUtxos \/ waitForFunding \/ BatchTimer \/ Shutdown \/ EndOfRun
             \/ FlushDone \/ sweepAll \/ SweepDone \/ ChainTipTimer \/ BeefTimer \/ Crash
             \/ UNCHANGED engineVars
    <2>1. UNCHANGED calls
      BY <1>7 DEF Boot, PreSplitFunding, discoverUtxos, waitForFunding, preSplit, preSplitFails, BatchTimer, Shutdown,
                   EndOfRun, FlushDone, sweepAll, SweepDone, ChainTipTimer, BeefTimer, Crash, engineVars
    <2> QED BY <1>2, <2>1
  <1>8. ASSUME NEW b \in wire, BatchSettles(b) PROVE KindsOK'
    BY <1>2, <1>8 DEF BatchSettles
  <1> QED BY <1>3, <1>4, <1>5, <1>6, <1>7, <1>8 DEF EngineNext

-------------------------------------------------------------------------------
(* The start of the first process. *)

\* The outputs a split deals to the streams are the engine's.
LEMMA SplitOuts ==
    ASSUME NEW T, NEW u \in Known(T), Splits(u) >= NumStreams, NEW i \in 1..Splits(u)
    PROVE  i \in DOMAIN SplitTx(u).outs /\ SplitTx(u).outs[i] = Output("own", SplitSatoshis)
  <1> DEFINE n == Splits(u)
             change == u.satoshis - n * SplitSatoshis - splitFee(n)
             front == [v \in 1..n |-> Output("own", SplitSatoshis)]
             back == IF change > DustLimit THEN <<Output("own", change)>> ELSE <<>>
             X == [lock : {"own"}, satoshis : {SplitSatoshis, change}]
  <1>1. SplitTx(u).outs = front \o back
    BY DEF SplitTx, Tx
  <1>2. n \in Nat
    BY SplitCount
  <1>3. Output("own", SplitSatoshis) \in X /\ Output("own", change) \in X
    BY DEF Output
  <1> HIDE DEF n, X, change
  <1>4. front \in Seq(X) /\ Len(front) = n /\ front[i] = Output("own", SplitSatoshis)
    BY <1>2, <1>3 DEF n
  <1>5. back \in Seq(X)
    BY <1>3
  <1> HIDE DEF front, back
  <1>6. (front \o back)[i] = front[i] /\ i \in DOMAIN (front \o back)
    BY <1>2, <1>4, <1>5 DEF n
  <1> QED BY <1>1, <1>4, <1>6

LEMMA BootsEmpty ==
    ASSUME Starting, Boot
    PROVE  utxoPools' = EmptyPools /\ phase' = "presplit"
  <1>1. disk.chainTip = EmptyPools /\ disk.beef = {} /\ phase = "boot"
    BY DEF Starting, Boot
  <1> QED BY <1>1 DEF Boot

LEMMA FundingUnspent ==
    ASSUME WalletOK, Starting, phase = "presplit"
    PROVE  ingestFunding \in Known(accepted) /\ ingestFunding \notin SpentIn(accepted)
  <1>1. accepted = {1} /\ 1 \in DOMAIN txs
    BY DEF Starting, WalletOK, Closed
  <1>2. ingestFunding \in Known(accepted)
    BY <1>1, FundingKnown DEF WalletOK
  <1>3. \A u : u \notin Inputs(1)
    <2> SUFFICES ASSUME NEW u \in Inputs(1) PROVE FALSE
      OBVIOUS
    <2>1. u.txid \in 1..(1 - 1)
      BY <1>1, InputsKnown DEF WalletOK
    <2> QED BY <2>1
  <1> QED BY <1>1, <1>2, <1>3 DEF SpentIn

\* A transaction that is added spends no cell.
LEMMA LockedSplit ==
    ASSUME WalletOK, Locked, Extends, NEW k, NEW u \in Known(accepted), Splits(u) >= NumStreams,
           DOMAIN txs' = DOMAIN txs \union {k}, txs'[k] = SplitTx(u), calls = {}, sweepLeft = <<>>,
           UNCHANGED <<calls, sweepLeft, cells>>,
           \A w \in In(utxoPools') : w \in In(utxoPools) \/ (w.txid = k /\ w.vout + 1 \in 1..Splits(u))
    PROVE  Locked'
  <1>1. SplitTx(u).prev = <<>> /\ Range(<<>>) = {}
    BY SplitTxOver DEF Range
  <1>2. \A t \in DOMAIN txs' : t \in DOMAIN txs \/ Range(txs'[t].prev) \subseteq Celled
    BY <1>1
  <1>3. ASSUME NEW w, w.txid = k, w.vout + 1 \in 1..Splits(u) PROVE LockOf(w)' = "own"
    <2>1. SplitTx(u).outs[w.vout + 1].lock = "own"
      BY <1>3, SplitOuts DEF Output
    <2> QED BY <1>3, <2>1 DEF LockOf
  <1>4. \A w \in In(utxoPools') \union Range(sweepLeft') : w \in Owned \/ LockOf(w)' = "own"
    BY <1>1, <1>3 DEF Owned
  <1>5. \A w \in cells' : w \in Celled
    BY DEF Celled
  <1> QED BY <1>2, <1>4, <1>5, LockedGrows

\* What holds until the pools are filled.
Fresh == /\ \A t \in 2..Len(txs) : txs[t].kind = "split"
         /\ SpentApart(txs, accepted) /\ calls = {} /\ sweepLeft = <<>> /\ Locked

LEMMA FreshPreSplit ==
    ASSUME WalletOK, Fresh, NEW u \in Known(accepted), u \notin SpentIn(accepted), preSplit(u)
    PROVE  Secure' /\ SpentApart(txs', accepted') /\ Locked'
  <1>1. /\ Secure' /\ SpentApart(txs', accepted') /\ SplitId(u) \in DOMAIN txs' /\ txs'[SplitId(u)] = SplitTx(u)
        /\ \A w \in In(utxoPools') : w.txid = SplitId(u) /\ w.vout + 1 \in 1..Splits(u)
    BY SecurePreSplit DEF Fresh
  <1>2. /\ Splits(u) >= NumStreams /\ signSplit(u) /\ accepted' \in {accepted, accepted \union {SplitId(u)}}
        /\ UNCHANGED <<calls, cells, sweepLeft>>
    BY DEF preSplit
  <1>3. PICK k : k = SplitId(u)
    OBVIOUS
  <1>4. DOMAIN txs' = DOMAIN txs \union {k} /\ Extends
    BY <1>2, <1>3, SplitFresh DEF Fresh
  <1>5. Locked'
    BY <1>1, <1>2, <1>3, <1>4, LockedSplit DEF Fresh
  <1> QED BY <1>1, <1>5

LEMMA FreshPreSplitFails ==
    ASSUME WalletOK, Fresh, NEW u \in Known(accepted), u \notin SpentIn(accepted), NEW next, preSplitFails(u, next)
    PROVE  Fresh' /\ (utxoPools = EmptyPools => Secure')
  <1>0. UNCHANGED <<utxoPools, calls, cells, sweepLeft>> /\ phase' = next
    BY DEF preSplitFails, walletVars
  <1>1. CASE UNCHANGED <<txs, accepted>>
    <2>1. SpentApart(txs', accepted') /\ \A t \in 2..Len(txs') : txs'[t].kind = "split"
      BY <1>1 DEF Fresh
    <2>2. Extends
      BY <1>1 DEF Extends
    <2>3. Locked'
      <3>1. \A w \in In(utxoPools') \union Range(sweepLeft') : w \in Owned
        BY <1>0 DEF Owned
      <3>2. \A w \in cells' : w \in Celled
        BY <1>0 DEF Celled
      <3> QED BY <1>0, <1>1, <2>2, <3>1, <3>2, LockedGrows DEF Fresh
    <2>4. utxoPools = EmptyPools => Secure'
      <3>1. DOMAIN EmptyPools = Streams /\ Distinct(EmptyPools) /\ In(EmptyPools) = {}
        BY DEF EmptyPools, Distinct, In, Range
      <3>2. Safe(EmptyPools, <<>>, {}, txs', accepted')
        BY <2>1, <3>1, SafeStart
      <3> QED BY <1>0, <3>2 DEF Secure, Fresh
    <2> QED BY <1>0, <2>1, <2>3, <2>4 DEF Fresh
  <1>2. ASSUME Splits(u) >= NumStreams, signSplit(u), accepted' \in {accepted, accepted \union {SplitId(u)}}
        PROVE  Fresh' /\ (utxoPools = EmptyPools => Secure')
    <2>1. PICK k : k = SplitId(u)
      OBVIOUS
    <2>2. /\ k \notin accepted /\ k \in DOMAIN txs' /\ txs'[k] = SplitTx(u) /\ SpentApart(txs', accepted')
          /\ DOMAIN txs' = DOMAIN txs \union {k} /\ \A t \in DOMAIN txs : txs'[t] = txs[t]
          /\ Extends
      BY <1>2, <2>1, SplitFresh DEF Fresh
    <2>3. Locked'
      <3>1. \A w \in In(utxoPools') : w \in In(utxoPools)
        BY <1>0
      <3> QED BY <1>0, <1>2, <2>2, <3>1, LockedSplit DEF Fresh
    <2>4. \A t \in 2..Len(txs') : txs'[t].kind = "split"
      <3>1. SplitTx(u).kind = "split"
        BY DEF SplitTx, Tx
      <3>2. TxsOK' /\ TxsOK
        BY <2>2, TxsGrow DEF WalletOK
      <3>3. \A t \in 2..Len(txs') : t \in DOMAIN txs'
        BY <3>2 DEF TxsOK
      <3>4. \A t \in 2..Len(txs') : t \in DOMAIN txs => t \in 2..Len(txs)
        BY <3>2 DEF TxsOK
      <3> QED BY <2>2, <3>1, <3>3, <3>4 DEF Fresh
    <2>5. utxoPools = EmptyPools => Secure'
      <3>1. DOMAIN EmptyPools = Streams /\ Distinct(EmptyPools) /\ In(EmptyPools) = {}
        BY DEF EmptyPools, Distinct, In, Range
      <3>2. Safe(EmptyPools, <<>>, {}, txs', accepted')
        BY <2>2, <3>1, SafeStart
      <3> QED BY <1>0, <3>2 DEF Secure, Fresh
    <2> QED BY <1>0, <2>2, <2>3, <2>4, <2>5 DEF Fresh
  <1>3. UNCHANGED <<txs, accepted>> \/ (~(Splits(u) < NumStreams) /\ signSplit(u) /\ accepted' \in {accepted, accepted \union {SplitId(u)}})
    BY DEF preSplitFails
  <1> QED BY <1>1, <1>2, <1>3, SplitsCompare

-------------------------------------------------------------------------------
(* Locks are kept by calls, flushes and sweeps. *)

LEMMA HoldingOwned == Holding(utxoPools, sweepLeft, calls) \subseteq Owned
  BY DEF Holding, Owned, Picked, Signing

\* A step that signs nothing and begins no call.
LEMMA LockedStays ==
    ASSUME WalletOK, Locked, UNCHANGED txs, In(utxoPools') \union Range(sweepLeft') \subseteq Owned,
           cells' \subseteq Celled, \A d \in calls' : \E c \in calls : d.tx = c.tx
    PROVE  Locked'
  <1>1. Extends
    BY DEF Extends
  <1> QED BY <1>1, LockedGrows

LEMMA LockedBegin ==
    ASSUME WalletOK, Locked, Secure, NEW s \in Streams,
           fundChannel(s) \/ \E kind \in CallKinds : Begin(s, kind)
    PROVE  Locked'
  <1>1. Holding(utxoPools', sweepLeft', calls') \subseteq Owned
    BY SecureFund, SecureBegin, HoldingOwned
  <1>2. UNCHANGED txs
    BY DEF fundChannel, Begin
  <1>3. cells' \subseteq Celled /\ \A d \in calls' : d \in calls \/ (d.stage = "signing" /\ Range(d.tx.prev) \subseteq Celled)
    <2>1. CASE fundChannel(s)
      BY <2>1, FundCalls DEF Celled, Range
    <2>2. ASSUME NEW kind \in CallKinds, Begin(s, kind)
          PROVE  cells' \subseteq Celled /\ \A d \in calls' : d \in calls \/ (d.stage = "signing" /\ Range(d.tx.prev) \subseteq Celled)
      BY <2>2, BeginCalls DEF Celled
    <2> QED BY <2>1, <2>2
  <1>4. ASSUME NEW d \in calls', d \notin calls PROVE Range(d.tx.ins) \subseteq Owned /\ Range(d.tx.prev) \subseteq Celled
    <2>1. Range(d.tx.ins) \subseteq Picked(calls')
      BY <1>3, <1>4 DEF Picked, Signing
    <2> QED BY <1>1, <1>3, <1>4, <2>1 DEF Holding
  <1>5. In(utxoPools') \union Range(sweepLeft') \subseteq Owned
    BY <1>1 DEF Holding
  <1>6. Extends
    BY <1>2 DEF Extends
  <1> QED BY <1>2, <1>3, <1>4, <1>5, <1>6, LockedGrows

LEMMA LockedSign ==
    ASSUME WalletOK, Locked, NEW c \in calls, Sign(c), Grows
    PROVE  Locked'
  <1>1. txs' = Append(txs, c.tx) /\ UNCHANGED <<utxoPools, sweepLeft, cells>>
    BY DEF Sign
  <1>2. c \in CallOver(DOMAIN txs)
    BY DEF WalletOK, Backed
  <1>3. PICK g : calls' = (calls \ {c}) \union {[c EXCEPT !.txid = Len(txs) + 1, !.stage = g]}
    BY DEF Sign, Replace
  <1>4. [c EXCEPT !.txid = Len(txs) + 1, !.stage = g].tx = c.tx
    BY <1>2 DEF CallOver
  <1>5. \A d \in calls' : \E e \in calls : d.tx = e.tx
    BY <1>3, <1>4
  <1>6. \A t \in DOMAIN txs' : t \in DOMAIN txs \/ Range(txs'[t].prev) \subseteq Celled
    <2>1. \A t \in DOMAIN txs' : t \in DOMAIN txs \/ txs'[t] = c.tx
      BY <1>1 DEF WalletOK, TxsOK
    <2>2. Range(c.tx.prev) \subseteq Celled
      BY DEF Celled
    <2> QED BY <2>1, <2>2
  <1>7. In(utxoPools') \union Range(sweepLeft') \subseteq Owned /\ cells' \subseteq Celled
    BY <1>1 DEF Owned, Celled
  <1> QED BY <1>5, <1>6, <1>7, LockedGrows DEF Grows

\* What a call that is over adds to the pools.
LEMMA ChangeJoins ==
    ASSUME WalletOK, NEW c \in calls, Finish(c)
    PROVE  \/ utxoPools' = utxoPools
           \/ /\ c.tx.kind # "fund" /\ Last(c.tx.outs).lock = "own"
              /\ \A s \in Streams : Range(utxoPools'[s]) \subseteq Range(utxoPools[s]) \union {ChangeOf(c)}
  <1>1. c \in CallOver(DOMAIN txs) /\ c.tx.outs \in Outs /\ c.tx.outs # <<>> /\ c.stream \in Streams
    <2>1. c \in CallOver(DOMAIN txs) /\ c.tx.outs # <<>>
      BY DEF WalletOK, Backed, CallsOK
    <2> QED BY <2>1 DEF CallOver, TxOver
  <1>2. CASE c.tx.kind # "fund" /\ Last(c.tx.outs).lock = "own" /\ utxoPools' = [utxoPools EXCEPT ![c.stream] = Append(utxoPools[c.stream], ChangeOf(c))]
    <2> DEFINE w == ChangeOf(c)
               p == utxoPools[c.stream]
               X == Known(Int)
    <2>1. w \in X
      <3>1. Len(c.tx.outs) \in Int /\ c.tx.outs[Len(c.tx.outs)].satoshis \in Nat /\ c.txid \in Int
        BY <1>1, LastOut DEF Out, CallOver
      <3> QED BY <3>1 DEF ChangeOf, Utxo, Known
    <2>2. utxoPools \in [Streams -> Seq(X)]
      <3>1. utxoPools \in [Streams -> Seq(Known(DOMAIN txs))] /\ DOMAIN txs \subseteq Int
        BY DEF WalletOK, Backed, TxsOK
      <3> QED BY <3>1, MoreKnown
    <2>3. p \in Seq(X)
      BY <1>1, <2>2
    <2> HIDE DEF w, p, X
    <2>4. Range(Append(p, w)) \subseteq Range(p) \union {w}
      <3> SUFFICES ASSUME NEW i \in DOMAIN Append(p, w) PROVE Append(p, w)[i] \in Range(p) \union {w}
        BY DEF Range
      <3>1. i \in DOMAIN p \/ Append(p, w)[i] = w
        BY <2>1, <2>3
      <3>2. i \in DOMAIN p => Append(p, w)[i] = p[i]
        BY <2>1, <2>3
      <3> QED BY <3>1, <3>2 DEF Range
    <2>5. utxoPools' = [utxoPools EXCEPT ![c.stream] = Append(p, w)]
      BY <1>2 DEF p, w
    <2>6. \A s \in Streams : Range(utxoPools'[s]) \subseteq Range(utxoPools[s]) \union {w}
      BY <2>2, <2>4, <2>5 DEF p
    <2> QED BY <1>2, <2>6 DEF w
  <1> QED BY <1>2 DEF Finish

LEMMA LockedFinish ==
    ASSUME WalletOK, Locked, Secure, NEW c \in calls, Finish(c)
    PROVE  Locked'
  <1>1. c.stage = "sent" /\ calls' = calls \ {c} /\ UNCHANGED <<sweepLeft, txs>>
    BY DEF Finish
  <1>2. c \in CallOver(DOMAIN txs) /\ c.tx.outs \in Outs /\ c.tx.outs # <<>> /\ c.stream \in Streams /\ txs[c.txid] = c.tx
    <2>1. c \in CallOver(DOMAIN txs) /\ c.tx.outs # <<>>
      BY DEF WalletOK, Backed, CallsOK
    <2>2. txs[c.txid] = c.tx
      BY <1>1 DEF Secure, Safe, Untouched, Alone
    <2> QED BY <2>1, <2>2 DEF CallOver, TxOver
  <1>3. Extends
    BY <1>1 DEF Extends
  <1>4. \A w \in cells' : w \in Celled \/ LockOf(w)' = "cell"
    BY <1>1 DEF Finish, Celled, LockOf
  <1>5. \A w \in In(utxoPools') : w \in Owned \/ LockOf(w)' = "own"
    <2>1. CASE utxoPools' = utxoPools
      BY <2>1 DEF Owned
    <2>2. ASSUME Last(c.tx.outs).lock = "own", \A s \in Streams : Range(utxoPools'[s]) \subseteq Range(utxoPools[s]) \union {ChangeOf(c)}
          PROVE  \A w \in In(utxoPools') : w \in Owned \/ LockOf(w)' = "own"
      <3> DEFINE w == ChangeOf(c)
      <3>1. LockOf(w) = "own"
        <4>1. Len(c.tx.outs) \in Int
          BY <1>2, LastOut
        <4>2. w.txid = c.txid /\ w.vout + 1 = Len(c.tx.outs)
          BY <4>1 DEF ChangeOf, Utxo
        <4> HIDE DEF w
        <4> QED BY <1>2, <2>2, <4>2 DEF LockOf, Last
      <3> HIDE DEF w
      <3>2. LockOf(w)' = "own"
        BY <1>1, <3>1 DEF LockOf
      <3> QED BY <2>2, <3>2 DEF In, Owned, w
    <2> QED BY <2>1, <2>2, ChangeJoins
  <1>6. \A w \in Range(sweepLeft') : w \in Owned
    BY <1>1 DEF Owned
  <1>7. \A d \in calls' : \E e \in calls : d.tx = e.tx
    BY <1>1
  <1> QED BY <1>1, <1>3, <1>4, <1>5, <1>6, <1>7, LockedGrows

LEMMA LockedSend ==
    ASSUME WalletOK, Locked, NEW c \in calls, SendAttempt(c)
    PROVE  Locked'
  <1>1. UNCHANGED <<sweepLeft, txs>> /\ c \in CallOver(DOMAIN txs)
    BY DEF SendAttempt, WalletOK, Backed
  <1>2. [c EXCEPT !.stage = "sent"].tx = c.tx /\ [c EXCEPT !.attempt = c.attempt + 1].tx = c.tx
    BY <1>1 DEF CallOver
  <1>3. ASSUME NEW d, d.tx = c.tx, Replace(c, d), UNCHANGED <<utxoPools, cells>> PROVE Locked'
    <2>1. \A e \in calls' : \E f \in calls : e.tx = f.tx
      BY <1>3 DEF Replace
    <2>2. In(utxoPools') \union Range(sweepLeft') \subseteq Owned /\ cells' \subseteq Celled
      BY <1>1, <1>3 DEF Owned, Celled
    <2> QED BY <1>1, <2>1, <2>2, LockedStays
  <1>4. CASE Fail(c)
    <2> DEFINE X == Known(DOMAIN txs)
               p == utxoPools[c.stream]
               r == Returned(c)
    <2>1. /\ utxoPools' = [utxoPools EXCEPT ![c.stream] = p \o r] /\ calls' = calls \ {c}
          /\ cells' = cells \union Range(c.tx.prev)
      BY <1>4 DEF Fail
    <2>2. c.stream \in Streams /\ c.tx.ins \in Seq(X) /\ utxoPools \in [Streams -> Seq(X)]
      BY <1>1 DEF CallOver, TxOver, WalletOK, Backed
    <2>3. r \in Seq(X) /\ p \in Seq(X) /\ Range(r) \subseteq Range(c.tx.ins)
      <3>1. r \in {<<>>, c.tx.ins} /\ Range(<<>>) = {} /\ <<>> \in Seq(X)
        BY DEF Returned, Range
      <3>2. p \in Seq(X)
        BY <2>2
      <3> HIDE DEF r
      <3> QED BY <2>2, <3>1, <3>2
    <2> HIDE DEF X, p, r
    <2>4. Range(p \o r) = Range(p) \union Range(r)
      BY <2>3, RangeConcatenation
    <2>5. \A s \in Streams : Range(utxoPools'[s]) \subseteq Range(utxoPools[s]) \union Range(c.tx.ins)
      BY <2>1, <2>2, <2>3, <2>4 DEF p
    <2>6. In(utxoPools') \union Range(sweepLeft') \subseteq Owned
      BY <1>1, <2>5 DEF In, Owned
    <2>7. cells' \subseteq Celled
      BY <2>1 DEF Celled
    <2> QED BY <1>1, <2>1, <2>6, <2>7, LockedStays
  <1>5. Fail(c) \/ (UNCHANGED <<utxoPools, cells>> /\ \E d : d.tx = c.tx /\ Replace(c, d))
    BY <1>2 DEF SendAttempt
  <1> QED BY <1>3, <1>4, <1>5

LEMMA LockedFlush ==
    ASSUME WalletOK, Locked, Secure, FlushDone
    PROVE  Locked'
  <1>1. UNCHANGED <<calls, cells, txs>>
    BY DEF FlushDone
  <1>2. CASE phase = "draining"
    <2> DEFINE X == Known(DOMAIN txs)
               flat == FlattenSeq([i \in 1..NumStreams |-> utxoPools[i - 1]])
    <2>1. utxoPools' = EmptyPools /\ sweepLeft' = flat
      BY <1>2 DEF FlushDone
    <2>2. utxoPools \in [Streams -> Seq(X)] /\ HeldOnce(utxoPools, sweepLeft, calls)
      BY DEF WalletOK, Backed, Secure, Safe
    <2> HIDE DEF X
    <2>3. Range(flat) \subseteq In(utxoPools)
      BY <2>2, PoolsFlatOnce DEF HeldOnce, In
    <2> HIDE DEF flat
    <2>4. In(EmptyPools) = {}
      BY DEF EmptyPools, In, Range
    <2>5. In(utxoPools') \union Range(sweepLeft') \subseteq Owned /\ cells' \subseteq Celled
      BY <1>1, <2>1, <2>3, <2>4 DEF Owned, Celled
    <2> QED BY <1>1, <2>5, LockedStays
  <1>3. CASE phase # "draining"
    <2>1. UNCHANGED <<utxoPools, sweepLeft>>
      BY <1>3 DEF FlushDone
    <2>2. In(utxoPools') \union Range(sweepLeft') \subseteq Owned /\ cells' \subseteq Celled
      BY <1>1, <2>1 DEF Owned, Celled
    <2> QED BY <1>1, <2>2, LockedStays
  <1> QED BY <1>2, <1>3

LEMMA LockedSweep ==
    ASSUME WalletOK, Locked, Secure, sweepAll, Grows
    PROVE  Locked'
  <1> DEFINE n == IF Len(sweepLeft) < SweepBatch THEN Len(sweepLeft) ELSE SweepBatch
             rest == SubSeq(sweepLeft, n + 1, Len(sweepLeft))
             tx == SweepTx(SubSeq(sweepLeft, 1, n))
             X == Known(DOMAIN txs)
  <1>1. sweepLeft \in Seq(X) /\ n \in 0..Len(sweepLeft) /\ n \in n..Len(sweepLeft) /\ NoRepeats(sweepLeft)
    <2>1. sweepLeft \in Seq(X) /\ SweepBatch \in Nat /\ NoRepeats(sweepLeft)
      BY EngineAssumption DEF WalletOK, Backed, Secure, Safe, HeldOnce
    <2> HIDE DEF X
    <2> QED BY <2>1
  <1>2. UNCHANGED <<utxoPools, calls, cells>> /\ sweepLeft' \in {rest, <<>>} /\ (txs' = txs \/ txs' = Append(txs, tx))
    BY DEF sweepAll
  <1>3. tx.prev = <<>> /\ Range(<<>>) = {}
    BY DEF SweepTx, Tx, Range
  <1> HIDE DEF X, n, tx
  <1>4. Range(rest) \subseteq Range(sweepLeft)
    BY <1>1, CutOnce
  <1> HIDE DEF rest
  <1>5. In(utxoPools') \union Range(sweepLeft') \subseteq Owned /\ cells' \subseteq Celled
    BY <1>2, <1>3, <1>4 DEF Owned, Celled
  <1>6. \A t \in DOMAIN txs' : t \in DOMAIN txs \/ Range(txs'[t].prev) \subseteq Celled
    <2>1. \A t \in DOMAIN txs' : t \in DOMAIN txs \/ txs'[t] = tx
      BY <1>2 DEF WalletOK, TxsOK
    <2> QED BY <1>3, <2>1
  <1>7. \A d \in calls' : \E e \in calls : d.tx = e.tx
    BY <1>2
  <1> QED BY <1>5, <1>6, <1>7, LockedGrows DEF Grows

-------------------------------------------------------------------------------
(* The invariant of the first process. *)

LEMMA FirstInvInit ==
    ASSUME EngineInit, WalletOK
    PROVE  FirstInv
  <1> DEFINE tx == Tx("funding", <<>>, <<>>, FundingOuts)
  <1>1. /\ txs = <<tx>> /\ accepted = {1} /\ calls = {} /\ cells = {} /\ wire = {} /\ batchQueue = <<>>
        /\ sweepLeft = <<>> /\ utxoPools = EmptyPools /\ phase = "boot"
        /\ disk = [chainTip |-> EmptyPools, beef |-> {}]
        /\ ~batchFlushTimer /\ ~chainTipDirty /\ ~beefDirty
    BY DEF EngineInit
  <1>2. tx.ins = <<>> /\ tx.prev = <<>> /\ Range(<<>>) = {}
    BY DEF Tx, Range
  <1> HIDE DEF tx
  <1>3. Len(txs) = 1 /\ DOMAIN txs = {1} /\ txs[1] = tx
    BY <1>1
  <1>4. DOMAIN EmptyPools = Streams /\ Distinct(EmptyPools) /\ In(EmptyPools) = {}
    BY DEF EmptyPools, Distinct, In, Range
  <1>5. SpentApart(txs, accepted) /\ Consumed(txs, accepted) = {}
    BY <1>2, <1>3 DEF SpentApart, Consumed, SpentAt
  <1>6. Safe(EmptyPools, <<>>, {}, txs, accepted)
    BY <1>4, <1>5, SafeStart
  <1>7. Locked
    BY <1>1, <1>2, <1>3, <1>4 DEF Locked, Owned, Celled
  <1>8. InTurn(batchQueue, wire, Plain)
    <2>1. <<>> \in Seq(Plain)
      OBVIOUS
    <2> QED BY <1>1, <2>1 DEF InTurn, Incr
  <1>9. Starting /\ KindsOK
    BY <1>1, <1>3 DEF Starting, KindsOK
  <1> QED BY <1>1, <1>5, <1>6, <1>7, <1>8, <1>9 DEF FirstInv, Secure

\* What a step of the first process keeps of the wallet.
WalletKept == Locked' /\ Starting' /\ SpentApart(txs', accepted') /\ (phase' # "dead" => Secure')

\* A step in which the pools are filled, or nothing is done for it.
LEMMA KeptAtStart ==
    ASSUME EngineInv, FirstInv, Boot \/ PreSplitFunding \/ discoverUtxos \/ waitForFunding
    PROVE  WalletKept
  <1>1. WalletOK /\ Starting /\ SpentApart(txs, accepted) /\ Locked
    BY DEF EngineInv, FirstInv
  <1>2. phase \in {"boot", "presplit", "discover", "waiting"}
    BY DEF Boot, PreSplitFunding, discoverUtxos, waitForFunding
  <1>3. Fresh /\ Secure
    BY <1>1, <1>2 DEF Fresh, Starting, FirstInv
  <1>4. CASE Boot
    <2>1. utxoPools' = EmptyPools /\ phase' = "presplit" /\ phase = "boot"
      BY <1>1, <1>4, BootsEmpty DEF Boot
    <2>2. UNCHANGED <<calls, cells, sweepLeft, disk, txs, accepted, wire, batchFlushTimer, chainTipDirty, beefDirty>>
      BY <1>4 DEF Boot, queueVars
    <2>3. utxoPools = EmptyPools
      BY <1>1, <2>1 DEF Starting
    <2>4. Secure' /\ Starting'
      BY <1>1, <1>3, <2>1, <2>2, <2>3 DEF Secure, Starting
    <2>5. Locked'
      <3>1. In(utxoPools') \union Range(sweepLeft') \subseteq Owned /\ cells' \subseteq Celled
        BY <2>1, <2>2, <2>3 DEF Owned, Celled
      <3> QED BY <1>1, <2>2, <3>1, LockedStays
    <2> QED BY <1>1, <2>2, <2>4, <2>5 DEF WalletKept
  <1>5. CASE PreSplitFunding
    <2>1. phase = "presplit" /\ utxoPools = EmptyPools
      BY <1>1, <1>5 DEF PreSplitFunding, Starting
    <2> DEFINE u == ingestFunding
    <2>2. u \in Known(accepted) /\ u \notin SpentIn(accepted)
      BY <1>1, <2>1, FundingUnspent
    <2> HIDE DEF u
    <2>3. CASE preSplit(u)
      <3>1. Secure' /\ SpentApart(txs', accepted') /\ Locked'
        BY <1>1, <1>3, <2>2, <2>3, FreshPreSplit
      <3>2. phase' = "running"
        BY <2>3 DEF preSplit
      <3>3. Starting'
        BY <3>2 DEF Starting
      <3> QED BY <3>1, <3>3 DEF WalletKept
    <2>4. CASE preSplitFails(u, "discover")
      <3>1. Fresh' /\ Secure'
        BY <1>1, <1>3, <2>1, <2>2, <2>4, FreshPreSplitFails
      <3>2. phase' = "discover" /\ utxoPools' = EmptyPools
        BY <2>1, <2>4 DEF preSplitFails, walletVars
      <3>3. Starting'
        BY <3>1, <3>2 DEF Starting, Fresh
      <3> QED BY <3>1, <3>3 DEF WalletKept, Fresh
    <2> QED BY <1>5, <2>3, <2>4 DEF PreSplitFunding, u
  <1>6. CASE discoverUtxos
    <2>1. UNCHANGED <<calls, cells, sweepLeft, txs, accepted>> /\ phase' \in {"running", "waiting"}
      BY <1>6 DEF discoverUtxos
    <2>2. Secure' /\ \A w \in In(utxoPools') : w \in In(utxoPools) \/ w \in OnChain
      BY <1>1, <1>3, <1>6, SecureDiscover DEF Fresh
    <2>3. Starting'
      BY <1>3, <2>1 DEF Starting, Fresh
    <2>4. Locked'
      <3>1. Extends
        BY <2>1 DEF Extends
      <3>2. \A w \in OnChain : LockOf(w)' = "own"
        BY <2>1 DEF OnChain, LockOf
      <3>3. \A w \in In(utxoPools') \union Range(sweepLeft') : w \in Owned \/ LockOf(w)' = "own"
        BY <2>1, <2>2, <3>2 DEF Owned
      <3>4. \A w \in cells' : w \in Celled
        BY <2>1 DEF Celled
      <3> QED BY <1>1, <2>1, <3>1, <3>3, <3>4, LockedGrows
    <2> QED BY <1>1, <2>1, <2>2, <2>3, <2>4 DEF WalletKept
  <1>7. CASE waitForFunding
    <2>1. ASSUME NEW u \in OnChain, preSplit(u) \/ preSplitFails(u, "dead") PROVE WalletKept
      <3>1. u \in Known(accepted) /\ u \notin SpentIn(accepted)
        <4>1. OnChain \subseteq Known(accepted)
          BY <1>1, UnspentKnown DEF WalletOK, Closed
        <4> QED BY <4>1 DEF OnChain
      <3>2. CASE preSplit(u)
        <4>1. Secure' /\ SpentApart(txs', accepted') /\ Locked'
          BY <1>1, <1>3, <3>1, <3>2, FreshPreSplit
        <4>2. phase' = "running"
          BY <3>2 DEF preSplit
        <4>3. Starting'
          BY <4>2 DEF Starting
        <4> QED BY <4>1, <4>3 DEF WalletKept
      <3>3. CASE preSplitFails(u, "dead")
        <4>1. Fresh'
          BY <1>1, <1>3, <3>1, <3>3, FreshPreSplitFails
        <4>2. phase' = "dead"
          BY <3>3 DEF preSplitFails
        <4>3. Starting'
          BY <4>2 DEF Starting
        <4> QED BY <4>1, <4>2, <4>3 DEF WalletKept, Fresh
      <3> QED BY <2>1, <3>2, <3>3
    <2>2. CASE phase' = "dead" /\ UNCHANGED <<walletVars, txs, accepted>>
      <3>1. Starting'
        BY <2>2 DEF Starting
      <3>2. In(utxoPools') \union Range(sweepLeft') \subseteq Owned /\ cells' \subseteq Celled
        BY <2>2 DEF Owned, Celled, walletVars
      <3>3. Locked'
        BY <1>1, <2>2, <3>2, LockedStays DEF walletVars
      <3> QED BY <1>1, <2>2, <3>1, <3>3 DEF WalletKept
    <2> QED BY <1>7, <2>1, <2>2 DEF waitForFunding
  <1> QED BY <1>4, <1>5, <1>6, <1>7

\* The other steps, but for the start of another process.
LEMMA KeptByRun ==
    ASSUME EngineInv, FirstProcess, FirstInv, Grows, [EngineNext]_engineVars,
           ~(Boot \/ PreSplitFunding \/ discoverUtxos \/ waitForFunding \/ Restart)
    PROVE  WalletKept
  <1>1. WalletOK /\ Locked /\ Starting /\ SpentApart(txs, accepted) /\ InTurn(batchQueue, wire, Plain)
    BY DEF EngineInv, FirstInv
  <1> DEFINE off == {"boot", "presplit", "discover", "waiting", "dead"}
  <1>2. ASSUME phase \notin off, phase' \notin off, Locked', Secure' PROVE WalletKept
    <2>1. Starting'
      BY <1>2 DEF Starting
    <2>2. SpentApart(txs', accepted')
      BY <1>2 DEF Secure, Safe
    <2> QED BY <1>2, <2>1, <2>2 DEF WalletKept
  <1>3. phase \notin off => Secure
    BY DEF FirstInv
  <1>4. ASSUME UNCHANGED <<walletVars, txs, accepted>> PROVE Locked' /\ (Secure => Secure') /\ SpentApart(txs', accepted')
    <2>1. In(utxoPools') \union Range(sweepLeft') \subseteq Owned /\ cells' \subseteq Celled
      BY <1>4 DEF Owned, Celled, walletVars
    <2>2. Locked'
      BY <1>1, <1>4, <2>1, LockedStays DEF walletVars
    <2> QED BY <1>1, <1>4, <2>2 DEF Secure, walletVars
  <1>5. ASSUME NEW s \in Streams, fundChannel(s) \/ \E k \in CallKinds : Begin(s, k) PROVE WalletKept
    <2>1. phase \notin off /\ phase' = phase
      BY <1>5 DEF fundChannel, Begin, CanCall
    <2>2. Secure'
      BY <1>1, <1>3, <1>5, <2>1, SecureFund, SecureBegin
    <2>3. Locked'
      BY <1>1, <1>3, <1>5, <2>1, LockedBegin
    <2> QED BY <1>2, <2>1, <2>2, <2>3
  <1>6. \A c \in calls : phase \in off \ {"dead"} => FALSE
    BY <1>1 DEF Starting
  <1>7. ASSUME NEW c \in calls, Sign(c) PROVE WalletKept
    <2>1. phase \notin off /\ phase' = phase
      BY <1>6, <1>7 DEF Sign, Live, TimersOn
    <2>2. Secure' /\ Locked'
      BY <1>1, <1>3, <1>7, <2>1, SecureSign, LockedSign
    <2> QED BY <1>2, <2>1, <2>2
  <1>8. ASSUME NEW c \in calls, Finish(c) PROVE WalletKept
    <2>1. phase \notin off /\ phase' = phase
      BY <1>6, <1>8 DEF Finish, Live, TimersOn
    <2>2. Secure' /\ Locked'
      BY <1>1, <1>3, <1>8, <2>1, SecureFinish, LockedFinish
    <2> QED BY <1>2, <2>1, <2>2
  <1>9. ASSUME NEW c \in calls, SendAttempt(c) PROVE WalletKept
    <2>1. phase \notin off /\ phase' = phase
      BY <1>6, <1>9 DEF SendAttempt, Live, TimersOn
    <2>2. Secure' /\ Locked'
      BY <1>1, <1>3, <1>9, <2>1, SecureSend, LockedSend
    <2> QED BY <1>2, <2>1, <2>2
  <1>10. ASSUME NEW b \in wire, BatchSettles(b) PROVE WalletKept
    <2>1. phase' = phase /\ phase # "dead" /\ UNCHANGED <<walletVars, txs>>
      BY <1>10 DEF BatchSettles, Live, TimersOn
    <2>2. Secure
      BY <2>1 DEF FirstInv
    <2>3. Secure'
      BY <1>1, <1>10, <2>2, SecureSettles
    <2>4. Locked'
      <3>1. In(utxoPools') \union Range(sweepLeft') \subseteq Owned /\ cells' \subseteq Celled
        BY <2>1 DEF Owned, Celled, walletVars
      <3> QED BY <1>1, <2>1, <3>1, LockedStays DEF walletVars
    <2>5. Starting'
      <3>1. ~(phase \in {"boot", "presplit"})
        BY <1>1, <1>10 DEF Starting
      <3> QED BY <1>1, <2>1, <3>1 DEF Starting, walletVars
    <2> QED BY <2>3, <2>4, <2>5 DEF WalletKept, Secure, Safe
  <1>11. CASE FlushDone
    <2>1. phase \notin off /\ phase' \notin off
      BY <1>11 DEF FlushDone
    <2>2. Secure' /\ Locked'
      BY <1>1, <1>3, <1>11, <2>1, SecureFlush, LockedFlush
    <2> QED BY <1>2, <2>1, <2>2
  <1>12. CASE sweepAll
    <2>1. phase \notin off /\ phase' = phase
      BY <1>12 DEF sweepAll
    <2>2. Secure' /\ Locked'
      BY <1>1, <1>3, <1>12, <2>1, SecureSweep, LockedSweep
    <2> QED BY <1>2, <2>1, <2>2
  <1>13. CASE Shutdown \/ EndOfRun \/ SweepDone
    <2>1. phase \notin off /\ phase' \notin off /\ UNCHANGED <<walletVars, txs, accepted>>
      BY <1>13 DEF Shutdown, EndOfRun, SweepDone, startFlush
    <2> QED BY <1>2, <1>3, <1>4, <2>1
  <1>14. CASE Crash
    <2>1. phase' = "dead" /\ UNCHANGED <<walletVars, txs, accepted>>
      BY <1>14 DEF Crash
    <2>2. Starting'
      BY <2>1 DEF Starting
    <2> QED BY <1>4, <2>1, <2>2 DEF WalletKept
  <1>15. CASE BatchTimer \/ ChainTipTimer \/ BeefTimer \/ UNCHANGED engineVars
    <2>1. UNCHANGED <<walletVars, txs, accepted, phase>>
      BY <1>15 DEF BatchTimer, ChainTipTimer, BeefTimer, engineVars
    <2>2. Starting'
      <3>1. CASE phase \in {"boot", "presplit"}
        <4>1. UNCHANGED engineVars
          BY <1>1, <1>15, <3>1 DEF Starting, BatchTimer, ChainTipTimer, BeefTimer
        <4> QED BY <1>1, <4>1 DEF Starting, engineVars, walletVars, queueVars, storeVars
      <3>2. CASE ~(phase \in {"boot", "presplit"})
        BY <1>1, <2>1, <3>2 DEF Starting, walletVars
      <3> QED BY <3>1, <3>2
    <2>3. phase # "dead" => Secure
      BY DEF FirstInv
    <2> QED BY <1>4, <2>1, <2>2, <2>3 DEF WalletKept
  <1> QED BY <1>5, <1>7, <1>8, <1>9, <1>10, <1>11, <1>12, <1>13, <1>14, <1>15 DEF EngineNext

WalletInv == lives \in Nat \ {0} /\ (FirstProcess => FirstInv)

LEMMA WalletInvInit ==
    ASSUME EngineInit
    PROVE  WalletInv
  <1>1. WalletOK
    BY EngineInvInit DEF EngineInv
  <1>2. lives = 1
    BY DEF EngineInit
  <1> QED BY <1>1, <1>2, FirstInvInit DEF WalletInv

\* There is no way back to the first process.
LEMMA LivesStep ==
    ASSUME lives \in Nat \ {0}, [EngineNext]_engineVars
    PROVE  /\ lives' \in Nat \ {0} /\ setup' = setup
           /\ FirstProcess' => FirstProcess /\ ~Restart
  <1> USE DEF lifeVars
  <1>1. CASE Restart
    <2>1. lives' = lives + 1 /\ setup' = setup
      BY <1>1 DEF Restart
    <2> QED BY <2>1 DEF FirstProcess
  <1>2. CASE ~Restart
    <2>1. lives' = lives /\ setup' = setup
      BY <1>2 DEF EngineNext, Boot, PreSplitFunding, discoverUtxos, waitForFunding, preSplit, preSplitFails, fundChannel,
             Begin, Sign, Finish, SendAttempt, BatchTimer, BatchSettles, Shutdown, EndOfRun, FlushDone, sweepAll,
             SweepDone, ChainTipTimer, BeefTimer, Crash, engineVars
    <2>2. FirstProcess' => FirstProcess
      BY <2>1 DEF FirstProcess, Mode, LossyNetwork
    <2> QED BY <1>2, <2>1, <2>2
  <1> QED BY <1>1, <1>2

LEMMA WalletInvStep ==
    ASSUME EngineInv, WalletInv, [EngineNext]_engineVars
    PROVE  WalletInv'
  <1>1. lives' \in Nat \ {0} /\ (FirstProcess' => FirstProcess /\ ~Restart)
    BY LivesStep DEF WalletInv
  <1> SUFFICES ASSUME FirstProcess, ~Restart PROVE FirstInv'
    BY <1>1 DEF WalletInv
  <1>2. FirstInv /\ WalletOK
    BY DEF WalletInv, EngineInv
  <1>3. Grows
    BY <1>2, GrowsStep
  <1>4. WalletKept
    BY <1>2, <1>3, KeptAtStart, KeptByRun
  <1>5. KindsOK'
    BY <1>2, KindsStep DEF FirstInv
  <1>6. InTurn(batchQueue', wire', Plain')
    <2>1. \A c \in calls : c.tx.kind # "split"
      <3>1. setup.kinds \subseteq CallKinds
        BY <1>2, EngineAssumption DEF WalletOK
      <3> QED BY <1>2, <3>1 DEF FirstInv, KindsOK, CallKinds
    <2> QED BY <1>2, <1>3, <2>1, PlainStep DEF FirstInv
  <1> QED BY <1>4, <1>5, <1>6 DEF WalletKept, FirstInv

LEMMA WalletInvHolds == EngineSpec => [](EngineInv /\ WalletInv)
  <1>1. EngineInit => EngineInv /\ WalletInv
    BY EngineInvInit, WalletInvInit
  <1>2. EngineInv /\ WalletInv /\ [EngineNext]_engineVars => EngineInv' /\ WalletInv'
    BY EngineInvStep, WalletInvStep
  <1> QED BY <1>1, <1>2, PTL DEF EngineSpec

\* In the first process of a wallet no output is spent twice and none that is spent is held any more, with
\* any number of streams and calls at once, whatever broadcasts fail, whichever way the pools were filled
\* and also when the process may be killed.
THEOREM OutputsSpentOnce == EngineSpec => [](FirstProcess => SpentOnce)
  <1>1. ASSUME WalletInv, FirstProcess PROVE SpentOnce
    <2>1. SpentApart(txs, accepted) /\ (phase # "dead" => Secure)
      BY <1>1 DEF WalletInv, FirstInv
    <2>2. \A t : SpentBy(t) = SpentAt(txs, accepted, t)
      BY DEF SpentBy, SpentAt
    <2>3. Held = Holding(utxoPools, sweepLeft, calls)
      BY DEF Held, Holding, Pooled, In, Picked, Signing
    <2>4. ASSUME phase # "dead", NEW t \in DOMAIN txs PROVE SpentBy(t) \intersect Held = {}
      <3>1. SpentBy(t) \subseteq Consumed(txs, accepted)
        BY <2>2 DEF Consumed
      <3> QED BY <2>1, <2>3, <2>4, <3>1 DEF Secure, Safe
    <2> QED BY <2>1, <2>2, <2>4 DEF SpentOnce, SpentApart
  <1> QED BY <1>1, WalletInvHolds, PTL

\* Nor is anything in its pools spent by a transaction the network has.
THEOREM PoolsUnspent == EngineSpec => [](FirstProcess => PoolUnspent)
  <1>1. ASSUME EngineInv, WalletInv, FirstProcess PROVE PoolUnspent
    <2> SUFFICES ASSUME phase # "dead", NEW u \in Pooled, NEW t \in accepted, u \in Inputs(t) PROVE FALSE
      BY DEF PoolUnspent, SpentIn
    <2>1. Secure /\ Locked /\ t \in DOMAIN txs
      BY <1>1 DEF WalletInv, FirstInv, EngineInv, WalletOK, Closed
    <2>2. u \in Holding(utxoPools, sweepLeft, calls) /\ LockOf(u) = "own"
      BY <2>1 DEF Holding, Pooled, In, Locked, Owned
    <2>3. CASE u \in Range(txs[t].ins)
      <3>1. u \in Consumed(txs, accepted)
        BY <2>1, <2>3 DEF Consumed, SpentAt
      <3> QED BY <2>1, <2>2, <3>1 DEF Secure, Safe
    <2>4. CASE u \in Range(txs[t].prev)
      BY <2>1, <2>2, <2>4 DEF Locked
    <2> QED BY <2>3, <2>4 DEF Inputs
  <1> QED BY <1>1, WalletInvHolds, PTL

-------------------------------------------------------------------------------
(* What the two snapshots know. *)

\* The funding output is the engine's, pays for a split over all streams, and no answer is lost.
FundedBySplit ==
    /\ ~LossyNetwork /\ SplitSatoshis > 0
    /\ FundingOuts[FundingVout + 1].lock = "own" /\ Splits(ingestFunding) >= NumStreams

\* An output of one of the transactions b of list, which is worth something.
Covers(list, b, u) ==
    u.satoshis > 0 /\ \E t \in b : \E v \in DOMAIN list[t].outs : u = Utxo(t, v - 1, list[t].outs[v].satoshis)

\* The change of a call is worth something.
ChangeOK(tx) == Last(tx.outs).lock = "own" => tx.outs[Len(tx.outs)].satoshis > 0

ChangesOK == \A c \in calls : ChangeOK(c.tx)
SplitsTaken == \A t \in DOMAIN txs : txs[t].kind = "split" => t \in accepted
Covered == Persistent => \A u \in In(utxoPools) \union Picked(calls) : Covers(txs, beef, u)
FundingKept == txs[1].kind = "funding" /\ txs[1].outs = FundingOuts
Snapshots ==
    /\ beefDirty \in BOOLEAN /\ (beefDirty => Persistent) /\ (~beefDirty => disk.beef = beef)
    /\ ~Persistent => disk.chainTip = EmptyPools
    /\ Persistent /\ phase = "stopped" => disk.chainTip = utxoPools /\ disk.beef = beef

BeefInv == /\ phase \notin {"discover", "waiting"}
           /\ FundingKept /\ ChangesOK /\ SplitsTaken /\ Covered /\ Snapshots

LEMMA ChangePositive ==
    ASSUME NEW kind \in CallKinds, NEW ins, NEW prev
    PROVE  ChangeOK(CallTx(kind, ins, prev))
  <1> DEFINE tx == CallTx(kind, ins, prev)
             fixed == Fixed(kind)
             change == Total(ins) + Total(prev) - Total(fixed) - Fee[kind]
             o == Output("own", change)
  <1>1. fixed \in Seq(Out) /\ Len(fixed) >= 1
    BY FixedOuts DEF Outs
  <1>2. fixed[Len(fixed)].lock # "own"
    <2>1. fixed \in {<<Output("cell", CellSatoshis)>>, <<Output("data", 0)>>, <<Output("data", 0), Output("multisig", ChannelSatoshis)>>}
      BY DEF Fixed, CallKinds
    <2> QED BY <2>1 DEF Output
  <1>3. tx.outs = fixed \o IF change > 0 THEN <<o>> ELSE <<>>
    BY DEF CallTx, Tx
  <1>4. o.satoshis = change
    BY DEF Output
  <1> HIDE DEF fixed, change, o, tx
  <1>5. CASE change > 0
    <2>1. tx.outs = fixed \o <<o>>
      BY <1>3, <1>5
    <2>2. Len(tx.outs) = Len(fixed) + 1 /\ tx.outs[Len(tx.outs)] = o
      BY <1>1, <2>1
    <2> QED BY <1>4, <1>5, <2>2 DEF ChangeOK, tx
  <1>6. CASE ~(change > 0)
    <2>1. tx.outs = fixed
      BY <1>1, <1>3, <1>6
    <2> QED BY <1>2, <2>1 DEF ChangeOK, Last, tx
  <1> QED BY <1>5, <1>6

LEMMA CoversMore ==
    ASSUME TxsOK, Extends, NEW b \in SUBSET DOMAIN txs, NEW d, b \subseteq d, NEW u, Covers(txs, b, u)
    PROVE  Covers(txs', d, u)
  <1>1. \A t \in b : txs'[t] = txs[t] /\ t \in d
    BY TxsGrow
  <1> QED BY <1>1 DEF Covers

LEMMA ChangeCovered ==
    ASSUME Secure, NEW c \in calls, c.stage = "sent", c.tx.outs \in Outs, c.tx.outs # <<>>, Last(c.tx.outs).lock = "own",
           ChangeOK(c.tx)
    PROVE  Covers(txs, {c.txid}, ChangeOf(c))
  <1>1. txs[c.txid] = c.tx
    BY DEF Secure, Safe, Untouched, Alone
  <1>2. Len(c.tx.outs) \in DOMAIN c.tx.outs
    BY LastOut
  <1>3. ChangeOf(c).satoshis > 0
    BY DEF ChangeOf, Utxo, ChangeOK
  <1> QED BY <1>1, <1>2, <1>3 DEF Covers, ChangeOf

\* What a split deals to the streams are outputs of it.
LEMMA DealtCovered ==
    ASSUME FundedBySplit, NEW T, NEW u \in Known(T), preSplit(u), NEW k, k = SplitId(u), txs'[k] = SplitTx(u)
    PROVE  \A w \in In(utxoPools') : Covers(txs', {k}, w)
  <1> DEFINE D == {w \in Range(Dealt(u)) : w.txid = SplitId(u) /\ w.vout + 1 \in 1..Splits(u)}
  <1>1. Splits(u) >= NumStreams /\ utxoPools' = Partition(Dealt(u))
    BY DEF preSplit, Dealt
  <1>2. Dealt(u) \in Seq(D) /\ NoRepeats(Dealt(u))
    BY <1>1, DealtOnce
  <1>3. In(utxoPools') \subseteq Range(Dealt(u))
    <2> HIDE DEF D
    <2> QED BY <1>1, <1>2, PartitionOnce DEF In
  <1> SUFFICES ASSUME NEW i \in 1..Splits(u), NEW w, w = Utxo(k, i - 1, SplitSatoshis) PROVE Covers(txs', {k}, w)
    BY <1>3 DEF Dealt, Range
  <1>4. /\ i \in DOMAIN txs'[k].outs /\ txs'[k].outs[i].satoshis = SplitSatoshis
    BY <1>1, SplitOuts DEF Output
  <1>5. w.satoshis = SplitSatoshis /\ SplitSatoshis > 0
    BY DEF Utxo, FundedBySplit
  <1> QED BY <1>4, <1>5 DEF Covers

\* The first split of a wallet goes through.
LEMMA SplitGoesThrough ==
    ASSUME EngineInv, FirstInv, FundedBySplit, txs[1].outs = FundingOuts, phase = "presplit", NEW next
    PROVE  ~preSplitFails(ingestFunding, next)
  <1>1. accepted = {1} /\ ingestFunding \in Known(accepted) /\ ingestFunding \notin SpentIn(accepted)
    <2>1. WalletOK /\ Starting
      BY DEF EngineInv, FirstInv
    <2> QED BY <2>1, FundingUnspent DEF Starting
  <1>2. FundingVout \in Nat /\ FundingVout + 1 \in DOMAIN FundingOuts
    <2>1. setup \in Setups
      BY DEF EngineInv, WalletOK
    <2> QED BY <2>1, EngineAssumption DEF FundingOuts
  <1>3. ingestFunding.txid = 1 /\ ingestFunding.vout = FundingVout
    BY DEF ingestFunding, Utxo
  <1>4. ingestFunding \in OutputsOf(accepted) /\ LockOf(ingestFunding) = "own"
    <2>1. PICK v : v = FundingVout + 1
      OBVIOUS
    <2>2. v - 1 = FundingVout
      BY <1>2, <2>1
    <2>3. PICK n : n = v - 1
      OBVIOUS
    <2>4. Utxo(1, n, txs[1].outs[v].satoshis) \in OutputsOf({1})
      BY <1>2, <2>1, <2>3 DEF OutputsOf
    <2>5. ingestFunding = Utxo(1, n, txs[1].outs[v].satoshis)
      BY <2>1, <2>2, <2>3 DEF ingestFunding
    <2>6. ingestFunding \in OutputsOf(accepted)
      BY <1>1, <2>4, <2>5
    <2> QED BY <1>3, <2>6 DEF LockOf, FundedBySplit
  <1>5. SplitTaken(ingestFunding)
    BY <1>1, <1>4 DEF SplitTaken, OnChain
  <1>6. ~(Splits(ingestFunding) < NumStreams)
    <2>1. Splits(ingestFunding) \in Int /\ NumStreams \in Int
      BY <1>1, EngineAssumption, SplitCount DEF FundedBySplit
    <2> QED BY <2>1 DEF FundedBySplit
  <1> QED BY <1>5, <1>6 DEF preSplitFails, FundedBySplit
-------------------------------------------------------------------------------
(* The steps keep both snapshots complete. *)

\* What pools and calls hold at most, after a step that takes from the pools.
LEMMA CoveredLess ==
    ASSUME WalletOK, Covered, Extends, Persistent' = Persistent, beef' = beef,
           In(utxoPools') \union Picked(calls') \subseteq In(utxoPools) \union Picked(calls)
    PROVE  Covered'
  <1> SUFFICES ASSUME Persistent, NEW u \in In(utxoPools') \union Picked(calls') PROVE Covers(txs', beef', u)
    BY DEF Covered
  <1>1. Covers(txs, beef, u)
    BY DEF Covered
  <1>2. beef \in SUBSET DOMAIN txs /\ TxsOK
    BY DEF WalletOK, Backed
  <1>3. PICK d : d = beef
    OBVIOUS
  <1>4. Covers(txs', d, u)
    BY <1>1, <1>2, <1>3, CoversMore
  <1> QED BY <1>3, <1>4

LEMMA CoveredTaking ==
    ASSUME WalletOK, Secure, Covered, Persistent' = Persistent, NEW s \in Streams,
           fundChannel(s) \/ \E kind \in CallKinds : Begin(s, kind)
    PROVE  Covered'
  <1>1. Secure' /\ Holding(utxoPools', sweepLeft', calls') \subseteq Holding(utxoPools, sweepLeft, calls)
    BY SecureFund, SecureBegin
  <1>2. UNCHANGED <<sweepLeft, beef, txs>>
    BY DEF fundChannel, Begin, storeVars
  <1>3. (In(utxoPools') \union Picked(calls')) \intersect Range(sweepLeft') = {}
    BY <1>1 DEF Secure, Safe, HeldOnce
  <1>4. In(utxoPools') \union Picked(calls') \subseteq In(utxoPools) \union Picked(calls)
    BY <1>1, <1>2, <1>3 DEF Holding
  <1>5. Extends
    BY <1>2 DEF Extends
  <1> QED BY <1>2, <1>4, <1>5, CoveredLess

LEMMA CoveredFinish ==
    ASSUME WalletOK, Secure, Covered, ChangesOK, Persistent' = Persistent, NEW c \in calls, Finish(c)
    PROVE  Covered'
  <1>1. c.stage = "sent" /\ calls' = calls \ {c} /\ UNCHANGED txs
    BY DEF Finish
  <1>2. c.tx.outs \in Outs /\ c.tx.outs # <<>> /\ ChangeOK(c.tx)
    <2>1. c \in CallOver(DOMAIN txs) /\ c.tx.outs # <<>>
      BY DEF WalletOK, Backed, CallsOK
    <2> QED BY <2>1 DEF CallOver, TxOver, ChangesOK
  <1>3. beef \subseteq beef' /\ (Persistent /\ c.tx.kind # "fund" => c.txid \in beef')
    BY DEF Finish, mergeTransaction
  <1>4. Picked(calls') \subseteq Picked(calls)
    BY <1>1 DEF Picked, Signing
  <1> SUFFICES ASSUME Persistent, NEW u \in In(utxoPools') \union Picked(calls') PROVE Covers(txs', beef', u)
    BY DEF Covered
  <1>5. PICK d : d = beef'
    OBVIOUS
  <1>6. beef \in SUBSET DOMAIN txs /\ TxsOK /\ Extends
    BY <1>1 DEF WalletOK, Backed, Extends
  <1>7. CASE u \in In(utxoPools) \union Picked(calls)
    <2>1. Covers(txs, beef, u)
      BY <1>7 DEF Covered
    <2>2. Covers(txs', d, u)
      BY <1>3, <1>5, <1>6, <2>1, CoversMore
    <2> QED BY <1>5, <2>2
  <1>8. CASE u \notin In(utxoPools) \union Picked(calls)
    <2>1. c.tx.kind # "fund" /\ Last(c.tx.outs).lock = "own" /\ u = ChangeOf(c)
      <3>1. u \in In(utxoPools') /\ u \notin In(utxoPools)
        BY <1>4, <1>8
      <3>2. utxoPools' # utxoPools
        BY <3>1
      <3> QED BY <3>1, <3>2, ChangeJoins DEF In
    <2>2. Covers(txs, {c.txid}, u)
      BY <1>1, <1>2, <2>1, ChangeCovered
    <2>3. {c.txid} \in SUBSET DOMAIN txs /\ {c.txid} \subseteq d
      <3>1. c.txid \in DOMAIN txs
        BY <1>1 DEF WalletOK, CallsOK
      <3> QED BY <1>3, <1>5, <2>1, <3>1
    <2>4. Covers(txs', d, u)
      BY <1>6, <2>2, <2>3, CoversMore
    <2> QED BY <1>5, <2>4
  <1> QED BY <1>7, <1>8

LEMMA CoveredSplit ==
    ASSUME WalletOK, Fresh, FundedBySplit, Persistent' = Persistent,
           NEW u \in Known(accepted), u \notin SpentIn(accepted), preSplit(u)
    PROVE  Covered'
  <1>1. SplitId(u) \in DOMAIN txs' /\ txs'[SplitId(u)] = SplitTx(u)
    BY SecurePreSplit DEF Fresh
  <1>2. PICK k : k = SplitId(u)
    OBVIOUS
  <1>3. \A w \in In(utxoPools') : Covers(txs', {k}, w)
    BY <1>1, <1>2, DealtCovered
  <1>4. Persistent => k \in beef'
    BY <1>2 DEF preSplit, mergeTransaction
  <1>5. Picked(calls') = {}
    BY DEF Fresh, preSplit, Picked, Signing
  <1> QED BY <1>3, <1>4, <1>5 DEF Covered, Covers

LEMMA CoveredStep ==
    ASSUME EngineInv, FirstProcess, FirstInv, FundedBySplit, BeefInv, Extends, setup' = setup,
           [EngineNext]_engineVars, ~Restart
    PROVE  Covered'
  <1>1. /\ WalletOK /\ Covered /\ ChangesOK /\ Starting /\ Locked /\ SpentApart(txs, accepted)
        /\ Persistent' = Persistent /\ phase \notin {"discover", "waiting"}
    BY DEF EngineInv, FirstInv, BeefInv, Persistent
  <1>2. phase # "dead" => Secure
    BY DEF FirstInv
  <1>3. ASSUME UNCHANGED <<utxoPools, beef>>, Picked(calls') \subseteq Picked(calls) PROVE Covered'
    <2>1. In(utxoPools') \union Picked(calls') \subseteq In(utxoPools) \union Picked(calls)
      BY <1>3
    <2> QED BY <1>1, <1>3, <2>1, CoveredLess
  <1>4. CASE Boot
    <2>1. utxoPools' = EmptyPools /\ calls' = {}
      BY <1>1, <1>4, BootsEmpty DEF Boot, Starting
    <2>2. In(utxoPools') \union Picked(calls') = {}
      BY <2>1 DEF In, EmptyPools, Range, Picked, Signing
    <2> QED BY <2>2 DEF Covered
  <1>5. CASE PreSplitFunding
    <2>1. phase = "presplit" /\ preSplit(ingestFunding)
      BY <1>5, SplitGoesThrough DEF PreSplitFunding, BeefInv, FundingKept
    <2>2. Fresh /\ ingestFunding \in Known(accepted) /\ ingestFunding \notin SpentIn(accepted)
      <3>1. Fresh
        BY <1>1, <2>1 DEF Fresh, Starting
      <3> QED BY <1>1, <2>1, <3>1, FundingUnspent
    <2> QED BY <1>1, <2>1, <2>2, CoveredSplit
  <1>6. ~discoverUtxos /\ ~waitForFunding
    BY <1>1 DEF discoverUtxos, waitForFunding
  <1>7. ASSUME NEW s \in Streams, fundChannel(s) \/ \E k \in CallKinds : Begin(s, k) PROVE Covered'
    <2>1. phase # "dead"
      BY <1>7 DEF fundChannel, Begin, CanCall
    <2> QED BY <1>1, <1>2, <1>7, <2>1, CoveredTaking
  <1>8. ASSUME NEW c \in calls, Sign(c) PROVE Covered'
    <2>1. UNCHANGED <<utxoPools, beef>>
      BY <1>8 DEF Sign, storeVars
    <2>2. c \in CallOver(DOMAIN txs)
      BY <1>1 DEF WalletOK, Backed
    <2>3. \A d \in calls' : d.stage = "signing" => d \in calls
      <3>1. \A n : [c EXCEPT !.txid = n, !.stage = "sending"].stage = "sending" /\ [c EXCEPT !.txid = n, !.stage = "sent"].stage = "sent"
        BY <2>2 DEF CallOver
      <3>2. PICK d : calls' = (calls \ {c}) \union {d} /\ d.stage # "signing"
        BY <1>8, <3>1 DEF Sign, Replace
      <3> QED BY <3>2
    <2>4. Picked(calls') \subseteq Picked(calls)
      BY <2>3 DEF Picked, Signing
    <2> QED BY <1>3, <2>1, <2>4
  <1>9. ASSUME NEW c \in calls, Finish(c) PROVE Covered'
    <2>1. phase # "dead"
      BY <1>9 DEF Finish, Live, TimersOn
    <2> QED BY <1>1, <1>2, <1>9, <2>1, CoveredFinish
  <1>10. ASSUME NEW c \in calls, SendAttempt(c) PROVE Covered'
    <2>1. phase # "dead" /\ UNCHANGED beef
      BY <1>10 DEF SendAttempt, Live, TimersOn, storeVars
    <2>2. utxoPools' = utxoPools /\ \A d \in calls' : d \in calls \/ d.stage # "signing"
      BY <1>2, <1>10, <2>1, PoolsKept
    <2>3. Picked(calls') \subseteq Picked(calls)
      BY <2>2 DEF Picked, Signing
    <2> QED BY <1>3, <2>1, <2>2, <2>3
  <1>11. CASE FlushDone
    <2>1. UNCHANGED <<calls, beef>> /\ utxoPools' \in {utxoPools, EmptyPools}
      BY <1>11 DEF FlushDone
    <2>2. In(EmptyPools) = {}
      BY DEF EmptyPools, In, Range
    <2>3. In(utxoPools') \union Picked(calls') \subseteq In(utxoPools) \union Picked(calls)
      BY <2>1, <2>2
    <2> QED BY <1>1, <2>1, <2>3, CoveredLess
  <1>12. CASE \/ BatchTimer \/ \E b \in wire : BatchSettles(b)
              \/ Shutdown \/ EndOfRun \/ sweepAll \/ SweepDone \/ ChainTipTimer \/ BeefTimer \/ Crash \/ UNCHANGED engineVars
    <2>1. UNCHANGED <<utxoPools, calls, beef>>
      BY <1>12 DEF BatchTimer, BatchSettles, Shutdown, EndOfRun, sweepAll, SweepDone, ChainTipTimer, BeefTimer, Crash,
             engineVars, walletVars, storeVars
    <2> QED BY <1>3, <2>1
  <1> QED BY <1>4, <1>5, <1>6, <1>7, <1>8, <1>9, <1>10, <1>11, <1>12 DEF EngineNext

LEMMA ChangesStep ==
    ASSUME WalletOK, ChangesOK, [EngineNext]_engineVars
    PROVE  ChangesOK'
  <1> SUFFICES ASSUME NEW d \in calls' PROVE ChangeOK(d.tx)
    BY DEF ChangesOK
  <1>1. CASE \E c \in calls : d.tx = c.tx
    BY <1>1 DEF ChangesOK
  <1>2. ASSUME NEW s \in Streams, NEW k \in CallKinds, Begin(s, k) PROVE ChangeOK(d.tx)
    <2>1. d \in calls \/ \E ins, prev : d = Call(s, CallTx(k, ins, prev))
      BY <1>2 DEF Begin
    <2> QED BY <1>1, <2>1, ChangePositive DEF Call
  <1>3. ASSUME NEW s \in Streams, fundChannel(s) PROVE ChangeOK(d.tx)
    <2>1. d \in calls \/ \E ins, prev : d = Call(s, CallTx("fund", ins, prev))
      BY <1>3 DEF fundChannel
    <2> QED BY <1>1, <2>1, ChangePositive DEF Call, CallKinds
  <1>4. ASSUME NEW c \in calls, Sign(c) \/ Finish(c) \/ SendAttempt(c) PROVE \E e \in calls : d.tx = e.tx
    <2>1. c \in CallOver(DOMAIN txs)
      BY DEF WalletOK, Backed
    <2>2. /\ \A n : [c EXCEPT !.txid = n, !.stage = "sending"].tx = c.tx /\ [c EXCEPT !.txid = n, !.stage = "sent"].tx = c.tx
          /\ [c EXCEPT !.stage = "sent"].tx = c.tx /\ [c EXCEPT !.attempt = c.attempt + 1].tx = c.tx
      BY <2>1 DEF CallOver
    <2>3. CASE Sign(c)
      BY <2>2, <2>3 DEF Sign, Replace
    <2>4. CASE Finish(c)
      BY <2>4 DEF Finish
    <2>5. CASE SendAttempt(c)
      BY <2>2, <2>5 DEF SendAttempt, Replace, Fail
    <2> QED BY <1>4, <2>3, <2>4, <2>5
  <1>5. CASE UNCHANGED calls \/ calls' = {}
    BY <1>1, <1>5
  <1>6. \/ \E s \in Streams : fundChannel(s) \/ \E k \in CallKinds : Begin(s, k)
        \/ \E c \in calls : Sign(c) \/ Finish(c) \/ SendAttempt(c)
        \/ UNCHANGED calls \/ calls' = {}
    BY DEF EngineNext, Boot, PreSplitFunding, discoverUtxos, waitForFunding, preSplit, preSplitFails, BatchTimer, BatchSettles,
           Shutdown, EndOfRun, FlushDone, sweepAll, SweepDone, ChainTipTimer, BeefTimer, Crash, Restart, engineVars, walletVars
  <1> QED BY <1>1, <1>2, <1>3, <1>4, <1>5, <1>6

\* What a step of such a wallet does while its pools are empty.
LEMMA StartedBySplit ==
    ASSUME EngineInv, FirstInv, FundedBySplit, BeefInv, Boot \/ PreSplitFunding \/ discoverUtxos \/ waitForFunding
    PROVE  \/ /\ Boot /\ phase' = "presplit" /\ utxoPools' = EmptyPools
              /\ disk.beef = {} /\ beef' = {} /\ UNCHANGED <<txs, accepted, calls>>
           \/ /\ preSplit(ingestFunding) /\ Fresh
              /\ ingestFunding \in Known(accepted) /\ ingestFunding \notin SpentIn(accepted)
  <1>1. WalletOK /\ Starting /\ Locked /\ SpentApart(txs, accepted) /\ phase \notin {"discover", "waiting"}
    BY DEF EngineInv, FirstInv, BeefInv
  <1>2. CASE Boot
    <2>1. phase = "boot" /\ UNCHANGED <<txs, accepted, calls>>
      BY <1>2 DEF Boot
    <2>2. disk.beef = {}
      BY <1>1, <2>1 DEF Starting
    <2>3. beef' = {}
      BY <1>2, <2>2 DEF Boot
    <2> QED BY <1>1, <1>2, <2>1, <2>2, <2>3, BootsEmpty
  <1>3. CASE PreSplitFunding
    <2>1. phase = "presplit" /\ preSplit(ingestFunding)
      BY <1>3, SplitGoesThrough DEF PreSplitFunding, BeefInv, FundingKept
    <2>2. Fresh
      BY <1>1, <2>1 DEF Fresh, Starting
    <2> QED BY <1>1, <2>1, <2>2, FundingUnspent
  <1> QED BY <1>1, <1>2, <1>3 DEF discoverUtxos, waitForFunding

LEMMA SplitsStep ==
    ASSUME EngineInv, FirstInv, FundedBySplit, BeefInv, Grows, [EngineNext]_engineVars
    PROVE  SplitsTaken'
  <1>1. WalletOK /\ SplitsTaken /\ accepted \subseteq accepted' /\ TxsOK
    BY DEF EngineInv, BeefInv, Grows, WalletOK
  <1>2. ASSUME NEW tx, tx.kind # "split", txs' = txs \/ txs' = Append(txs, tx) PROVE SplitsTaken'
    <2>1. txs \in Seq(TxOver(Nat))
      BY <1>1 DEF TxsOK
    <2>2. \A t \in DOMAIN txs' : (t \in DOMAIN txs /\ txs'[t] = txs[t]) \/ txs'[t] = tx
      BY <1>2, <2>1
    <2> QED BY <1>1, <1>2, <2>2 DEF SplitsTaken
  <1>3. CASE Boot \/ PreSplitFunding \/ discoverUtxos \/ waitForFunding
    <2>1. CASE UNCHANGED <<txs, accepted>>
      BY <1>1, <2>1 DEF SplitsTaken
    <2>2. CASE preSplit(ingestFunding) /\ Fresh /\ ingestFunding \in Known(accepted) /\ ingestFunding \notin SpentIn(accepted)
      <3>1. /\ Splits(ingestFunding) >= NumStreams /\ signSplit(ingestFunding)
            /\ accepted' = accepted \union {SplitId(ingestFunding)}
        BY <2>2 DEF preSplit, Presumes, FundedBySplit
      <3>2. PICK k : k = SplitId(ingestFunding)
        OBVIOUS
      <3>3. DOMAIN txs' = DOMAIN txs \union {k} /\ \A t \in DOMAIN txs : txs'[t] = txs[t]
        BY <1>1, <2>2, <3>1, <3>2, SplitFresh DEF Fresh
      <3> QED BY <1>1, <3>1, <3>2, <3>3 DEF SplitsTaken
    <2> QED BY <1>3, <2>1, <2>2, StartedBySplit
  <1>4. ASSUME NEW c \in calls, Sign(c) PROVE SplitsTaken'
    <2>1. c.tx.kind # "split"
      <3>1. setup.kinds \subseteq CallKinds
        BY <1>1, EngineAssumption DEF WalletOK
      <3> QED BY <3>1 DEF FirstInv, KindsOK, CallKinds
    <2> QED BY <1>2, <1>4, <2>1 DEF Sign
  <1>5. CASE sweepAll
    <2>1. PICK ins : txs' = txs \/ txs' = Append(txs, SweepTx(ins))
      BY <1>5 DEF sweepAll
    <2>2. PICK tx : tx = SweepTx(ins)
      OBVIOUS
    <2>3. tx.kind # "split"
      BY <2>2 DEF SweepTx, Tx
    <2> QED BY <1>2, <2>1, <2>2, <2>3
  <1>6. CASE UNCHANGED txs
    BY <1>1, <1>6 DEF SplitsTaken
  <1>7. \/ Boot \/ PreSplitFunding \/ discoverUtxos \/ waitForFunding \/ sweepAll
        \/ \E c \in calls : Sign(c)
        \/ UNCHANGED txs
    BY DEF EngineNext, fundChannel, Begin, Finish, SendAttempt, BatchTimer, BatchSettles, Shutdown, EndOfRun, FlushDone,
           SweepDone, ChainTipTimer, BeefTimer, Crash, Restart, engineVars, walletVars
  <1> QED BY <1>3, <1>4, <1>5, <1>6, <1>7

LEMMA PhaseStep ==
    ASSUME EngineInv, FirstInv, FundedBySplit, BeefInv, [EngineNext]_engineVars
    PROVE  phase' \notin {"discover", "waiting"} /\ (phase' = "stopped" => phase = "stopped" \/ FlushDone)
  <1>1. phase \notin {"discover", "waiting"}
    BY DEF BeefInv
  <1>2. CASE Boot \/ PreSplitFunding \/ discoverUtxos \/ waitForFunding
    <2>1. phase' \in {"presplit", "running"}
      BY <1>2, StartedBySplit DEF preSplit
    <2> QED BY <2>1
  <1>3. CASE Shutdown \/ EndOfRun \/ SweepDone
    BY <1>3 DEF Shutdown, EndOfRun, SweepDone, startFlush
  <1>4. CASE FlushDone
    BY <1>4 DEF FlushDone
  <1>5. CASE Crash \/ Restart
    BY <1>5 DEF Crash, Restart
  <1>6. \/ Boot \/ PreSplitFunding \/ discoverUtxos \/ waitForFunding
        \/ Shutdown \/ EndOfRun \/ SweepDone \/ FlushDone \/ Crash \/ Restart
        \/ UNCHANGED phase
    BY DEF EngineNext, fundChannel, Begin, Sign, Finish, SendAttempt, BatchTimer, BatchSettles, sweepAll, ChainTipTimer,
           BeefTimer, engineVars
  <1> QED BY <1>1, <1>2, <1>3, <1>4, <1>5, <1>6

\* A merge marks the store, unless there is none.
LEMMA MergeMarks ==
    ASSUME Snapshots, phase # "stopped", phase' # "stopped", Persistent' = Persistent, UNCHANGED disk,
           \/ \E S : mergeTransaction(S)
           \/ UNCHANGED <<beef, beefDirty>>
    PROVE  Snapshots'
  <1>1. UNCHANGED <<beef, beefDirty>> \/ (Persistent /\ beefDirty' = TRUE)
    BY DEF Snapshots, mergeTransaction
  <1>2. beefDirty' \in BOOLEAN /\ (beefDirty' => Persistent) /\ (~beefDirty' => disk.beef = beef')
    <2>1. CASE Persistent /\ beefDirty' = TRUE
      BY <2>1
    <2>2. CASE UNCHANGED <<beef, beefDirty>>
      <3>1. beef' = beef /\ (beefDirty' = beefDirty)
        BY <2>2
      <3> QED BY <3>1 DEF Snapshots
    <2> QED BY <1>1, <2>1, <2>2
  <1>3. ~Persistent => disk.chainTip = EmptyPools
    BY DEF Snapshots
  <1>4. EmptyPools' = EmptyPools /\ disk'.chainTip = disk.chainTip /\ disk'.beef = disk.beef
    BY DEF EmptyPools
  <1> QED BY <1>2, <1>3, <1>4 DEF Snapshots

LEMMA SnapshotsStep ==
    ASSUME EngineInv, FirstInv, FundedBySplit, BeefInv, setup' = setup, [EngineNext]_engineVars, ~Restart
    PROVE  Snapshots'
  <1>1. Snapshots /\ Persistent' = Persistent /\ (phase' = "stopped" => phase = "stopped" \/ FlushDone)
    BY PhaseStep DEF BeefInv, Persistent
  <1>2. ASSUME UNCHANGED <<disk, beef, beefDirty>>, phase # "stopped", phase' # "stopped" PROVE Snapshots'
    BY <1>1, <1>2, MergeMarks
  <1>3. CASE Boot \/ PreSplitFunding \/ discoverUtxos \/ waitForFunding
    <2>1. CASE Boot /\ phase' = "presplit" /\ utxoPools' = EmptyPools /\ disk.beef = {} /\ beef' = {}
      BY <1>1, <2>1 DEF Snapshots, Boot
    <2>2. CASE preSplit(ingestFunding)
      <3>1. phase # "stopped"
        BY <1>3, StartedBySplit DEF Boot, PreSplitFunding, discoverUtxos, waitForFunding
      <3>2. phase' # "stopped" /\ UNCHANGED disk /\ \E S : mergeTransaction(S)
        BY <2>2 DEF preSplit
      <3> QED BY <1>1, <3>1, <3>2, MergeMarks
    <2> QED BY <1>3, <2>1, <2>2, StartedBySplit
  <1>4. ASSUME NEW s \in Streams, fundChannel(s) \/ \E k \in CallKinds : Begin(s, k) PROVE Snapshots'
    <2>1. phase # "stopped" /\ phase' = phase /\ UNCHANGED <<disk, beef, beefDirty>>
      BY <1>4 DEF fundChannel, Begin, CanCall, storeVars
    <2> QED BY <1>2, <2>1
  <1>5. ASSUME NEW c \in calls, Sign(c) \/ SendAttempt(c) PROVE Snapshots'
    <2>1. phase # "stopped" /\ phase' = phase /\ UNCHANGED <<disk, beef, beefDirty>>
      BY <1>5 DEF Sign, SendAttempt, Live, TimersOn, storeVars
    <2> QED BY <1>2, <2>1
  <1>6. ASSUME NEW c \in calls, Finish(c) PROVE Snapshots'
    <2>1. phase # "stopped" /\ phase' = phase /\ UNCHANGED disk
      BY <1>6 DEF Finish, Live, TimersOn
    <2>2. UNCHANGED <<beef, beefDirty>> \/ \E S : mergeTransaction(S)
      BY <1>6 DEF Finish
    <2> QED BY <1>1, <2>1, <2>2, MergeMarks
  <1>7. CASE FlushDone
    <2>1. UNCHANGED beef /\ beefDirty' = FALSE /\ (phase' = "stopped" => utxoPools' = utxoPools)
      BY <1>7 DEF FlushDone
    <2>2. CASE Persistent
      <3>1. disk' = [chainTip |-> utxoPools, beef |-> IF beefDirty THEN beef ELSE disk.beef]
        BY <1>7, <2>2 DEF FlushDone
      <3>2. disk'.chainTip = utxoPools /\ disk'.beef = beef
        BY <1>1, <3>1 DEF Snapshots
      <3> QED BY <1>1, <2>1, <2>2, <3>2 DEF Snapshots
    <2>3. CASE ~Persistent
      <3>1. UNCHANGED disk
        BY <1>7, <2>3 DEF FlushDone
      <3> QED BY <1>1, <2>1, <2>3, <3>1 DEF Snapshots
    <2> QED BY <2>2, <2>3
  <1>8. CASE BatchTimer \/ (\E b \in wire : BatchSettles(b)) \/ Shutdown \/ EndOfRun \/ sweepAll \/ SweepDone \/ Crash
    <2>1. phase # "stopped" /\ UNCHANGED <<disk, beef, beefDirty>>
      BY <1>8 DEF BatchTimer, BatchSettles, Shutdown, EndOfRun, sweepAll, SweepDone, Crash, Live, TimersOn, storeVars
    <2>2. phase' # "stopped"
      BY <1>8 DEF BatchTimer, BatchSettles, Shutdown, EndOfRun, sweepAll, SweepDone, Crash, Live, TimersOn, startFlush
    <2> QED BY <1>2, <2>1, <2>2
  <1>9. CASE ChainTipTimer
    <2>1. Persistent /\ phase # "stopped" /\ phase' = phase /\ UNCHANGED <<beef, beefDirty>> /\ disk' = [disk EXCEPT !.chainTip = utxoPools]
      BY <1>9 DEF ChainTipTimer, TimersOn
    <2>2. disk'.beef = disk.beef
      <3>1. disk \in [chainTip : [Streams -> Seq(Known(DOMAIN txs))], beef : SUBSET DOMAIN txs]
        BY DEF EngineInv, WalletOK, Backed
      <3> QED BY <2>1, <3>1
    <2> QED BY <1>1, <2>1, <2>2 DEF Snapshots
  <1>10. CASE BeefTimer
    <2>1. beefDirty /\ phase # "stopped" /\ phase' = phase /\ UNCHANGED beef /\ beefDirty' = FALSE
          /\ disk' = [disk EXCEPT !.beef = beef]
      BY <1>10 DEF BeefTimer, TimersOn
    <2>2. disk'.beef = beef /\ disk'.chainTip = disk.chainTip
      <3>1. disk \in [chainTip : [Streams -> Seq(Known(DOMAIN txs))], beef : SUBSET DOMAIN txs]
        BY DEF EngineInv, WalletOK, Backed
      <3> QED BY <2>1, <3>1
    <2> QED BY <1>1, <2>1, <2>2 DEF Snapshots
  <1>11. CASE UNCHANGED engineVars
    BY <1>1, <1>11 DEF Snapshots, engineVars, walletVars, storeVars
  <1> QED BY <1>3, <1>4, <1>5, <1>6, <1>7, <1>8, <1>9, <1>10, <1>11 DEF EngineNext

BeefKept == FirstProcess /\ FundedBySplit => BeefInv

LEMMA BeefInit ==
    ASSUME EngineInit
    PROVE  BeefKept
  <1>1. /\ phase = "boot" /\ calls = {} /\ utxoPools = EmptyPools /\ beef = {} /\ beefDirty = FALSE
        /\ disk = [chainTip |-> EmptyPools, beef |-> {}] /\ txs = <<Tx("funding", <<>>, <<>>, FundingOuts)>>
    BY DEF EngineInit
  <1>2. FundingKept /\ SplitsTaken
    BY <1>1 DEF FundingKept, SplitsTaken, Tx
  <1>3. ChangesOK /\ Snapshots
    BY <1>1 DEF ChangesOK, Snapshots
  <1>4. In(utxoPools) \union Picked(calls) = {}
    BY <1>1 DEF In, EmptyPools, Range, Picked, Signing
  <1> QED BY <1>1, <1>2, <1>3, <1>4 DEF BeefKept, BeefInv, Covered

LEMMA BeefStep ==
    ASSUME EngineInv, WalletInv, BeefKept, [EngineNext]_engineVars
    PROVE  BeefKept'
  <1>1. setup' = setup /\ (FirstProcess' => FirstProcess /\ ~Restart)
    BY LivesStep DEF WalletInv
  <1>2. FundedBySplit' <=> FundedBySplit
    BY <1>1 DEF FundedBySplit, LossyNetwork, FundingOuts, Splits, maxSplits, splitFee, ingestFunding, Utxo, Larger
  <1> SUFFICES ASSUME FirstProcess, FundedBySplit, ~Restart PROVE BeefInv'
    BY <1>1, <1>2 DEF BeefKept
  <1>3. FirstInv /\ BeefInv /\ WalletOK
    BY DEF WalletInv, BeefKept, EngineInv
  <1>4. Grows /\ Extends
    BY <1>3, GrowsStep DEF Grows
  <1>5. FundingKept'
    <2>1. TxsOK /\ 1 \in DOMAIN txs
      BY <1>3 DEF WalletOK, TxsOK
    <2>2. txs'[1] = txs[1] /\ FundingOuts' = FundingOuts
      BY <1>1, <1>4, <2>1, TxsGrow DEF FundingOuts
    <2> QED BY <1>3, <2>2 DEF BeefInv, FundingKept
  <1>6. phase' \notin {"discover", "waiting"} /\ ChangesOK'
    BY <1>3, PhaseStep, ChangesStep DEF BeefInv
  <1>7. SplitsTaken' /\ Snapshots'
    BY <1>1, <1>3, <1>4, SplitsStep, SnapshotsStep
  <1>8. Covered'
    BY <1>1, <1>3, <1>4, CoveredStep
  <1> QED BY <1>5, <1>6, <1>7, <1>8 DEF BeefInv

\* When a wallet's first process, funded by a split, has stopped, the BEEF file knows every output its chain-tip
\* file lists: a later boot from the first forgets nothing, with any streams, settings and calls cut off by the stop.
THEOREM BeefAlwaysCovers == EngineSpec => [](FirstProcess /\ FundedBySplit => BeefCoversChainTip)
  <1>1. EngineInit => EngineInv /\ WalletInv /\ BeefKept
    BY EngineInvInit, WalletInvInit, BeefInit
  <1>2. EngineInv /\ WalletInv /\ BeefKept /\ [EngineNext]_engineVars => EngineInv' /\ WalletInv' /\ BeefKept'
    BY EngineInvStep, WalletInvStep, BeefStep
  <1>3. ASSUME EngineInv, WalletInv, BeefKept, FirstProcess, FundedBySplit PROVE BeefCoversChainTip
    <2> SUFFICES ASSUME phase = "stopped", NEW s \in Streams, NEW u \in Range(disk.chainTip[s]) PROVE u \in BeefTips
      BY DEF BeefCoversChainTip
    <2>1. WalletOK /\ FirstInv /\ Secure /\ Locked /\ BeefInv
      BY <1>3 DEF EngineInv, WalletInv, FirstInv, BeefKept
    <2>2. Persistent /\ disk.chainTip = utxoPools /\ disk.beef = beef
      <3>1. Range(EmptyPools[s]) = {}
        BY DEF EmptyPools, Range
      <3> QED BY <2>1, <3>1 DEF BeefInv, Snapshots
    <2>3. u \in In(utxoPools) /\ LockOf(u) = "own" /\ Covers(txs, beef, u)
      BY <2>1, <2>2 DEF In, Locked, Owned, BeefInv, Covered
    <2>4. u \in OutputsOf(disk.beef) /\ u.satoshis > 0
      BY <2>2, <2>3 DEF Covers, OutputsOf
    <2>5. ASSUME NEW t \in disk.beef, u \in Inputs(t) PROVE FALSE
      <3>1. t \in DOMAIN txs
        BY <2>1, <2>5 DEF WalletOK, Backed
      <3>2. CASE u \in Range(txs[t].ins)
        <4>1. u \in Consumed(txs, accepted)
          BY <2>1, <3>1, <3>2 DEF Consumed, SpentAt, BeefInv, SplitsTaken
        <4> QED BY <2>1, <2>3, <4>1 DEF Secure, Safe, Holding
      <3>3. CASE u \in Range(txs[t].prev)
        BY <2>1, <2>3, <3>1, <3>3 DEF Locked
      <3> QED BY <2>5, <3>2, <3>3 DEF Inputs
    <2> QED BY <2>4, <2>5 DEF BeefTips, SpentIn
  <1> QED BY <1>1, <1>2, <1>3, PTL DEF EngineSpec
===============================================================================
