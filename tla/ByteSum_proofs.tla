--------------------------- MODULE ByteSum_proofs ---------------------------
(* What updates of a function do to its total, from the cardinality        *)
(* theorems for finite sets.                                               *)
EXTENDS ByteSum, Integers, Sequences, SequenceTheorems, FunctionTheorems,
        FiniteSetTheorems, TLAPS

\* The bytes at one place of a function: finite, and as many as it says.
LEMMA BytesAtCard ==
  ASSUME NEW f, NEW x, f[x] \in Nat
  PROVE  IsFiniteSet(BytesAt(f, x)) /\ Cardinality(BytesAt(f, x)) = f[x]
<1>1. IsFiniteSet({x}) /\ Cardinality({x}) = 1
  BY FS_Singleton
<1>2. IsFiniteSet(1..f[x]) /\ Cardinality(1..f[x]) = f[x]
  BY FS_Interval
<1>3. IsFiniteSet({x} \X (1..f[x]))
  BY <1>1, <1>2, FS_Product, Zenon
<1>4. Cardinality({x} \X (1..f[x])) = Cardinality({x}) * Cardinality(1..f[x])
  BY <1>1, <1>2, FS_Product, Zenon
<1>5. Cardinality({x}) * Cardinality(1..f[x]) = f[x]
  BY <1>1, <1>2
<1>6. QED
  BY <1>3, <1>4, <1>5, Zenon DEF BytesAt

\* The bytes of a function of naturals with a finite domain are finitely many.
LEMMA ByteSetFinite ==
  ASSUME NEW S, IsFiniteSet(S), NEW f \in [S -> Nat]
  PROVE  IsFiniteSet(ByteSet(f)) /\ Total(f) \in Nat
<1> DEFINE T == {BytesAt(f, x) : x \in S}
           g == [x \in S |-> BytesAt(f, x)]
<1>1. g \in Surjection(S, T)
  BY DEF Surjection
<1>2. IsFiniteSet(T)
  <2> HIDE DEF T, g
  <2> QED BY <1>1, FS_Surjection
<1>3. \A U \in T : IsFiniteSet(U)
  BY BytesAtCard
<1>4. IsFiniteSet(UNION T)
  <2> HIDE DEF T
  <2> QED BY <1>2, <1>3, FS_UNION
<1>5. UNION T = ByteSet(f)
  BY DEF ByteSet
<1>6. QED
  BY <1>4, <1>5, FS_CardinalityType DEF Total

\* Membership in the set of bytes of a function.
LEMMA ByteSetMember ==
  ASSUME NEW S, NEW f \in [S -> Nat]
  PROVE  \A z : z \in ByteSet(f) <=> \E x \in S : z \in BytesAt(f, x)
BY DEF ByteSet

\* Splitting a finite set in two disjoint parts adds the cardinalities.
LEMMA DisjointCard ==
  ASSUME NEW A, NEW B, NEW C, IsFiniteSet(A), IsFiniteSet(B),
         C = A \cup B, A \cap B = {}
  PROVE  IsFiniteSet(C) /\ Cardinality(C) = Cardinality(A) + Cardinality(B)
<1>1. Cardinality(A \cap B) = 0
  BY FS_EmptySet
<1>2. Cardinality(A) \in Nat /\ Cardinality(B) \in Nat
  BY FS_CardinalityType
<1>3. IsFiniteSet(A \cup B)
  BY FS_Union, Zenon
<1>4. Cardinality(A \cup B) = Cardinality(A) + Cardinality(B) - Cardinality(A \cap B)
  BY FS_Union, Zenon
<1>5. QED
  BY <1>1, <1>2, <1>3, <1>4

\* The bytes elsewhere than at place p.
Elsewhere(f, p) == {z \in ByteSet(f) : z[1] # p}

\* A total is what one place holds and what the others hold.
LEMMA TotalSplit ==
  ASSUME NEW S, IsFiniteSet(S), NEW f \in [S -> Nat], NEW p \in S
  PROVE  /\ IsFiniteSet(Elsewhere(f, p))
         /\ Cardinality(Elsewhere(f, p)) \in Nat
         /\ Total(f) = Cardinality(Elsewhere(f, p)) + f[p]
<1>1. IsFiniteSet(ByteSet(f))
  BY ByteSetFinite
<1>2. IsFiniteSet(Elsewhere(f, p)) /\ Cardinality(Elsewhere(f, p)) \in Nat
  BY <1>1, FS_Subset, FS_CardinalityType DEF Elsewhere
<1>3. IsFiniteSet(BytesAt(f, p)) /\ Cardinality(BytesAt(f, p)) = f[p]
  BY BytesAtCard
<1>4. ByteSet(f) = Elsewhere(f, p) \cup BytesAt(f, p)
  BY ByteSetMember DEF Elsewhere, BytesAt
<1>5. Elsewhere(f, p) \cap BytesAt(f, p) = {}
  BY DEF Elsewhere, BytesAt
<1>6. QED
  BY <1>2, <1>3, <1>4, <1>5, DisjointCard DEF Total

\* No place holds more than the total.
LEMMA TotalBound ==
  ASSUME NEW S, IsFiniteSet(S), NEW f \in [S -> Nat], NEW p \in S
  PROVE  f[p] <= Total(f)
BY TotalSplit

\* Changing what one place holds changes the total by the difference.
LEMMA TotalUpdate ==
  ASSUME NEW S, IsFiniteSet(S), NEW f \in [S -> Nat], NEW g \in [S -> Nat],
         NEW p \in S, \A q \in S \ {p} : g[q] = f[q]
  PROVE  Total(g) = Total(f) - f[p] + g[p]
<1>1. Elsewhere(g, p) = Elsewhere(f, p)
  <2>1. \A q \in S \ {p} : BytesAt(g, q) = BytesAt(f, q)
    BY DEF BytesAt
  <2>2. ASSUME NEW z PROVE z \in Elsewhere(g, p) <=> z \in Elsewhere(f, p)
    BY <2>1, ByteSetMember DEF Elsewhere, BytesAt
  <2>3. QED
    BY <2>2
<1>2. Total(f) = Cardinality(Elsewhere(f, p)) + f[p]
  BY TotalSplit
<1>3. Total(g) = Cardinality(Elsewhere(g, p)) + g[p]
  BY TotalSplit
<1>4. Cardinality(Elsewhere(f, p)) \in Nat
  BY TotalSplit
<1>5. QED
  BY <1>1, <1>2, <1>3, <1>4

\* Places that all hold nothing hold nothing together.
LEMMA TotalZero ==
  ASSUME NEW S, NEW f \in [S -> Nat], \A x \in S : f[x] = 0
  PROVE  Total(f) = 0
<1>1. ByteSet(f) = {}
  <2>1. \A x \in S : 1..f[x] = {}
    OBVIOUS
  <2>2. QED
    BY <2>1, ByteSetMember DEF BytesAt
<1>2. QED
  BY <1>1, FS_EmptySet DEF Total

\* An empty queue holds no bytes.
LEMMA TotalEmpty == Total(<<>>) = 0
<1>1. ByteSet(<<>>) = {}
  BY DEF ByteSet
<1>2. QED
  BY <1>1, FS_EmptySet DEF Total

\* A sequence of naturals has a finite domain and a natural total.
LEMMA TotalSeqNat ==
  ASSUME NEW s \in Seq(Nat)
  PROVE  /\ IsFiniteSet(1..Len(s)) /\ s \in [1..Len(s) -> Nat]
         /\ Total(s) \in Nat /\ IsFiniteSet(ByteSet(s))
<1>1. IsFiniteSet(1..Len(s))
  BY FS_Interval
<1>2. s \in [1..Len(s) -> Nat]
  OBVIOUS
<1>3. QED
  BY <1>1, <1>2, ByteSetFinite

\* Appending a frame to a queue adds its bytes.
LEMMA TotalAppend ==
  ASSUME NEW s \in Seq(Nat), NEW n \in Nat
  PROVE  Total(Append(s, n)) = Total(s) + n
<1> DEFINE t == Append(s, n)
           k == Len(s) + 1
<1>1. t \in Seq(Nat) /\ Len(t) = k /\ k \in 1..Len(t) /\ t[k] = n
  OBVIOUS
<1>2. \A i \in 1..Len(s) : t[i] = s[i]
  OBVIOUS
<1>3. Elsewhere(t, k) = ByteSet(s)
  <2>1. \A i \in 1..Len(s) : BytesAt(t, i) = BytesAt(s, i)
    BY <1>2 DEF BytesAt
  <2>2. ASSUME NEW z PROVE z \in Elsewhere(t, k) <=> z \in ByteSet(s)
    <3>1. z \in ByteSet(t) <=> \E i \in 1..Len(t) : z \in BytesAt(t, i)
      BY <1>1, TotalSeqNat, ByteSetMember
    <3>2. z \in ByteSet(s) <=> \E i \in 1..Len(s) : z \in BytesAt(s, i)
      BY TotalSeqNat, ByteSetMember
    <3>3. \A i : z \in BytesAt(t, i) => z[1] = i
      BY DEF BytesAt
    <3>4. \A i : z \in BytesAt(s, i) => z[1] = i
      BY DEF BytesAt
    <3>5. 1..Len(t) = 1..Len(s) \cup {k} /\ k \notin 1..Len(s)
      BY <1>1
    <3> HIDE DEF t, k
    <3>6. QED
      BY <2>1, <3>1, <3>2, <3>3, <3>4, <3>5 DEF Elsewhere
  <2>3. QED
    BY <2>2
<1>4. Total(t) = Cardinality(Elsewhere(t, k)) + t[k]
  <2> HIDE DEF t, k
  <2> QED BY <1>1, TotalSeqNat, TotalSplit
<1>5. QED
  BY <1>1, <1>3, <1>4 DEF Total

\* Taking the first frame from a queue takes its bytes.
LEMMA TotalTail ==
  ASSUME NEW s \in Seq(Nat), s # <<>>
  PROVE  Total(Tail(s)) = Total(s) - Head(s) /\ Head(s) <= Total(s)
<1> DEFINE t == Tail(s)
           shift == [z \in ByteSet(t) |-> <<z[1] + 1, z[2]>>]
<1>1. /\ t \in Seq(Nat) /\ Len(t) = Len(s) - 1 /\ Len(s) \in Nat \ {0}
      /\ s[1] = Head(s) /\ 1 \in 1..Len(s)
  OBVIOUS
<1>2. \A i \in 1..Len(t) : t[i] = s[i + 1]
  OBVIOUS
<1>a. \A z : z \in ByteSet(t) <=> \E i \in 1..Len(t) : z \in BytesAt(t, i)
  BY <1>1, TotalSeqNat, ByteSetMember
<1>b. \A z : z \in ByteSet(s) <=> \E i \in 1..Len(s) : z \in BytesAt(s, i)
  BY TotalSeqNat, ByteSetMember
<1>3. \A i, b : <<i, b>> \in ByteSet(t) <=> i \in 1..Len(t) /\ b \in 1..t[i]
  <2> HIDE DEF t
  <2> QED BY <1>a DEF BytesAt
<1>4. \A i, b : <<i, b>> \in ByteSet(s) <=> i \in 1..Len(s) /\ b \in 1..s[i]
  BY <1>b DEF BytesAt
<1>5. \A z \in ByteSet(t) : z = <<z[1], z[2]>> /\ z[1] \in Nat
  <2> HIDE DEF t
  <2> QED BY <1>a DEF BytesAt
<1>6. \A z \in ByteSet(s) : z = <<z[1], z[2]>> /\ z[1] \in 1..Len(s)
  BY <1>b DEF BytesAt
<1> HIDE DEF t
<1>7. \A z \in ByteSet(t) : shift[z] \in Elsewhere(s, 1)
  <2> SUFFICES ASSUME NEW z \in ByteSet(t)
               PROVE  <<z[1] + 1, z[2]>> \in ByteSet(s) /\ z[1] + 1 # 1
    BY DEF Elsewhere
  <2>1. z[1] \in 1..Len(t) /\ z[2] \in 1..t[z[1]]
    BY <1>3, <1>5
  <2>a. \A i \in 1..Len(t) : i + 1 \in 1..Len(s) /\ i + 1 # 1
    BY <1>1
  <2>2. z[1] + 1 \in 1..Len(s) /\ z[1] + 1 # 1
    BY <2>a, <2>1, Zenon
  <2>3. t[z[1]] = s[z[1] + 1]
    BY <1>2, <2>1
  <2>4. QED
    BY <1>4, <2>1, <2>2, <2>3
<1>8. \A y, z \in ByteSet(t) : shift[y] = shift[z] => y = z
  BY <1>5
<1>9. \A y \in Elsewhere(s, 1) : \E z \in ByteSet(t) : shift[z] = y
  <2> SUFFICES ASSUME NEW y \in Elsewhere(s, 1)
               PROVE  <<y[1] - 1, y[2]>> \in ByteSet(t) /\ <<(y[1] - 1) + 1, y[2]>> = y
    OBVIOUS
  <2>1. y \in ByteSet(s) /\ y[1] # 1
    BY DEF Elsewhere
  <2>2. y = <<y[1], y[2]>> /\ y[1] \in 1..Len(s) /\ y[2] \in 1..s[y[1]]
    BY <2>1, <1>6, <1>4
  <2>3. y[1] - 1 \in 1..Len(t) /\ (y[1] - 1) + 1 = y[1]
    BY <1>1, <2>1, <2>2
  <2>5. t[y[1] - 1] = s[y[1]]
    BY <1>2, <2>3
  <2>4. QED
    BY <1>3, <2>2, <2>3, <2>5
<1>10. shift \in Bijection(ByteSet(t), Elsewhere(s, 1))
  <2>1. shift \in [ByteSet(t) -> Elsewhere(s, 1)]
    BY <1>7
  <2>2. QED
    BY <2>1, <1>8, <1>9, Zenon DEF Bijection, Injection, Surjection, IsInjective
<1>11. Cardinality(ByteSet(t)) = Cardinality(Elsewhere(s, 1))
  <2>1. IsFiniteSet(ByteSet(t))
    BY <1>1, TotalSeqNat
  <2> HIDE DEF shift
  <2>2. ExistsBijection(ByteSet(t), Elsewhere(s, 1))
    BY <1>10 DEF ExistsBijection
  <2>3. QED
    BY <2>1, <2>2, FS_Bijection
<1>12. /\ Total(s) = Cardinality(Elsewhere(s, 1)) + s[1]
       /\ Cardinality(Elsewhere(s, 1)) \in Nat
  BY <1>1, TotalSeqNat, TotalSplit
<1>13. Head(s) \in Nat
  OBVIOUS
<1>14. QED
  BY <1>1, <1>11, <1>12, <1>13 DEF Total, t
=============================================================================
