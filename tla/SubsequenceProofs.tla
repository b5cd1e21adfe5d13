------------------------- MODULE SubsequenceProofs -------------------------
(***************************************************************************)
(* Induction on numbers, and what Among keeps of a sequence.               *)
(***************************************************************************)
EXTENDS Subsequences, Integers, FiniteSets, FiniteSetTheorems, SequenceTheorems,
        WellFoundedInduction, TLAPS

(***************************************************************************)
(* Induction, over a set of numbers.                                       *)
(***************************************************************************)

\* Every set of numbers that is not empty has a least one.
LEMMA Least ==
    ASSUME NEW T, T \subseteq Nat, T # {}
    PROVE  \E m \in T : \A k \in T : m <= k
<1> DEFINE up == {0..n : n \in T}
<1>1. IsWellFoundedOn(StrictSubsetOrdering(Nat), FiniteSubsetsOf(Nat))
  BY FS_StrictSubsetOrderingWellFounded
<1>2. up \subseteq FiniteSubsetsOf(Nat) /\ up # {}
  <2>1. \A n \in T : IsFiniteSet(0..n)
    BY FS_Interval
  <2>2. \A n \in T : 0..n \in SUBSET Nat
    OBVIOUS
  <2>3. up # {}
    OBVIOUS
  <2> QED BY <2>1, <2>2, <2>3 DEF FiniteSubsetsOf
<1> HIDE DEF up
<1>3. PICK x \in up : \A y \in up : <<y, x>> \notin StrictSubsetOrdering(Nat)
  BY <1>1, <1>2, WFMin
<1>4. PICK m \in T : x = 0..m
  BY DEF up
<1>5. ASSUME NEW k \in T, k < m PROVE FALSE
  <2>1. 0..k \in up /\ 0..k \in SUBSET Nat /\ x \in SUBSET Nat
    BY <1>4 DEF up
  <2>2. 0..k \subseteq x /\ 0..k # x
    BY <1>4, <1>5
  <2>3. <<0..k, x>> \in StrictSubsetOrdering(Nat)
    BY <2>1, <2>2 DEF StrictSubsetOrdering
  <2> QED BY <2>1, <2>3, <1>3
<1> QED BY <1>5

\* A set of numbers that has 0 and every successor of its members has them all.
LEMMA Induct ==
    ASSUME NEW T, 0 \in T, \A n \in Nat : n \in T => n + 1 \in T
    PROVE  \A n \in Nat : n \in T
<1> SUFFICES ASSUME Nat \ T # {} PROVE FALSE
  OBVIOUS
<1>1. PICK m \in Nat \ T : \A k \in Nat \ T : m <= k
  <2>1. Nat \ T \subseteq Nat
    OBVIOUS
  <2> QED BY <2>1, Least
<1>2. m # 0 /\ m - 1 \in Nat /\ m - 1 \in T
  BY <1>1
<1> QED BY <1>2

(***************************************************************************)

\* What one more member makes of what was kept.
Kept(s, T, f, i) == IF i = 0 THEN << >> ELSE IF s[i] \in T THEN Append(f[i - 1], s[i]) ELSE f[i - 1]

\* For every prefix of a sequence, what is kept of it and of the shorter ones.
LEMMA KeptExists ==
    ASSUME NEW s, NEW T
    PROVE  \A n \in Nat : \E f : f = [i \in 0..n |-> Kept(s, T, f, i)]
<1> DEFINE P == {n \in Nat : \E f : f = [i \in 0..n |-> Kept(s, T, f, i)]}
<1>1. 0 \in P
  <2> DEFINE f == [i \in 0..0 |-> << >>]
  <2>1. f = [i \in 0..0 |-> Kept(s, T, f, i)]
    BY DEF Kept
  <2> QED BY <2>1
<1>2. ASSUME NEW n \in Nat, n \in P PROVE n + 1 \in P
  <2>1. PICK f : f = [i \in 0..n |-> Kept(s, T, f, i)]
    BY <1>2
  <2> DEFINE g == [i \in 0..n + 1 |-> IF i <= n THEN f[i] ELSE IF s[n + 1] \in T THEN Append(f[n], s[n + 1]) ELSE f[n]]
  <2>2. ASSUME NEW i \in 0..n + 1 PROVE g[i] = Kept(s, T, g, i)
    <3>1. CASE i = 0
      BY <3>1, <2>1 DEF Kept
    <3>2. CASE i # 0 /\ i <= n
      <4>1. g[i] = f[i] /\ g[i - 1] = f[i - 1]
        BY <3>2
      <4>2. f[i] = Kept(s, T, f, i)
        BY <2>1, <3>2
      <4> QED BY <4>1, <4>2, <3>2 DEF Kept
    <3>3. CASE i = n + 1
      BY <3>3 DEF Kept
    <3> QED BY <3>1, <3>2, <3>3
  <2>3. g = [i \in 0..n + 1 |-> Kept(s, T, g, i)]
    BY <2>2, Zenon
  <2>4. n + 1 \in Nat
    OBVIOUS
  <2> HIDE DEF g
  <2> QED BY <2>3, <2>4, Zenon
<1>3. \A n \in Nat : n \in P
  <2> HIDE DEF P
  <2> QED BY <1>1, <1>2, Induct
<1> QED BY <1>3

\* AmongFirst is what its definition says.
LEMMA AmongFirstUnfolds ==
    ASSUME NEW B, NEW s \in Seq(B), NEW T
    PROVE  /\ AmongFirst(s, T)[0] = << >>
           /\ \A i \in 1..Len(s) : AmongFirst(s, T)[i] =
                  IF s[i] \in T THEN Append(AmongFirst(s, T)[i - 1], s[i]) ELSE AmongFirst(s, T)[i - 1]
<1>1. PICK f : f = [i \in 0..Len(s) |-> Kept(s, T, f, i)]
  <2>1. Len(s) \in Nat
    OBVIOUS
  <2> QED BY <2>1, KeptExists, Zenon
<1>2. AmongFirst(s, T) = [i \in 0..Len(s) |-> Kept(s, T, AmongFirst(s, T), i)]
  BY <1>1 DEF AmongFirst, Kept
<1>3. \A i \in 0..Len(s) : AmongFirst(s, T)[i] = Kept(s, T, AmongFirst(s, T), i)
  BY <1>2, Zenon
<1>4. 0 \in 0..Len(s) /\ \A i \in 1..Len(s) : i \in 0..Len(s) /\ i # 0
  OBVIOUS
<1> QED BY <1>3, <1>4 DEF Kept

\* A keeps the members of s that belong to T among the first n, in their order.
KeptOf(A, s, T, n) ==
    /\ \A k \in DOMAIN A : \E j \in 1..n : A[k] = s[j] /\ s[j] \in T
    /\ \A j \in 1..n : s[j] \in T => \E k \in DOMAIN A : A[k] = s[j]
    /\ \A k, l \in DOMAIN A : k < l => \E j, m \in 1..n : j < m /\ A[k] = s[j] /\ A[l] = s[m]

\* One more member that belongs.
LEMMA KeptAppend ==
    ASSUME NEW B, NEW s \in Seq(B), NEW T, NEW n \in Nat, n + 1 \in 1..Len(s),
           NEW A \in Seq(B), KeptOf(A, s, T, n), s[n + 1] \in T
    PROVE  Append(A, s[n + 1]) \in Seq(B) /\ KeptOf(Append(A, s[n + 1]), s, T, n + 1)
<1> DEFINE C == Append(A, s[n + 1])
<1>1. /\ C \in Seq(B) /\ DOMAIN C = 1..Len(A) + 1 /\ DOMAIN A = 1..Len(A) /\ Len(A) \in Nat
      /\ C[Len(A) + 1] = s[n + 1] /\ \A k \in 1..Len(A) : C[k] = A[k]
  <2>1. s[n + 1] \in B
    OBVIOUS
  <2> QED BY <2>1
<1> HIDE DEF C
<1>2. 1..n \subseteq 1..n + 1 /\ n + 1 \in 1..n + 1 /\ \A j \in 1..n : j < n + 1
  OBVIOUS
<1>3. \A k \in 1..Len(A) + 1 : k \in 1..Len(A) \/ k = Len(A) + 1
  BY <1>1
<1>4. ASSUME NEW k \in DOMAIN C PROVE \E j \in 1..n + 1 : C[k] = s[j] /\ s[j] \in T
  <2>1. CASE k \in 1..Len(A)
    <3>1. PICK j \in 1..n : A[k] = s[j] /\ s[j] \in T
      BY <2>1, <1>1 DEF KeptOf
    <3> QED BY <3>1, <2>1, <1>1, <1>2
  <2>2. CASE k = Len(A) + 1
    <3>1. n + 1 \in 1..n + 1 /\ C[k] = s[n + 1] /\ s[n + 1] \in T
      BY <2>2, <1>1, <1>2
    <3> QED BY <3>1, Zenon
  <2> QED BY <2>1, <2>2, <1>1, <1>3
<1>5. ASSUME NEW j \in 1..n + 1, s[j] \in T PROVE \E k \in DOMAIN C : C[k] = s[j]
  <2>1. CASE j \in 1..n
    <3>1. PICK k \in DOMAIN A : A[k] = s[j]
      BY <2>1, <1>5 DEF KeptOf
    <3>2. k \in DOMAIN C /\ C[k] = s[j]
      BY <3>1, <1>1
    <3> QED BY <3>2
  <2>2. CASE j = n + 1
    <3>1. Len(A) + 1 \in DOMAIN C /\ C[Len(A) + 1] = s[j]
      BY <2>2, <1>1
    <3> QED BY <3>1, Zenon
  <2> QED BY <2>1, <2>2
<1>6. ASSUME NEW k \in DOMAIN C, NEW l \in DOMAIN C, k < l
      PROVE  \E j, m \in 1..n + 1 : j < m /\ C[k] = s[j] /\ C[l] = s[m]
  <2>1. k \in 1..Len(A)
    BY <1>6, <1>1
  <2>2. CASE l \in 1..Len(A)
    <3>1. PICK j \in 1..n, m \in 1..n : j < m /\ A[k] = s[j] /\ A[l] = s[m]
      BY <2>1, <2>2, <1>1, <1>6 DEF KeptOf
    <3>2. j \in 1..n + 1 /\ m \in 1..n + 1 /\ j < m /\ C[k] = s[j] /\ C[l] = s[m]
      BY <3>1, <2>1, <2>2, <1>1, <1>2
    <3> QED BY <3>2, Zenon
  <2>3. CASE l = Len(A) + 1
    <3>1. PICK j \in 1..n : A[k] = s[j]
      BY <2>1, <1>1 DEF KeptOf
    <3>2. j \in 1..n + 1 /\ j < n + 1 /\ C[k] = s[j] /\ C[l] = s[n + 1]
      BY <3>1, <2>1, <2>3, <1>1, <1>2
    <3> QED BY <3>2, <1>2, Zenon
  <2> QED BY <2>2, <2>3, <1>1, <1>3
<1>7. C \in Seq(B) /\ KeptOf(C, s, T, n + 1)
  BY <1>1, <1>4, <1>5, <1>6, Zenon DEF KeptOf
<1> QED BY <1>7 DEF C

\* One more member that does not.
LEMMA KeptSkip ==
    ASSUME NEW s, NEW T, NEW n \in Nat, NEW A, KeptOf(A, s, T, n), s[n + 1] \notin T
    PROVE  KeptOf(A, s, T, n + 1)
<1>1. 1..n \subseteq 1..n + 1 /\ \A j \in 1..n + 1 : j \in 1..n \/ j = n + 1
  OBVIOUS
<1>2. \A k \in DOMAIN A : \E j \in 1..n + 1 : A[k] = s[j] /\ s[j] \in T
  BY <1>1, Zenon DEF KeptOf
<1>3. \A j \in 1..n + 1 : s[j] \in T => \E k \in DOMAIN A : A[k] = s[j]
  BY <1>1, Zenon DEF KeptOf
<1>4. ASSUME NEW k \in DOMAIN A, NEW l \in DOMAIN A, k < l
      PROVE  \E j, m \in 1..n + 1 : j < m /\ A[k] = s[j] /\ A[l] = s[m]
  <2>1. PICK j \in 1..n, m \in 1..n : j < m /\ A[k] = s[j] /\ A[l] = s[m]
    BY <1>4, Zenon DEF KeptOf
  <2> QED BY <2>1, <1>1, Zenon
<1> QED BY <1>2, <1>3, <1>4, Zenon DEF KeptOf

\* Among keeps what its name says, and so it does for every prefix.
LEMMA AmongFirstKeeps ==
    ASSUME NEW B, NEW s \in Seq(B), NEW T
    PROVE  \A n \in 0..Len(s) : AmongFirst(s, T)[n] \in Seq(B) /\ KeptOf(AmongFirst(s, T)[n], s, T, n)
<1> DEFINE a == AmongFirst(s, T)
           P == {n \in Nat : n <= Len(s) => a[n] \in Seq(B) /\ KeptOf(a[n], s, T, n)}
<1>1. a[0] = << >> /\ \A i \in 1..Len(s) : a[i] = IF s[i] \in T THEN Append(a[i - 1], s[i]) ELSE a[i - 1]
  BY AmongFirstUnfolds
<1> HIDE DEF a
<1>2. 0 \in P
  <2>1. << >> \in Seq(B) /\ KeptOf(<< >>, s, T, 0)
    BY DEF KeptOf
  <2> QED BY <2>1, <1>1
<1>3. ASSUME NEW n \in Nat, n \in P PROVE n + 1 \in P
  <2> SUFFICES ASSUME n + 1 <= Len(s) PROVE a[n + 1] \in Seq(B) /\ KeptOf(a[n + 1], s, T, n + 1)
    OBVIOUS
  <2>1. n + 1 \in 1..Len(s) /\ n <= Len(s) /\ (n + 1) - 1 = n
    OBVIOUS
  <2>2. a[n] \in Seq(B) /\ KeptOf(a[n], s, T, n)
    BY <1>3, <2>1
  <2>3. a[n + 1] = IF s[n + 1] \in T THEN Append(a[n], s[n + 1]) ELSE a[n]
    BY <1>1, <2>1
  <2>4. CASE s[n + 1] \in T
    <3>1. a[n + 1] = Append(a[n], s[n + 1])
      BY <2>3, <2>4
    <3> QED BY <2>1, <2>2, <2>4, <3>1, KeptAppend
  <2>5. CASE s[n + 1] \notin T
    BY <2>1, <2>2, <2>3, <2>5, KeptSkip, Zenon
  <2> QED BY <2>4, <2>5
<1>4. \A n \in Nat : n \in P
  <2> HIDE DEF P
  <2> QED BY <1>2, <1>3, Induct
<1> QED BY <1>4 DEF a

\* The sequence Among yields: its members are those of s that belong to T, in
\* the order they have in s.
LEMMA AmongKeeps ==
    ASSUME NEW B, NEW s \in Seq(B), NEW T
    PROVE  Among(s, T) \in Seq(B) /\ KeptOf(Among(s, T), s, T, Len(s))
<1>1. Len(s) \in 0..Len(s)
  OBVIOUS
<1> QED BY <1>1, AmongFirstKeeps, Zenon DEF Among

\* Every set of numbers up to a bound that is not empty has a greatest one.
LEMMA Greatest ==
    ASSUME NEW n \in Nat, NEW T, T \subseteq 0..n, T # {}
    PROVE  \E m \in T : \A k \in T : k <= m
<1> DEFINE U == {n - k : k \in T}
<1>1. U \subseteq Nat
  OBVIOUS
<1>2. U # {}
  OBVIOUS
<1>3. PICK u \in U : \A v \in U : u <= v
  <2> HIDE DEF U
  <2> QED BY <1>1, <1>2, Least
<1>4. PICK m \in T : u = n - m
  OBVIOUS
<1>5. ASSUME NEW k \in T PROVE k <= m
  <2>1. n - k \in U
    OBVIOUS
  <2>2. u <= n - k
    BY <2>1, <1>3
  <2> QED BY <2>2, <1>4
<1> QED BY <1>5

\* What is kept of a prefix does not depend on what follows.
LEMMA AmongPrefix ==
    ASSUME NEW B, NEW s \in Seq(B), NEW T, NEW n \in 0..Len(s)
    PROVE  Among(SubSeq(s, 1, n), T) = AmongFirst(s, T)[n]
<1> DEFINE p == SubSeq(s, 1, n)
           a == AmongFirst(s, T)
           c == AmongFirst(p, T)
           P == {i \in Nat : i <= n => c[i] = a[i]}
<1>1. p \in Seq(B) /\ Len(p) = n /\ \A i \in 1..n : p[i] = s[i]
  BY SubSeqProperties
<1>2. a[0] = << >> /\ \A i \in 1..Len(s) : a[i] = IF s[i] \in T THEN Append(a[i - 1], s[i]) ELSE a[i - 1]
  BY AmongFirstUnfolds
<1> HIDE DEF p, a
<1>3. c[0] = << >> /\ \A i \in 1..n : c[i] = IF p[i] \in T THEN Append(c[i - 1], p[i]) ELSE c[i - 1]
  BY <1>1, AmongFirstUnfolds
<1> HIDE DEF c
<1>4. 0 \in P
  BY <1>2, <1>3
<1>5. ASSUME NEW i \in Nat, i \in P PROVE i + 1 \in P
  <2> SUFFICES ASSUME i + 1 <= n PROVE c[i + 1] = a[i + 1]
    OBVIOUS
  <2>1. i + 1 \in 1..n /\ i + 1 \in 1..Len(s) /\ (i + 1) - 1 = i /\ c[i] = a[i] /\ p[i + 1] = s[i + 1]
    BY <1>1, <1>5
  <2>2. a[i + 1] = IF s[i + 1] \in T THEN Append(a[i], s[i + 1]) ELSE a[i]
    BY <2>1, <1>2
  <2>3. c[i + 1] = IF p[i + 1] \in T THEN Append(c[i], p[i + 1]) ELSE c[i]
    BY <2>1, <1>3
  <2> QED BY <2>1, <2>2, <2>3
<1>6. \A i \in Nat : i \in P
  <2> HIDE DEF P
  <2> QED BY <1>4, <1>5, Induct
<1>7. c[n] = a[n] /\ Len(p) = n
  BY <1>1, <1>6
<1> QED BY <1>7 DEF Among, p, a, c
=============================================================================
