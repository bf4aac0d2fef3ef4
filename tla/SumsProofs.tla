----------------------------- MODULE SumsProofs -----------------------------
(***************************************************************************)
(* Facts about sums.  Induction over the naturals takes the form of a      *)
(* least counterexample: a non-empty set of naturals has a least element.  *)
(***************************************************************************)
EXTENDS Sums, WellFoundedInduction, SequenceTheorems, TLAPS

(* A non-empty set of naturals has a least element: induction in the form  *)
(* the proofs below use it.                                                *)
LEMMA LeastNatural ==
  ASSUME NEW T, T \subseteq Nat, T # {}
  PROVE  \E x \in T : \A y \in T : x <= y
<1>1. IsWellFoundedOn(OpToRel(<, Nat), Nat)
  BY NatLessThanWellFounded
<1>2. PICK x \in T : \A y \in T : ~ (<<y, x>> \in OpToRel(<, Nat))
  BY <1>1, WFMin
<1>3. \A y \in T : ~ (y < x)
  BY <1>2, Zenon DEF OpToRel
<1> QED
  BY <1>3

(* A non-empty set of naturals with an upper bound has a greatest element. *)
LEMMA GreatestNatural ==
  ASSUME NEW T, NEW n \in Nat, T \subseteq 0..n, T # {}
  PROVE  \E x \in T : \A y \in T : y <= x
<1> DEFINE U == { u \in 0..n : n - u \in T }
<1>1. \A y \in T : n - y \in U
  <2> SUFFICES ASSUME NEW y \in T PROVE n - y \in U
    OBVIOUS
  <2>1. y \in 0..n /\ n - y \in 0..n /\ n - (n - y) = y
    OBVIOUS
  <2> QED
    BY <2>1
<1>2. PICK u \in U : \A v \in U : u <= v
  <2>1. PICK y \in T : TRUE
    OBVIOUS
  <2>2. n - y \in U
    BY <1>1, <2>1
  <2>3. U \subseteq Nat
    OBVIOUS
  <2> HIDE DEF U
  <2>4. U # {}
    BY <2>2
  <2> QED
    BY <2>3, <2>4, LeastNatural
<1>3. \A y \in T : y <= n - u
  BY <1>1, <1>2
<1> QED
  BY <1>2, <1>3

-----------------------------------------------------------------------------
IsPartialSums(p, f, n) == p = [k \in 0..n |-> IF k = 0 THEN 0 ELSE p[k - 1] + f[k]]

(* The recursion of SumTo defines a function.                              *)
LEMMA PartialSumsExist ==
  ASSUME NEW f, NEW n \in Nat
  PROVE  \E p : IsPartialSums(p, f, n)
<1> DEFINE Bad == { m \in Nat : ~ \E p : IsPartialSums(p, f, m) }
<1>1. ASSUME Bad # {} PROVE FALSE
  <2>1. PICK m \in Bad : \A j \in Bad : m <= j
    <3>1. Bad \subseteq Nat
      OBVIOUS
    <3> HIDE DEF Bad
    <3> QED
      BY <1>1, <3>1, LeastNatural
  <2>2. m \in Nat
    BY <2>1
  <2>3. CASE m = 0
    <3> DEFINE p == [k \in 0..0 |-> 0]
    <3>1. IsPartialSums(p, f, 0)
      BY DEF IsPartialSums
    <3> QED
      BY <2>1, <2>3, <3>1
  <2>4. CASE m # 0
    <3>1. m - 1 \in Nat /\ m - 1 \notin Bad
      BY <2>1, <2>4
    <3>2. PICK p : IsPartialSums(p, f, m - 1)
      BY <3>1
    <3> DEFINE q == [k \in 0..m |-> IF k = m THEN p[m - 1] + f[m] ELSE p[k]]
    <3>3. ASSUME NEW k \in 0..m
          PROVE  q[k] = IF k = 0 THEN 0 ELSE q[k - 1] + f[k]
      <4>1. CASE k = m
        BY <2>2, <2>4, <4>1
      <4>2. CASE k # m
        <5>1. k \in 0..(m - 1)
          BY <2>2, <4>2
        <5>2. p[k] = IF k = 0 THEN 0 ELSE p[k - 1] + f[k]
          BY <3>2, <5>1 DEF IsPartialSums
        <5>3. k # 0 => k - 1 \in 0..m /\ k - 1 # m
          BY <2>2, <5>1
        <5> QED
          BY <4>2, <5>2, <5>3
      <4> QED
        BY <4>1, <4>2
    <3>4. IsPartialSums(q, f, m)
      BY <3>3 DEF IsPartialSums
    <3> HIDE DEF q
    <3> QED
      BY <2>1, <3>4
  <2> QED
    BY <2>3, <2>4
<1>2. n \notin Bad
  BY <1>1
<1> QED
  BY <1>2

(* SumTo is the last of a sequence of partial sums.                        *)
LEMMA SumToIsPartialSum ==
  ASSUME NEW f, NEW n \in Nat
  PROVE  \E p : IsPartialSums(p, f, n) /\ SumTo(f, n) = p[n]
<1> DEFINE p == CHOOSE q : q = [k \in 0..n |-> IF k = 0 THEN 0 ELSE q[k - 1] + f[k]]
<1>1. p = [k \in 0..n |-> IF k = 0 THEN 0 ELSE p[k - 1] + f[k]]
  <2>1. \E q : q = [k \in 0..n |-> IF k = 0 THEN 0 ELSE q[k - 1] + f[k]]
    BY PartialSumsExist DEF IsPartialSums
  <2> QED
    BY <2>1
<1>2. SumTo(f, n) = p[n]
  BY DEF SumTo
<1> HIDE DEF p
<1> QED
  BY <1>1, <1>2 DEF IsPartialSums

(* A sum of naturals is a natural.                                         *)
LEMMA SumOfNaturals ==
  ASSUME NEW f, NEW n \in Nat, \A k \in 1..n : f[k] \in Nat
  PROVE  SumTo(f, n) \in Nat
<1>1. PICK p : IsPartialSums(p, f, n) /\ SumTo(f, n) = p[n]
  BY SumToIsPartialSum
<1> DEFINE Bad == { m \in 0..n : p[m] \notin Nat }
<1>2. ASSUME Bad # {} PROVE FALSE
  <2>1. PICK m \in Bad : \A j \in Bad : m <= j
    <3>1. Bad \subseteq Nat
      OBVIOUS
    <3> HIDE DEF Bad
    <3> QED
      BY <1>2, <3>1, LeastNatural
  <2>2. p[m] = IF m = 0 THEN 0 ELSE p[m - 1] + f[m]
    BY <1>1, <2>1 DEF IsPartialSums
  <2>3. m # 0 => m - 1 \in 0..n /\ m - 1 \notin Bad /\ m \in 1..n
    BY <2>1
  <2> QED
    BY <2>1, <2>2, <2>3
<1>3. n \in 0..n /\ n \notin Bad
  BY <1>2
<1> QED
  BY <1>1, <1>3

-----------------------------------------------------------------------------
(* The recursion, without the function of partial sums.                    *)
LEMMA SumToZero ==
  ASSUME NEW f
  PROVE  SumTo(f, 0) = 0
<1>1. PICK p : IsPartialSums(p, f, 0) /\ SumTo(f, 0) = p[0]
  BY SumToIsPartialSum
<1> QED
  BY <1>1 DEF IsPartialSums

LEMMA SumToNext ==
  ASSUME NEW f, NEW n \in Nat
  PROVE  SumTo(f, n + 1) = SumTo(f, n) + f[n + 1]
<1>1. PICK p : IsPartialSums(p, f, n) /\ SumTo(f, n) = p[n]
  BY SumToIsPartialSum
<1>2. n + 1 \in Nat
  OBVIOUS
<1>3. PICK q : IsPartialSums(q, f, n + 1) /\ SumTo(f, n + 1) = q[n + 1]
  BY <1>2, SumToIsPartialSum
<1> DEFINE Bad == { m \in 0..n : p[m] # q[m] }
<1>4. ASSUME Bad # {} PROVE FALSE
  <2>1. PICK m \in Bad : \A j \in Bad : m <= j
    <3>1. Bad \subseteq Nat
      OBVIOUS
    <3> HIDE DEF Bad
    <3> QED
      BY <1>4, <3>1, LeastNatural
  <2>2. p[m] = IF m = 0 THEN 0 ELSE p[m - 1] + f[m]
    BY <1>1, <2>1 DEF IsPartialSums
  <2>3. q[m] = IF m = 0 THEN 0 ELSE q[m - 1] + f[m]
    BY <1>3, <2>1 DEF IsPartialSums
  <2>4. m # 0 => m - 1 \in 0..n /\ m - 1 \notin Bad
    BY <2>1
  <2> QED
    BY <2>1, <2>2, <2>3, <2>4
<1>5. q[n] = p[n]
  BY <1>4
<1>6. q[n + 1] = q[n] + f[n + 1]
  BY <1>3 DEF IsPartialSums
<1> QED
  BY <1>1, <1>3, <1>5, <1>6

LEMMA SumToLast ==
  ASSUME NEW f, NEW n \in Nat \ {0}
  PROVE  SumTo(f, n) = SumTo(f, n - 1) + f[n]
<1>1. n - 1 \in Nat /\ (n - 1) + 1 = n
  OBVIOUS
<1> QED
  BY <1>1, SumToNext

-----------------------------------------------------------------------------
LEMMA SumOfIntegers ==
  ASSUME NEW f, NEW n \in Nat, \A k \in 1..n : f[k] \in Int
  PROVE  SumTo(f, n) \in Int
<1> DEFINE Bad == { m \in 0..n : SumTo(f, m) \notin Int }
<1>1. ASSUME Bad # {} PROVE FALSE
  <2>1. PICK m \in Bad : \A j \in Bad : m <= j
    <3>1. Bad \subseteq Nat
      OBVIOUS
    <3> HIDE DEF Bad
    <3> QED
      BY <1>1, <3>1, LeastNatural
  <2>2. m # 0
    BY <2>1, SumToZero
  <2>3. m \in Nat \ {0} /\ m - 1 \in 0..n /\ m - 1 \notin Bad /\ f[m] \in Int
    BY <2>1, <2>2
  <2>4. SumTo(f, m) = SumTo(f, m - 1) + f[m]
    BY <2>3, SumToLast
  <2> QED
    BY <2>1, <2>3, <2>4
<1> QED
  BY <1>1

(* Only the values on 1..n count.                                          *)
LEMMA SumOfEquals ==
  ASSUME NEW f, NEW g, NEW n \in Nat, \A k \in 1..n : f[k] = g[k]
  PROVE  SumTo(f, n) = SumTo(g, n)
<1> DEFINE Bad == { m \in 0..n : SumTo(f, m) # SumTo(g, m) }
<1>1. ASSUME Bad # {} PROVE FALSE
  <2>1. PICK m \in Bad : \A j \in Bad : m <= j
    <3>1. Bad \subseteq Nat
      OBVIOUS
    <3> HIDE DEF Bad
    <3> QED
      BY <1>1, <3>1, LeastNatural
  <2>2. m # 0
    BY <2>1, SumToZero
  <2>3. m \in Nat \ {0} /\ m - 1 \in 0..n /\ m - 1 \notin Bad /\ f[m] = g[m]
    BY <2>1, <2>2
  <2>4. SumTo(f, m) = SumTo(f, m - 1) + f[m] /\ SumTo(g, m) = SumTo(g, m - 1) + g[m]
    BY <2>3, SumToLast
  <2> QED
    BY <2>1, <2>3, <2>4
<1> QED
  BY <1>1

(* The sum of the sums.                                                    *)
LEMMA SumOfSums ==
  ASSUME NEW f, NEW g, NEW h, NEW n \in Nat,
         \A k \in 1..n : f[k] \in Int /\ g[k] \in Int /\ h[k] = f[k] + g[k]
  PROVE  SumTo(h, n) = SumTo(f, n) + SumTo(g, n)
<1> DEFINE Bad == { m \in 0..n : SumTo(h, m) # SumTo(f, m) + SumTo(g, m) }
<1>1. ASSUME Bad # {} PROVE FALSE
  <2>1. PICK m \in Bad : \A j \in Bad : m <= j
    <3>1. Bad \subseteq Nat
      OBVIOUS
    <3> HIDE DEF Bad
    <3> QED
      BY <1>1, <3>1, LeastNatural
  <2>2. m # 0
    BY <2>1, SumToZero
  <2>3. /\ m \in Nat \ {0} /\ m - 1 \in 0..n /\ m - 1 \in Nat /\ m - 1 \notin Bad
        /\ f[m] \in Int /\ g[m] \in Int /\ h[m] = f[m] + g[m]
    BY <2>1, <2>2
  <2>4. /\ SumTo(f, m) = SumTo(f, m - 1) + f[m]
        /\ SumTo(g, m) = SumTo(g, m - 1) + g[m]
        /\ SumTo(h, m) = SumTo(h, m - 1) + h[m]
    BY <2>3, SumToLast
  <2>5. SumTo(f, m - 1) \in Int /\ SumTo(g, m - 1) \in Int
    BY <2>1, <2>3, SumOfIntegers
  <2>6. SumTo(h, m - 1) = SumTo(f, m - 1) + SumTo(g, m - 1)
    BY <2>3
  <2>7. SumTo(h, m) # SumTo(f, m) + SumTo(g, m)
    BY <2>1
  <2> QED
    BY <2>3, <2>4, <2>5, <2>6, <2>7
<1> QED
  BY <1>1

LEMMA SumOfZeros ==
  ASSUME NEW f, NEW n \in Nat, \A k \in 1..n : f[k] = 0
  PROVE  SumTo(f, n) = 0
<1> DEFINE Bad == { m \in 0..n : SumTo(f, m) # 0 }
<1>1. ASSUME Bad # {} PROVE FALSE
  <2>1. PICK m \in Bad : \A j \in Bad : m <= j
    <3>1. Bad \subseteq Nat
      OBVIOUS
    <3> HIDE DEF Bad
    <3> QED
      BY <1>1, <3>1, LeastNatural
  <2>2. m # 0
    BY <2>1, SumToZero
  <2>3. m \in Nat \ {0} /\ m - 1 \in 0..n /\ m - 1 \notin Bad /\ f[m] = 0
    BY <2>1, <2>2
  <2>4. SumTo(f, m) = SumTo(f, m - 1) + f[m]
    BY <2>3, SumToLast
  <2> QED
    BY <2>1, <2>3, <2>4
<1> QED
  BY <1>1

(* g is f with d more at j: one value changes by d, and so does the sum.   *)
Bumped(f, g, n, j, d) ==
  /\ n \in Nat
  /\ j \in 1..n
  /\ d \in Int
  /\ \A k \in 1..n : f[k] \in Int
  /\ \A k \in 1..n : g[k] = IF k = j THEN f[k] + d ELSE f[k]

LEMMA SumBumped ==
  ASSUME NEW f, NEW g, NEW n, NEW j, NEW d, Bumped(f, g, n, j, d)
  PROVE  SumTo(g, n) = SumTo(f, n) + d
<1> USE DEF Bumped
<1> DEFINE off(m) == IF m < j THEN 0 ELSE d
           Bad == { m \in 0..n : SumTo(g, m) # SumTo(f, m) + off(m) }
<1>1. ASSUME Bad # {} PROVE FALSE
  <2>1. PICK m \in Bad : \A i \in Bad : m <= i
    <3>1. Bad \subseteq Nat
      OBVIOUS
    <3> HIDE DEF Bad
    <3> QED
      BY <1>1, <3>1, LeastNatural
  <2>2. m # 0
    BY <2>1, SumToZero
  <2>3. /\ m \in Nat \ {0} /\ m - 1 \in 0..n /\ m - 1 \in Nat /\ m - 1 \notin Bad
        /\ f[m] \in Int /\ g[m] = IF m = j THEN f[m] + d ELSE f[m]
    BY <2>1, <2>2
  <2>4. /\ SumTo(f, m) = SumTo(f, m - 1) + f[m]
        /\ SumTo(g, m) = SumTo(g, m - 1) + g[m]
    BY <2>3, SumToLast
  <2>5. SumTo(f, m - 1) \in Int
    BY <2>1, <2>3, SumOfIntegers
  <2>6. SumTo(g, m - 1) = SumTo(f, m - 1) + off(m - 1)
    BY <2>3
  <2>7. SumTo(g, m) # SumTo(f, m) + off(m)
    BY <2>1
  <2> QED
    BY <2>3, <2>4, <2>5, <2>6, <2>7
<1>2. SumTo(g, n) = SumTo(f, n) + off(n) /\ off(n) = d
  BY <1>1
<1> QED
  BY <1>2

LEMMA SumUpdated ==
  ASSUME NEW f, NEW g, NEW n \in Nat, NEW j \in 1..n, NEW d \in Int,
         \A k \in 1..n : f[k] \in Int,
         \A k \in 1..n : g[k] = IF k = j THEN f[k] + d ELSE f[k]
  PROVE  SumTo(g, n) = SumTo(f, n) + d
<1>1. Bumped(f, g, n, j, d)
  BY DEF Bumped
<1> QED
  BY ONLY <1>1, SumBumped

(* What comes after m adds nothing.                                        *)
LEMMA SumEndsAt ==
  ASSUME NEW f, NEW n \in Nat, NEW m \in 0..n,
         \A k \in 1..m : f[k] \in Int, \A k \in (m + 1)..n : f[k] = 0
  PROVE  SumTo(f, n) = SumTo(f, m)
<1>1. m \in Nat
  OBVIOUS
<1>2. SumTo(f, m) \in Int
  BY <1>1, SumOfIntegers
<1> DEFINE Bad == { l \in m..n : SumTo(f, l) # SumTo(f, m) }
<1>3. ASSUME Bad # {} PROVE FALSE
  <2>1. PICK l \in Bad : \A i \in Bad : l <= i
    <3>1. Bad \subseteq Nat
      OBVIOUS
    <3> HIDE DEF Bad
    <3> QED
      BY <1>3, <3>1, LeastNatural
  <2>2. l # m
    BY <2>1
  <2>3. l \in Nat \ {0} /\ l - 1 \in m..n /\ l - 1 \notin Bad /\ f[l] = 0
    BY <2>1, <2>2
  <2>4. SumTo(f, l) = SumTo(f, l - 1) + f[l]
    BY <2>3, SumToLast
  <2> QED
    BY <1>2, <2>1, <2>3, <2>4
<1> QED
  BY <1>3

(* A sum of naturals is at least each of them.                             *)
LEMMA SumCovers ==
  ASSUME NEW f, NEW n \in Nat, NEW j \in 1..n, \A k \in 1..n : f[k] \in Nat
  PROVE  f[j] <= SumTo(f, n)
<1> DEFINE g == [k \in 1..n |-> IF k = j THEN 0 ELSE f[k]]
<1>1. \A k \in 1..n : g[k] \in Nat /\ g[k] \in Int
  OBVIOUS
<1>2. \A k \in 1..n : f[k] = IF k = j THEN g[k] + f[j] ELSE g[k]
  OBVIOUS
<1>3. SumTo(g, n) \in Nat /\ f[j] \in Nat /\ f[j] \in Int
  BY <1>1, SumOfNaturals
<1> HIDE DEF g
<1>4. ASSUME NEW d \in Int, d = f[j] PROVE SumTo(f, n) = SumTo(g, n) + d
  <2>1. \A k \in 1..n : f[k] = IF k = j THEN g[k] + d ELSE g[k]
    BY <1>2, <1>4
  <2>2. Bumped(g, f, n, j, d)
    BY <1>1, <2>1 DEF Bumped
  <2> QED
    BY ONLY <2>2, SumBumped
<1>5. SumTo(f, n) = SumTo(g, n) + f[j]
  BY <1>3, <1>4
<1> QED
  BY <1>3, <1>5

LEMMA SumMonotone ==
  ASSUME NEW f, NEW g, NEW n \in Nat,
         \A k \in 1..n : f[k] \in Int /\ g[k] \in Int /\ f[k] <= g[k]
  PROVE  SumTo(f, n) <= SumTo(g, n)
<1> DEFINE d == [k \in 1..n |-> g[k] - f[k]]
<1>1. \A k \in 1..n : d[k] \in Nat /\ d[k] \in Int /\ g[k] = f[k] + d[k]
  OBVIOUS
<1> HIDE DEF d
<1>2. SumTo(d, n) \in Nat /\ SumTo(f, n) \in Int
  BY <1>1, SumOfNaturals, SumOfIntegers
<1>3. SumTo(g, n) = SumTo(f, n) + SumTo(d, n)
  BY <1>1, SumOfSums
<1> QED
  BY <1>2, <1>3

-----------------------------------------------------------------------------
(* Sums along a sequence of S, of weights W in [S -> Int].                 *)
SumSeq(W, s) == SumTo([k \in 1..Len(s) |-> W[s[k]]], Len(s))

LEMMA SumSeqInteger ==
  ASSUME NEW S, NEW W \in [S -> Int], NEW s \in Seq(S)
  PROVE  SumSeq(W, s) \in Int
<1> DEFINE f == [k \in 1..Len(s) |-> W[s[k]]]
<1>1. Len(s) \in Nat
  BY LenProperties
<1>2. \A k \in 1..Len(s) : f[k] \in Int
  BY ElementOfSeq
<1> HIDE DEF f
<1>3. SumTo(f, Len(s)) \in Int
  BY <1>1, <1>2, SumOfIntegers
<1> QED
  BY <1>3 DEF SumSeq, f

LEMMA SumSeqNatural ==
  ASSUME NEW S, NEW W \in [S -> Nat], NEW s \in Seq(S)
  PROVE  SumSeq(W, s) \in Nat
<1> DEFINE f == [k \in 1..Len(s) |-> W[s[k]]]
<1>1. Len(s) \in Nat
  BY LenProperties
<1>2. \A k \in 1..Len(s) : f[k] \in Nat
  BY ElementOfSeq
<1> HIDE DEF f
<1>3. SumTo(f, Len(s)) \in Nat
  BY <1>1, <1>2, SumOfNaturals
<1> QED
  BY <1>3 DEF SumSeq, f

LEMMA SumSeqAppend ==
  ASSUME NEW S, NEW W \in [S -> Int], NEW s \in Seq(S), NEW x \in S
  PROVE  SumSeq(W, Append(s, x)) = SumSeq(W, s) + W[x]
<1> DEFINE n == Len(s)
           t == Append(s, x)
           f == [k \in 1..n |-> W[s[k]]]
           g == [k \in 1..Len(t) |-> W[t[k]]]
<1>1. /\ n \in Nat
      /\ Len(t) = n + 1
      /\ t[n + 1] = x
      /\ \A k \in 1..n : t[k] = s[k]
  BY AppendProperties, LenProperties
<1> HIDE DEF n, t
<1>2. \A k \in 1..n : f[k] = g[k]
  BY <1>1
<1>3. g[n + 1] = W[x]
  BY <1>1
<1> HIDE DEF f, g
<1>4. SumTo(f, n) = SumTo(g, n)
  BY <1>1, <1>2, SumOfEquals
<1>5. SumTo(g, n + 1) = SumTo(g, n) + g[n + 1]
  BY <1>1, SumToNext
<1>6. SumTo(g, Len(t)) = SumTo(f, n) + W[x]
  BY <1>1, <1>3, <1>4, <1>5
<1> QED
  BY <1>6 DEF SumSeq, f, g, n, t

(* t is s with x at i: [s EXCEPT ![i] = x], as a relation.                 *)
IsReplaced(s, i, x, t) ==
  /\ Len(t) = Len(s)
  /\ \A k \in 1..Len(s) : t[k] = IF k = i THEN x ELSE s[k]

LEMMA SumSeqReplace ==
  ASSUME NEW S, NEW W \in [S -> Int], NEW s \in Seq(S), NEW i \in 1..Len(s), NEW x \in S,
         NEW t, IsReplaced(s, i, x, t)
  PROVE  SumSeq(W, t) = SumSeq(W, s) + (W[x] - W[s[i]])
<1> DEFINE n == Len(s)
           f == [k \in 1..n |-> W[s[k]]]
           g == [k \in 1..n |-> W[t[k]]]
           d == W[x] - W[s[i]]
<1>1. /\ n \in Nat
      /\ \A k \in 1..n : s[k] \in S
  BY LenProperties, ElementOfSeq
<1>2. d \in Int
  BY <1>1
<1>3. \A k \in 1..n : f[k] \in Int /\ g[k] = IF k = i THEN f[k] + d ELSE f[k]
  BY <1>1 DEF IsReplaced
<1>4. SumSeq(W, t) = SumTo(g, n) /\ SumSeq(W, s) = SumTo(f, n)
  BY DEF SumSeq, IsReplaced
<1>5. i \in 1..n
  OBVIOUS
<1> HIDE DEF f, g, d, n
<1>6. Bumped(f, g, n, i, d)
  BY <1>1, <1>2, <1>3, <1>5 DEF Bumped
<1>7. SumTo(g, n) = SumTo(f, n) + d
  BY ONLY <1>6, SumBumped
<1> QED
  BY <1>4, <1>7 DEF d

LEMMA SumSeqCovers ==
  ASSUME NEW S, NEW W \in [S -> Nat], NEW s \in Seq(S), NEW j \in 1..Len(s)
  PROVE  W[s[j]] <= SumSeq(W, s)
<1> DEFINE f == [k \in 1..Len(s) |-> W[s[k]]]
<1>1. Len(s) \in Nat
  BY LenProperties
<1>2. \A k \in 1..Len(s) : f[k] \in Nat
  BY ElementOfSeq
<1>3. f[j] = W[s[j]]
  OBVIOUS
<1> HIDE DEF f
<1>4. f[j] <= SumTo(f, Len(s))
  BY <1>1, <1>2, SumCovers
<1> QED
  BY <1>3, <1>4 DEF SumSeq, f

LEMMA SumSeqZero ==
  ASSUME NEW S, NEW W \in [S -> Nat], NEW s \in Seq(S), \A k \in 1..Len(s) : W[s[k]] = 0
  PROVE  SumSeq(W, s) = 0
<1> DEFINE f == [k \in 1..Len(s) |-> W[s[k]]]
<1>1. Len(s) \in Nat
  BY LenProperties
<1>2. \A k \in 1..Len(s) : f[k] = 0
  OBVIOUS
<1> HIDE DEF f
<1>3. SumTo(f, Len(s)) = 0
  BY <1>1, <1>2, SumOfZeros
<1> QED
  BY <1>3 DEF SumSeq, f
=============================================================================
