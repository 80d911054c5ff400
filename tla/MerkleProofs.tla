---------------------------- MODULE MerkleProofs ----------------------------
(***************************************************************************)
(* Proofs about module Merkle, for trees of any size.  What a recursive        *)
(* function computes is proved by induction on a set of numbers: the smallest   *)
(* number outside it would be in it.                                          *)
(***************************************************************************)
EXTENDS Merkle, WellFoundedInduction, SequenceTheorems, TLAPS

-----------------------------------------------------------------------------
(* Induction and recursion *)

\* A set with every number whose predecessors it has is that of all numbers.
LEMMA Induction ==
  ASSUME NEW S, \A n \in Nat : (\A k \in Nat : k < n => k \in S) => n \in S
  PROVE  \A n \in Nat : n \in S
<1> DEFINE Out == {n \in Nat : n \notin S}
<1> SUFFICES ASSUME NEW n \in Nat, n \notin S PROVE FALSE
  OBVIOUS
<1>1. n \in Out
  OBVIOUS
<1>2. Out \subseteq Nat /\ Out # {}
  BY <1>1
<1>3. PICK least \in Out : \A k \in Out : ~ (<<k, least>> \in OpToRel(<, Nat))
  <2> HIDE DEF Out
  <2> QED BY <1>2, NatLessThanWellFounded, WFMin
<1>4. \A k \in Nat : k < least => k \in S
  <2> SUFFICES ASSUME NEW k \in Nat, k < least, k \notin S PROVE FALSE
    OBVIOUS
  <2>1. k \in Out /\ least \in Nat
    OBVIOUS
  <2>2. <<k, least>> \in OpToRel(<, Nat)
    BY <2>1 DEF OpToRel
  <2> QED BY <1>3, <2>1, <2>2
<1> QED BY <1>4

\* A step from functions to functions that defines its result at every point from
\* the values at points of a smaller measure.
Recursive(S, H, mu, D) ==
  /\ H # {} /\ mu \in [S -> Nat] /\ D \in [[S -> H] -> [S -> H]]
  /\ \A f, g \in [S -> H] : \A x \in S :
       (\A y \in S : mu[y] < mu[x] => f[y] = g[y]) => D[f][x] = D[g][x]

\* Some function satisfies a recursive definition.
LEMMA RecursionExists ==
  ASSUME NEW S, NEW H, NEW mu, NEW D, Recursive(S, H, mu, D)
  PROVE  \E f \in [S -> H] : f = D[f]
<1> USE DEF Recursive
<1> DEFINE Good(n, f) == \A x \in S : mu[x] < n => f[x] = D[f][x]
           Reached == {n \in Nat : \E f \in [S -> H] : Good(n, f)}
<1>1. ASSUME NEW n \in Nat, \A j \in Nat : j < n => j \in Reached
      PROVE  n \in Reached
  <2>1. CASE n = 0
    <3>1. PICK h \in H : TRUE
      OBVIOUS
    <3>2. [x \in S |-> h] \in [S -> H]
      OBVIOUS
    <3>3. Good(n, [x \in S |-> h])
      BY <2>1
    <3> QED BY <3>2, <3>3
  <2>2. CASE n # 0
    <3>1. n - 1 \in Nat /\ n - 1 < n
      BY <2>2
    <3>2. n - 1 \in Reached
      BY <1>1, <3>1
    <3>3. PICK f \in [S -> H] : Good(n - 1, f)
      BY <3>2
    <3>4. D[f] \in [S -> H]
      OBVIOUS
    <3>5. Good(n, D[f])
      <4> SUFFICES ASSUME NEW x \in S, mu[x] < n PROVE D[f][x] = D[D[f]][x]
        OBVIOUS
      <4>1. \A y \in S : mu[y] < mu[x] => f[y] = D[f][y]
        <5> SUFFICES ASSUME NEW y \in S, mu[y] < mu[x] PROVE f[y] = D[f][y]
          OBVIOUS
        <5>1. mu[y] < n - 1
          BY <3>1
        <5> QED BY <3>3, <5>1
      <4> QED BY <3>4, <4>1
    <3> HIDE DEF Good
    <3> QED BY <3>4, <3>5
  <2> QED BY <2>1, <2>2
<1>2. \A n \in Nat : n \in Reached
  <2> HIDE DEF Reached
  <2> QED BY <1>1, Induction
<1> DEFINE Upto(n) == CHOOSE f \in [S -> H] : Good(n, f)
           F == [x \in S |-> Upto(mu[x] + 1)[x]]
<1>3. \A n \in Nat : Upto(n) \in [S -> H] /\ Good(n, Upto(n))
  <2> SUFFICES ASSUME NEW n \in Nat PROVE Upto(n) \in [S -> H] /\ Good(n, Upto(n))
    OBVIOUS
  <2>1. \E f \in [S -> H] : Good(n, f)
    BY <1>2
  <2> HIDE DEF Good
  <2> QED BY <2>1
<1> HIDE DEF Upto
<1>0. ASSUME NEW f \in [S -> H], NEW g \in [S -> H], NEW n \in Nat,
             \A x \in S : mu[x] < n => f[x] = D[f][x] /\ g[x] = D[g][x]
      PROVE  \A x \in S : mu[x] < n => f[x] = g[x]
  <2> HIDE DEF Reached
  <2> DEFINE Same == {k \in Nat : \A x \in S : mu[x] = k /\ k < n => f[x] = g[x]}
  <2>1. ASSUME NEW k \in Nat, \A j \in Nat : j < k => j \in Same
        PROVE  k \in Same
    <3> SUFFICES ASSUME NEW x \in S, mu[x] = k, k < n PROVE f[x] = g[x]
      OBVIOUS
    <3>1. \A y \in S : mu[y] < mu[x] => f[y] = g[y]
      <4> SUFFICES ASSUME NEW y \in S, mu[y] < mu[x] PROVE f[y] = g[y]
        OBVIOUS
      <4>1. mu[y] \in Nat /\ mu[y] < k /\ mu[y] < n
        OBVIOUS
      <4>2. mu[y] \in Same
        BY <2>1, <4>1
      <4> QED BY <4>1, <4>2
    <3>2. D[f][x] = D[g][x]
      BY <3>1
    <3>3. f[x] = D[f][x] /\ g[x] = D[g][x]
      BY <1>0
    <3> QED BY <3>2, <3>3
  <2>2. \A k \in Nat : k \in Same
    <3> HIDE DEF Same
    <3> QED BY <2>1, Induction
  <2> QED
    <3> SUFFICES ASSUME NEW x \in S, mu[x] < n PROVE f[x] = g[x]
      OBVIOUS
    <3>1. mu[x] \in Same
      BY <2>2
    <3> QED BY <3>1
<1>4. F \in [S -> H]
  <2> SUFFICES ASSUME NEW x \in S PROVE Upto(mu[x] + 1)[x] \in H
    OBVIOUS
  <2>1. mu[x] + 1 \in Nat
    OBVIOUS
  <2> QED BY <1>3, <2>1
<1>5. ASSUME NEW x \in S
      PROVE  F[x] = D[F][x]
  <2> DEFINE n == mu[x] + 1
             f == Upto(n)
  <2>1. n \in Nat /\ mu[x] < n
    OBVIOUS
  <2>2. f \in [S -> H] /\ Good(n, f)
    BY <1>3, <2>1
  <2>3. \A y \in S : mu[y] < mu[x] => F[y] = f[y]
    <3> SUFFICES ASSUME NEW y \in S, mu[y] < mu[x] PROVE F[y] = f[y]
      OBVIOUS
    <3> DEFINE k == mu[y] + 1
               g == Upto(k)
    <3>1. k \in Nat /\ k < n /\ mu[y] < k
      OBVIOUS
    <3>2. g \in [S -> H] /\ Good(k, g)
      BY <1>3, <3>1
    <3>3. \A z \in S : mu[z] < k => f[z] = D[f][z] /\ g[z] = D[g][z]
      BY <2>1, <2>2, <3>1, <3>2
    <3>4. F[y] = g[y]
      OBVIOUS
    <3> HIDE DEF k, g, f, n, Good, F
    <3>5. f \in [S -> H] /\ g \in [S -> H] /\ k \in Nat
      BY <2>2, <3>1, <3>2
    <3>6. \A z \in S : mu[z] < k => f[z] = g[z]
      BY <1>0, <3>3, <3>5
    <3> QED BY <3>1, <3>4, <3>6
  <2>4. f[x] = D[f][x]
    BY <2>1, <2>2
  <2>5. F[x] = f[x]
    OBVIOUS
  <2> HIDE DEF f, n, F
  <2>6. D[F][x] = D[f][x]
    BY <1>4, <2>2, <2>3
  <2> QED BY <2>4, <2>5, <2>6
<1> HIDE DEF F
<1>6. D[F] \in [S -> H]
  BY <1>4
<1>7. F = D[F]
  BY <1>4, <1>5, <1>6
<1> QED BY <1>4, <1>7

-----------------------------------------------------------------------------
(* Powers of two, and where a tree splits *)

\* IsPowerOfTwo is what its definition says.
LEMMA PowerOfTwoIs ==
  ASSUME NEW k \in Nat
  PROVE  /\ IsPowerOfTwo[k] \in BOOLEAN
         /\ IsPowerOfTwo[k] <=> k = 1 \/ (k > 1 /\ k % 2 = 0 /\ IsPowerOfTwo[k \div 2])
<1> DEFINE mu == [x \in Nat |-> x]
           D == [f \in [Nat -> BOOLEAN] |->
                  [x \in Nat |-> x = 1 \/ (x > 1 /\ x % 2 = 0 /\ f[x \div 2])]]
<1>1. mu \in [Nat -> Nat] /\ D \in [[Nat -> BOOLEAN] -> [Nat -> BOOLEAN]]
  OBVIOUS
<1>2. ASSUME NEW f \in [Nat -> BOOLEAN], NEW g \in [Nat -> BOOLEAN], NEW x \in Nat,
             \A y \in Nat : mu[y] < mu[x] => f[y] = g[y]
      PROVE  D[f][x] = D[g][x]
  <2>1. x > 1 => x \div 2 \in Nat /\ x \div 2 < x
    OBVIOUS
  <2>2. x > 1 => f[x \div 2] = g[x \div 2]
    BY <1>2, <2>1
  <2> QED BY <2>2
<1>3. Recursive(Nat, BOOLEAN, mu, D)
  <2> HIDE DEF mu, D
  <2> QED BY <1>1, <1>2 DEF Recursive
<1>4. PICK f \in [Nat -> BOOLEAN] : f = D[f]
  <2> HIDE DEF mu, D
  <2> QED BY <1>3, RecursionExists
<1>5. f = [x \in Nat |-> x = 1 \/ (x > 1 /\ x % 2 = 0 /\ f[x \div 2])]
  BY <1>4
<1>6. IsPowerOfTwo = [x \in Nat |-> x = 1 \/ (x > 1 /\ x % 2 = 0 /\ IsPowerOfTwo[x \div 2])]
  BY <1>5 DEF IsPowerOfTwo
<1> QED BY <1>6

\* Half of a power of two is one, and so is its double.
LEMMA PowerOfTwo ==
  ASSUME NEW k \in Nat
  PROVE  /\ IsPowerOfTwo[1]
         /\ IsPowerOfTwo[k] => /\ IsPowerOfTwo[2 * k]
                               /\ k >= 1
                               /\ k # 1 => /\ k >= 2 /\ k % 2 = 0
                                           /\ k \div 2 \in Nat /\ k = 2 * (k \div 2)
                                           /\ IsPowerOfTwo[k \div 2]
<1>1. IsPowerOfTwo[1]
  BY PowerOfTwoIs
<1>2. IsPowerOfTwo[k] => k = 1 \/ (k > 1 /\ k % 2 = 0 /\ IsPowerOfTwo[k \div 2])
  BY PowerOfTwoIs
<1>3. IsPowerOfTwo[k] => IsPowerOfTwo[2 * k]
  <2> SUFFICES ASSUME IsPowerOfTwo[k] PROVE IsPowerOfTwo[2 * k]
    OBVIOUS
  <2>1. k >= 1
    BY <1>2
  <2>2. 2 * k \in Nat /\ 2 * k > 1 /\ (2 * k) % 2 = 0 /\ (2 * k) \div 2 = k
    BY <2>1
  <2> QED BY <2>2, PowerOfTwoIs
<1> QED BY <1>1, <1>2, <1>3

\* Between a power of two and its double there is none.
LEMMA NoPowerBetween ==
  ASSUME NEW k \in Nat, NEW m \in Nat, IsPowerOfTwo[k], k < m, m < 2 * k
  PROVE  ~IsPowerOfTwo[m]
<1> DEFINE Held == {p \in Nat : \A q \in Nat : IsPowerOfTwo[p] /\ p < q /\ q < 2 * p
                                               => ~IsPowerOfTwo[q]}
<1>1. ASSUME NEW p \in Nat, \A j \in Nat : j < p => j \in Held
      PROVE  p \in Held
  <2> SUFFICES ASSUME NEW q \in Nat, IsPowerOfTwo[p], p < q, q < 2 * p, IsPowerOfTwo[q]
               PROVE  FALSE
    OBVIOUS
  <2>1. p >= 2 /\ q >= 2
    BY PowerOfTwo
  <2> DEFINE hp == p \div 2
             hq == q \div 2
  <2>2. hp \in Nat /\ p = 2 * hp /\ IsPowerOfTwo[hp]
    BY <2>1, PowerOfTwo
  <2>3. hq \in Nat /\ q = 2 * hq /\ IsPowerOfTwo[hq]
    BY <2>1, PowerOfTwo
  <2>4. hp < p /\ hp < hq /\ hq < 2 * hp
    BY <2>1, <2>2, <2>3
  <2>5. hp \in Held
    BY <1>1, <2>2, <2>4
  <2> HIDE DEF hp, hq
  <2> QED BY <2>2, <2>3, <2>4, <2>5
<1>2. k \in Held
  <2> HIDE DEF Held
  <2> QED BY <1>1, Induction
<1> QED BY <1>2

\* A tree of more than one leaf splits at a power of two.
LEMMA Split ==
  ASSUME NEW n \in Nat, n > 1
  PROVE  LET k == LargestPowerOfTwoBelow(n)
         IN  k \in Nat /\ k >= 1 /\ IsPowerOfTwo[k] /\ k < n /\ n <= 2 * k
<1> DEFINE Held == {m \in Nat : m > 1 => \E k \in 1..m : IsPowerOfTwo[k] /\ k < m /\ m <= 2 * k}
<1>1. ASSUME NEW m \in Nat, \A j \in Nat : j < m => j \in Held
      PROVE  m \in Held
  <2> SUFFICES ASSUME m > 1
               PROVE  \E k \in 1..m : IsPowerOfTwo[k] /\ k < m /\ m <= 2 * k
    OBVIOUS
  <2>1. CASE m = 2
    BY <2>1, PowerOfTwo
  <2>2. CASE m > 2
    <3>1. m - 1 \in Nat /\ m - 1 < m /\ m - 1 > 1
      BY <2>2
    <3>2. PICK k \in 1..m - 1 : IsPowerOfTwo[k] /\ k < m - 1 /\ m - 1 <= 2 * k
      BY <1>1, <3>1
    <3>3. CASE m <= 2 * k
      BY <3>1, <3>2, <3>3
    <3>4. CASE ~ (m <= 2 * k)
      <4>1. 2 * k \in 1..m /\ 2 * k < m /\ m <= 2 * (2 * k)
        BY <3>1, <3>2, <3>4
      <4>2. IsPowerOfTwo[2 * k]
        BY <3>2, PowerOfTwo
      <4> QED BY <4>1, <4>2
    <3> QED BY <3>3, <3>4
  <2> QED BY <2>1, <2>2
<1>2. n \in Held
  <2> HIDE DEF Held
  <2> QED BY <1>1, Induction
<1>3. PICK k \in 1..n : IsPowerOfTwo[k] /\ k < n /\ n <= 2 * k
  BY <1>2
<1> QED BY <1>3 DEF LargestPowerOfTwoBelow

\* A smaller tree that does not fit on the left splits where the tree does.
LEMMA SameSplit ==
  ASSUME NEW n \in Nat, n > 1, NEW m \in Nat, LargestPowerOfTwoBelow(n) < m, m <= n
  PROVE  m > 1 /\ LargestPowerOfTwoBelow(m) = LargestPowerOfTwoBelow(n)
<1> DEFINE k == LargestPowerOfTwoBelow(n)
           j == LargestPowerOfTwoBelow(m)
<1>1. k \in Nat /\ k >= 1 /\ IsPowerOfTwo[k] /\ k < n /\ n <= 2 * k
  BY Split
<1>2. m > 1
  BY <1>1
<1>3. j \in Nat /\ j >= 1 /\ IsPowerOfTwo[j] /\ j < m /\ m <= 2 * j
  BY <1>2, Split
<1> HIDE DEF k, j
<1>4. ~ (j < k)
  <2> SUFFICES ASSUME j < k PROVE FALSE
    OBVIOUS
  <2>1. k < 2 * j
    BY <1>1, <1>3 DEF k
  <2> QED BY <1>1, <1>3, <2>1, NoPowerBetween
<1>5. ~ (k < j)
  <2> SUFFICES ASSUME k < j PROVE FALSE
    OBVIOUS
  <2>1. j < 2 * k
    BY <1>1, <1>3
  <2> QED BY <1>1, <1>3, <2>1, NoPowerBetween
<1> QED BY <1>1, <1>2, <1>3, <1>4, <1>5 DEF k, j

-----------------------------------------------------------------------------
(* Hashes *)

\* The set of all hashes: of leaves, of nodes above hashes, and of no leaves.
IsHashes(H) ==
  /\ EmptyRoot \in H
  /\ \A d \in Data : LeafHash(d) \in H
  /\ \A x, y \in H : NodeHash(x, y) \in H
Hash == CHOOSE H : IsHashes(H)

\* The hashes of trees up to a height; f lists them by height.
WithNodes(H) == H \cup {NodeHash(x, y) : x \in H, y \in H}
AreLevels(n, f) ==
  f = [i \in 0..n |-> IF i = 0 THEN {EmptyRoot} \cup {LeafHash(d) : d \in Data}
                      ELSE WithNodes(f[i - 1])]

\* Hashes up to a height are the same in a longer list.
LEMMA LevelsAgree ==
  ASSUME NEW n \in Nat, NEW m \in Nat, NEW f, NEW g, AreLevels(n, f), AreLevels(m, g)
  PROVE  \A i \in Nat : i <= n /\ i <= m => f[i] = g[i]
<1> DEFINE Held == {i \in Nat : i <= n /\ i <= m => f[i] = g[i]}
<1>1. ASSUME NEW i \in Nat, \A j \in Nat : j < i => j \in Held
      PROVE  i \in Held
  <2> SUFFICES ASSUME i <= n, i <= m PROVE f[i] = g[i]
    OBVIOUS
  <2>1. i \in 0..n /\ i \in 0..m
    OBVIOUS
  <2>2. CASE i = 0
    BY <2>1, <2>2 DEF AreLevels
  <2>3. CASE i # 0
    <3>1. i - 1 \in Nat /\ i - 1 < i
      BY <2>3
    <3>2. f[i - 1] = g[i - 1]
      BY <1>1, <3>1
    <3>3. f[i] = WithNodes(f[i - 1]) /\ g[i] = WithNodes(g[i - 1])
      BY <2>1, <2>3 DEF AreLevels
    <3> QED BY <3>2, <3>3
  <2> QED BY <2>2, <2>3
<1>2. \A i \in Nat : i \in Held
  <2> HIDE DEF Held
  <2> QED BY <1>1, Induction
<1> QED BY <1>2

\* There is such a list up to every height.
LEMMA LevelsExist ==
  ASSUME NEW n \in Nat
  PROVE  \E f : AreLevels(n, f)
<1> DEFINE Held == {i \in Nat : \E f : AreLevels(i, f)}
           base == {EmptyRoot} \cup {LeafHash(d) : d \in Data}
<1>1. ASSUME NEW i \in Nat, \A j \in Nat : j < i => j \in Held
      PROVE  i \in Held
  <2>1. CASE i = 0
    <3> DEFINE f == [j \in 0..0 |-> base]
    <3>1. \A j \in 0..0 : j = 0
      OBVIOUS
    <3>2. AreLevels(0, f)
      BY <3>1 DEF AreLevels
    <3> QED BY <2>1, <3>2
  <2>2. CASE i # 0
    <3>1. i - 1 \in Nat /\ i - 1 < i
      BY <2>2
    <3>2. PICK f : AreLevels(i - 1, f)
      BY <1>1, <3>1
    <3> DEFINE g == [j \in 0..i |-> IF j = i THEN WithNodes(f[i - 1]) ELSE f[j]]
    <3>3. ASSUME NEW j \in 0..i
          PROVE  g[j] = IF j = 0 THEN base ELSE WithNodes(g[j - 1])
      <4>1. CASE j = i
        <5>1. i - 1 \in 0..i /\ i - 1 # i
          BY <2>2
        <5>2. g[j - 1] = f[i - 1]
          BY <4>1, <5>1
        <5> QED BY <2>2, <4>1, <5>2
      <4>2. CASE j # i
        <5>1. j \in 0..i - 1
          BY <4>2
        <5>2. g[j] = f[j]
          BY <4>2
        <5>3. f[j] = IF j = 0 THEN base ELSE WithNodes(f[j - 1])
          BY <3>2, <5>1 DEF AreLevels
        <5>4. j # 0 => j - 1 \in 0..i /\ j - 1 # i
          BY <5>1
        <5>5. j # 0 => g[j - 1] = f[j - 1]
          BY <5>4
        <5> HIDE DEF g, base
        <5> QED BY <5>2, <5>3, <5>5
      <4> QED BY <4>1, <4>2
    <3>4. g = [j \in 0..i |-> g[j]]
      OBVIOUS
    <3> HIDE DEF g
    <3>5. AreLevels(i, g)
      BY <3>3, <3>4 DEF AreLevels
    <3> QED BY <3>5
  <2> QED BY <2>1, <2>2
<1>2. \A i \in Nat : i \in Held
  <2> HIDE DEF Held
  <2> QED BY <1>1, Induction
<1> QED BY <1>2

\* The hashes are a set.
LEMMA HashIs == IsHashes(Hash)
<1> DEFINE List(n) == CHOOSE f : AreLevels(n, f)
           Level(n) == List(n)[n]
           H == UNION {Level(n) : n \in Nat}
           base == {EmptyRoot} \cup {LeafHash(d) : d \in Data}
<1>1. \A n \in Nat : AreLevels(n, List(n))
  BY LevelsExist
<1> HIDE DEF List
<1>2. Level(0) = base
  <2>1. AreLevels(0, List(0)) /\ 0 \in 0..0
    BY <1>1
  <2> QED BY <2>1 DEF AreLevels
<1>3. \A n \in Nat : Level(n + 1) = WithNodes(Level(n))
  <2> SUFFICES ASSUME NEW n \in Nat PROVE Level(n + 1) = WithNodes(Level(n))
    OBVIOUS
  <2>1. n + 1 \in Nat /\ n + 1 \in 0..n + 1 /\ n + 1 # 0 /\ (n + 1) - 1 = n
    OBVIOUS
  <2>2. AreLevels(n + 1, List(n + 1)) /\ AreLevels(n, List(n))
    BY <1>1, <2>1
  <2>3. List(n + 1)[n + 1] = WithNodes(List(n + 1)[n])
    BY <2>1, <2>2 DEF AreLevels
  <2>4. List(n + 1)[n] = List(n)[n]
    BY <2>1, <2>2, LevelsAgree
  <2> QED BY <2>3, <2>4
<1> HIDE DEF Level
<1>4. \A n \in Nat : Level(n) \subseteq Level(n + 1)
  BY <1>3 DEF WithNodes
<1>5. \A n, m \in Nat : n <= m => Level(n) \subseteq Level(m)
  <2> SUFFICES ASSUME NEW n \in Nat PROVE \A m \in Nat : n <= m => Level(n) \subseteq Level(m)
    OBVIOUS
  <2> DEFINE Held == {m \in Nat : n <= m => Level(n) \subseteq Level(m)}
  <2>1. ASSUME NEW m \in Nat, \A j \in Nat : j < m => j \in Held
        PROVE  m \in Held
    <3>1. CASE m <= n
      BY <3>1
    <3>2. CASE n < m
      <4>1. m - 1 \in Nat /\ m - 1 < m /\ n <= m - 1 /\ (m - 1) + 1 = m
        BY <3>2
      <4>2. m - 1 \in Held
        BY <2>1, <4>1
      <4>3. Level(m - 1) \subseteq Level(m)
        BY <1>4, <4>1
      <4> QED BY <4>1, <4>2, <4>3
    <3> QED BY <3>1, <3>2
  <2>2. \A m \in Nat : m \in Held
    <3> HIDE DEF Held
    <3> QED BY <2>1, Induction
  <2> QED BY <2>2
<1>6. ASSUME NEW x \in H, NEW y \in H
      PROVE  NodeHash(x, y) \in H
  <2>1. PICK n \in Nat : x \in Level(n)
    OBVIOUS
  <2>2. PICK m \in Nat : y \in Level(m)
    OBVIOUS
  <2>3. PICK top \in Nat : n <= top /\ m <= top
    <3>1. n <= m \/ m <= n
      OBVIOUS
    <3> QED BY <3>1
  <2>4. x \in Level(top) /\ y \in Level(top)
    BY <1>5, <2>1, <2>2, <2>3
  <2>5. NodeHash(x, y) \in Level(top + 1)
    BY <1>3, <2>4 DEF WithNodes
  <2> QED BY <2>5
<1>7. base \subseteq H
  BY <1>2
<1> HIDE DEF H
<1>8. IsHashes(H)
  BY <1>6, <1>7 DEF IsHashes
<1> QED BY <1>8 DEF Hash

\* What is hashed can be read from a hash.
LEMMA HashesDiffer ==
  /\ \A x, y, v, w : NodeHash(x, y) = NodeHash(v, w) => x = v /\ y = w
  /\ \A x, y : LeafHash(x) = LeafHash(y) => x = y
  /\ \A x, y, d : NodeHash(x, y) # LeafHash(d)
  /\ \A x, y : NodeHash(x, y) # EmptyRoot /\ NodeHash(x, y) # NoHash
  /\ \A d : LeafHash(d) # EmptyRoot /\ LeafHash(d) # NoHash
  /\ EmptyRoot # NoHash
<1>1. ASSUME NEW x, NEW y, NEW v, NEW w, NodeHash(x, y) = NodeHash(v, w)
      PROVE  x = v /\ y = w
  BY <1>1 DEF NodeHash
<1>2. ASSUME NEW x, NEW y, LeafHash(x) = LeafHash(y)
      PROVE  x = y
  BY <1>2 DEF LeafHash
<1>3. ASSUME NEW x, NEW y, NEW d
      PROVE  NodeHash(x, y) # LeafHash(d)
  BY DEF NodeHash, LeafHash
<1>4. ASSUME NEW x, NEW y
      PROVE  NodeHash(x, y) # EmptyRoot /\ NodeHash(x, y) # NoHash
  BY DEF NodeHash, EmptyRoot, NoHash
<1>5. ASSUME NEW d
      PROVE  LeafHash(d) # EmptyRoot /\ LeafHash(d) # NoHash
  BY DEF LeafHash, EmptyRoot, NoHash
<1>6. EmptyRoot # NoHash
  BY DEF EmptyRoot, NoHash
<1> QED BY <1>1, <1>2, <1>3, <1>4, <1>5, <1>6

-----------------------------------------------------------------------------
(* Roots *)

\* A length is that of no element, of one, or of more.
LEMMA LengthCases ==
  ASSUME NEW S, NEW s \in Seq(S)
  PROVE  /\ Len(s) \in Nat
         /\ Len(s) = 0 => s = << >>
         /\ Len(s) = 1 => s[1] \in S
         /\ Len(s) = 0 \/ Len(s) = 1 \/ Len(s) > 1
         /\ Len(s) <= 1 \/ Len(s) > 1
<1>1. PICK n \in Nat : n = Len(s)
  OBVIOUS
<1>2. \A i \in 1..n : s[i] \in S
  BY <1>1
<1>3. n = 0 => s = << >>
  BY <1>1, EmptySeq
<1>4. n = 1 => s[1] \in S
  BY <1>2
<1> QED BY <1>1, <1>3, <1>4

\* The two subtrees of a tree have its leaves, fewer each.
LEMMA Halves ==
  ASSUME NEW s \in Seq(Data), Len(s) > 1
  PROVE  LET k == LargestPowerOfTwoBelow(Len(s))
         IN  /\ k \in Nat /\ k >= 1 /\ IsPowerOfTwo[k] /\ k < Len(s) /\ Len(s) <= 2 * k
             /\ LeftOf(s) \in Seq(Data) /\ Len(LeftOf(s)) = k
             /\ \A i \in 1..k : LeftOf(s)[i] = s[i]
             /\ RightOf(s) \in Seq(Data) /\ Len(RightOf(s)) = Len(s) - k
             /\ \A i \in 1..Len(s) - k : RightOf(s)[i] = s[i + k]
<1> DEFINE k == LargestPowerOfTwoBelow(Len(s))
<1>1. k \in Nat /\ k >= 1 /\ IsPowerOfTwo[k] /\ k < Len(s) /\ Len(s) <= 2 * k
  BY Split
<1>2. LeftOf(s) = SubSeq(s, 1, k) /\ RightOf(s) = SubSeq(s, k + 1, Len(s))
  BY DEF LeftOf, RightOf
<1> HIDE DEF k
<1>3. PICK n \in Nat : n = Len(s)
  OBVIOUS
<1>4. SubSeq(s, 1, k) \in Seq(Data) /\ Len(SubSeq(s, 1, k)) = k
  BY <1>1
<1>5. \A i \in 1..k : SubSeq(s, 1, k)[i] = s[i]
  BY <1>1
<1>6. SubSeq(s, k + 1, n) \in Seq(Data) /\ Len(SubSeq(s, k + 1, n)) = n - k
  BY <1>1, <1>3
<1>7. \A i \in 1..n - k : SubSeq(s, k + 1, n)[i] = s[i + k]
  BY <1>1, <1>3
<1> QED BY <1>1, <1>2, <1>3, <1>4, <1>5, <1>6, <1>7 DEF k

\* The measure of a sequence.
Lengths == [s \in Seq(Data) |-> Len(s)]

\* Root is what its definition says.
LEMMA RootIs ==
  ASSUME NEW s \in Seq(Data)
  PROVE  Root[s] = IF Len(s) = 0 THEN EmptyRoot
                   ELSE IF Len(s) = 1 THEN LeafHash(s[1])
                   ELSE NodeHash(Root[LeftOf(s)], Root[RightOf(s)])
<1> DEFINE D == [f \in [Seq(Data) -> Hash] |->
                  [t \in Seq(Data) |->
                    IF Len(t) = 0 THEN EmptyRoot
                    ELSE IF Len(t) = 1 THEN LeafHash(t[1])
                    ELSE NodeHash(f[LeftOf(t)], f[RightOf(t)])]]
<1>1. \A t \in Seq(Data) : Len(t) # 0 /\ Len(t) # 1 =>
        /\ LeftOf(t) \in Seq(Data) /\ Lengths[LeftOf(t)] < Lengths[t]
        /\ RightOf(t) \in Seq(Data) /\ Lengths[RightOf(t)] < Lengths[t]
  <2> SUFFICES ASSUME NEW t \in Seq(Data), Len(t) # 0, Len(t) # 1
               PROVE  /\ LeftOf(t) \in Seq(Data) /\ Lengths[LeftOf(t)] < Lengths[t]
                      /\ RightOf(t) \in Seq(Data) /\ Lengths[RightOf(t)] < Lengths[t]
    OBVIOUS
  <2>1. Len(t) \in Nat /\ Len(t) > 1
    BY LengthCases
  <2> QED BY <2>1, Halves DEF Lengths
<1>2. D \in [[Seq(Data) -> Hash] -> [Seq(Data) -> Hash]]
  <2> SUFFICES ASSUME NEW f \in [Seq(Data) -> Hash], NEW t \in Seq(Data)
               PROVE  D[f][t] \in Hash
    OBVIOUS
  <2>1. Len(t) = 1 => t[1] \in Data
    BY LengthCases
  <2> QED BY <1>1, <2>1, HashIs DEF IsHashes
<1>3. ASSUME NEW f \in [Seq(Data) -> Hash], NEW g \in [Seq(Data) -> Hash], NEW t \in Seq(Data),
             \A y \in Seq(Data) : Lengths[y] < Lengths[t] => f[y] = g[y]
      PROVE  D[f][t] = D[g][t]
  BY <1>1, <1>3
<1>4. Recursive(Seq(Data), Hash, Lengths, D)
  <2>1. Hash # {} /\ Lengths \in [Seq(Data) -> Nat]
    BY HashIs DEF IsHashes, Lengths
  <2> HIDE DEF D
  <2> QED BY <1>2, <1>3, <2>1 DEF Recursive
<1>5. PICK f \in [Seq(Data) -> Hash] : f = D[f]
  <2> HIDE DEF D
  <2> QED BY <1>4, RecursionExists
<1>6. f = [t \in Seq(Data) |->
             IF Len(t) = 0 THEN EmptyRoot
             ELSE IF Len(t) = 1 THEN LeafHash(t[1])
             ELSE NodeHash(f[LeftOf(t)], f[RightOf(t)])]
  BY <1>5
<1>7. Root = [t \in Seq(Data) |->
                IF Len(t) = 0 THEN EmptyRoot
                ELSE IF Len(t) = 1 THEN LeafHash(t[1])
                ELSE NodeHash(Root[LeftOf(t)], Root[RightOf(t)])]
  BY <1>6 DEF Root
<1> QED BY <1>7

\* The three cases of it.
LEMMA RootCases ==
  ASSUME NEW s \in Seq(Data)
  PROVE  /\ Len(s) = 0 => Root[s] = EmptyRoot
         /\ Len(s) = 1 => s[1] \in Data /\ Root[s] = LeafHash(s[1])
         /\ Len(s) > 1 => Root[s] = NodeHash(Root[LeftOf(s)], Root[RightOf(s)])
<1>1. PICK n \in Nat : n = Len(s)
  OBVIOUS
<1>2. Root[s] = IF n = 0 THEN EmptyRoot
                ELSE IF n = 1 THEN LeafHash(s[1])
                ELSE NodeHash(Root[LeftOf(s)], Root[RightOf(s)])
  BY <1>1, RootIs
<1>3. n = 1 => s[1] \in Data
  BY <1>1, LengthCases
<1> QED BY <1>1, <1>2, <1>3

\* What holds of a tree if it holds of all smaller trees holds of all trees.
LEMMA TreeInduction ==
  ASSUME NEW S, \A s \in Seq(Data) :
                  (\A t \in Seq(Data) : Len(t) < Len(s) => t \in S) => s \in S
  PROVE  \A s \in Seq(Data) : s \in S
<1> DEFINE Held == {n \in Nat : \A s \in Seq(Data) : Len(s) = n => s \in S}
<1>1. ASSUME NEW n \in Nat, \A k \in Nat : k < n => k \in Held
      PROVE  n \in Held
  <2> SUFFICES ASSUME NEW s \in Seq(Data), Len(s) = n PROVE s \in S
    OBVIOUS
  <2>1. \A t \in Seq(Data) : Len(t) < Len(s) => t \in S
    <3> SUFFICES ASSUME NEW t \in Seq(Data), Len(t) < Len(s) PROVE t \in S
      OBVIOUS
    <3>1. Len(t) \in Nat /\ Len(t) < n
      OBVIOUS
    <3> QED BY <1>1, <3>1
  <2> QED BY <2>1
<1>2. \A n \in Nat : n \in Held
  <2> HIDE DEF Held
  <2> QED BY <1>1, Induction
<1> QED BY <1>2

\* A root is a hash.
LEMMA RootIsHash == \A s \in Seq(Data) : Root[s] \in Hash
<1> DEFINE S == {s \in Seq(Data) : Root[s] \in Hash}
<1>1. ASSUME NEW s \in Seq(Data), \A t \in Seq(Data) : Len(t) < Len(s) => t \in S
      PROVE  s \in S
  <2>1. CASE Len(s) = 0 \/ Len(s) = 1
    BY <2>1, RootCases, HashIs DEF IsHashes
  <2>2. CASE Len(s) > 1
    <3>1. LeftOf(s) \in S /\ RightOf(s) \in S
      BY <1>1, <2>2, Halves
    <3> QED BY <2>2, <3>1, RootCases, HashIs DEF IsHashes
  <2> QED BY <2>1, <2>2, LengthCases
<1>2. \A s \in Seq(Data) : s \in S
  <2> HIDE DEF S
  <2> QED BY <1>1, TreeInduction
<1> QED BY <1>2

\* A root was read: it is not what stands for bytes that are none.
LEMMA RootIsNotNoHash == \A s \in Seq(Data) : Root[s] # NoHash
<1> SUFFICES ASSUME NEW s \in Seq(Data) PROVE Root[s] # NoHash
  OBVIOUS
<1>1. \/ Root[s] = EmptyRoot
      \/ Root[s] = LeafHash(s[1])
      \/ Root[s] = NodeHash(Root[LeftOf(s)], Root[RightOf(s)])
  BY RootIs
<1> QED BY <1>1, HashesDiffer

\* Two trees of one size have the same root only if they have the same leaves.
LEMMA RootDecides ==
  ASSUME NEW s \in Seq(Data), NEW t \in Seq(Data), Len(s) = Len(t), Root[s] = Root[t]
  PROVE  s = t
<1> DEFINE S == {x \in Seq(Data) : \A y \in Seq(Data) :
                   Len(x) = Len(y) /\ Root[x] = Root[y] => x = y}
<1>1. ASSUME NEW x \in Seq(Data), \A z \in Seq(Data) : Len(z) < Len(x) => z \in S
      PROVE  x \in S
  <2> SUFFICES ASSUME NEW y \in Seq(Data), Len(x) = Len(y), Root[x] = Root[y]
               PROVE  x = y
    OBVIOUS
  <2>1. CASE Len(x) = 0
    <3>1. x = << >>
      BY <2>1, LengthCases
    <3>2. Len(y) = 0
      BY <2>1
    <3>3. y = << >>
      BY <3>2, LengthCases
    <3> QED BY <3>1, <3>3
  <2>2. CASE Len(x) = 1
    <3>1. x[1] = y[1]
      BY <2>2, RootCases, HashesDiffer
    <3>2. \A i \in 1..Len(x) : x[i] = y[i]
      BY <2>2, <3>1
    <3> QED BY <3>2
  <2>3. CASE Len(x) > 1
    <3> DEFINE k == LargestPowerOfTwoBelow(Len(x))
    <3>1. Root[x] = NodeHash(Root[LeftOf(x)], Root[RightOf(x)])
      BY <2>3, RootCases
    <3>2. Root[y] = NodeHash(Root[LeftOf(y)], Root[RightOf(y)])
      BY <2>3, RootCases
    <3>3. Root[LeftOf(x)] = Root[LeftOf(y)] /\ Root[RightOf(x)] = Root[RightOf(y)]
      <4>1. NodeHash(Root[LeftOf(x)], Root[RightOf(x)]) = NodeHash(Root[LeftOf(y)], Root[RightOf(y)])
        BY <3>1, <3>2
      <4> HIDE DEF S, k
      <4> QED BY <4>1, HashesDiffer
    <3>4. /\ k \in Nat /\ k >= 1 /\ k < Len(x)
          /\ LeftOf(x) \in Seq(Data) /\ Len(LeftOf(x)) = k
          /\ \A i \in 1..k : LeftOf(x)[i] = x[i]
          /\ RightOf(x) \in Seq(Data) /\ Len(RightOf(x)) = Len(x) - k
          /\ \A i \in 1..Len(x) - k : RightOf(x)[i] = x[i + k]
      BY <2>3, Halves
    <3>5. /\ LeftOf(y) \in Seq(Data) /\ Len(LeftOf(y)) = k
          /\ \A i \in 1..k : LeftOf(y)[i] = y[i]
          /\ RightOf(y) \in Seq(Data) /\ Len(RightOf(y)) = Len(x) - k
          /\ \A i \in 1..Len(x) - k : RightOf(y)[i] = y[i + k]
      BY <2>3, Halves
    <3> HIDE DEF k
    <3>6. LeftOf(x) \in S /\ RightOf(x) \in S
      <4>1. Len(LeftOf(x)) < Len(x) /\ Len(RightOf(x)) < Len(x)
        BY <3>4
      <4> HIDE DEF S
      <4> QED BY <1>1, <3>4, <4>1
    <3>7. LeftOf(x) = LeftOf(y) /\ RightOf(x) = RightOf(y)
      BY <3>3, <3>4, <3>5, <3>6
    <3>8. ASSUME NEW i \in 1..Len(x)
          PROVE  x[i] = y[i]
      <4>1. CASE i <= k
        BY <3>4, <3>5, <3>7, <4>1
      <4>2. CASE i > k
        <5> DEFINE j == i - k
        <5>1. j \in 1..Len(x) - k /\ j + k = i
          BY <3>4, <4>2
        <5> HIDE DEF j
        <5> QED BY <3>4, <3>5, <3>7, <5>1
      <4> QED BY <3>4, <4>1, <4>2
    <3> QED BY <3>8
  <2> QED BY <2>1, <2>2, <2>3, LengthCases
<1>2. s \in S
  <2> HIDE DEF S
  <2> QED BY <1>1, TreeInduction
<1> QED BY <1>2

-----------------------------------------------------------------------------
(* Proofs, as they are made *)

\* Both halves of a tree have a smaller measure.
LEMMA HalvesAreSmaller ==
  ASSUME NEW s \in Seq(Data), Len(s) > 1
  PROVE  /\ LeftOf(s) \in Seq(Data) /\ Lengths[LeftOf(s)] < Lengths[s]
         /\ RightOf(s) \in Seq(Data) /\ Lengths[RightOf(s)] < Lengths[s]
<1>1. Len(s) \in Nat
  OBVIOUS
<1> QED BY <1>1, Halves DEF Lengths

\* ProofPath is what its definition says, and is made of hashes.
LEMMA ProofPathIs ==
  ASSUME NEW s \in Seq(Data), NEW m \in Nat
  PROVE  ProofPath[s][m] =
           LET k == LargestPowerOfTwoBelow(Len(s))
           IN  IF Len(s) <= 1 THEN << >>
               ELSE IF m < k THEN Append(ProofPath[LeftOf(s)][m], Root[RightOf(s)])
               ELSE Append(ProofPath[RightOf(s)][m - k], Root[LeftOf(s)])
<1> DEFINE H == [Nat -> Seq(Hash)]
           D == [f \in [Seq(Data) -> H] |->
                  [t \in Seq(Data) |->
                    [i \in Nat |->
                      LET k == LargestPowerOfTwoBelow(Len(t))
                      IN  IF Len(t) <= 1 THEN << >>
                          ELSE IF i < k THEN Append(f[LeftOf(t)][i], Root[RightOf(t)])
                          ELSE Append(f[RightOf(t)][i - k], Root[LeftOf(t)])]]]
<1>1. D \in [[Seq(Data) -> H] -> [Seq(Data) -> H]]
  <2> SUFFICES ASSUME NEW f \in [Seq(Data) -> H], NEW t \in Seq(Data), NEW i \in Nat
               PROVE  D[f][t][i] \in Seq(Hash)
    OBVIOUS
  <2> DEFINE k == LargestPowerOfTwoBelow(Len(t))
             n == Len(t)
  <2>1. D[f][t][i] = IF n <= 1 THEN << >>
                     ELSE IF i < k THEN Append(f[LeftOf(t)][i], Root[RightOf(t)])
                     ELSE Append(f[RightOf(t)][i - k], Root[LeftOf(t)])
    OBVIOUS
  <2>2. n \in Nat /\ << >> \in Seq(Hash)
    OBVIOUS
  <2>3. n > 1 => LeftOf(t) \in Seq(Data) /\ RightOf(t) \in Seq(Data) /\ k \in Nat
    BY Halves
  <2> HIDE DEF k, n, D
  <2>4. CASE n > 1
    <3>1. Root[LeftOf(t)] \in Hash /\ Root[RightOf(t)] \in Hash
      BY <2>3, <2>4, RootIsHash
    <3>2. f[LeftOf(t)][i] \in Seq(Hash)
      BY <2>3, <2>4
    <3>3. ~ (i < k) => f[RightOf(t)][i - k] \in Seq(Hash)
      <4>1. k \in Nat
        BY <2>3, <2>4
      <4>2. ~ (i < k) => i - k \in Nat
        BY <4>1
      <4> QED BY <2>3, <2>4, <4>2
    <3> QED BY <2>1, <2>2, <2>3, <2>4, <3>1, <3>2, <3>3
  <2>5. CASE n <= 1
    BY <2>1, <2>2, <2>5
  <2> QED BY <2>2, <2>4, <2>5
<1>2. ASSUME NEW f \in [Seq(Data) -> H], NEW g \in [Seq(Data) -> H], NEW t \in Seq(Data),
             \A y \in Seq(Data) : Lengths[y] < Lengths[t] => f[y] = g[y]
      PROVE  D[f][t] = D[g][t]
  <2>1. CASE Len(t) > 1
    <3>1. f[LeftOf(t)] = g[LeftOf(t)] /\ f[RightOf(t)] = g[RightOf(t)]
      BY <1>2, <2>1, HalvesAreSmaller
    <3> QED BY <3>1
  <2>2. CASE Len(t) <= 1
    BY <2>2
  <2> HIDE DEF D
  <2> QED BY <2>1, <2>2, LengthCases
<1>3. Recursive(Seq(Data), H, Lengths, D)
  <2>1. [i \in Nat |-> << >>] \in H /\ Lengths \in [Seq(Data) -> Nat]
    BY DEF Lengths
  <2> HIDE DEF D, H
  <2> QED BY <1>1, <1>2, <2>1 DEF Recursive
<1>4. PICK f \in [Seq(Data) -> H] : f = D[f]
  <2> HIDE DEF D, H
  <2> QED BY <1>3, RecursionExists
<1>5. f = [t \in Seq(Data) |->
            [i \in Nat |->
              LET k == LargestPowerOfTwoBelow(Len(t))
              IN  IF Len(t) <= 1 THEN << >>
                  ELSE IF i < k THEN Append(f[LeftOf(t)][i], Root[RightOf(t)])
                  ELSE Append(f[RightOf(t)][i - k], Root[LeftOf(t)])]]
  BY <1>4
<1> HIDE DEF D, H
<1>6. ProofPath = [t \in Seq(Data) |->
            [i \in Nat |->
              LET k == LargestPowerOfTwoBelow(Len(t))
              IN  IF Len(t) <= 1 THEN << >>
                  ELSE IF i < k THEN Append(ProofPath[LeftOf(t)][i], Root[RightOf(t)])
                  ELSE Append(ProofPath[RightOf(t)][i - k], Root[LeftOf(t)])]]
  BY <1>5 DEF ProofPath
<1>7. ProofPath[s] =
        [i \in Nat |->
          LET k == LargestPowerOfTwoBelow(Len(s))
          IN  IF Len(s) <= 1 THEN << >>
              ELSE IF i < k THEN Append(ProofPath[LeftOf(s)][i], Root[RightOf(s)])
              ELSE Append(ProofPath[RightOf(s)][i - k], Root[LeftOf(s)])]
  BY <1>6
<1> QED BY <1>7

\* ConsistencyPath is what its definition says.
LEMMA ConsistencyPathIs ==
  ASSUME NEW s \in Seq(Data), NEW m \in Nat \ {0}, NEW complete \in BOOLEAN
  PROVE  ConsistencyPath[s][m][complete] =
           LET k == LargestPowerOfTwoBelow(Len(s))
           IN  IF m >= Len(s) THEN IF complete THEN << >> ELSE <<Root[s]>>
               ELSE IF m <= k
                      THEN Append(ConsistencyPath[LeftOf(s)][m][complete], Root[RightOf(s)])
               ELSE Append(ConsistencyPath[RightOf(s)][m - k][FALSE], Root[LeftOf(s)])
<1> DEFINE H == [Nat \ {0} -> [BOOLEAN -> Seq(Hash)]]
           D == [f \in [Seq(Data) -> H] |->
                  [t \in Seq(Data) |->
                    [i \in Nat \ {0} |-> [c \in BOOLEAN |->
                      LET k == LargestPowerOfTwoBelow(Len(t))
                      IN  IF i >= Len(t) THEN IF c THEN << >> ELSE <<Root[t]>>
                          ELSE IF i <= k THEN Append(f[LeftOf(t)][i][c], Root[RightOf(t)])
                          ELSE Append(f[RightOf(t)][i - k][FALSE], Root[LeftOf(t)])]]]]
<1>1. D \in [[Seq(Data) -> H] -> [Seq(Data) -> H]]
  <2> SUFFICES ASSUME NEW f \in [Seq(Data) -> H], NEW t \in Seq(Data), NEW i \in Nat \ {0},
                      NEW c \in BOOLEAN
               PROVE  D[f][t][i][c] \in Seq(Hash)
    OBVIOUS
  <2> DEFINE k == LargestPowerOfTwoBelow(Len(t))
             n == Len(t)
  <2>1. D[f][t][i][c] = IF i >= n THEN IF c THEN << >> ELSE <<Root[t]>>
                        ELSE IF i <= k THEN Append(f[LeftOf(t)][i][c], Root[RightOf(t)])
                        ELSE Append(f[RightOf(t)][i - k][FALSE], Root[LeftOf(t)])
    OBVIOUS
  <2>2. n \in Nat /\ << >> \in Seq(Hash) /\ Root[t] \in Hash
    BY RootIsHash
  <2>3. n > 1 => LeftOf(t) \in Seq(Data) /\ RightOf(t) \in Seq(Data) /\ k \in Nat
    BY Halves
  <2> HIDE DEF k, n, D
  <2>4. CASE ~ (i >= n)
    <3>1. n > 1
      BY <2>2, <2>4
    <3>2. Root[LeftOf(t)] \in Hash /\ Root[RightOf(t)] \in Hash /\ k \in Nat
      BY <2>3, <3>1, RootIsHash
    <3>3. f[LeftOf(t)][i][c] \in Seq(Hash)
      <4>1. f[LeftOf(t)] \in [Nat \ {0} -> [BOOLEAN -> Seq(Hash)]]
        BY <2>3, <3>1
      <4>2. f[LeftOf(t)][i] \in [BOOLEAN -> Seq(Hash)]
        BY <4>1
      <4> QED BY <4>2
    <3>4. ~ (i <= k) => f[RightOf(t)][i - k][FALSE] \in Seq(Hash)
      <4>1. ~ (i <= k) => i - k \in Nat \ {0}
        BY <3>2
      <4>2. f[RightOf(t)] \in [Nat \ {0} -> [BOOLEAN -> Seq(Hash)]]
        BY <2>3, <3>1
      <4>3. ~ (i <= k) => f[RightOf(t)][i - k] \in [BOOLEAN -> Seq(Hash)]
        BY <4>1, <4>2
      <4> QED BY <4>3
    <3>5. CASE i <= k
      <4>1. D[f][t][i][c] = Append(f[LeftOf(t)][i][c], Root[RightOf(t)])
        BY <2>1, <2>4, <3>5
      <4> QED BY <3>2, <3>3, <4>1
    <3>6. CASE ~ (i <= k)
      <4>1. D[f][t][i][c] = Append(f[RightOf(t)][i - k][FALSE], Root[LeftOf(t)])
        BY <2>1, <2>4, <3>6
      <4>2. PICK p \in Seq(Hash) : p = f[RightOf(t)][i - k][FALSE]
        BY <3>4, <3>6
      <4>3. PICK h \in Hash : h = Root[LeftOf(t)]
        BY <3>2
      <4>4. Append(p, h) \in Seq(Hash)
        OBVIOUS
      <4> QED BY <4>1, <4>2, <4>3, <4>4
    <3> QED BY <3>5, <3>6
  <2>5. CASE i >= n
    BY <2>1, <2>2, <2>5
  <2> QED BY <2>4, <2>5
<1>2. ASSUME NEW f \in [Seq(Data) -> H], NEW g \in [Seq(Data) -> H], NEW t \in Seq(Data),
             \A y \in Seq(Data) : Lengths[y] < Lengths[t] => f[y] = g[y]
      PROVE  D[f][t] = D[g][t]
  <2>1. CASE Len(t) > 1
    <3>1. f[LeftOf(t)] = g[LeftOf(t)] /\ f[RightOf(t)] = g[RightOf(t)]
      BY <1>2, <2>1, HalvesAreSmaller
    <3> QED BY <3>1
  <2>2. CASE Len(t) <= 1
    <3>1. \A i \in Nat \ {0} : i >= Len(t)
      BY <2>2, LengthCases
    <3>2. D[f][t] = [i \in Nat \ {0} |-> [c \in BOOLEAN |-> IF c THEN << >> ELSE <<Root[t]>>]]
      BY <3>1
    <3>3. D[g][t] = [i \in Nat \ {0} |-> [c \in BOOLEAN |-> IF c THEN << >> ELSE <<Root[t]>>]]
      BY <3>1
    <3> QED BY <3>2, <3>3
  <2> HIDE DEF D
  <2> QED BY <2>1, <2>2, LengthCases
<1>3. Recursive(Seq(Data), H, Lengths, D)
  <2>1. [i \in Nat \ {0} |-> [c \in BOOLEAN |-> << >>]] \in H /\ Lengths \in [Seq(Data) -> Nat]
    BY DEF Lengths
  <2> HIDE DEF D, H
  <2> QED BY <1>1, <1>2, <2>1 DEF Recursive
<1>4. PICK f \in [Seq(Data) -> H] : f = D[f]
  <2> HIDE DEF D, H
  <2> QED BY <1>3, RecursionExists
<1>5. f = [t \in Seq(Data) |->
            [i \in Nat \ {0} |-> [c \in BOOLEAN |->
              LET k == LargestPowerOfTwoBelow(Len(t))
              IN  IF i >= Len(t) THEN IF c THEN << >> ELSE <<Root[t]>>
                  ELSE IF i <= k THEN Append(f[LeftOf(t)][i][c], Root[RightOf(t)])
                  ELSE Append(f[RightOf(t)][i - k][FALSE], Root[LeftOf(t)])]]]
  BY <1>4
<1> HIDE DEF D, H
<1>6. ConsistencyPath = [t \in Seq(Data) |->
            [i \in Nat \ {0} |-> [c \in BOOLEAN |->
              LET k == LargestPowerOfTwoBelow(Len(t))
              IN  IF i >= Len(t) THEN IF c THEN << >> ELSE <<Root[t]>>
                  ELSE IF i <= k THEN Append(ConsistencyPath[LeftOf(t)][i][c], Root[RightOf(t)])
                  ELSE Append(ConsistencyPath[RightOf(t)][i - k][FALSE], Root[LeftOf(t)])]]]
  BY <1>5 DEF ConsistencyPath
<1>7. ConsistencyPath[s] =
        [i \in Nat \ {0} |-> [c \in BOOLEAN |->
          LET k == LargestPowerOfTwoBelow(Len(s))
          IN  IF i >= Len(s) THEN IF c THEN << >> ELSE <<Root[s]>>
              ELSE IF i <= k THEN Append(ConsistencyPath[LeftOf(s)][i][c], Root[RightOf(s)])
              ELSE Append(ConsistencyPath[RightOf(s)][i - k][FALSE], Root[LeftOf(s)])]]
  BY <1>6
<1> QED BY <1>7

\* A proof of inclusion is made of hashes.
LEMMA ProofPathOfHashes ==
  \A s \in Seq(Data) : \A m \in Nat : ProofPath[s][m] \in Seq(Hash)
<1> DEFINE S == {s \in Seq(Data) : \A m \in Nat : ProofPath[s][m] \in Seq(Hash)}
<1>1. ASSUME NEW s \in Seq(Data), \A t \in Seq(Data) : Len(t) < Len(s) => t \in S
      PROVE  s \in S
  <2> SUFFICES ASSUME NEW m \in Nat PROVE ProofPath[s][m] \in Seq(Hash)
    OBVIOUS
  <2>1. CASE Len(s) <= 1
    <3>1. ProofPath[s][m] = << >>
      BY <2>1, ProofPathIs
    <3> QED BY <3>1
  <2>2. CASE Len(s) > 1
    <3> DEFINE k == LargestPowerOfTwoBelow(Len(s))
    <3>1. LeftOf(s) \in S /\ RightOf(s) \in S
      <4>1. /\ LeftOf(s) \in Seq(Data) /\ Len(LeftOf(s)) < Len(s)
            /\ RightOf(s) \in Seq(Data) /\ Len(RightOf(s)) < Len(s)
        BY <2>2, Halves
      <4> QED BY <1>1, <4>1
    <3>2. k \in Nat /\ ~ (Len(s) <= 1)
      BY <2>2, Halves
    <3>3. ProofPath[s][m] = IF m < k THEN Append(ProofPath[LeftOf(s)][m], Root[RightOf(s)])
                            ELSE Append(ProofPath[RightOf(s)][m - k], Root[LeftOf(s)])
      BY <3>2, ProofPathIs
    <3>4. Root[LeftOf(s)] \in Hash /\ Root[RightOf(s)] \in Hash
      BY <2>2, Halves, RootIsHash
    <3> HIDE DEF k
    <3>5. ~ (m < k) => m - k \in Nat
      BY <3>2
    <3> QED BY <3>1, <3>3, <3>4, <3>5
  <2> QED BY <2>1, <2>2, LengthCases
<1>2. \A s \in Seq(Data) : s \in S
  <2> HIDE DEF S
  <2> QED BY <1>1, TreeInduction
<1> QED BY <1>2

\* So is one of consistency, which is empty only if the old tree is the whole tree.
LEMMA ConsistencyPathOfHashes ==
  \A s \in Seq(Data) : \A m \in Nat \ {0} : \A complete \in BOOLEAN :
    /\ ConsistencyPath[s][m][complete] \in Seq(Hash)
    /\ Len(ConsistencyPath[s][m][FALSE]) >= 1
<1> DEFINE S == {s \in Seq(Data) : \A m \in Nat \ {0} : \A complete \in BOOLEAN :
                    /\ ConsistencyPath[s][m][complete] \in Seq(Hash)
                    /\ Len(ConsistencyPath[s][m][FALSE]) >= 1}
<1>1. ASSUME NEW s \in Seq(Data), \A t \in Seq(Data) : Len(t) < Len(s) => t \in S
      PROVE  s \in S
  <2>0. ASSUME NEW m \in Nat \ {0}, NEW complete \in BOOLEAN
        PROVE  /\ ConsistencyPath[s][m][complete] \in Seq(Hash)
               /\ ~complete => Len(ConsistencyPath[s][m][complete]) >= 1
    <3>1. CASE m >= Len(s)
      <4>1. ConsistencyPath[s][m][complete] = IF complete THEN << >> ELSE <<Root[s]>>
        BY <3>1, ConsistencyPathIs
      <4>2. Root[s] \in Hash
        BY RootIsHash
      <4>3. <<Root[s]>> \in Seq(Hash) /\ Len(<<Root[s]>>) = 1 /\ << >> \in Seq(Hash)
        BY <4>2
      <4> QED BY <4>1, <4>3
    <3>2. CASE ~ (m >= Len(s))
      <4> DEFINE k == LargestPowerOfTwoBelow(Len(s))
      <4>0. PICK n \in Nat : n = Len(s)
        OBVIOUS
      <4>1. Len(s) > 1
        BY <3>2, <4>0
      <4>2. LeftOf(s) \in S /\ RightOf(s) \in S
        <5>1. /\ LeftOf(s) \in Seq(Data) /\ Len(LeftOf(s)) < Len(s)
              /\ RightOf(s) \in Seq(Data) /\ Len(RightOf(s)) < Len(s)
          BY <4>1, Halves
        <5> QED BY <1>1, <5>1
      <4>3. k \in Nat
        BY <4>1, Halves
      <4>4. ConsistencyPath[s][m][complete] =
              IF m <= k
                THEN Append(ConsistencyPath[LeftOf(s)][m][complete], Root[RightOf(s)])
                ELSE Append(ConsistencyPath[RightOf(s)][m - k][FALSE], Root[LeftOf(s)])
        BY <3>2, ConsistencyPathIs
      <4>5. Root[LeftOf(s)] \in Hash /\ Root[RightOf(s)] \in Hash
        BY <4>1, Halves, RootIsHash
      <4> HIDE DEF k
      <4>6. ~ (m <= k) => m - k \in Nat \ {0}
        BY <4>3
      <4>7. PICK p \in Seq(Hash), h \in Hash : ConsistencyPath[s][m][complete] = Append(p, h)
        BY <4>2, <4>4, <4>5, <4>6
      <4>8. Append(p, h) \in Seq(Hash) /\ Len(Append(p, h)) >= 1
        OBVIOUS
      <4> QED BY <4>7, <4>8
    <3> QED BY <3>1, <3>2
  <2> QED BY <2>0
<1>2. \A s \in Seq(Data) : s \in S
  <2> HIDE DEF S
  <2> QED BY <1>1, TreeInduction
<1> QED BY <1>2

-----------------------------------------------------------------------------
(* Positions *)

At(fn, sn) == [fn |-> fn, sn |-> sn]

\* The measure of a position.
Indices == [at \in Position |-> at.fn]

\* Positions, and a parent's.
LEMMA Positions ==
  /\ \A fn, sn \in Nat : /\ At(fn, sn) \in Position
                         /\ At(fn, sn).fn = fn /\ At(fn, sn).sn = sn
                         /\ Parents(At(fn, sn)) = At(fn \div 2, sn \div 2)
  /\ \A at \in Position : /\ at.fn \in Nat /\ at.sn \in Nat /\ at = At(at.fn, at.sn)
                          /\ Parents(at) \in Position
                          /\ at.fn # 0 => Indices[Parents(at)] < Indices[at]
<1>1. ASSUME NEW fn \in Nat, NEW sn \in Nat
      PROVE  /\ At(fn, sn) \in Position
             /\ At(fn, sn).fn = fn /\ At(fn, sn).sn = sn
             /\ Parents(At(fn, sn)) = At(fn \div 2, sn \div 2)
  BY DEF At, Position, Parents
<1>2. ASSUME NEW at \in Position
      PROVE  /\ at.fn \in Nat /\ at.sn \in Nat /\ at = At(at.fn, at.sn)
             /\ Parents(at) \in Position
             /\ at.fn # 0 => Indices[Parents(at)] < Indices[at]
  <2>1. at.fn \in Nat /\ at.sn \in Nat /\ at = At(at.fn, at.sn)
    BY DEF Position, At
  <2>2. at.fn \div 2 \in Nat /\ at.sn \div 2 \in Nat /\ (at.fn # 0 => at.fn \div 2 < at.fn)
    BY <2>1
  <2>3. Parents(at) \in Position
    BY <2>2 DEF Parents, Position
  <2>4. Indices[at] = at.fn /\ Indices[Parents(at)] = at.fn \div 2
    BY <2>3 DEF Indices, Parents
  <2> QED BY <2>1, <2>2, <2>3, <2>4
<1> QED BY <1>1, <1>2

\* SkipOnes is what its definition says.
LEMMA SkipOnesIs ==
  ASSUME NEW fn \in Nat, NEW sn \in Nat
  PROVE  /\ SkipOnes[At(fn, sn)] = IF fn % 2 = 1 THEN SkipOnes[At(fn \div 2, sn \div 2)]
                                   ELSE At(fn, sn)
<1> DEFINE D == [f \in [Position -> Position] |->
                  [at \in Position |-> IF at.fn % 2 = 1 THEN f[Parents(at)] ELSE at]]
<1>1. D \in [[Position -> Position] -> [Position -> Position]]
  BY Positions
<1>2. ASSUME NEW f \in [Position -> Position], NEW g \in [Position -> Position],
             NEW at \in Position,
             \A y \in Position : Indices[y] < Indices[at] => f[y] = g[y]
      PROVE  D[f][at] = D[g][at]
  <2>1. at.fn % 2 = 1 => Parents(at) \in Position /\ Indices[Parents(at)] < Indices[at]
    BY Positions
  <2>2. at.fn % 2 = 1 => f[Parents(at)] = g[Parents(at)]
    BY <1>2, <2>1
  <2> QED BY <2>2
<1>3. Recursive(Position, Position, Indices, D)
  <2>1. At(0, 0) \in Position /\ Indices \in [Position -> Nat]
    BY Positions DEF Indices
  <2> HIDE DEF D
  <2> QED BY <1>1, <1>2, <2>1 DEF Recursive
<1>4. PICK f \in [Position -> Position] : f = D[f]
  <2> HIDE DEF D
  <2> QED BY <1>3, RecursionExists
<1>5. f = [at \in Position |-> IF at.fn % 2 = 1 THEN f[Parents(at)] ELSE at]
  BY <1>4
<1>6. SkipOnes = [at \in Position |-> IF at.fn % 2 = 1 THEN SkipOnes[Parents(at)] ELSE at]
  BY <1>5 DEF SkipOnes
<1> QED BY <1>6, Positions

\* SkipZeros is what its definition says.
LEMMA SkipZerosIs ==
  ASSUME NEW fn \in Nat, NEW sn \in Nat
  PROVE  SkipZeros[At(fn, sn)] = IF fn % 2 = 0 /\ fn # 0
                                   THEN SkipZeros[At(fn \div 2, sn \div 2)]
                                   ELSE At(fn, sn)
<1> DEFINE D == [f \in [Position -> Position] |->
                  [at \in Position |->
                    IF at.fn % 2 = 0 /\ at.fn # 0 THEN f[Parents(at)] ELSE at]]
<1>1. D \in [[Position -> Position] -> [Position -> Position]]
  BY Positions
<1>2. ASSUME NEW f \in [Position -> Position], NEW g \in [Position -> Position],
             NEW at \in Position,
             \A y \in Position : Indices[y] < Indices[at] => f[y] = g[y]
      PROVE  D[f][at] = D[g][at]
  <2>1. at.fn # 0 => Parents(at) \in Position /\ Indices[Parents(at)] < Indices[at]
    BY Positions
  <2>2. at.fn # 0 => f[Parents(at)] = g[Parents(at)]
    BY <1>2, <2>1
  <2> QED BY <2>2
<1>3. Recursive(Position, Position, Indices, D)
  <2>1. At(0, 0) \in Position /\ Indices \in [Position -> Nat]
    BY Positions DEF Indices
  <2> HIDE DEF D
  <2> QED BY <1>1, <1>2, <2>1 DEF Recursive
<1>4. PICK f \in [Position -> Position] : f = D[f]
  <2> HIDE DEF D
  <2> QED BY <1>3, RecursionExists
<1>5. f = [at \in Position |-> IF at.fn % 2 = 0 /\ at.fn # 0 THEN f[Parents(at)] ELSE at]
  BY <1>4
<1>6. SkipZeros = [at \in Position |->
                     IF at.fn % 2 = 0 /\ at.fn # 0 THEN SkipZeros[Parents(at)] ELSE at]
  BY <1>5 DEF SkipZeros
<1> QED BY <1>6, Positions

\* Halves of numbers, and of sums with a power of two.
LEMMA Half ==
  /\ \A n \in Nat : /\ n \div 2 \in Nat
                    /\ n % 2 = 0 => n = 2 * (n \div 2)
                    /\ n % 2 # 0 => n % 2 = 1 /\ n = 2 * (n \div 2) + 1
  /\ \A n, h \in Nat : (n + 2 * h) \div 2 = n \div 2 + h /\ (n + 2 * h) % 2 = n % 2
  /\ \A n, m \in Nat : /\ n <= m => n \div 2 <= m \div 2
                       /\ n < 2 * m <=> n \div 2 < m
                       /\ n + 1 < 2 * m => n \div 2 + 1 <= m
<1>1. ASSUME NEW n \in Nat
      PROVE  /\ n \div 2 \in Nat
             /\ n % 2 = 0 => n = 2 * (n \div 2)
             /\ n % 2 # 0 => n % 2 = 1 /\ n = 2 * (n \div 2) + 1
  OBVIOUS
<1>2. ASSUME NEW n \in Nat, NEW h \in Nat
      PROVE  (n + 2 * h) \div 2 = n \div 2 + h /\ (n + 2 * h) % 2 = n % 2
  OBVIOUS
<1>3. ASSUME NEW n \in Nat, NEW m \in Nat
      PROVE  /\ n <= m => n \div 2 <= m \div 2
             /\ n < 2 * m <=> n \div 2 < m
             /\ n + 1 < 2 * m => n \div 2 + 1 <= m
  OBVIOUS
<1> QED BY <1>1, <1>2, <1>3

OnesBeside(fn, sn, P) ==
  \E f, t, Q \in Nat :
    /\ IsPowerOfTwo[Q] /\ f <= t /\ t < Q /\ f + 1 < Q
    /\ SkipOnes[At(fn, sn)] = At(f, t)
    /\ SkipOnes[At(fn + P, sn + P)] = At(f + Q, t + Q)

\* A position next to a full subtree of P leaves goes up, past right siblings, with
\* the position in its own subtree: that is a Q of levels lower.
LEMMA SkipOnesBeside ==
  ASSUME NEW fn \in Nat, NEW sn \in Nat, NEW P \in Nat, IsPowerOfTwo[P],
         fn <= sn, sn < P, fn + 1 < P
  PROVE  OnesBeside(fn, sn, P)
<1> USE DEF OnesBeside
<1> DEFINE Held == {n \in Nat : \A m, p \in Nat :
                      IsPowerOfTwo[p] /\ n <= m /\ m < p /\ n + 1 < p => OnesBeside(n, m, p)}
<1>1. ASSUME NEW n \in Nat, \A j \in Nat : j < n => j \in Held
      PROVE  n \in Held
  <2> SUFFICES ASSUME NEW m \in Nat, NEW p \in Nat,
                      IsPowerOfTwo[p], n <= m, m < p, n + 1 < p
               PROVE  OnesBeside(n, m, p)
    OBVIOUS
  <2>1. PICK h \in Nat : p = 2 * h /\ IsPowerOfTwo[h]
    BY PowerOfTwo
  <2>2. (n + p) % 2 = n % 2 /\ (n + p) \div 2 = n \div 2 + h /\ (m + p) \div 2 = m \div 2 + h
    BY <2>1, Half
  <2>3. n + p \in Nat /\ m + p \in Nat
    OBVIOUS
  <2>4. CASE n % 2 = 1
    <3>1. n \div 2 \in Nat /\ m \div 2 \in Nat /\ n \div 2 < n /\ n = 2 * (n \div 2) + 1
      BY <2>4, Half
    <3>2. n \div 2 <= m \div 2 /\ m \div 2 < h
      BY <2>1, Half
    <3>3. n \div 2 + 1 < h
      BY <2>1, <3>1
    <3>4. SkipOnes[At(n, m)] = SkipOnes[At(n \div 2, m \div 2)]
      BY <2>4, SkipOnesIs
    <3>5. SkipOnes[At(n + p, m + p)] = SkipOnes[At(n \div 2 + h, m \div 2 + h)]
      BY <2>2, <2>3, <2>4, SkipOnesIs
    <3>6. n \div 2 \in Held
      BY <1>1, <3>1
    <3>7. OnesBeside(n \div 2, m \div 2, h)
      BY <2>1, <3>1, <3>2, <3>3, <3>6
    <3> QED BY <3>4, <3>5, <3>7
  <2>5. CASE n % 2 # 1
    <3>1. SkipOnes[At(n, m)] = At(n, m)
      BY <2>5, SkipOnesIs
    <3>2. SkipOnes[At(n + p, m + p)] = At(n + p, m + p)
      BY <2>2, <2>3, <2>5, SkipOnesIs
    <3> QED BY <3>1, <3>2
  <2> QED BY <2>4, <2>5
<1>2. fn \in Held
  <2> HIDE DEF Held
  <2> QED BY <1>1, Induction
<1> QED BY <1>2

OnesUnder(fn, sn, P) ==
  \E f, t, Q \in Nat :
    /\ IsPowerOfTwo[Q] /\ f < Q /\ Q <= t /\ t < 2 * Q
    /\ SkipOnes[At(fn, P - 1)] = At(f, Q - 1)
    /\ SkipOnes[At(fn, sn)] = At(f, t)

\* A position in a full subtree of P leaves, on the left of fewer others, goes up
\* past right siblings in the whole tree as it does in the subtree.
LEMMA SkipOnesUnder ==
  ASSUME NEW fn \in Nat, NEW sn \in Nat, NEW P \in Nat, IsPowerOfTwo[P],
         fn < P, P <= sn, sn < 2 * P
  PROVE  OnesUnder(fn, sn, P)
<1> USE DEF OnesUnder
<1> DEFINE Held == {n \in Nat : \A m, p \in Nat :
                      IsPowerOfTwo[p] /\ n < p /\ p <= m /\ m < 2 * p => OnesUnder(n, m, p)}
<1>1. ASSUME NEW n \in Nat, \A j \in Nat : j < n => j \in Held
      PROVE  n \in Held
  <2> SUFFICES ASSUME NEW m \in Nat, NEW p \in Nat,
                      IsPowerOfTwo[p], n < p, p <= m, m < 2 * p
               PROVE  OnesUnder(n, m, p)
    OBVIOUS
  <2>1. p - 1 \in Nat
    OBVIOUS
  <2>2. CASE n % 2 = 1
    <3>1. n \div 2 \in Nat /\ m \div 2 \in Nat /\ n \div 2 < n /\ n = 2 * (n \div 2) + 1
      BY <2>2, Half
    <3>2. p # 1
      BY <3>1
    <3>3. PICK h \in Nat : p = 2 * h /\ IsPowerOfTwo[h]
      BY <3>2, PowerOfTwo
    <3>4. h <= m \div 2 /\ m \div 2 < 2 * h /\ (p - 1) \div 2 = h - 1 /\ n \div 2 < h
      BY <3>1, <3>3
    <3>5. SkipOnes[At(n, m)] = SkipOnes[At(n \div 2, m \div 2)]
      BY <2>2, SkipOnesIs
    <3>6. SkipOnes[At(n, p - 1)] = SkipOnes[At(n \div 2, h - 1)]
      BY <2>1, <2>2, <3>4, SkipOnesIs
    <3>7. n \div 2 \in Held
      BY <1>1, <3>1
    <3>8. OnesUnder(n \div 2, m \div 2, h)
      BY <3>1, <3>3, <3>4, <3>7
    <3> QED BY <3>5, <3>6, <3>8
  <2>3. CASE n % 2 # 1
    <3>1. SkipOnes[At(n, m)] = At(n, m)
      BY <2>3, SkipOnesIs
    <3>2. SkipOnes[At(n, p - 1)] = At(n, p - 1)
      BY <2>1, <2>3, SkipOnesIs
    <3> QED BY <3>1, <3>2
  <2> QED BY <2>2, <2>3
<1>2. fn \in Held
  <2> HIDE DEF Held
  <2> QED BY <1>1, Induction
<1> QED BY <1>2

\* Past right siblings the first position is reached from the last leaf of a tree
\* exactly if its size is a power of two, and then the last position with it.
LEMMA SkipOnesToFirst ==
  ASSUME NEW m \in Nat, m > 0, NEW sn \in Nat
  PROVE  /\ SkipOnes[At(m - 1, sn)] \in Position
         /\ SkipOnes[At(m - 1, sn)].fn = 0 <=> IsPowerOfTwo[m]
         /\ IsPowerOfTwo[m] => SkipOnes[At(m - 1, m - 1)] = At(0, 0)
<1> DEFINE Goal(i, t) == /\ SkipOnes[At(i - 1, t)] \in Position
                         /\ SkipOnes[At(i - 1, t)].fn = 0 <=> IsPowerOfTwo[i]
                         /\ IsPowerOfTwo[i] => SkipOnes[At(i - 1, i - 1)] = At(0, 0)
           Held == {i \in Nat : \A t \in Nat : i > 0 => Goal(i, t)}
<1>1. ASSUME NEW i \in Nat, \A j \in Nat : j < i => j \in Held
      PROVE  i \in Held
  <2> SUFFICES ASSUME NEW t \in Nat, i > 0 PROVE Goal(i, t)
    OBVIOUS
  <2>1. i - 1 \in Nat
    OBVIOUS
  <2>2. CASE (i - 1) % 2 = 1
    <3> DEFINE h == i \div 2
    <3>1. h \in Nat /\ h > 0 /\ h < i /\ i % 2 = 0 /\ (i - 1) \div 2 = h - 1 /\ i > 1
      BY <2>2
    <3>2. t \div 2 \in Nat
      OBVIOUS
    <3>3. IsPowerOfTwo[i] <=> IsPowerOfTwo[h]
      BY <3>1, PowerOfTwoIs
    <3> HIDE DEF h
    <3>4. SkipOnes[At(i - 1, t)] = SkipOnes[At(h - 1, t \div 2)]
      BY <2>1, <2>2, <3>1, SkipOnesIs
    <3>5. SkipOnes[At(i - 1, i - 1)] = SkipOnes[At(h - 1, h - 1)]
      BY <2>1, <2>2, <3>1, SkipOnesIs
    <3>6. Goal(h, t \div 2)
      BY <1>1, <3>1, <3>2
    <3> QED BY <3>3, <3>4, <3>5, <3>6
  <2>3. CASE (i - 1) % 2 # 1
    <3>1. SkipOnes[At(i - 1, t)] = At(i - 1, t) /\ SkipOnes[At(i - 1, i - 1)] = At(i - 1, i - 1)
      BY <2>1, <2>3, SkipOnesIs
    <3>2. At(i - 1, t) \in Position /\ At(i - 1, t).fn = i - 1
      BY <2>1, Positions
    <3>3. i = 1 \/ (i > 1 /\ i % 2 # 0)
      BY <2>3
    <3>4. IsPowerOfTwo[i] <=> i = 1
      BY <3>3, PowerOfTwoIs
    <3> QED BY <3>1, <3>2, <3>4
  <2> QED BY <2>2, <2>3
<1>2. m \in Held
  <2> HIDE DEF Held
  <2> QED BY <1>1, Induction
<1> QED BY <1>2

ZerosBeside(fn, sn, P) ==
  \E f, t, Q \in Nat :
    /\ IsPowerOfTwo[Q] /\ f <= t /\ t < Q /\ Q # 1
    /\ SkipZeros[At(fn, sn)] = At(f, t)
    /\ SkipZeros[At(fn + P, sn + P)] = At(f + Q, t + Q)

\* As SkipOnesBeside, past left siblings.
LEMMA SkipZerosBeside ==
  ASSUME NEW fn \in Nat, NEW sn \in Nat, NEW P \in Nat, IsPowerOfTwo[P],
         fn <= sn, sn < P, fn # 0
  PROVE  ZerosBeside(fn, sn, P)
<1> USE DEF ZerosBeside
<1> DEFINE Held == {n \in Nat : \A m, p \in Nat :
                      IsPowerOfTwo[p] /\ n <= m /\ m < p /\ n # 0 => ZerosBeside(n, m, p)}
<1>1. ASSUME NEW n \in Nat, \A j \in Nat : j < n => j \in Held
      PROVE  n \in Held
  <2> SUFFICES ASSUME NEW m \in Nat, NEW p \in Nat,
                      IsPowerOfTwo[p], n <= m, m < p, n # 0
               PROVE  ZerosBeside(n, m, p)
    OBVIOUS
  <2>1. PICK h \in Nat : p = 2 * h /\ IsPowerOfTwo[h]
    BY PowerOfTwo
  <2>2. (n + p) % 2 = n % 2 /\ (n + p) \div 2 = n \div 2 + h /\ (m + p) \div 2 = m \div 2 + h
    BY <2>1, Half
  <2>3. n + p \in Nat /\ m + p \in Nat /\ n + p # 0
    OBVIOUS
  <2>4. CASE n % 2 = 0
    <3>1. n \div 2 \in Nat /\ m \div 2 \in Nat /\ n \div 2 < n /\ n \div 2 # 0
      BY <2>4
    <3>2. n \div 2 <= m \div 2 /\ m \div 2 < h
      BY <2>1, Half
    <3>3. SkipZeros[At(n, m)] = SkipZeros[At(n \div 2, m \div 2)]
      BY <2>4, SkipZerosIs
    <3>4. SkipZeros[At(n + p, m + p)] = SkipZeros[At(n \div 2 + h, m \div 2 + h)]
      BY <2>2, <2>3, <2>4, SkipZerosIs
    <3>5. n \div 2 \in Held
      BY <1>1, <3>1
    <3>6. ZerosBeside(n \div 2, m \div 2, h)
      BY <2>1, <3>1, <3>2, <3>5
    <3> QED BY <3>3, <3>4, <3>6
  <2>5. CASE n % 2 # 0
    <3>1. SkipZeros[At(n, m)] = At(n, m)
      BY <2>5, SkipZerosIs
    <3>2. SkipZeros[At(n + p, m + p)] = At(n + p, m + p)
      BY <2>2, <2>3, <2>5, SkipZerosIs
    <3> QED BY <3>1, <3>2
  <2> QED BY <2>4, <2>5
<1>2. fn \in Held
  <2> HIDE DEF Held
  <2> QED BY <1>1, Induction
<1> QED BY <1>2

\* The only hash right of a full subtree goes up past left siblings to the level
\* where it is the second.
LEMMA SkipZerosFromPower ==
  ASSUME NEW P \in Nat, IsPowerOfTwo[P]
  PROVE  SkipZeros[At(P, P)] = At(1, 1)
<1> DEFINE Held == {p \in Nat : IsPowerOfTwo[p] => SkipZeros[At(p, p)] = At(1, 1)}
<1>1. ASSUME NEW p \in Nat, \A j \in Nat : j < p => j \in Held
      PROVE  p \in Held
  <2> SUFFICES ASSUME IsPowerOfTwo[p] PROVE SkipZeros[At(p, p)] = At(1, 1)
    OBVIOUS
  <2>1. CASE p = 1
    <3>1. 1 % 2 # 0
      OBVIOUS
    <3> QED BY <2>1, <3>1, SkipZerosIs
  <2>2. CASE p # 1
    <3>1. PICK h \in Nat : h = p \div 2 /\ IsPowerOfTwo[h] /\ p % 2 = 0 /\ h < p /\ p # 0
      <4>1. p >= 2 /\ p % 2 = 0 /\ p \div 2 \in Nat /\ IsPowerOfTwo[p \div 2]
        BY <2>2, PowerOfTwo
      <4> QED BY <4>1
    <3>2. SkipZeros[At(p, p)] = SkipZeros[At(h, h)]
      BY <3>1, SkipZerosIs
    <3>3. h \in Held
      BY <1>1, <3>1
    <3> QED BY <3>1, <3>2, <3>3
  <2> QED BY <2>1, <2>2
<1>2. P \in Held
  <2> HIDE DEF Held
  <2> QED BY <1>1, Induction
<1> QED BY <1>2

-----------------------------------------------------------------------------
(* The climb *)

Climber == [at : Position, past : BOOLEAN, old : Hash, new : Hash]

\* A longer proof is a proof and one more node.
LEMMA LastNode ==
  ASSUME NEW p \in Seq(Hash), Len(p) # 0
  PROVE  \E q \in Seq(Hash), x \in Hash : p = Append(q, x) /\ Len(q) < Len(p)
<1>1. PICK n \in Nat : n = Len(p)
  OBVIOUS
<1>2. n \in 1..n /\ n - 1 \in Nat /\ n - 1 <= n
  BY <1>1
<1>3. \A i \in 1..n : p[i] \in Hash
  BY <1>1
<1> DEFINE q == SubSeq(p, 1, n - 1)
<1>4. q \in Seq(Hash) /\ Len(q) = n - 1 /\ \A i \in 1..n - 1 : q[i] = p[i]
  <2>1. PICK k \in Nat : k = n - 1
    BY <1>2
  <2>2. \A i \in 1..k : p[i] \in Hash
    BY <1>2, <1>3, <2>1
  <2>3. SubSeq(p, 1, k) \in Seq(Hash) /\ Len(SubSeq(p, 1, k)) = k
    BY <1>1, <1>2, <2>1
  <2>4. \A i \in 1..k : SubSeq(p, 1, k)[i] = p[i]
    BY <1>1, <1>2, <2>1
  <2> QED BY <2>1, <2>3, <2>4
<1> HIDE DEF q
<1>5. Append(q, p[n]) \in Seq(Hash) /\ Len(Append(q, p[n])) = n
  BY <1>2, <1>3, <1>4
<1>6. \A i \in 1..n : Append(q, p[n])[i] = p[i]
  BY <1>2, <1>4
<1>7. Append(q, p[n]) = p
  BY <1>1, <1>5, <1>6
<1> QED BY <1>1, <1>2, <1>3, <1>4, <1>7

\* SkipZeros stays among the positions.
LEMMA SkipZerosPosition == \A at \in Position : SkipZeros[at] \in Position
<1> DEFINE Held == {n \in Nat : \A sn \in Nat : SkipZeros[At(n, sn)] \in Position}
<1>1. ASSUME NEW n \in Nat, \A j \in Nat : j < n => j \in Held
      PROVE  n \in Held
  <2> SUFFICES ASSUME NEW sn \in Nat PROVE SkipZeros[At(n, sn)] \in Position
    OBVIOUS
  <2>1. CASE n % 2 = 0 /\ n # 0
    <3>1. n \div 2 \in Nat /\ n \div 2 < n /\ sn \div 2 \in Nat
      BY <2>1
    <3>2. SkipZeros[At(n \div 2, sn \div 2)] \in Position
      BY <1>1, <3>1
    <3> QED BY <2>1, <3>2, SkipZerosIs
  <2>2. CASE ~ (n % 2 = 0 /\ n # 0)
    <3>1. SkipZeros[At(n, sn)] = At(n, sn)
      BY <2>2, SkipZerosIs
    <3> QED BY <3>1, Positions
  <2> QED BY <2>1, <2>2
<1>2. \A n \in Nat : n \in Held
  <2> HIDE DEF Held
  <2> QED BY <1>1, Induction
<1> QED BY <1>2, Positions

\* A climber stays one.
LEMMA ClimberClimbs ==
  ASSUME NEW c \in Climber, NEW node \in Hash
  PROVE  Climb(c, node) \in Climber
<1>1. /\ c.at \in Position /\ c.past \in BOOLEAN /\ c.old \in Hash /\ c.new \in Hash
      /\ c = [at |-> c.at, past |-> c.past, old |-> c.old, new |-> c.new]
  BY DEF Climber
<1>2. NodeHash(node, c.old) \in Hash /\ NodeHash(node, c.new) \in Hash
      /\ NodeHash(c.new, node) \in Hash
  BY <1>1, HashIs DEF IsHashes
<1>3. Parents(c.at) \in Position /\ Parents(SkipZeros[c.at]) \in Position
  BY <1>1, SkipZerosPosition, Positions
<1> QED BY <1>1, <1>2, <1>3 DEF Climb, Climber

Started(at, hash) == [at |-> at, past |-> FALSE, old |-> hash, new |-> hash]

\* The climbers along a proof.
AreClimbers(at, hash, p, f) ==
  f = [i \in 0..Len(p) |-> IF i = 0 THEN Started(at, hash) ELSE Climb(f[i - 1], p[i])]

\* There are such climbers, and the last is the one that Climbed gives.
LEMMA ClimbersExist ==
  ASSUME NEW at \in Position, NEW hash \in Hash, NEW p \in Seq(Hash)
  PROVE  \E f : AreClimbers(at, hash, p, f) /\ Climbed(at, hash, p) = f[Len(p)]
<1>1. PICK n \in Nat : n = Len(p)
  OBVIOUS
<1> DEFINE S == 0..n
           mu == [i \in S |-> i]
           D == [f \in [S -> Climber] |->
                  [i \in S |-> IF i = 0 THEN Started(at, hash) ELSE Climb(f[i - 1], p[i])]]
<1>2. Started(at, hash) \in Climber
  BY DEF Started, Climber
<1>3. \A i \in S : i # 0 => i - 1 \in S /\ p[i] \in Hash /\ mu[i - 1] < mu[i]
  <2> SUFFICES ASSUME NEW i \in S, i # 0
               PROVE  i - 1 \in S /\ p[i] \in Hash /\ mu[i - 1] < mu[i]
    OBVIOUS
  <2>1. i - 1 \in 0..n /\ i \in 1..n
    BY <1>1
  <2>2. p[i] \in Hash
    BY <1>1, <2>1
  <2> QED BY <2>1, <2>2
<1>4. D \in [[S -> Climber] -> [S -> Climber]]
  <2> SUFFICES ASSUME NEW f \in [S -> Climber], NEW i \in S
               PROVE  (IF i = 0 THEN Started(at, hash) ELSE Climb(f[i - 1], p[i])) \in Climber
    OBVIOUS
  <2> HIDE DEF S, mu, D
  <2> QED BY <1>2, <1>3, ClimberClimbs
<1>5. ASSUME NEW f \in [S -> Climber], NEW g \in [S -> Climber], NEW i \in S,
             \A y \in S : mu[y] < mu[i] => f[y] = g[y]
      PROVE  D[f][i] = D[g][i]
  <2>1. i # 0 => f[i - 1] = g[i - 1]
    <3> HIDE DEF S, mu
    <3> QED BY <1>3, <1>5
  <2> QED BY <2>1
<1>6. Recursive(S, Climber, mu, D)
  <2>1. Climber # {} /\ mu \in [S -> Nat]
    BY <1>2
  <2> HIDE DEF S, mu, D
  <2> QED BY <1>4, <1>5, <2>1 DEF Recursive
<1>7. PICK f \in [S -> Climber] : f = D[f]
  <2> HIDE DEF S, mu, D
  <2> QED BY <1>6, RecursionExists
<1>8. f = [i \in S |-> IF i = 0 THEN Started(at, hash) ELSE Climb(f[i - 1], p[i])]
  BY <1>7
<1>9. AreClimbers(at, hash, p, f)
  BY <1>1, <1>8 DEF AreClimbers
<1> DEFINE up == CHOOSE up : up = [i \in 0..Len(p) |->
                   IF i = 0 THEN [at |-> at, past |-> FALSE, old |-> hash, new |-> hash]
                   ELSE Climb(up[i - 1], p[i])]
<1>10. up = [i \in 0..Len(p) |->
              IF i = 0 THEN [at |-> at, past |-> FALSE, old |-> hash, new |-> hash]
              ELSE Climb(up[i - 1], p[i])]
  <2> HIDE DEF D, S, mu
  <2> QED BY <1>9 DEF AreClimbers, Started
<1>11. Climbed(at, hash, p) = up[Len(p)]
  BY DEF Climbed
<1> HIDE DEF up
<1>12. AreClimbers(at, hash, p, up)
  BY <1>10 DEF AreClimbers, Started
<1> QED BY <1>11, <1>12

\* The climb along a proof begins at the start and takes one node after another.
LEMMA ClimbedIs ==
  ASSUME NEW at \in Position, NEW hash \in Hash
  PROVE  /\ Climbed(at, hash, << >>) = Started(at, hash)
         /\ \A q \in Seq(Hash), x \in Hash :
              Climbed(at, hash, Append(q, x)) = Climb(Climbed(at, hash, q), x)
<1>1. Climbed(at, hash, << >>) = Started(at, hash)
  <2>1. << >> \in Seq(Hash) /\ Len(<< >>) = 0
    OBVIOUS
  <2>2. PICK f : AreClimbers(at, hash, << >>, f) /\ Climbed(at, hash, << >>) = f[0]
    BY <2>1, ClimbersExist
  <2>3. 0 \in 0..0
    OBVIOUS
  <2> QED BY <2>1, <2>2, <2>3 DEF AreClimbers
<1>2. ASSUME NEW q \in Seq(Hash), NEW x \in Hash
      PROVE  Climbed(at, hash, Append(q, x)) = Climb(Climbed(at, hash, q), x)
  <2>1. PICK n \in Nat : n = Len(q)
    OBVIOUS
  <2>2. PICK p \in Seq(Hash) : p = Append(q, x)
    <3>1. Append(q, x) \in Seq(Hash)
      OBVIOUS
    <3> QED BY <3>1
  <2>3. Len(p) = n + 1 /\ p[n + 1] = x /\ \A i \in 1..n : p[i] = q[i]
    BY <2>1, <2>2
  <2>4. PICK f : AreClimbers(at, hash, p, f) /\ Climbed(at, hash, p) = f[n + 1]
    BY <2>3, ClimbersExist
  <2>5. PICK g : AreClimbers(at, hash, q, g) /\ Climbed(at, hash, q) = g[n]
    BY <2>1, ClimbersExist
  <2>6. \A i \in 0..n + 1 : f[i] = IF i = 0 THEN Started(at, hash) ELSE Climb(f[i - 1], p[i])
    BY <2>3, <2>4 DEF AreClimbers
  <2>7. \A i \in 0..n : g[i] = IF i = 0 THEN Started(at, hash) ELSE Climb(g[i - 1], q[i])
    BY <2>1, <2>5 DEF AreClimbers
  <2> DEFINE Same == {i \in Nat : i <= n => f[i] = g[i]}
  <2>8. ASSUME NEW i \in Nat, \A j \in Nat : j < i => j \in Same
        PROVE  i \in Same
    <3> SUFFICES ASSUME i <= n PROVE f[i] = g[i]
      OBVIOUS
    <3>1. i \in 0..n /\ i \in 0..n + 1
      OBVIOUS
    <3>2. CASE i = 0
      BY <2>6, <2>7, <3>1, <3>2
    <3>3. CASE i # 0
      <4>1. i - 1 \in Nat /\ i - 1 < i /\ i - 1 <= n /\ i \in 1..n
        BY <3>3
      <4>2. f[i - 1] = g[i - 1] /\ p[i] = q[i]
        BY <2>3, <2>8, <4>1
      <4>3. f[i] = Climb(f[i - 1], p[i]) /\ g[i] = Climb(g[i - 1], q[i])
        BY <2>6, <2>7, <3>1, <3>3
      <4> QED BY <4>2, <4>3
    <3> QED BY <3>2, <3>3
  <2>9. f[n] = g[n]
    <3>1. \A i \in Nat : i \in Same
      <4> HIDE DEF Same
      <4> QED BY <2>8, Induction
    <3> QED BY <3>1
  <2>10. f[n + 1] = Climb(f[n], x)
    <3>1. n + 1 \in 0..n + 1 /\ n + 1 # 0 /\ (n + 1) - 1 = n
      OBVIOUS
    <3>2. f[n + 1] = Climb(f[(n + 1) - 1], p[n + 1])
      BY <2>6, <3>1
    <3> QED BY <2>3, <3>1, <3>2
  <2> QED BY <2>2, <2>4, <2>5, <2>9, <2>10
<1> QED BY <1>1, <1>2

\* What is climbed is a climber.
LEMMA ClimbedIsClimber ==
  ASSUME NEW at \in Position, NEW hash \in Hash
  PROVE  \A p \in Seq(Hash) : Climbed(at, hash, p) \in Climber
<1> DEFINE Held == {n \in Nat : \A p \in Seq(Hash) : Len(p) = n => Climbed(at, hash, p) \in Climber}
<1>1. ASSUME NEW n \in Nat, \A j \in Nat : j < n => j \in Held
      PROVE  n \in Held
  <2> SUFFICES ASSUME NEW p \in Seq(Hash), Len(p) = n PROVE Climbed(at, hash, p) \in Climber
    OBVIOUS
  <2>1. CASE n = 0
    <3>1. p = << >>
      BY <2>1, LengthCases
    <3>2. Started(at, hash) \in Climber
      BY DEF Started, Climber
    <3> QED BY <3>1, <3>2, ClimbedIs
  <2>2. CASE n # 0
    <3>1. PICK q \in Seq(Hash), x \in Hash : p = Append(q, x) /\ Len(q) < Len(p)
      BY <2>2, LastNode
    <3>2. Climbed(at, hash, q) \in Climber
      <4>1. Len(q) \in Nat /\ Len(q) < n
        BY <3>1
      <4> QED BY <1>1, <4>1
    <3> QED BY <3>1, <3>2, ClimbedIs, ClimberClimbs
  <2> QED BY <2>1, <2>2
<1>2. \A n \in Nat : n \in Held
  <2> HIDE DEF Held
  <2> QED BY <1>1, Induction
<1> QED BY <1>2

\* The three cases of a climb.
LEMMA ClimbCases ==
  ASSUME NEW c \in Climber, NEW node
  PROVE  /\ c.at.sn = 0 => Climb(c, node).at = c.at /\ Climb(c, node).past
         /\ c.at.sn # 0 /\ (c.at.fn % 2 = 1 \/ c.at.fn = c.at.sn) =>
              Climb(c, node) = [at |-> Parents(SkipZeros[c.at]), past |-> FALSE,
                                old |-> NodeHash(node, c.old), new |-> NodeHash(node, c.new)]
         /\ c.at.sn # 0 /\ ~ (c.at.fn % 2 = 1 \/ c.at.fn = c.at.sn) =>
              Climb(c, node) = [at |-> Parents(c.at), past |-> FALSE,
                                old |-> c.old, new |-> NodeHash(c.new, node)]
<1>1. c = [at |-> c.at, past |-> c.past, old |-> c.old, new |-> c.new]
  BY DEF Climber
<1>2. c.at.sn = 0 => Climb(c, node) = [c EXCEPT !.past = TRUE]
  BY DEF Climb
<1>3. [c EXCEPT !.past = TRUE].at = c.at /\ [c EXCEPT !.past = TRUE].past
  BY <1>1
<1>4. c.at.sn # 0 /\ ~ (c.at.fn % 2 = 1 \/ c.at.fn = c.at.sn) =>
        Climb(c, node) = [at |-> Parents(c.at), past |-> FALSE,
                          old |-> c.old, new |-> NodeHash(c.new, node)]
  BY DEF Climb
<1>5. c.at.sn # 0 /\ (c.at.fn % 2 = 1 \/ c.at.fn = c.at.sn) =>
        Climb(c, node) = [at |-> Parents(SkipZeros[c.at]), past |-> FALSE,
                          old |-> NodeHash(node, c.old), new |-> NodeHash(node, c.new)]
  BY DEF Climb
<1> QED BY <1>2, <1>3, <1>4, <1>5

\* The climbs of one proof in a full subtree (d) and in the whole tree, which has
\* fewer leaves on its right (c): they are on a level of Q hashes of the subtree.
Under(d, c) ==
  \E f, t, Q \in Nat :
    /\ IsPowerOfTwo[Q] /\ f < Q /\ Q <= t /\ t < 2 * Q
    /\ d.at = At(f, Q - 1) /\ c.at = At(f, t)
    /\ ~d.past /\ ~c.past /\ d.old = c.old /\ d.new = c.new

\* The climbs in a subtree (d) and in the whole tree, which has a larger full subtree
\* on its left (c), of which Q hashes are on the level.
Beside(d, c) ==
  \E f, t, Q \in Nat :
    /\ IsPowerOfTwo[Q] /\ f <= t /\ t < Q
    /\ d.at = At(f, t) /\ c.at = At(f + Q, t + Q)
    /\ ~d.past /\ ~c.past /\ d.old = c.old /\ d.new = c.new

\* The proof is too long for the subtree, and ends or is too long for the tree.
Over(d, c) == d.past /\ d.at.sn = 0 /\ c.at.sn = 0

\* After another node the climbs are as far apart as before; and the tree is at its
\* top if the subtree was before that node, which is then its right sibling.
LEMMA UnderStep ==
  ASSUME NEW d \in Climber, NEW c \in Climber, NEW node \in Hash, Under(d, c) \/ Over(d, c)
  PROVE  /\ Under(Climb(d, node), Climb(c, node)) \/ Over(Climb(d, node), Climb(c, node))
         /\ AtTop(Climb(c, node)) <=> AtTop(d)
         /\ AtTop(d) => /\ Climb(c, node).new = NodeHash(d.new, node)
                        /\ Climb(c, node).old = d.old
<1> DEFINE e == Climb(d, node)
           g == Climb(c, node)
<1>1. CASE Over(d, c)
  <2>1. e.past /\ e.at = d.at /\ g.past /\ g.at = c.at
    BY <1>1, ClimbCases DEF Over
  <2> HIDE DEF e, g
  <2>2. Over(e, g) /\ ~AtTop(g) /\ ~AtTop(d)
    BY <1>1, <2>1 DEF Over, AtTop
  <2> QED BY <2>2 DEF e, g
<1>2. CASE Under(d, c)
  <2>1. PICK f \in Nat, t \in Nat, Q \in Nat :
          /\ IsPowerOfTwo[Q] /\ f < Q /\ Q <= t /\ t < 2 * Q
          /\ d.at = At(f, Q - 1) /\ c.at = At(f, t)
          /\ ~d.past /\ ~c.past /\ d.old = c.old /\ d.new = c.new
    BY <1>2 DEF Under
  <2>2. Q - 1 \in Nat /\ d.at.fn = f /\ d.at.sn = Q - 1 /\ c.at.fn = f /\ c.at.sn = t /\ t # 0
    BY <2>1, Positions
  <2>3. CASE Q = 1
    <3>1. f = 0 /\ t = 1 /\ d.at.sn = 0 /\ f % 2 = 0
      BY <2>1, <2>2, <2>3
    <3>2. e.past /\ e.at = d.at
      BY <3>1, ClimbCases
    <3>3. g = [at |-> Parents(c.at), past |-> FALSE, old |-> c.old, new |-> NodeHash(c.new, node)]
      BY <2>2, <3>1, ClimbCases
    <3>4. Parents(c.at) = At(0, 0)
      <4>1. 0 \div 2 = 0 /\ 1 \div 2 = 0
        OBVIOUS
      <4> QED BY <2>1, <3>1, <4>1, Positions
    <3> HIDE DEF e, g
    <3>5. g.at.sn = 0 /\ ~g.past /\ g.old = c.old /\ g.new = NodeHash(c.new, node)
      BY <3>3, <3>4, Positions
    <3>6. Over(e, g) /\ AtTop(g) /\ AtTop(d)
      BY <2>1, <3>1, <3>2, <3>5 DEF Over, AtTop
    <3> QED BY <2>1, <3>5, <3>6 DEF e, g
  <2>4. CASE Q # 1
    <3>1. PICK h \in Nat : Q = 2 * h /\ IsPowerOfTwo[h] /\ h >= 1
      BY <2>1, <2>4, PowerOfTwo
    <3>2. /\ f \div 2 \in Nat /\ t \div 2 \in Nat /\ (Q - 1) \div 2 = h - 1
          /\ f \div 2 < h /\ h <= t \div 2 /\ t \div 2 < 2 * h /\ t \div 2 # 0
      BY <2>1, <3>1
    <3>3. f = Q - 1 => f % 2 = 1
      BY <3>1
    <3>4. f # t /\ Q - 1 # 0
      BY <2>1, <3>1
    <3>5. Parents(d.at) = At(f \div 2, h - 1) /\ Parents(c.at) = At(f \div 2, t \div 2)
      BY <2>1, <2>2, <3>2, Positions
    <3>6. f % 2 = 1 => SkipZeros[d.at] = d.at /\ SkipZeros[c.at] = c.at
      <4>1. f % 2 = 1 => ~ (f % 2 = 0 /\ f # 0)
        OBVIOUS
      <4>2. PICK r \in Nat : r = Q - 1
        BY <2>2
      <4>3. f % 2 = 1 => SkipZeros[At(f, r)] = At(f, r) /\ SkipZeros[At(f, t)] = At(f, t)
        BY <4>1, SkipZerosIs
      <4> QED BY <2>1, <4>2, <4>3
    <3>7. /\ e.at = At(f \div 2, h - 1) /\ ~e.past
          /\ g.at = At(f \div 2, t \div 2) /\ ~g.past
          /\ e.old = g.old /\ e.new = g.new
      <4>1. CASE f % 2 = 1
        <5>1. e = [at |-> Parents(d.at), past |-> FALSE,
                   old |-> NodeHash(node, d.old), new |-> NodeHash(node, d.new)]
          BY <2>2, <3>4, <3>6, <4>1, ClimbCases
        <5>2. g = [at |-> Parents(c.at), past |-> FALSE,
                   old |-> NodeHash(node, c.old), new |-> NodeHash(node, c.new)]
          BY <2>2, <3>4, <3>6, <4>1, ClimbCases
        <5> HIDE DEF e, g
        <5> QED BY <2>1, <3>5, <5>1, <5>2
      <4>2. CASE f % 2 # 1
        <5>1. e = [at |-> Parents(d.at), past |-> FALSE,
                   old |-> d.old, new |-> NodeHash(d.new, node)]
          BY <2>2, <3>3, <3>4, <4>2, ClimbCases
        <5>2. g = [at |-> Parents(c.at), past |-> FALSE,
                   old |-> c.old, new |-> NodeHash(c.new, node)]
          BY <2>2, <3>4, <4>2, ClimbCases
        <5> HIDE DEF e, g
        <5> QED BY <2>1, <3>5, <5>1, <5>2
      <4> QED BY <4>1, <4>2
    <3> HIDE DEF e, g
    <3>8. Under(e, g)
      BY <3>1, <3>2, <3>7 DEF Under
    <3>9. ~AtTop(g) /\ ~AtTop(d)
      BY <2>2, <3>2, <3>4, <3>7, Positions DEF AtTop
    <3> QED BY <3>8, <3>9 DEF e, g
  <2> QED BY <2>3, <2>4
<1> QED BY <1>1, <1>2

\* The same on the right: the node is then the left sibling.
LEMMA BesideStep ==
  ASSUME NEW d \in Climber, NEW c \in Climber, NEW node \in Hash, Beside(d, c) \/ Over(d, c)
  PROVE  /\ Beside(Climb(d, node), Climb(c, node)) \/ Over(Climb(d, node), Climb(c, node))
         /\ AtTop(Climb(c, node)) <=> AtTop(d)
         /\ AtTop(d) => /\ Climb(c, node).new = NodeHash(node, d.new)
                        /\ Climb(c, node).old = NodeHash(node, d.old)
<1> DEFINE e == Climb(d, node)
           g == Climb(c, node)
<1>1. CASE Over(d, c)
  <2>1. e.past /\ e.at = d.at /\ g.past /\ g.at = c.at
    BY <1>1, ClimbCases DEF Over
  <2> HIDE DEF e, g
  <2>2. Over(e, g) /\ ~AtTop(g) /\ ~AtTop(d)
    BY <1>1, <2>1 DEF Over, AtTop
  <2> QED BY <2>2 DEF e, g
<1>2. CASE Beside(d, c)
  <2>1. PICK f \in Nat, t \in Nat, Q \in Nat :
          /\ IsPowerOfTwo[Q] /\ f <= t /\ t < Q
          /\ d.at = At(f, t) /\ c.at = At(f + Q, t + Q)
          /\ ~d.past /\ ~c.past /\ d.old = c.old /\ d.new = c.new
    BY <1>2 DEF Beside
  <2>2. f + Q \in Nat /\ t + Q \in Nat /\ t + Q # 0
    BY <2>1
  <2>3. d.at.fn = f /\ d.at.sn = t /\ c.at.fn = f + Q /\ c.at.sn = t + Q
    BY <2>1, <2>2, Positions
  <2>4. CASE t = 0
    <3>1. f = 0 /\ c.at = At(Q, Q) /\ c.at.fn = c.at.sn
      BY <2>1, <2>3, <2>4
    <3>2. e.past /\ e.at = d.at
      BY <2>3, <2>4, ClimbCases
    <3>3. g = [at |-> Parents(SkipZeros[c.at]), past |-> FALSE,
               old |-> NodeHash(node, c.old), new |-> NodeHash(node, c.new)]
      BY <2>2, <2>3, <3>1, ClimbCases
    <3>4. Parents(SkipZeros[c.at]) = At(0, 0)
      <4>1. 1 \div 2 = 0
        OBVIOUS
      <4>2. SkipZeros[c.at] = At(1, 1)
        BY <2>1, <3>1, SkipZerosFromPower
      <4> QED BY <4>1, <4>2, Positions
    <3> HIDE DEF e, g
    <3>5. g.at.sn = 0 /\ ~g.past
          /\ g.old = NodeHash(node, c.old) /\ g.new = NodeHash(node, c.new)
      BY <3>3, <3>4, Positions
    <3>6. Over(e, g) /\ AtTop(g) /\ AtTop(d)
      BY <2>1, <2>3, <2>4, <3>2, <3>5 DEF Over, AtTop
    <3> QED BY <2>1, <3>5, <3>6 DEF e, g
  <2>5. CASE t # 0
    <3>1. PICK h \in Nat : Q = 2 * h /\ IsPowerOfTwo[h]
      BY <2>1, <2>5, PowerOfTwo
    <3>2. (f + Q) % 2 = f % 2 /\ (f + Q = t + Q <=> f = t)
      BY <3>1, Half
    <3>3. \E i, j, P \in Nat :
            /\ IsPowerOfTwo[P] /\ i <= j /\ j < P
            /\ e.at = At(i, j) /\ ~e.past
            /\ g.at = At(i + P, j + P) /\ ~g.past
            /\ e.old = g.old /\ e.new = g.new
      <4>1. CASE f % 2 = 1 \/ f = t
        <5>1. e = [at |-> Parents(SkipZeros[d.at]), past |-> FALSE,
                   old |-> NodeHash(node, d.old), new |-> NodeHash(node, d.new)]
          BY <2>3, <2>5, <4>1, ClimbCases
        <5>2. g = [at |-> Parents(SkipZeros[c.at]), past |-> FALSE,
                   old |-> NodeHash(node, c.old), new |-> NodeHash(node, c.new)]
          BY <2>2, <2>3, <3>2, <4>1, ClimbCases
        <5>3. f # 0
          BY <2>5, <4>1
        <5>4. PICK i \in Nat, j \in Nat, P \in Nat :
                /\ IsPowerOfTwo[P] /\ i <= j /\ j < P /\ P # 1
                /\ SkipZeros[d.at] = At(i, j)
                /\ SkipZeros[c.at] = At(i + P, j + P)
          <6>1. \E i, j, P \in Nat :
                  /\ IsPowerOfTwo[P] /\ i <= j /\ j < P /\ P # 1
                  /\ SkipZeros[At(f, t)] = At(i, j)
                  /\ SkipZeros[At(f + Q, t + Q)] = At(i + P, j + P)
            <7>1. IsPowerOfTwo[Q] /\ f <= t /\ t < Q /\ f # 0
              BY <2>1, <5>3
            <7> HIDE DEF e, g
            <7>2. ZerosBeside(f, t, Q)
              BY <7>1, SkipZerosBeside
            <7> QED BY <7>2 DEF ZerosBeside
          <6> QED BY <2>1, <6>1
        <5>5. PICK l \in Nat : P = 2 * l /\ IsPowerOfTwo[l]
          BY <5>4, PowerOfTwo
        <5>6. /\ (i + P) \div 2 = i \div 2 + l /\ (j + P) \div 2 = j \div 2 + l
              /\ i \div 2 \in Nat /\ j \div 2 \in Nat /\ i \div 2 <= j \div 2 /\ j \div 2 < l
              /\ i + P \in Nat /\ j + P \in Nat
          BY <5>4, <5>5, Half
        <5>7. /\ Parents(SkipZeros[d.at]) = At(i \div 2, j \div 2)
              /\ Parents(SkipZeros[c.at]) = At(i \div 2 + l, j \div 2 + l)
          <6>1. PICK u \in Nat, v \in Nat : u = i + P /\ v = j + P
            BY <5>6
          <6>2. Parents(At(u, v)) = At(u \div 2, v \div 2)
                /\ Parents(At(i, j)) = At(i \div 2, j \div 2)
            BY Positions
          <6> QED BY <5>4, <5>6, <6>1, <6>2
        <5> HIDE DEF e, g
        <5>8. /\ e.at = At(i \div 2, j \div 2) /\ ~e.past
              /\ g.at = At(i \div 2 + l, j \div 2 + l) /\ ~g.past
              /\ e.old = g.old /\ e.new = g.new
          BY <2>1, <5>1, <5>2, <5>7
        <5> QED BY <5>5, <5>6, <5>8
      <4>2. CASE ~ (f % 2 = 1 \/ f = t)
        <5>1. e = [at |-> Parents(d.at), past |-> FALSE,
                   old |-> d.old, new |-> NodeHash(d.new, node)]
          BY <2>3, <2>5, <4>2, ClimbCases
        <5>2. g = [at |-> Parents(c.at), past |-> FALSE,
                   old |-> c.old, new |-> NodeHash(c.new, node)]
          BY <2>2, <2>3, <3>2, <4>2, ClimbCases
        <5>3. /\ (f + Q) \div 2 = f \div 2 + h /\ (t + Q) \div 2 = t \div 2 + h
              /\ f \div 2 \in Nat /\ t \div 2 \in Nat /\ f \div 2 <= t \div 2 /\ t \div 2 < h
          BY <2>1, <3>1, Half
        <5>4. /\ Parents(d.at) = At(f \div 2, t \div 2)
              /\ Parents(c.at) = At(f \div 2 + h, t \div 2 + h)
          <6>1. PICK u \in Nat, v \in Nat : u = f + Q /\ v = t + Q
            BY <2>2
          <6>2. Parents(At(u, v)) = At(u \div 2, v \div 2)
                /\ Parents(At(f, t)) = At(f \div 2, t \div 2)
            BY Positions
          <6> QED BY <2>1, <5>3, <6>1, <6>2
        <5> HIDE DEF e, g
        <5>5. /\ e.at = At(f \div 2, t \div 2) /\ ~e.past
              /\ g.at = At(f \div 2 + h, t \div 2 + h) /\ ~g.past
              /\ e.old = g.old /\ e.new = g.new
          BY <2>1, <5>1, <5>2, <5>4
        <5> QED BY <3>1, <5>3, <5>5
      <4> QED BY <4>1, <4>2
    <3> HIDE DEF e, g
    <3>4. Beside(e, g)
      BY <3>3 DEF Beside
    <3>5. ~AtTop(g)
      <4>1. PICK i \in Nat, j \in Nat, P \in Nat : j < P /\ g.at = At(i + P, j + P)
        BY <3>3
      <4>2. i + P \in Nat /\ j + P \in Nat /\ j + P # 0
        BY <4>1
      <4>3. g.at.sn = j + P
        BY <4>1, <4>2, Positions
      <4> QED BY <4>2, <4>3 DEF AtTop
    <3>6. ~AtTop(d)
      BY <2>3, <2>5 DEF AtTop
    <3> QED BY <3>4, <3>5, <3>6 DEF e, g
  <2> QED BY <2>4, <2>5
<1> QED BY <1>1, <1>2

\* So they are along a whole proof.
LEMMA UnderClimb ==
  ASSUME NEW at \in Position, NEW whole \in Position, NEW hash \in Hash,
         Under(Started(at, hash), Started(whole, hash)), NEW p \in Seq(Hash)
  PROVE  LET d == Climbed(at, hash, p)
             c == Climbed(whole, hash, p)
         IN  Under(d, c) \/ Over(d, c)
<1> DEFINE D(q) == Climbed(at, hash, q)
           C(q) == Climbed(whole, hash, q)
           Held == {n \in Nat : \A q \in Seq(Hash) :
                                  Len(q) = n => Under(D(q), C(q)) \/ Over(D(q), C(q))}
<1>1. ASSUME NEW n \in Nat, \A j \in Nat : j < n => j \in Held
      PROVE  n \in Held
  <2> SUFFICES ASSUME NEW q \in Seq(Hash), Len(q) = n
               PROVE  Under(D(q), C(q)) \/ Over(D(q), C(q))
    OBVIOUS
  <2>1. CASE n = 0
    <3>1. q = << >>
      BY <2>1, LengthCases
    <3> QED BY <3>1, ClimbedIs
  <2>2. CASE n # 0
    <3>1. PICK r \in Seq(Hash), x \in Hash : q = Append(r, x) /\ Len(r) < Len(q)
      BY <2>2, LastNode
    <3>2. Under(D(r), C(r)) \/ Over(D(r), C(r))
      <4>1. Len(r) \in Nat /\ Len(r) < n
        BY <3>1
      <4> QED BY <1>1, <4>1
    <3>3. D(r) \in Climber /\ C(r) \in Climber
      BY ClimbedIsClimber
    <3>4. D(q) = Climb(D(r), x) /\ C(q) = Climb(C(r), x)
      BY <3>1, ClimbedIs
    <3> HIDE DEF D, C
    <3> QED BY <3>2, <3>3, <3>4, UnderStep
  <2> QED BY <2>1, <2>2
<1>2. \A n \in Nat : n \in Held
  <2> HIDE DEF Held
  <2> QED BY <1>1, Induction
<1> QED BY <1>2

\* And on the right.
LEMMA BesideClimb ==
  ASSUME NEW at \in Position, NEW whole \in Position, NEW hash \in Hash,
         Beside(Started(at, hash), Started(whole, hash)), NEW p \in Seq(Hash)
  PROVE  LET d == Climbed(at, hash, p)
             c == Climbed(whole, hash, p)
         IN  Beside(d, c) \/ Over(d, c)
<1> DEFINE D(q) == Climbed(at, hash, q)
           C(q) == Climbed(whole, hash, q)
           Held == {n \in Nat : \A q \in Seq(Hash) :
                                  Len(q) = n => Beside(D(q), C(q)) \/ Over(D(q), C(q))}
<1>1. ASSUME NEW n \in Nat, \A j \in Nat : j < n => j \in Held
      PROVE  n \in Held
  <2> SUFFICES ASSUME NEW q \in Seq(Hash), Len(q) = n
               PROVE  Beside(D(q), C(q)) \/ Over(D(q), C(q))
    OBVIOUS
  <2>1. CASE n = 0
    <3>1. q = << >>
      BY <2>1, LengthCases
    <3> QED BY <3>1, ClimbedIs
  <2>2. CASE n # 0
    <3>1. PICK r \in Seq(Hash), x \in Hash : q = Append(r, x) /\ Len(r) < Len(q)
      BY <2>2, LastNode
    <3>2. Beside(D(r), C(r)) \/ Over(D(r), C(r))
      <4>1. Len(r) \in Nat /\ Len(r) < n
        BY <3>1
      <4> QED BY <1>1, <4>1
    <3>3. D(r) \in Climber /\ C(r) \in Climber
      BY ClimbedIsClimber
    <3>4. D(q) = Climb(D(r), x) /\ C(q) = Climb(C(r), x)
      BY <3>1, ClimbedIs
    <3> HIDE DEF D, C
    <3> QED BY <3>2, <3>3, <3>4, BesideStep
  <2> QED BY <2>1, <2>2
<1>2. \A n \in Nat : n \in Held
  <2> HIDE DEF Held
  <2> QED BY <1>1, Induction
<1> QED BY <1>2

\* No node takes a climber beyond the top of a tree of one hash.
LEMMA NothingAboveTop ==
  ASSUME NEW hash \in Hash, NEW p \in Seq(Hash)
  PROVE  AtTop(Climbed(At(0, 0), hash, p)) <=> p = << >>
<1> DEFINE C(q) == Climbed(At(0, 0), hash, q)
           Held == {n \in Nat : \A q \in Seq(Hash) : Len(q) = n =>
                      C(q).at.sn = 0 /\ (n # 0 => C(q).past)}
<1>1. At(0, 0) \in Position /\ At(0, 0).sn = 0
  BY Positions
<1>2. C(<< >>) = Started(At(0, 0), hash)
  BY <1>1, ClimbedIs
<1>3. ASSUME NEW n \in Nat, \A j \in Nat : j < n => j \in Held
      PROVE  n \in Held
  <2> SUFFICES ASSUME NEW q \in Seq(Hash), Len(q) = n
               PROVE  C(q).at.sn = 0 /\ (n # 0 => C(q).past)
    OBVIOUS
  <2>1. CASE n = 0
    <3>1. q = << >>
      BY <2>1, LengthCases
    <3> HIDE DEF C
    <3> QED BY <1>1, <1>2, <2>1, <3>1 DEF Started
  <2>2. CASE n # 0
    <3>1. PICK r \in Seq(Hash), x \in Hash : q = Append(r, x) /\ Len(r) < Len(q)
      BY <2>2, LastNode
    <3>2. C(r).at.sn = 0
      <4>1. Len(r) \in Nat /\ Len(r) < n
        BY <3>1
      <4> QED BY <1>3, <4>1
    <3>3. C(r) \in Climber
      BY <1>1, ClimbedIsClimber
    <3>4. C(q) = Climb(C(r), x)
      BY <1>1, <3>1, ClimbedIs
    <3> HIDE DEF C
    <3> QED BY <3>2, <3>3, <3>4, ClimbCases
  <2> QED BY <2>1, <2>2
<1>4. \A n \in Nat : n \in Held
  <2> HIDE DEF Held
  <2> QED BY <1>3, Induction
<1>5. CASE p = << >>
  <2> HIDE DEF C
  <2>1. AtTop(C(p))
    BY <1>1, <1>2, <1>5 DEF AtTop, Started
  <2> QED BY <1>5, <2>1 DEF C
<1>6. CASE p # << >>
  <2>1. Len(p) \in Nat /\ Len(p) # 0
    BY <1>6, LengthCases
  <2>2. C(p).past
    BY <1>4, <2>1
  <2> QED BY <1>6, <2>2 DEF AtTop
<1> QED BY <1>5, <1>6

-----------------------------------------------------------------------------
(* Inclusion *)

\* A sequence with one more element is read in only one way.
LEMMA AppendsDiffer ==
  ASSUME NEW S, NEW q \in Seq(S), NEW r \in Seq(S), NEW x \in S, NEW y \in S
  PROVE  /\ Append(q, x) = Append(r, y) <=> q = r /\ x = y
         /\ Append(q, x) # << >>
<1>1. Append(q, x) = Append(r, y) <=> q = r /\ x = y
  BY ONLY q \in Seq(S), r \in Seq(S), x \in S, y \in S, AppendInjective
<1>2. Append(q, x) # << >>
  BY AppendProperties, Zenon
<1> QED BY <1>1, <1>2

\* A climb along a proof ends at the top with the root of the tree exactly if the
\* hash is that of the leaf at its index and the proof is the one that is made.
InclusionHolds(s) ==
  \A m \in Nat : \A hash \in Hash : \A p \in Seq(Hash) :
    m < Len(s) =>
      LET c == Climbed(At(m, Len(s) - 1), hash, p)
      IN  AtTop(c) /\ c.new = Root[s] <=> hash = LeafHash(s[m + 1]) /\ p = ProofPath[s][m]

\* That of one leaf.
LEMMA InclusionOfOne ==
  ASSUME NEW s \in Seq(Data), Len(s) = 1
  PROVE  InclusionHolds(s)
<1> SUFFICES ASSUME NEW m \in Nat, NEW hash \in Hash, NEW p \in Seq(Hash), m < Len(s)
             PROVE  LET c == Climbed(At(m, Len(s) - 1), hash, p)
                    IN  AtTop(c) /\ c.new = Root[s]
                          <=> hash = LeafHash(s[m + 1]) /\ p = ProofPath[s][m]
  BY DEF InclusionHolds
<1>1. m = 0 /\ Len(s) - 1 = 0 /\ m + 1 = 1
  OBVIOUS
<1>2. Root[s] = LeafHash(s[1])
  BY RootCases
<1>3. ProofPath[s][m] = << >>
  <2>1. Len(s) <= 1
    OBVIOUS
  <2> QED BY <2>1, ProofPathIs
<1>4. AtTop(Climbed(At(0, 0), hash, p)) <=> p = << >>
  BY NothingAboveTop
<1>5. Climbed(At(0, 0), hash, << >>).new = hash
  <2>1. At(0, 0) \in Position
    BY Positions
  <2> QED BY <2>1, ClimbedIs DEF Started
<1> QED BY <1>1, <1>2, <1>3, <1>4, <1>5

\* That of more, from that of the half with the leaf.
LEMMA InclusionOfMore ==
  ASSUME NEW s \in Seq(Data), Len(s) > 1,
         InclusionHolds(LeftOf(s)), InclusionHolds(RightOf(s))
  PROVE  InclusionHolds(s)
<1> SUFFICES ASSUME NEW m \in Nat, NEW hash \in Hash, NEW p \in Seq(Hash), m < Len(s)
             PROVE  LET c == Climbed(At(m, Len(s) - 1), hash, p)
                    IN  AtTop(c) /\ c.new = Root[s]
                          <=> hash = LeafHash(s[m + 1]) /\ p = ProofPath[s][m]
  BY DEF InclusionHolds
<1>1. PICK n \in Nat : n = Len(s)
  OBVIOUS
<1>2. PICK k \in Nat : k = LargestPowerOfTwoBelow(Len(s))
  BY Halves
<1>3. PICK l \in Seq(Data) : l = LeftOf(s)
  BY Halves
<1>4. PICK r \in Seq(Data) : r = RightOf(s)
  BY Halves
<1>5. /\ k >= 1 /\ IsPowerOfTwo[k] /\ k < n /\ n <= 2 * k
      /\ Len(l) = k /\ \A i \in 1..k : l[i] = s[i]
      /\ Len(r) = n - k /\ \A i \in 1..n - k : r[i] = s[i + k]
  BY <1>1, <1>2, <1>3, <1>4, Halves
<1>6. Root[s] = NodeHash(Root[l], Root[r]) /\ Root[l] \in Hash /\ Root[r] \in Hash
  BY <1>3, <1>4, RootCases, RootIsHash
<1>7. ProofPath[s][m] = IF m < k THEN Append(ProofPath[l][m], Root[r])
                        ELSE Append(ProofPath[r][m - k], Root[l])
  <2>1. ~ (Len(s) <= 1)
    BY <1>1
  <2> QED BY <1>2, <1>3, <1>4, <2>1, ProofPathIs
<1>8. PICK t \in Nat : t = n - 1
  BY <1>5
<1> DEFINE Top(q) == Climbed(At(m, t), hash, q)
<1>9. At(m, t) \in Position /\ m <= t
  BY <1>1, <1>8, Positions
<1>10. ~AtTop(Top(<< >>))
  <2>1. Top(<< >>) = Started(At(m, t), hash)
    BY <1>9, ClimbedIs
  <2>2. At(m, t).sn = t
    BY Positions
  <2>3. t # 0
    BY <1>5, <1>8
  <2> QED BY <2>1, <2>2, <2>3 DEF AtTop, Started
<1>11. CASE p = << >>
  <2>1. ProofPath[s][m] # << >>
    <3>1. m < k => ProofPath[l][m] \in Seq(Hash)
      BY ProofPathOfHashes
    <3>2. ~ (m < k) => m - k \in Nat
      OBVIOUS
    <3>3. ~ (m < k) => ProofPath[r][m - k] \in Seq(Hash)
      BY <3>2, ProofPathOfHashes
    <3>4. PICK left \in Hash, right \in Hash : left = Root[l] /\ right = Root[r]
      BY <1>6
    <3>5. CASE m < k
      <4>1. PICK q \in Seq(Hash) : q = ProofPath[l][m]
        BY <3>1, <3>5
      <4>2. ProofPath[s][m] = Append(q, right)
        BY <1>7, <3>4, <3>5, <4>1
      <4>3. Append(q, right) # << >>
        BY ONLY q \in Seq(Hash), right \in Hash, AppendProperties
      <4> QED BY <4>2, <4>3
    <3>6. CASE ~ (m < k)
      <4>1. PICK q \in Seq(Hash) : q = ProofPath[r][m - k]
        BY <3>3, <3>6
      <4>2. ProofPath[s][m] = Append(q, left)
        BY <1>7, <3>4, <3>6, <4>1
      <4>3. Append(q, left) # << >>
        BY ONLY q \in Seq(Hash), left \in Hash, AppendProperties
      <4> QED BY <4>2, <4>3
    <3> QED BY <3>5, <3>6
  <2> QED BY <1>1, <1>8, <1>10, <1>11, <2>1
<1>12. CASE p # << >>
  <2>1. PICK q \in Seq(Hash), x \in Hash : p = Append(q, x)
    <3>1. Len(p) # 0
      BY <1>12, LengthCases
    <3> QED BY <3>1, LastNode
  <2>2. Top(p) = Climb(Top(q), x) /\ Top(q) \in Climber
    BY <1>9, <2>1, ClimbedIs, ClimbedIsClimber
  <2>3. CASE m < k
    <3>1. PICK b \in Nat : b = k - 1
      BY <1>5
    <3> DEFINE d == Climbed(At(m, b), hash, q)
    <3>2. At(m, b) \in Position
      BY Positions
    <3>3. Under(Started(At(m, b), hash), Started(At(m, t), hash))
      BY <1>5, <1>8, <2>3, <3>1 DEF Under, Started
    <3>4. d \in Climber
      BY <3>2, ClimbedIsClimber
    <3>5. Under(d, Top(q)) \/ Over(d, Top(q))
      BY <1>9, <3>2, <3>3, UnderClimb
    <3>6. AtTop(d) /\ d.new = Root[l] <=> hash = LeafHash(l[m + 1]) /\ q = ProofPath[l][m]
      BY <1>3, <1>5, <2>3, <3>1 DEF InclusionHolds
    <3>7. l[m + 1] = s[m + 1]
      <4>1. m + 1 \in 1..k
        BY <2>3
      <4> QED BY <1>5, <4>1
    <3>8. ProofPath[s][m] = Append(ProofPath[l][m], Root[r]) /\ ProofPath[l][m] \in Seq(Hash)
      BY <1>7, <2>3, ProofPathOfHashes
    <3>9. p = ProofPath[s][m] <=> q = ProofPath[l][m] /\ x = Root[r]
      <4>1. PICK made \in Seq(Hash), top \in Hash : made = ProofPath[l][m] /\ top = Root[r]
        BY <1>6, <3>8
      <4>2. Append(q, x) = Append(made, top) <=> q = made /\ x = top
        BY AppendsDiffer
      <4> QED BY <2>1, <3>8, <4>1, <4>2
    <3> HIDE DEF Top, d
    <3>10. /\ AtTop(Top(p)) <=> AtTop(d)
           /\ AtTop(d) => Top(p).new = NodeHash(d.new, x)
      BY <2>2, <3>4, <3>5, UnderStep
    <3>11. NodeHash(d.new, x) = NodeHash(Root[l], Root[r]) <=> d.new = Root[l] /\ x = Root[r]
      BY HashesDiffer
    <3>12. AtTop(Top(p)) /\ Top(p).new = Root[s] <=> AtTop(d) /\ d.new = Root[l] /\ x = Root[r]
      BY <1>6, <3>10, <3>11
    <3> QED BY <1>1, <1>8, <3>6, <3>7, <3>9, <3>12 DEF Top
  <2>4. CASE ~ (m < k)
    <3>1. PICK i \in Nat : i = m - k
      BY <2>4
    <3>2. PICK b \in Nat : b = (n - k) - 1
      BY <1>5
    <3> DEFINE d == Climbed(At(i, b), hash, q)
    <3>3. At(i, b) \in Position
      BY Positions
    <3>4. Beside(Started(At(i, b), hash), Started(At(m, t), hash))
      <4>1. i <= b /\ b < k /\ m = i + k /\ t = b + k
        BY <1>1, <1>5, <1>8, <3>1, <3>2
      <4> QED BY <1>5, <4>1 DEF Beside, Started
    <3>5. d \in Climber
      BY <3>3, ClimbedIsClimber
    <3>6. Beside(d, Top(q)) \/ Over(d, Top(q))
      BY <1>9, <3>3, <3>4, BesideClimb
    <3>7. i < Len(r) /\ Len(r) - 1 = b
      BY <1>1, <1>5, <3>1, <3>2
    <3>8. AtTop(d) /\ d.new = Root[r] <=> hash = LeafHash(r[i + 1]) /\ q = ProofPath[r][i]
      BY <1>4, <3>7 DEF InclusionHolds
    <3>9. r[i + 1] = s[m + 1]
      <4>1. PICK j \in 1..n - k : j = i + 1 /\ j + k = m + 1
        BY <1>1, <1>5, <3>1
      <4>2. r[j] = s[j + k]
        BY <1>5
      <4> QED BY <4>1, <4>2
    <3>10. ProofPath[s][m] = Append(ProofPath[r][i], Root[l]) /\ ProofPath[r][i] \in Seq(Hash)
      BY <1>7, <2>4, <3>1, ProofPathOfHashes
    <3>11. p = ProofPath[s][m] <=> q = ProofPath[r][i] /\ x = Root[l]
      <4>1. PICK made \in Seq(Hash), top \in Hash : made = ProofPath[r][i] /\ top = Root[l]
        BY <1>6, <3>10
      <4>2. Append(q, x) = Append(made, top) <=> q = made /\ x = top
        BY AppendsDiffer
      <4> QED BY <2>1, <3>10, <4>1, <4>2
    <3> HIDE DEF Top, d
    <3>12. /\ AtTop(Top(p)) <=> AtTop(d)
           /\ AtTop(d) => Top(p).new = NodeHash(x, d.new)
      BY <2>2, <3>5, <3>6, BesideStep
    <3>13. NodeHash(x, d.new) = NodeHash(Root[l], Root[r]) <=> x = Root[l] /\ d.new = Root[r]
      BY HashesDiffer
    <3>14. AtTop(Top(p)) /\ Top(p).new = Root[s] <=> AtTop(d) /\ d.new = Root[r] /\ x = Root[l]
      BY <1>6, <3>12, <3>13
    <3> QED BY <1>1, <1>8, <3>8, <3>9, <3>11, <3>14 DEF Top
  <2> QED BY <2>3, <2>4
<1> QED BY <1>11, <1>12

\* A verifier of inclusion decides, at every size.
LEMMA InclusionOfAll == \A s \in Seq(Data) : InclusionHolds(s)
<1> DEFINE S == {s \in Seq(Data) : InclusionHolds(s)}
<1>1. ASSUME NEW s \in Seq(Data), \A t \in Seq(Data) : Len(t) < Len(s) => t \in S
      PROVE  s \in S
  <2>1. CASE Len(s) = 0
    BY <2>1 DEF InclusionHolds
  <2>2. CASE Len(s) = 1
    BY <2>2, InclusionOfOne
  <2>3. CASE Len(s) > 1
    <3>1. /\ LeftOf(s) \in Seq(Data) /\ Len(LeftOf(s)) < Len(s)
          /\ RightOf(s) \in Seq(Data) /\ Len(RightOf(s)) < Len(s)
      BY <2>3, Halves
    <3>2. InclusionHolds(LeftOf(s)) /\ InclusionHolds(RightOf(s))
      BY <1>1, <3>1
    <3> QED BY <2>3, <3>2, InclusionOfMore
  <2> HIDE DEF S
  <2> QED BY <2>1, <2>2, <2>3, LengthCases
<1>2. \A s \in Seq(Data) : s \in S
  <2> HIDE DEF S
  <2> QED BY <1>1, TreeInduction
<1> QED BY <1>2

-----------------------------------------------------------------------------
(* Consistency *)

\* A first hash and the nodes after it.
LEMMA FirstAndMore ==
  ASSUME NEW x \in Hash, NEW q \in Seq(Hash), NEW y \in Hash
  PROVE  /\ <<x>> \o q \in Seq(Hash) /\ Len(<<x>> \o q) = Len(q) + 1
         /\ \A i \in 1..Len(q) + 1 : (<<x>> \o q)[i] = IF i <= 1 THEN x ELSE q[i - 1]
         /\ <<x>> \o << >> = <<x>>
         /\ <<x>> \o Append(q, y) = Append(<<x>> \o q, y)
         /\ Head(<<x>> \o q) = x /\ Tail(<<x>> \o q) = q /\ <<x>> \o q # << >>
<1>1. <<x>> \in Seq(Hash) /\ Len(<<x>>) = 1 /\ <<x>>[1] = x
  OBVIOUS
<1>2. PICK n \in Nat : n = Len(q)
  OBVIOUS
<1>3. PICK one \in Seq(Hash) : one = <<x>>
  BY <1>1
<1>4. PICK p \in Seq(Hash) : p = one \o q
  <2>1. one \o q \in Seq(Hash)
    BY ConcatProperties
  <2> QED BY <2>1
<1>5. Len(p) = 1 + n /\ \A i \in 1..1 + n : p[i] = IF i <= 1 THEN x ELSE q[i - 1]
  BY <1>1, <1>2, <1>3, <1>4, ConcatProperties
<1>6. <<x>> \o << >> = <<x>>
  BY <1>1, ConcatEmptySeq
<1>7. <<x>> \o Append(q, y) = Append(<<x>> \o q, y)
  <2>1. Append(q, y) = q \o <<y>>
    BY AppendIsConcat
  <2>2. Append(p, y) = p \o <<y>>
    BY AppendIsConcat
  <2>3. <<y>> \in Seq(Hash)
    OBVIOUS
  <2>4. one \o (q \o <<y>>) = (one \o q) \o <<y>>
    BY <2>3, ConcatAssociative
  <2> QED BY <1>3, <1>4, <2>1, <2>2, <2>4
<1>8. p # << >>
  BY <1>5
<1>9. Head(p) = x /\ Tail(p) = q
  <2>1. Head(p) = p[1] /\ p[1] = x
    BY <1>5
  <2>2. Tail(p) \in Seq(Hash) /\ Len(Tail(p)) = n
    BY <1>5, <1>8, HeadTailProperties
  <2>3. \A i \in 1..n : Tail(p)[i] = q[i]
    <3> SUFFICES ASSUME NEW i \in 1..n PROVE Tail(p)[i] = q[i]
      OBVIOUS
    <3>1. PICK j \in 1..1 + n : j = i + 1 /\ j - 1 = i /\ ~ (j <= 1)
      OBVIOUS
    <3>2. Tail(p)[i] = p[i + 1]
      BY <1>5, <1>8, <2>2, HeadTailProperties
    <3> QED BY <1>5, <3>1, <3>2
  <2>4. Tail(p) = q
    BY <1>2, <2>2, <2>3, SeqEqual
  <2> QED BY <2>1, <2>4
<1>10. \A i \in 1..Len(q) + 1 : (<<x>> \o q)[i] = IF i <= 1 THEN x ELSE q[i - 1]
  <2>1. Len(q) + 1 = 1 + n
    BY <1>2
  <2> QED BY <1>3, <1>4, <1>5, <2>1
<1> QED BY <1>2, <1>3, <1>4, <1>5, <1>6, <1>7, <1>8, <1>9, <1>10

\* A prefix is as long at most and has the same elements.
LEMMA PrefixIs ==
  ASSUME NEW t \in Seq(Data), NEW s \in Seq(Data)
  PROVE  IsPrefix(t, s) <=> Len(t) <= Len(s) /\ \A i \in 1..Len(t) : t[i] = s[i]
<1>1. PICK m \in Nat : m = Len(t)
  OBVIOUS
<1>2. PICK n \in Nat : n = Len(s)
  OBVIOUS
<1>3. SubSeq(t, 1, m) \in Seq(Data) /\ Len(SubSeq(t, 1, m)) = m
      /\ \A i \in 1..m : SubSeq(t, 1, m)[i] = t[i]
  BY <1>1
<1>4. CASE m <= n
  <2>1. SubSeq(s, 1, m) \in Seq(Data) /\ Len(SubSeq(s, 1, m)) = m
        /\ \A i \in 1..m : SubSeq(s, 1, m)[i] = s[i]
    BY <1>2, <1>4
  <2>2. SubSeq(t, 1, m) = SubSeq(s, 1, m) <=> \A i \in 1..m : t[i] = s[i]
    BY <1>3, <2>1
  <2> QED BY <1>1, <1>2, <1>4, <2>2 DEF IsPrefix
<1>5. CASE ~ (m <= n)
  BY <1>1, <1>2, <1>5 DEF IsPrefix
<1> QED BY <1>4, <1>5

\* More than one hash is not one hash.
LEMMA MoreThanOne ==
  ASSUME NEW q \in Seq(Hash), NEW x \in Hash, NEW y \in Hash, Len(q) >= 1
  PROVE  Append(q, y) # <<x>>
<1>1. PICK one \in Seq(Hash) : one = <<x>>
  <2>1. <<x>> \in Seq(Hash)
    BY ONLY x \in Hash
  <2> QED BY <2>1
<1>2. PICK p \in Seq(Hash) : p = Append(q, y)
  <2>1. Append(q, y) \in Seq(Hash)
    BY AppendProperties
  <2> QED BY <2>1
<1>3. PICK n \in Nat : n = Len(q)
  OBVIOUS
<1>4. Len(one) = 1
  BY ONLY <1>1
<1>5. Len(p) = n + 1 /\ n >= 1
  <2>1. Len(Append(q, y)) = Len(q) + 1
    BY AppendProperties
  <2> QED BY <1>2, <1>3, <2>1
<1>6. Len(p) # Len(one)
  BY <1>4, <1>5
<1> QED BY <1>1, <1>2, <1>6

\* A climb from the last full subtree of the old tree ends at the top with both roots
\* exactly if the old tree is a prefix of the new one and the proof, with the root of
\* that subtree before it, is the one that is made.
ClimbDecides(s, t, x, o) ==
  LET c == Climbed(SkipOnes[At(Len(t) - 1, Len(s) - 1)], x, o)
  IN  AtTop(c) /\ c.new = Root[s] /\ c.old = Root[t]
        <=> IsPrefix(t, s) /\ <<x>> \o o = ConsistencyPath[s][Len(t)][FALSE]
ConsistencyHolds(s) ==
  \A t \in Seq(Data) : \A x \in Hash : \A o \in Seq(Hash) :
    Len(t) > 0 /\ (Len(t) < Len(s) \/ (Len(t) = Len(s) /\ IsPowerOfTwo[Len(t)]))
      => ClimbDecides(s, t, x, o)

\* That of a full tree with itself.
LEMMA ConsistencyOfSame ==
  ASSUME NEW s \in Seq(Data), NEW t \in Seq(Data), NEW x \in Hash, NEW o \in Seq(Hash),
         Len(t) > 0, Len(t) = Len(s), IsPowerOfTwo[Len(t)]
  PROVE  ClimbDecides(s, t, x, o)
<1>1. PICK n \in Nat : n = Len(s)
  OBVIOUS
<1>2. SkipOnes[At(n - 1, n - 1)] = At(0, 0)
  BY <1>1, SkipOnesToFirst
<1>3. ConsistencyPath[s][n][FALSE] = <<Root[s]>>
  <2>1. n \in Nat \ {0} /\ n >= Len(s) /\ FALSE \in BOOLEAN
    BY <1>1
  <2> QED BY <2>1, ConsistencyPathIs
<1>4. IsPrefix(t, s) <=> t = s
  <2>1. IsPrefix(t, s) <=> \A i \in 1..n : t[i] = s[i]
    BY <1>1, PrefixIs
  <2>2. (\A i \in 1..n : t[i] = s[i]) <=> t = s
    BY <1>1, SeqEqual
  <2> QED BY <2>1, <2>2
<1>5. Root[t] = Root[s] <=> t = s
  BY RootDecides
<1>6. AtTop(Climbed(At(0, 0), x, o)) <=> o = << >>
  BY NothingAboveTop
<1>7. Climbed(At(0, 0), x, << >>).new = x /\ Climbed(At(0, 0), x, << >>).old = x
  <2>1. At(0, 0) \in Position
    BY Positions
  <2> QED BY <2>1, ClimbedIs DEF Started
<1>8. <<x>> \o o = <<Root[s]>> <=> o = << >> /\ x = Root[s]
  <2>1. Head(<<x>> \o o) = x /\ Tail(<<x>> \o o) = o /\ <<x>> \o << >> = <<x>>
    BY FirstAndMore
  <2>2. Head(<<Root[s]>>) = Root[s] /\ Tail(<<Root[s]>>) = << >>
    OBVIOUS
  <2> QED BY <2>1, <2>2
<1> QED BY <1>1, <1>2, <1>3, <1>4, <1>5, <1>6, <1>7, <1>8 DEF ClimbDecides

\* A tree that fits in the left half is a prefix of the tree if it is one of that half.
LEMMA PrefixOnLeft ==
  ASSUME NEW s \in Seq(Data), NEW t \in Seq(Data), Len(s) > 1,
         Len(t) <= LargestPowerOfTwoBelow(Len(s))
  PROVE  IsPrefix(t, s) <=> IsPrefix(t, LeftOf(s))
<1>1. PICK n \in Nat : n = Len(s)
  OBVIOUS
<1>2. PICK m \in Nat : m = Len(t)
  OBVIOUS
<1>3. PICK k \in Nat : k = LargestPowerOfTwoBelow(Len(s))
  BY Halves
<1>4. PICK l \in Seq(Data) : l = LeftOf(s)
  BY Halves
<1>5. m <= k /\ k < n /\ Len(l) = k /\ \A i \in 1..k : l[i] = s[i]
  BY <1>1, <1>2, <1>3, <1>4, Halves
<1>6. IsPrefix(t, s) <=> \A i \in 1..m : t[i] = s[i]
  <2>1. IsPrefix(t, s) <=> Len(t) <= Len(s) /\ \A i \in 1..Len(t) : t[i] = s[i]
    BY PrefixIs
  <2> QED BY <1>1, <1>2, <1>5, <2>1
<1>7. IsPrefix(t, l) <=> \A i \in 1..m : t[i] = l[i]
  <2>1. IsPrefix(t, l) <=> Len(t) <= Len(l) /\ \A i \in 1..Len(t) : t[i] = l[i]
    BY PrefixIs
  <2> QED BY <1>2, <1>5, <2>1
<1>8. \A i \in 1..m : l[i] = s[i]
  BY <1>5
<1> QED BY <1>4, <1>6, <1>7, <1>8

\* That of an old tree that fits in the left half.
LEMMA ConsistencyOnLeft ==
  ASSUME NEW s \in Seq(Data), NEW t \in Seq(Data), NEW x \in Hash, NEW o \in Seq(Hash),
         Len(t) > 0, Len(t) < Len(s), Len(t) <= LargestPowerOfTwoBelow(Len(s)),
         ConsistencyHolds(LeftOf(s))
  PROVE  ClimbDecides(s, t, x, o)
<1>1. PICK n \in Nat : n = Len(s)
  OBVIOUS
<1>2. PICK m \in Nat : m = Len(t)
  OBVIOUS
<1>3. Len(s) > 1
  BY <1>1, <1>2
<1>4. PICK k \in Nat : k = LargestPowerOfTwoBelow(Len(s))
  BY <1>3, Halves
<1>5. PICK l \in Seq(Data) : l = LeftOf(s)
  BY <1>3, Halves
<1>6. PICK right \in Hash : right = Root[RightOf(s)]
  BY <1>3, Halves, RootIsHash
<1>7. /\ k >= 1 /\ IsPowerOfTwo[k] /\ k < n /\ n <= 2 * k /\ 0 < m /\ m <= k
      /\ Len(l) = k /\ \A i \in 1..k : l[i] = s[i]
  BY <1>1, <1>2, <1>3, <1>4, <1>5, Halves
<1>8. Root[s] = NodeHash(Root[l], right)
  BY <1>3, <1>5, <1>6, RootCases
<1>9. PICK made \in Seq(Hash) : made = ConsistencyPath[l][m][FALSE] /\ Len(made) >= 1
  <2>1. m \in Nat \ {0} /\ FALSE \in BOOLEAN
    BY <1>7
  <2> QED BY <2>1, ConsistencyPathOfHashes
<1>10. ConsistencyPath[s][m][FALSE] = Append(made, right)
  <2>1. ~ (m >= Len(s)) /\ m <= LargestPowerOfTwoBelow(Len(s)) /\ m \in Nat \ {0}
    BY <1>1, <1>4, <1>7
  <2> QED BY <1>5, <1>6, <1>9, <2>1, ConsistencyPathIs
<1>11. PICK fn \in Nat : fn = m - 1
  BY <1>7
<1>12. PICK sn \in Nat : sn = n - 1
  BY <1>7
<1>13. PICK f \in Nat, top \in Nat, Q \in Nat :
         /\ IsPowerOfTwo[Q] /\ f < Q /\ Q <= top /\ top < 2 * Q
         /\ SkipOnes[At(fn, k - 1)] = At(f, Q - 1)
         /\ SkipOnes[At(fn, sn)] = At(f, top)
  <2>1. OnesUnder(fn, sn, k)
    BY <1>7, <1>11, <1>12, SkipOnesUnder
  <2> QED BY <2>1 DEF OnesUnder
<1>14. PICK b \in Nat : b = Q - 1
  BY <1>13
<1> DEFINE D(q) == Climbed(At(f, b), x, q)
           C(q) == Climbed(At(f, top), x, q)
<1>15. At(f, b) \in Position /\ At(f, top) \in Position /\ At(f, top).sn = top /\ top # 0
  <2>1. top # 0
    BY <1>13
  <2> QED BY <2>1, Positions
<1>16. Under(Started(At(f, b), x), Started(At(f, top), x))
  BY <1>13, <1>14 DEF Under, Started
<1>17. IsPrefix(t, s) <=> IsPrefix(t, l)
  BY <1>3, <1>5, PrefixOnLeft
<1>18. \A q \in Seq(Hash) : AtTop(D(q)) /\ D(q).new = Root[l] /\ D(q).old = Root[t]
                              <=> IsPrefix(t, l) /\ <<x>> \o q = made
  <2>1. Len(t) < Len(l) \/ (Len(t) = Len(l) /\ IsPowerOfTwo[Len(t)])
    BY <1>2, <1>7
  <2>2. SkipOnes[At(Len(t) - 1, Len(l) - 1)] = At(f, b)
    BY <1>2, <1>7, <1>11, <1>13, <1>14
  <2>3. Len(t) > 0
    BY <1>2, <1>7
  <2> SUFFICES ASSUME NEW q \in Seq(Hash)
               PROVE  AtTop(D(q)) /\ D(q).new = Root[l] /\ D(q).old = Root[t]
                        <=> IsPrefix(t, l) /\ <<x>> \o q = made
    OBVIOUS
  <2>4. ConsistencyHolds(l)
    BY <1>5
  <2>5. ClimbDecides(l, t, x, q)
    BY <2>1, <2>3, <2>4 DEF ConsistencyHolds
  <2>6. ConsistencyPath[l][Len(t)][FALSE] = made
    BY <1>2, <1>9
  <2> QED BY <2>2, <2>5, <2>6 DEF ClimbDecides
<1>19. CASE o = << >>
  <2>1. C(o) = Started(At(f, top), x)
    BY <1>15, <1>19, ClimbedIs
  <2>2. ~AtTop(C(o))
    BY <1>15, <2>1 DEF AtTop, Started
  <2>3. <<x>> \o o # Append(made, right)
    <3>1. <<x>> \o << >> = <<x>>
      BY FirstAndMore
    <3>2. Append(made, right) # <<x>>
      BY <1>9, MoreThanOne
    <3> QED BY <1>19, <3>1, <3>2
  <2> QED BY <1>1, <1>2, <1>10, <1>11, <1>12, <1>13, <2>2, <2>3 DEF ClimbDecides
<1>20. CASE o # << >>
  <2>1. PICK q \in Seq(Hash), y \in Hash : o = Append(q, y)
    <3>1. Len(o) # 0
      BY <1>20, LengthCases
    <3> QED BY <3>1, LastNode
  <2>2. C(o) = Climb(C(q), y) /\ C(q) \in Climber /\ D(q) \in Climber
    BY <1>15, <2>1, ClimbedIs, ClimbedIsClimber
  <2>3. Under(D(q), C(q)) \/ Over(D(q), C(q))
    BY <1>15, <1>16, UnderClimb
  <2>4. <<x>> \o o = Append(made, right) <=> <<x>> \o q = made /\ y = right
    <3>1. PICK p \in Seq(Hash) : p = <<x>> \o q
      BY FirstAndMore
    <3>2. <<x>> \o o = Append(p, y)
      BY <2>1, <3>1, FirstAndMore
    <3>3. Append(p, y) = Append(made, right) <=> p = made /\ y = right
      BY AppendsDiffer
    <3> QED BY <3>1, <3>2, <3>3
  <2>5. AtTop(D(q)) /\ D(q).new = Root[l] /\ D(q).old = Root[t]
          <=> IsPrefix(t, l) /\ <<x>> \o q = made
    BY <1>18
  <2>6. PICK c \in Climber : c = C(o)
    BY <1>15, ClimbedIsClimber
  <2>7. PICK d \in Climber : d = D(q)
    BY <2>2
  <2> HIDE DEF C, D
  <2>8. /\ AtTop(c) <=> AtTop(d)
        /\ AtTop(d) => c.new = NodeHash(d.new, y) /\ c.old = d.old
    BY <2>2, <2>3, <2>6, <2>7, UnderStep
  <2>9. NodeHash(d.new, y) = NodeHash(Root[l], right) <=> d.new = Root[l] /\ y = right
    BY HashesDiffer
  <2>10. AtTop(c) /\ c.new = Root[s] /\ c.old = Root[t]
           <=> IsPrefix(t, s) /\ <<x>> \o o = Append(made, right)
    BY <1>8, <1>17, <2>4, <2>5, <2>7, <2>8, <2>9
  <2>11. c = Climbed(SkipOnes[At(Len(t) - 1, Len(s) - 1)], x, o)
    BY <1>1, <1>2, <1>11, <1>12, <1>13, <2>6 DEF C
  <2> QED BY <1>2, <1>10, <2>10, <2>11 DEF ClimbDecides
<1> QED BY <1>19, <1>20

\* If the old tree splits where the new one does, it is a prefix if its left half is
\* the new one's and its right half a prefix of the new one's.
LEMMA PrefixSplits ==
  ASSUME NEW s \in Seq(Data), NEW t \in Seq(Data), Len(s) > 1,
         LargestPowerOfTwoBelow(Len(s)) < Len(t), Len(t) < Len(s)
  PROVE  /\ Len(t) > 1
         /\ LargestPowerOfTwoBelow(Len(t)) = LargestPowerOfTwoBelow(Len(s))
         /\ IsPrefix(t, s) <=> LeftOf(t) = LeftOf(s) /\ IsPrefix(RightOf(t), RightOf(s))
<1>1. PICK n \in Nat : n = Len(s)
  OBVIOUS
<1>2. PICK m \in Nat : m = Len(t)
  OBVIOUS
<1>3. Len(t) > 1 /\ LargestPowerOfTwoBelow(Len(t)) = LargestPowerOfTwoBelow(Len(s))
  <2>1. n > 1 /\ LargestPowerOfTwoBelow(n) < m /\ m <= n
    BY <1>1, <1>2
  <2>2. m > 1 /\ LargestPowerOfTwoBelow(m) = LargestPowerOfTwoBelow(n)
    BY <2>1, SameSplit
  <2> QED BY <1>1, <1>2, <2>2
<1>4. PICK k \in Nat : k = LargestPowerOfTwoBelow(Len(s))
  BY Halves
<1>5. PICK l \in Seq(Data), r \in Seq(Data) : l = LeftOf(s) /\ r = RightOf(s)
  BY Halves
<1>6. PICK tl \in Seq(Data), tr \in Seq(Data) : tl = LeftOf(t) /\ tr = RightOf(t)
  BY <1>3, Halves
<1>7. /\ k >= 1 /\ k < m /\ m < n
      /\ Len(l) = k /\ \A i \in 1..k : l[i] = s[i]
      /\ Len(r) = n - k /\ \A i \in 1..n - k : r[i] = s[i + k]
  BY <1>1, <1>2, <1>4, <1>5, Halves
<1>8. /\ Len(tl) = k /\ \A i \in 1..k : tl[i] = t[i]
      /\ Len(tr) = m - k /\ \A i \in 1..m - k : tr[i] = t[i + k]
  <2>1. k = LargestPowerOfTwoBelow(Len(t)) /\ Len(t) > 1
    BY <1>3, <1>4
  <2> QED BY <1>2, <1>6, <2>1, Halves
<1>9. IsPrefix(t, s) <=> \A i \in 1..m : t[i] = s[i]
  <2>1. IsPrefix(t, s) <=> Len(t) <= Len(s) /\ \A i \in 1..Len(t) : t[i] = s[i]
    BY PrefixIs
  <2>2. m <= n
    BY <1>7
  <2> QED BY <1>1, <1>2, <2>1, <2>2
<1>10. IsPrefix(tr, r) <=> \A i \in 1..m - k : tr[i] = r[i]
  <2>1. IsPrefix(tr, r) <=> Len(tr) <= Len(r) /\ \A i \in 1..Len(tr) : tr[i] = r[i]
    BY PrefixIs
  <2>2. m - k <= n - k
    BY <1>7
  <2> QED BY <1>7, <1>8, <2>1, <2>2
<1>11. tl = l <=> \A i \in 1..k : tl[i] = l[i]
  BY <1>7, <1>8, SeqEqual
<1>12. (\A i \in 1..m : t[i] = s[i])
         <=> (\A i \in 1..k : tl[i] = l[i]) /\ (\A i \in 1..m - k : tr[i] = r[i])
  <2>1. ASSUME \A i \in 1..m : t[i] = s[i]
        PROVE  (\A i \in 1..k : tl[i] = l[i]) /\ (\A i \in 1..m - k : tr[i] = r[i])
    <3>1. ASSUME NEW i \in 1..k PROVE tl[i] = l[i]
      <4>1. i \in 1..m
        BY <1>7
      <4>2. tl[i] = t[i] /\ l[i] = s[i] /\ t[i] = s[i]
        BY <1>7, <1>8, <2>1, <4>1
      <4> QED BY <4>2
    <3>2. ASSUME NEW i \in 1..m - k PROVE tr[i] = r[i]
      <4>1. i \in 1..n - k /\ i + k \in 1..m
        BY <1>7
      <4>2. tr[i] = t[i + k] /\ r[i] = s[i + k] /\ t[i + k] = s[i + k]
        BY <1>7, <1>8, <2>1, <4>1
      <4> QED BY <4>2
    <3> QED BY <3>1, <3>2
  <2>2. ASSUME \A i \in 1..k : tl[i] = l[i], \A i \in 1..m - k : tr[i] = r[i]
        PROVE  \A i \in 1..m : t[i] = s[i]
    <3> SUFFICES ASSUME NEW i \in 1..m PROVE t[i] = s[i]
      OBVIOUS
    <3>1. CASE i <= k
      BY <1>7, <1>8, <2>2, <3>1
    <3>2. CASE ~ (i <= k)
      <4>1. PICK j \in 1..m - k : i = j + k
        <5>1. i - k \in 1..m - k /\ i = (i - k) + k
          BY <1>7, <3>2
        <5> QED BY <5>1
      <4>2. j \in 1..n - k
        BY <1>7
      <4>3. tr[j] = t[j + k] /\ r[j] = s[j + k] /\ tr[j] = r[j]
        BY <1>7, <1>8, <2>2, <4>1, <4>2
      <4> QED BY <4>1, <4>3
    <3> QED BY <3>1, <3>2
  <2> QED BY <2>1, <2>2
<1> QED BY <1>3, <1>5, <1>6, <1>9, <1>10, <1>11, <1>12

\* That of an old tree that reaches into the right half.
LEMMA ConsistencyOnRight ==
  ASSUME NEW s \in Seq(Data), NEW t \in Seq(Data), NEW x \in Hash, NEW o \in Seq(Hash),
         Len(s) > 1, Len(t) < Len(s), LargestPowerOfTwoBelow(Len(s)) < Len(t),
         ConsistencyHolds(RightOf(s))
  PROVE  ClimbDecides(s, t, x, o)
<1>1. PICK n \in Nat : n = Len(s)
  OBVIOUS
<1>2. PICK m \in Nat : m = Len(t)
  OBVIOUS
<1>3. /\ Len(t) > 1 /\ LargestPowerOfTwoBelow(Len(t)) = LargestPowerOfTwoBelow(Len(s))
      /\ IsPrefix(t, s) <=> LeftOf(t) = LeftOf(s) /\ IsPrefix(RightOf(t), RightOf(s))
  BY PrefixSplits
<1>4. PICK k \in Nat : k = LargestPowerOfTwoBelow(Len(s))
  BY Halves
<1>5. PICK l \in Seq(Data), r \in Seq(Data) : l = LeftOf(s) /\ r = RightOf(s)
  BY Halves
<1>6. PICK tl \in Seq(Data), tr \in Seq(Data) : tl = LeftOf(t) /\ tr = RightOf(t)
  BY <1>3, Halves
<1>7. /\ k >= 1 /\ IsPowerOfTwo[k] /\ k < m /\ m < n /\ n <= 2 * k
      /\ Len(l) = k /\ Len(r) = n - k
  BY <1>1, <1>2, <1>4, <1>5, Halves
<1>8. Len(tl) = k /\ Len(tr) = m - k
  BY <1>2, <1>3, <1>4, <1>6, Halves
<1>9. /\ Root[s] = NodeHash(Root[l], Root[r]) /\ Root[t] = NodeHash(Root[tl], Root[tr])
      /\ Root[l] \in Hash /\ Root[r] \in Hash
  BY <1>3, <1>5, <1>6, RootCases, RootIsHash
<1>10. PICK left \in Hash : left = Root[l]
  BY <1>9
<1>11. PICK j \in Nat : j = m - k
  BY <1>7
<1>12. PICK made \in Seq(Hash) : made = ConsistencyPath[r][j][FALSE] /\ Len(made) >= 1
  <2>1. j \in Nat \ {0} /\ FALSE \in BOOLEAN
    BY <1>7, <1>11
  <2> QED BY <2>1, ConsistencyPathOfHashes
<1>13. ConsistencyPath[s][m][FALSE] = Append(made, left)
  <2>1. ~ (m >= Len(s)) /\ ~ (m <= LargestPowerOfTwoBelow(Len(s))) /\ m \in Nat \ {0}
    BY <1>1, <1>4, <1>7
  <2> QED BY <1>4, <1>5, <1>10, <1>11, <1>12, <2>1, ConsistencyPathIs
<1>14. PICK fn \in Nat : fn = j - 1
  BY <1>7, <1>11
<1>15. PICK sn \in Nat : sn = (n - k) - 1
  BY <1>7
<1>16. fn + k = m - 1 /\ sn + k = n - 1
  BY <1>7, <1>11, <1>14, <1>15
<1>17. PICK f \in Nat, b \in Nat, Q \in Nat :
         /\ IsPowerOfTwo[Q] /\ f <= b /\ b < Q
         /\ SkipOnes[At(fn, sn)] = At(f, b)
         /\ SkipOnes[At(fn + k, sn + k)] = At(f + Q, b + Q)
  <2>1. fn <= sn /\ sn < k /\ fn + 1 < k
    BY <1>7, <1>11, <1>14, <1>15
  <2>2. OnesBeside(fn, sn, k)
    BY <1>7, <2>1, SkipOnesBeside
  <2> QED BY <2>2 DEF OnesBeside
<1>18. PICK u \in Nat, v \in Nat : u = f + Q /\ v = b + Q
  OBVIOUS
<1> DEFINE D(q) == Climbed(At(f, b), x, q)
           C(q) == Climbed(At(u, v), x, q)
<1>19. SkipOnes[At(Len(t) - 1, Len(s) - 1)] = At(u, v)
  BY <1>1, <1>2, <1>16, <1>17, <1>18
<1>20. At(f, b) \in Position /\ At(u, v) \in Position /\ At(u, v).sn = v /\ v # 0
  <2>1. v # 0
    BY <1>17, <1>18
  <2> QED BY <2>1, Positions
<1>21. Beside(Started(At(f, b), x), Started(At(u, v), x))
  BY <1>17, <1>18 DEF Beside, Started
<1>22. \A q \in Seq(Hash) : AtTop(D(q)) /\ D(q).new = Root[r] /\ D(q).old = Root[tr]
                              <=> IsPrefix(tr, r) /\ <<x>> \o q = made
  <2>1. Len(tr) > 0 /\ Len(tr) < Len(r) /\ Len(tr) = j
    BY <1>7, <1>8, <1>11
  <2>2. SkipOnes[At(Len(tr) - 1, Len(r) - 1)] = At(f, b)
    BY <1>7, <1>8, <1>11, <1>14, <1>15, <1>17
  <2> SUFFICES ASSUME NEW q \in Seq(Hash)
               PROVE  AtTop(D(q)) /\ D(q).new = Root[r] /\ D(q).old = Root[tr]
                        <=> IsPrefix(tr, r) /\ <<x>> \o q = made
    OBVIOUS
  <2>3. ConsistencyHolds(r)
    BY <1>5
  <2>4. ClimbDecides(r, tr, x, q)
    BY <2>1, <2>3 DEF ConsistencyHolds
  <2>5. ConsistencyPath[r][Len(tr)][FALSE] = made
    BY <1>12, <2>1
  <2> QED BY <2>2, <2>4, <2>5 DEF ClimbDecides
<1>23. CASE o = << >>
  <2>1. C(o) = Started(At(u, v), x)
    BY <1>20, <1>23, ClimbedIs
  <2>2. ~AtTop(C(o))
    BY <1>20, <2>1 DEF AtTop, Started
  <2>3. <<x>> \o o # Append(made, left)
    <3>1. <<x>> \o << >> = <<x>>
      BY FirstAndMore
    <3>2. Append(made, left) # <<x>>
      BY <1>12, MoreThanOne
    <3> QED BY <1>23, <3>1, <3>2
  <2> QED BY <1>2, <1>13, <1>19, <2>2, <2>3 DEF ClimbDecides
<1>24. CASE o # << >>
  <2>1. PICK q \in Seq(Hash), y \in Hash : o = Append(q, y)
    <3>1. Len(o) # 0
      BY <1>24, LengthCases
    <3> QED BY <3>1, LastNode
  <2>2. C(o) = Climb(C(q), y) /\ C(q) \in Climber /\ D(q) \in Climber
    BY <1>20, <2>1, ClimbedIs, ClimbedIsClimber
  <2>3. Beside(D(q), C(q)) \/ Over(D(q), C(q))
    BY <1>20, <1>21, BesideClimb
  <2>4. <<x>> \o o = Append(made, left) <=> <<x>> \o q = made /\ y = left
    <3>1. PICK p \in Seq(Hash) : p = <<x>> \o q
      BY FirstAndMore
    <3>2. <<x>> \o o = Append(p, y)
      BY <2>1, <3>1, FirstAndMore
    <3>3. Append(p, y) = Append(made, left) <=> p = made /\ y = left
      BY AppendsDiffer
    <3> QED BY <3>1, <3>2, <3>3
  <2>5. AtTop(D(q)) /\ D(q).new = Root[r] /\ D(q).old = Root[tr]
          <=> IsPrefix(tr, r) /\ <<x>> \o q = made
    BY <1>22
  <2>6. PICK c \in Climber : c = C(o)
    BY <1>20, ClimbedIsClimber
  <2>7. PICK d \in Climber : d = D(q)
    BY <2>2
  <2> HIDE DEF C, D
  <2>8. /\ AtTop(c) <=> AtTop(d)
        /\ AtTop(d) => c.new = NodeHash(y, d.new) /\ c.old = NodeHash(y, d.old)
    BY <2>2, <2>3, <2>6, <2>7, BesideStep
  <2>9. /\ NodeHash(y, d.new) = NodeHash(Root[l], Root[r]) <=> y = Root[l] /\ d.new = Root[r]
        /\ NodeHash(y, d.old) = NodeHash(Root[tl], Root[tr])
             <=> y = Root[tl] /\ d.old = Root[tr]
    BY HashesDiffer
  <2>10. Root[l] = Root[tl] <=> l = tl
    BY <1>7, <1>8, RootDecides
  <2>11. AtTop(c) /\ c.new = Root[s] /\ c.old = Root[t]
           <=> IsPrefix(t, s) /\ <<x>> \o o = Append(made, left)
    BY <1>3, <1>5, <1>6, <1>9, <1>10, <2>4, <2>5, <2>7, <2>8, <2>9, <2>10
  <2>12. c = Climbed(SkipOnes[At(Len(t) - 1, Len(s) - 1)], x, o)
    BY <1>19, <2>6 DEF C
  <2> QED BY <1>2, <1>13, <2>11, <2>12 DEF ClimbDecides
<1> QED BY <1>23, <1>24

\* A verifier of consistency decides, at every size.
LEMMA ConsistencyOfAll == \A s \in Seq(Data) : ConsistencyHolds(s)
<1> DEFINE S == {s \in Seq(Data) : ConsistencyHolds(s)}
<1>1. ASSUME NEW s \in Seq(Data), \A t \in Seq(Data) : Len(t) < Len(s) => t \in S
      PROVE  s \in S
  <2> SUFFICES ASSUME NEW t \in Seq(Data), NEW x \in Hash, NEW o \in Seq(Hash), Len(t) > 0,
                      Len(t) < Len(s) \/ (Len(t) = Len(s) /\ IsPowerOfTwo[Len(t)])
               PROVE  ClimbDecides(s, t, x, o)
    BY DEF ConsistencyHolds
  <2>1. CASE Len(t) = Len(s)
    <3>1. IsPowerOfTwo[Len(t)]
      BY <2>1
    <3> QED BY <2>1, <3>1, ConsistencyOfSame
  <2>2. CASE Len(t) < Len(s)
    <3>1. Len(s) > 1
      <4>1. Len(s) \in Nat /\ Len(t) \in Nat
        BY LengthCases
      <4> QED BY <2>2, <4>1
    <3>2. /\ LeftOf(s) \in Seq(Data) /\ Len(LeftOf(s)) < Len(s)
          /\ RightOf(s) \in Seq(Data) /\ Len(RightOf(s)) < Len(s)
      BY <3>1, Halves
    <3>3. ConsistencyHolds(LeftOf(s)) /\ ConsistencyHolds(RightOf(s))
      BY <1>1, <3>2
    <3>4. Len(t) <= LargestPowerOfTwoBelow(Len(s)) \/ LargestPowerOfTwoBelow(Len(s)) < Len(t)
      <4>1. LargestPowerOfTwoBelow(Len(s)) \in Nat /\ Len(t) \in Nat
        BY <3>1, Halves, LengthCases
      <4> QED BY <4>1
    <3> HIDE DEF S
    <3> QED BY <2>2, <3>1, <3>3, <3>4, ConsistencyOnLeft, ConsistencyOnRight
  <2> QED BY <2>1, <2>2
<1>2. \A s \in Seq(Data) : s \in S
  <2> HIDE DEF S
  <2> QED BY <1>1, TreeInduction
<1> QED BY <1>2

\* The proof for a whole old tree leaves out the root the verifier has, if that is the
\* root of a full subtree, and nothing otherwise.
OldRootLeftOut(s, t, m) ==
  /\ IsPowerOfTwo[m]
       => ConsistencyPath[s][m][FALSE] = <<Root[t]>> \o ConsistencyPath[s][m][TRUE]
  /\ ~IsPowerOfTwo[m] /\ m < Len(s)
       => ConsistencyPath[s][m][FALSE] = ConsistencyPath[s][m][TRUE]
LeavesOutRoot(s) ==
  \A t \in Seq(Data) : Len(t) > 0 /\ IsPrefix(t, s) => OldRootLeftOut(s, t, Len(t))

\* So it does in a tree if it does in its left half.
LEMMA LeavesOutRootOfMore ==
  ASSUME NEW s \in Seq(Data), Len(s) > 1 => LeavesOutRoot(LeftOf(s))
  PROVE  LeavesOutRoot(s)
<1> SUFFICES ASSUME NEW t \in Seq(Data), Len(t) > 0, IsPrefix(t, s)
             PROVE  OldRootLeftOut(s, t, Len(t))
  BY DEF LeavesOutRoot
<1>1. PICK m \in Nat : m = Len(t)
  OBVIOUS
<1>2. PICK n \in Nat : n = Len(s)
  OBVIOUS
<1> SUFFICES OldRootLeftOut(s, t, m)
  BY <1>1
<1>3. m > 0 /\ m <= n /\ \A i \in 1..m : t[i] = s[i]
  BY <1>1, <1>2, PrefixIs
<1>4. m \in Nat \ {0} /\ TRUE \in BOOLEAN /\ FALSE \in BOOLEAN
  BY <1>3
<1>5. Root[t] \in Hash /\ Root[s] \in Hash
  BY RootIsHash
<1>6. CASE m = n
  <2>1. t = s
    BY <1>1, <1>2, <1>3, <1>6, SeqEqual
  <2>2. m >= Len(s)
    BY <1>2, <1>6
  <2>3. ConsistencyPath[s][m][TRUE] = << >>
    BY <1>4, <2>2, ConsistencyPathIs
  <2>4. ConsistencyPath[s][m][FALSE] = <<Root[s]>>
    BY <1>4, <2>2, ConsistencyPathIs
  <2>5. <<Root[s]>> \o << >> = <<Root[s]>>
    BY <1>5, FirstAndMore
  <2>6. ~ (m < Len(s))
    BY <1>2, <1>6
  <2> QED BY <2>1, <2>3, <2>4, <2>5, <2>6 DEF OldRootLeftOut
<1>7. CASE m < n
  <2>1. Len(s) > 1
    BY <1>2, <1>3, <1>7
  <2>2. PICK k \in Nat : k = LargestPowerOfTwoBelow(Len(s))
    BY <2>1, Halves
  <2>3. PICK l \in Seq(Data), r \in Seq(Data) : l = LeftOf(s) /\ r = RightOf(s)
    BY <2>1, Halves
  <2>4. k >= 1 /\ IsPowerOfTwo[k] /\ k < n /\ n <= 2 * k /\ Len(l) = k
    BY <1>2, <2>1, <2>2, <2>3, Halves
  <2>5. ~ (m >= Len(s))
    BY <1>2, <1>7
  <2>6. CASE m <= k
    <3>1. IsPrefix(t, l)
      BY <1>1, <2>1, <2>2, <2>3, <2>6, PrefixOnLeft
    <3>2. PICK right \in Hash : right = Root[r]
      BY RootIsHash
    <3>3. PICK p \in Seq(Hash) : p = ConsistencyPath[l][m][TRUE]
      BY <1>4, ConsistencyPathOfHashes
    <3>4. ConsistencyPath[s][m][TRUE] = Append(p, right)
      BY <1>4, <2>2, <2>3, <2>5, <2>6, <3>2, <3>3, ConsistencyPathIs
    <3>5. PICK q \in Seq(Hash) : q = ConsistencyPath[l][m][FALSE]
      BY <1>4, ConsistencyPathOfHashes
    <3>6. ConsistencyPath[s][m][FALSE] = Append(q, right)
      BY <1>4, <2>2, <2>3, <2>5, <2>6, <3>2, <3>5, ConsistencyPathIs
    <3>7. LeavesOutRoot(l)
      BY <2>1, <2>3
    <3>8. /\ IsPowerOfTwo[m] => q = <<Root[t]>> \o p
          /\ ~IsPowerOfTwo[m] /\ m < Len(l) => q = p
      BY <1>1, <3>1, <3>3, <3>5, <3>7 DEF LeavesOutRoot, OldRootLeftOut
    <3>9. ~IsPowerOfTwo[m] => m < Len(l)
      <4>1. ~IsPowerOfTwo[m] => m # k
        BY <2>4
      <4> QED BY <2>4, <2>6, <4>1
    <3>10. <<Root[t]>> \o Append(p, right) = Append(<<Root[t]>> \o p, right)
      BY <1>5, FirstAndMore
    <3> QED BY <3>4, <3>6, <3>8, <3>9, <3>10 DEF OldRootLeftOut
  <2>7. CASE ~ (m <= k)
    <3>1. ~IsPowerOfTwo[m]
      <4>1. k < m /\ m < 2 * k
        BY <1>7, <2>4, <2>7
      <4> QED BY <2>4, <4>1, NoPowerBetween
    <3>2. ConsistencyPath[s][m][TRUE] = Append(ConsistencyPath[r][m - k][FALSE], Root[l])
      BY <1>4, <2>2, <2>3, <2>5, <2>7, ConsistencyPathIs
    <3>3. ConsistencyPath[s][m][FALSE] = Append(ConsistencyPath[r][m - k][FALSE], Root[l])
      BY <1>4, <2>2, <2>3, <2>5, <2>7, ConsistencyPathIs
    <3> QED BY <3>1, <3>2, <3>3 DEF OldRootLeftOut
  <2> QED BY <2>6, <2>7
<1> QED BY <1>3, <1>6, <1>7

\* So it does in every tree.
LEMMA LeavesOutRootOfAll == \A s \in Seq(Data) : LeavesOutRoot(s)
<1> DEFINE S == {s \in Seq(Data) : LeavesOutRoot(s)}
<1>1. ASSUME NEW s \in Seq(Data), \A t \in Seq(Data) : Len(t) < Len(s) => t \in S
      PROVE  s \in S
  <2>1. Len(s) > 1 => LeftOf(s) \in Seq(Data) /\ Len(LeftOf(s)) < Len(s)
    BY Halves
  <2>2. Len(s) > 1 => LeavesOutRoot(LeftOf(s))
    BY <1>1, <2>1
  <2> QED BY <2>2, LeavesOutRootOfMore
<1>2. \A s \in Seq(Data) : s \in S
  <2> HIDE DEF S
  <2> QED BY <1>1, TreeInduction
<1> QED BY <1>2

\* Nothing but << >> has no first element.
LEMMA FirstOf ==
  ASSUME NEW p \in Seq(Hash), p # << >>
  PROVE  Head(p) \in Hash /\ Tail(p) \in Seq(Hash) /\ p = <<Head(p)>> \o Tail(p)
<1>1. Head(p) \in Hash /\ Tail(p) \in Seq(Hash) /\ Len(Tail(p)) = Len(p) - 1
      /\ \A i \in 1..Len(p) - 1 : Tail(p)[i] = p[i + 1]
  BY HeadTailProperties
<1>2. PICK n \in Nat : n = Len(p)
  OBVIOUS
<1>3. n # 0 /\ Head(p) = p[1]
  <2>1. n # 0
    BY <1>2, LengthCases
  <2> QED BY <2>1
<1>4. PICK x \in Hash : x = Head(p)
  BY <1>1
<1>5. PICK q \in Seq(Hash) : q = Tail(p)
  BY <1>1
<1>6. Len(q) = n - 1 /\ \A i \in 1..n - 1 : q[i] = p[i + 1]
  BY <1>1, <1>2, <1>5
<1>7. PICK r \in Seq(Hash) : r = <<x>> \o q
  BY FirstAndMore
<1>8. Len(r) = Len(q) + 1 /\ \A i \in 1..Len(q) + 1 : r[i] = IF i <= 1 THEN x ELSE q[i - 1]
  BY <1>7, FirstAndMore
<1>9. Len(q) + 1 = n
  BY <1>3, <1>6
<1>10. Len(r) = n /\ \A i \in 1..n : r[i] = IF i <= 1 THEN x ELSE q[i - 1]
  BY <1>8, <1>9
<1>11. \A i \in 1..n : r[i] = p[i]
  <2> SUFFICES ASSUME NEW i \in 1..n PROVE r[i] = p[i]
    OBVIOUS
  <2>1. CASE i = 1
    BY <1>3, <1>4, <1>10, <2>1
  <2>2. CASE i # 1
    <3>1. PICK j \in 1..n - 1 : j = i - 1 /\ j + 1 = i /\ ~ (i <= 1)
      BY <2>2
    <3> QED BY <1>6, <1>10, <3>1
  <2> QED BY <2>1, <2>2
<1>12. r = p
  BY <1>2, <1>10, <1>11, SeqEqual
<1> QED BY <1>1, <1>4, <1>5, <1>7, <1>12

\* VerifyConsistency, for the roots of two trees, accepts the one proof that
\* ConsistencyProof makes, and only if the old tree is a prefix of the new one.
THEOREM VerifyConsistencyDecides ==
  ASSUME NEW s \in Seq(Data), NEW t \in Seq(Data), NEW proof \in Seq(Hash)
  PROVE  VerifyConsistency(Len(t), Len(s), Root[t], Root[s], proof)
           <=> Len(t) > 0 /\ IsPrefix(t, s) /\ proof = ConsistencyProof(s, Len(t))
<1>1. PICK n \in Nat : n = Len(s)
  OBVIOUS
<1>2. PICK m \in Nat : m = Len(t)
  OBVIOUS
<1>3. PICK new \in Hash, old \in Hash : new = Root[s] /\ old = Root[t]
  BY RootIsHash
<1>4. NoHash \notin {old, new}
  BY <1>3, RootIsNotNoHash
<1>5. IsPrefix(t, s) <=> m <= n /\ \A i \in 1..m : t[i] = s[i]
  BY <1>1, <1>2, PrefixIs
<1> SUFFICES VerifyConsistency(m, n, old, new, proof)
               <=> m > 0 /\ IsPrefix(t, s) /\ proof = ConsistencyPath[s][m][TRUE]
  BY <1>1, <1>2, <1>3 DEF ConsistencyProof
<1>6. CASE m = 0 \/ n < m
  <2>1. ~ (m > 0 /\ m <= n) /\ ~ (0 < m /\ m <= n)
    BY <1>6
  <2>2. ~VerifyConsistency(m, n, old, new, proof)
    BY <2>1 DEF VerifyConsistency
  <2>3. ~ (m > 0 /\ IsPrefix(t, s))
    BY <1>5, <2>1
  <2> QED BY <2>2, <2>3
<1>7. CASE m # 0 /\ m = n
  <2>1. VerifyConsistency(m, n, old, new, proof) <=> proof = << >> /\ old = new
    BY <1>4, <1>7 DEF VerifyConsistency
  <2>2. old = new <=> IsPrefix(t, s)
    <3>1. IsPrefix(t, s) <=> t = s
      <4>1. IsPrefix(t, s) <=> \A i \in 1..n : t[i] = s[i]
        BY <1>5, <1>7
      <4>2. (\A i \in 1..n : t[i] = s[i]) <=> t = s
        BY <1>1, <1>2, <1>7, SeqEqual
      <4> QED BY <4>1, <4>2
    <3>2. Root[t] = Root[s] <=> t = s
      BY <1>1, <1>2, <1>7, RootDecides
    <3> QED BY <1>3, <3>1, <3>2
  <2>3. ConsistencyPath[s][m][TRUE] = << >>
    <3>1. m \in Nat \ {0} /\ TRUE \in BOOLEAN /\ m >= Len(s)
      BY <1>1, <1>7
    <3> QED BY <3>1, ConsistencyPathIs
  <2>4. m > 0
    BY <1>7
  <2> QED BY <2>1, <2>2, <2>3, <2>4
<1>8. CASE m # 0 /\ m < n
  <2>1. PICK start \in Position : start = SkipOnes[At(m - 1, n - 1)]
    <3>1. n - 1 \in Nat /\ m > 0
      BY <1>8
    <3> QED BY <3>1, SkipOnesToFirst
  <2>2. start.fn = 0 <=> IsPowerOfTwo[m]
    <3>1. n - 1 \in Nat /\ m > 0
      BY <1>8
    <3> QED BY <2>1, <3>1, SkipOnesToFirst
  <2>3. \A x \in Hash : \A o \in Seq(Hash) :
          LET c == Climbed(start, x, o)
          IN  AtTop(c) /\ c.new = new /\ c.old = old
                <=> IsPrefix(t, s) /\ <<x>> \o o = ConsistencyPath[s][m][FALSE]
    <3> SUFFICES ASSUME NEW x \in Hash, NEW o \in Seq(Hash)
                 PROVE  LET c == Climbed(start, x, o)
                        IN  AtTop(c) /\ c.new = new /\ c.old = old
                              <=> IsPrefix(t, s) /\ <<x>> \o o = ConsistencyPath[s][m][FALSE]
      OBVIOUS
    <3>1. Len(t) > 0 /\ Len(t) < Len(s)
      BY <1>1, <1>2, <1>8
    <3>2. ClimbDecides(s, t, x, o)
      BY <3>1, ConsistencyOfAll DEF ConsistencyHolds
    <3> QED BY <1>1, <1>2, <1>3, <2>1, <3>2 DEF ClimbDecides
  <2>4. IsPrefix(t, s) => OldRootLeftOut(s, t, m)
    <3>1. Len(t) > 0
      BY <1>2, <1>8
    <3> QED BY <1>2, <3>1, LeavesOutRootOfAll DEF LeavesOutRoot
  <2>5. PICK made \in Seq(Hash) : made = ConsistencyPath[s][m][TRUE]
    <3>1. m \in Nat \ {0} /\ TRUE \in BOOLEAN
      BY <1>8
    <3> QED BY <3>1, ConsistencyPathOfHashes
  <2>6. At(m - 1, n - 1) = [fn |-> m - 1, sn |-> n - 1]
    BY DEF At
  <2>7. CASE IsPowerOfTwo[m]
    <3>1. VerifyConsistency(m, n, old, new, proof)
            <=> LET c == Climbed(start, old, proof)
                IN  AtTop(c) /\ c.new = new /\ c.old = old
      <4>1. /\ Head(<<old>> \o proof) = old /\ Tail(<<old>> \o proof) = proof
            /\ <<old>> \o proof # << >>
        BY FirstAndMore
      <4>2. start.fn = 0 /\ 0 < m /\ m <= n /\ m # n
        BY <1>8, <2>2, <2>7
      <4> QED BY <1>4, <2>1, <2>6, <4>1, <4>2 DEF VerifyConsistency
    <3>2. VerifyConsistency(m, n, old, new, proof)
            <=> IsPrefix(t, s) /\ <<old>> \o proof = ConsistencyPath[s][m][FALSE]
      BY <2>3, <3>1
    <3>3. IsPrefix(t, s) => ConsistencyPath[s][m][FALSE] = <<old>> \o made
      BY <1>3, <2>4, <2>5, <2>7 DEF OldRootLeftOut
    <3>4. <<old>> \o proof = <<old>> \o made <=> proof = made
      <4>1. Tail(<<old>> \o proof) = proof /\ Tail(<<old>> \o made) = made
        BY FirstAndMore
      <4> QED BY <4>1
    <3>5. m > 0
      BY <1>8
    <3> QED BY <2>5, <3>2, <3>3, <3>4, <3>5
  <2>8. CASE ~IsPowerOfTwo[m]
    <3>1. start.fn # 0 /\ 0 < m /\ m <= n /\ m # n
      BY <1>8, <2>2, <2>8
    <3>2. IsPrefix(t, s) => ConsistencyPath[s][m][FALSE] = made /\ made # << >>
      <4>1. IsPrefix(t, s) => ConsistencyPath[s][m][FALSE] = made
        <5>1. m < Len(s)
          BY <1>1, <1>8
        <5> QED BY <2>4, <2>5, <2>8, <5>1 DEF OldRootLeftOut
      <4>2. Len(ConsistencyPath[s][m][FALSE]) >= 1
        <5>1. m \in Nat \ {0} /\ TRUE \in BOOLEAN
          BY <1>8
        <5> QED BY <5>1, ConsistencyPathOfHashes
      <4>3. Len(made) >= 1 => made # << >>
        OBVIOUS
      <4> QED BY <4>1, <4>2, <4>3
    <3>3. CASE proof = << >>
      <4>1. ~VerifyConsistency(m, n, old, new, proof)
        BY <2>1, <2>6, <3>1, <3>3 DEF VerifyConsistency
      <4> QED BY <2>5, <3>2, <3>3, <4>1
    <3>4. CASE proof # << >>
      <4>1. PICK x \in Hash, o \in Seq(Hash) : x = Head(proof) /\ o = Tail(proof)
        BY <3>4, FirstOf
      <4>2. proof = <<x>> \o o
        BY <3>4, <4>1, FirstOf
      <4>3. VerifyConsistency(m, n, old, new, proof)
              <=> LET c == Climbed(start, x, o)
                  IN  AtTop(c) /\ c.new = new /\ c.old = old
        BY <1>4, <2>1, <2>6, <3>1, <3>4, <4>1 DEF VerifyConsistency
      <4>4. VerifyConsistency(m, n, old, new, proof)
              <=> IsPrefix(t, s) /\ proof = ConsistencyPath[s][m][FALSE]
        BY <2>3, <4>2, <4>3
      <4> QED BY <2>5, <3>1, <3>2, <4>4
    <3> QED BY <3>3, <3>4
  <2> QED BY <2>7, <2>8
<1>9. (m = 0 \/ n < m) \/ (m # 0 /\ m = n) \/ (m # 0 /\ m < n)
  OBVIOUS
<1> QED BY <1>6, <1>7, <1>8, <1>9

\* VerifyInclusion, for the root of a tree, accepts the one proof that InclusionProof
\* makes, and only for the leaf at the index.
THEOREM VerifyInclusionDecides ==
  ASSUME NEW s \in Seq(Data), NEW m \in Nat, NEW d \in Data, NEW proof \in Seq(Hash)
  PROVE  VerifyInclusion(d, m, Len(s), proof, Root[s])
           <=> m < Len(s) /\ d = s[m + 1] /\ proof = InclusionProof(s, m)
<1>1. LeafHash(d) \in Hash
  BY HashIs DEF IsHashes
<1>2. CASE ~ (m < Len(s))
  BY <1>2 DEF VerifyInclusion
<1>3. CASE m < Len(s)
  <2>1. InclusionHolds(s)
    BY InclusionOfAll
  <2>2. PICK hash \in Hash : hash = LeafHash(d)
    BY <1>1
  <2>3. LET c == Climbed(At(m, Len(s) - 1), hash, proof)
        IN  AtTop(c) /\ c.new = Root[s]
              <=> hash = LeafHash(s[m + 1]) /\ proof = ProofPath[s][m]
    BY <1>3, <2>1 DEF InclusionHolds
  <2>4. hash = LeafHash(s[m + 1]) <=> d = s[m + 1]
    BY <2>2, HashesDiffer
  <2>5. At(m, Len(s) - 1) = [fn |-> m, sn |-> Len(s) - 1]
    BY DEF At
  <2>6. 0 <= m
    OBVIOUS
  <2> QED BY <1>3, <2>2, <2>3, <2>4, <2>5, <2>6 DEF VerifyInclusion, InclusionProof
<1> QED BY <1>2, <1>3

-----------------------------------------------------------------------------
(* What is sent as a proof is made of hashes *)

\* So are its pieces.
LEMMA PiecesOfHashes ==
  ASSUME NEW p \in Seq(Hash), NEW i \in 1..Len(p) + 1
  PROVE  SubSeq(p, 1, i - 1) \in Seq(Hash) /\ SubSeq(p, i, Len(p)) \in Seq(Hash)
<1>1. PICK n \in Nat : n = Len(p)
  OBVIOUS
<1>2. SubSeq(p, 1, i - 1) \in Seq(Hash)
  <2>1. \A j \in 1..i - 1 : p[j] \in Hash
    BY <1>1
  <2> QED BY <1>1, <2>1
<1>3. SubSeq(p, i, Len(p)) \in Seq(Hash)
  <2>1. \A j \in i..n : p[j] \in Hash
    BY <1>1
  <2> QED BY <1>1, <2>1
<1> QED BY <1>2, <1>3

\* With any node left out, replaced, added or moved.
LEMMA SpoiltOfHashes ==
  ASSUME NEW p \in Seq(Hash), root \in Hash
  PROVE  Spoilt(p) \subseteq Seq(Hash)
<1>1. PICK n \in Nat : n = Len(p)
  OBVIOUS
<1>2. PICK x \in Hash : x = root
  OBVIOUS
<1>3. \A i \in DOMAIN p : RemoveAt(p, i) \in Seq(Hash)
  <2> SUFFICES ASSUME NEW i \in 1..n PROVE RemoveAt(p, i) \in Seq(Hash)
    BY <1>1
  <2>1. PICK q \in Seq(Hash) : q = SubSeq(p, 1, i - 1)
    <3>1. i \in 1..Len(p) + 1
      BY <1>1
    <3> QED BY <3>1, PiecesOfHashes
  <2>2. PICK r \in Seq(Hash) : r = SubSeq(p, i + 1, Len(p))
    <3>1. i + 1 \in 1..Len(p) + 1
      BY <1>1
    <3> QED BY <3>1, PiecesOfHashes
  <2> QED BY <2>1, <2>2, ConcatProperties DEF RemoveAt
<1>4. \A i \in DOMAIN p : ReplaceAt(p, i, root) \in Seq(Hash)
  BY <1>1 DEF ReplaceAt
<1>5. \A i \in 1..Len(p) + 1 : InsertAt(p, i, root) \in Seq(Hash)
  <2> SUFFICES ASSUME NEW i \in 1..Len(p) + 1 PROVE InsertAt(p, i, root) \in Seq(Hash)
    OBVIOUS
  <2>1. PICK q \in Seq(Hash) : q = SubSeq(p, 1, i - 1)
    BY PiecesOfHashes
  <2>2. PICK r \in Seq(Hash) : r = SubSeq(p, i, Len(p))
    BY PiecesOfHashes
  <2>3. <<x>> \in Seq(Hash)
    BY ONLY x \in Hash
  <2>4. q \o <<x>> \in Seq(Hash)
    BY <2>3, ConcatProperties
  <2>5. (q \o <<x>>) \o r \in Seq(Hash)
    BY <2>4, ConcatProperties
  <2> QED BY <1>2, <2>1, <2>2, <2>5 DEF InsertAt
<1>6. Reverse(p) \in Seq(Hash)
  <2>1. \A i \in 1..n : p[(n - i) + 1] \in Hash
    BY <1>1
  <2>2. Reverse(p) = [i \in 1..n |-> p[(n - i) + 1]]
    BY <1>1 DEF Reverse
  <2> QED BY <2>1, <2>2
<1>7. p \o p \in Seq(Hash)
  BY ConcatProperties
<1> QED BY <1>3, <1>4, <1>5, <1>6, <1>7 DEF Spoilt

-----------------------------------------------------------------------------
(* The log and a witness *)

\* The witness remembers the size and the root of the tree it has seen.
MerkleInv ==
  /\ leaves \in Seq(Data) /\ seen \in Seq(Data)
  /\ size = Len(seen) /\ root = Root[seen]

\* What is sent is made of hashes.
LEMMA ProofsSent ==
  ASSUME MerkleInv
  PROVE  InclusionProofs \subseteq Seq(Hash) /\ ConsistencyProofs \subseteq Seq(Hash)
<1>1. root \in Hash
  BY RootIsHash DEF MerkleInv
<1>2. ASSUME NEW made, made \subseteq Seq(Hash)
      PROVE  AndSpoilt(made) \subseteq Seq(Hash)
  <2>1. \A p \in made : Spoilt(p) \subseteq Seq(Hash)
    BY <1>1, <1>2, SpoiltOfHashes
  <2> QED BY <1>2, <2>1 DEF AndSpoilt
<1>3. {InclusionProof(leaves, m) : m \in 0..Len(leaves) - 1} \subseteq Seq(Hash)
  <2>1. \A m \in 0..Len(leaves) - 1 : m \in Nat
    BY DEF MerkleInv
  <2> QED BY <2>1, ProofPathOfHashes DEF MerkleInv, InclusionProof
<1>4. \A s \in {leaves, seen} : \A m \in 1..Len(s) : ConsistencyProof(s, m) \in Seq(Hash)
  <2> SUFFICES ASSUME NEW s \in Seq(Data), NEW m \in 1..Len(s)
               PROVE  ConsistencyPath[s][m][TRUE] \in Seq(Hash)
    BY DEF MerkleInv, ConsistencyProof
  <2>1. m \in Nat \ {0} /\ TRUE \in BOOLEAN
    OBVIOUS
  <2> QED BY <2>1, ConsistencyPathOfHashes
<1>5. {<< >>} \cup UNION {{ConsistencyProof(s, m) : m \in 1..Len(s)} : s \in {leaves, seen}}
        \subseteq Seq(Hash)
  <2>1. \A s \in {leaves, seen} :
          {ConsistencyProof(s, m) : m \in 1..Len(s)} \subseteq Seq(Hash)
    BY <1>4
  <2>2. UNION {{ConsistencyProof(s, m) : m \in 1..Len(s)} : s \in {leaves, seen}}
          \subseteq Seq(Hash)
    BY <2>1, Zenon
  <2>3. << >> \in Seq(Hash)
    OBVIOUS
  <2> QED BY <2>2, <2>3
<1> QED BY <1>2, <1>3, <1>5 DEF InclusionProofs, ConsistencyProofs

\* Every step keeps the invariant: the witness takes the size and the root together.
LEMMA MerkleStep ==
  ASSUME MerkleInv, [Next]_vars
  PROVE  MerkleInv'
<1>1. ASSUME NEW d \in Data, Grow(d) PROVE MerkleInv'
  BY <1>1, AppendProperties DEF MerkleInv, Grow
<1>2. ASSUME NEW n \in 0..Len(leaves), PutBack(n) PROVE MerkleInv'
  <2>1. SubSeq(leaves, 1, n) \in Seq(Data)
    <3>1. PICK k \in Nat : k = Len(leaves)
      BY DEF MerkleInv
    <3> QED BY <3>1 DEF MerkleInv
  <2> QED BY <1>2, <2>1 DEF MerkleInv, PutBack
<1>3. ASSUME NEW proof \in ConsistencyProofs, Advance(proof) PROVE MerkleInv'
  BY <1>3 DEF MerkleInv, Advance
<1>4. CASE UNCHANGED vars
  BY <1>4 DEF MerkleInv, vars
<1> QED BY <1>1, <1>2, <1>3, <1>4 DEF Next

\* In every behaviour.
LEMMA MerkleAlways == Spec => []MerkleInv
<1>1. Init => MerkleInv
  <2> SUFFICES ASSUME Init PROVE MerkleInv
    OBVIOUS
  <2>1. << >> \in Seq(Data) /\ Len(<< >>) = 0
    OBVIOUS
  <2>2. Root[<< >>] = EmptyRoot
    BY <2>1, RootIs
  <2> QED BY <2>1, <2>2 DEF Init, MerkleInv
<1>2. MerkleInv /\ [Next]_vars => MerkleInv'
  BY MerkleStep
<1> QED BY <1>1, <1>2, PTL DEF Spec

\* For trees of any size, an inclusion proof is accepted for the root of the log
\* exactly if it is the one InclusionProof makes and the leaf is the one at its index.
THEOREM AcceptedInclusionIsTrue == Spec => []InclusionDecides
<1>1. MerkleInv => InclusionDecides
  <2> SUFFICES ASSUME MerkleInv, NEW m \in 0..Len(leaves), NEW d \in Data,
                      NEW proof \in InclusionProofs
               PROVE  VerifyInclusion(d, m, Len(leaves), proof, Root[leaves])
                        <=> /\ m < Len(leaves)
                            /\ d = leaves[m + 1]
                            /\ proof = InclusionProof(leaves, m)
    BY DEF InclusionDecides
  <2>1. leaves \in Seq(Data) /\ m \in Nat /\ proof \in Seq(Hash)
    BY ProofsSent DEF MerkleInv
  <2> QED BY <2>1, VerifyInclusionDecides
<1> QED BY <1>1, MerkleAlways, PTL

\* For trees of any size, a consistency proof is accepted between the root a witness
\* remembers and that of the log exactly if the one tree is a prefix of the other and
\* the proof is the one ConsistencyProof makes.
THEOREM AcceptedConsistencyIsTrue == Spec => []ConsistencyDecides
<1>1. MerkleInv => ConsistencyDecides
  <2> SUFFICES ASSUME MerkleInv, NEW proof \in ConsistencyProofs
               PROVE  /\ VerifyConsistency(size, Len(leaves), root, Root[leaves], proof)
                           <=> /\ size > 0
                               /\ IsPrefix(seen, leaves)
                               /\ proof = ConsistencyProof(leaves, size)
                      /\ ~VerifyConsistency(size, size, NoHash, NoHash, proof)
    BY DEF ConsistencyDecides, MerkleInv
  <2>1. /\ leaves \in Seq(Data) /\ seen \in Seq(Data) /\ proof \in Seq(Hash)
        /\ size = Len(seen) /\ root = Root[seen]
    BY ProofsSent DEF MerkleInv
  <2>2. ~VerifyConsistency(size, size, NoHash, NoHash, proof)
    BY DEF VerifyConsistency
  <2> QED BY <2>1, <2>2, VerifyConsistencyDecides
<1> QED BY <1>1, MerkleAlways, PTL

\* What the witness remembers is only ever extended: no proof makes it take a tree that
\* its own is not a prefix of, whatever the log was put back to.
THEOREM SeenIsExtended == Spec => [][IsPrefix(seen, seen')]_vars
<1>1. ASSUME MerkleInv, [Next]_vars PROVE [IsPrefix(seen, seen')]_vars
  <2>1. IsPrefix(seen, seen)
    BY DEF MerkleInv, IsPrefix
  <2>2. ASSUME NEW d \in Data, Grow(d) PROVE IsPrefix(seen, seen')
    BY <2>1, <2>2 DEF Grow
  <2>3. ASSUME NEW n \in 0..Len(leaves), PutBack(n) PROVE IsPrefix(seen, seen')
    BY <2>1, <2>3 DEF PutBack
  <2>4. ASSUME NEW proof \in ConsistencyProofs, Advance(proof) PROVE IsPrefix(seen, seen')
    <3>1. /\ leaves \in Seq(Data) /\ seen \in Seq(Data) /\ proof \in Seq(Hash)
          /\ size = Len(seen) /\ root = Root[seen]
      BY <1>1, ProofsSent DEF MerkleInv
    <3>2. seen' = leaves /\ Advances(proof)
      BY <2>4 DEF Advance
    <3>3. CASE size = 0
      <4>1. IsPrefix(seen, leaves)
              <=> Len(seen) <= Len(leaves) /\ \A i \in 1..Len(seen) : seen[i] = leaves[i]
        BY <3>1, PrefixIs
      <4>2. PICK n \in Nat : n = Len(leaves)
        BY <3>1
      <4>3. Len(seen) = 0 /\ Len(seen) <= Len(leaves)
        BY <3>1, <3>3, <4>2
      <4> QED BY <3>2, <4>1, <4>3
    <3>4. CASE size # 0 /\ size = Len(leaves)
      <4>1. Root[leaves] = Root[seen]
        BY <3>1, <3>2, <3>4 DEF Advances
      <4>2. leaves = seen
        BY <3>1, <3>4, <4>1, RootDecides
      <4> QED BY <2>1, <3>2, <4>2
    <3>5. CASE size # 0 /\ size # Len(leaves)
      <4>1. VerifyConsistency(size, Len(leaves), root, Root[leaves], proof)
        BY <3>2, <3>5 DEF Advances
      <4> QED BY <3>1, <3>2, <4>1, VerifyConsistencyDecides
    <3> QED BY <3>3, <3>4, <3>5
  <2>5. CASE UNCHANGED vars
    BY <2>5
  <2> QED BY <1>1, <2>2, <2>3, <2>4, <2>5 DEF Next
<1> QED BY <1>1, MerkleAlways, PTL DEF Spec
=============================================================================
