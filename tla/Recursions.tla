------------------------------ MODULE Recursions ------------------------------
(***************************************************************************)
(* Recursion and induction.  A recursive function of a model says something*)
(* only if it exists, and here is why those of BlockReader, Decoding and   *)
(* FilterLoop do.  The library has such theorems with an operator for the  *)
(* step or the property; here both are functions and sets.                 *)
(***************************************************************************)
EXTENDS Integers, WellFoundedInduction, NaturalsInduction, TLAPS

\* A set of numbers that is not empty has a least one.
LEMMA Least ==
    ASSUME NEW T \in SUBSET Nat, T # {}
    PROVE  \E x \in T : \A y \in T : x <= y
<1>. DEFINE R == {pair \in Nat \X Nat : pair[1] < pair[2]}
<1>1. IsWellFoundedOn(R, Nat)
  BY NatLessThanWellFounded DEF OpToRel
<1>2. PICK x \in T : \A y \in T : <<y, x>> \notin R
  BY <1>1, WFMin
<1>3. ASSUME NEW y \in T PROVE x <= y
  <2>1. x \in Nat /\ y \in Nat
    OBVIOUS
  <2>2. ~(y < x)
    BY <2>1, <1>2
  <2>. QED BY <2>1, <2>2
<1>. QED BY <1>3

\* Induction, as a fact about sets: the library's takes an operator.
LEMMA Induct ==
    ASSUME NEW P \in SUBSET Nat, 0 \in P, \A n \in P : n + 1 \in P
    PROVE  P = Nat
<1>. SUFFICES ASSUME P # Nat PROVE FALSE
  OBVIOUS
<1>. DEFINE T == Nat \ P
<1>1. PICK x \in T : \A y \in T : x <= y
  <2>. T \in SUBSET Nat /\ T # {}
    OBVIOUS
  <2>. QED BY Least
<1>2. x # 0 /\ x \in Nat /\ x \notin P
  OBVIOUS
<1>3. x - 1 \in Nat
  BY <1>2
<1>4. x - 1 \in P
  <2>1. CASE x - 1 \in T
    BY <1>1, <1>2, <1>3, <2>1
  <2>. QED BY <1>3, <2>1
<1>5. (x - 1) + 1 = x
  BY <1>2
<1>. QED BY <1>2, <1>4, <1>5

Recursive(f, S, z, step) ==
    /\ f \in [Nat -> S]
    /\ f[0] = z
    /\ \A n \in Nat : f[n + 1] = step[<<n, f[n]>>]

\* There is such a function: recursion over the naturals, for a step that is a
\* function, put together from the functions on 0..n that begin like it.
LEMMA Recursion ==
    ASSUME NEW S, NEW z \in S, NEW step \in [Nat \X S -> S]
    PROVE  \E f : Recursive(f, S, z, step)
<1>. DEFINE After(n, s) == step[<<n, s>>]
            Upto(n) == {g \in [0..n -> S] :
                          g[0] = z /\ \A m \in 0..(n - 1) : g[m + 1] = After(m, g[m])}
<1>1. \A n \in Nat, s \in S : After(n, s) \in S
  OBVIOUS
<1>. HIDE DEF After
<1>2. \A n \in Nat : Upto(n) # {}
  <2>. DEFINE P == {n \in Nat : Upto(n) # {}}
  <2>1. 0 \in P
    <3>. DEFINE g == [m \in 0..0 |-> z]
    <3>. g \in Upto(0)
      OBVIOUS
    <3>. QED OBVIOUS
  <2>2. ASSUME NEW n \in P PROVE n + 1 \in P
    <3>1. PICK g \in Upto(n) : TRUE
      OBVIOUS
    <3>. DEFINE h == [m \in 0..(n + 1) |-> IF m <= n THEN g[m] ELSE After(n, g[n])]
    <3>2. n \in Nat /\ g \in [0..n -> S]
      OBVIOUS
    <3>3. \A m \in 0..n : h[m] = g[m]
      BY <3>2
    <3>4. h[n + 1] = After(n, g[n])
      BY <3>2
    <3>5. g[n] \in S
      BY <3>2
    <3>6. After(n, g[n]) \in S
      BY <1>1, <3>2, <3>5
    <3>7. h \in [0..(n + 1) -> S]
      BY <3>2, <3>6
    <3>. HIDE DEF h
    <3>8. h[0] = z
      BY <3>2, <3>3
    <3>9. ASSUME NEW m \in 0..n PROVE h[m + 1] = After(m, h[m])
      <4>1. h[m] = g[m]
        BY <3>3
      <4>2. CASE m = n
        BY <3>4, <4>1, <4>2
      <4>3. CASE m # n
        <5>1. m \in 0..(n - 1) /\ m + 1 \in 0..n
          BY <3>2, <4>3
        <5>2. g[m + 1] = After(m, g[m])
          BY <5>1
        <5>. QED BY <3>3, <4>1, <5>1, <5>2
      <4>. QED BY <4>2, <4>3
    <3>10. (n + 1) - 1 = n
      BY <3>2
    <3>11. h \in Upto(n + 1)
      BY <3>7, <3>8, <3>9, <3>10
    <3>. QED BY <3>2, <3>11
  <2>. HIDE DEF Upto
  <2>3. P = Nat
    BY <2>1, <2>2, Induct
  <2>. QED BY <2>3
<1>3. ASSUME NEW n \in Nat, NEW k \in Nat, NEW g \in Upto(n), NEW h \in Upto(k)
      PROVE  \A m \in Nat : m <= n /\ m <= k => g[m] = h[m]
  <2>. DEFINE P == {j \in Nat : j <= n /\ j <= k => g[j] = h[j]}
  <2>1. 0 \in P
    OBVIOUS
  <2>2. ASSUME NEW j \in P PROVE j + 1 \in P
    <3>. SUFFICES ASSUME j + 1 <= n, j + 1 <= k PROVE g[j + 1] = h[j + 1]
      OBVIOUS
    <3>1. j \in 0..(n - 1) /\ j \in 0..(k - 1) /\ g[j] = h[j]
      OBVIOUS
    <3>2. g[j + 1] = After(j, g[j])
      BY <3>1
    <3>3. h[j + 1] = After(j, h[j])
      BY <3>1
    <3>. QED BY <3>1, <3>2, <3>3
  <2>3. P = Nat
    <3>. P \in SUBSET Nat
      OBVIOUS
    <3>. HIDE DEF P
    <3>. QED BY <2>1, <2>2, Induct
  <2>. QED BY <2>3
<1>4. \A n \in Nat : \A g \in Upto(n) :
        g \in [0..n -> S] /\ g[0] = z /\ \A m \in 0..(n - 1) : g[m + 1] = After(m, g[m])
  OBVIOUS
<1>. HIDE DEF Upto
<1>. DEFINE Part(n) == CHOOSE g \in Upto(n) : TRUE
            f == [n \in Nat |-> Part(n)[n]]
<1>5. \A n \in Nat : Part(n) \in Upto(n)
  BY <1>2
<1>. HIDE DEF Part
<1>6. \A n \in Nat : f[n] = Part(n)[n]
  OBVIOUS
<1>7. \A n \in Nat : f[n] \in S
  <2>. TAKE n \in Nat
  <2>1. Part(n) \in [0..n -> S] /\ n \in 0..n
    BY <1>4, <1>5
  <2>. QED BY <1>6, <2>1
<1>8. f \in [Nat -> S]
  BY <1>7
<1>. HIDE DEF f
<1>9. f[0] = z
  BY <1>4, <1>5, <1>6
<1>10. ASSUME NEW n \in Nat PROVE f[n + 1] = step[<<n, f[n]>>]
  <2>1. n + 1 \in Nat /\ n \in 0..((n + 1) - 1) /\ n <= n + 1
    OBVIOUS
  <2>2. Part(n + 1)[n + 1] = After(n, Part(n + 1)[n])
    BY <1>4, <1>5, <2>1
  <2>3. Part(n) \in Upto(n) /\ Part(n + 1) \in Upto(n + 1)
    BY <1>5, <2>1
  <2>4. Part(n + 1)[n] = Part(n)[n]
    BY <1>3, <2>1, <2>3
  <2>5. f[n + 1] = Part(n + 1)[n + 1] /\ f[n] = Part(n)[n]
    BY <1>6, <2>1
  <2>. QED BY <2>2, <2>4, <2>5 DEF After
<1>. QED BY <1>8, <1>9, <1>10 DEF Recursive

\* Induction up to a number.
LEMMA InductTo ==
    ASSUME NEW n \in Nat, NEW P \in SUBSET (0..n), 0 \in P,
           \A i \in P : i < n => i + 1 \in P
    PROVE  P = 0..n
<1>. DEFINE Q == {i \in Nat : i <= n => i \in P}
<1>1. 0 \in Q
  OBVIOUS
<1>2. ASSUME NEW i \in Q PROVE i + 1 \in Q
  <2>. SUFFICES ASSUME i + 1 <= n PROVE i + 1 \in P
    OBVIOUS
  <2>1. i \in P /\ i < n
    OBVIOUS
  <2>. QED BY <2>1
<1>3. Q = Nat
  <2>. Q \in SUBSET Nat
    OBVIOUS
  <2>. HIDE DEF Q
  <2>. QED BY <1>1, <1>2, Induct
<1>4. ASSUME NEW i \in 0..n PROVE i \in P
  <2>1. i \in Nat /\ i <= n
    OBVIOUS
  <2>. QED BY <1>3, <2>1
<1>. QED BY <1>4

RecursiveTo(f, n, S, z, step) ==
    /\ f \in [0..n -> S]
    /\ f[0] = z
    /\ \A i \in 1..n : f[i] = step[<<i, f[i - 1]>>]

\* A function on 0..n, each value made from the one before.
LEMMA RecursionTo ==
    ASSUME NEW S, NEW z \in S, NEW n \in Nat, NEW step \in [(1..n) \X S -> S]
    PROVE  \E f : RecursiveTo(f, n, S, z, step)
<1>. DEFINE all == [pair \in Nat \X S |->
                      IF pair[1] + 1 \in 1..n THEN step[<<pair[1] + 1, pair[2]>>] ELSE z]
<1>1. \A i \in Nat, s \in S : all[<<i, s>>] =
         IF i + 1 \in 1..n THEN step[<<i + 1, s>>] ELSE z
  OBVIOUS
<1>2. \A i \in Nat, s \in S : all[<<i, s>>] \in S
  <2>. TAKE i \in Nat, s \in S
  <2>. CASE i + 1 \in 1..n
    BY <1>1
  <2>. CASE i + 1 \notin 1..n
    BY <1>1
  <2>. QED OBVIOUS
<1>3. all \in [Nat \X S -> S]
  <2>1. \A pair \in Nat \X S : pair = <<pair[1], pair[2]>> /\ pair[1] \in Nat /\ pair[2] \in S
    OBVIOUS
  <2>2. \A pair \in Nat \X S : all[pair] \in S
    <3>. HIDE DEF all
    <3>. QED BY <1>2, <2>1
  <2>3. DOMAIN all = Nat \X S /\ all = [pair \in Nat \X S |-> all[pair]]
    OBVIOUS
  <2>. HIDE DEF all
  <2>. QED BY <2>2, <2>3
<1>. HIDE DEF all
<1>4. PICK g : Recursive(g, S, z, all)
  BY <1>3, Recursion
<1>5. g \in [Nat -> S] /\ g[0] = z /\ \A i \in Nat : g[i + 1] = all[<<i, g[i]>>]
  BY <1>4 DEF Recursive
<1>. DEFINE f == [i \in 0..n |-> g[i]]
<1>6. f \in [0..n -> S] /\ f[0] = z
  BY <1>5
<1>7. ASSUME NEW i \in 1..n PROVE f[i] = step[<<i, f[i - 1]>>]
  <2>1. i - 1 \in Nat /\ i - 1 \in 0..n /\ i \in 0..n /\ (i - 1) + 1 = i
    OBVIOUS
  <2>2. g[i] = all[<<i - 1, g[i - 1]>>] /\ g[i - 1] \in S
    BY <1>5, <2>1
  <2>3. g[i] = step[<<i, g[i - 1]>>]
    BY <1>1, <2>1, <2>2
  <2>. QED BY <2>1, <2>3
<1>. QED BY <1>6, <1>7 DEF RecursiveTo

\* Induction over a set whose elements have a rank.
LEMMA RankInduct ==
    ASSUME NEW S, NEW rank \in [S -> Nat], NEW P \in SUBSET S,
           \A x \in S : (\A y \in S : rank[y] < rank[x] => y \in P) => x \in P
    PROVE  P = S
<1>. SUFFICES ASSUME NEW x \in S, x \notin P PROVE FALSE
  OBVIOUS
<1>. DEFINE T == {rank[y] : y \in S \ P}
<1>1. T \in SUBSET Nat /\ T # {}
  OBVIOUS
<1>2. PICK m \in T : \A n \in T : m <= n
  BY <1>1, Least
<1>3. PICK y \in S \ P : m = rank[y]
  OBVIOUS
<1>4. \A u \in S : rank[u] < rank[y] => u \in P
  <2>. SUFFICES ASSUME NEW u \in S \ P, rank[u] < rank[y] PROVE FALSE
    OBVIOUS
  <2>1. rank[y] <= rank[u]
    BY <1>2, <1>3
  <2>. QED BY <2>1
<1>. QED BY <1>3, <1>4

RankRecursive(f, S, V, step) == f \in [S -> V] /\ \A x \in S : f[x] = step[<<x, f>>]

\* A function on such a set, each value made from those of a lower rank.
LEMMA RankRecursion ==
    ASSUME NEW S, NEW V, NEW rank \in [S -> Nat], NEW v \in V,
           NEW step \in [S \X [S -> V] -> V],
           \A x \in S : \A g, h \in [S -> V] :
              (\A y \in S : rank[y] < rank[x] => g[y] = h[y]) => step[<<x, g>>] = step[<<x, h>>]
    PROVE  \E f : RankRecursive(f, S, V, step)
<1>. PICK W : W = [S -> V]
  OBVIOUS
<1>. DEFINE Next(w) == [x \in S |-> step[<<x, w>>]]
            next == [pair \in Nat \X W |-> Next(pair[2])]
            first == [x \in S |-> v]
<1>1. \A w \in W : Next(w) \in W
  OBVIOUS
<1>2. first \in W
  OBVIOUS
<1>3. \A n \in Nat, w \in W : next[<<n, w>>] = Next(w)
  OBVIOUS
<1>4. next \in [Nat \X W -> W]
  <2>1. \A pair \in Nat \X W : Next(pair[2]) \in W
    <3>1. \A pair \in Nat \X W : pair[2] \in W
      OBVIOUS
    <3>. QED BY <1>1, <3>1
  <2>. HIDE DEF Next
  <2>. QED BY <2>1
<1>5. \A w \in W, x \in S : Next(w)[x] = step[<<x, w>>]
  OBVIOUS
<1>. HIDE DEF next, first, Next
<1>6. PICK F : Recursive(F, W, first, next)
  BY <1>2, <1>4, Recursion
<1>7. F \in [Nat -> W]
  BY <1>6 DEF Recursive
<1>8. \A n \in Nat, x \in S : F[n + 1][x] = step[<<x, F[n]>>]
  <2>. TAKE n \in Nat, x \in S
  <2>1. F[n + 1] = next[<<n, F[n]>>] /\ F[n] \in W
    BY <1>6, <1>7 DEF Recursive
  <2>2. F[n + 1] = Next(F[n])
    BY <2>1, <1>3
  <2>. QED BY <2>1, <2>2, <1>5
\* From its rank on, a value does not change.
<1>. DEFINE P == {x \in S : \A n \in Nat : n > rank[x] => F[n][x] = F[rank[x] + 1][x]}
<1>9. P = S
  <2>1. ASSUME NEW x \in S, \A y \in S : rank[y] < rank[x] => y \in P
        PROVE  x \in P
    <3>. SUFFICES ASSUME NEW n \in Nat, n > rank[x]
                  PROVE  F[n][x] = F[rank[x] + 1][x]
      OBVIOUS
    <3>1. n - 1 \in Nat /\ (n - 1) + 1 = n /\ rank[x] \in Nat /\ n - 1 >= rank[x]
      OBVIOUS
    <3>2. ASSUME NEW y \in S, rank[y] < rank[x]
          PROVE  F[n - 1][y] = F[rank[x]][y]
      <4>1. \A m \in Nat : m > rank[y] => F[m][y] = F[rank[y] + 1][y]
        BY <2>1, <3>2
      <4>2. rank[y] \in Nat
        OBVIOUS
      <4>3. n - 1 > rank[y]
        BY <3>1, <3>2, <4>2
      <4>. QED BY <3>1, <3>2, <4>1, <4>3
    <3>3. F[n - 1] \in [S -> V] /\ F[rank[x]] \in [S -> V]
      BY <1>7, <3>1
    <3>4. step[<<x, F[n - 1]>>] = step[<<x, F[rank[x]]>>]
      BY <3>2, <3>3
    <3>5. F[n][x] = step[<<x, F[n - 1]>>]
      BY <1>8, <3>1
    <3>6. F[rank[x] + 1][x] = step[<<x, F[rank[x]]>>]
      BY <1>8, <3>1
    <3>. QED BY <3>4, <3>5, <3>6
  <2>. P \in SUBSET S
    OBVIOUS
  <2>. HIDE DEF P
  <2>. QED BY <2>1, RankInduct
<1>. DEFINE f == [x \in S |-> F[rank[x] + 1][x]]
<1>10. f \in [S -> V]
  BY <1>7
<1>11. \A x \in S : f[x] = F[rank[x] + 1][x]
  OBVIOUS
<1>. HIDE DEF f
<1>12. ASSUME NEW x \in S PROVE f[x] = step[<<x, f>>]
  <2>1. rank[x] \in Nat /\ F[rank[x]] \in [S -> V]
    BY <1>7
  <2>2. ASSUME NEW y \in S, rank[y] < rank[x] PROVE F[rank[x]][y] = f[y]
    <3>1. F[rank[x]][y] = F[rank[y] + 1][y]
      BY <1>9, <2>1, <2>2
    <3>. QED BY <1>11, <3>1
  <2>3. step[<<x, F[rank[x]]>>] = step[<<x, f>>]
    BY <1>10, <2>1, <2>2
  <2>4. F[rank[x] + 1][x] = step[<<x, F[rank[x]]>>]
    BY <1>8, <2>1
  <2>. QED BY <1>11, <2>3, <2>4
<1>. QED BY <1>10, <1>12 DEF RankRecursive
===============================================================================
