----------------------------- MODULE BlockNumbers -----------------------------
(***************************************************************************)
(* The arithmetic of BlockReader, for all sizes of groups and words: what  *)
(* readZigZagLong and skipZigZagLong find in a file (zigzag.hpp) where a   *)
(* number was written, where one is cut, and where anything else is.       *)
(*                                                                         *)
(* Division comes first, with powers of two and words; and then numbers:   *)
(* zigzag and back, into groups and back.                                  *)
(***************************************************************************)
EXTENDS BlockReader, Recursions

-----------------------------------------------------------------------------
\* Quotient and remainder, for every divisor: what the provers know of them.
LEMMA Division ==
    ASSUME NEW a \in Nat, NEW d \in Nat \ {0}
    PROVE  /\ a \div d \in Nat
           /\ a % d \in 0..(d - 1)
           /\ a = d * (a \div d) + (a % d)
OBVIOUS

\* A product grows with its factors.
LEMMA ProductBound ==
    ASSUME NEW w \in Nat, NEW a \in Nat, NEW b \in Nat, a <= b
    PROVE  a * w \in Nat /\ a * w = w * a /\ w * a <= w * b
<1>1. PICK d \in Nat : b = a + d
  <2>1. b - a \in Nat /\ b = a + (b - a)
    OBVIOUS
  <2>. QED BY <2>1
<1>2. w * (a + d) = w * a + w * d
  OBVIOUS
<1>3. w * a \in Nat /\ w * d \in Nat
  OBVIOUS
<1>4. w * a <= w * b
  BY <1>1, <1>2, <1>3
<1>. QED BY <1>3, <1>4

\* Neither the quotient times the divisor nor the remainder is more than the number.
LEMMA DivisionBound ==
    ASSUME NEW a \in Nat, NEW d \in Nat \ {0}
    PROVE  d * (a \div d) <= a /\ a % d <= a
<1>1. PICK q \in Nat, r \in 0..(d - 1) : q = a \div d /\ r = a % d /\ a = d * q + r
  BY Division
<1>2. d * q \in Nat
  OBVIOUS
<1>3. d * q <= a /\ r <= a
  BY <1>1, <1>2
<1>. QED BY <1>1, <1>3

\* Quotient and remainder are the only such numbers.
LEMMA DivisionUnique ==
    ASSUME NEW d \in Nat \ {0}, NEW q \in Nat, NEW r \in 0..(d - 1)
    PROVE  (d * q + r) \div d = q /\ (d * q + r) % d = r
<1>. DEFINE a == d * q + r
<1>1. a \in Nat
  OBVIOUS
<1>. HIDE DEF a
<1>2. PICK q2 \in Nat : q2 = a \div d
  BY <1>1, Division
<1>3. PICK r2 \in 0..(d - 1) : r2 = a % d
  BY <1>1, Division
<1>4. d * q2 + r2 = d * q + r
  BY <1>1, <1>2, <1>3, Division DEF a
<1>5. d * (q2 - q) = r - r2
  BY <1>4
<1>6. ~(q2 - q >= 1)
  <2>. SUFFICES ASSUME q2 - q >= 1 PROVE FALSE
    OBVIOUS
  <2>1. d * (q2 - q) >= d
    OBVIOUS
  <2>. QED BY <1>5, <2>1
<1>7. ~(q - q2 >= 1)
  <2>. SUFFICES ASSUME q - q2 >= 1 PROVE FALSE
    OBVIOUS
  <2>1. d * (q - q2) >= d
    OBVIOUS
  <2>2. d * (q - q2) = r2 - r
    BY <1>4
  <2>. QED BY <2>1, <2>2
<1>8. q2 = q
  BY <1>6, <1>7
<1>9. r2 = r
  BY <1>4, <1>8
<1>. QED BY <1>2, <1>3, <1>8, <1>9 DEF a

\* A number below the divisor is its own remainder, and so it is a divisor later.
LEMMA Remainder ==
    ASSUME NEW d \in Nat \ {0}, NEW r \in 0..(d - 1)
    PROVE  r % d = r /\ (r + d) % d = r
<1>1. (d * 0 + r) % d = r
  BY DivisionUnique
<1>2. (d * 1 + r) % d = r
  BY DivisionUnique
<1>3. d * 0 + r = r /\ d * 1 + r = r + d
  OBVIOUS
<1>. QED BY <1>1, <1>2, <1>3

\* A remainder is doubled with the number and the divisor.
LEMMA Halves ==
    ASSUME NEW n \in Nat, NEW d \in Nat \ {0}
    PROVE  (2 * n) % (2 * d) = 2 * (n % d) /\ n % d \in 0..n
<1>1. PICK q \in Nat : q = n \div d
  BY Division
<1>2. PICK r \in 0..(d - 1) : r = n % d
  BY Division
<1>3. n = d * q + r /\ r <= n
  BY <1>1, <1>2, Division, DivisionBound
<1>4. PICK e \in Nat \ {0} : e = 2 * d
  OBVIOUS
<1>5. 2 * n = e * q + 2 * r
  <2>1. 2 * (d * q + r) = (2 * d) * q + 2 * r
    OBVIOUS
  <2>. QED BY <1>3, <1>4, <2>1
<1>6. 2 * r \in 0..(e - 1)
  BY <1>4
<1>7. (e * q + 2 * r) % e = 2 * r
  BY <1>6, DivisionUnique
<1>. QED BY <1>2, <1>3, <1>4, <1>5, <1>7

\* The remainder of a division by a product, group by group.
LEMMA ModProduct ==
    ASSUME NEW e \in Nat, NEW A \in Nat \ {0}, NEW R \in Nat \ {0}
    PROVE  e % (A * R) = (e % A) + A * ((e \div A) % R)
<1>1. PICK q \in Nat, r \in 0..(A - 1) : q = e \div A /\ r = e % A /\ e = A * q + r
  BY Division
<1>2. PICK q2 \in Nat, r2 \in 0..(R - 1) : q2 = q \div R /\ r2 = q % R /\ q = R * q2 + r2
  BY Division
<1>3. PICK D : D = A * R
  OBVIOUS
<1>4. D \in Nat \ {0}
  BY <1>3
<1>5. e = D * q2 + (A * r2 + r)
  <2>1. A * (R * q2 + r2) = (A * R) * q2 + A * r2
    OBVIOUS
  <2>2. e = A * (R * q2 + r2) + r
    BY <1>1, <1>2
  <2>3. e = (A * R) * q2 + A * r2 + r
    BY <2>1, <2>2
  <2>. QED BY <1>3, <1>4, <2>3
<1>6. A * r2 + r \in 0..(D - 1)
  <2>1. A * r2 <= A * (R - 1)
    OBVIOUS
  <2>. QED BY <1>3, <2>1
<1>7. e % D = A * r2 + r
  BY <1>4, <1>5, <1>6, DivisionUnique
<1>. QED BY <1>1, <1>2, <1>3, <1>7

-----------------------------------------------------------------------------
\* 1 << n.
LEMMA Pow2Equations ==
    /\ Pow2 \in [Nat -> Nat \ {0}]
    /\ Pow2[0] = 1
    /\ \A n \in Nat : Pow2[n + 1] = 2 * Pow2[n]
<1>. PICK S : S = Nat \ {0}
  OBVIOUS
<1>. PICK step : step = [pair \in Nat \X S |-> 2 * pair[2]]
  OBVIOUS
<1>1. step \in [Nat \X S -> S] /\ 1 \in S
  OBVIOUS
<1>2. \A n \in Nat, s \in S : step[<<n, s>>] = 2 * s
  OBVIOUS
<1>3. PICK f : Recursive(f, S, 1, step)
  BY <1>1, Recursion
<1>4. f \in [Nat -> S] /\ f[0] = 1 /\ \A n \in Nat : f[n + 1] = 2 * f[n]
  BY <1>2, <1>3 DEF Recursive
<1>5. f = [n \in Nat |-> IF n = 0 THEN 1 ELSE 2 * f[n - 1]]
  <2>1. \A n \in Nat : n # 0 => n - 1 \in Nat /\ (n - 1) + 1 = n
    OBVIOUS
  <2>2. \A n \in Nat : f[n] = IF n = 0 THEN 1 ELSE 2 * f[n - 1]
    BY <1>4, <2>1
  <2>. QED BY <1>4, <2>2
<1>6. Pow2 = [n \in Nat |-> IF n = 0 THEN 1 ELSE 2 * Pow2[n - 1]]
  BY <1>5 DEF Pow2
<1>7. \A n \in Nat : n + 1 \in Nat /\ n + 1 # 0 /\ (n + 1) - 1 = n
  OBVIOUS
<1>8. Pow2[0] = 1
  BY <1>6
<1>9. \A n \in Nat : Pow2[n + 1] = 2 * Pow2[n]
  BY <1>6, <1>7
<1>10. {n \in Nat : Pow2[n] \in Nat \ {0}} = Nat
  <2>. DEFINE P == {n \in Nat : Pow2[n] \in Nat \ {0}}
  <2>1. 0 \in P
    BY <1>8
  <2>2. ASSUME NEW n \in P PROVE n + 1 \in P
    BY <1>9
  <2>. HIDE DEF P
  <2>3. P \in SUBSET Nat
    BY DEF P
  <2>4. P = Nat
    BY <2>1, <2>2, <2>3, Induct
  <2>. QED BY <2>4 DEF P
<1>11. Pow2 \in [Nat -> Nat \ {0}]
  <2>1. \A n \in Nat : Pow2[n] \in Nat \ {0}
    BY <1>10
  <2>2. \E g : Pow2 = [n \in Nat |-> g[n]]
    <3>. PICK g : g = [n \in Nat |-> IF n = 0 THEN 1 ELSE 2 * Pow2[n - 1]]
      OBVIOUS
    <3>. Pow2 = [n \in Nat |-> g[n]]
      BY <1>6
    <3>. QED OBVIOUS
  <2>. QED BY <2>1, <2>2
<1>. QED BY <1>8, <1>9, <1>11

\* Shifting twice is shifting by the sum.
LEMMA Pow2Sum == \A m, n \in Nat : Pow2[m + n] = Pow2[m] * Pow2[n]
<1>. TAKE m \in Nat
<1>. DEFINE P == {n \in Nat : Pow2[m + n] = Pow2[m] * Pow2[n]}
<1>1. 0 \in P
  BY Pow2Equations
<1>2. ASSUME NEW n \in P PROVE n + 1 \in P
  <2>1. m + (n + 1) = (m + n) + 1 /\ m + n \in Nat
    OBVIOUS
  <2>2. Pow2[m + (n + 1)] = 2 * (Pow2[m] * Pow2[n])
    BY <2>1, Pow2Equations
  <2>3. Pow2[n + 1] = 2 * Pow2[n] /\ Pow2[m] \in Nat /\ Pow2[n] \in Nat
    BY Pow2Equations
  <2>4. Pow2[m] * (2 * Pow2[n]) = 2 * (Pow2[m] * Pow2[n])
    BY <2>3
  <2>. QED BY <2>2, <2>3, <2>4
<1>. HIDE DEF P
<1>3. P \in SUBSET Nat
  BY DEF P
<1>4. P = Nat
  BY <1>1, <1>2, <1>3, Induct
<1>. QED BY <1>4 DEF P

\* The further the shift, the larger the power.
LEMMA Pow2Grows == \A m, n \in Nat : m <= n => Pow2[m] <= Pow2[n]
<1>. TAKE m, n \in Nat
<1>. SUFFICES ASSUME m <= n PROVE Pow2[m] <= Pow2[n]
  OBVIOUS
<1>1. n - m \in Nat /\ m + (n - m) = n
  OBVIOUS
<1>2. Pow2[n] = Pow2[m] * Pow2[n - m]
  BY <1>1, Pow2Sum
<1>3. PICK a \in Nat \ {0}, b \in Nat \ {0} : a = Pow2[m] /\ b = Pow2[n - m]
  BY <1>1, Pow2Equations
<1>4. a * b >= a
  OBVIOUS
<1>. QED BY <1>2, <1>3, <1>4
-----------------------------------------------------------------------------
\* What the sizes of a group and of a word mean: the flag is a bit of its own, a
\* word has a sign, and the groups of a number hold a word.
LEMMA Sizing ==
    /\ Radix \in Nat /\ Radix >= 2
    /\ Word \div 2 \in Nat \ {0} /\ Word = 2 * (Word \div 2)
    /\ MaxGroups \in Nat \ {0} /\ WordBits <= GroupBits * MaxGroups
<1>1. \A n \in Nat \ {0} : Pow2[n] = 2 * Pow2[n - 1] /\ Pow2[n - 1] \in Nat \ {0}
  <2>. TAKE n \in Nat \ {0}
  <2>1. n - 1 \in Nat /\ (n - 1) + 1 = n
    OBVIOUS
  <2>. QED BY <2>1, Pow2Equations
<1>2. Radix \in Nat /\ Radix >= 2
  BY <1>1, SizesAssumption DEF Radix
<1>3. Word \div 2 \in Nat \ {0} /\ Word = 2 * (Word \div 2)
  BY <1>1, SizesAssumption DEF Word
<1>4. MaxGroups \in Nat \ {0} /\ WordBits <= GroupBits * MaxGroups
  <2>. DEFINE a == WordBits + GroupBits - 1
  <2>1. a \in Nat /\ a >= GroupBits /\ GroupBits \in Nat \ {0} /\ WordBits \in Nat
    BY SizesAssumption
  <2>2. MaxGroups \in Nat /\ a % GroupBits \in 0..(GroupBits - 1)
        /\ a = GroupBits * MaxGroups + (a % GroupBits)
    BY <2>1, Division DEF MaxGroups
  <2>. HIDE DEF a
  <2>3. PICK m \in Nat, r \in 0..(GroupBits - 1) : m = MaxGroups /\ a = GroupBits * m + r
    BY <2>2
  <2>4. m # 0
    <3>. SUFFICES ASSUME m = 0 PROVE FALSE
      OBVIOUS
    <3>1. GroupBits * m = 0
      BY <2>1
    <3>. QED BY <2>1, <2>3, <3>1
  <2>5. GroupBits * m \in Nat
    BY <2>1
  <2>6. WordBits <= GroupBits * m
    BY <2>1, <2>3, <2>5 DEF a
  <2>. QED BY <2>3, <2>4, <2>6
<1>. QED BY <1>2, <1>3, <1>4

\* What is taken from a byte or left in a word is a natural number below it.
LEMMA Moduli ==
    \A a \in Nat : /\ a % Radix \in 0..(Radix - 1) /\ a % Radix \in Nat
                  /\ a % Word \in 0..(Word - 1) /\ a % Word \in Nat
<1>. TAKE a \in Nat
<1>1. PICK r \in Nat \ {0}, w \in Nat \ {0} : r = Radix /\ w = Word
  BY Sizing
<1>2. a % r \in 0..(r - 1) /\ a % w \in 0..(w - 1)
  BY Division
<1>. QED BY <1>1, <1>2

\* Each group is worth Radix times the one before.
LEMMA Weights ==
    /\ \A n \in Nat : Weight(n) \in Nat \ {0} /\ Weight(n + 1) = Weight(n) * Radix
    /\ \A m, n \in Nat : m <= n => Weight(m) <= Weight(n)
    /\ Weight(0) = 1
    /\ Word <= Weight(MaxGroups)
<1>1. \A n \in Nat : GroupBits * n \in Nat /\ GroupBits * (n + 1) = GroupBits * n + GroupBits
  BY SizesAssumption
<1>2. \A n \in Nat : Weight(n) \in Nat \ {0}
  BY <1>1, Pow2Equations DEF Weight
<1>3. \A n \in Nat : Weight(n + 1) = Weight(n) * Radix
  <2>. TAKE n \in Nat
  <2>1. GroupBits \in Nat
    BY SizesAssumption
  <2>. QED BY <1>1, <2>1, Pow2Sum DEF Weight, Radix
<1>4. \A m, n \in Nat : m <= n => Weight(m) <= Weight(n)
  <2>. TAKE m, n \in Nat
  <2>. SUFFICES ASSUME m <= n PROVE Weight(m) <= Weight(n)
    OBVIOUS
  <2>1. GroupBits * m <= GroupBits * n
    BY SizesAssumption
  <2>. QED BY <1>1, <2>1, Pow2Grows DEF Weight
<1>5. Weight(0) = 1
  BY Pow2Equations, SizesAssumption DEF Weight
<1>6. Word <= Weight(MaxGroups)
  <2>1. MaxGroups \in Nat /\ WordBits <= GroupBits * MaxGroups
    BY Sizing
  <2>2. GroupBits * MaxGroups \in Nat /\ WordBits \in Nat
    BY <1>1, <2>1, SizesAssumption
  <2>. QED BY <2>1, <2>2, Pow2Grows DEF Weight, Word
<1>. QED BY <1>2, <1>3, <1>4, <1>5, <1>6

\* decodeZigzag64 is the inverse of the zigzag encoding, for all numbers of a word
\* (zigzag.hpp, decodeZigzag64); those that are not negative are the even ones.
LEMMA ZigzagInverse ==
    ASSUME NEW n, Fits(n)
    PROVE  /\ Zigzag(n) \in 0..(Word - 1)
           /\ decodeZigzag64(Zigzag(n)) = n
           /\ n >= 0 => Zigzag(n) % 2 = 0
<1>1. PICK h \in Nat \ {0} : h = Word \div 2 /\ Word = 2 * h
  BY Sizing
<1>2. n \in Int /\ -h <= n /\ n <= h - 1
  BY <1>1 DEF Fits
<1>3. CASE n >= 0
  <2>1. Zigzag(n) = 2 * n
    BY <1>3 DEF Zigzag
  <2>2. (2 * n) % 2 = 0 /\ (2 * n) \div 2 = n
    BY <1>2, <1>3
  <2>. QED BY <1>1, <1>2, <1>3, <2>1, <2>2 DEF decodeZigzag64
<1>4. CASE n < 0
  <2>1. Zigzag(n) = -2 * n - 1
    BY <1>2, <1>4 DEF Zigzag
  <2>2. PICK m \in Nat : n = -(m + 1)
    <3>1. -n - 1 \in Nat /\ n = -((-n - 1) + 1)
      BY <1>2, <1>4
    <3>. QED BY <3>1
  <2>3. Zigzag(n) = 2 * m + 1
    BY <2>1, <2>2
  <2>4. (2 * m + 1) % 2 = 1 /\ (2 * m + 1 + 1) \div 2 = m + 1
    OBVIOUS
  <2>. QED BY <1>1, <1>2, <1>4, <2>2, <2>3, <2>4 DEF decodeZigzag64
<1>. QED BY <1>2, <1>3, <1>4
-----------------------------------------------------------------------------
\* How a number is written: as its groups, each with the flag but the last.
LEMMA GroupsOf ==
    ASSUME NEW n, Fits(n)
    PROVE  \E k \in 1..MaxGroups :
             /\ Zigzag(n) < Weight(k)
             /\ Groups(n) = [j \in 1..k |-> ((Zigzag(n) \div Weight(j - 1)) % Radix)
                                            + IF j < k THEN Radix ELSE 0]
             /\ Groups(n) \in Strings
             /\ Len(Groups(n)) = k
<1>1. PICK e \in 0..(Word - 1) : e = Zigzag(n)
  BY ZigzagInverse
<1>. DEFINE Last(j) == e < Weight(j) /\ \A h \in 1..(j - 1) : e >= Weight(h)
<1>2. e \in Nat /\ e < Weight(MaxGroups) /\ MaxGroups \in Nat \ {0}
  BY Sizing, Weights
<1>3. \E j \in 1..MaxGroups : Last(j)
  <2>. DEFINE T == {j \in 1..MaxGroups : e < Weight(j)}
  <2>1. T \in SUBSET Nat /\ MaxGroups \in T
    BY <1>2
  <2>2. PICK j \in T : \A h \in T : j <= h
    <3>. HIDE DEF T
    <3>. QED BY <2>1, Least
  <2>3. \A h \in 1..(j - 1) : e >= Weight(h)
    <3>. TAKE h \in 1..(j - 1)
    <3>1. h \notin T /\ h \in 1..MaxGroups
      BY <1>2, <2>2
    <3>2. Weight(h) \in Nat
      BY <3>1, <1>2, Weights
    <3>. QED BY <1>2, <3>1, <3>2
  <2>. QED BY <2>2, <2>3
<1>4. PICK k : k = CHOOSE j \in 1..MaxGroups : Last(j)
  OBVIOUS
<1>5. k \in 1..MaxGroups /\ Last(k)
  BY <1>3, <1>4
<1>6. k \in Nat \ {0} /\ k <= MaxGroups /\ e < Weight(k)
  BY <1>2, <1>5
<1>7. Groups(n) = [j \in 1..k |-> ((e \div Weight(j - 1)) % Radix) + IF j < k THEN Radix ELSE 0]
  BY <1>1, <1>4 DEF Groups
<1>. HIDE DEF Last
<1>8. \A j \in 1..k : ((e \div Weight(j - 1)) % Radix) + (IF j < k THEN Radix ELSE 0) \in Octet
  <2>. TAKE j \in 1..k
  <2>1. j - 1 \in Nat
    BY <1>6
  <2>2. Weight(j - 1) \in Nat \ {0}
    BY <2>1, Weights
  <2>3. e \div Weight(j - 1) \in Nat
    BY <1>2, <2>2, Division
  <2>4. (e \div Weight(j - 1)) % Radix \in 0..(Radix - 1)
    BY <2>3, Moduli
  <2>. QED BY <2>4, Sizing DEF Octet
<1>9. Groups(n) \in [1..k -> Octet]
  BY <1>7, <1>8
<1>10. Groups(n) \in Strings /\ Len(Groups(n)) = k
  BY <1>6, <1>9 DEF Strings
<1>. QED BY <1>1, <1>5, <1>6, <1>7, <1>10

\* Behind the end of the file, too, a byte is a byte.
LEMMA ByteIsOctet ==
    ASSUME file.bytes \in Strings
    PROVE  \A p : Byte(p) \in Octet
<1>1. 0 \in Octet
  BY Sizing DEF Octet
<1>2. \A p \in 0..(Len(file.bytes) - 1) : file.bytes[p + 1] \in Octet
  BY DEF Strings
<1>. QED BY <1>1, <1>2 DEF Byte

\* "encoded" is what the loop adds up: the recursive definition means something.
LEMMA EncodedSteps ==
    ASSUME file.bytes \in Strings, NEW p \in Nat
    PROVE  /\ Encoded(p)[0] = 0
           /\ \A n \in 0..(MaxGroups - 1) :
                Encoded(p)[n + 1] = Encoded(p)[n] + (((Byte(p + n) % Radix) * Weight(n)) % Word)
<1>. DEFINE Term(n) == ((Byte(p + n) % Radix) * Weight(n)) % Word
<1>1. \A n \in Nat : Term(n) \in Nat
  <2>. TAKE n \in Nat
  <2>1. Byte(p + n) \in Nat
    BY ByteIsOctet, Sizing DEF Octet
  <2>2. Byte(p + n) % Radix \in Nat
    BY <2>1, Moduli
  <2>3. (Byte(p + n) % Radix) * Weight(n) \in Nat
    BY <2>2, Weights
  <2>4. Word \in Nat \ {0}
    BY Sizing
  <2>. QED BY <2>3, <2>4, Division
<1>. HIDE DEF Term
<1>2. PICK step : step = [pair \in Nat \X Nat |-> pair[2] + Term(pair[1])]
  OBVIOUS
<1>3. step \in [Nat \X Nat -> Nat] /\ 0 \in Nat
  BY <1>1, <1>2
<1>4. \A n, s \in Nat : step[<<n, s>>] = s + Term(n)
  BY <1>2
<1>5. PICK f : Recursive(f, Nat, 0, step)
  BY <1>3, Recursion
<1>6. f \in [Nat -> Nat] /\ f[0] = 0 /\ \A n \in Nat : f[n + 1] = f[n] + Term(n)
  BY <1>4, <1>5 DEF Recursive
<1>7. MaxGroups \in Nat
  BY Sizing
<1>. DEFINE Body(g, n) == IF n = 0 THEN 0
               ELSE g[n - 1] + (((Byte(p + n - 1) % Radix) * Weight(n - 1)) % Word)
<1>8. \A g : \A n \in 0..MaxGroups : n # 0 => Body(g, n) = g[n - 1] + Term(n - 1)
  <2>. TAKE g
  <2>. TAKE n \in 0..MaxGroups
  <2>1. p + (n - 1) = p + n - 1
    BY <1>7
  <2>. QED BY <2>1 DEF Term
<1>9. PICK h : h = [n \in 0..MaxGroups |-> f[n]]
  OBVIOUS
<1>10. h = [n \in 0..MaxGroups |-> Body(h, n)]
  <2>1. ASSUME NEW n \in 0..MaxGroups PROVE f[n] = Body(h, n)
    <3>1. CASE n = 0
      BY <1>6, <3>1
    <3>2. CASE n # 0
      <4>1. n - 1 \in Nat /\ n - 1 \in 0..MaxGroups /\ (n - 1) + 1 = n
        BY <1>7, <3>2
      <4>2. f[n] = f[n - 1] + Term(n - 1)
        BY <1>6, <4>1
      <4>3. h[n - 1] = f[n - 1]
        BY <1>9, <4>1
      <4>. QED BY <1>8, <3>2, <4>2, <4>3
    <3>. QED BY <3>1, <3>2
  <2>. HIDE DEF Body
  <2>. QED BY <1>9, <2>1
<1>11. Encoded(p) = [n \in 0..MaxGroups |-> Body(Encoded(p), n)]
  BY <1>10 DEF Encoded
<1>. HIDE DEF Body
<1>12. Encoded(p)[0] = 0
  BY <1>7, <1>11 DEF Body
<1>13. ASSUME NEW n \in 0..(MaxGroups - 1)
       PROVE  Encoded(p)[n + 1] = Encoded(p)[n] + Term(n)
  <2>1. n + 1 \in 0..MaxGroups /\ n + 1 # 0 /\ (n + 1) - 1 = n
    BY <1>7
  <2>. QED BY <1>8, <1>11, <2>1
<1>. QED BY <1>12, <1>13 DEF Term

-----------------------------------------------------------------------------
\* After k groups of a number that was written, "encoded" is its lowest k groups.
LEMMA EncodedPrefix ==
    ASSUME file.bytes \in Strings, NEW p \in Nat, NEW n, Fits(n), NEW k \in 0..MaxGroups,
           \A j \in 0..(k - 1) : Byte(p + j) % Radix = (Zigzag(n) \div Weight(j)) % Radix
    PROVE  Encoded(p)[k] = Zigzag(n) % Weight(k)
<1>1. PICK e \in 0..(Word - 1) : e = Zigzag(n)
  BY ZigzagInverse
<1>2. e \in Nat /\ e < Word /\ MaxGroups \in Nat /\ k \in Nat /\ k <= MaxGroups
  BY Sizing
<1>. DEFINE P == {j \in Nat : j <= k => Encoded(p)[j] = e % Weight(j)}
<1>3. 0 \in P
  <2>1. e % 1 = 0
    BY <1>2
  <2>. QED BY <2>1, EncodedSteps, Weights
<1>4. ASSUME NEW j \in P PROVE j + 1 \in P
  <2>. SUFFICES ASSUME j + 1 <= k PROVE Encoded(p)[j + 1] = e % Weight(j + 1)
    OBVIOUS
  <2>1. j \in 0..(k - 1) /\ j \in 0..(MaxGroups - 1) /\ j \in Nat /\ j <= k
    BY <1>2
  <2>2. Encoded(p)[j] = e % Weight(j)
    BY <2>1
  <2>3. PICK W \in Nat \ {0}, R \in Nat \ {0} : W = Weight(j) /\ R = Radix
    BY <2>1, Weights, Sizing
  <2>4. PICK q \in Nat : q = e \div W
    BY <1>2, Division
  <2>5. PICK r \in Nat : r = q % R
    BY <2>3, Moduli
  <2>6. r * W \in 0..(Word - 1) /\ Word \in Nat
    <3>1. r <= q
      BY <2>5, DivisionBound
    <3>2. r * W \in Nat /\ r * W = W * r /\ W * r <= W * q
      BY <3>1, ProductBound
    <3>3. W * q <= e
      BY <1>2, <2>4, DivisionBound
    <3>4. W * q \in Nat
      OBVIOUS
    <3>5. r * W <= e
      BY <1>2, <3>2, <3>3, <3>4
    <3>. QED BY <1>2, <3>2, <3>5, Sizing
  <2>7. (r * W) % Word = r * W
    BY <2>6
  <2>8. Byte(p + j) % Radix = r
    BY <1>1, <2>1, <2>3, <2>4, <2>5
  <2>9. Encoded(p)[j + 1] = (e % W) + r * W
    BY <2>1, <2>2, <2>3, <2>7, <2>8, EncodedSteps
  <2>10. e % (W * R) = (e % W) + W * r
    BY <1>2, <2>4, <2>5, ModProduct
  <2>11. Weight(j + 1) = W * R
    BY <2>1, <2>3, Weights
  <2>12. r * W = W * r
    OBVIOUS
  <2>. QED BY <2>9, <2>10, <2>11, <2>12
<1>. HIDE DEF P
<1>5. P \in SUBSET Nat
  BY DEF P
<1>6. P = Nat
  BY <1>3, <1>4, <1>5, Induct
<1>. QED BY <1>1, <1>2, <1>6 DEF P

\* A number has one last byte.
LEMMA LastAt ==
    ASSUME file.bytes \in Strings, NEW p \in Nat, NEW k \in 0..(MaxGroups - 1),
           Byte(p + k) < Radix, \A j \in 0..(k - 1) : Byte(p + j) >= Radix
    PROVE  LastOf(p) = {k}
<1>1. MaxGroups \in Nat /\ Radix \in Nat
  BY Sizing
<1>2. \A j \in Nat : Byte(p + j) \in Nat
  BY ByteIsOctet, Sizing DEF Octet
<1>3. k \in LastOf(p)
  BY DEF LastOf
<1>4. ASSUME NEW n \in LastOf(p) PROVE n = k
  <2>1. n \in 0..(MaxGroups - 1) /\ Byte(p + n) < Radix
        /\ \A j \in 0..(n - 1) : Byte(p + j) >= Radix
    BY DEF LastOf
  <2>2. ~(n < k)
    <3>. SUFFICES ASSUME n < k PROVE FALSE
      OBVIOUS
    <3>1. n \in 0..(k - 1)
      BY <1>1, <2>1
    <3>. QED BY <1>1, <1>2, <2>1, <3>1
  <2>3. ~(k < n)
    <3>. SUFFICES ASSUME k < n PROVE FALSE
      OBVIOUS
    <3>1. k \in 0..(n - 1)
      BY <1>1, <2>1
    <3>2. Byte(p + k) >= Radix
      BY <2>1, <3>1
    <3>3. Byte(p + k) \in Nat /\ Byte(p + k) < Radix
      BY <1>1, <1>2
    <3>. QED BY <1>1, <3>2, <3>3
  <2>. QED BY <1>1, <2>1, <2>2, <2>3
<1>. QED BY <1>3, <1>4

\* The bytes s are at the place p.
Holds(p, s) == \A j \in 1..Len(s) : Byte(p + j - 1) = s[j]

\* The bytes of a number that was written, one by one.
LEMMA GroupBytes ==
    ASSUME NEW n, Fits(n), NEW j \in 0..(Len(Groups(n)) - 1)
    PROVE  /\ Groups(n)[j + 1] \in Nat
           /\ Groups(n)[j + 1] % Radix = (Zigzag(n) \div Weight(j)) % Radix
           /\ IF j = Len(Groups(n)) - 1 THEN Groups(n)[j + 1] < Radix
                                        ELSE Groups(n)[j + 1] >= Radix
<1>1. PICK k \in 1..MaxGroups :
             /\ Groups(n) = [i_ \in 1..k |-> ((Zigzag(n) \div Weight(i_ - 1)) % Radix)
                                            + IF i_ < k THEN Radix ELSE 0]
             /\ Len(Groups(n)) = k
  BY GroupsOf
<1>2. k \in Nat /\ j \in Nat /\ j + 1 \in 1..k /\ (j + 1) - 1 = j
  BY <1>1, Sizing
<1>3. PICK r \in 0..(Radix - 1) : r = (Zigzag(n) \div Weight(j)) % Radix
  <2>1. Zigzag(n) \in Nat
    BY ZigzagInverse
  <2>2. Weight(j) \in Nat \ {0}
    BY <1>2, Weights
  <2>3. Zigzag(n) \div Weight(j) \in Nat
    BY <2>1, <2>2, Division
  <2>. QED BY <2>3, Moduli
<1>4. Groups(n)[j + 1] = r + IF j + 1 < k THEN Radix ELSE 0
  BY <1>1, <1>2, <1>3
<1>5. PICK R \in Nat \ {0} : R = Radix
  BY Sizing
<1>6. r % R = r /\ (r + R) % R = r
  BY <1>3, <1>5, Remainder
<1>7. CASE j + 1 < k
  <2>1. Groups(n)[j + 1] = r + R
    BY <1>4, <1>5, <1>7
  <2>2. j # Len(Groups(n)) - 1
    BY <1>1, <1>2, <1>7
  <2>3. r + R \in Nat /\ r + R >= Radix
    BY <1>3, <1>5
  <2>4. (r + R) % Radix = r
    BY <1>5, <1>6
  <2>. QED BY <1>3, <2>1, <2>2, <2>3, <2>4
<1>8. CASE ~(j + 1 < k)
  <2>1. Groups(n)[j + 1] = r
    BY <1>3, <1>4, <1>5, <1>8
  <2>2. j = Len(Groups(n)) - 1
    BY <1>1, <1>2, <1>8
  <2>. QED BY <1>3, <1>5, <1>6, <2>1, <2>2
<1>. QED BY <1>7, <1>8

\* A number that was written has its last byte where it was written and is decoded
\* as itself.
LEMMA ReadGroups ==
    ASSUME file.bytes \in Strings, NEW p \in Nat, NEW n, Fits(n), Holds(p, Groups(n))
    PROVE  /\ Len(Groups(n)) \in 1..MaxGroups
           /\ LastOf(p) = {Len(Groups(n)) - 1}
           /\ decodeZigzag64(Encoded(p)[Len(Groups(n))]) = n
<1>1. PICK k \in 1..MaxGroups : k = Len(Groups(n)) /\ Zigzag(n) < Weight(k)
  BY GroupsOf
<1>2. k \in Nat /\ MaxGroups \in Nat
  BY Sizing
<1>3. ASSUME NEW j \in 0..(k - 1) PROVE Byte(p + j) = Groups(n)[j + 1]
  <2>1. j + 1 \in 1..k /\ p + (j + 1) - 1 = p + j
    BY <1>2
  <2>. QED BY <1>1, <2>1 DEF Holds
<1>4. Encoded(p)[k] = Zigzag(n) % Weight(k)
  <2>1. \A j \in 0..(k - 1) : Byte(p + j) % Radix = (Zigzag(n) \div Weight(j)) % Radix
    BY <1>1, <1>3, GroupBytes
  <2>2. k \in 0..MaxGroups
    BY <1>2
  <2>. QED BY <2>1, <2>2, EncodedPrefix
<1>5. LastOf(p) = {k - 1}
  <2>1. k - 1 \in 0..(k - 1) /\ k - 1 \in 0..(MaxGroups - 1)
    BY <1>2
  <2>2. Byte(p + (k - 1)) < Radix
    BY <1>1, <1>3, <2>1, GroupBytes
  <2>3. ASSUME NEW j \in 0..(k - 1 - 1) PROVE Byte(p + j) >= Radix
    <3>1. j \in 0..(k - 1) /\ j # k - 1
      BY <1>2
    <3>. QED BY <1>1, <1>3, <3>1, GroupBytes
  <2>. QED BY <2>1, <2>2, <2>3, LastAt
<1>6. Zigzag(n) % Weight(k) = Zigzag(n)
  <2>1. Zigzag(n) \in Nat /\ Weight(k) \in Nat \ {0}
    BY SMTT(30), <1>2, ZigzagInverse, Weights
  <2>. QED BY <1>1, <2>1
<1>. QED BY <1>1, <1>4, <1>5, <1>6, ZigzagInverse

\* One that is cut by zeros ends with the first of them, and is no larger.
LEMMA CutGroups ==
    ASSUME file.bytes \in Strings, NEW p \in Nat, NEW n, Fits(n), n >= 0,
           NEW k \in 0..(Len(Groups(n)) - 1), Byte(p + k) = 0,
           \A j \in 0..(k - 1) : Byte(p + j) = Groups(n)[j + 1]
    PROVE  /\ k \in 0..(MaxGroups - 1)
           /\ LastOf(p) = {k}
           /\ decodeZigzag64(Encoded(p)[k + 1]) \in 0..n
<1>1. Len(Groups(n)) \in 1..MaxGroups /\ MaxGroups \in Nat
  BY GroupsOf, Sizing
<1>2. k \in Nat /\ k \in 0..(MaxGroups - 1) /\ k \in 0..MaxGroups
  BY <1>1
<1>3. ASSUME NEW j \in 0..(k - 1)
      PROVE  Byte(p + j) % Radix = (Zigzag(n) \div Weight(j)) % Radix /\ Byte(p + j) >= Radix
  <2>1. j \in 0..(Len(Groups(n)) - 1) /\ j # Len(Groups(n)) - 1
    BY <1>1, <1>2
  <2>. QED BY <2>1, GroupBytes
<1>4. LastOf(p) = {k}
  <2>1. Byte(p + k) < Radix
    BY Sizing
  <2>. QED BY <1>2, <1>3, <2>1, LastAt
<1>5. Encoded(p)[k] = Zigzag(n) % Weight(k)
  BY <1>2, <1>3, EncodedPrefix
<1>6. PICK m \in 0..n : Encoded(p)[k] = 2 * m
  <2>1. n \in Nat /\ Zigzag(n) = 2 * n
    BY ZigzagInverse, Sizing DEF Fits, Zigzag
  <2>2. CASE k = 0
    <3>1. (2 * n) % 1 = 0 /\ 0 \in 0..n /\ 2 * 0 = 0
      BY <2>1
    <3>2. Encoded(p)[k] = 0
      BY <1>5, <2>1, <2>2, <3>1, Weights
    <3>. QED BY <3>1, <3>2
  <2>3. CASE k # 0
    <3>1. k - 1 \in Nat /\ (k - 1) + 1 = k
      BY <1>2, <2>3
    <3>2. PICK v \in Nat \ {0} : v = Weight(k - 1)
      BY <3>1, Weights
    <3>3. Weight(k) = v * Radix
      BY <3>1, <3>2, Weights
    <3>4. PICK h \in Nat \ {0} : Radix = 2 * h
      <4>1. GroupBits - 1 \in Nat /\ (GroupBits - 1) + 1 = GroupBits
        BY SizesAssumption
      <4>. QED BY ZenonT(30), <4>1, Pow2Equations DEF Radix
    <3>5. PICK d \in Nat \ {0} : d = v * h
      OBVIOUS
    <3>6. v * (2 * h) = 2 * (v * h)
      OBVIOUS
    <3>7. Weight(k) = 2 * d
      BY <3>3, <3>4, <3>5, <3>6
    <3>8. (2 * n) % (2 * d) = 2 * (n % d) /\ n % d \in 0..n
      BY <2>1, Halves
    <3>. QED BY <1>5, <2>1, <3>7, <3>8
  <2>. QED BY <2>2, <2>3
<1>7. Encoded(p)[k + 1] = 2 * m
  <2>1. Byte(p + k) % Radix = 0
    BY Sizing
  <2>2. (0 * Weight(k)) % Word = 0
    <3>1. 0 * Weight(k) = 0
      BY <1>2, Weights
    <3>. QED BY <3>1, Sizing
  <2>3. n \in Nat
    BY Sizing DEF Fits
  <2>. QED BY <1>2, <1>6, <2>1, <2>2, <2>3, EncodedSteps
<1>8. decodeZigzag64(2 * m) = m
  <2>1. m \in Nat
    BY Sizing DEF Fits
  <2>2. (2 * m) % 2 = 0 /\ (2 * m) \div 2 = m
    BY <2>1
  <2>. QED BY <2>2 DEF decodeZigzag64
<1>. QED BY <1>2, <1>4, <1>6, <1>7, <1>8

-----------------------------------------------------------------------------
\* "encoded" is a natural number after each group.
LEMMA EncodedType ==
    ASSUME file.bytes \in Strings, NEW p \in Nat
    PROVE  \A n \in 0..MaxGroups : Encoded(p)[n] \in Nat
<1>. DEFINE P == {n \in Nat : n <= MaxGroups => Encoded(p)[n] \in Nat}
<1>1. MaxGroups \in Nat
  BY Sizing
<1>2. 0 \in P
  BY EncodedSteps
<1>3. ASSUME NEW n \in P PROVE n + 1 \in P
  <2>. SUFFICES ASSUME n + 1 <= MaxGroups PROVE Encoded(p)[n + 1] \in Nat
    OBVIOUS
  <2>1. n \in 0..(MaxGroups - 1) /\ Encoded(p)[n] \in Nat
    BY <1>1
  <2>2. Byte(p + n) % Radix \in Nat
    <3>1. Byte(p + n) \in Nat
      BY ByteIsOctet, Sizing DEF Octet
    <3>. QED BY <3>1, Moduli
  <2>3. (Byte(p + n) % Radix) * Weight(n) \in Nat
    BY SMTT(30), <2>2, Weights
  <2>4. ((Byte(p + n) % Radix) * Weight(n)) % Word \in Nat
    BY <2>3, Moduli
  <2>. QED BY <2>1, <2>4, EncodedSteps
<1>. HIDE DEF P
<1>4. P \in SUBSET Nat
  BY DEF P
<1>5. P = Nat
  BY <1>2, <1>3, <1>4, Induct
<1>. QED BY <1>1, <1>5 DEF P

\* The last group of a number does not fit into a word as a whole.
LEMMA TopGroup ==
    /\ MaxGroups - 1 \in Nat
    /\ \E u \in Nat \ {0} : Word = Weight(MaxGroups - 1) * u
<1>1. PICK g \in Nat \ {0}, w \in Nat \ {0} : g = GroupBits /\ w = WordBits
  BY SizesAssumption
<1>2. PICK a \in Nat : a = w + g - 1
  BY <1>1
<1>3. PICK m \in Nat \ {0} : m = MaxGroups
  BY Sizing
<1>4. g * m <= a
  <2>1. m = a \div g
    BY <1>1, <1>2, <1>3 DEF MaxGroups
  <2>. QED BY <2>1, DivisionBound
<1>5. PICK k \in Nat, d \in Nat : k = g * (m - 1) /\ w = k + d
  <2>1. g * (m - 1) \in Nat /\ g * (m - 1) = g * m - g
    OBVIOUS
  <2>2. PICK x \in Nat : x = g * m
    OBVIOUS
  <2>3. x - g <= w - 1
    BY <1>2, <1>4, <2>2
  <2>4. w - (x - g) \in Nat /\ w = (x - g) + (w - (x - g))
    BY <2>1, <2>2, <2>3
  <2>. QED BY <2>1, <2>2, <2>4
<1>6. Pow2[k + d] = Pow2[k] * Pow2[d] /\ Pow2[d] \in Nat \ {0}
  BY <1>5, Pow2Sum, Pow2Equations
<1>7. Word = Weight(MaxGroups - 1) * Pow2[d]
  BY <1>1, <1>3, <1>5, <1>6 DEF Word, Weight
<1>. QED BY <1>3, <1>6, <1>7

\* However many bytes follow each other, "encoded" never overflows.
LEMMA EncodedFits ==
    ASSUME file.bytes \in Strings, NEW p \in Nat
    PROVE  \A n \in 0..MaxGroups : Encoded(p)[n] \in 0..(Word - 1)
<1>1. PICK M \in Nat \ {0}, W_ \in Nat \ {0}, R \in Nat \ {0} :
             M = MaxGroups /\ W_ = Word /\ R = Radix /\ M - 1 \in Nat
  BY Sizing, TopGroup
<1>2. PICK v \in Nat \ {0}, u \in Nat \ {0} : v = Weight(M - 1) /\ W_ = v * u
  BY <1>1, TopGroup, Weights
<1>3. ASSUME NEW n \in 0..(M - 1)
      PROVE  \E r \in 0..(R - 1) :
                Encoded(p)[n + 1] = Encoded(p)[n] + ((r * Weight(n)) % W_)
  <2>1. Byte(p + n) \in Nat
    BY ByteIsOctet, Sizing DEF Octet
  <2>2. Byte(p + n) % R \in 0..(R - 1)
    BY <1>1, <2>1, Moduli
  <2>. QED BY <1>1, <2>2, EncodedSteps
<1>4. \A n \in 0..M : Encoded(p)[n] \in Nat
  BY <1>1, EncodedType
<1>. DEFINE P == {n \in Nat : n <= M - 1 => Encoded(p)[n] < Weight(n)}
<1>5. 0 \in P
  <2>1. Encoded(p)[0] = 0 /\ Weight(0) \in Nat \ {0}
    BY EncodedSteps, Weights
  <2>2. Encoded(p)[0] < Weight(0)
    BY <2>1
  <2>. QED BY <2>2
<1>6. ASSUME NEW n \in P PROVE n + 1 \in P
  <2>. SUFFICES ASSUME n + 1 <= M - 1 PROVE Encoded(p)[n + 1] < Weight(n + 1)
    OBVIOUS
  <2>1. n \in 0..(M - 1) /\ n \in 0..M /\ Encoded(p)[n] < Weight(n)
    OBVIOUS
  <2>2. PICK e \in Nat, w \in Nat \ {0} : e = Encoded(p)[n] /\ w = Weight(n) /\ e < w
    BY <1>4, <2>1, Weights
  <2>3. PICK r \in 0..(R - 1) : Encoded(p)[n + 1] = e + ((r * w) % W_)
    BY <1>3, <2>1, <2>2
  <2>4. r * w \in Nat /\ r * w <= w * (R - 1)
    BY ProductBound
  <2>5. PICK x \in Nat : x = (r * w) % W_ /\ x <= r * w
    <3>1. PICK y \in Nat : y = r * w
      BY <2>4
    <3>2. y % W_ \in Nat /\ y % W_ <= y
      BY Division, DivisionBound
    <3>. QED BY <3>1, <3>2
  <2>6. w + w * (R - 1) = w * R
    OBVIOUS
  <2>7. PICK y \in Nat : y = r * w
    BY <2>4
  <2>8. PICK z \in Nat : z = w * (R - 1) /\ y <= z
    BY <2>4, <2>7
  <2>9. e + x < w + z
    BY <2>2, <2>5, <2>7, <2>8
  <2>10. Weight(n + 1) = w * R
    BY <1>1, <2>2, Weights
  <2>. QED BY <2>3, <2>5, <2>6, <2>8, <2>9, <2>10
<1>7. P \in SUBSET Nat
  OBVIOUS
<1>8. P = Nat
  <2>. HIDE DEF P
  <2>. QED BY <1>5, <1>6, <1>7, Induct
<1>9. ASSUME NEW n \in 0..(M - 1) PROVE Encoded(p)[n] \in 0..(W_ - 1)
  <2>1. Encoded(p)[n] < Weight(n) /\ n \in 0..M
    BY <1>8
  <2>2. n <= M - 1 /\ n \in Nat
    OBVIOUS
  <2>3. Weight(n) <= v /\ Weight(n) \in Nat
    BY <1>1, <1>2, <2>2, Weights
  <2>4. v <= v * u
    OBVIOUS
  <2>5. PICK e \in Nat : e = Encoded(p)[n]
    BY <1>4, <2>1
  <2>. QED BY <1>2, <2>1, <2>3, <2>4, <2>5
<1>10. Encoded(p)[M] \in 0..(W_ - 1)
  <2>1. M - 1 \in 0..(M - 1) /\ M - 1 \in 0..M /\ (M - 1) + 1 = M
    BY <1>1
  <2>2. PICK e \in Nat : e = Encoded(p)[M - 1] /\ e < v
    BY <1>2, <1>4, <1>8, <2>1
  <2>3. PICK r \in 0..(R - 1) : Encoded(p)[M] = e + ((r * v) % W_)
    BY <1>2, <1>3, <2>1, <2>2
  <2>4. (r * v) % (v * u) = v * (r % u)
    <3>1. (v * r + 0) \div v = r /\ (v * r + 0) % v = 0
      BY DivisionUnique
    <3>2. v * r + 0 = r * v /\ r * v \in Nat
      OBVIOUS
    <3>3. (r * v) % (v * u) = ((r * v) % v) + v * (((r * v) \div v) % u)
      BY <3>2, ModProduct
    <3>4. (r * v) % v = 0 /\ (r * v) \div v = r
      BY <3>1, <3>2
    <3>5. PICK s \in Nat : s = r % u
      BY Division
    <3>6. v * s \in Nat
      OBVIOUS
    <3>. QED BY <3>3, <3>4, <3>5, <3>6
  <2>5. PICK s \in 0..(u - 1) : s = r % u
    BY Division
  <2>6. PICK t \in Nat : t = v * s /\ t <= v * (u - 1)
    <3>1. s * v \in Nat /\ s * v = v * s /\ v * s <= v * (u - 1)
      BY ProductBound
    <3>. QED BY <3>1
  <2>7. v + v * (u - 1) = v * u
    OBVIOUS
  <2>8. PICK z \in Nat : z = v * (u - 1)
    OBVIOUS
  <2>9. e + t \in 0..(v + z - 1)
    BY <2>2, <2>6, <2>8
  <2>. QED BY <1>2, <2>3, <2>4, <2>5, <2>6, <2>7, <2>8, <2>9
<1>11. \A n \in 0..M : n \in 0..(M - 1) \/ n = M
  BY <1>1
<1>. QED BY <1>1, <1>9, <1>10, <1>11

Outcomes(values) ==
    [how : {"ok", "eof", "error", "lost"}, value : values, at : Nat]

\* What an outcome is made of.
LEMMA OutcomeFields ==
    \A how, value, to : /\ Outcome(how, value, to).how = how
                        /\ Outcome(how, value, to).value = value
                        /\ Outcome(how, value, to).at = to
BY DEF Outcome

\* What a reading may end with, whatever the bytes are.
LEMMA NumberType ==
    ASSUME NEW p \in Nat, NEW value \in Int, NEW eof
    PROVE  LET n == NumberAt(p, value, eof)
           IN  /\ n \in Outcomes(Int)
               /\ n.at >= p
               /\ n.how = "ok" => n.at > p /\ Readable(p, n.at - p) /\ n.value = value
<1>1. PICK taken : taken = IF LastOf(p) = {} THEN MaxGroups
                           ELSE (CHOOSE n \in LastOf(p) : TRUE) + 1
  OBVIOUS
<1>2. taken \in Nat \ {0}
  <2>1. MaxGroups \in Nat \ {0}
    BY Sizing
  <2>2. CASE LastOf(p) = {}
    BY <1>1, <2>1, <2>2
  <2>3. CASE LastOf(p) # {}
    <3>1. (CHOOSE n \in LastOf(p) : TRUE) \in LastOf(p)
      BY <2>3
    <3>2. LastOf(p) \subseteq Nat
      BY <2>1 DEF LastOf
    <3>. QED BY <1>1, <2>3, <3>1, <3>2
  <2>. QED BY <2>2, <2>3
<1>3. PICK failure : failure = IF eof THEN "eof" ELSE "error"
  OBVIOUS
<1>4. NumberAt(p, value, eof)
        = IF Readable(p, taken)
          THEN Outcome(IF LastOf(p) # {} THEN "ok" ELSE failure,
                       IF LastOf(p) # {} THEN value ELSE 0, p + taken)
          ELSE Outcome("lost", 0, p)
  BY <1>1, <1>3 DEF NumberAt
<1>5. failure \in {"eof", "error"}
  BY <1>3
<1>6. CASE ~Readable(p, taken)
  <2>1. NumberAt(p, value, eof) = Outcome("lost", 0, p)
    BY <1>4, <1>6
  <2>. QED BY <2>1 DEF Outcome, Outcomes
<1>7. CASE Readable(p, taken) /\ LastOf(p) = {}
  <2>1. NumberAt(p, value, eof) = Outcome(failure, 0, p + taken)
    BY <1>4, <1>7
  <2>. QED BY <1>2, <1>5, <2>1 DEF Outcome, Outcomes
<1>8. CASE Readable(p, taken) /\ LastOf(p) # {}
  <2>1. NumberAt(p, value, eof) = Outcome("ok", value, p + taken)
    BY <1>4, <1>8
  <2>2. (p + taken) - p = taken
    BY <1>2
  <2>. QED BY <1>2, <1>8, <2>1, <2>2 DEF Outcome, Outcomes
<1>. QED BY <1>6, <1>7, <1>8

\* What readZigZagLong may end with, whatever the bytes are: it takes a byte at
\* least, and a number is taken from what is mapped only.
LEMMA ReadType ==
    ASSUME file.bytes \in Strings, NEW p \in Nat, NEW eof
    PROVE  LET n == readZigZagLong(p, eof)
           IN  /\ n \in Outcomes(Int)
               /\ n.at >= p
               /\ n.how = "ok" => n.at > p /\ Readable(p, n.at - p)
<1>1. PICK value : value = IF LastOf(p) = {} THEN 0
                     ELSE decodeZigzag64(Encoded(p)[(CHOOSE n \in LastOf(p) : TRUE) + 1])
  OBVIOUS
<1>2. \A e \in Nat : decodeZigzag64(e) \in Int
  BY DEF decodeZigzag64
<1>3. value \in Int
  <2>1. CASE LastOf(p) = {}
    BY <1>1, <2>1
  <2>2. CASE LastOf(p) # {}
    <3>1. PICK k : k = CHOOSE n \in LastOf(p) : TRUE
      OBVIOUS
    <3>2. k \in 0..(MaxGroups - 1)
      BY <2>2, <3>1 DEF LastOf
    <3>3. k + 1 \in 0..MaxGroups
      BY <3>2, Sizing
    <3>. QED BY <1>1, <1>2, <2>2, <3>1, <3>3, EncodedType
  <2>. QED BY <2>1, <2>2
<1>4. readZigZagLong(p, eof) = NumberAt(p, value, eof)
  BY <1>1 DEF readZigZagLong
<1>. QED BY <1>3, <1>4, NumberType

\* And what skipZigZagLong may end with.
LEMMA SkipType ==
    ASSUME NEW p \in Nat, NEW eof
    PROVE  LET n == skipZigZagLong(p, eof)
           IN  /\ n \in Outcomes(Int)
               /\ n.at >= p
               /\ n.how = "ok" => n.at > p /\ Readable(p, n.at - p)
BY NumberType DEF skipZigZagLong

\* A number that was written is read as it was written, and skipped up to where it
\* ends, for all numbers of a word (zigzag.hpp: the shifts, the last group, which
\* is cut by the width of the word, and decodeZigzag64).
THEOREM ReadWritten ==
    ASSUME file.bytes \in Strings, NEW p \in Nat, NEW n, Fits(n), Holds(p, Groups(n)),
           Readable(p, Len(Groups(n))), NEW eof
    PROVE  /\ readZigZagLong(p, eof) = Outcome("ok", n, p + Len(Groups(n)))
           /\ skipZigZagLong(p, eof) = Outcome("ok", 0, p + Len(Groups(n)))
<1>1. PICK k \in Nat \ {0} : k = Len(Groups(n)) /\ LastOf(p) = {k - 1}
  BY ReadGroups, Sizing
<1>2. (CHOOSE m \in LastOf(p) : TRUE) + 1 = k /\ LastOf(p) # {}
  <2>1. (CHOOSE m \in LastOf(p) : TRUE) \in LastOf(p)
    BY <1>1
  <2>. QED BY <1>1, <2>1
<1>3. \A value : NumberAt(p, value, eof) = Outcome("ok", value, p + k)
  BY <1>1, <1>2 DEF NumberAt
<1>4. decodeZigzag64(Encoded(p)[k]) = n
  BY <1>1, ReadGroups
<1>5. readZigZagLong(p, eof) = NumberAt(p, n, eof)
  BY <1>2, <1>4 DEF readZigZagLong
<1>. QED BY <1>1, <1>3, <1>5 DEF skipZigZagLong

\* One that is cut ends behind the file, and is no larger than it was.
LEMMA ReadCut ==
    ASSUME file.bytes \in Strings, NEW p \in Nat, NEW n, Fits(n), n >= 0,
           NEW k \in 0..(Len(Groups(n)) - 1), Byte(p + k) = 0,
           \A j \in 0..(k - 1) : Byte(p + j) = Groups(n)[j + 1], NEW eof
    PROVE  LET m == readZigZagLong(p, eof)
           IN  m.how = "ok" => m.value \in 0..n /\ m.at = p + k + 1
<1>1. LastOf(p) = {k} /\ k \in Nat
  <2>1. k \in 0..(MaxGroups - 1)
    BY CutGroups
  <2>2. LastOf(p) = {k}
    BY CutGroups
  <2>. QED BY <2>1, <2>2, Sizing
<1>2. PICK m : m = decodeZigzag64(Encoded(p)[k + 1])
  OBVIOUS
<1>3. m \in 0..n
  BY <1>2, CutGroups
<1>4. (CHOOSE x \in LastOf(p) : TRUE) = k
  BY <1>1
<1>5. readZigZagLong(p, eof) = NumberAt(p, m, eof)
  BY <1>1, <1>2, <1>4 DEF readZigZagLong
<1>6. NumberAt(p, m, eof) \in {Outcome("ok", m, p + (k + 1)), Outcome("lost", 0, p)}
  BY <1>1, <1>4 DEF NumberAt
<1>7. p + (k + 1) = p + k + 1
  BY <1>1
<1>. QED BY <1>3, <1>5, <1>6, <1>7 DEF Outcome

\* Where a number that is read, or skipped, ends, and what it is, does not depend
\* on where the end of the buffer is.
LEMMA ReadSame ==
    ASSUME NEW p, NEW eof
    PROVE  /\ readZigZagLong(p, eof).how = "ok" => readZigZagLong(p, FALSE) = readZigZagLong(p, eof)
           /\ skipZigZagLong(p, eof).how = "ok" =>
                readZigZagLong(p, FALSE).at = skipZigZagLong(p, eof).at
<1>1. PICK taken : taken = IF LastOf(p) = {} THEN MaxGroups
                           ELSE (CHOOSE n \in LastOf(p) : TRUE) + 1
  OBVIOUS
<1>2. ASSUME NEW v, NEW e, NumberAt(p, v, e).how = "ok"
      PROVE  \A w, f : NumberAt(p, w, f) = Outcome("ok", w, p + taken)
  <2>1. PICK failure \in {"eof", "error"} : failure = IF e THEN "eof" ELSE "error"
    OBVIOUS
  <2>2. NumberAt(p, v, e)
          = IF Readable(p, taken)
            THEN Outcome(IF LastOf(p) # {} THEN "ok" ELSE failure,
                         IF LastOf(p) # {} THEN v ELSE 0, p + taken)
            ELSE Outcome("lost", 0, p)
    BY <1>1, <2>1 DEF NumberAt
  <2>3. Readable(p, taken) /\ LastOf(p) # {}
    BY <1>2, <2>1, <2>2, OutcomeFields
  <2>. QED BY <1>1, <2>3 DEF NumberAt
<1>3. PICK value : \A e : readZigZagLong(p, e) = NumberAt(p, value, e)
  BY DEF readZigZagLong
<1>4. skipZigZagLong(p, eof) = NumberAt(p, 0, eof)
  BY DEF skipZigZagLong
<1>5. ASSUME readZigZagLong(p, eof).how = "ok"
      PROVE  readZigZagLong(p, FALSE) = readZigZagLong(p, eof)
  BY <1>2, <1>3, <1>5
<1>6. ASSUME skipZigZagLong(p, eof).how = "ok"
      PROVE  readZigZagLong(p, FALSE).at = skipZigZagLong(p, eof).at
  <2>1. readZigZagLong(p, FALSE) = Outcome("ok", value, p + taken)
        /\ skipZigZagLong(p, eof) = Outcome("ok", 0, p + taken)
    BY <1>2, <1>3, <1>4, <1>6
  <2>2. Outcome("ok", value, p + taken).at = p + taken /\ Outcome("ok", 0, p + taken).at = p + taken
    BY OutcomeFields
  <2>. QED BY <2>1, <2>2
<1>. QED BY <1>5, <1>6

\* Whatever the bytes are, what is read is a number of a word.
LEMMA ReadFits ==
    ASSUME file.bytes \in Strings, NEW p \in Nat, NEW eof
    PROVE  Fits(readZigZagLong(p, eof).value)
<1>1. PICK h \in Nat \ {0} : h = Word \div 2 /\ Word = 2 * h
  BY Sizing
<1>2. ASSUME NEW e \in 0..(2 * h - 1) PROVE decodeZigzag64(e) \in -h..(h - 1)
  BY <1>2 DEF decodeZigzag64
<1>3. PICK value : value = IF LastOf(p) = {} THEN 0
                     ELSE decodeZigzag64(Encoded(p)[(CHOOSE n \in LastOf(p) : TRUE) + 1])
  OBVIOUS
<1>4. value \in -h..(h - 1)
  <2>1. CASE LastOf(p) = {}
    BY <1>3, <2>1
  <2>2. CASE LastOf(p) # {}
    <3>1. PICK k : k = CHOOSE n \in LastOf(p) : TRUE
      OBVIOUS
    <3>2. k \in 0..(MaxGroups - 1)
      BY <2>2, <3>1 DEF LastOf
    <3>3. k + 1 \in 0..MaxGroups
      BY <3>2, Sizing
    <3>4. Encoded(p)[k + 1] \in 0..(2 * h - 1)
      BY <1>1, <3>3, EncodedFits
    <3>. QED BY <1>2, <1>3, <2>2, <3>1, <3>4
  <2>. QED BY <2>1, <2>2
<1>5. readZigZagLong(p, eof) = NumberAt(p, value, eof)
  BY <1>3 DEF readZigZagLong
<1>6. NumberAt(p, value, eof).value \in {value, 0}
  <2>1. PICK taken : taken = IF LastOf(p) = {} THEN MaxGroups
                           ELSE (CHOOSE n \in LastOf(p) : TRUE) + 1
    OBVIOUS
  <2>2. PICK how, v : v \in {value, 0} /\ \/ NumberAt(p, value, eof) = Outcome(how, v, p + taken)
                                          \/ NumberAt(p, value, eof) = Outcome(how, v, p)
    BY <2>1 DEF NumberAt
  <2>. QED BY <2>2, OutcomeFields
<1>7. 0 \in -h..(h - 1)
  OBVIOUS
<1>. QED BY <1>1, <1>4, <1>5, <1>6, <1>7 DEF Fits
===============================================================================
