--------------------------- MODULE FilterLoopProofs ---------------------------
(***************************************************************************)
(* The compiled list of items against the recursive reading, for every     *)
(* schema, every set of wanted nodes and every block of whole records: the *)
(* loop leaves a record where the recursive reading leaves it, makes the   *)
(* same calls for each node, and the call that ends a record after those   *)
(* for its nodes (Aligned, SameCalls, RecordsEvaluatedLast).               *)
(*                                                                         *)
(* A mark is a place in the list, a place in the block and the calls that  *)
(* are still to come.  A mark is Good when the steps of the loop lead from *)
(* it to the end of the list with no calls left, and the state of the loop *)
(* is always at a Good mark (LoopInv).  That the first mark of a record is *)
(* Good is the work: Carries says of a node that its items take the loop   *)
(* from a Good mark behind what the node reads to a Good mark before it,   *)
(* and is shown by induction over the depth of the node, one lemma for     *)
(* each kind of node.  It also says which logs the items may make there: a *)
(* set of logs that is closed under putting one behind another, either all *)
(* calls, or those in which a given record ends last (Tidy).               *)
(*                                                                         *)
(* The lists it holds for are the connected ones: every item hands over to *)
(* the item the schema puts next.  compileFilteringParser connects the     *)
(* list of every Simple schema (SimpleConnected); for the others the runs  *)
(* look at the list itself (Sound).                                        *)
(***************************************************************************)
EXTENDS FilterLoop, SequenceTheorems, Recursions

Whats == {"apply", "push", "recordEnd", "setIsNull"}

Told == Int \cup BOOLEAN

\* Calls for nodes with ids of a set, and readings that make calls of a set.
Calls(I)    == [id : I, what : Whats, value : Told]
Reads(L)    == [ok : BOOLEAN, at : Places, log : L]
Readings(L) == [Places -> Reads(L)]

-----------------------------------------------------------------------------
(* What a reading is                                                         *)

\* One sequence behind another, as the provers better know nothing of but this.
Join(a, b) == a \o b

\* Sequences of X behind each other are one of X.
LEMMA JoinType ==
    ASSUME NEW X, NEW a \in Seq(X), NEW b \in Seq(X)
    PROVE  Join(a, b) \in Seq(X)
BY ConcatProperties DEF Join

\* Nothing behind a sequence, or before it, leaves it as it is.
LEMMA JoinEmpty ==
    ASSUME NEW X, NEW a \in Seq(X)
    PROVE  Join(a, <<>>) = a /\ Join(<<>>, a) = a
BY ConcatEmptySeq DEF Join

\* Sequences behind each other can be taken together from either end.
LEMMA Regroup ==
    ASSUME NEW X, NEW x \in Seq(X), NEW y \in Seq(X), NEW z \in Seq(X)
    PROVE  Join(x, Join(y, z)) = Join(Join(x, y), z)
BY SMTT(30), ConcatAssociative DEF Join

\* No calls.
LEMMA NoCalls ==
    ASSUME NEW I
    PROVE  <<>> \in Seq(Calls(I))
OBVIOUS

\* The calls for a node are calls for its id.
LEMMA OnType ==
    ASSUME NEW I, NEW wanted, NEW s, NEW what \in Whats, NEW value \in Told,
           s.id \in wanted => s.id \in I
    PROVE  On(wanted, s, what, value) \in Seq(Calls(I))
<1>1. CASE s.id \in wanted
  <2>1. Call(s.id, what, value) \in Calls(I)
    BY <1>1 DEF Call, Calls
  <2>. QED BY <1>1, <2>1 DEF On
<1>2. CASE s.id \notin wanted
  BY <1>2 DEF On
<1>. QED BY <1>1, <1>2

\* A set of logs that are logs of it, too, behind each other.
Joined(L) == <<>> \in L /\ \A a, b \in L : Join(a, b) \in L

\* Whatever is told of a node is in it.
Tells(wanted, s, L) == \A what \in Whats, value \in Told : On(wanted, s, what, value) \in L

\* All calls for some nodes.
LEMMA AllCalls ==
    ASSUME NEW I
    PROVE  /\ Joined(Seq(Calls(I)))
           /\ \A wanted, s : (s.id \in wanted => s.id \in I) => Tells(wanted, s, Seq(Calls(I)))
BY NoCalls, JoinType, OnType DEF Joined, Tells

\* The parts of a reading.
LEMMA ReadParts ==
    ASSUME NEW L, NEW ok \in BOOLEAN, NEW to \in Places, NEW calls \in L
    PROVE  /\ Read(ok, to, calls) \in Reads(L)
           /\ Read(ok, to, calls).ok = ok
           /\ Read(ok, to, calls).at = to
           /\ Read(ok, to, calls).log = calls
BY DEF Read, Reads

\* A reading is made of its parts.
LEMMA ReadsParts ==
    ASSUME NEW L, NEW r \in Reads(L)
    PROVE  r.ok \in BOOLEAN /\ r.at \in Places /\ r.log \in L
BY DEF Reads

\* Two readings, one behind the other.
LEMMA ThenParts ==
    ASSUME NEW L, Joined(L), NEW first \in Reads(L), NEW second \in Reads(L)
    PROVE  /\ Then(first, second) \in Reads(L)
           /\ Then(first, second).ok = (first.ok /\ second.ok)
           /\ Then(first, second).at = second.at
           /\ Then(first, second).log = Join(first.log, second.log)
<1>1. Join(first.log, second.log) \in L
  BY ReadsParts DEF Joined
<1>2. second.at \in Places
  BY ReadsParts
<1>3. PICK ok \in BOOLEAN : ok = (first.ok /\ second.ok)
  BY ReadsParts
<1>4. Then(first, second) = Read(ok, second.at, Join(first.log, second.log))
  BY <1>3 DEF Then, Join
<1>5. PICK calls \in L : calls = Join(first.log, second.log)
  BY <1>1
<1>6. PICK r \in Reads(L) :
         r.ok = ok /\ r.at = second.at /\ r.log = calls /\ r = Read(ok, second.at, calls)
  BY <1>2, ReadParts
<1>. QED BY <1>3, <1>4, <1>5, <1>6

\* Some calls as a reading, which goes nowhere.
Just(p, calls) == Read(TRUE, p, calls)

\* Calls by themselves are a reading that stays where it is.
LEMMA JustCalls ==
    ASSUME NEW L, NEW p \in Places, NEW on \in L
    PROVE  Just(p, on) \in Reads(L) /\ Just(p, on).at = p /\ Just(p, on).log = on
<1>1. Just(p, on).at = p /\ Just(p, on).log = on
  BY DEF Just, Read
<1>2. Just(p, on) \in Reads(L)
  BY DEF Just, Read, Reads
<1>. QED BY <1>1, <1>2

\* A reading, and some more calls.
LEMMA AndThen ==
    ASSUME NEW L, Joined(L), NEW first \in Reads(L), NEW last \in Reads(L), last.at = first.at
    PROVE  /\ Then(first, last).at = first.at
           /\ Then(first, last).log = Join(first.log, last.log)
           /\ Then(first, last).ok => first.ok
<1>1. Then(first, last).at = last.at /\ Then(first, last).log = Join(first.log, last.log)
  BY ThenParts
<1>2. Then(first, last).ok = (first.ok /\ last.ok)
  BY ThenParts
<1>. QED BY <1>1, <1>2

\* Where each of some readings, one after the other, is.
Turns(R, L, n, readings, p) ==
    /\ R \in [0..n -> Reads(L)]
    /\ R[0] = Read(TRUE, p, <<>>)
    /\ \A i \in 1..n : R[i] = Then(R[i - 1], readings[i][R[i - 1].at])
    /\ InTurn(readings, p) = R[n]

\* Readings one after the other, step by step.
LEMMA InTurnSteps ==
    ASSUME NEW L, Joined(L), NEW n \in Nat, NEW readings \in [1..n -> Readings(L)], NEW p \in Places
    PROVE  \E R : Turns(R, L, n, readings, p)
<1>. DEFINE S == Reads(L)
            zero == Read(TRUE, p, <<>>)
            After(i, r) == Then(r, readings[i][r.at])
            step == [pair \in (1..n) \X S |-> After(pair[1], pair[2])]
<1>1. zero \in S
  BY ReadParts DEF Joined
<1>2. \A i \in 1..n, r \in S : After(i, r) \in S
  <2>. TAKE i \in 1..n, r \in S
  <2>1. readings[i] \in [Places -> Reads(L)]
    BY DEF Readings
  <2>2. readings[i][r.at] \in Reads(L)
    BY <2>1, ReadsParts
  <2>. QED BY <2>2, ThenParts
<1>. HIDE DEF S, zero, After
<1>3. step \in [(1..n) \X S -> S]
  BY <1>2
<1>4. \A i \in 1..n, r \in S : step[<<i, r>>] = After(i, r)
  OBVIOUS
<1>. HIDE DEF step
<1>50. PICK f : RecursiveTo(f, n, S, zero, step)
  BY <1>1, <1>3, RecursionTo
<1>5. f \in [0..n -> S] /\ f[0] = zero /\ \A i \in 1..n : f[i] = step[<<i, f[i - 1]>>]
  BY <1>50 DEF RecursiveTo
<1>6. \A i \in 1..n : i - 1 \in 0..n /\ f[i - 1] \in S
  BY <1>5
<1>7. \A i \in 0..n : f[i] = IF i = 0 THEN zero ELSE After(i, f[i - 1])
  <2>. TAKE i \in 0..n
  <2>. CASE i = 0
    BY <1>5
  <2>1. CASE i # 0
    <3>1. i \in 1..n
      BY <2>1
    <3>. QED BY <2>1, <3>1, <1>4, <1>5, <1>6
  <2>. QED BY <2>1
<1>. DEFINE Is(g) == g = [i \in 0..n |-> IF i = 0 THEN zero ELSE After(i, g[i - 1])]
            u == CHOOSE g : Is(g)
<1>8. Is(f)
  BY <1>5, <1>7
<1>9. Is(u)
  BY <1>8
<1>10. Len(readings) = n
  OBVIOUS
<1>11. InTurn(readings, p) = u[n]
  BY <1>10 DEF InTurn, zero, After
<1>. HIDE DEF u
<1>12. \A i \in 0..n : u[i] = IF i = 0 THEN zero ELSE After(i, u[i - 1])
  BY <1>9
<1>13. DOMAIN u = 0..n /\ u = [i \in 0..n |-> u[i]]
  BY <1>9
<1>14. \A i \in 0..n : u[i] \in S
  <2>. DEFINE P == {i \in 0..n : u[i] \in S}
  <2>1. 0 \in P
    BY <1>1, <1>12
  <2>2. ASSUME NEW i \in P, i < n PROVE i + 1 \in P
    <3>1. i + 1 \in 1..n /\ i + 1 \in 0..n /\ i + 1 # 0 /\ (i + 1) - 1 = i /\ u[i] \in S
      BY <2>2
    <3>. QED BY <3>1, <1>2, <1>12
  <2>3. P = 0..n
    <3>. P \in SUBSET (0..n)
      OBVIOUS
    <3>. HIDE DEF P
    <3>. QED BY <2>1, <2>2, InductTo
  <2>. QED BY <2>3
<1>15. u \in [0..n -> S]
  BY <1>13, <1>14
<1>16. u[0] = zero /\ \A i \in 1..n : u[i] = After(i, u[i - 1])
  <2>1. \A i \in 1..n : i \in 0..n /\ i # 0
    OBVIOUS
  <2>. QED BY <1>12, <2>1
<1>. QED BY <1>11, <1>15, <1>16 DEF S, zero, After, Turns

\* Readings one after the other are a reading.
LEMMA InTurnType ==
    ASSUME NEW L, Joined(L), NEW n \in Nat, NEW readings \in [1..n -> Readings(L)], NEW p \in Places
    PROVE  InTurn(readings, p) \in Reads(L)
<1>1. PICK R : Turns(R, L, n, readings, p)
  BY InTurnSteps
<1>. QED BY <1>1 DEF Turns

\* An element is a reading.
LEMMA ElementType ==
    ASSUME NEW L, Joined(L), NEW wanted, NEW reading \in Readings(L), NEW s,
           Tells(wanted, s, L)
    PROVE  ReadElement(wanted, reading, s) \in Readings(L)
<1>. DEFINE push == IF s.kind = "array" THEN On(wanted, s, "push", 0) ELSE <<>>
            item(p) == reading[IF s.kind = "map" THEN p + 1 ELSE p]
<1>1. push \in L
  <2>1. On(wanted, s, "push", 0) \in L
    <3>1. "push" \in Whats /\ 0 \in Told
      BY DEF Whats, Told
    <3>. QED BY <3>1 DEF Tells
  <2>. QED BY <2>1 DEF Joined
<1>2. \A p \in Places : item(p) \in Reads(L)
  BY DEF Readings, Places
<1>. HIDE DEF push, item
<1>3. \A p \in Places : Then(item(p), Read(TRUE, item(p).at, push)) \in Reads(L)
  BY <1>1, <1>2, ReadsParts, ReadParts, ThenParts
<1>. QED BY <1>3 DEF ReadElement, Readings, push, item

\* Blocks of elements are a reading.
LEMMA ChunksType ==
    ASSUME NEW L, Joined(L), NEW wanted, NEW in \in Seq(Int), NEW reading \in Readings(L), NEW s,
           Tells(wanted, s, L)
    PROVE  Chunks(wanted, in, reading, s) \in Readings(L)
<1>. DEFINE S == Readings(L)
            element == ReadElement(wanted, reading, s)
            items(p) == InTurn([i \in 1..in[p] |-> element], p + 1)
            Block(rest, p) ==
                IF p > Len(in) THEN Read(FALSE, p, <<>>)
                ELSE IF in[p] = 0 THEN Read(TRUE, p + 1, <<>>)
                ELSE IF items(p).ok THEN Then(items(p), rest[items(p).at]) ELSE items(p)
            none == [p \in Places |-> Read(FALSE, p, <<>>)]
            step == [pair \in Nat \X S |-> [p \in Places |-> Block(pair[2], p)]]
<1>1. element \in S
  BY ElementType
<1>. HIDE DEF element
<1>2. ASSUME NEW p \in Places, ~(p > Len(in)) PROVE items(p) \in Reads(L)
  <2>1. in[p] \in Int /\ p + 1 \in Places
    BY <1>2 DEF Places
  <2>2. PICK n \in Nat : 1..in[p] = 1..n
    <3>. CASE in[p] >= 0
      BY <2>1
    <3>. CASE in[p] < 0
      <4>1. 1..in[p] = 1..0
        BY <2>1
      <4>. QED BY <4>1
    <3>. QED BY <2>1
  <2>3. [i \in 1..n |-> element] \in [1..n -> Readings(L)]
    BY <1>1
  <2>. QED BY <2>1, <2>2, <2>3, InTurnType
<1>. HIDE DEF items
<1>3. \A p \in Places : /\ Read(FALSE, p, <<>>) \in Reads(L)
                       /\ Read(TRUE, p + 1, <<>>) \in Reads(L)
  <2>. TAKE p \in Places
  <2>1. p + 1 \in Places /\ <<>> \in L
    BY DEF Places, Joined
  <2>. QED BY <2>1, ReadParts
<1>4. ASSUME NEW rest \in S, NEW p \in Places PROVE Block(rest, p) \in Reads(L)
  <2>1. CASE p > Len(in)
    BY <1>3, <2>1
  <2>2. CASE ~(p > Len(in)) /\ in[p] = 0
    BY <1>3, <2>2
  <2>3. CASE ~(p > Len(in)) /\ in[p] # 0
    <3>1. items(p) \in Reads(L) /\ items(p).at \in Places
      BY <1>2, <2>3, ReadsParts
    <3>2. rest[items(p).at] \in Reads(L)
      BY <3>1 DEF Readings
    <3>3. Then(items(p), rest[items(p).at]) \in Reads(L)
      BY <3>1, <3>2, ThenParts
    <3>. QED BY <2>3, <3>1, <3>3
  <2>. QED BY <2>1, <2>2, <2>3
<1>. HIDE DEF Block
<1>5. none \in S
  BY <1>3 DEF Readings
<1>6. \A rest \in S : [p \in Places |-> Block(rest, p)] \in S
  BY <1>4 DEF Readings
<1>. HIDE DEF S
<1>7. step \in [Nat \X S -> S]
  BY <1>6
<1>8. \A n \in Nat, rest \in S : step[<<n, rest>>] = [p \in Places |-> Block(rest, p)]
  OBVIOUS
<1>. HIDE DEF step, none
<1>9. PICK f : Recursive(f, S, none, step)
  BY <1>5, <1>7, Recursion
<1>. DEFINE Body(g, n) ==
                [p \in Places |->
                    IF n = 0 \/ p > Len(in) THEN Read(FALSE, p, <<>>)
                    ELSE IF in[p] = 0 THEN Read(TRUE, p + 1, <<>>)
                    ELSE IF items(p).ok THEN Then(items(p), g[n - 1][items(p).at]) ELSE items(p)]
            Is(g) == g = [n \in Nat |-> Body(g, n)]
            u == CHOOSE g : Is(g)
<1>10. \A g : Body(g, 0) = none
  BY DEF none
<1>11. \A g : \A n \in Nat \ {0} : Body(g, n) = [p \in Places |-> Block(g[n - 1], p)]
  BY DEF Block
<1>12. f \in [Nat -> S] /\ f[0] = none
       /\ \A n \in Nat : f[n + 1] = [p \in Places |-> Block(f[n], p)]
  BY <1>8, <1>9 DEF Recursive
<1>13. \A n \in Nat : f[n] = Body(f, n)
  <2>. TAKE n \in Nat
  <2>1. CASE n = 0
    BY <1>10, <1>12, <2>1
  <2>2. CASE n # 0
    <3>1. n - 1 \in Nat /\ (n - 1) + 1 = n /\ n \in Nat \ {0}
      BY <2>2
    <3>2. f[n] = [p \in Places |-> Block(f[n - 1], p)]
      BY <1>12, <3>1
    <3>3. Body(f, n) = [p \in Places |-> Block(f[n - 1], p)]
      BY <1>11, <3>1
    <3>. HIDE DEF Body
    <3>. QED BY <3>2, <3>3
  <2>. HIDE DEF Body
  <2>. QED BY <2>1, <2>2
<1>14. Chunks(wanted, in, reading, s) = u[Len(in)]
  BY DEF Chunks, items, element
<1>. HIDE DEF Body
<1>15. Is(f)
  <2>1. f = [n \in Nat |-> f[n]]
    BY <1>12
  <2>. QED BY <1>13, <2>1
<1>16. Is(u)
  BY <1>15
<1>. HIDE DEF u
<1>17. \A n \in Nat : u[n] = Body(u, n)
  BY <1>16
<1>. DEFINE P == {n \in Nat : u[n] \in S}
<1>18. 0 \in P
  BY <1>5, <1>10, <1>17
<1>19. ASSUME NEW n \in P PROVE n + 1 \in P
  <2>1. n \in Nat /\ u[n] \in S /\ n + 1 \in Nat \ {0} /\ (n + 1) - 1 = n
    OBVIOUS
  <2>2. u[n + 1] = [p \in Places |-> Block(u[n], p)]
    <3>. PICK m \in Nat \ {0} : m = n + 1
      BY <2>1
    <3>1. m \in Nat /\ m - 1 = n
      BY <2>1
    <3>2. u[m] = Body(u, m)
      BY <1>17, <3>1
    <3>3. Body(u, m) = [p \in Places |-> Block(u[m - 1], p)]
      BY <1>11
    <3>. QED BY <3>1, <3>2, <3>3
  <2>. QED BY <1>6, <2>1, <2>2
<1>20. P = Nat
  <2>. P \in SUBSET Nat
    OBVIOUS
  <2>. HIDE DEF P
  <2>. QED BY <1>18, <1>19, Induct
<1>21. Len(in) \in Nat
  OBVIOUS
<1>. QED BY <1>14, <1>20, <1>21 DEF S

\* A leaf, a record and a union are a reading.
LEMMA LeafType ==
    ASSUME NEW L, Joined(L), NEW wanted, NEW in \in Seq(Int), NEW s,
           Tells(wanted, s, L)
    PROVE  ReadLeaf(wanted, in, s) \in Readings(L)
<1>1. ASSUME NEW p \in Places
      PROVE  (IF p > Len(in) THEN Read(FALSE, p, <<>>)
              ELSE Read(TRUE, p + 1, On(wanted, s, "apply", in[p]))) \in Reads(L)
  <2>1. CASE p > Len(in)
    BY <2>1, ReadParts DEF Joined
  <2>2. CASE ~(p > Len(in))
    <3>1. in[p] \in Told /\ p + 1 \in Places /\ "apply" \in Whats
      BY <2>2 DEF Told, Whats, Places
    <3>2. On(wanted, s, "apply", in[p]) \in L
      BY <3>1 DEF Tells
    <3>. QED BY <2>2, <3>1, <3>2, ReadParts
  <2>. QED BY <2>1, <2>2
<1>. QED BY <1>1 DEF ReadLeaf, Readings

\* A record reads its fields and reports its end: a reading, if theirs are.
LEMMA RecordType ==
    ASSUME NEW L, Joined(L), NEW wanted, NEW s, NEW n \in Nat, NEW readings \in [1..n -> Readings(L)],
           Tells(wanted, s, L)
    PROVE  ReadRecord(wanted, readings, s) \in Readings(L)
<1>1. ASSUME NEW p \in Places
      PROVE  Then(InTurn(readings, p),
                  Read(TRUE, InTurn(readings, p).at, On(wanted, s, "recordEnd", 0))) \in Reads(L)
  <2>1. PICK r \in Reads(L) : r = InTurn(readings, p)
    BY InTurnType
  <2>2. 0 \in Told /\ "recordEnd" \in Whats /\ r.at \in Places
    BY <2>1, ReadsParts DEF Told, Whats
  <2>3. On(wanted, s, "recordEnd", 0) \in L
    BY <2>2 DEF Tells
  <2>4. Read(TRUE, r.at, On(wanted, s, "recordEnd", 0)) \in Reads(L)
    BY <2>2, <2>3, ReadParts
  <2>. QED BY <2>1, <2>4, ThenParts
<1>. QED BY <1>1 DEF ReadRecord, Readings

\* A union reads its branch number and a branch: a reading, if theirs are.
LEMMA UnionType ==
    ASSUME NEW L, Joined(L), NEW wanted, NEW in \in Seq(Int), NEW s,
           NEW readings \in [DOMAIN s.of -> Readings(L)],
           Tells(wanted, s, L)
    PROVE  ReadUnion(wanted, in, readings, s) \in Readings(L)
<1>. DEFINE inner(p) == readings[in[p] + 1][p + 1]
            isNull(p) == s.of[in[p] + 1].kind = "null"
            Whole(p) == Then(inner(p), Read(TRUE, inner(p).at, On(wanted, s, "setIsNull", isNull(p))))
<1>1. ASSUME NEW p \in Places
      PROVE  (IF p > Len(in) \/ in[p] + 1 \notin DOMAIN s.of THEN Read(FALSE, p, <<>>)
              ELSE Whole(p)) \in Reads(L)
  <2>1. CASE p > Len(in) \/ in[p] + 1 \notin DOMAIN s.of
    BY <2>1, ReadParts DEF Joined
  <2>2. CASE ~(p > Len(in) \/ in[p] + 1 \notin DOMAIN s.of)
    <3>. PICK b \in DOMAIN s.of : b = in[p] + 1
      BY <2>2
    <3>1. readings[b][p + 1] \in Reads(L)
      <4>1. readings[b] \in [Places -> Reads(L)]
        BY DEF Readings
      <4>2. p + 1 \in Places
        BY DEF Places
      <4>. QED BY <4>1, <4>2
    <3>2. PICK r \in Reads(L) : r = inner(p)
      BY <3>1
    <3>3. PICK value \in BOOLEAN : value = isNull(p)
      OBVIOUS
    <3>4. value \in Told /\ "setIsNull" \in Whats /\ r.at \in Places
      BY ReadsParts DEF Told, Whats
    <3>5. On(wanted, s, "setIsNull", value) \in L
      BY <3>4 DEF Tells
    <3>6. Read(TRUE, r.at, On(wanted, s, "setIsNull", value)) \in Reads(L)
      BY <3>4, <3>5, ReadParts
    <3>7. Whole(p) = Then(r, Read(TRUE, r.at, On(wanted, s, "setIsNull", value)))
      BY <3>2, <3>3
    <3>. HIDE DEF Whole
    <3>. QED BY <2>2, <3>6, <3>7, ThenParts
  <2>. HIDE DEF Whole
  <2>. QED BY <2>1, <2>2
<1>. QED BY <1>1 DEF ReadUnion, Readings

\* What the schema says of a node.
LEMMA NodeFacts ==
    ASSUME NEW s \in Nodes
    PROVE  /\ s.kind \in Kinds
           /\ s.of \in Seq(Nodes)
           /\ Len(s.of) \in Nat
           /\ DOMAIN s.of = 1..Len(s.of)
           /\ \A i \in DOMAIN s.of : s.of[i] \in Nodes /\ Depth[s.of[i]] < Depth[s]
           /\ s.kind \in {"custom", "array", "map"} => Len(s.of) = 1 /\ 1 \in DOMAIN s.of
BY NodesAssumption

\* Every node has a depth, a natural number (a schema is a finite tree).
LEMMA DepthType == Depth \in [Nodes -> Nat]
BY NodesAssumption

\* A node is a reading if its children are.
LEMMA NodeType ==
    ASSUME NEW L, Joined(L), NEW wanted, NEW in \in Seq(Int), NEW s \in Nodes,
           NEW readings \in [DOMAIN s.of -> Readings(L)],
           Tells(wanted, s, L)
    PROVE  ReadNode(wanted, in, readings, s) \in Readings(L)
<1>0. readings \in [1..Len(s.of) -> Readings(L)] /\ Len(s.of) \in Nat
  BY NodeFacts
<1>1. CASE s.kind = "null"
  <2>1. [p \in Places |-> Read(TRUE, p, <<>>)] \in Readings(L)
    BY ReadParts DEF Readings, Joined
  <2>. QED BY <1>1, <2>1 DEF ReadNode
<1>2. CASE s.kind = "leaf"
  BY <1>2, LeafType DEF ReadNode
<1>3. CASE s.kind = "custom"
  <2>1. readings[1] \in Readings(L)
    BY <1>3, NodeFacts
  <2>. QED BY <1>3, <2>1 DEF ReadNode
<1>4. CASE s.kind = "record"
  <2>1. ReadRecord(wanted, readings, s) \in Readings(L)
    BY <1>0, RecordType
  <2>. QED BY <1>4, <2>1 DEF ReadNode
<1>5. CASE s.kind = "union"
  <2>1. ReadUnion(wanted, in, readings, s) \in Readings(L)
    BY UnionType
  <2>. QED BY <1>5, <2>1 DEF ReadNode
<1>6. CASE s.kind \in {"array", "map"}
  <2>1. readings[1] \in Readings(L)
    BY <1>6, NodeFacts
  <2>2. Chunks(wanted, in, readings[1], s) \in Readings(L)
    BY <2>1, ChunksType
  <2>. QED BY <1>6, <2>2 DEF ReadNode
<1>. QED BY <1>1, <1>2, <1>3, <1>4, <1>5, <1>6, NodeFacts DEF Kinds

\* The recursive reading, node by node.
LEMMA DecodeNodes ==
    ASSUME NEW wanted, NEW in \in Seq(Int)
    PROVE  /\ decodeDocument(wanted, in) \in [Nodes -> Readings(Seq(Calls(wanted)))]
           /\ \A s \in Nodes :
                 decodeDocument(wanted, in)[s] =
                    ReadNode(wanted, in,
                             [i \in DOMAIN s.of |-> decodeDocument(wanted, in)[s.of[i]]], s)
<1>. DEFINE V == Readings(Seq(Calls(wanted)))
            Children(g, s) == [i \in DOMAIN s.of |-> g[s.of[i]]]
            Body(g, s) == ReadNode(wanted, in, Children(g, s), s)
            G == [Nodes -> V]
            step == [pair \in Nodes \X G |-> Body(pair[2], pair[1])]
            none == [p \in Places |-> Read(TRUE, p, <<>>)]
<1>1. none \in V
  BY NoCalls, ReadParts DEF Readings
<1>2. ASSUME NEW g \in G, NEW s \in Nodes PROVE Body(g, s) \in V
  <2>1. Children(g, s) \in [DOMAIN s.of -> Readings(Seq(Calls(wanted)))]
    BY NodeFacts
  <2>. QED BY <2>1, AllCalls, NodeType
<1>3. ASSUME NEW s \in Nodes, NEW g, NEW h,
             \A x \in Nodes : Depth[x] < Depth[s] => g[x] = h[x]
      PROVE  Body(g, s) = Body(h, s)
  <2>1. Children(g, s) = Children(h, s)
    BY <1>3, NodeFacts
  <2>. QED BY <2>1
<1>. HIDE DEF Body, V, none
<1>4. step \in [Nodes \X G -> V]
  BY <1>2
<1>5. \A s \in Nodes, g \in G : step[<<s, g>>] = Body(g, s)
  OBVIOUS
<1>. HIDE DEF step
<1>6. \A s \in Nodes : \A g, h \in [Nodes -> V] :
         (\A x \in Nodes : Depth[x] < Depth[s] => g[x] = h[x]) => step[<<s, g>>] = step[<<s, h>>]
  <2>. TAKE s \in Nodes
  <2>. TAKE g, h \in [Nodes -> V]
  <2>. HAVE \A x \in Nodes : Depth[x] < Depth[s] => g[x] = h[x]
  <2>1. Body(g, s) = Body(h, s)
    BY <1>3
  <2>. QED BY <2>1, <1>5
<1>7. PICK f : RankRecursive(f, Nodes, V, step)
  BY <1>1, <1>4, <1>6, DepthType, RankRecursion
<1>8. f \in [Nodes -> V] /\ \A s \in Nodes : f[s] = Body(f, s)
  BY <1>5, <1>7 DEF RankRecursive
<1>. DEFINE Is(g) == g = [s \in Nodes |-> Body(g, s)]
            u == CHOOSE g : Is(g)
<1>9. Is(f)
  <2>1. f = [s \in Nodes |-> f[s]]
    BY <1>8
  <2>. QED BY <1>8, <2>1
<1>10. Is(u)
  BY <1>9
<1>11. decodeDocument(wanted, in) = u
  BY DEF decodeDocument, Body
<1>. HIDE DEF u
<1>12. \A s \in Nodes : u[s] = Body(u, s)
  BY <1>10
<1>. DEFINE P == {s \in Nodes : u[s] = f[s]}
<1>13. P = Nodes
  <2>1. ASSUME NEW s \in Nodes, \A x \in Nodes : Depth[x] < Depth[s] => x \in P
        PROVE  s \in P
    <3>1. Body(u, s) = Body(f, s)
      BY <1>3, <2>1
    <3>. QED BY <3>1, <1>8, <1>12
  <2>. P \in SUBSET Nodes
    OBVIOUS
  <2>. HIDE DEF P
  <2>. QED BY SMTT(30), <2>1, DepthType, RankInduct
<1>14. u \in [Nodes -> V]
  <2>1. DOMAIN u = Nodes /\ u = [s \in Nodes |-> u[s]]
    BY <1>10
  <2>2. \A s \in Nodes : u[s] \in V
    BY <1>8, <1>13
  <2>. QED BY <2>1, <2>2
<1>. QED BY <1>11, <1>12, <1>14 DEF V, Body

-----------------------------------------------------------------------------
(* The nodes below a node                                                    *)

\* The tree of each node is itself and those of its children.
LEMMA TreeNodes ==
    /\ Tree \in [Nodes -> SUBSET Nodes]
    /\ \A s \in Nodes : Tree[s] = {s} \cup UNION {Tree[s.of[i]] : i \in DOMAIN s.of}
<1>. DEFINE V == SUBSET Nodes
            Body(g, s) == {s} \cup UNION {g[s.of[i]] : i \in DOMAIN s.of}
            G == [Nodes -> V]
            step == [pair \in Nodes \X G |-> Body(pair[2], pair[1])]
<1>2. ASSUME NEW g \in G, NEW s \in Nodes PROVE Body(g, s) \in V
  <2>1. \A i \in DOMAIN s.of : g[s.of[i]] \in V
    BY NodeFacts
  <2>. QED BY <2>1
<1>3. ASSUME NEW s \in Nodes, NEW g, NEW h,
             \A x \in Nodes : Depth[x] < Depth[s] => g[x] = h[x]
      PROVE  Body(g, s) = Body(h, s)
  <2>1. \A i \in DOMAIN s.of : g[s.of[i]] = h[s.of[i]]
    BY <1>3, NodeFacts
  <2>. QED BY <2>1
<1>. HIDE DEF Body
<1>4. step \in [Nodes \X G -> V]
  BY <1>2
<1>5. \A s \in Nodes, g \in G : step[<<s, g>>] = Body(g, s)
  OBVIOUS
<1>. HIDE DEF step
<1>6. \A s \in Nodes : \A g, h \in [Nodes -> V] :
         (\A x \in Nodes : Depth[x] < Depth[s] => g[x] = h[x]) => step[<<s, g>>] = step[<<s, h>>]
  <2>. TAKE s \in Nodes
  <2>. TAKE g, h \in [Nodes -> V]
  <2>. HAVE \A x \in Nodes : Depth[x] < Depth[s] => g[x] = h[x]
  <2>1. Body(g, s) = Body(h, s)
    BY <1>3
  <2>. QED BY <2>1, <1>5
<1>7. PICK f : RankRecursive(f, Nodes, V, step)
  <2>1. {} \in V
    OBVIOUS
  <2>. QED BY <2>1, <1>4, <1>6, DepthType, RankRecursion
<1>8. f \in [Nodes -> V] /\ \A s \in Nodes : f[s] = Body(f, s)
  BY <1>5, <1>7 DEF RankRecursive
<1>. DEFINE Is(g) == g = [s \in Nodes |-> Body(g, s)]
<1>9. Is(f)
  <2>1. f = [s \in Nodes |-> f[s]]
    BY <1>8
  <2>. QED BY <1>8, <2>1
<1>11. Tree = CHOOSE g : Is(g)
  BY DEF Tree, Body
<1>10. Is(Tree)
  <2>. HIDE DEF Is
  <2>. QED BY <1>9, <1>11
<1>12. \A s \in Nodes : Tree[s] = Body(Tree, s)
  BY <1>10
<1>. DEFINE P == {s \in Nodes : Tree[s] = f[s]}
<1>13. P = Nodes
  <2>1. ASSUME NEW s \in Nodes, \A x \in Nodes : Depth[x] < Depth[s] => x \in P
        PROVE  s \in P
    <3>1. Body(Tree, s) = Body(f, s)
      BY <1>3, <2>1
    <3>. QED BY <3>1, <1>8, <1>12
  <2>. P \in SUBSET Nodes
    OBVIOUS
  <2>. HIDE DEF P
  <2>. QED BY SMTT(30), <2>1, DepthType, RankInduct
<1>14. Tree \in [Nodes -> V]
  <2>1. DOMAIN Tree = Nodes /\ Tree = [s \in Nodes |-> Tree[s]]
    BY <1>10
  <2>2. \A s \in Nodes : Tree[s] \in V
    BY <1>8, <1>13
  <2>. QED BY <2>1, <2>2
<1>. QED BY <1>12, <1>14 DEF Body

\* A node's ids are its own and its children's.
LEMMA BelowFacts ==
    ASSUME NEW s \in Nodes
    PROVE  /\ s.id \in Below(s)
           /\ \A i \in DOMAIN s.of : Below(s.of[i]) \subseteq Below(s)
BY TreeNodes DEF Below

\* A reading with calls for some ids has calls for more.
LEMMA MoreIds ==
    ASSUME NEW I, NEW J, I \subseteq J
    PROVE  Readings(Seq(Calls(I))) \subseteq Readings(Seq(Calls(J)))
<1>1. Calls(I) \subseteq Calls(J)
  BY DEF Calls
<1>2. Seq(Calls(I)) \subseteq Seq(Calls(J))
  BY <1>1, SeqMonotonic
<1>3. Reads(Seq(Calls(I))) \subseteq Reads(Seq(Calls(J)))
  BY <1>2 DEF Reads
<1>. QED BY <1>3 DEF Readings

\* A node is read with calls for the nodes below it.
LEMMA DecodeBelow ==
    ASSUME NEW wanted, NEW in \in Seq(Int), NEW s \in Nodes
    PROVE  decodeDocument(wanted, in)[s] \in Readings(Seq(Calls(Below(s))))
<1>. PICK D : D = decodeDocument(wanted, in)
  OBVIOUS
<1>. DEFINE P == {x \in Nodes : D[x] \in Readings(Seq(Calls(Below(x))))}
<1>1. ASSUME NEW x \in Nodes, \A y \in Nodes : Depth[y] < Depth[x] => y \in P
      PROVE  x \in P
  <2>. DEFINE children == [i \in DOMAIN x.of |-> D[x.of[i]]]
  <2>1. ASSUME NEW i \in DOMAIN x.of PROVE D[x.of[i]] \in Readings(Seq(Calls(Below(x))))
    <3>1. x.of[i] \in Nodes /\ Depth[x.of[i]] < Depth[x]
      BY NodeFacts
    <3>2. D[x.of[i]] \in Readings(Seq(Calls(Below(x.of[i]))))
      BY <1>1, <3>1
    <3>3. Below(x.of[i]) \subseteq Below(x)
      BY BelowFacts
    <3>4. Readings(Seq(Calls(Below(x.of[i])))) \subseteq Readings(Seq(Calls(Below(x))))
      BY <3>3, MoreIds
    <3>. QED BY <3>2, <3>4
  <2>2. children \in [DOMAIN x.of -> Readings(Seq(Calls(Below(x))))]
    BY <2>1
  <2>3. D[x] = ReadNode(wanted, in, children, x)
    BY DecodeNodes
  <2>. HIDE DEF children
  <2>4. D[x] \in Readings(Seq(Calls(Below(x))))
    BY <2>2, <2>3, AllCalls, BelowFacts, NodeType
  <2>. QED BY <2>4
<1>2. P = Nodes
  <2>1. P \in SUBSET Nodes
    OBVIOUS
  <2>. HIDE DEF P
  <2>. QED BY SMTT(30), <1>1, <2>1, DepthType, RankInduct
<1>. QED BY <1>2

-----------------------------------------------------------------------------
(* Calls that end a record last                                              *)

\* Logs in which the last call about the nodes of a record ends the record.
Tidy(I, q) == {calls \in Seq(Calls(I)) : Ended(calls, q)}

\* A log that ends the record last, index by index.
LEMMA EndedAt ==
    ASSUME NEW X, NEW calls \in Seq(X), NEW q
    PROVE  Ended(calls, q) <=>
              \A i \in 1..Len(calls) :
                 /\ calls[i].id \in Below(q)
                 /\ \A j \in 1..Len(calls) : calls[j].id \in Below(q) => j <= i
                 => calls[i].id = q.id /\ calls[i].what = "recordEnd"
<1>1. DOMAIN calls = 1..Len(calls)
  BY LenProperties
<1>. QED BY <1>1 DEF Ended

\* Logs that do behind each other do.
LEMMA EndedJoin ==
    ASSUME NEW X, NEW a \in Seq(X), NEW b \in Seq(X), NEW q, Ended(a, q), Ended(b, q)
    PROVE  Ended(Join(a, b), q)
<1>. PICK m \in Nat : m = Len(a)
  BY LenProperties
<1>. PICK n \in Nat : n = Len(b)
  BY LenProperties
<1>. PICK ab \in Seq(X) : ab = Join(a, b)
  BY JoinType
<1>1. /\ Len(ab) = m + n
      /\ \A i \in 1..m : ab[i] = a[i]
      /\ \A i \in 1..n : ab[m + i] = b[i]
  <2>1. \A i \in 1..(m + n) : ab[i] = IF i <= m THEN a[i] ELSE b[i - m]
    BY ConcatProperties DEF Join
  <2>2. \A i \in 1..m : i \in 1..(m + n) /\ i <= m
    OBVIOUS
  <2>3. \A i \in 1..n : m + i \in 1..(m + n) /\ ~(m + i <= m) /\ (m + i) - m = i
    OBVIOUS
  <2>. QED BY <2>1, <2>2, <2>3, ConcatProperties DEF Join
<1>2. \A i \in 1..m :
         /\ a[i].id \in Below(q)
         /\ \A j \in 1..m : a[j].id \in Below(q) => j <= i
         => a[i].id = q.id /\ a[i].what = "recordEnd"
  BY EndedAt
<1>3. \A i \in 1..n :
         /\ b[i].id \in Below(q)
         /\ \A j \in 1..n : b[j].id \in Below(q) => j <= i
         => b[i].id = q.id /\ b[i].what = "recordEnd"
  BY EndedAt
<1>4. ASSUME NEW i \in 1..(m + n), ab[i].id \in Below(q),
             \A j \in 1..(m + n) : ab[j].id \in Below(q) => j <= i
      PROVE  ab[i].id = q.id /\ ab[i].what = "recordEnd"
  <2>1. CASE i <= m
    <3>1. i \in 1..m /\ ab[i] = a[i]
      BY <1>1, <2>1
    <3>2. \A j \in 1..m : a[j].id \in Below(q) => j <= i
      <4>. TAKE j \in 1..m
      <4>1. j \in 1..(m + n) /\ ab[j] = a[j]
        BY <1>1
      <4>. QED BY <1>4, <4>1
    <3>. QED BY <1>4, <1>2, <3>1, <3>2
  <2>2. CASE ~(i <= m)
    <3>. PICK l \in 1..n : l = i - m
      <4>1. i - m \in 1..n
        BY <2>2
      <4>. QED BY <4>1
    <3>0. i = m + l
      OBVIOUS
    <3>1. ab[m + l] = b[l]
      BY <1>1
    <3>2. \A j \in 1..n : b[j].id \in Below(q) => j <= l
      <4>. TAKE j \in 1..n
      <4>1. m + j \in 1..(m + n) /\ ab[m + j] = b[j]
        BY <1>1
      <4>2. b[j].id \in Below(q) => m + j <= m + l
        BY <1>4, <3>0, <4>1
      <4>. QED BY <4>2
    <3>3. b[l].id \in Below(q)
      BY <1>4, <3>0, <3>1
    <3>4. b[l].id = q.id /\ b[l].what = "recordEnd"
      BY <1>3, <3>2, <3>3
    <3>. QED BY <3>0, <3>1, <3>4
  <2>. QED BY <2>1, <2>2
<1>5. Ended(ab, q)
  BY <1>1, <1>4, EndedAt
<1>. QED BY <1>5

\* So such logs are joined, and those are such that have no call about the record.
LEMMA TidyLogs ==
    ASSUME NEW I, NEW q
    PROVE  /\ Joined(Tidy(I, q))
           /\ \A calls \in Seq(Calls(I)) :
                 (\A i \in 1..Len(calls) : calls[i].id \notin Below(q)) => calls \in Tidy(I, q)
<1>1. ASSUME NEW calls \in Seq(Calls(I)), \A i \in 1..Len(calls) : calls[i].id \notin Below(q)
      PROVE  calls \in Tidy(I, q)
  <2>1. Ended(calls, q)
    BY <1>1, EndedAt
  <2>. QED BY <2>1 DEF Tidy
<1>2. <<>> \in Tidy(I, q)
  <2>1. <<>> \in Seq(Calls(I)) /\ \A i \in 1..Len(<<>>) : FALSE
    BY NoCalls
  <2>. QED BY <1>1, <2>1
<1>3. ASSUME NEW a \in Tidy(I, q), NEW b \in Tidy(I, q) PROVE Join(a, b) \in Tidy(I, q)
  <2>1. /\ a \in Seq(Calls(I)) /\ b \in Seq(Calls(I))
        /\ Ended(a, q) /\ Ended(b, q)
    BY DEF Tidy
  <2>2. Join(a, b) \in Seq(Calls(I)) /\ Ended(Join(a, b), q)
    BY <2>1, JoinType, EndedJoin
  <2>. QED BY <2>2 DEF Tidy
<1>. QED BY <1>1, <1>2, <1>3 DEF Joined

\* What is told of a node outside the record is no call about it.
LEMMA TellsOutside ==
    ASSUME NEW wanted, NEW q, NEW s, s.id \notin Below(q)
    PROVE  Tells(wanted, s, Tidy(wanted, q))
<1>. SUFFICES ASSUME NEW what \in Whats, NEW value \in Told
              PROVE  On(wanted, s, what, value) \in Tidy(wanted, q)
  BY DEF Tells
<1>1. On(wanted, s, what, value) \in Seq(Calls(wanted))
  BY OnType
<1>2. CASE s.id \in wanted
  <2>. PICK c : c = Call(s.id, what, value)
    OBVIOUS
  <2>1. On(wanted, s, what, value) = <<c>> /\ c.id = s.id
    BY <1>2 DEF On, Call
  <2>2. \A i \in 1..Len(<<c>>) : <<c>>[i] = c
    OBVIOUS
  <2>3. \A i \in 1..Len(<<c>>) : <<c>>[i].id \notin Below(q)
    BY <2>1, <2>2
  <2>. QED BY <1>1, <2>1, <2>3, TidyLogs
<1>3. CASE s.id \notin wanted
  <2>1. On(wanted, s, what, value) = <<>>
    BY <1>3 DEF On
  <2>. QED BY <2>1, TidyLogs DEF Joined
<1>. QED BY <1>2, <1>3

\* Whatever was told before, the end of the record comes last.
LEMMA EndedLast ==
    ASSUME NEW wanted, NEW q \in Nodes, q.id \in wanted, NEW calls \in Seq(Calls(wanted))
    PROVE  Join(calls, On(wanted, q, "recordEnd", 0)) \in Tidy(wanted, q)
<1>. PICK n \in Nat : n = Len(calls)
  BY LenProperties
<1>. PICK c : c = Call(q.id, "recordEnd", 0)
  OBVIOUS
<1>. PICK on : on = On(wanted, q, "recordEnd", 0)
  OBVIOUS
<1>1. on = <<c>> /\ c.id = q.id /\ c.what = "recordEnd"
  BY DEF On, Call
<1>2. on \in Seq(Calls(wanted))
  <2>1. "recordEnd" \in Whats /\ 0 \in Told
    BY DEF Whats, Told
  <2>. QED BY <2>1, OnType
<1>. PICK all \in Seq(Calls(wanted)) : all = Join(calls, on)
  BY <1>2, JoinType
<1>3. Len(all) = n + 1 /\ all[n + 1] = c
  <2>1. Len(on) = 1 /\ on[1] = c
    BY <1>1
  <2>2. n + 1 \in 1..(n + 1) /\ ~(n + 1 <= n) /\ (n + 1) - n = 1
    OBVIOUS
  <2>. QED BY SMTT(30), <1>2, <2>1, <2>2, ConcatProperties DEF Join
<1>4. q.id \in Below(q)
  BY BelowFacts
<1>5. ASSUME NEW i \in 1..(n + 1),
             \A j \in 1..(n + 1) : all[j].id \in Below(q) => j <= i
      PROVE  all[i].id = q.id /\ all[i].what = "recordEnd"
  <2>1. n + 1 \in 1..(n + 1) /\ all[n + 1].id \in Below(q)
    BY <1>1, <1>3, <1>4
  <2>2. n + 1 <= i
    BY <1>5, <2>1
  <2>3. i = n + 1
    BY <2>2
  <2>. QED BY <1>1, <1>3, <2>3
<1>6. Ended(all, q)
  BY <1>3, <1>5, EndedAt
<1>. QED BY <1>6 DEF Tidy

\* The tree of a node in the tree of another is part of that.
LEMMA TreeBelow ==
    ASSUME NEW q \in Nodes
    PROVE  \A s \in Nodes : q \in Tree[s] => Below(q) \subseteq Below(s)
<1>. DEFINE P == {s \in Nodes : q \in Tree[s] => Below(q) \subseteq Below(s)}
<1>1. ASSUME NEW s \in Nodes, \A y \in Nodes : Depth[y] < Depth[s] => y \in P
      PROVE  s \in P
  <2>. SUFFICES ASSUME q \in Tree[s], q # s PROVE Below(q) \subseteq Below(s)
    OBVIOUS
  <2>1. PICK i \in DOMAIN s.of : q \in Tree[s.of[i]]
    BY TreeNodes
  <2>2. s.of[i] \in Nodes /\ Depth[s.of[i]] < Depth[s]
    BY NodeFacts
  <2>3. Below(q) \subseteq Below(s.of[i])
    BY <1>1, <2>1, <2>2
  <2>. QED BY <2>3, BelowFacts
<1>2. P = Nodes
  <2>1. P \in SUBSET Nodes
    OBVIOUS
  <2>. HIDE DEF P
  <2>. QED BY SMTT(30), <1>1, <2>1, DepthType, RankInduct
<1>. QED BY <1>2

\* A node has all of the record, or nothing of it; else it is inside of it.
Clear(q, s) == q \in Tree[s] \/ Below(q) \cap Below(s) = {}

\* So are then its children, and it is no part of the record itself.
LEMMA ClearBelow ==
    ASSUME NodesApart, NEW q \in Nodes, NEW s \in Nodes, Clear(q, s), s # q
    PROVE  s.id \notin Below(q) /\ \A i \in DOMAIN s.of : Clear(q, s.of[i])
<1>1. CASE q \in Tree[s]
  <2>1. PICK j \in DOMAIN s.of : q \in Tree[s.of[j]]
    BY <1>1, TreeNodes
  <2>2. Below(q) \subseteq Below(s.of[j])
    BY <2>1, NodeFacts, TreeBelow
  <2>3. s.id \notin Below(s.of[j])
    BY DEF NodesApart
  <2>4. ASSUME NEW i \in DOMAIN s.of PROVE Clear(q, s.of[i])
    <3>1. CASE i = j
      BY <2>1, <3>1 DEF Clear
    <3>2. CASE i # j
      <4>1. Below(s.of[j]) \cap Below(s.of[i]) = {}
        BY <3>2 DEF NodesApart
      <4>. QED BY <2>2, <4>1 DEF Clear
    <3>. QED BY <3>1, <3>2
  <2>. QED BY <2>2, <2>3, <2>4
<1>2. CASE Below(q) \cap Below(s) = {}
  BY <1>2, BelowFacts DEF Clear
<1>. QED BY <1>1, <1>2 DEF Clear

\* The logs that the reading of a node may make, for a record that the filter looks into.
LogsFor(wanted, q, s) == IF Clear(q, s) THEN Tidy(wanted, q) ELSE Seq(Calls(wanted))

\* They are joined, and calls.
LEMMA LogsForFacts ==
    ASSUME NEW wanted, NEW q, NEW s
    PROVE  /\ LogsFor(wanted, q, s) \subseteq Seq(Calls(wanted))
           /\ Joined(LogsFor(wanted, q, s))
BY AllCalls, TidyLogs DEF LogsFor, Tidy

\* Readings that make some logs make more logs.
LEMMA MoreLogs ==
    ASSUME NEW K, NEW L, K \subseteq L
    PROVE  Readings(K) \subseteq Readings(L)
<1>1. Reads(K) \subseteq Reads(L)
  BY DEF Reads
<1>. QED BY <1>1 DEF Readings

\* A record of its own ends last.
LEMMA RecordTidy ==
    ASSUME NEW wanted, NEW q \in Nodes, q.id \in wanted, NEW n \in Nat,
           NEW readings \in [1..n -> Readings(Seq(Calls(wanted)))]
    PROVE  ReadRecord(wanted, readings, q) \in Readings(Tidy(wanted, q))
<1>. PICK A : A = Seq(Calls(wanted))
  OBVIOUS
<1>. PICK on : on = On(wanted, q, "recordEnd", 0)
  OBVIOUS
<1>0. Joined(A)
  BY AllCalls
<1>1. on \in A
  <2>1. "recordEnd" \in Whats /\ 0 \in Told
    BY DEF Whats, Told
  <2>. QED BY <2>1, OnType
<1>2. ASSUME NEW p \in Places
      PROVE  Then(InTurn(readings, p), Just(InTurn(readings, p).at, on)) \in Reads(Tidy(wanted, q))
  <2>. PICK r \in Reads(A) : r = InTurn(readings, p)
    BY <1>0, InTurnType
  <2>1. r.at \in Places /\ r.log \in A /\ r.ok \in BOOLEAN
    BY ReadsParts
  <2>. PICK last : last = Just(r.at, on)
    OBVIOUS
  <2>2. last \in Reads(A) /\ last.at = r.at /\ last.log = on
    BY <1>1, <2>1, JustCalls
  <2>. PICK t : t = Then(r, last)
    OBVIOUS
  <2>3. t \in Reads(A) /\ t.log = Join(r.log, on)
    BY <1>0, <2>2, ThenParts
  <2>4. t.log \in Tidy(wanted, q)
    BY <2>1, <2>3, EndedLast
  <2>5. t \in Reads(Tidy(wanted, q))
    BY <2>3, <2>4 DEF Reads
  <2>. QED BY <2>5
<1>. QED BY <1>2 DEF ReadRecord, Readings, Just

\* In the recursive reading each record that the filter looks into ends last.
LEMMA DecodeTidy ==
    ASSUME NodesApart, NEW wanted, NEW in \in Seq(Int),
           NEW q \in Nodes, q.kind = "record", q.id \in wanted
    PROVE  \A s \in Nodes : decodeDocument(wanted, in)[s] \in Readings(LogsFor(wanted, q, s))
<1>. PICK D : D = decodeDocument(wanted, in)
  OBVIOUS
<1>. DEFINE P == {s \in Nodes : D[s] \in Readings(LogsFor(wanted, q, s))}
<1>1. ASSUME NEW s \in Nodes, \A y \in Nodes : Depth[y] < Depth[s] => y \in P
      PROVE  s \in P
  <2>. PICK children : children = [i \in DOMAIN s.of |-> D[s.of[i]]]
    OBVIOUS
  <2>1. D[s] = ReadNode(wanted, in, children, s) /\ D \in [Nodes -> Readings(Seq(Calls(wanted)))]
    BY DecodeNodes
  <2>2. ASSUME NEW i \in DOMAIN s.of
        PROVE  /\ children[i] \in Readings(Seq(Calls(wanted)))
               /\ children[i] \in Readings(LogsFor(wanted, q, s.of[i]))
    <3>1. s.of[i] \in Nodes /\ Depth[s.of[i]] < Depth[s]
      BY NodeFacts
    <3>. QED BY <1>1, <2>1, <3>1
  <2>3. CASE ~Clear(q, s)
    <3>1. LogsFor(wanted, q, s) = Seq(Calls(wanted))
      BY <2>3 DEF LogsFor
    <3>. QED BY <2>1, <3>1
  <2>4. CASE s = q
    <3>1. children \in [1..Len(s.of) -> Readings(Seq(Calls(wanted)))] /\ Len(s.of) \in Nat
      BY <2>2, NodeFacts
    <3>2. D[s] = ReadRecord(wanted, children, q)
      BY <2>1, <2>4 DEF ReadNode
    <3>3. LogsFor(wanted, q, s) = Tidy(wanted, q)
      BY <2>4, TreeNodes DEF LogsFor, Clear
    <3>4. ReadRecord(wanted, children, q) \in Readings(Tidy(wanted, q))
      BY <2>4, <3>1, RecordTidy
    <3>. QED BY <3>2, <3>3, <3>4
  <2>5. CASE Clear(q, s) /\ s # q
    <3>1. s.id \notin Below(q) /\ \A i \in DOMAIN s.of : Clear(q, s.of[i])
      BY <2>5, ClearBelow
    <3>2. children \in [DOMAIN s.of -> Readings(Tidy(wanted, q))]
      BY <2>2, <3>1 DEF LogsFor
    <3>3. Tells(wanted, s, Tidy(wanted, q)) /\ Joined(Tidy(wanted, q))
      BY <3>1, TellsOutside, TidyLogs
    <3>4. D[s] \in Readings(Tidy(wanted, q))
      BY <2>1, <3>2, <3>3, NodeType
    <3>. QED BY <2>5, <3>4 DEF LogsFor
  <2>. QED BY <2>3, <2>4, <2>5
<1>2. P = Nodes
  <2>1. P \in SUBSET Nodes
    OBVIOUS
  <2>. HIDE DEF P
  <2>. QED BY SMTT(30), <1>1, <2>1, DepthType, RankInduct
<1>. QED BY <1>2

-----------------------------------------------------------------------------
(* The calls for one node                                                    *)

\* What CallsOn puts together, step by step.
Sifts(F, X, calls, id) ==
    /\ F \in [0..Len(calls) -> Seq(X)]
    /\ F[0] = <<>>
    /\ \A i \in 1..Len(calls) :
          F[i] = Join(F[i - 1], IF calls[i].id = id THEN <<calls[i]>> ELSE <<>>)

\* Sifting the calls step by step ends in the calls for the node.
LEMMA CallsOnSteps ==
    ASSUME NEW X, NEW calls \in Seq(X), NEW id
    PROVE  /\ \E F : Sifts(F, X, calls, id)
           /\ \A F : Sifts(F, X, calls, id) => CallsOn(calls, id) = F[Len(calls)]
<1>. PICK n \in Nat : n = Len(calls)
  BY LenProperties
<1>. DEFINE S == Seq(X)
            Next(i, r) == Join(r, IF calls[i].id = id THEN <<calls[i]>> ELSE <<>>)
            step == [pair \in (1..n) \X S |-> Next(pair[1], pair[2])]
<1>1. \A i \in 1..n, r \in S : Next(i, r) \in S
  <2>. TAKE i \in 1..n, r \in S
  <2>1. <<calls[i]>> \in Seq(X) /\ <<>> \in Seq(X)
    BY LenProperties
  <2>2. (IF calls[i].id = id THEN <<calls[i]>> ELSE <<>>) \in Seq(X)
    BY <2>1
  <2>. QED BY <2>2, JoinType
<1>2. <<>> \in S
  OBVIOUS
<1>. HIDE DEF S, Next
<1>3. step \in [(1..n) \X S -> S]
  BY <1>1
<1>4. \A i \in 1..n, r \in S : step[<<i, r>>] = Next(i, r)
  OBVIOUS
<1>. HIDE DEF step
<1>5. PICK f : RecursiveTo(f, n, S, <<>>, step)
  BY <1>2, <1>3, RecursionTo
<1>6. f \in [0..n -> S] /\ f[0] = <<>> /\ \A i \in 1..n : f[i] = Next(i, f[i - 1])
  <2>1. f \in [0..n -> S] /\ f[0] = <<>> /\ \A i \in 1..n : f[i] = step[<<i, f[i - 1]>>]
    BY <1>5 DEF RecursiveTo
  <2>2. \A i \in 1..n : f[i - 1] \in S
    BY <2>1
  <2>. QED BY <1>4, <2>1, <2>2
<1>7. Sifts(f, X, calls, id)
  BY <1>6 DEF Sifts, S, Next
<1>. DEFINE Body(g, i) == IF i = 0 THEN <<>>
                          ELSE Join(g[i - 1], IF calls[i].id = id THEN <<calls[i]>> ELSE <<>>)
            Is(g) == g = [i \in 0..n |-> Body(g, i)]
            u == CHOOSE g : Is(g)
<1>8. ASSUME NEW F, Sifts(F, X, calls, id) PROVE \A i \in 0..n : F[i] = Body(F, i)
  <2>. TAKE i \in 0..n
  <2>1. CASE i = 0
    BY <1>8, <2>1 DEF Sifts
  <2>2. CASE i # 0
    <3>1. i \in 1..n
      BY <2>2
    <3>. QED BY <1>8, <2>2, <3>1 DEF Sifts
  <2>. QED BY <2>1, <2>2
<1>9. Is(f)
  <2>1. f = [i \in 0..n |-> f[i]]
    BY <1>6
  <2>2. \A i \in 0..n : f[i] = Body(f, i)
    BY <1>7, <1>8
  <2>. HIDE DEF Body
  <2>. QED BY <2>1, <2>2
<1>10. CallsOn(calls, id) = u[n]
  BY DEF CallsOn, Join
<1>. HIDE DEF Body
<1>11. Is(u)
  BY <1>9
<1>. HIDE DEF u
<1>12. \A i \in 0..n : u[i] = Body(u, i)
  BY <1>11
<1>13. ASSUME NEW F, Sifts(F, X, calls, id) PROVE u[n] = F[n]
  <2>. DEFINE P == {i \in 0..n : u[i] = F[i]}
  <2>1. 0 \in P
    <3>1. u[0] = Body(u, 0) /\ F[0] = Body(F, 0) /\ 0 \in 0..n
      BY <1>8, <1>12, <1>13
    <3>. QED BY <3>1 DEF Body
  <2>2. ASSUME NEW i \in P, i < n PROVE i + 1 \in P
    <3>1. i + 1 \in 0..n /\ i + 1 # 0 /\ (i + 1) - 1 = i /\ u[i] = F[i]
      BY <2>2
    <3>2. u[i + 1] = Body(u, i + 1) /\ F[i + 1] = Body(F, i + 1)
      BY <1>8, <1>12, <1>13, <3>1
    <3>. QED BY <3>1, <3>2 DEF Body
  <2>3. P = 0..n
    <3>. P \in SUBSET (0..n)
      OBVIOUS
    <3>. HIDE DEF P
    <3>. QED BY <2>1, <2>2, InductTo
  <2>. QED BY <2>3
<1>. QED BY <1>7, <1>10, <1>13

\* The calls for a node in two sequences are those in the one, and in the other.
LEMMA CallsOnConcat ==
    ASSUME NEW X, NEW a \in Seq(X), NEW b \in Seq(X), NEW id
    PROVE  CallsOn(Join(a, b), id) = Join(CallsOn(a, id), CallsOn(b, id))
<1>. PICK m \in Nat : m = Len(a)
  BY LenProperties
<1>. PICK n \in Nat : n = Len(b)
  BY LenProperties
<1>1. PICK F : Sifts(F, X, a, id)
  BY CallsOnSteps
<1>2. PICK G : Sifts(G, X, b, id)
  BY CallsOnSteps
<1>3. CallsOn(a, id) = F[m] /\ CallsOn(b, id) = G[n]
  BY <1>1, <1>2, CallsOnSteps
<1>4. F \in [0..m -> Seq(X)] /\ G \in [0..n -> Seq(X)] /\ F[m] \in Seq(X) /\ G[0] = <<>>
  BY SMTT(30), <1>1, <1>2 DEF Sifts
<1>5. /\ Len(Join(a, b)) = m + n
      /\ \A i \in 1..m : Join(a, b)[i] = a[i]
      /\ \A i \in 1..n : Join(a, b)[m + i] = b[i]
  <2>1. \A i \in 1..(m + n) : Join(a, b)[i] = IF i <= m THEN a[i] ELSE b[i - m]
    BY ConcatProperties DEF Join
  <2>2. \A i \in 1..m : i \in 1..(m + n) /\ i <= m
    OBVIOUS
  <2>3. \A i \in 1..n : m + i \in 1..(m + n) /\ ~(m + i <= m) /\ (m + i) - m = i
    OBVIOUS
  <2>. QED BY <2>1, <2>2, <2>3, ConcatProperties DEF Join
<1>. PICK ab \in Seq(X) : ab = Join(a, b)
  BY JoinType
<1>. DEFINE H == [i \in 0..(m + n) |-> IF i <= m THEN F[i] ELSE Join(F[m], G[i - m])]
<1>6. H \in [0..(m + n) -> Seq(X)]
  <2>1. ASSUME NEW i \in 0..(m + n) PROVE (IF i <= m THEN F[i] ELSE Join(F[m], G[i - m])) \in Seq(X)
    <3>1. CASE i <= m
      <4>1. i \in 0..m
        BY <3>1
      <4>. QED BY <1>4, <3>1, <4>1
    <3>2. CASE ~(i <= m)
      <4>1. i - m \in 0..n
        BY <3>2
      <4>. QED BY <1>4, <3>2, <4>1, JoinType
    <3>. QED BY <3>1, <3>2
  <2>. QED BY <2>1
<1>7. \A i \in 0..(m + n) : H[i] = IF i <= m THEN F[i] ELSE Join(F[m], G[i - m])
  OBVIOUS
<1>. HIDE DEF H
<1>8. ASSUME NEW i \in 1..(m + n)
      PROVE  H[i] = Join(H[i - 1], IF ab[i].id = id THEN <<ab[i]>> ELSE <<>>)
  <2>1. CASE i <= m
    <3>1. i \in 1..m /\ i \in 0..(m + n) /\ i - 1 \in 0..(m + n) /\ i - 1 <= m
      BY <2>1
    <3>2. H[i] = F[i] /\ H[i - 1] = F[i - 1] /\ ab[i] = a[i]
      BY <1>5, <1>7, <2>1, <3>1
    <3>3. F[i] = Join(F[i - 1], IF a[i].id = id THEN <<a[i]>> ELSE <<>>)
      BY <1>1, <3>1 DEF Sifts
    <3>. QED BY <3>2, <3>3
  <2>2. CASE ~(i <= m)
    <3>. PICK j \in 1..n : j = i - m
      <4>1. i - m \in 1..n
        BY <2>2
      <4>. QED BY <4>1
    <3>1. i = m + j /\ i \in 0..(m + n) /\ i - 1 \in 0..(m + n)
          /\ (i - 1) - m = j - 1 /\ j - 1 \in 0..n
      OBVIOUS
    <3>2. ab[i] = b[j]
      BY <1>5, <3>1
    <3>. DEFINE last == IF b[j].id = id THEN <<b[j]>> ELSE <<>>
    <3>3. last \in Seq(X)
      <4>1. b[j] \in X
        BY LenProperties
      <4>. QED BY <4>1
    <3>4. G[j] = Join(G[j - 1], last) /\ G[j - 1] \in Seq(X)
      BY <1>2, <1>4, <3>1 DEF Sifts
    <3>. HIDE DEF last
    <3>5. H[i] = Join(F[m], G[j])
      BY <1>7, <2>2, <3>1
    <3>6. H[i - 1] = Join(F[m], G[j - 1])
      <4>1. CASE i - 1 <= m
        <5>1. i - 1 = m /\ j - 1 = 0
          BY <2>2, <3>1, <4>1
        <5>2. H[i - 1] = F[m]
          BY <1>7, <3>1, <4>1, <5>1
        <5>3. Join(F[m], G[0]) = F[m]
          BY <1>4, JoinEmpty
        <5>. QED BY <5>1, <5>2, <5>3
      <4>2. CASE ~(i - 1 <= m)
        BY <1>7, <3>1, <4>2
      <4>. QED BY <4>1, <4>2
    <3>7. Join(F[m], Join(G[j - 1], last)) = Join(Join(F[m], G[j - 1]), last)
      BY <1>4, <3>3, <3>4, Regroup
    <3>. QED BY <3>2, <3>4, <3>5, <3>6, <3>7 DEF last
  <2>. QED BY <2>1, <2>2
<1>9. H[0] = <<>>
  <2>1. 0 \in 0..(m + n) /\ 0 <= m
    OBVIOUS
  <2>. QED BY <1>1, <1>7, <2>1 DEF Sifts
<1>10. Sifts(H, X, ab, id)
  BY <1>5, <1>6, <1>8, <1>9 DEF Sifts
<1>11. CallsOn(ab, id) = H[m + n]
  <2>1. CallsOn(ab, id) = H[Len(ab)]
    BY <1>10, CallsOnSteps
  <2>. QED BY <1>5, <2>1
<1>12. H[m + n] = Join(F[m], G[n])
  <2>1. CASE n = 0
    <3>1. H[m + n] = F[m] /\ Join(F[m], G[0]) = F[m]
      BY <1>4, <1>7, <2>1, JoinEmpty
    <3>. QED BY <2>1, <3>1
  <2>2. CASE n # 0
    <3>1. ~(m + n <= m) /\ (m + n) - m = n /\ m + n \in 0..(m + n)
      BY <2>2
    <3>. QED BY <1>7, <3>1
  <2>. QED BY <2>1, <2>2
<1>. QED BY <1>3, <1>4, <1>11, <1>12

\* No call, one call, and calls for others.
LEMMA CallsOnFew ==
    ASSUME NEW I, NEW id
    PROVE  /\ CallsOn(<<>>, id) = <<>>
           /\ \A c \in Calls(I) : c.id # id => CallsOn(<<c>>, id) = <<>>
           /\ \A a \in Seq(Calls(I)) : id \notin I => CallsOn(a, id) = <<>>
<1>. DEFINE X == Calls(I)
<1>1. ASSUME NEW a \in Seq(X), \A i \in 1..Len(a) : a[i].id # id
      PROVE  CallsOn(a, id) = <<>>
  <2>. PICK n \in Nat : n = Len(a)
    BY LenProperties
  <2>. DEFINE F == [i \in 0..n |-> <<>>]
  <2>1. <<>> \in Seq(X) /\ Join(<<>>, <<>>) = <<>>
    <3>1. <<>> \in Seq(X)
      OBVIOUS
    <3>. QED BY <3>1, JoinEmpty
  <2>2. \A i \in 1..n : F[i] = Join(F[i - 1], IF a[i].id = id THEN <<a[i]>> ELSE <<>>)
    <3>. TAKE i \in 1..n
    <3>1. F[i] = <<>> /\ F[i - 1] = <<>> /\ a[i].id # id
      BY <1>1
    <3>. QED BY <2>1, <3>1
  <2>3. F \in [0..n -> Seq(X)] /\ F[0] = <<>> /\ F[n] = <<>>
    BY <2>1
  <2>. HIDE DEF F, X
  <2>4. Sifts(F, X, a, id)
    BY <2>2, <2>3 DEF Sifts
  <2>. QED BY <2>3, <2>4, CallsOnSteps
<1>2. CallsOn(<<>>, id) = <<>>
  <2>1. <<>> \in Seq(X) /\ \A i \in 1..Len(<<>>) : FALSE
    OBVIOUS
  <2>. HIDE DEF X
  <2>. QED BY <1>1, <2>1
<1>3. ASSUME NEW c \in Calls(I), c.id # id PROVE CallsOn(<<c>>, id) = <<>>
  <2>1. <<c>> \in Seq(X) /\ Len(<<c>>) = 1 /\ <<c>>[1] = c
    OBVIOUS
  <2>2. \A i \in 1..Len(<<c>>) : <<c>>[i].id # id
    BY <1>3, <2>1
  <2>. HIDE DEF X
  <2>. QED BY <1>1, <2>1, <2>2
<1>4. ASSUME NEW a \in Seq(Calls(I)), id \notin I PROVE CallsOn(a, id) = <<>>
  <2>1. \A i \in 1..Len(a) : a[i] \in X
    BY LenProperties
  <2>2. \A c \in X : c.id \in I
    BY DEF Calls
  <2>. HIDE DEF X
  <2>. QED BY <1>1, <1>4, <2>1, <2>2 DEF X
<1>. QED BY <1>2, <1>3, <1>4

-----------------------------------------------------------------------------
(* Where the items lead                                                      *)

\* For each spot, spots one may be at later.
Ways(items) == [Spots(items) -> SUBSET Spots(items)]

\* The spots after each of some nodes.
Passes(T, items, n, ways, o) ==
    /\ T \in [0..n -> SUBSET Spots(items)]
    /\ T[0] = {o}
    /\ \A i \in 1..n : T[i] = UNION {ways[i][e] : e \in T[i - 1]}
    /\ Through(ways, o) = T[n]

\* From a spot through one node after the other, step by step.
LEMMA ThroughSteps ==
    ASSUME NEW items, NEW n \in Nat, NEW ways \in [1..n -> Ways(items)], NEW o \in Spots(items)
    PROVE  \E T : Passes(T, items, n, ways, o)
<1>. DEFINE S == SUBSET Spots(items)
            After(i, r) == UNION {ways[i][e] : e \in r}
            step == [pair \in (1..n) \X S |-> After(pair[1], pair[2])]
<1>1. {o} \in S
  OBVIOUS
<1>2. \A i \in 1..n, r \in S : After(i, r) \in S
  <2>. TAKE i \in 1..n, r \in S
  <2>1. ways[i] \in [Spots(items) -> SUBSET Spots(items)]
    BY DEF Ways
  <2>2. \A e \in r : ways[i][e] \subseteq Spots(items)
    BY <2>1
  <2>. QED BY <2>2
<1>. HIDE DEF S, After
<1>3. step \in [(1..n) \X S -> S]
  BY <1>2
<1>4. \A i \in 1..n, r \in S : step[<<i, r>>] = After(i, r)
  OBVIOUS
<1>. HIDE DEF step
<1>5. PICK f : RecursiveTo(f, n, S, {o}, step)
  BY <1>1, <1>3, RecursionTo
<1>6. f \in [0..n -> S] /\ f[0] = {o} /\ \A i \in 1..n : f[i] = After(i, f[i - 1])
  <2>1. f \in [0..n -> S] /\ f[0] = {o} /\ \A i \in 1..n : f[i] = step[<<i, f[i - 1]>>]
    BY <1>5 DEF RecursiveTo
  <2>2. \A i \in 1..n : f[i - 1] \in S
    BY <2>1
  <2>. QED BY <1>4, <2>1, <2>2
<1>7. \A i \in 0..n : f[i] = IF i = 0 THEN {o} ELSE After(i, f[i - 1])
  <2>. TAKE i \in 0..n
  <2>1. CASE i = 0
    BY <1>6, <2>1
  <2>2. CASE i # 0
    <3>1. i \in 1..n
      BY <2>2
    <3>. QED BY <2>2, <3>1, <1>6
  <2>. QED BY <2>1, <2>2
<1>. DEFINE Is(g) == g = [i \in 0..n |-> IF i = 0 THEN {o} ELSE After(i, g[i - 1])]
            u == CHOOSE g : Is(g)
<1>8. Is(f)
  BY <1>6, <1>7
<1>9. Is(u)
  BY <1>8
<1>10. Len(ways) = n
  OBVIOUS
<1>11. Through(ways, o) = u[n]
  BY <1>10 DEF Through, After
<1>. HIDE DEF u
<1>12. \A i \in 0..n : u[i] = IF i = 0 THEN {o} ELSE After(i, u[i - 1])
  BY <1>9
<1>13. DOMAIN u = 0..n /\ u = [i \in 0..n |-> u[i]]
  BY <1>9
<1>14. \A i \in 0..n : u[i] \in S
  <2>. DEFINE P == {i \in 0..n : u[i] \in S}
  <2>1. 0 \in P
    <3>1. 0 \in 0..n
      OBVIOUS
    <3>2. u[0] = {o}
      BY <1>12, <3>1
    <3>. QED BY <1>1, <3>1, <3>2
  <2>2. ASSUME NEW i \in P, i < n PROVE i + 1 \in P
    <3>1. i + 1 \in 1..n /\ i + 1 \in 0..n /\ i + 1 # 0 /\ (i + 1) - 1 = i /\ u[i] \in S
      BY <2>2
    <3>. QED BY <3>1, <1>2, <1>12
  <2>3. P = 0..n
    <3>. P \in SUBSET (0..n)
      OBVIOUS
    <3>. HIDE DEF P
    <3>. QED BY <2>1, <2>2, InductTo
  <2>. QED BY <2>3
<1>15. u \in [0..n -> S]
  BY <1>13, <1>14
<1>16. u[0] = {o} /\ \A i \in 1..n : u[i] = After(i, u[i - 1])
  <2>1. \A i \in 1..n : i \in 0..n /\ i # 0
    OBVIOUS
  <2>. QED BY <1>12, <2>1
<1>. QED BY <1>11, <1>15, <1>16 DEF S, After, Passes

\* The exits of a node are spots if those of its children are.
LEMMA ExitsType ==
    ASSUME NEW items, NEW wanted, NEW s \in Nodes, NEW ways \in [DOMAIN s.of -> Ways(items)]
    PROVE  ExitsOf(items, wanted, ways, s) \in Ways(items)
<1>. PICK n \in Nat : n = Len(s.of) /\ DOMAIN s.of = 1..n
  BY NodeFacts
<1>. DEFINE to(o) ==
           CASE s.kind = "null"   -> Past(items, o)
             [] s.kind = "leaf"   -> Behind(items, "value", s, o)
             [] s.kind = "custom" -> ways[1][o]
             [] s.kind = "record" ->
                  IF s.id \in wanted
                  THEN UNION {Behind(items, "recordEnd", s, e) : e \in Through(ways, o)}
                  ELSE Through(ways, o)
             [] s.kind = "union"  -> Branches(items, ways, s, o)
             [] s.kind \in {"array", "map"} -> Behind(items, "chunks", s, o)
<1>1. ASSUME NEW o \in Spots(items) PROVE to(o) \subseteq Spots(items)
  <2>1. \A op, e : Behind(items, op, s, e) \subseteq Spots(items)
    BY DEF Behind
  <2>2. Past(items, o) \subseteq Spots(items)
    BY DEF Past
  <2>3. Branches(items, ways, s, o) \subseteq Spots(items)
    BY DEF Branches
  <2>4. Through(ways, o) \subseteq Spots(items)
    <3>1. PICK T : Passes(T, items, n, ways, o)
      BY ThroughSteps
    <3>2. T \in [0..n -> SUBSET Spots(items)] /\ n \in 0..n /\ Through(ways, o) = T[n]
      BY <3>1 DEF Passes
    <3>. QED BY <3>2
  <2>5. s.kind = "custom" => ways[1][o] \subseteq Spots(items)
    BY NodeFacts DEF Ways
  <2>6. UNION {Behind(items, "recordEnd", s, e) : e \in Through(ways, o)} \subseteq Spots(items)
    BY <2>1
  <2>. QED BY <2>1, <2>2, <2>3, <2>4, <2>5, <2>6, NodeFacts DEF Kinds
<1>. HIDE DEF to
<1>2. ExitsOf(items, wanted, ways, s) = [o \in Spots(items) |-> to(o)]
  BY DEF ExitsOf, to
<1>. QED BY <1>1, <1>2 DEF Ways

\* The exits, node by node.
LEMMA ExitsNodes ==
    ASSUME NEW items, NEW wanted
    PROVE  /\ Exits(items, wanted) \in [Nodes -> Ways(items)]
           /\ \A s \in Nodes :
                 Exits(items, wanted)[s] =
                    ExitsOf(items, wanted, [i \in DOMAIN s.of |-> Exits(items, wanted)[s.of[i]]], s)
<1>. DEFINE V == Ways(items)
            Children(g, s) == [i \in DOMAIN s.of |-> g[s.of[i]]]
            Body(g, s) == ExitsOf(items, wanted, Children(g, s), s)
            G == [Nodes -> V]
            step == [pair \in Nodes \X G |-> Body(pair[2], pair[1])]
            none == [o \in Spots(items) |-> {}]
<1>1. none \in V
  BY DEF Ways
<1>2. ASSUME NEW g \in G, NEW s \in Nodes PROVE Body(g, s) \in V
  <2>1. Children(g, s) \in [DOMAIN s.of -> Ways(items)]
    BY NodeFacts
  <2>. QED BY <2>1, ExitsType
<1>3. ASSUME NEW s \in Nodes, NEW g, NEW h,
             \A x \in Nodes : Depth[x] < Depth[s] => g[x] = h[x]
      PROVE  Body(g, s) = Body(h, s)
  <2>1. Children(g, s) = Children(h, s)
    BY <1>3, NodeFacts
  <2>. QED BY <2>1
<1>. HIDE DEF Body, V, none
<1>4. step \in [Nodes \X G -> V]
  BY <1>2
<1>5. \A s \in Nodes, g \in G : step[<<s, g>>] = Body(g, s)
  OBVIOUS
<1>. HIDE DEF step
<1>6. \A s \in Nodes : \A g, h \in [Nodes -> V] :
         (\A x \in Nodes : Depth[x] < Depth[s] => g[x] = h[x]) => step[<<s, g>>] = step[<<s, h>>]
  <2>. TAKE s \in Nodes
  <2>. TAKE g, h \in [Nodes -> V]
  <2>. HAVE \A x \in Nodes : Depth[x] < Depth[s] => g[x] = h[x]
  <2>1. Body(g, s) = Body(h, s)
    BY <1>3
  <2>. QED BY <2>1, <1>5
<1>7. PICK f : RankRecursive(f, Nodes, V, step)
  BY <1>1, <1>4, <1>6, DepthType, RankRecursion
<1>8. f \in [Nodes -> V] /\ \A s \in Nodes : f[s] = Body(f, s)
  BY <1>5, <1>7 DEF RankRecursive
<1>. DEFINE Is(g) == g = [s \in Nodes |-> Body(g, s)]
            u == CHOOSE g : Is(g)
<1>9. Is(f)
  <2>1. f = [s \in Nodes |-> f[s]]
    BY <1>8
  <2>. QED BY <1>8, <2>1
<1>10. Is(u)
  BY <1>9
<1>11. Exits(items, wanted) = u
  BY DEF Exits, Body
<1>. HIDE DEF u
<1>12. \A s \in Nodes : u[s] = Body(u, s)
  BY <1>10
<1>. DEFINE P == {s \in Nodes : u[s] = f[s]}
<1>13. P = Nodes
  <2>1. ASSUME NEW s \in Nodes, \A x \in Nodes : Depth[x] < Depth[s] => x \in P
        PROVE  s \in P
    <3>1. Body(u, s) = Body(f, s)
      BY <1>3, <2>1
    <3>. QED BY <3>1, <1>8, <1>12
  <2>. P \in SUBSET Nodes
    OBVIOUS
  <2>. HIDE DEF P
  <2>. QED BY SMTT(30), <2>1, DepthType, RankInduct
<1>14. u \in [Nodes -> V]
  <2>1. DOMAIN u = Nodes /\ u = [s \in Nodes |-> u[s]]
    BY <1>10
  <2>2. \A s \in Nodes : u[s] \in V
    BY <1>8, <1>13
  <2>. QED BY <2>1, <2>2
<1>. QED BY <1>11, <1>12, <1>14 DEF V, Body

-----------------------------------------------------------------------------
(* Running a list: from where the loop comes to the end, and with what calls *)

\* What the compiler makes.
Ops   == {"value", "union", "chunks", "recordEnd"}
Items == [op : Ops, node : Nodes, ret : Nat, skipping : Seq(Nat)]

\* A list that runs over a stream, and where it is to come to its end.
Run(x) == x.items \in Seq(Items) /\ x.in \in Seq(Int) /\ x.end \in Places

\* A mark is a spot, a place in the stream, and the calls from there to the end.
Marks(x) == Spots(x.items) \X Places \X Seq(Calls(x.wanted))

Goal(x) == <<Len(x.items) + 1, x.end, <<>>>>

\* The item that reads a value, ends a record, or goes to a branch takes one from a mark
\* to another.
ReadStep(x, item, z, y) ==
    LET read == decodeDocument(x.wanted, x.in)[item.node][z[2]]
    IN  /\ item.op \in {"value", "chunks"}
        /\ read.ok
        /\ y[1] = z[1] + item.ret /\ y[2] = read.at
        /\ z[3] = Join(read.log, y[3])

EndStep(x, item, z, y) ==
    /\ item.op = "recordEnd"
    /\ y[1] = z[1] + item.ret /\ y[2] = z[2]
    /\ z[3] = Join(On(x.wanted, item.node, "recordEnd", 0), y[3])

BranchStep(x, item, z, y) ==
    LET b == x.in[z[2]] + 1
    IN  /\ item.op = "union"
        /\ z[2] <= Len(x.in) /\ b \in DOMAIN item.skipping
        /\ y[1] = z[1] + item.skipping[b] /\ y[2] = z[2] + 1
        /\ z[3] = Join(On(x.wanted, item.node, "setIsNull", item.node.of[b].kind = "null"), y[3])

Step(x, z, y) ==
    /\ z[1] \in DOMAIN x.items
    /\ \/ ReadStep(x, x.items[z[1]], z, y)
       \/ EndStep(x, x.items[z[1]], z, y)
       \/ BranchStep(x, x.items[z[1]], z, y)

\* Marks from each of which a step leads to one of them, or which are the goal.
Closed(x, Z) ==
    /\ Z \subseteq Marks(x)
    /\ \A z \in Z : z = Goal(x) \/ \E y \in Z : Step(x, z, y)

\* A mark from which the loop comes to the goal.
Good(x, o, p, calls) == \E Z : Closed(x, Z) /\ <<o, p, calls>> \in Z

\* At the goal the loop has come to the goal.
LEMMA GoodGoal ==
    ASSUME NEW x, Run(x)
    PROVE  Good(x, Len(x.items) + 1, x.end, <<>>)
<1>1. Len(x.items) + 1 \in Spots(x.items)
  <2>1. Len(x.items) \in Nat
    BY LenProperties DEF Run
  <2>. QED BY <2>1 DEF Spots
<1>2. Goal(x) \in Marks(x)
  BY <1>1, NoCalls DEF Goal, Marks, Run
<1>3. Closed(x, {Goal(x)})
  BY <1>2 DEF Closed
<1>. QED BY <1>3 DEF Good, Goal

\* A good mark, by itself and by what is behind it.
LEMMA GoodMark ==
    ASSUME NEW x, NEW o, NEW p, NEW calls, Good(x, o, p, calls)
    PROVE  /\ o \in Spots(x.items) /\ p \in Places /\ calls \in Seq(Calls(x.wanted))
           /\ \/ o = Len(x.items) + 1 /\ p = x.end /\ calls = <<>>
              \/ \E e \in Spots(x.items), q \in Places, rest \in Seq(Calls(x.wanted)) :
                    Good(x, e, q, rest) /\ Step(x, <<o, p, calls>>, <<e, q, rest>>)
<1>1. PICK Z : Closed(x, Z) /\ <<o, p, calls>> \in Z
  BY DEF Good
<1>2. \A y \in Z : \E e \in Spots(x.items), q \in Places, rest \in Seq(Calls(x.wanted)) :
                     y = <<e, q, rest>>
  BY <1>1 DEF Closed, Marks
<1>3. PICK e \in Spots(x.items), q \in Places, rest \in Seq(Calls(x.wanted)) :
        <<o, p, calls>> = <<e, q, rest>>
  BY <1>1, <1>2
<1>4. o = e /\ p = q /\ calls = rest
  BY <1>3
<1>5. CASE <<o, p, calls>> = Goal(x)
  BY <1>4, <1>5 DEF Goal
<1>6. CASE <<o, p, calls>> # Goal(x)
  <2>1. PICK y \in Z : Step(x, <<o, p, calls>>, y)
    BY <1>1, <1>6 DEF Closed
  <2>2. PICK f \in Spots(x.items), u \in Places, more \in Seq(Calls(x.wanted)) :
          y = <<f, u, more>>
    BY <1>2
  <2>3. Good(x, f, u, more)
    BY <1>1, <2>2 DEF Good
  <2>. QED BY <1>4, <2>1, <2>2, <2>3
<1>. QED BY <1>5, <1>6

\* What leads to a good mark is one.
LEMMA GoodStep ==
    ASSUME NEW x, NEW e, NEW q, NEW rest, Good(x, e, q, rest),
           NEW o \in Spots(x.items), NEW p \in Places, NEW calls \in Seq(Calls(x.wanted)),
           Step(x, <<o, p, calls>>, <<e, q, rest>>)
    PROVE  Good(x, o, p, calls)
<1>1. PICK Z : Closed(x, Z) /\ <<e, q, rest>> \in Z
  BY DEF Good
<1>. DEFINE z == <<o, p, calls>>
            Z2 == Z \cup {z}
<1>2. z \in Marks(x)
  BY DEF Marks
<1>3. ASSUME NEW y \in Z2 PROVE y = Goal(x) \/ \E u \in Z2 : Step(x, y, u)
  <2>1. CASE y = z
    BY <1>1, <2>1
  <2>2. CASE y # z
    BY <1>1, <2>2 DEF Closed
  <2>. QED BY <2>1, <2>2
<1>4. Closed(x, Z2)
  BY <1>1, <1>2, <1>3 DEF Closed
<1>. QED BY <1>4 DEF Good

-----------------------------------------------------------------------------
(* A list that leads from spot to spot reads what is read recursively        *)

\* The same calls for each node.
Same(a, b) == \A id : CallsOn(a, id) = CallsOn(b, id)

\* Logs that the loop may be meant to make: calls for wanted nodes.
Logs(x, L) == L \subseteq Seq(Calls(x.wanted)) /\ Joined(L)

\* From a spot to another the loop reads what the reading reads, with one of the logs.
Brings(x, L, o, e, p, r) ==
    \A rest \in Seq(Calls(x.wanted)) :
        r.ok /\ Good(x, e, r.at, rest)
            => \E calls \in L : Good(x, o, p, Join(calls, rest)) /\ Same(calls, r.log)

\* From each spot to each that is said to be behind it.
Carries(x, L, way, reading) ==
    \A o \in Spots(x.items) : \A e \in way[o] : \A p \in Places :
        Brings(x, L, o, e, p, reading[p])

\* A node as it is decoded.
LEMMA DecodedAt ==
    ASSUME NEW x, Run(x), NEW s \in Nodes, NEW p \in Places
    PROVE  /\ decodeDocument(x.wanted, x.in)[s][p] \in Reads(Seq(Calls(x.wanted)))
           /\ decodeDocument(x.wanted, x.in)[s][p] \in Reads(Seq(Calls(Below(s))))
<1>1. decodeDocument(x.wanted, x.in)[s] \in [Places -> Reads(Seq(Calls(x.wanted)))]
  BY DecodeNodes DEF Readings, Run
<1>2. decodeDocument(x.wanted, x.in)[s] \in [Places -> Reads(Seq(Calls(Below(s))))]
  BY DecodeBelow DEF Readings, Run
<1>. QED BY <1>1, <1>2

\* Calls before good ones.
LEMMA MoreCalls ==
    ASSUME NEW I, NEW calls \in Seq(Calls(I)), NEW rest \in Seq(Calls(I))
    PROVE  Join(calls, rest) \in Seq(Calls(I)) /\ Len(calls) \in Nat
BY JoinType, LenProperties

\* An item that reads a value.
LEMMA ValueBrings ==
    ASSUME NEW x, Run(x), NEW s \in Nodes, NEW op \in {"value", "chunks"},
           NEW o \in Spots(x.items), NEW e \in Behind(x.items, op, s, o), NEW p \in Places,
           NEW L, decodeDocument(x.wanted, x.in)[s][p] \in Reads(L)
    PROVE  Brings(x, L, o, e, p, decodeDocument(x.wanted, x.in)[s][p])
<1>. PICK r \in Reads(Seq(Calls(x.wanted))) : r = decodeDocument(x.wanted, x.in)[s][p]
  BY DecodedAt
<1>. SUFFICES ASSUME NEW rest \in Seq(Calls(x.wanted)), r.ok, Good(x, e, r.at, rest)
              PROVE  \E calls \in L :
                        Good(x, o, p, Join(calls, rest)) /\ Same(calls, r.log)
  BY DEF Brings
<1>1. /\ o \in DOMAIN x.items /\ x.items[o].op = op /\ x.items[o].node = s
      /\ e = o + x.items[o].ret
  BY DEF Behind
<1>2. r.log \in Seq(Calls(x.wanted)) /\ Join(r.log, rest) \in Seq(Calls(x.wanted))
  BY ReadsParts, MoreCalls
<1>3. ReadStep(x, x.items[o], <<o, p, Join(r.log, rest)>>, <<e, r.at, rest>>)
  BY <1>1 DEF ReadStep
<1>4. Step(x, <<o, p, Join(r.log, rest)>>, <<e, r.at, rest>>)
  BY <1>1, <1>3 DEF Step
<1>5. Good(x, o, p, Join(r.log, rest))
  BY <1>2, <1>4, GoodStep
<1>6. r.log \in L
  BY ReadsParts
<1>. QED BY <1>5, <1>6 DEF Same

\* Past a null.
LEMMA GoodPast ==
    ASSUME NEW x, Run(x), NEW o \in Spots(x.items), NEW e \in Past(x.items, o),
           NEW p, NEW rest, Good(x, e, p, rest)
    PROVE  Good(x, o, p, rest)
<1>1. CASE e = o
  BY <1>1
<1>2. CASE e # o
  <2>1. /\ o \in DOMAIN x.items
        /\ x.items[o].op = "value" /\ x.items[o].node.kind = "null" /\ e = o + x.items[o].ret
    BY <1>2 DEF Past
  <2>2. x.items[o] \in Items
    BY <2>1 DEF Run
  <2>. PICK s \in Nodes : s = x.items[o].node
    BY <2>2 DEF Items
  <2>3. p \in Places /\ rest \in Seq(Calls(x.wanted))
    BY GoodMark
  <2>4. decodeDocument(x.wanted, x.in)[s] = [q \in Places |-> Read(TRUE, q, <<>>)]
    <3>. PICK readings : readings = [i \in DOMAIN s.of |-> decodeDocument(x.wanted, x.in)[s.of[i]]]
      OBVIOUS
    <3>2. decodeDocument(x.wanted, x.in)[s] = ReadNode(x.wanted, x.in, readings, s)
      BY DecodeNodes DEF Run
    <3>1. s.kind = "null"
      BY <2>1
    <3>. QED BY <3>1, <3>2 DEF ReadNode
  <2>5. decodeDocument(x.wanted, x.in)[s][p] = Read(TRUE, p, <<>>)
    BY <2>3, <2>4
  <2>6. Join(<<>>, rest) = rest
    BY <2>3, JoinEmpty
  <2>. PICK r : r = decodeDocument(x.wanted, x.in)[s][p]
    OBVIOUS
  <2>9. r.ok /\ r.at = p /\ r.log = <<>>
    BY <2>5 DEF Read
  <2>7. ReadStep(x, x.items[o], <<o, p, rest>>, <<e, p, rest>>)
    BY <2>1, <2>6, <2>9 DEF ReadStep
  <2>8. Step(x, <<o, p, rest>>, <<e, p, rest>>)
    BY <2>1, <2>7 DEF Step
  <2>. QED BY <2>3, <2>8, GoodStep
<1>. QED BY <1>1, <1>2

\* Calls that are the same for each node, before and after each other.
LEMMA SameConcat ==
    ASSUME NEW I, NEW a \in Seq(Calls(I)), NEW b \in Seq(Calls(I)), Same(a, b),
           NEW c \in Seq(Calls(I)), NEW d \in Seq(Calls(I)), Same(c, d)
    PROVE  Same(Join(a, c), Join(b, d))
<1>. SUFFICES ASSUME NEW id PROVE CallsOn(Join(a, c), id) = CallsOn(Join(b, d), id)
  BY DEF Same
<1>. PICK X : X = Calls(I)
  OBVIOUS
<1>0. ASSUME NEW u \in Seq(X), NEW v \in Seq(X)
      PROVE  CallsOn(Join(u, v), id) = Join(CallsOn(u, id), CallsOn(v, id))
  BY CallsOnConcat
<1>1. CallsOn(Join(a, c), id) = Join(CallsOn(a, id), CallsOn(c, id))
  BY <1>0
<1>2. CallsOn(Join(b, d), id) = Join(CallsOn(b, id), CallsOn(d, id))
  BY <1>0
<1>. QED BY <1>1, <1>2 DEF Same

\* Fields, one after the other.
LEMMA FieldsBring ==
    ASSUME NEW x, Run(x), NEW L, Logs(x, L), NEW n \in Nat,
           NEW ways \in [1..n -> Ways(x.items)],
           NEW readings \in [1..n -> Readings(Seq(Calls(x.wanted)))],
           \A i \in 1..n : Carries(x, L, ways[i], readings[i]),
           NEW o \in Spots(x.items), NEW e \in Through(ways, o), NEW p \in Places
    PROVE  Brings(x, L, o, e, p, InTurn(readings, p))
<1>1. PICK T : Passes(T, x.items, n, ways, o)
  BY ThroughSteps
<1>2. PICK R : Turns(R, Seq(Calls(x.wanted)), n, readings, p)
  BY AllCalls, InTurnSteps
<1>3. /\ T \in [0..n -> SUBSET Spots(x.items)] /\ T[0] = {o}
      /\ \A i \in 1..n : T[i] = UNION {ways[i][f] : f \in T[i - 1]}
      /\ Through(ways, o) = T[n]
  BY <1>1 DEF Passes
<1>4. /\ R \in [0..n -> Reads(Seq(Calls(x.wanted)))] /\ R[0] = Read(TRUE, p, <<>>)
      /\ \A i \in 1..n : R[i] = Then(R[i - 1], readings[i][R[i - 1].at])
      /\ InTurn(readings, p) = R[n]
  BY <1>2 DEF Turns
<1>. DEFINE P == {i \in 0..n : \A f \in T[i] : Brings(x, L, o, f, p, R[i])}
<1>5. 0 \in P
  <2>1. 0 \in 0..n
    OBVIOUS
  <2>2. ASSUME NEW f \in T[0] PROVE Brings(x, L, o, f, p, R[0])
    <3>1. f = o /\ R[0].at = p /\ R[0].log = <<>>
      BY <1>3, <1>4 DEF Read
    <3>. SUFFICES ASSUME NEW rest \in Seq(Calls(x.wanted)), Good(x, f, p, rest)
                  PROVE  \E calls \in L :
                            Good(x, o, p, Join(calls, rest)) /\ Same(calls, <<>>)
      BY <3>1 DEF Brings
    <3>2. Join(<<>>, rest) = rest /\ <<>> \in L
      BY JoinEmpty DEF Logs, Joined
    <3>. QED BY <3>1, <3>2 DEF Same
  <2>. QED BY <2>1, <2>2
<1>6. ASSUME NEW i \in P, i < n PROVE i + 1 \in P
  <2>. PICK j \in 1..n : j = i + 1
    BY <1>6
  <2>1. j - 1 = i /\ i \in 0..n /\ j \in 0..n
    OBVIOUS
  <2>. PICK r \in Reads(Seq(Calls(x.wanted))) : r = R[i]
    BY <1>4, <2>1
  <2>. PICK r2 \in Reads(Seq(Calls(x.wanted))) : r2 = readings[j][r.at]
    <3>1. readings[j] \in [Places -> Reads(Seq(Calls(x.wanted)))]
      BY DEF Readings
    <3>. QED BY <3>1, ReadsParts
  <2>2. R[j] = Then(r, r2)
    BY <1>4, <2>1
  <2>3. (R[j].ok => r.ok /\ r2.ok) /\ R[j].at = r2.at /\ R[j].log = Join(r.log, r2.log)
    <3>. PICK t : t = Then(r, r2)
      OBVIOUS
    <3>1. t.at = r2.at /\ t.log = Join(r.log, r2.log)
      BY AllCalls, ThenParts
    <3>2. t.ok = (r.ok /\ r2.ok)
      BY SMTT(30), AllCalls, ThenParts
    <3>3. R[j] = t
      BY <2>2
    <3>. QED BY <3>1, <3>2, <3>3
  <2>4. ASSUME NEW f \in T[j], NEW rest \in Seq(Calls(x.wanted)), R[j].ok,
               Good(x, f, R[j].at, rest)
        PROVE  \E calls \in L :
                  Good(x, o, p, Join(calls, rest)) /\ Same(calls, R[j].log)
    <3>1. PICK g \in T[i] : f \in ways[j][g]
      BY <1>3, <2>1
    <3>2. g \in Spots(x.items)
      BY <1>3, <2>1
    <3>3. r.ok /\ r2.ok /\ Good(x, f, r2.at, rest)
      BY <2>3, <2>4
    <3>4. r.at \in Places /\ r.log \in Seq(Calls(x.wanted)) /\ r2.log \in Seq(Calls(x.wanted))
      BY ReadsParts
    <3>5. Brings(x, L, g, f, r.at, r2)
      BY <3>1, <3>2, <3>4 DEF Carries
    <3>6. PICK late \in Seq(Calls(x.wanted)) :
             late \in L /\ Good(x, g, r.at, Join(late, rest)) /\ Same(late, r2.log)
      BY <3>3, <3>5 DEF Brings, Logs
    <3>7. Brings(x, L, o, g, p, r)
      BY <3>1, <2>1
    <3>. PICK next \in Seq(Calls(x.wanted)) : next = Join(late, rest)
      BY MoreCalls
    <3>8. PICK early \in Seq(Calls(x.wanted)) :
             early \in L /\ Good(x, o, p, Join(early, next)) /\ Same(early, r.log)
      BY <3>3, <3>6, <3>7 DEF Brings, Logs
    <3>9. Join(early, next) = Join(Join(early, late), rest)
      BY Regroup
    <3>10. Same(Join(early, late), R[j].log)
      BY <2>3, <3>4, <3>6, <3>8, SameConcat
    <3>11. Join(early, late) \in L
      BY <3>6, <3>8 DEF Logs, Joined
    <3>. QED BY <3>8, <3>9, <3>10, <3>11
  <2>5. \A f \in T[j] : Brings(x, L, o, f, p, R[j])
    BY <2>4 DEF Brings
  <2>. QED BY <2>1, <2>5
<1>7. P = 0..n
  <2>. P \in SUBSET (0..n)
    OBVIOUS
  <2>. HIDE DEF P
  <2>. QED BY <1>5, <1>6, InductTo
<1>. QED BY <1>3, <1>4, <1>7

\* Calls are the same as themselves.
LEMMA SameSelf == \A a : Same(a, a)
BY DEF Same

\* The item at the end of a record.
LEMMA EndGood ==
    ASSUME NEW x, NEW s, NEW o \in Spots(x.items), NEW e \in Behind(x.items, "recordEnd", s, o),
           NEW p \in Places, NEW rest \in Seq(Calls(x.wanted)), Good(x, e, p, rest)
    PROVE  /\ On(x.wanted, s, "recordEnd", 0) \in Seq(Calls(x.wanted))
           /\ Good(x, o, p, Join(On(x.wanted, s, "recordEnd", 0), rest))
<1>. DEFINE on == On(x.wanted, s, "recordEnd", 0)
<1>1. on \in Seq(Calls(x.wanted))
  <2>1. "recordEnd" \in Whats /\ 0 \in Told
    BY DEF Whats, Told
  <2>. QED BY <2>1, OnType
<1>2. /\ o \in DOMAIN x.items /\ x.items[o].op = "recordEnd" /\ x.items[o].node = s
      /\ e = o + x.items[o].ret
  BY DEF Behind
<1>3. EndStep(x, x.items[o], <<o, p, Join(on, rest)>>, <<e, p, rest>>)
  BY <1>2 DEF EndStep
<1>. HIDE DEF on
<1>4. Step(x, <<o, p, Join(on, rest)>>, <<e, p, rest>>)
  BY <1>2, <1>3 DEF Step
<1>5. Join(on, rest) \in Seq(Calls(x.wanted))
  BY <1>1, JoinType
<1>6. Good(x, o, p, Join(on, rest))
  BY <1>4, <1>5, GoodStep
<1>. QED BY <1>1, <1>6 DEF on

\* Where a record leads.
RecordExits(x, ways, s, o) ==
    IF s.id \in x.wanted
    THEN UNION {Behind(x.items, "recordEnd", s, f) : f \in Through(ways, o)}
    ELSE Through(ways, o)

\* A record, with its fields and the item at its end.
LEMMA RecordBrings ==
    ASSUME NEW x, Run(x), NEW L, Logs(x, L), NEW M, NEW n \in Nat, NEW s,
           \A calls \in L : Join(calls, On(x.wanted, s, "recordEnd", 0)) \in M,
           NEW ways \in [1..n -> Ways(x.items)],
           NEW readings \in [1..n -> Readings(Seq(Calls(x.wanted)))],
           \A i \in 1..n : Carries(x, L, ways[i], readings[i]),
           NEW o \in Spots(x.items), NEW e \in RecordExits(x, ways, s, o), NEW p \in Places
    PROVE  Brings(x, M, o, e, p, ReadRecord(x.wanted, readings, s)[p])
<1>. PICK on : on = On(x.wanted, s, "recordEnd", 0)
  OBVIOUS
<1>. PICK fields \in Reads(Seq(Calls(x.wanted))) : fields = InTurn(readings, p)
  BY AllCalls, InTurnType
<1>. PICK r : r = ReadRecord(x.wanted, readings, s)[p]
  OBVIOUS
<1>1. fields.at \in Places /\ fields.log \in Seq(Calls(x.wanted))
  BY ReadsParts
<1>2. on \in Seq(Calls(x.wanted))
  <2>1. "recordEnd" \in Whats /\ 0 \in Told
    BY DEF Whats, Told
  <2>. QED BY <2>1, OnType
<1>5. r.at = fields.at /\ r.log = Join(fields.log, on) /\ (r.ok => fields.ok)
  <2>1. r = Then(fields, Just(fields.at, on))
    BY DEF ReadRecord, Just
  <2>. PICK last : last = Just(fields.at, on)
    OBVIOUS
  <2>3. last \in Reads(Seq(Calls(x.wanted))) /\ last.at = fields.at /\ last.log = on
    BY <1>1, <1>2, JustCalls
  <2>2. /\ Then(fields, last).at = fields.at
        /\ Then(fields, last).log = Join(fields.log, last.log)
        /\ Then(fields, last).ok => fields.ok
    BY <2>3, AllCalls, AndThen
  <2>. QED BY <2>1, <2>2, <2>3
<1>6. \A f \in Through(ways, o) : Brings(x, L, o, f, p, fields)
  BY FieldsBring
<1>7. \A f \in Through(ways, o) : f \in Spots(x.items)
  <2>1. PICK T : Passes(T, x.items, n, ways, o)
    BY ThroughSteps
  <2>2. T \in [0..n -> SUBSET Spots(x.items)] /\ n \in 0..n /\ Through(ways, o) = T[n]
    BY <2>1 DEF Passes
  <2>. QED BY <2>2
<1>8. ASSUME NEW rest \in Seq(Calls(x.wanted)), r.ok, Good(x, e, r.at, rest)
      PROVE  \E calls \in M :
                Good(x, o, p, Join(calls, rest)) /\ Same(calls, r.log)
  <2>0. Good(x, e, fields.at, rest) /\ fields.ok
    BY <1>5, <1>8
  <2>1. CASE s.id \notin x.wanted
    <3>1. e \in Through(ways, o)
      BY <2>1 DEF RecordExits
    <3>2. on = <<>>
      BY <2>1 DEF On
    <3>3. r.log = fields.log
      BY <1>1, <1>5, <3>2, JoinEmpty
    <3>4. PICK calls \in L : Good(x, o, p, Join(calls, rest)) /\ Same(calls, fields.log)
      BY <1>6, <2>0, <3>1 DEF Brings
    <3>5. Join(calls, on) = calls
      BY <3>2, JoinEmpty DEF Logs
    <3>6. calls \in M
      BY <3>5
    <3>. QED BY <3>3, <3>4, <3>6
  <2>2. CASE s.id \in x.wanted
    <3>1. PICK f \in Through(ways, o) : e \in Behind(x.items, "recordEnd", s, f)
      BY <2>2 DEF RecordExits
    <3>. PICK last \in Seq(Calls(x.wanted)) : last = Join(on, rest)
      BY <1>2, JoinType
    <3>2. Good(x, f, fields.at, last)
      BY <1>1, <1>7, <2>0, <3>1, EndGood
    <3>3. PICK calls \in Seq(Calls(x.wanted)) :
             calls \in L /\ Good(x, o, p, Join(calls, last)) /\ Same(calls, fields.log)
      BY <1>6, <2>0, <3>2 DEF Brings, Logs
    <3>4. Join(calls, last) = Join(Join(calls, on), rest)
      BY <1>2, Regroup
    <3>5. Join(calls, on) \in M
      BY <3>3
    <3>6. Same(Join(calls, on), r.log)
      BY <1>1, <1>2, <1>5, <3>3, SameSelf, SameConcat
    <3>. QED BY <3>3, <3>4, <3>5, <3>6
  <2>. QED BY <2>1, <2>2
<1>. QED BY <1>8 DEF Brings

\* The calls for one node are calls.
LEMMA CallsOnType ==
    ASSUME NEW X, NEW calls \in Seq(X), NEW id
    PROVE  CallsOn(calls, id) \in Seq(X)
<1>1. PICK F : Sifts(F, X, calls, id)
  BY CallsOnSteps
<1>2. CallsOn(calls, id) = F[Len(calls)]
  BY <1>1, CallsOnSteps
<1>3. F \in [0..Len(calls) -> Seq(X)] /\ Len(calls) \in 0..Len(calls)
  BY <1>1, LenProperties DEF Sifts
<1>. QED BY <1>2, <1>3

\* What the predicates on a union are told of a branch.
Branched(wanted, s, b) == On(wanted, s, "setIsNull", s.of[b].kind = "null")

\* A branch is told to the predicates of its union, and to nobody else.
LEMMA BranchedCalls ==
    ASSUME NEW wanted, NEW s, NEW b
    PROVE  /\ Branched(wanted, s, b) \in Seq(Calls(wanted))
           /\ \A id : id # s.id => CallsOn(Branched(wanted, s, b), id) = <<>>
<1>. PICK isNull \in BOOLEAN : isNull = (s.of[b].kind = "null")
  OBVIOUS
<1>1. Branched(wanted, s, b) = On(wanted, s, "setIsNull", isNull)
  BY DEF Branched
<1>2. "setIsNull" \in Whats /\ isNull \in Told
  BY DEF Whats, Told
<1>3. On(wanted, s, "setIsNull", isNull) \in Seq(Calls(wanted))
  BY <1>2, OnType
<1>4. ASSUME NEW id, id # s.id PROVE CallsOn(On(wanted, s, "setIsNull", isNull), id) = <<>>
  <2>1. CASE s.id \in wanted
    <3>. PICK c : c = Call(s.id, "setIsNull", isNull)
      OBVIOUS
    <3>1. c \in Calls(wanted) /\ c.id = s.id
      BY <1>2, <2>1 DEF Call, Calls
    <3>2. CallsOn(<<c>>, id) = <<>>
      BY <1>4, <3>1, CallsOnFew
    <3>. QED BY <2>1, <3>2 DEF On
  <2>2. CASE s.id \notin wanted
    <3>1. On(wanted, s, "setIsNull", isNull) = <<>>
      BY <2>2 DEF On
    <3>. QED BY <3>1, CallsOnFew
  <2>. QED BY <2>1, <2>2
<1>. QED BY <1>1, <1>3, <1>4

\* To a node that the one is about and the others are not, it makes no difference
\* whether the one comes first or last.
LEMMA SameSwapped ==
    ASSUME NEW I, NEW J, NEW on \in Seq(Calls(I)), NEW calls \in Seq(Calls(I)),
           NEW inner \in Seq(Calls(I)), inner \in Seq(Calls(J)), Same(calls, inner),
           NEW own, own \notin J, \A id : id # own => CallsOn(on, id) = <<>>
    PROVE  Same(Join(on, calls), Join(inner, on))
<1>. SUFFICES ASSUME NEW id PROVE CallsOn(Join(on, calls), id) = CallsOn(Join(inner, on), id)
  BY DEF Same
<1>. PICK X : X = Calls(I)
  OBVIOUS
<1>0. ASSUME NEW u \in Seq(X), NEW v \in Seq(X)
      PROVE  CallsOn(Join(u, v), id) = Join(CallsOn(u, id), CallsOn(v, id))
  BY CallsOnConcat
<1>1. CallsOn(Join(on, calls), id) = Join(CallsOn(on, id), CallsOn(calls, id))
  BY <1>0
<1>2. CallsOn(Join(inner, on), id) = Join(CallsOn(inner, id), CallsOn(on, id))
  BY <1>0
<1>3. CallsOn(calls, id) = CallsOn(inner, id)
  BY DEF Same
<1>4. CallsOn(on, id) \in Seq(X) /\ CallsOn(inner, id) \in Seq(X)
  BY CallsOnType
<1>5. CallsOn(on, id) = <<>> \/ CallsOn(inner, id) = <<>>
  <2>1. CASE id = own
    BY <2>1, CallsOnFew
  <2>2. CASE id # own
    BY <2>2
  <2>. QED BY <2>1, <2>2
<1>6. ASSUME NEW u \in Seq(X) PROVE Join(u, <<>>) = u /\ Join(<<>>, u) = u
  BY JoinEmpty
<1>. QED BY <1>1, <1>2, <1>3, <1>4, <1>5, <1>6

\* A union that is read: the branch, and what is told of it.
BranchRead(wanted, in, readings, s, p, r, b, inner) ==
    /\ p <= Len(in) /\ b = in[p] + 1
    /\ inner = readings[b][p + 1] /\ inner.ok
    /\ r.at = inner.at
    /\ r.log = Join(inner.log, Branched(wanted, s, b))

\* A union that can be read has a branch of the number that stands there.
LEMMA UnionReads ==
    ASSUME NEW wanted, NEW in \in Seq(Int), NEW s,
           NEW readings \in [DOMAIN s.of -> Readings(Seq(Calls(wanted)))], NEW p \in Places,
           NEW r, r = ReadUnion(wanted, in, readings, s)[p], r.ok
    PROVE  \E b \in DOMAIN s.of, inner \in Reads(Seq(Calls(wanted))) :
              BranchRead(wanted, in, readings, s, p, r, b, inner)
<1>. PICK b : b = in[p] + 1
  OBVIOUS
<1>. PICK on : on = Branched(wanted, s, b)
  OBVIOUS
<1>. PICK inner : inner = readings[b][p + 1]
  OBVIOUS
<1>1. CASE p > Len(in) \/ b \notin DOMAIN s.of
  <2>1. r = Read(FALSE, p, <<>>)
    BY <1>1 DEF ReadUnion
  <2>2. r.ok = FALSE
    BY <2>1 DEF Read
  <2>. QED BY <2>2
<1>2. CASE ~(p > Len(in) \/ b \notin DOMAIN s.of)
  <2>1. r = Then(inner, Just(inner.at, on))
    BY <1>2 DEF ReadUnion, Just, Branched
  <2>2. p <= Len(in) /\ b \in DOMAIN s.of /\ p + 1 \in Places
    BY <1>2, LenProperties DEF Places
  <2>3. inner \in Reads(Seq(Calls(wanted)))
    BY <2>2 DEF Readings
  <2>4. on \in Seq(Calls(wanted)) /\ inner.at \in Places
    BY <2>3, BranchedCalls, ReadsParts
  <2>. PICK last : last = Just(inner.at, on)
    OBVIOUS
  <2>5. last \in Reads(Seq(Calls(wanted))) /\ last.at = inner.at /\ last.log = on
    <3>. PICK A : A = Seq(Calls(wanted))
      OBVIOUS
    <3>1. on \in A /\ inner.at \in Places
      BY <2>4
    <3>. QED BY ONLY <3>1, JustCalls, A = Seq(Calls(wanted)), last = Just(inner.at, on)
  <2>6. /\ Then(inner, last).at = inner.at
        /\ Then(inner, last).log = Join(inner.log, last.log)
        /\ Then(inner, last).ok => inner.ok
    BY <2>3, <2>5, AllCalls, AndThen
  <2>. QED BY <2>1, <2>2, <2>3, <2>5, <2>6 DEF BranchRead
<1>. QED BY <1>1, <1>2

\* A union: the item, and the branch behind it.
LEMMA UnionBrings ==
    ASSUME NEW x, Run(x), NodesApart, NEW s \in Nodes, s.kind = "union",
           NEW L, Logs(x, L), Tells(x.wanted, s, L),
           NEW ways \in [DOMAIN s.of -> Ways(x.items)],
           NEW readings \in [DOMAIN s.of -> Readings(Seq(Calls(x.wanted)))],
           \A i \in DOMAIN s.of : /\ Carries(x, L, ways[i], readings[i])
                                  /\ readings[i] \in Readings(Seq(Calls(Below(s.of[i])))),
           NEW o \in Spots(x.items), NEW e \in Branches(x.items, ways, s, o), NEW p \in Places
    PROVE  Brings(x, L, o, e, p, ReadUnion(x.wanted, x.in, readings, s)[p])
<1>. PICK r : r = ReadUnion(x.wanted, x.in, readings, s)[p]
  OBVIOUS
<1>. SUFFICES ASSUME NEW rest \in Seq(Calls(x.wanted)), r.ok, Good(x, e, r.at, rest)
              PROVE  \E calls \in L :
                        Good(x, o, p, Join(calls, rest)) /\ Same(calls, r.log)
  BY DEF Brings
<1>. PICK b \in DOMAIN s.of, inner \in Reads(Seq(Calls(x.wanted))) :
         BranchRead(x.wanted, x.in, readings, s, p, r, b, inner)
  BY UnionReads DEF Run
<1>. PICK on : on = Branched(x.wanted, s, b)
  OBVIOUS
<1>1. /\ p <= Len(x.in) /\ b \in DOMAIN s.of
      /\ inner \in Reads(Seq(Calls(x.wanted)))
      /\ r.at = inner.at /\ inner.ok
      /\ r.log = Join(inner.log, on)
      /\ b = x.in[p] + 1 /\ inner = readings[b][p + 1]
  BY DEF BranchRead
<1>2. on \in Seq(Calls(x.wanted)) /\ \A id : id # s.id => CallsOn(on, id) = <<>>
  BY BranchedCalls
<1>3. inner.log \in Seq(Calls(x.wanted)) /\ inner.at \in Places /\ p + 1 \in Places
  BY <1>1, ReadsParts DEF Places
<1>4. inner.log \in Seq(Calls(Below(s.of[b]))) /\ s.id \notin Below(s.of[b])
  <2>1. s.of[b] \in Nodes
    BY <1>1, NodeFacts
  <2>2. inner \in Reads(Seq(Calls(Below(s.of[b]))))
    <3>1. readings[b] \in [Places -> Reads(Seq(Calls(Below(s.of[b]))))]
      BY <1>1 DEF Readings
    <3>. QED BY <1>1, <1>3, <3>1
  <2>3. s.id \notin Below(s.of[b])
    BY <1>1 DEF NodesApart
  <2>. QED BY <2>2, <2>3, ReadsParts
<1>5. PICK to \in Spots(x.items) :
        /\ o \in DOMAIN x.items /\ x.items[o].op = "union" /\ x.items[o].node = s
        /\ b \in DOMAIN x.items[o].skipping
        /\ to = o + x.items[o].skipping[b]
        /\ \E last \in ways[b][to] : e \in Past(x.items, last)
  BY <1>1 DEF Branches
<1>6. PICK last \in ways[b][to] : e \in Past(x.items, last)
  BY <1>5
<1>7. last \in Spots(x.items)
  <2>1. ways[b] \in [Spots(x.items) -> SUBSET Spots(x.items)]
    BY <1>1 DEF Ways
  <2>. QED BY <2>1
<1>8. Good(x, last, inner.at, rest)
  <2>1. Good(x, e, inner.at, rest)
    BY <1>1
  <2>. QED BY <2>1, <1>6, <1>7, GoodPast
<1>9. Brings(x, L, to, last, p + 1, inner)
  BY <1>1, <1>3, <1>6 DEF Carries
<1>10. PICK calls \in Seq(Calls(x.wanted)) :
          calls \in L /\ Good(x, to, p + 1, Join(calls, rest)) /\ Same(calls, inner.log)
  BY <1>1, <1>8, <1>9 DEF Brings, Logs
<1>. PICK next \in Seq(Calls(x.wanted)) : next = Join(calls, rest)
  BY JoinType
<1>11. Join(on, next) \in Seq(Calls(x.wanted)) /\ Join(on, calls) \in L
  <2>1. Join(on, next) \in Seq(Calls(x.wanted))
    BY <1>2, JoinType
  <2>2. on \in L
    <3>. PICK isNull \in BOOLEAN : isNull = (s.of[b].kind = "null")
      OBVIOUS
    <3>1. "setIsNull" \in Whats /\ isNull \in Told
      BY DEF Whats, Told
    <3>2. on = On(x.wanted, s, "setIsNull", isNull)
      BY DEF Branched
    <3>. QED BY <3>1, <3>2 DEF Tells
  <2>. QED BY <1>10, <2>1, <2>2 DEF Logs, Joined
<1>12. Good(x, o, p, Join(on, next))
  <2>1. BranchStep(x, x.items[o], <<o, p, Join(on, next)>>, <<to, p + 1, next>>)
    BY <1>1, <1>5 DEF BranchStep, Branched
  <2>2. Step(x, <<o, p, Join(on, next)>>, <<to, p + 1, next>>)
    BY <1>5, <2>1 DEF Step
  <2>. QED BY <1>10, <1>11, <2>2, GoodStep
<1>13. Join(on, next) = Join(Join(on, calls), rest)
  BY <1>2, Regroup
<1>14. Same(Join(on, calls), r.log)
  BY <1>1, <1>2, <1>3, <1>4, <1>10, SameSwapped
<1>. QED BY <1>11, <1>12, <1>13, <1>14

\* A null: nothing is read.
LEMMA NullBrings ==
    ASSUME NEW x, Run(x), NEW L, Logs(x, L),
           NEW o \in Spots(x.items), NEW e \in Past(x.items, o), NEW p \in Places
    PROVE  Brings(x, L, o, e, p, Just(p, <<>>))
<1>1. Just(p, <<>>).at = p /\ Just(p, <<>>).log = <<>>
  BY DEF Just, Read
<1>. SUFFICES ASSUME NEW rest \in Seq(Calls(x.wanted)), Good(x, e, p, rest)
              PROVE  \E calls \in L :
                        Good(x, o, p, Join(calls, rest)) /\ Same(calls, <<>>)
  BY <1>1 DEF Brings
<1>2. Good(x, o, p, rest)
  BY GoodPast
<1>3. Join(<<>>, rest) = rest /\ <<>> \in L
  BY JoinEmpty DEF Logs, Joined
<1>. QED BY <1>2, <1>3 DEF Same

\* The logs for a node, made of those of its children.
Made(wanted, s, L, M) ==
    IF s.kind = "record" THEN \A calls \in L : Join(calls, On(wanted, s, "recordEnd", 0)) \in M
                         ELSE L = M /\ Tells(wanted, s, L)

\* A node, if its children are carried.
LEMMA NodeBrings ==
    ASSUME NEW x, Run(x), NodesApart, NEW s \in Nodes,
           NEW L, Logs(x, L), NEW M, Logs(x, M), Made(x.wanted, s, L, M),
           NEW ways \in [DOMAIN s.of -> Ways(x.items)],
           NEW readings \in [DOMAIN s.of -> Readings(Seq(Calls(x.wanted)))],
           \A i \in DOMAIN s.of : /\ Carries(x, L, ways[i], readings[i])
                                  /\ readings[i] \in Readings(Seq(Calls(Below(s.of[i])))),
           decodeDocument(x.wanted, x.in)[s] = ReadNode(x.wanted, x.in, readings, s),
           decodeDocument(x.wanted, x.in)[s] \in Readings(M)
    PROVE  Carries(x, M, ExitsOf(x.items, x.wanted, ways, s),
                   ReadNode(x.wanted, x.in, readings, s))
<1>. PICK n \in Nat : n = Len(s.of) /\ DOMAIN s.of = 1..n
  BY NodeFacts
<1>. PICK E : E = ExitsOf(x.items, x.wanted, ways, s)
  OBVIOUS
<1>. PICK D : D = ReadNode(x.wanted, x.in, readings, s)
  OBVIOUS
<1>. SUFFICES ASSUME NEW o \in Spots(x.items), NEW e \in E[o], NEW p \in Places
              PROVE  Brings(x, M, o, e, p, D[p])
  BY DEF Carries
<1>0. s.kind # "record" => L = M /\ Tells(x.wanted, s, L)
  BY DEF Made
<1>8. decodeDocument(x.wanted, x.in)[s][p] \in Reads(M)
  BY DEF Readings
<1>1. CASE s.kind = "null"
  <2>1. e \in Past(x.items, o)
    BY <1>1 DEF ExitsOf
  <2>2. D[p] = Just(p, <<>>)
    BY <1>1 DEF ReadNode, Just
  <2>. QED BY <2>1, <2>2, NullBrings
<1>2. CASE s.kind = "leaf"
  <2>1. e \in Behind(x.items, "value", s, o)
    BY <1>2 DEF ExitsOf
  <2>. QED BY <1>8, <2>1, ValueBrings
<1>3. CASE s.kind = "custom"
  <2>1. e \in ways[1][o] /\ D = readings[1] /\ 1 \in DOMAIN s.of
    BY <1>3, NodeFacts DEF ExitsOf, ReadNode
  <2>2. Carries(x, M, ways[1], readings[1])
    BY <1>0, <1>3, <2>1
  <2>. QED BY <2>1, <2>2 DEF Carries
<1>4. CASE s.kind = "record"
  <2>1. e \in RecordExits(x, ways, s, o)
    BY <1>4 DEF ExitsOf, RecordExits
  <2>2. D = ReadRecord(x.wanted, readings, s)
    BY <1>4 DEF ReadNode
  <2>4. \A calls \in L : Join(calls, On(x.wanted, s, "recordEnd", 0)) \in M
    BY <1>4 DEF Made
  <2>3. Brings(x, M, o, e, p, ReadRecord(x.wanted, readings, s)[p])
    BY <2>1, <2>4, RecordBrings
  <2>. QED BY <2>2, <2>3
<1>5. CASE s.kind = "union"
  <2>1. e \in Branches(x.items, ways, s, o)
    BY <1>5 DEF ExitsOf
  <2>2. D = ReadUnion(x.wanted, x.in, readings, s)
    BY <1>5 DEF ReadNode
  <2>3. Brings(x, L, o, e, p, ReadUnion(x.wanted, x.in, readings, s)[p])
    BY <1>0, <1>5, <2>1, UnionBrings
  <2>. QED BY <1>0, <1>5, <2>2, <2>3
<1>6. CASE s.kind \in {"array", "map"}
  <2>1. e \in Behind(x.items, "chunks", s, o)
    BY <1>6 DEF ExitsOf
  <2>. QED BY <1>8, <2>1, ValueBrings
<1>. QED BY <1>1, <1>2, <1>3, <1>4, <1>5, <1>6, NodeFacts DEF Kinds

\* For each node the logs that it is read with, made of those of its children.
Fits(x, F) ==
    \A s \in Nodes :
        /\ Logs(x, F[s])
        /\ decodeDocument(x.wanted, x.in)[s] \in Readings(F[s])
        /\ \E L : /\ Logs(x, L) /\ Made(x.wanted, s, L, F[s])
                  /\ \A i \in DOMAIN s.of : F[s.of[i]] \subseteq L

\* From a spot to where a node leads, the loop reads what the recursive reading of the
\* node reads, with logs that fit.
LEMMA NodeCarries ==
    ASSUME NEW x, Run(x), NodesApart, NEW F, Fits(x, F)
    PROVE  \A s \in Nodes :
              Carries(x, F[s], Exits(x.items, x.wanted)[s], decodeDocument(x.wanted, x.in)[s])
<1>. PICK E : E = Exits(x.items, x.wanted)
  OBVIOUS
<1>. PICK D : D = decodeDocument(x.wanted, x.in)
  OBVIOUS
<1>. DEFINE P == {s \in Nodes : Carries(x, F[s], E[s], D[s])}
<1>1. ASSUME NEW s \in Nodes, \A y \in Nodes : Depth[y] < Depth[s] => y \in P
      PROVE  s \in P
  <2>. PICK ways : ways = [i \in DOMAIN s.of |-> E[s.of[i]]]
    OBVIOUS
  <2>. PICK readings : readings = [i \in DOMAIN s.of |-> D[s.of[i]]]
    OBVIOUS
  <2>1. /\ E \in [Nodes -> Ways(x.items)]
        /\ E[s] = ExitsOf(x.items, x.wanted, ways, s)
    BY ExitsNodes
  <2>2. /\ D \in [Nodes -> Readings(Seq(Calls(x.wanted)))]
        /\ D[s] = ReadNode(x.wanted, x.in, readings, s)
    BY DecodeNodes DEF Run
  <2>6. PICK L : /\ Logs(x, L) /\ Made(x.wanted, s, L, F[s])
                 /\ \A i \in DOMAIN s.of : F[s.of[i]] \subseteq L
    BY DEF Fits
  <2>7. Logs(x, F[s]) /\ D[s] \in Readings(F[s])
    BY DEF Fits
  <2>3. ASSUME NEW i \in DOMAIN s.of
        PROVE  /\ ways[i] \in Ways(x.items) /\ readings[i] \in Readings(Seq(Calls(x.wanted)))
               /\ Carries(x, L, ways[i], readings[i])
               /\ readings[i] \in Readings(Seq(Calls(Below(s.of[i]))))
    <3>1. s.of[i] \in Nodes /\ Depth[s.of[i]] < Depth[s]
      BY NodeFacts
    <3>2. ways[i] = E[s.of[i]] /\ readings[i] = D[s.of[i]]
      OBVIOUS
    <3>3. s.of[i] \in P
      BY <1>1, <3>1
    <3>4. D[s.of[i]] \in Readings(Seq(Calls(Below(s.of[i]))))
      BY <3>1, DecodeBelow DEF Run
    <3>5. Carries(x, L, E[s.of[i]], D[s.of[i]])
      BY <2>6, <3>3 DEF Carries, Brings
    <3>. QED BY <2>1, <2>2, <3>1, <3>2, <3>4, <3>5
  <2>4. /\ ways \in [DOMAIN s.of -> Ways(x.items)]
        /\ readings \in [DOMAIN s.of -> Readings(Seq(Calls(x.wanted)))]
    BY <2>3
  <2>5. Carries(x, F[s], ExitsOf(x.items, x.wanted, ways, s),
                ReadNode(x.wanted, x.in, readings, s))
    BY <2>2, <2>3, <2>4, <2>6, <2>7, NodeBrings
  <2>. QED BY <2>1, <2>2, <2>5
<1>2. P = Nodes
  <2>1. P \in SUBSET Nodes
    OBVIOUS
  <2>. HIDE DEF P
  <2>. QED BY SMTT(30), <1>1, <2>1, DepthType, RankInduct
<1>. QED BY <1>2

\* All calls fit.
LEMMA AllFit ==
    ASSUME NEW x, Run(x)
    PROVE  Fits(x, [s \in Nodes |-> Seq(Calls(x.wanted))])
<1>. PICK A : A = Seq(Calls(x.wanted))
  OBVIOUS
<1>1. Logs(x, A)
  BY AllCalls DEF Logs
<1>2. ASSUME NEW s \in Nodes
      PROVE  decodeDocument(x.wanted, x.in)[s] \in Readings(A) /\ Made(x.wanted, s, A, A)
  <2>1. decodeDocument(x.wanted, x.in)[s] \in Readings(A)
    BY DecodeNodes DEF Run
  <2>2. Tells(x.wanted, s, A)
    BY AllCalls
  <2>3. On(x.wanted, s, "recordEnd", 0) \in A
    BY <2>2 DEF Tells, Whats, Told
  <2>. QED BY <1>1, <2>1, <2>2, <2>3 DEF Made, Logs, Joined
<1>3. ASSUME NEW s \in Nodes
      PROVE  \A i \in DOMAIN s.of : [t \in Nodes |-> A][s.of[i]] = A
  BY NodeFacts
<1>. QED BY <1>1, <1>2, <1>3 DEF Fits

\* And so do the logs in which a record that the filter looks into ends last.
LEMMA TidyFit ==
    ASSUME NEW x, Run(x), NodesApart, NEW q \in Nodes, q.kind = "record", q.id \in x.wanted
    PROVE  Fits(x, [s \in Nodes |-> LogsFor(x.wanted, q, s)])
<1>. DEFINE F == [s \in Nodes |-> LogsFor(x.wanted, q, s)]
<1>. PICK A : A = Seq(Calls(x.wanted))
  OBVIOUS
<1>. PICK T : T = Tidy(x.wanted, q)
  OBVIOUS
<1>1. Logs(x, A) /\ Logs(x, T)
  BY AllCalls, TidyLogs DEF Logs, Tidy
<1>2. \A s \in Nodes : F[s] = IF Clear(q, s) THEN T ELSE A
  BY DEF LogsFor
<1>3. \A s \in Nodes : decodeDocument(x.wanted, x.in)[s] \in Readings(F[s])
  BY DecodeTidy DEF Run
<1>4. T \subseteq A
  BY <1>1 DEF Logs
<1>. HIDE DEF F
<1>5. ASSUME NEW s \in Nodes
      PROVE  \E L : /\ Logs(x, L) /\ Made(x.wanted, s, L, F[s])
                    /\ \A i \in DOMAIN s.of : F[s.of[i]] \subseteq L
  <2>1. \A i \in DOMAIN s.of : F[s.of[i]] \subseteq A
    BY <1>2, <1>4, NodeFacts
  <2>2. CASE ~Clear(q, s)
    <3>1. Tells(x.wanted, s, A)
      BY AllCalls
    <3>2. On(x.wanted, s, "recordEnd", 0) \in A
      BY <3>1 DEF Tells, Whats, Told
    <3>3. Made(x.wanted, s, A, A)
      BY <1>1, <3>1, <3>2 DEF Made, Logs, Joined
    <3>. QED BY <1>1, <1>2, <2>1, <2>2, <3>3
  <2>3. CASE s = q
    <3>1. F[s] = T
      BY <1>2, <2>3, TreeNodes DEF Clear
    <3>2. Made(x.wanted, s, A, T)
      BY <2>3, EndedLast DEF Made
    <3>. QED BY <1>1, <2>1, <3>1, <3>2
  <2>4. CASE Clear(q, s) /\ s # q
    <3>1. s.id \notin Below(q) /\ \A i \in DOMAIN s.of : Clear(q, s.of[i])
      BY <2>4, ClearBelow
    <3>2. Tells(x.wanted, s, T)
      BY <3>1, TellsOutside
    <3>3. On(x.wanted, s, "recordEnd", 0) \in T
      BY <3>2 DEF Tells, Whats, Told
    <3>4. Made(x.wanted, s, T, T)
      BY <1>1, <3>2, <3>3 DEF Made, Logs, Joined
    <3>5. \A i \in DOMAIN s.of : F[s.of[i]] = T
      BY <1>2, <3>1, NodeFacts
    <3>. QED BY <1>1, <1>2, <2>4, <3>4, <3>5
  <2>. QED BY <2>2, <2>3, <2>4
<1>6. \A s \in Nodes : Logs(x, F[s])
  BY <1>1, <1>2
<1>7. Fits(x, F)
  BY <1>3, <1>5, <1>6 DEF Fits
<1>. QED BY <1>7 DEF F

-----------------------------------------------------------------------------
(* What the compiler makes                                                   *)

\* What a node is compiled to, for a distance and for every distance.
Code == [items : Seq(Items), size : Nat]
Codes == [Nat -> Code]

\* A code is made of its parts.
LEMMA CodeParts ==
    ASSUME NEW items \in Seq(Items), NEW size \in Nat
    PROVE  /\ Compiled(items, size) \in Code
           /\ Compiled(items, size).items = items /\ Compiled(items, size).size = size
BY DEF Compiled, Code

\* An item is one of a list.
LEMMA ItemType ==
    ASSUME NEW op \in Ops, NEW s \in Nodes, NEW ret \in Nat, NEW skipping \in Seq(Nat)
    PROVE  Item(op, s, ret, skipping) \in Items /\ <<Item(op, s, ret, skipping)>> \in Seq(Items)
<1>1. Item(op, s, ret, skipping) \in Items
  BY DEF Item, Items
<1>. QED BY <1>1

\* The fields that are compiled up to each of them.
Added(before, last) == Compiled(Join(before.items, last.items), before.size + last.size)

Fields(F, compiled, ss) ==
    /\ F \in [0..Len(ss) -> Code]
    /\ F[0] = Compiled(<<>>, 0)
    /\ \A i \in 1..Len(ss) : F[i] = Added(F[i - 1], compiled[ss[i]][1])

\* The code of a field behind that of the fields before it is code.
LEMMA AddedType ==
    ASSUME NEW before \in Code, NEW last \in Code
    PROVE  Added(before, last) \in Code
<1>1. before.items \in Seq(Items) /\ last.items \in Seq(Items) /\ before.size \in Nat /\ last.size \in Nat
  BY DEF Code
<1>2. Join(before.items, last.items) \in Seq(Items) /\ before.size + last.size \in Nat
  BY <1>1, JoinType
<1>. QED BY <1>2, CodeParts DEF Added

\* The items are those of both.
LEMMA AddedItems ==
    ASSUME NEW before, NEW last
    PROVE  Added(before, last).items = Join(before.items, last.items)
BY DEF Added, Compiled

\* Fields, step by step.
LEMMA FieldsSteps ==
    ASSUME NEW ss, NEW n \in Nat, n = Len(ss), NEW compiled,
           \A i \in 1..n : compiled[ss[i]] \in Codes
    PROVE  /\ \E F : Fields(F, compiled, ss)
           /\ \A F : Fields(F, compiled, ss) => CompileFields(compiled, ss) = F[n]
<1>. DEFINE Next(i, r) == Added(r, compiled[ss[i]][1])
            step == [pair \in (1..n) \X Code |-> Next(pair[1], pair[2])]
<1>1. \A i \in 1..n, r \in Code : Next(i, r) \in Code
  BY AddedType DEF Codes
<1>2. Compiled(<<>>, 0) \in Code
  <2>1. <<>> \in Seq(Items) /\ 0 \in Nat
    OBVIOUS
  <2>. QED BY <2>1, CodeParts
<1>. HIDE DEF Next
<1>3. step \in [(1..n) \X Code -> Code]
  BY <1>1
<1>4. \A i \in 1..n, r \in Code : step[<<i, r>>] = Next(i, r)
  OBVIOUS
<1>. HIDE DEF step
<1>5. PICK f : RecursiveTo(f, n, Code, Compiled(<<>>, 0), step)
  BY <1>2, <1>3, RecursionTo
<1>6. /\ f \in [0..n -> Code] /\ f[0] = Compiled(<<>>, 0)
      /\ \A i \in 1..n : f[i] = Next(i, f[i - 1])
  <2>1. /\ f \in [0..n -> Code] /\ f[0] = Compiled(<<>>, 0)
        /\ \A i \in 1..n : f[i] = step[<<i, f[i - 1]>>]
    BY <1>5 DEF RecursiveTo
  <2>2. \A i \in 1..n : f[i - 1] \in Code
    BY <2>1
  <2>. QED BY <1>4, <2>1, <2>2
<1>7. Fields(f, compiled, ss)
  BY <1>6 DEF Fields, Next
<1>. DEFINE Body(g, i) == IF i = 0 THEN Compiled(<<>>, 0) ELSE Added(g[i - 1], compiled[ss[i]][1])
            Is(g) == g = [i \in 0..n |-> Body(g, i)]
            u == CHOOSE g : Is(g)
<1>8. ASSUME NEW F, Fields(F, compiled, ss) PROVE \A i \in 0..n : F[i] = Body(F, i)
  <2>. TAKE i \in 0..n
  <2>1. CASE i = 0
    BY <1>8, <2>1 DEF Fields
  <2>2. CASE i # 0
    <3>1. i \in 1..n
      BY <2>2
    <3>. QED BY <1>8, <2>2, <3>1 DEF Fields
  <2>. QED BY <2>1, <2>2
<1>9. Is(f)
  <2>1. f = [i \in 0..n |-> f[i]]
    BY <1>6
  <2>2. \A i \in 0..n : f[i] = Body(f, i)
    BY <1>7, <1>8
  <2>. HIDE DEF Body
  <2>. QED BY <2>1, <2>2
<1>10. CompileFields(compiled, ss) = u[n]
  BY DEF CompileFields, Added, Join
<1>. HIDE DEF Body
<1>11. Is(u)
  BY <1>9
<1>. HIDE DEF u
<1>12. \A i \in 0..n : u[i] = Body(u, i)
  BY <1>11
<1>13. ASSUME NEW F, Fields(F, compiled, ss) PROVE u[n] = F[n]
  <2>. DEFINE P == {i \in 0..n : u[i] = F[i]}
  <2>1. 0 \in P
    <3>1. u[0] = Body(u, 0) /\ F[0] = Body(F, 0) /\ 0 \in 0..n
      BY <1>8, <1>12, <1>13
    <3>. QED BY <3>1 DEF Body
  <2>2. ASSUME NEW i \in P, i < n PROVE i + 1 \in P
    <3>1. i + 1 \in 0..n /\ i + 1 # 0 /\ (i + 1) - 1 = i /\ u[i] = F[i]
      BY <2>2
    <3>2. u[i + 1] = Body(u, i + 1) /\ F[i + 1] = Body(F, i + 1)
      BY <1>8, <1>12, <1>13, <3>1
    <3>. QED BY <3>1, <3>2 DEF Body
  <2>3. P = 0..n
    <3>. P \in SUBSET (0..n)
      OBVIOUS
    <3>. HIDE DEF P
    <3>. QED BY <2>1, <2>2, InductTo
  <2>. QED BY <2>3
<1>. QED BY <1>7, <1>10, <1>13

\* The branches from each of them on, with what they step over.
Parts(ret) == {q \in [items : Seq(Items), left : Nat, skipping : Seq(Nat)] : q.left >= ret}

Part(items, left, skipping) == [items |-> items, left |-> left, skipping |-> skipping]

Put(first, rest, ret) ==
    Part(Join(first.items, rest.items), rest.left + first.size,
         Append(rest.skipping, (rest.left + first.size) - ret))

LastPart(F, compiled, ss, ret) ==
    /\ F \in [1..(Len(ss) + 1) -> Parts(ret)]
    /\ F[Len(ss) + 1] = Part(<<>>, ret, <<>>)
    /\ \A i \in 1..Len(ss) : F[i] = Put(compiled[ss[i]][F[i + 1].left], F[i + 1], ret)

\* A part is made of its parts.
LEMMA PartParts ==
    ASSUME NEW ret \in Nat, NEW items \in Seq(Items), NEW left \in Nat, left >= ret,
           NEW skipping \in Seq(Nat)
    PROVE  /\ Part(items, left, skipping) \in Parts(ret)
           /\ Part(items, left, skipping).items = items
           /\ Part(items, left, skipping).left = left
           /\ Part(items, left, skipping).skipping = skipping
BY DEF Part, Parts

\* A branch before the others.
LEMMA PutType ==
    ASSUME NEW ret \in Nat, NEW rest \in Parts(ret), NEW first \in Code
    PROVE  Put(first, rest, ret) \in Parts(ret)
<1>1. /\ rest.items \in Seq(Items) /\ rest.left \in Nat /\ rest.left >= ret
      /\ rest.skipping \in Seq(Nat)
  BY DEF Parts
<1>2. first.items \in Seq(Items) /\ first.size \in Nat
  BY DEF Code
<1>. PICK skipping : skipping = Append(rest.skipping, (rest.left + first.size) - ret)
  OBVIOUS
<1>3. skipping \in Seq(Nat)
  <2>1. (rest.left + first.size) - ret \in Nat
    BY <1>1, <1>2
  <2>. QED BY <1>1, <2>1
<1>. PICK items \in Seq(Items) : items = Join(first.items, rest.items)
  BY <1>1, <1>2, JoinType
<1>. PICK left \in Nat : left = rest.left + first.size
  BY <1>1, <1>2
<1>4. left >= ret
  BY <1>1, <1>2
<1>5. Put(first, rest, ret) = Part(items, left, skipping)
  BY DEF Put
<1>6. Part(items, left, skipping) \in Parts(ret)
  BY <1>3, <1>4, PartParts
<1>. QED BY <1>5, <1>6

\* The branches, step by step from the last.
LEMMA BranchesSteps ==
    ASSUME NEW ss, NEW n \in Nat, n = Len(ss), NEW compiled, NEW ret \in Nat,
           \A i \in 1..n : compiled[ss[i]] \in Codes
    PROVE  /\ \E F : LastPart(F, compiled, ss, ret)
           /\ \A F : LastPart(F, compiled, ss, ret) => CompileBranches(compiled, ss, ret) = F[1]
<1>. DEFINE S == Parts(ret)
            base == Part(<<>>, ret, <<>>)
            Next(j, r) == Put(compiled[ss[n + 1 - j]][r.left], r, ret)
            step == [pair \in (1..n) \X S |-> Next(pair[1], pair[2])]
<1>1. \A j \in 1..n, r \in S : Next(j, r) \in S
  <2>1. \A j \in 1..n : n + 1 - j \in 1..n
    OBVIOUS
  <2>2. \A r \in S : r.left \in Nat
    BY DEF Parts
  <2>. QED BY <2>1, <2>2, PutType DEF Codes
<1>2. base \in S
  <2>1. <<>> \in Seq(Items) /\ <<>> \in Seq(Nat) /\ ret >= ret
    OBVIOUS
  <2>. QED BY <2>1, PartParts
<1>. HIDE DEF Next, S, base
<1>3. step \in [(1..n) \X S -> S]
  BY <1>1
<1>4. \A j \in 1..n, r \in S : step[<<j, r>>] = Next(j, r)
  OBVIOUS
<1>. HIDE DEF step
<1>5. PICK f : RecursiveTo(f, n, S, base, step)
  BY <1>2, <1>3, RecursionTo
<1>6. f \in [0..n -> S] /\ f[0] = base /\ \A j \in 1..n : f[j] = Next(j, f[j - 1])
  <2>1. f \in [0..n -> S] /\ f[0] = base /\ \A j \in 1..n : f[j] = step[<<j, f[j - 1]>>]
    BY <1>5 DEF RecursiveTo
  <2>2. \A j \in 1..n : f[j - 1] \in S
    BY <2>1
  <2>. QED BY <1>4, <2>1, <2>2
<1>. DEFINE h == [i \in 1..(n + 1) |-> f[n + 1 - i]]
<1>7. h \in [1..(n + 1) -> S] /\ h[n + 1] = base
  <2>1. \A i \in 1..(n + 1) : n + 1 - i \in 0..n
    OBVIOUS
  <2>2. h[n + 1] = f[0]
    OBVIOUS
  <2>. QED BY <2>1, <2>2, <1>6
<1>8. \A i \in 1..n : h[i] = Put(compiled[ss[i]][h[i + 1].left], h[i + 1], ret)
  <2>. TAKE i \in 1..n
  <2>. PICK j \in 1..n : j = n + 1 - i
    OBVIOUS
  <2>1. n + 1 - j = i /\ n + 1 - (i + 1) = j - 1 /\ i \in 1..(n + 1) /\ i + 1 \in 1..(n + 1)
    OBVIOUS
  <2>2. h[i] = f[j] /\ h[i + 1] = f[j - 1]
    BY <2>1
  <2>3. f[j] = Next(j, f[j - 1])
    BY <1>6
  <2>. QED BY <2>1, <2>2, <2>3 DEF Next
<1>. HIDE DEF h
<1>9. LastPart(h, compiled, ss, ret)
  BY <1>7, <1>8 DEF LastPart, S, base
<1>. DEFINE Body(g, i) == IF i > Len(ss) THEN base
                          ELSE Put(compiled[ss[i]][g[i + 1].left], g[i + 1], ret)
            Is(g) == g = [i \in 1..(Len(ss) + 1) |-> Body(g, i)]
            u == CHOOSE g : Is(g)
<1>12. CompileBranches(compiled, ss, ret) = u[1]
  BY DEF CompileBranches, Put, Part, Join, base
<1>. HIDE DEF Body, base
<1>0. \A g, i : Body(g, i) = IF i > n THEN base
                           ELSE Put(compiled[ss[i]][g[i + 1].left], g[i + 1], ret)
  BY DEF Body
<1>10. ASSUME NEW F, LastPart(F, compiled, ss, ret) PROVE \A i \in 1..(n + 1) : F[i] = Body(F, i)
  <2>. TAKE i \in 1..(n + 1)
  <2>1. CASE i > n
    <3>1. i = n + 1
      BY <2>1
    <3>. QED BY <1>0, <1>10, <2>1, <3>1 DEF LastPart, base
  <2>2. CASE ~(i > n)
    <3>1. i \in 1..n
      BY <2>2
    <3>. QED BY <1>0, <1>10, <2>2, <3>1 DEF LastPart
  <2>. QED BY <2>1, <2>2
<1>11. Is(h)
  <2>1. h = [i \in 1..(n + 1) |-> h[i]]
    BY <1>7
  <2>2. \A i \in 1..(n + 1) : h[i] = Body(h, i)
    BY <1>9, <1>10
  <2>. HIDE DEF Body
  <2>. QED BY <2>1, <2>2
<1>13. Is(u)
  BY <1>11
<1>. HIDE DEF u
<1>14. \A i \in 1..(n + 1) : u[i] = Body(u, i)
  BY <1>13
<1>15. ASSUME NEW F, LastPart(F, compiled, ss, ret) PROVE u[1] = F[1]
  <2>. DEFINE P == {j \in 0..n : u[n + 1 - j] = F[n + 1 - j]}
  <2>1. 0 \in P
    <3>1. n + 1 - 0 = n + 1 /\ n + 1 \in 1..(n + 1) /\ n + 1 > n /\ 0 \in 0..n
      OBVIOUS
    <3>2. u[n + 1] = Body(u, n + 1) /\ F[n + 1] = Body(F, n + 1)
      BY <1>10, <1>14, <1>15, <3>1
    <3>. QED BY <1>0, <3>1, <3>2
  <2>2. ASSUME NEW j \in P, j < n PROVE j + 1 \in P
    <3>. PICK i \in 1..n : i = n - j
      BY <2>2
    <3>1. /\ j + 1 \in 0..n /\ n + 1 - (j + 1) = i /\ i \in 1..(n + 1) /\ ~(i > n)
          /\ n + 1 - j = i + 1 /\ u[i + 1] = F[i + 1]
      BY <2>2
    <3>2. u[i] = Body(u, i) /\ F[i] = Body(F, i)
      BY <1>10, <1>14, <1>15, <3>1
    <3>. QED BY <1>0, <3>1, <3>2
  <2>3. P = 0..n
    <3>. P \in SUBSET (0..n)
      OBVIOUS
    <3>. HIDE DEF P
    <3>. QED BY <2>1, <2>2, InductTo
  <2>4. n \in P /\ n + 1 - n = 1
    BY <2>3
  <2>. QED BY <2>4
<1>. QED BY <1>9, <1>12, <1>15

\* The code of a node needs only the codes of its children.
LEMMA CodeOfNode ==
    ASSUME NEW wanted, NEW s \in Nodes, NEW ret \in Nat, NEW g, NEW h,
           \A i \in DOMAIN s.of : g[s.of[i]] \in Codes /\ g[s.of[i]] = h[s.of[i]]
    PROVE  /\ CompileForFilter(g, wanted, s, ret) \in Code
           /\ CompileForFilter(g, wanted, s, ret) = CompileForFilter(h, wanted, s, ret)
<1>. PICK n \in Nat : n = Len(s.of) /\ DOMAIN s.of = 1..n
  BY NodeFacts
<1>1. CASE s.kind = "union"
  <2>1. PICK F : LastPart(F, g, s.of, ret)
    BY BranchesSteps
  <2>2. LastPart(F, h, s.of, ret)
    BY <2>1 DEF LastPart
  <2>. PICK part : part = CompileBranches(g, s.of, ret)
    OBVIOUS
  <2>3. part = F[1]
    BY <2>1, BranchesSteps
  <2>4. part = CompileBranches(h, s.of, ret)
    BY <2>2, <2>3, BranchesSteps
  <2>5. part \in Parts(ret)
    BY <2>1, <2>3 DEF LastPart
  <2>6. /\ part.items \in Seq(Items) /\ part.left \in Nat /\ part.skipping \in Seq(Nat)
    BY <2>5 DEF Parts
  <2>7. <<Item("union", s, ret, part.skipping)>> \in Seq(Items)
    BY <2>6, ItemType DEF Ops
  <2>. PICK code : code = Compiled(Join(<<Item("union", s, ret, part.skipping)>>, part.items), part.left)
    OBVIOUS
  <2>8. code \in Code
    BY <2>6, <2>7, JoinType, CodeParts
  <2>9. CompileForFilter(g, wanted, s, ret) = code
    BY <1>1 DEF CompileForFilter, CompileUnion, Join
  <2>10. CompileForFilter(h, wanted, s, ret) = code
    BY <1>1, <2>4 DEF CompileForFilter, CompileUnion, Join
  <2>. QED BY <2>8, <2>9, <2>10
<1>2. CASE s.kind = "custom"
  <2>1. g[s.of[1]] \in Codes /\ g[s.of[1]] = h[s.of[1]]
    BY <1>2, NodeFacts
  <2>2. g[s.of[1]][1] \in Code
    BY <2>1 DEF Codes
  <2>. QED BY <1>2, <2>1, <2>2 DEF CompileForFilter
<1>3. CASE s.kind = "record"
  <2>1. PICK F : Fields(F, g, s.of)
    BY FieldsSteps
  <2>2. Fields(F, h, s.of)
    BY <2>1 DEF Fields
  <2>. PICK fields : fields = CompileFields(g, s.of)
    OBVIOUS
  <2>3. fields = F[n]
    BY <2>1, FieldsSteps
  <2>4. fields = CompileFields(h, s.of)
    BY <2>2, <2>3, FieldsSteps
  <2>5. fields \in Code
    BY <2>1, <2>3 DEF Fields
  <2>6. fields.items \in Seq(Items) /\ fields.size \in Nat
    BY <2>5 DEF Code
  <2>. PICK end : end = IF s.id \in wanted THEN <<Item("recordEnd", s, ret, <<>>)>> ELSE <<>>
    OBVIOUS
  <2>7. end \in Seq(Items)
    <3>1. <<>> \in Seq(Nat) /\ <<>> \in Seq(Items)
      OBVIOUS
    <3>2. <<Item("recordEnd", s, ret, <<>>)>> \in Seq(Items)
      BY <3>1, ItemType DEF Ops
    <3>. QED BY <3>1, <3>2
  <2>. PICK code : code = Compiled(Join(fields.items, end), 1 + fields.size)
    OBVIOUS
  <2>8. code \in Code
    <3>1. Join(fields.items, end) \in Seq(Items)
      BY ONLY <2>6, <2>7, JoinType
    <3>2. 1 + fields.size \in Nat
      BY ONLY <2>6
    <3>. QED BY <3>1, <3>2, CodeParts
  <2>9. CompileForFilter(g, wanted, s, ret) = code
    BY <1>3 DEF CompileForFilter, RecordForFilter, Join
  <2>10. CompileForFilter(h, wanted, s, ret) = code
    BY <1>3, <2>4 DEF CompileForFilter, RecordForFilter, Join
  <2>. QED BY <2>8, <2>9, <2>10
<1>4. CASE s.kind \in {"null", "leaf", "array", "map"}
  <2>. PICK op \in Ops : op = IF s.kind \in {"array", "map"} THEN "chunks" ELSE "value"
    BY DEF Ops
  <2>. PICK code : code = Compiled(<<Item(op, s, ret, <<>>)>>, 1)
    OBVIOUS
  <2>1. code \in Code
    <3>1. <<>> \in Seq(Nat) /\ 1 \in Nat
      OBVIOUS
    <3>2. <<Item(op, s, ret, <<>>)>> \in Seq(Items)
      BY <3>1, ItemType
    <3>. QED BY <3>1, <3>2, CodeParts
  <2>2. CompileForFilter(g, wanted, s, ret) = code
    BY <1>4 DEF CompileForFilter
  <2>3. CompileForFilter(h, wanted, s, ret) = code
    BY <1>4 DEF CompileForFilter
  <2>. QED BY <2>1, <2>2, <2>3
<1>. QED BY <1>1, <1>2, <1>3, <1>4, NodeFacts DEF Kinds

\* The codes, node by node.
LEMMA CompiledNodes ==
    ASSUME NEW wanted
    PROVE  /\ compileFilteringParser(wanted) \in [Nodes -> Codes]
           /\ \A s \in Nodes : \A ret \in Nat :
                 compileFilteringParser(wanted)[s][ret] =
                    CompileForFilter(compileFilteringParser(wanted), wanted, s, ret)
<1>. DEFINE Body(g, s) == [ret \in Nat |-> CompileForFilter(g, wanted, s, ret)]
            G == [Nodes -> Codes]
            step == [pair \in Nodes \X G |-> Body(pair[2], pair[1])]
            none == [ret \in Nat |-> Compiled(<<>>, 0)]
<1>1. none \in Codes
  <2>1. <<>> \in Seq(Items) /\ 0 \in Nat
    OBVIOUS
  <2>. QED BY <2>1, CodeParts DEF Codes
<1>2. ASSUME NEW g \in G, NEW s \in Nodes PROVE Body(g, s) \in Codes
  <2>1. \A i \in DOMAIN s.of : g[s.of[i]] \in Codes
    BY NodeFacts
  <2>2. \A ret \in Nat : CompileForFilter(g, wanted, s, ret) \in Code
    BY <2>1, CodeOfNode
  <2>. QED BY <2>2 DEF Codes
<1>3. ASSUME NEW s \in Nodes, NEW g, NEW h,
             \A x \in Nodes : Depth[x] < Depth[s] => g[x] \in Codes /\ g[x] = h[x]
      PROVE  Body(g, s) = Body(h, s)
  <2>1. \A i \in DOMAIN s.of : g[s.of[i]] \in Codes /\ g[s.of[i]] = h[s.of[i]]
    BY <1>3, NodeFacts
  <2>2. \A ret \in Nat : CompileForFilter(g, wanted, s, ret) = CompileForFilter(h, wanted, s, ret)
    BY <2>1, CodeOfNode
  <2>. QED BY <2>2
<1>. HIDE DEF Body, none
<1>4. step \in [Nodes \X G -> Codes]
  BY <1>2
<1>5. \A s \in Nodes, g \in G : step[<<s, g>>] = Body(g, s)
  OBVIOUS
<1>. HIDE DEF step
<1>6. \A s \in Nodes : \A g, h \in [Nodes -> Codes] :
         (\A x \in Nodes : Depth[x] < Depth[s] => g[x] = h[x]) => step[<<s, g>>] = step[<<s, h>>]
  <2>. TAKE s \in Nodes
  <2>. TAKE g, h \in [Nodes -> Codes]
  <2>. HAVE \A x \in Nodes : Depth[x] < Depth[s] => g[x] = h[x]
  <2>1. Body(g, s) = Body(h, s)
    BY <1>3
  <2>. QED BY <2>1, <1>5
<1>7. PICK f : RankRecursive(f, Nodes, Codes, step)
  BY <1>1, <1>4, <1>6, DepthType, RankRecursion
<1>8. f \in [Nodes -> Codes] /\ \A s \in Nodes : f[s] = Body(f, s)
  BY <1>5, <1>7 DEF RankRecursive
<1>. DEFINE Is(g) == g = [s \in Nodes |-> Body(g, s)]
            u == CHOOSE g : Is(g)
<1>9. Is(f)
  <2>1. f = [s \in Nodes |-> f[s]]
    BY <1>8
  <2>. QED BY <1>8, <2>1
<1>10. Is(u)
  BY <1>9
<1>11. compileFilteringParser(wanted) = u
  BY DEF compileFilteringParser, Body
<1>. HIDE DEF u
<1>12. \A s \in Nodes : u[s] = Body(u, s)
  BY <1>10
<1>. DEFINE P == {s \in Nodes : u[s] = f[s]}
<1>13. P = Nodes
  <2>1. ASSUME NEW s \in Nodes, \A x \in Nodes : Depth[x] < Depth[s] => x \in P
        PROVE  s \in P
    <3>1. Body(f, s) = Body(u, s)
      BY <1>3, <1>8, <2>1
    <3>. QED BY <3>1, <1>8, <1>12
  <2>. P \in SUBSET Nodes
    OBVIOUS
  <2>. HIDE DEF P
  <2>. QED BY SMTT(30), <2>1, DepthType, RankInduct
<1>14. u \in [Nodes -> Codes]
  <2>1. DOMAIN u = Nodes /\ u = [s \in Nodes |-> u[s]]
    BY <1>10
  <2>2. \A s \in Nodes : u[s] \in Codes
    BY <1>8, <1>13
  <2>. QED BY <2>1, <2>2
<1>15. \A s \in Nodes : \A ret \in Nat : u[s][ret] = CompileForFilter(u, wanted, s, ret)
  BY <1>12 DEF Body
<1>. QED BY <1>11, <1>14, <1>15

-----------------------------------------------------------------------------
(* The records of a block, one behind the other                              *)

\* What FlattenSeq puts together, step by step.
Flat(F, X, seqs) ==
    /\ F \in [1..Len(seqs) -> Seq(X)]
    /\ \A i \in 1..Len(seqs) : F[i] = IF i = 1 THEN seqs[i] ELSE Join(F[i - 1], seqs[i])

\* Sequences, one behind the other, are a sequence.
LEMMA FlattenType ==
    ASSUME NEW X, NEW seqs \in Seq(Seq(X))
    PROVE  FlattenSeq(seqs) \in Seq(X)
<1>. PICK n \in Nat : n = Len(seqs)
  BY LenProperties
<1>0. \A i \in 1..n : seqs[i] \in Seq(X)
  OBVIOUS
<1>1. CASE n = 0
  <2>1. seqs = <<>> /\ FlattenSeq(seqs) = seqs
    BY <1>1, EmptySeq DEF FlattenSeq
  <2>2. FlattenSeq(seqs) = <<>>
    BY <2>1
  <2>3. <<>> \in Seq(X)
    OBVIOUS
  <2>. QED BY ONLY <2>2, <2>3
<1>2. CASE n # 0
  <2>. DEFINE S == Seq(X)
              Next(i, r) == IF i = 1 THEN seqs[i] ELSE Join(r, seqs[i])
              step == [pair \in (1..n) \X S |-> Next(pair[1], pair[2])]
  <2>1. \A i \in 1..n, r \in S : Next(i, r) \in S
    BY <1>0, JoinType
  <2>2. <<>> \in S
    OBVIOUS
  <2>. HIDE DEF Next, S
  <2>3. step \in [(1..n) \X S -> S]
    BY <2>1
  <2>4. \A i \in 1..n, r \in S : step[<<i, r>>] = Next(i, r)
    OBVIOUS
  <2>. HIDE DEF step
  <2>5. PICK f : RecursiveTo(f, n, S, <<>>, step)
    BY <2>2, <2>3, RecursionTo
  <2>6. f \in [0..n -> S] /\ \A i \in 1..n : f[i] = Next(i, f[i - 1])
    <3>1. f \in [0..n -> S] /\ \A i \in 1..n : f[i] = step[<<i, f[i - 1]>>]
      BY <2>5 DEF RecursiveTo
    <3>2. \A i \in 1..n : f[i - 1] \in S
      BY <3>1
    <3>. QED BY <2>4, <3>1, <3>2
  <2>. DEFINE h == [i \in 1..n |-> f[i]]
              Is(g) == g = [i \in 1..Len(seqs) |->
                              IF i = 1 THEN seqs[i] ELSE Join(g[i - 1], seqs[i])]
              u == CHOOSE g : Is(g)
  <2>7. FlattenSeq(seqs) = u[n]
    BY <1>2 DEF FlattenSeq, Join
  <2>8. Is(h)
    <3>1. \A i \in 1..n : h[i] = IF i = 1 THEN seqs[i] ELSE Join(h[i - 1], seqs[i])
      <4>. TAKE i \in 1..n
      <4>1. h[i] = Next(i, f[i - 1]) /\ (i # 1 => h[i - 1] = f[i - 1])
        BY <2>6
      <4>. QED BY <4>1 DEF Next
    <3>2. h = [i \in 1..n |-> h[i]]
      OBVIOUS
    <3>. HIDE DEF h
    <3>. QED BY <3>1, <3>2
  <2>9. Is(u)
    BY <2>8
  <2>. HIDE DEF u
  <2>10. \A i \in 1..n : u[i] = IF i = 1 THEN seqs[i] ELSE Join(u[i - 1], seqs[i])
    BY <2>9
  <2>. DEFINE P == {i \in 0..n : i = 0 \/ u[i] \in S}
  <2>11. 0 \in P
    OBVIOUS
  <2>12. ASSUME NEW i \in P, i < n PROVE i + 1 \in P
    <3>1. i + 1 \in 1..n /\ i + 1 \in 0..n /\ (i + 1) - 1 = i /\ i \in 0..n
      BY <2>12
    <3>2. CASE i = 0
      <4>1. u[1] = seqs[1] /\ 1 \in 1..n
        BY <2>10, <3>1, <3>2
      <4>. QED BY <1>0, <3>1, <3>2, <4>1 DEF S
    <3>3. CASE i # 0
      <4>1. i + 1 # 1 /\ u[i] \in S
        BY <3>1, <3>3
      <4>2. u[i + 1] = Join(u[i], seqs[i + 1])
        BY <2>10, <3>1, <4>1
      <4>3. Join(u[i], seqs[i + 1]) \in Seq(X)
        BY <1>0, <3>1, <4>1, JoinType DEF S
      <4>. QED BY <3>1, <4>2, <4>3 DEF S
    <3>. QED BY <3>2, <3>3
  <2>13. P = 0..n
    <3>. P \in SUBSET (0..n)
      OBVIOUS
    <3>. HIDE DEF P
    <3>. QED BY <2>11, <2>12, InductTo
  <2>14. u[n] \in S
    BY <1>2, <2>13
  <2>. QED BY <2>7, <2>14 DEF S
<1>. QED BY <1>1, <1>2

\* Where the records of a case end.
Ends(c, i) == Len(FlattenSeq(SubSeq(c.docs, 1, i)))

\* The records of a case lie behind each other in one block, each with an end.
LEMMA StreamFacts ==
    ASSUME NEW c \in Cases
    PROVE  /\ FlattenSeq(c.docs) \in Seq(Int)
           /\ Len(c.docs) \in Nat \ {0}
           /\ \A i \in 0..Len(c.docs) : Ends(c, i) \in Nat
           /\ Ends(c, 0) = 0
           /\ c.schema \in Nodes
<1>1. c.docs \in Seq(Seq(Int)) /\ c.docs # <<>> /\ c.schema \in Nodes
  BY CasesAssumption
<1>2. FlattenSeq(c.docs) \in Seq(Int)
  BY <1>1, FlattenType
<1>3. Len(c.docs) \in Nat \ {0}
  BY <1>1, EmptySeq, LenProperties
<1>4. ASSUME NEW i \in 0..Len(c.docs) PROVE Ends(c, i) \in Nat
  <2>1. SubSeq(c.docs, 1, i) \in Seq(Seq(Int))
    BY <1>1, <1>3, SubSeqProperties
  <2>2. FlattenSeq(SubSeq(c.docs, 1, i)) \in Seq(Int)
    BY <2>1, FlattenType
  <2>. QED BY <2>2, LenProperties DEF Ends
<1>5. Ends(c, 0) = 0
  <2>1. Len(SubSeq(c.docs, 1, 0)) = 0 /\ SubSeq(c.docs, 1, 0) \in Seq(Seq(Int))
    BY <1>1, <1>3, SubSeqProperties
  <2>2. FlattenSeq(SubSeq(c.docs, 1, 0)) = SubSeq(c.docs, 1, 0)
    BY <2>1 DEF FlattenSeq
  <2>. QED BY <2>1, <2>2 DEF Ends
<1>. QED BY <1>1, <1>2, <1>3, <1>4, <1>5

-----------------------------------------------------------------------------
(* One step of the loop from a good mark                                     *)

\* The loop ends only at the goal.
LEMMA GoodOver ==
    ASSUME NEW x, Run(x), NEW o, NEW p, NEW calls, Good(x, o, p, calls), o \notin DOMAIN x.items
    PROVE  p = x.end /\ calls = <<>>
<1>1. ASSUME NEW e, NEW q, NEW rest PROVE ~Step(x, <<o, p, calls>>, <<e, q, rest>>)
  BY DEF Step
<1>. QED BY <1>1, GoodMark

\* At an item that is there, it is not over.
LEMMA GoodNext ==
    ASSUME NEW x, Run(x), NEW o, NEW p, NEW calls, Good(x, o, p, calls), o \in DOMAIN x.items
    PROVE  \E e \in Spots(x.items), q \in Places, rest \in Seq(Calls(x.wanted)) :
              Good(x, e, q, rest) /\ Step(x, <<o, p, calls>>, <<e, q, rest>>)
<1>1. o # Len(x.items) + 1
  <2>1. DOMAIN x.items = 1..Len(x.items) /\ Len(x.items) \in Nat
    BY LenProperties DEF Run
  <2>. QED BY <2>1
<1>. QED BY <1>1, GoodMark

\* A value is read.
LEMMA GoodRead ==
    ASSUME NEW x, Run(x), NEW o, NEW p, NEW calls, Good(x, o, p, calls), o \in DOMAIN x.items,
           NEW item, item = x.items[o], item.op \in {"value", "chunks"},
           NEW read, read = decodeDocument(x.wanted, x.in)[item.node][p]
    PROVE  /\ read.ok
           /\ \E rest \in Seq(Calls(x.wanted)) :
                 Good(x, o + item.ret, read.at, rest) /\ calls = Join(read.log, rest)
<1>1. PICK e \in Spots(x.items), q \in Places, rest \in Seq(Calls(x.wanted)) :
         Good(x, e, q, rest) /\ Step(x, <<o, p, calls>>, <<e, q, rest>>)
  BY GoodNext
<1>2. ReadStep(x, item, <<o, p, calls>>, <<e, q, rest>>)
  BY <1>1 DEF Step, EndStep, BranchStep
<1>3. read.ok /\ e = o + item.ret /\ q = read.at /\ calls = Join(read.log, rest)
  BY <1>2 DEF ReadStep
<1>. QED BY <1>1, <1>3

\* A record ends.
LEMMA GoodEnd ==
    ASSUME NEW x, Run(x), NEW o, NEW p, NEW calls, Good(x, o, p, calls), o \in DOMAIN x.items,
           NEW item, item = x.items[o], item.op = "recordEnd"
    PROVE  \E rest \in Seq(Calls(x.wanted)) :
              /\ Good(x, o + item.ret, p, rest)
              /\ calls = Join(On(x.wanted, item.node, "recordEnd", 0), rest)
<1>1. PICK e \in Spots(x.items), q \in Places, rest \in Seq(Calls(x.wanted)) :
         Good(x, e, q, rest) /\ Step(x, <<o, p, calls>>, <<e, q, rest>>)
  BY GoodNext
<1>2. EndStep(x, item, <<o, p, calls>>, <<e, q, rest>>)
  BY <1>1 DEF Step, ReadStep, BranchStep
<1>3. e = o + item.ret /\ q = p /\ calls = Join(On(x.wanted, item.node, "recordEnd", 0), rest)
  BY <1>2 DEF EndStep
<1>. QED BY <1>1, <1>3

\* A branch is taken.
LEMMA GoodBranch ==
    ASSUME NEW x, Run(x), NEW o, NEW p, NEW calls, Good(x, o, p, calls), o \in DOMAIN x.items,
           NEW item, item = x.items[o], item.op = "union",
           NEW b, b = x.in[p] + 1
    PROVE  /\ p <= Len(x.in) /\ b \in DOMAIN item.skipping
           /\ \E rest \in Seq(Calls(x.wanted)) :
                 /\ Good(x, o + item.skipping[b], p + 1, rest)
                 /\ calls = Join(Branched(x.wanted, item.node, b), rest)
<1>1. PICK e \in Spots(x.items), q \in Places, rest \in Seq(Calls(x.wanted)) :
         Good(x, e, q, rest) /\ Step(x, <<o, p, calls>>, <<e, q, rest>>)
  BY GoodNext
<1>2. BranchStep(x, item, <<o, p, calls>>, <<e, q, rest>>)
  BY <1>1 DEF Step, ReadStep, EndStep
<1>3. /\ p <= Len(x.in) /\ b \in DOMAIN item.skipping
      /\ e = o + item.skipping[b] /\ q = p + 1
      /\ calls = Join(Branched(x.wanted, item.node, b), rest)
  BY <1>2 DEF BranchStep, Branched
<1>. QED BY <1>1, <1>3

-----------------------------------------------------------------------------
(* The loop over the records of a case                                       *)

Compilation(c) == compileFilteringParser(c.wanted)[c.schema][1].items

\* The list on the stream of a case, up to the end of a record.
RunOf(c, i) ==
    [items |-> Compilation(c), wanted |-> c.wanted,
     in |-> FlattenSeq(c.docs), end |-> Ends(c, i) + 1]

\* The recursive reading of a record.
DocumentOf(c, i) == decodeDocument(c.wanted, FlattenSeq(c.docs))[c.schema][Ends(c, i - 1) + 1]

\* What Sound says of a case for the filter.
SoundCase(c) == Connected(Compilation(c), c.wanted, c.schema) /\ WholeDocuments(c) /\ NodesApart

\* Reading a record of a sound case is a run of its compiled list.
LEMMA RunFacts ==
    ASSUME NEW c \in Cases, NEW i \in 1..Len(c.docs)
    PROVE  /\ Run(RunOf(c, i))
           /\ RunOf(c, i).items = Compilation(c)
           /\ RunOf(c, i).wanted = c.wanted
           /\ RunOf(c, i).in = FlattenSeq(c.docs)
           /\ RunOf(c, i).end = Ends(c, i) + 1
           /\ Compilation(c) \in Seq(Items)
<1>1. Compilation(c) \in Seq(Items)
  <2>1. compileFilteringParser(c.wanted) \in [Nodes -> Codes] /\ c.schema \in Nodes
    BY CompiledNodes, StreamFacts
  <2>2. compileFilteringParser(c.wanted)[c.schema][1] \in Code
    BY <2>1 DEF Codes
  <2>. QED BY <2>2 DEF Compilation, Code
<1>2. FlattenSeq(c.docs) \in Seq(Int) /\ Ends(c, i) + 1 \in Places
  <2>1. i \in 0..Len(c.docs) /\ \A j \in 0..Len(c.docs) : Ends(c, j) \in Nat
    BY StreamFacts
  <2>. QED BY <2>1, StreamFacts DEF Places
<1>. QED BY <1>1, <1>2 DEF RunOf, Run

\* The records that the filter looks into.
Records(c) == {q \in Tree[c.schema] : q.kind = "record" /\ q.id \in c.wanted}

\* All calls, and for each such record the logs in which it ends last.
LogSets(c) == {Seq(Calls(c.wanted))} \cup {Tidy(c.wanted, q) : q \in Records(c)}

\* Each is what the schema is read with, when the logs of all nodes are chosen to fit.
LEMMA LogSetFits ==
    ASSUME NEW c \in Cases, NodesApart, NEW i \in 1..Len(c.docs), NEW L \in LogSets(c)
    PROVE  L \subseteq Seq(Calls(c.wanted)) /\ \E F : Fits(RunOf(c, i), F) /\ F[c.schema] = L
<1>. PICK x : x = RunOf(c, i)
  OBVIOUS
<1>1. Run(x) /\ x.wanted = c.wanted
  BY RunFacts
<1>2. c.schema \in Nodes
  BY StreamFacts
<1>3. CASE L = Seq(Calls(c.wanted))
  <2>1. Fits(x, [s \in Nodes |-> Seq(Calls(x.wanted))])
    BY <1>1, AllFit
  <2>2. [s \in Nodes |-> Seq(Calls(x.wanted))][c.schema] = L
    BY <1>1, <1>2, <1>3
  <2>. QED BY <1>3, <2>1, <2>2
<1>4. CASE L # Seq(Calls(c.wanted))
  <2>1. PICK q \in Records(c) : L = Tidy(c.wanted, q)
    BY <1>4 DEF LogSets
  <2>2. /\ q \in Tree[c.schema] /\ q \in Nodes
        /\ q.kind = "record" /\ q.id \in c.wanted
    BY <1>2, TreeNodes DEF Records
  <2>3. Fits(x, [s \in Nodes |-> LogsFor(x.wanted, q, s)])
    BY <1>1, <2>2, TidyFit
  <2>4. LogsFor(x.wanted, q, c.schema) = L
    BY <1>1, <2>1, <2>2 DEF LogsFor, Clear
  <2>5. [s \in Nodes |-> LogsFor(x.wanted, q, s)][c.schema] = L
    BY <1>2, <2>4
  <2>6. L \subseteq Seq(Calls(c.wanted))
    BY <2>1 DEF Tidy
  <2>. QED BY <2>3, <2>5, <2>6
<1>. QED BY <1>3, <1>4

\* What may be told of a record: for each node what the recursive reading tells it, in
\* a log of a set.
Right(c, i, L, calls) == Same(calls, DocumentOf(c, i).log) /\ calls \in L

\* All calls are such a set.
LEMMA AllCallsIn == \A c : Seq(Calls(c.wanted)) \in LogSets(c)
BY DEF LogSets

\* Where a record begins, the loop is on its way to the end of it.
LEMMA GoodStart ==
    ASSUME NEW c \in Cases, SoundCase(c), NEW i \in 1..Len(c.docs), NEW L \in LogSets(c)
    PROVE  \E calls \in Seq(Calls(c.wanted)) :
              Good(RunOf(c, i), 1, Ends(c, i - 1) + 1, calls) /\ Right(c, i, L, calls)
<1>. PICK x : x = RunOf(c, i)
  OBVIOUS
<1>1. /\ Run(x) /\ x.items = Compilation(c) /\ x.wanted = c.wanted
      /\ x.in = FlattenSeq(c.docs) /\ x.end = Ends(c, i) + 1
  BY RunFacts
<1>. PICK p \in Places : p = Ends(c, i - 1) + 1
  <2>1. i - 1 \in 0..Len(c.docs) /\ \A j \in 0..Len(c.docs) : Ends(c, j) \in Nat
    BY StreamFacts
  <2>. QED BY <2>1 DEF Places
<1>2. c.schema \in Nodes /\ NodesApart
  BY StreamFacts DEF SoundCase
<1>. PICK r : r = DocumentOf(c, i)
  OBVIOUS
<1>3. r = decodeDocument(x.wanted, x.in)[c.schema][p]
  BY <1>1 DEF DocumentOf
<1>4. r \in Reads(Seq(Calls(x.wanted)))
  BY <1>1, <1>2, <1>3, DecodedAt
<1>5. r.ok /\ r.at = x.end
  <2>1. WholeDocuments(c) /\ i \in DOMAIN c.docs
    BY CasesAssumption DEF SoundCase
  <2>. QED BY <1>1, <2>1 DEF WholeDocuments, DocumentOf, Ends
<1>6. 1 \in Spots(x.items) /\ Len(x.items) + 1 \in Exits(x.items, x.wanted)[c.schema][1]
  <2>1. Len(x.items) \in Nat
    BY <1>1, LenProperties DEF Run
  <2>2. Connected(x.items, x.wanted, c.schema)
    BY <1>1 DEF SoundCase
  <2>. QED BY <2>1, <2>2 DEF Spots, Connected
<1>12. PICK F : Fits(x, F) /\ F[c.schema] = L /\ L \subseteq Seq(Calls(c.wanted))
  BY <1>2, LogSetFits
<1>7. Carries(x, L, Exits(x.items, x.wanted)[c.schema],
              decodeDocument(x.wanted, x.in)[c.schema])
  BY <1>1, <1>2, <1>12, NodeCarries
<1>8. Brings(x, L, 1, Len(x.items) + 1, p, r)
  BY <1>3, <1>6, <1>7 DEF Carries
<1>9. <<>> \in Seq(Calls(x.wanted)) /\ Good(x, Len(x.items) + 1, r.at, <<>>)
  BY <1>1, <1>5, NoCalls, GoodGoal
<1>10. PICK calls \in Seq(Calls(x.wanted)) :
          calls \in L /\ Good(x, 1, p, Join(calls, <<>>)) /\ Same(calls, r.log)
  BY <1>1, <1>5, <1>8, <1>9, <1>12 DEF Brings
<1>11. Join(calls, <<>>) = calls
  BY JoinEmpty
<1>. QED BY <1>1, <1>10, <1>11 DEF Right

-----------------------------------------------------------------------------
(* The inductive invariant                                                   *)

\* The case, and its list.
CaseKept == case \in Cases /\ case.mode = "filter" /\ program = Compilation(case)

\* Where the loop is, and what it told.
PlaceKept ==
    /\ k \in 1..Len(case.docs)
    /\ pc \in Nat \ {0} /\ at \in Places
    /\ status \in {"running", "done", "lost"}
    /\ log \in Seq(Calls(case.wanted))

\* From here the loop comes to the end of the record, and tells what is left to be told.
OnTheWay ==
    status = "running" =>
        \A L \in LogSets(case) : \E calls \in Seq(Calls(case.wanted)) :
            /\ Good(RunOf(case, k), pc, at, calls)
            /\ Right(case, k, L, Join(log, calls))

\* It is at the end of the last record, and told all.
AtItsEnd ==
    status = "done" =>
        /\ pc \notin DOMAIN program
        /\ at = Ends(case, k) + 1
        /\ \A L \in LogSets(case) : Right(case, k, L, log)

OnCourse == status # "lost" /\ OnTheWay /\ AtItsEnd

LoopInv == CaseKept /\ PlaceKept /\ (SoundCase(case) => OnCourse)

\* The loop begins so.
LEMMA LoopInit == FilterInit => LoopInv
<1>. SUFFICES ASSUME FilterInit PROVE LoopInv
  OBVIOUS
<1>1. CaseKept
  BY DEF FilterInit, CaseKept, Compilation
<1>2. PlaceKept
  <2>1. 1 \in 1..Len(case.docs)
    BY <1>1, StreamFacts DEF CaseKept
  <2>. QED BY <2>1, NoCalls DEF FilterInit, PlaceKept, Places
<1>3. ASSUME SoundCase(case) PROVE OnCourse
  <2>1. case \in Cases /\ 1 \in 1..Len(case.docs) /\ Ends(case, 0) = 0 /\ 1 - 1 = 0
    BY <1>1, StreamFacts DEF CaseKept
  <2>2. ASSUME NEW L \in LogSets(case)
        PROVE  \E calls \in Seq(Calls(case.wanted)) :
                  Good(RunOf(case, 1), 1, 1, calls) /\ Right(case, 1, L, Join(<<>>, calls))
    <3>1. PICK calls \in Seq(Calls(case.wanted)) :
             Good(RunOf(case, 1), 1, Ends(case, 1 - 1) + 1, calls) /\ Right(case, 1, L, calls)
      BY <1>3, <2>1, GoodStart
    <3>2. Join(<<>>, calls) = calls
      BY JoinEmpty
    <3>3. Good(RunOf(case, 1), 1, 1, calls)
      BY <2>1, <3>1
    <3>. QED BY <3>1, <3>2, <3>3
  <2>. QED BY <2>2 DEF FilterInit, OnCourse, OnTheWay, AtItsEnd
<1>. QED BY <1>1, <1>2, <1>3 DEF LoopInv

\* The item at hand.
LEMMA ItemAt ==
    ASSUME CaseKept, NEW i \in DOMAIN program
    PROVE  /\ program[i] \in Items
           /\ program[i].node \in Nodes /\ program[i].ret \in Nat
           /\ program[i].skipping \in Seq(Nat)
<1>1. program \in Seq(Items)
  <2>1. 1 \in 1..Len(case.docs)
    BY StreamFacts DEF CaseKept
  <2>. QED BY <2>1, RunFacts DEF CaseKept
<1>2. program[i] \in Items
  BY <1>1
<1>. QED BY <1>2 DEF Items

\* A case that stays.
LEMMA SameCase ==
    ASSUME CaseKept, UNCHANGED <<case, program>>
    PROVE  CaseKept'
BY DEF CaseKept, Compilation

\* The loop goes on from a mark to the next, in the same record.
LEMMA WayOn ==
    ASSUME CaseKept, PlaceKept, UNCHANGED <<case, program, k, status>>, status = "running",
           NEW told \in Seq(Calls(case.wanted)), log' = Join(log, told),
           pc' \in Nat \ {0}, at' \in Places,
           SoundCase(case) =>
              \A L \in LogSets(case) : \E rest \in Seq(Calls(case.wanted)) :
                 /\ Good(RunOf(case, k), pc', at', rest)
                 /\ Right(case, k, L, Join(log, Join(told, rest)))
    PROVE  LoopInv'
<1>1. CaseKept'
  BY SameCase
<1>2. log \in Seq(Calls(case.wanted)) /\ Join(log, told) \in Seq(Calls(case.wanted))
  BY JoinType DEF PlaceKept
<1>3. PlaceKept'
  BY <1>2 DEF PlaceKept
<1>4. ASSUME SoundCase(case) PROVE OnCourse'
  <2>1. ASSUME NEW L \in LogSets(case)
        PROVE  \E more \in Seq(Calls(case.wanted)) :
                  /\ Good(RunOf(case, k), pc', at', more)
                  /\ Right(case, k, L, Join(log', more))
    <3>1. PICK rest \in Seq(Calls(case.wanted)) :
             /\ Good(RunOf(case, k), pc', at', rest)
             /\ Right(case, k, L, Join(log, Join(told, rest)))
      BY <1>4
    <3>2. Join(log, Join(told, rest)) = Join(log', rest)
      BY <1>2, Regroup
    <3>. QED BY <3>1, <3>2
  <2>. QED BY <2>1 DEF OnCourse, OnTheWay, AtItsEnd
<1>. QED BY <1>1, <1>3, <1>4 DEF LoopInv

\* The loop loses its place in a case that is not sound.
LEMMA WayLost ==
    ASSUME CaseKept, PlaceKept, Lose, ~SoundCase(case)
    PROVE  LoopInv'
<1>1. CaseKept'
  BY SameCase DEF Lose
<1>2. PlaceKept'
  BY DEF PlaceKept, Lose
<1>3. ~SoundCase(case')
  BY DEF Lose
<1>. QED BY <1>1, <1>2, <1>3 DEF LoopInv

\* A value, or a collection, is read as the recursive reading does it.
LEMMA ReadKept ==
    ASSUME LoopInv, status = "running", pc \in DOMAIN program,
           program[pc].op \in {"value", "chunks"},
           Proceed(decodeDocument(case.wanted, Stream)[program[pc].node][at])
    PROVE  LoopInv'
<1>. PICK item : item = program[pc]
  OBVIOUS
<1>. PICK x : x = RunOf(case, k)
  OBVIOUS
<1>. PICK read : read = decodeDocument(case.wanted, Stream)[item.node][at]
  OBVIOUS
<1>0. CaseKept /\ PlaceKept /\ k \in 1..Len(case.docs) /\ case \in Cases /\ program = Compilation(case)
  BY DEF LoopInv, CaseKept, PlaceKept
<1>1. /\ Run(x) /\ x.items = program /\ x.wanted = case.wanted
      /\ x.in = Stream
  BY <1>0, RunFacts DEF Stream
<1>2. item.node \in Nodes /\ item.ret \in Nat
  BY <1>0, ItemAt
<1>3. read \in Reads(Seq(Calls(case.wanted)))
  BY <1>0, <1>1, <1>2, DecodedAt DEF PlaceKept
<1>4. ASSUME SoundCase(case), NEW L \in LogSets(case)
      PROVE  /\ read.ok
             /\ \E rest \in Seq(Calls(case.wanted)) :
                   /\ Good(x, pc + item.ret, read.at, rest)
                   /\ Right(case, k, L, Join(log, Join(read.log, rest)))
  <2>1. PICK calls \in Seq(Calls(case.wanted)) :
           Good(x, pc, at, calls) /\ Right(case, k, L, Join(log, calls))
    BY <1>4 DEF LoopInv, OnCourse, OnTheWay
  <2>. PICK op \in {"value", "chunks"} : op = item.op
    OBVIOUS
  <2>2. /\ read.ok
        /\ \E rest \in Seq(Calls(x.wanted)) :
              Good(x, pc + item.ret, read.at, rest) /\ calls = Join(read.log, rest)
    BY <1>1, <2>1, GoodRead
  <2>. QED BY <1>1, <2>1, <2>2
<1>5. CASE read.ok
  <2>1. /\ at' = read.at /\ pc' = pc + item.ret /\ UNCHANGED <<case, program, k, status>>
        /\ log' = Join(log, read.log)
    BY <1>5 DEF Proceed, Advance, Join
  <2>2. read.log \in Seq(Calls(case.wanted)) /\ read.at \in Places
    BY <1>3, ReadsParts
  <2>3. pc' \in Nat \ {0} /\ at' \in Places
    BY <1>0, <1>2, <2>1, <2>2 DEF PlaceKept
  <2>4. SoundCase(case) =>
           \A L \in LogSets(case) : \E rest \in Seq(Calls(case.wanted)) :
              /\ Good(RunOf(case, k), pc', at', rest)
              /\ Right(case, k, L, Join(log, Join(read.log, rest)))
    BY <1>4, <2>1
  <2>. QED BY <1>0, <2>1, <2>2, <2>3, <2>4, WayOn
<1>6. CASE ~read.ok
  <2>1. Lose
    BY <1>6 DEF Proceed, Advance
  <2>2. ~SoundCase(case)
    BY <1>4, <1>6, AllCallsIn
  <2>. QED BY <1>0, <2>1, <2>2, WayLost
<1>. QED BY <1>5, <1>6

\* A record ends, and its predicates are told.
LEMMA RecordEndKept ==
    ASSUME LoopInv, RunRecordEnd
    PROVE  LoopInv'
<1>. PICK item : item = program[pc]
  OBVIOUS
<1>. PICK x : x = RunOf(case, k)
  OBVIOUS
<1>. PICK on : on = On(case.wanted, item.node, "recordEnd", 0)
  OBVIOUS
<1>0. /\ CaseKept /\ PlaceKept /\ k \in 1..Len(case.docs) /\ case \in Cases
      /\ program = Compilation(case)
  BY DEF LoopInv, CaseKept, PlaceKept
<1>1. Run(x) /\ x.items = program /\ x.wanted = case.wanted
  BY <1>0, RunFacts
<1>2. status = "running" /\ pc \in DOMAIN program /\ item.op = "recordEnd"
  BY DEF RunRecordEnd, Running
<1>3. item.node \in Nodes /\ item.ret \in Nat
  BY <1>0, <1>2, ItemAt
<1>4. on \in Seq(Calls(case.wanted))
  <2>1. "recordEnd" \in Whats /\ 0 \in Told
    BY DEF Whats, Told
  <2>. QED BY <2>1, OnType
<1>5. /\ at' = at /\ pc' = pc + item.ret /\ UNCHANGED <<case, program, k, status>>
      /\ log' = Join(log, on)
  <2>. PICK read : read = Just(at, on)
    OBVIOUS
  <2>1. read.ok /\ read.at = at /\ read.log = on
    BY DEF Just, Read
  <2>2. Proceed(read)
    BY DEF RunRecordEnd, Just
  <2>. QED BY <2>1, <2>2 DEF Proceed, Advance, Join
<1>6. pc' \in Nat \ {0} /\ at' \in Places
  BY <1>0, <1>3, <1>5 DEF PlaceKept
<1>7. ASSUME SoundCase(case), NEW L \in LogSets(case)
      PROVE  \E rest \in Seq(Calls(case.wanted)) :
                /\ Good(RunOf(case, k), pc', at', rest)
                /\ Right(case, k, L, Join(log, Join(on, rest)))
  <2>1. PICK calls \in Seq(Calls(case.wanted)) :
           Good(x, pc, at, calls) /\ Right(case, k, L, Join(log, calls))
    BY <1>2, <1>7 DEF LoopInv, OnCourse, OnTheWay
  <2>2. \E rest \in Seq(Calls(x.wanted)) :
           Good(x, pc + item.ret, at, rest) /\ calls = Join(on, rest)
    BY <1>1, <1>2, <2>1, GoodEnd
  <2>. QED BY <1>1, <1>5, <2>1, <2>2
<1>. QED BY <1>0, <1>2, <1>4, <1>5, <1>6, <1>7, WayOn

\* A branch is taken, and the predicates on the union are told.
LEMMA UnionKept ==
    ASSUME LoopInv, RunUnion
    PROVE  LoopInv'
<1>. PICK item : item = program[pc]
  OBVIOUS
<1>. PICK x : x = RunOf(case, k)
  OBVIOUS
<1>. PICK b : b = Stream[at] + 1
  OBVIOUS
<1>. PICK on : on = Branched(case.wanted, item.node, b)
  OBVIOUS
<1>0. /\ CaseKept /\ PlaceKept /\ k \in 1..Len(case.docs) /\ case \in Cases
      /\ program = Compilation(case) /\ case.mode = "filter"
  BY DEF LoopInv, CaseKept, PlaceKept
<1>1. Run(x) /\ x.items = program /\ x.wanted = case.wanted /\ x.in = Stream
  BY <1>0, RunFacts DEF Stream
<1>2. status = "running" /\ pc \in DOMAIN program /\ item.op = "union"
  BY DEF RunUnion, Running
<1>3. item.skipping \in Seq(Nat)
  BY <1>0, <1>2, ItemAt
<1>4. on \in Seq(Calls(case.wanted))
  BY BranchedCalls
<1>5. ASSUME SoundCase(case), NEW L \in LogSets(case)
      PROVE  /\ at <= Len(Stream) /\ b \in DOMAIN item.skipping
             /\ \E rest \in Seq(Calls(case.wanted)) :
                   /\ Good(x, pc + item.skipping[b], at + 1, rest)
                   /\ Right(case, k, L, Join(log, Join(on, rest)))
  <2>1. PICK calls \in Seq(Calls(case.wanted)) :
           Good(x, pc, at, calls) /\ Right(case, k, L, Join(log, calls))
    BY <1>2, <1>5 DEF LoopInv, OnCourse, OnTheWay
  <2>2. /\ at <= Len(Stream) /\ b \in DOMAIN item.skipping
        /\ \E rest \in Seq(Calls(x.wanted)) :
              Good(x, pc + item.skipping[b], at + 1, rest) /\ calls = Join(on, rest)
    BY SMTT(30), <1>1, <1>2, <2>1, GoodBranch
  <2>. QED BY <1>1, <2>1, <2>2
<1>6. CASE at <= Len(Stream) /\ b \in DOMAIN item.skipping
  <2>1. /\ at' = at + 1 /\ pc' = pc + item.skipping[b] /\ UNCHANGED <<case, program, k, status>>
        /\ log' = Join(log, on)
    BY <1>0, <1>6 DEF RunUnion, Join, Branched, Wanted
  <2>2. pc' \in Nat \ {0} /\ at' \in Places
    <3>1. item.skipping[b] \in Nat
      BY <1>3, <1>6
    <3>. QED BY <1>0, <2>1, <3>1 DEF PlaceKept, Places
  <2>3. SoundCase(case) =>
           \A L \in LogSets(case) : \E rest \in Seq(Calls(case.wanted)) :
              /\ Good(RunOf(case, k), pc', at', rest)
              /\ Right(case, k, L, Join(log, Join(on, rest)))
    BY <1>5, <2>1
  <2>. QED BY <1>0, <1>2, <1>4, <2>1, <2>2, <2>3, WayOn
<1>7. CASE ~(at <= Len(Stream) /\ b \in DOMAIN item.skipping)
  <2>1. Lose
    BY <1>7 DEF RunUnion
  <2>2. ~SoundCase(case)
    BY <1>5, <1>7, AllCallsIn
  <2>. QED BY <1>0, <2>1, <2>2, WayLost
<1>. QED BY <1>6, <1>7

\* At the end of a record.
LEMMA RecordOver ==
    ASSUME LoopInv, Over, SoundCase(case)
    PROVE  at = Ends(case, k) + 1 /\ \A L \in LogSets(case) : Right(case, k, L, log)
<1>. PICK x : x = RunOf(case, k)
  OBVIOUS
<1>0. /\ CaseKept /\ PlaceKept /\ k \in 1..Len(case.docs) /\ case \in Cases
      /\ program = Compilation(case)
  BY DEF LoopInv, CaseKept, PlaceKept
<1>1. Run(x) /\ x.items = program /\ x.wanted = case.wanted /\ x.end = Ends(case, k) + 1
  BY <1>0, RunFacts
<1>2. ASSUME NEW L \in LogSets(case) PROVE at = x.end /\ Right(case, k, L, log)
  <2>1. PICK calls \in Seq(Calls(case.wanted)) :
           Good(x, pc, at, calls) /\ Right(case, k, L, Join(log, calls))
    BY DEF LoopInv, OnCourse, OnTheWay, Over
  <2>2. at = x.end /\ calls = <<>>
    BY <1>1, <2>1, GoodOver DEF Over
  <2>3. Join(log, <<>>) = log
    BY <1>0, JoinEmpty DEF PlaceKept
  <2>. QED BY <2>1, <2>2, <2>3
<1>3. \E L : L \in LogSets(case)
  BY AllCallsIn
<1>. QED BY <1>1, <1>2, <1>3

\* From record to record.
LEMMA EndKept ==
    ASSUME LoopInv, EndFilter
    PROVE  LoopInv'
<1>0. CaseKept /\ PlaceKept /\ k \in 1..Len(case.docs) /\ case \in Cases /\ Len(case.docs) \in Nat
  BY StreamFacts DEF LoopInv, CaseKept, PlaceKept
<1>1. UNCHANGED <<case, program, at>> /\ Over
  BY DEF EndFilter, NextDocument
<1>2. CaseKept'
  BY <1>0, <1>1, SameCase
<1>3. CASE k < Len(case.docs)
  <2>1. k' = k + 1 /\ pc' = 1 /\ log' = <<>> /\ status' = "running"
    BY <1>1, <1>3 DEF EndFilter, NextDocument, Over
  <2>2. k + 1 \in 1..Len(case.docs)
    BY <1>0, <1>3
  <2>3. PlaceKept'
    BY <1>0, <1>1, <2>1, <2>2, NoCalls DEF PlaceKept
  <2>4. ASSUME SoundCase(case) PROVE OnCourse'
    <3>1. at = Ends(case, k) + 1 /\ (k + 1) - 1 = k
      BY <1>0, <1>1, <2>4, RecordOver
    <3>2. ASSUME NEW L \in LogSets(case)
          PROVE  \E calls \in Seq(Calls(case.wanted)) :
                    /\ Good(RunOf(case, k + 1), 1, at, calls)
                    /\ Right(case, k + 1, L, Join(<<>>, calls))
      <4>1. PICK calls \in Seq(Calls(case.wanted)) :
               /\ Good(RunOf(case, k + 1), 1, Ends(case, (k + 1) - 1) + 1, calls)
               /\ Right(case, k + 1, L, calls)
        BY <1>0, <2>2, <2>4, GoodStart
      <4>2. Join(<<>>, calls) = calls
        BY JoinEmpty
      <4>. QED BY <3>1, <4>1, <4>2
    <3>. QED BY <1>1, <2>1, <3>2 DEF OnCourse, OnTheWay, AtItsEnd
  <2>. QED BY <1>1, <1>2, <2>3, <2>4 DEF LoopInv
<1>4. CASE ~(k < Len(case.docs))
  <2>1. status' = "done" /\ UNCHANGED <<k, pc, log>>
    BY <1>4 DEF EndFilter, NextDocument
  <2>2. PlaceKept'
    BY <1>0, <1>1, <2>1 DEF PlaceKept
  <2>3. ASSUME SoundCase(case) PROVE OnCourse'
    <3>1. at = Ends(case, k) + 1 /\ \A L \in LogSets(case) : Right(case, k, L, log)
      BY <1>1, <2>3, RecordOver
    <3>. QED BY <1>1, <2>1, <3>1 DEF OnCourse, OnTheWay, AtItsEnd, Over
  <2>. QED BY <1>1, <1>2, <2>2, <2>3 DEF LoopInv
<1>. QED BY <1>3, <1>4

\* The invariant is kept by every step.
LEMMA LoopStep ==
    ASSUME LoopInv, [FilterNext]_loop
    PROVE  LoopInv'
<1>1. CASE RunValue
  BY <1>1, ReadKept DEF RunValue, Running
<1>2. CASE RunUnion
  BY <1>2, UnionKept
<1>3. CASE RunChunks
  <2>1. Wanted(case) = case.wanted
    BY DEF LoopInv, CaseKept, Wanted
  <2>. QED BY <1>3, <2>1, ReadKept DEF RunChunks, Running
<1>4. CASE RunRecordEnd
  BY <1>4, RecordEndKept
<1>5. CASE EndFilter
  BY <1>5, EndKept
<1>6. CASE UNCHANGED loop
  <2>1. UNCHANGED <<case, program, k, pc, at, log, status>>
    BY <1>6 DEF loop
  <2>. QED BY <2>1 DEF LoopInv, CaseKept, PlaceKept, OnCourse, OnTheWay, AtItsEnd
<1>. QED BY <1>1, <1>2, <1>3, <1>4, <1>5, <1>6 DEF FilterNext, Stopped

-----------------------------------------------------------------------------
(* The theorems                                                              *)

\* The invariant holds.
LEMMA LoopInvariant == FilterSpec => []LoopInv
<1>1. FilterInit => LoopInv
  BY LoopInit
<1>2. LoopInv /\ [FilterNext]_loop => LoopInv'
  BY LoopStep
<1>. QED BY <1>1, <1>2, PTL DEF FilterSpec

\* What the invariant says of a case that is sound.
LEMMA CourseFacts ==
    ASSUME LoopInv, Sound
    PROVE  SoundCase(case) /\ OnCourse
<1>1. SoundCase(case)
  BY DEF LoopInv, CaseKept, Sound, SoundCase
<1>. QED BY <1>1 DEF LoopInv

\* At the end of a record of such a case what had to be told is told.
LEMMA ToldAll ==
    ASSUME LoopInv, Sound, AtEnd
    PROVE  /\ at = Ends(case, k) + 1
           /\ \A L \in LogSets(case) : Right(case, k, L, log)
<1>1. SoundCase(case) /\ OnCourse
  BY CourseFacts
<1>2. CASE status = "running"
  BY <1>1, <1>2, RecordOver DEF AtEnd, Over
<1>3. CASE status = "done"
  BY <1>1, <1>3 DEF OnCourse, AtItsEnd
<1>. QED BY <1>2, <1>3 DEF AtEnd, LoopInv, PlaceKept

\* The state of the loop for a filter has the type it is meant to have, with any
\* schema and any records: the items lead forward, and only predicates on nodes are
\* told (blockdecoder.cc:60-98, 529-613).
THEOREM FilterTypes == FilterSpec => []TypeOK
<1>1. ASSUME LoopInv PROVE TypeOK
  <2>1. /\ k \in 1..Len(case.docs) /\ pc \in Nat \ {0} /\ at \in Nat \ {0}
        /\ status \in {"running", "done", "lost"} /\ case.mode = "filter"
    BY <1>1 DEF LoopInv, PlaceKept, CaseKept, Places
  <2>2. ASSUME NEW i \in DOMAIN log PROVE log[i].id \in case.wanted
    <3>1. log \in Seq(Calls(case.wanted))
      BY <1>1 DEF LoopInv, PlaceKept
    <3>2. log[i] \in Calls(case.wanted)
      BY <3>1
    <3>. QED BY <3>2 DEF Calls
  <2>. QED BY <2>1, <2>2 DEF TypeOK
<1>. QED BY <1>1, LoopInvariant, PTL

\* The list for a filter reads each record to its end, and is never lost in it, if it
\* leads to its end and the records are what the recursive reading takes them for
\* (blockdecoder.cc:93-95, 529-613).
THEOREM FilterAligned == FilterSpec => [](Sound => Aligned)
<1>1. ASSUME LoopInv, Sound PROVE Aligned
  <2>1. status # "lost"
    BY <1>1, CourseFacts DEF OnCourse
  <2>2. ASSUME AtEnd PROVE at = Ends(case, k) + 1
    BY <1>1, <2>2, ToldAll
  <2>. QED BY <2>1, <2>2 DEF Aligned, Before, Ends
<1>. QED BY <1>1, LoopInvariant, PTL

\* And by the end of the record each predicate was told, in the same order, what the
\* recursive reading tells it (blockdecoder.cc:92-98).
THEOREM FilterSameCalls == FilterSpec => [](Sound => SameCalls)
<1>1. ASSUME LoopInv, Sound PROVE SameCalls
  <2>1. ASSUME AtEnd PROVE Same(log, DocumentOf(case, k).log)
    BY <1>1, <2>1, ToldAll, AllCallsIn DEF Right
  <2>2. DocumentOf(case, k) = ReferenceOf(k)
    BY DEF DocumentOf, ReferenceOf, Stream, Before, Ends
  <2>. QED BY <2>1, <2>2 DEF SameCalls, Same
<1>. QED BY <1>1, LoopInvariant, PTL

\* And the end of each record that the filter looks into was told after all that is in
\* the record (blockdecoder.cc:560-571).
THEOREM FilterRecordsLast == FilterSpec => [](Sound => RecordsEvaluatedLast)
<1>1. ASSUME LoopInv, Sound PROVE RecordsEvaluatedLast
  <2>1. ASSUME AtEnd, NEW r \in Tree[case.schema], r.kind = "record", r.id \in case.wanted
        PROVE  Ended(log, r)
    <3>1. Tidy(case.wanted, r) \in LogSets(case)
      BY <2>1 DEF LogSets, Records
    <3>2. log \in Tidy(case.wanted, r)
      BY <1>1, <2>1, <3>1, ToldAll DEF Right
    <3>. QED BY <3>2 DEF Tidy
  <2>. QED BY <2>1 DEF RecordsEvaluatedLast
<1>. QED BY <1>1, LoopInvariant, PTL

-----------------------------------------------------------------------------
(* The lists of simple schemas                                               *)

\* The nodes that have items, node by node.
LEMMA ItemizedNodes ==
    /\ Itemized \in [Nodes -> SUBSET Nodes]
    /\ \A s \in Nodes : Itemized[s] = {s} \cup IF s.kind \in {"array", "map"} THEN {}
                                     ELSE UNION {Itemized[s.of[i]] : i \in DOMAIN s.of}
<1>. DEFINE V == SUBSET Nodes
            Body(g, s) == {s} \cup IF s.kind \in {"array", "map"} THEN {}
                                  ELSE UNION {g[s.of[i]] : i \in DOMAIN s.of}
            G == [Nodes -> V]
            step == [pair \in Nodes \X G |-> Body(pair[2], pair[1])]
<1>2. ASSUME NEW g \in G, NEW s \in Nodes PROVE Body(g, s) \in V
  <2>1. \A i \in DOMAIN s.of : g[s.of[i]] \in V
    BY NodeFacts
  <2>. QED BY <2>1
<1>3. ASSUME NEW s \in Nodes, NEW g, NEW h,
             \A x \in Nodes : Depth[x] < Depth[s] => g[x] = h[x]
      PROVE  Body(g, s) = Body(h, s)
  <2>1. \A i \in DOMAIN s.of : g[s.of[i]] = h[s.of[i]]
    BY <1>3, NodeFacts
  <2>. QED BY <2>1
<1>. HIDE DEF Body
<1>4. step \in [Nodes \X G -> V]
  BY <1>2
<1>5. \A s \in Nodes, g \in G : step[<<s, g>>] = Body(g, s)
  OBVIOUS
<1>. HIDE DEF step
<1>6. \A s \in Nodes : \A g, h \in [Nodes -> V] :
         (\A x \in Nodes : Depth[x] < Depth[s] => g[x] = h[x]) => step[<<s, g>>] = step[<<s, h>>]
  <2>. TAKE s \in Nodes
  <2>. TAKE g, h \in [Nodes -> V]
  <2>. HAVE \A x \in Nodes : Depth[x] < Depth[s] => g[x] = h[x]
  <2>1. Body(g, s) = Body(h, s)
    BY <1>3
  <2>. QED BY <2>1, <1>5
<1>7. PICK f : RankRecursive(f, Nodes, V, step)
  <2>1. {} \in V
    OBVIOUS
  <2>. QED BY <2>1, <1>4, <1>6, DepthType, RankRecursion
<1>8. f \in [Nodes -> V] /\ \A s \in Nodes : f[s] = Body(f, s)
  BY <1>5, <1>7 DEF RankRecursive
<1>. DEFINE Is(g) == g = [s \in Nodes |-> Body(g, s)]
<1>9. Is(f)
  <2>1. f = [s \in Nodes |-> f[s]]
    BY <1>8
  <2>. QED BY <1>8, <2>1
<1>11. Itemized = CHOOSE g : Is(g)
  BY DEF Itemized, Body
<1>10. Is(Itemized)
  <2>. HIDE DEF Is
  <2>. QED BY <1>9, <1>11
<1>12. \A s \in Nodes : Itemized[s] = Body(Itemized, s)
  BY <1>10
<1>. DEFINE P == {s \in Nodes : Itemized[s] = f[s]}
<1>13. P = Nodes
  <2>1. ASSUME NEW s \in Nodes, \A x \in Nodes : Depth[x] < Depth[s] => x \in P
        PROVE  s \in P
    <3>1. Body(Itemized, s) = Body(f, s)
      BY <1>3, <2>1
    <3>. QED BY <3>1, <1>8, <1>12
  <2>. P \in SUBSET Nodes
    OBVIOUS
  <2>. HIDE DEF P
  <2>. QED BY SMTT(30), <2>1, DepthType, RankInduct
<1>14. Itemized \in [Nodes -> V]
  <2>1. DOMAIN Itemized = Nodes /\ Itemized = [s \in Nodes |-> Itemized[s]]
    BY <1>10
  <2>2. \A s \in Nodes : Itemized[s] \in V
    BY <1>8, <1>13
  <2>. QED BY <2>1, <2>2
<1>. QED BY <1>12, <1>14 DEF Body

\* A node with single branches has children with single branches.
LEMMA SimpleNodes ==
    ASSUME NEW s \in Nodes, Simple(s)
    PROVE  /\ s.kind \notin {"array", "map"} => \A i \in DOMAIN s.of : Simple(s.of[i])
           /\ s.kind = "union" => \A i \in DOMAIN s.of : s.of[i].kind \in Single
<1>1. s \in Itemized[s]
  BY ItemizedNodes
<1>2. s.kind \notin {"array", "map"} => \A i \in DOMAIN s.of : Itemized[s.of[i]] \subseteq Itemized[s]
  BY ItemizedNodes
<1>. QED BY <1>1, <1>2 DEF Simple

\* Some items stand in a list, from a spot on.
Stands(L, o, items) ==
    /\ o \in Spots(L) /\ o + Len(items) \in Spots(L)
    /\ \A i \in 1..Len(items) : o + i - 1 \in DOMAIN L /\ L[o + i - 1] = items[i]

\* Two lists that stand behind each other.
LEMMA StandsJoin ==
    ASSUME NEW L \in Seq(Items), NEW o, NEW a \in Seq(Items), NEW b \in Seq(Items),
           Stands(L, o, Join(a, b))
    PROVE  /\ Stands(L, o, a) /\ Stands(L, o + Len(a), b)
           /\ Len(Join(a, b)) = Len(a) + Len(b)
<1>. PICK m \in Nat : m = Len(a)
  BY LenProperties
<1>. PICK n \in Nat : n = Len(b)
  BY LenProperties
<1>. PICK l \in Nat : l = Len(L)
  BY LenProperties
<1>1. Len(Join(a, b)) = m + n
  BY ConcatProperties DEF Join
<1>2. \A i \in 1..(m + n) : Join(a, b)[i] = IF i <= m THEN a[i] ELSE b[i - m]
  BY ConcatProperties DEF Join
<1>3. /\ o \in 1..(l + 1) /\ o + (m + n) \in 1..(l + 1)
      /\ \A i \in 1..(m + n) : o + i - 1 \in DOMAIN L /\ L[o + i - 1] = Join(a, b)[i]
  BY <1>1 DEF Stands, Spots
<1>4. Stands(L, o, a)
  <2>1. \A i \in 1..m : o + i - 1 \in DOMAIN L /\ L[o + i - 1] = a[i]
    BY <1>2, <1>3
  <2>. QED BY <1>3, <2>1 DEF Stands, Spots
<1>5. Stands(L, o + m, b)
  <2>1. ASSUME NEW i \in 1..n PROVE (o + m) + i - 1 \in DOMAIN L /\ L[(o + m) + i - 1] = b[i]
    <3>1. /\ m + i \in 1..(m + n) /\ ~(m + i <= m) /\ (m + i) - m = i
          /\ o + (m + i) - 1 = (o + m) + i - 1
      BY <1>3
    <3>2. o + (m + i) - 1 \in DOMAIN L /\ L[o + (m + i) - 1] = Join(a, b)[m + i]
      BY <1>3, <3>1
    <3>. QED BY <1>2, <3>1, <3>2
  <2>2. o + m \in 1..(l + 1) /\ (o + m) + n \in 1..(l + 1)
    BY <1>3
  <2>. QED BY <2>1, <2>2 DEF Stands, Spots
<1>. QED BY <1>1, <1>4, <1>5

\* The one item of a leaf, a null or a collection.
SingleItem(s, ret) ==
    Item(IF s.kind \in {"array", "map"} THEN "chunks" ELSE "value", s, ret, <<>>)

\* Leaves, nulls and collections compile into one item, which hands over to `ret'.
LEMMA SingleCode ==
    ASSUME NEW wanted, NEW s \in Nodes, s.kind \in Single, NEW ret \in Nat
    PROVE  compileFilteringParser(wanted)[s][ret] = Compiled(<<SingleItem(s, ret)>>, 1)
<1>. PICK C : C = compileFilteringParser(wanted)
  OBVIOUS
<1>1. C[s][ret] = CompileForFilter(C, wanted, s, ret)
  BY CompiledNodes
<1>2. CompileForFilter(C, wanted, s, ret) = Compiled(<<SingleItem(s, ret)>>, 1)
  BY DEF CompileForFilter, SingleItem, Single
<1>. QED BY <1>1, <1>2

\* It leads as far as it says.
LEMMA SingleLeads ==
    ASSUME NEW L \in Seq(Items), NEW wanted, NEW s \in Nodes, s.kind \in Single,
           NEW ret \in Nat, NEW o \in DOMAIN L, L[o] = SingleItem(s, ret),
           o \in Spots(L), o + ret \in Spots(L)
    PROVE  o + ret \in Exits(L, wanted)[s][o]
<1>. PICK ways : ways = [i \in DOMAIN s.of |-> Exits(L, wanted)[s.of[i]]]
  OBVIOUS
<1>1. Exits(L, wanted)[s] = ExitsOf(L, wanted, ways, s)
  BY ExitsNodes
<1>. PICK op : op = IF s.kind \in {"array", "map"} THEN "chunks" ELSE "value"
  OBVIOUS
<1>2. L[o].op = op /\ L[o].node = s /\ L[o].ret = ret
  BY DEF SingleItem, Item
<1>3. o + ret \in Behind(L, op, s, o) /\ (s.kind = "null" => o + ret \in Past(L, o))
  BY <1>2 DEF Behind, Past
<1>. QED BY <1>1, <1>3 DEF ExitsOf, Single

\* From where the items of a node begin, it leads to behind them.
Leads(L, wanted, s) ==
    \A o : LET items == compileFilteringParser(wanted)[s][1].items
           IN  Stands(L, o, items) => o + Len(items) \in Exits(L, wanted)[s][o]

\* The codes of children, and ways through them.
LEMMA ChildCodes ==
    ASSUME NEW L, NEW wanted, NEW s \in Nodes, NEW n \in Nat, n = Len(s.of)
    PROVE  /\ \A i \in 1..n : compileFilteringParser(wanted)[s.of[i]] \in Codes
           /\ [i \in DOMAIN s.of |-> Exits(L, wanted)[s.of[i]]] \in [1..n -> Ways(L)]
<1>1. DOMAIN s.of = 1..n /\ \A i \in 1..n : s.of[i] \in Nodes
  BY NodeFacts
<1>2. compileFilteringParser(wanted) \in [Nodes -> Codes] /\ Exits(L, wanted) \in [Nodes -> Ways(L)]
  BY CompiledNodes, ExitsNodes
<1>. QED BY <1>1, <1>2

\* Fields lead to behind the last.
LEMMA FieldsLead ==
    ASSUME NEW L \in Seq(Items), NEW wanted, NEW s \in Nodes,
           \A i \in DOMAIN s.of : Leads(L, wanted, s.of[i]),
           NEW o, Stands(L, o, CompileFields(compileFilteringParser(wanted), s.of).items)
    PROVE  o + Len(CompileFields(compileFilteringParser(wanted), s.of).items)
              \in Through([i \in DOMAIN s.of |-> Exits(L, wanted)[s.of[i]]], o)
<1>. PICK n \in Nat : n = Len(s.of) /\ DOMAIN s.of = 1..n
  BY NodeFacts
<1>. PICK C : C = compileFilteringParser(wanted)
  OBVIOUS
<1>. PICK E : E = Exits(L, wanted)
  OBVIOUS
<1>. PICK ways : ways = [i \in DOMAIN s.of |-> E[s.of[i]]]
  OBVIOUS
<1>1. (\A i \in 1..n : C[s.of[i]] \in Codes) /\ ways \in [1..n -> Ways(L)]
  BY ChildCodes
<1>2. PICK F : Fields(F, C, s.of)
  BY <1>1, FieldsSteps
<1>3. CompileFields(C, s.of) = F[n]
  BY <1>1, <1>2, FieldsSteps
<1>4. /\ F \in [0..n -> Code] /\ F[0] = Compiled(<<>>, 0)
      /\ \A i \in 1..n : F[i] = Added(F[i - 1], C[s.of[i]][1])
  BY <1>2 DEF Fields
<1>5. o \in Spots(L)
  BY DEF Stands
<1>6. PICK T : Passes(T, L, n, ways, o)
  BY <1>1, <1>5, ThroughSteps
<1>7. /\ T \in [0..n -> SUBSET Spots(L)] /\ T[0] = {o}
      /\ \A i \in 1..n : T[i] = UNION {ways[i][e] : e \in T[i - 1]}
      /\ Through(ways, o) = T[n]
  BY <1>6 DEF Passes
<1>. DEFINE P == {i \in 0..n : Stands(L, o, F[i].items) => o + Len(F[i].items) \in T[i]}
<1>8. 0 \in P
  <2>1. F[0].items = <<>> /\ Len(<<>>) = 0 /\ 0 \in 0..n
    BY <1>4 DEF Compiled
  <2>2. o + 0 = o
    BY <1>5, LenProperties DEF Spots
  <2>. QED BY <1>7, <2>1, <2>2
<1>9. ASSUME NEW i \in P, i < n PROVE i + 1 \in P
  <2>. PICK j \in 1..n : j = i + 1
    BY <1>9
  <2>1. j - 1 = i /\ i \in 0..n /\ j \in 0..n
    OBVIOUS
  <2>. PICK a \in Seq(Items) : a = F[i].items
    BY <1>4, <2>1 DEF Code
  <2>. PICK b \in Seq(Items) : b = C[s.of[j]][1].items
    BY <1>1 DEF Code, Codes
  <2>. PICK la \in Nat : la = Len(a)
    BY LenProperties
  <2>. PICK lb \in Nat : lb = Len(b)
    BY LenProperties
  <2>2. F[j] = Added(F[i], C[s.of[j]][1])
    BY <1>4, <2>1
  <2>3. F[j].items = Join(a, b)
    BY <2>2, AddedItems
  <2>0. SUFFICES ASSUME Stands(L, o, Join(a, b)) PROVE o + Len(Join(a, b)) \in T[j]
    BY <2>1, <2>3
  <2>4. /\ Stands(L, o, a) /\ Stands(L, o + la, b)
        /\ Len(Join(a, b)) = la + lb
    BY ONLY SMTT(30), <2>0, a \in Seq(Items), b \in Seq(Items), la = Len(a), lb = Len(b),
            L \in Seq(Items), StandsJoin
  <2>5. o + la \in T[i]
    BY <2>4
  <2>6. (o + la) + lb \in E[s.of[j]][o + la]
    BY <2>4 DEF Leads
  <2>7. (o + la) + lb \in T[j]
    <3>1. ways[j] = E[s.of[j]]
      OBVIOUS
    <3>2. T[j] = UNION {ways[j][e] : e \in T[i]}
      BY <1>7, <2>1
    <3>. QED BY <2>5, <2>6, <3>1, <3>2
  <2>8. (o + la) + lb = o + (la + lb)
    <3>1. o \in Nat
      BY <1>5, LenProperties DEF Spots
    <3>. QED BY ONLY <3>1, la \in Nat, lb \in Nat
  <2>. QED BY <2>4, <2>7, <2>8
<1>10. P = 0..n
  <2>. P \in SUBSET (0..n)
    OBVIOUS
  <2>. HIDE DEF P
  <2>. QED BY <1>8, <1>9, InductTo
<1>. QED BY <1>3, <1>7, <1>10

\* A record leads to behind its items.
LEMMA RecordLeads ==
    ASSUME NEW L \in Seq(Items), NEW wanted, NEW s \in Nodes, s.kind = "record",
           \A i \in DOMAIN s.of : Leads(L, wanted, s.of[i])
    PROVE  Leads(L, wanted, s)
<1>. PICK n \in Nat : n = Len(s.of)
  BY NodeFacts
<1>. PICK C : C = compileFilteringParser(wanted)
  OBVIOUS
<1>. PICK E : E = Exits(L, wanted)
  OBVIOUS
<1>. PICK ways : ways = [i \in DOMAIN s.of |-> E[s.of[i]]]
  OBVIOUS
<1>. PICK fields : fields = CompileFields(C, s.of)
  OBVIOUS
<1>. PICK end : end = IF s.id \in wanted THEN <<Item("recordEnd", s, 1, <<>>)>> ELSE <<>>
  OBVIOUS
<1>1. C[s][1].items = Join(fields.items, end)
  <2>1. C[s][1] = CompileForFilter(C, wanted, s, 1)
    BY CompiledNodes
  <2>2. CompileForFilter(C, wanted, s, 1) = RecordForFilter(C, wanted, s, 1)
    BY DEF CompileForFilter
  <2>3. RecordForFilter(C, wanted, s, 1) = Compiled(Join(fields.items, end), 1 + fields.size)
    BY DEF RecordForFilter, Join
  <2>. QED BY <2>1, <2>2, <2>3 DEF Compiled
<1>2. E[s] = ExitsOf(L, wanted, ways, s)
  BY ExitsNodes
<1>3. fields.items \in Seq(Items)
  <2>1. \A i \in 1..n : C[s.of[i]] \in Codes
    BY ChildCodes
  <2>2. PICK F : Fields(F, C, s.of)
    BY <2>1, FieldsSteps
  <2>3. fields = F[n]
    BY <2>1, <2>2, FieldsSteps
  <2>4. fields \in Code
    BY <2>2, <2>3 DEF Fields
  <2>. QED BY <2>4 DEF Code
<1>4. end \in Seq(Items)
  <2>1. <<>> \in Seq(Nat) /\ <<>> \in Seq(Items) /\ 1 \in Nat
    OBVIOUS
  <2>2. <<Item("recordEnd", s, 1, <<>>)>> \in Seq(Items)
    BY <2>1, ItemType DEF Ops
  <2>. QED BY <2>1, <2>2
<1>. PICK items \in Seq(Items) : items = fields.items
  BY <1>3
<1>. PICK last \in Seq(Items) : last = end
  BY <1>4
<1>5. ASSUME NEW o, Stands(L, o, Join(items, last))
      PROVE  o + Len(Join(items, last)) \in E[s][o]
  <2>. PICK m \in Nat : m = Len(items)
    BY LenProperties
  <2>. PICK l \in Nat : l = Len(last)
    BY LenProperties
  <2>1. /\ Stands(L, o, items) /\ Stands(L, o + m, last)
        /\ Len(Join(items, last)) = m + l
    BY ONLY <1>5, items \in Seq(Items), last \in Seq(Items),
            m = Len(items), l = Len(last), L \in Seq(Items), StandsJoin
  <2>2. o + m \in Through(ways, o)
    BY <2>1, FieldsLead
  <2>3. o \in Spots(L) /\ o \in Nat
    BY <1>5, LenProperties DEF Stands, Spots
  <2>4. CASE s.id \notin wanted
    <3>1. l = 0
      BY <2>4
    <3>2. o + (m + l) = o + m
      BY ONLY <2>3, <3>1, m \in Nat
    <3>3. E[s][o] = Through(ways, o)
      BY <1>2, <2>3, <2>4 DEF ExitsOf
    <3>. QED BY <2>1, <2>2, <3>2, <3>3
  <2>5. CASE s.id \in wanted
    <3>1. l = 1 /\ last[1] = Item("recordEnd", s, 1, <<>>)
      BY <2>5
    <3>. PICK e \in Nat : e = o + m
      BY <2>3
    <3>2. e \in DOMAIN L /\ L[e] = last[1] /\ e + 1 \in Spots(L)
      <4>1. 1 \in 1..l /\ e + 1 - 1 = e
        BY <3>1
      <4>. QED BY <2>1, <3>1, <4>1 DEF Stands
    <3>3. e + 1 \in Behind(L, "recordEnd", s, e)
      BY <3>1, <3>2 DEF Behind, Item
    <3>4. o + (m + l) = e + 1
      BY ONLY <2>3, <3>1, m \in Nat, e = o + m
    <3>5. E[s][o] = UNION {Behind(L, "recordEnd", s, d) : d \in Through(ways, o)}
      BY <1>2, <2>3, <2>5 DEF ExitsOf
    <3>. QED BY <2>1, <2>2, <3>3, <3>4, <3>5
  <2>. QED BY <2>4, <2>5
<1>. QED BY <1>1, <1>5 DEF Leads

\* The parts of what is made of a branch and the others.
LEMMA PutParts ==
    ASSUME NEW first, NEW rest, NEW ret
    PROVE  /\ Put(first, rest, ret).items = Join(first.items, rest.items)
           /\ Put(first, rest, ret).left = rest.left + first.size
           /\ Put(first, rest, ret).skipping
                 = Append(rest.skipping, (rest.left + first.size) - ret)
BY DEF Put, Part

\* Some single branches, the last of them: how far behind the union each is, and how
\* far it leads.
Row(ss, n, j, ret, part) ==
    /\ part.left = ret + j
    /\ part.items \in Seq(Items) /\ Len(part.items) = j
    /\ \A i \in 1..j : part.items[i] = SingleItem(ss[(n - j) + i], ret + (j - i))
    /\ part.skipping \in Seq(Nat) /\ Len(part.skipping) = j
    /\ \A b \in 1..j : part.skipping[b] = b

\* One more in front.
LEMMA RowMore ==
    ASSUME NEW ss, NEW n \in Nat, NEW j \in Nat, j < n, NEW ret \in Nat,
           NEW part, Row(ss, n, j, ret, part),
           ss[n - j] \in Nodes,
           NEW first, first = Compiled(<<SingleItem(ss[n - j], ret + j)>>, 1)
    PROVE  Row(ss, n, j + 1, ret, Put(first, part, ret))
<1>. PICK s \in Nodes : s = ss[n - j]
  OBVIOUS
<1>. PICK it : it = SingleItem(s, ret + j)
  OBVIOUS
<1>. PICK items \in Seq(Items) : items = part.items
  BY DEF Row
<1>. PICK skipping \in Seq(Nat) : skipping = part.skipping
  BY DEF Row
<1>. PICK one : one = <<it>>
  OBVIOUS
<1>. PICK more : more = Put(first, part, ret)
  OBVIOUS
<1>1. one \in Seq(Items) /\ Len(one) = 1 /\ one[1] = it
  <2>1. it \in Items
    <3>1. <<>> \in Seq(Nat) /\ ret + j \in Nat
      OBVIOUS
    <3>2. (IF s.kind \in {"array", "map"} THEN "chunks" ELSE "value") \in Ops
      BY DEF Ops
    <3>. QED BY <3>1, <3>2, ItemType DEF SingleItem
  <2>. QED BY <2>1
<1>2. first.items = one /\ first.size = 1
  BY DEF Compiled
<1>3. Len(items) = j /\ Len(skipping) = j /\ part.left = ret + j
  BY DEF Row
<1>4. /\ \A i \in 1..j : items[i] = SingleItem(ss[(n - j) + i], ret + (j - i))
      /\ \A b \in 1..j : skipping[b] = b
  BY DEF Row
<1>5. more.items = Join(one, items) /\ more.left = (ret + j) + 1
  <2>1. more.items = Join(first.items, part.items)
    BY PutParts
  <2>2. more.left = part.left + first.size
    BY PutParts
  <2>. QED BY <1>2, <1>3, <2>1, <2>2
<1>6. more.skipping = Append(skipping, j + 1)
  <2>1. more.skipping = Append(skipping, ((ret + j) + 1) - ret)
    BY SMTT(30), <1>2, <1>3, PutParts
  <2>2. ((ret + j) + 1) - ret = j + 1
    OBVIOUS
  <2>. QED BY <2>1, <2>2
<1>7. more.left = ret + (j + 1)
  BY <1>5
<1>8. /\ Join(one, items) \in Seq(Items) /\ Len(Join(one, items)) = j + 1
      /\ \A i \in 1..(j + 1) : Join(one, items)[i] = IF i <= 1 THEN one[i] ELSE items[i - 1]
  <2>1. Join(one, items) \in Seq(Items)
    BY <1>1, JoinType
  <2>2. /\ Len(Join(one, items)) = Len(one) + Len(items)
        /\ \A i \in 1..(Len(one) + Len(items)) :
              Join(one, items)[i] = IF i <= Len(one) THEN one[i] ELSE items[i - Len(one)]
    BY <1>1, ConcatProperties DEF Join
  <2>3. Len(one) + Len(items) = j + 1
    BY <1>1, <1>3
  <2>. QED BY <1>1, <2>1, <2>2, <2>3
<1>9. ASSUME NEW i \in 1..(j + 1)
      PROVE  Join(one, items)[i] = SingleItem(ss[(n - (j + 1)) + i], ret + ((j + 1) - i))
  <2>1. CASE i = 1
    <3>1. (n - (j + 1)) + i = n - j /\ ret + ((j + 1) - i) = ret + j /\ i <= 1
      BY <2>1
    <3>. QED BY <1>1, <1>8, <2>1, <3>1
  <2>2. CASE i # 1
    <3>1. /\ i - 1 \in 1..j /\ ~(i <= 1)
          /\ (n - j) + (i - 1) = (n - (j + 1)) + i
          /\ ret + (j - (i - 1)) = ret + ((j + 1) - i)
      BY <2>2
    <3>2. Join(one, items)[i] = items[i - 1]
      BY <1>8, <3>1
    <3>. QED BY <1>4, <3>1, <3>2
  <2>. QED BY <2>1, <2>2
<1>10. /\ Append(skipping, j + 1) \in Seq(Nat) /\ Len(Append(skipping, j + 1)) = j + 1
       /\ \A b \in 1..(j + 1) : Append(skipping, j + 1)[b] = b
  <2>1. /\ Append(skipping, j + 1) \in Seq(Nat) /\ Len(Append(skipping, j + 1)) = j + 1
        /\ \A b \in 1..j : Append(skipping, j + 1)[b] = skipping[b]
        /\ Append(skipping, j + 1)[j + 1] = j + 1
    BY <1>3, AppendProperties
  <2>2. \A b \in 1..(j + 1) : b \in 1..j \/ b = j + 1
    OBVIOUS
  <2>. QED BY <1>4, <2>1, <2>2
<1>. QED BY <1>5, <1>6, <1>7, <1>8, <1>9, <1>10 DEF Row

\* The code of single branches.
LEMMA SingleBranches ==
    ASSUME NEW wanted, NEW s \in Nodes, \A i \in DOMAIN s.of : s.of[i].kind \in Single,
           NEW n \in Nat, n = Len(s.of), NEW ret \in Nat
    PROVE  Row(s.of, n, n, ret, CompileBranches(compileFilteringParser(wanted), s.of, ret))
<1>. PICK C : C = compileFilteringParser(wanted)
  OBVIOUS
<1>1. /\ DOMAIN s.of = 1..n /\ \A i \in 1..n : s.of[i] \in Nodes
      /\ \A i \in 1..n : C[s.of[i]] \in Codes
  <2>1. DOMAIN s.of = 1..n /\ \A i \in DOMAIN s.of : s.of[i] \in Nodes
    BY NodeFacts
  <2>. QED BY <2>1, CompiledNodes
<1>2. PICK F : LastPart(F, C, s.of, ret)
  BY <1>1, BranchesSteps
<1>3. CompileBranches(C, s.of, ret) = F[1]
  BY <1>1, <1>2, BranchesSteps
<1>4. /\ F[n + 1] = Part(<<>>, ret, <<>>)
      /\ \A i \in 1..n : F[i] = Put(C[s.of[i]][F[i + 1].left], F[i + 1], ret)
  BY <1>2 DEF LastPart
<1>. DEFINE P == {j \in 0..n : Row(s.of, n, j, ret, F[n + 1 - j])}
<1>5. 0 \in P
  <2>1. n + 1 - 0 = n + 1 /\ 0 \in 0..n /\ ret + 0 = ret
    OBVIOUS
  <2>2. F[n + 1].items = <<>> /\ F[n + 1].left = ret /\ F[n + 1].skipping = <<>>
    BY <1>4 DEF Part
  <2>3. <<>> \in Seq(Items) /\ <<>> \in Seq(Nat) /\ Len(<<>>) = 0
    OBVIOUS
  <2>4. \A i \in 1..0 : FALSE
    OBVIOUS
  <2>5. Row(s.of, n, 0, ret, F[n + 1])
    BY <2>1, <2>2, <2>3, <2>4 DEF Row
  <2>. QED BY <2>1, <2>5
<1>6. ASSUME NEW j \in P, j < n PROVE j + 1 \in P
  <2>0. j \in 0..n /\ j < n
    BY <1>6
  <2>1. /\ j \in Nat /\ n - j \in 1..n /\ j + 1 \in 0..n
        /\ n + 1 - (j + 1) = n - j /\ (n - j) + 1 = n + 1 - j
    BY ONLY <2>0, n \in Nat
  <2>. PICK part : part = F[n + 1 - j]
    OBVIOUS
  <2>2. Row(s.of, n, j, ret, part)
    OBVIOUS
  <2>3. part.left = ret + j /\ ret + j \in Nat
    BY <2>1, <2>2 DEF Row
  <2>4. s.of[n - j] \in Nodes /\ s.of[n - j].kind \in Single
    BY <1>1, <2>1
  <2>. PICK first : first = C[s.of[n - j]][ret + j]
    OBVIOUS
  <2>5. first = Compiled(<<SingleItem(s.of[n - j], ret + j)>>, 1)
    BY <2>3, <2>4, SingleCode
  <2>6. F[n - j] = Put(first, part, ret)
    BY <1>4, <2>1, <2>3
  <2>7. Row(s.of, n, j + 1, ret, F[n - j])
    BY <1>6, <2>1, <2>2, <2>4, <2>5, <2>6, RowMore
  <2>. QED BY <2>1, <2>7
<1>7. P = 0..n
  <2>. P \in SUBSET (0..n)
    OBVIOUS
  <2>. HIDE DEF P
  <2>. QED BY <1>5, <1>6, InductTo
<1>8. n \in P /\ n + 1 - n = 1
  BY <1>7
<1>. QED BY <1>3, <1>8

\* A union of single branches leads to behind them.
LEMMA UnionLeads ==
    ASSUME NEW L \in Seq(Items), NEW wanted, NEW s \in Nodes, s.kind = "union",
           \A i \in DOMAIN s.of : s.of[i].kind \in Single
    PROVE  Leads(L, wanted, s)
<1>. PICK n \in Nat : n = Len(s.of) /\ DOMAIN s.of = 1..n
  BY NodeFacts
<1>. PICK C : C = compileFilteringParser(wanted)
  OBVIOUS
<1>. PICK E : E = Exits(L, wanted)
  OBVIOUS
<1>. PICK ways : ways = [i \in DOMAIN s.of |-> E[s.of[i]]]
  OBVIOUS
<1>. PICK part : part = CompileBranches(C, s.of, 1)
  OBVIOUS
<1>1. Row(s.of, n, n, 1, part)
  BY SingleBranches
<1>. PICK items \in Seq(Items) : items = part.items
  BY <1>1 DEF Row
<1>. PICK skipping \in Seq(Nat) : skipping = part.skipping
  BY <1>1 DEF Row
<1>2. /\ Len(items) = n /\ Len(skipping) = n
      /\ \A i \in 1..n : items[i] = SingleItem(s.of[i], 1 + (n - i))
      /\ \A b \in 1..n : skipping[b] = b
  <2>1. /\ Len(items) = n /\ Len(skipping) = n
        /\ \A i \in 1..n : items[i] = SingleItem(s.of[(n - n) + i], 1 + (n - i))
        /\ \A b \in 1..n : skipping[b] = b
    BY <1>1 DEF Row
  <2>2. \A i \in 1..n : (n - n) + i = i
    OBVIOUS
  <2>. QED BY <2>1, <2>2
<1>. PICK one : one = <<Item("union", s, 1, skipping)>>
  OBVIOUS
<1>3. one \in Seq(Items) /\ Len(one) = 1 /\ one[1] = Item("union", s, 1, skipping)
  BY ItemType DEF Ops
<1>4. C[s][1].items = Join(one, items)
  <2>1. C[s][1] = CompileForFilter(C, wanted, s, 1)
    BY CompiledNodes
  <2>2. CompileForFilter(C, wanted, s, 1) = CompileUnion(C, s, 1)
    BY DEF CompileForFilter
  <2>3. CompileUnion(C, s, 1) = Compiled(Join(one, items), part.left)
    BY DEF CompileUnion, Join
  <2>. QED BY <2>1, <2>2, <2>3 DEF Compiled
<1>5. E[s] = ExitsOf(L, wanted, ways, s)
  BY ZenonT(60), ExitsNodes
<1>6. ASSUME NEW o, Stands(L, o, Join(one, items))
      PROVE  o + Len(Join(one, items)) \in E[s][o]
  <2>1. /\ Stands(L, o, one) /\ Stands(L, o + 1, items)
        /\ Len(Join(one, items)) = 1 + n
    <3>1. Len(items) = n /\ one \in Seq(Items) /\ Len(one) = 1
      BY <1>2, <1>3
    <3>2. /\ Stands(L, o, one) /\ Stands(L, o + Len(one), items)
          /\ Len(Join(one, items)) = Len(one) + Len(items)
      <4>1. one \in Seq(Items)
        BY <3>1
      <4>. QED BY ONLY <4>1, <1>6, items \in Seq(Items), L \in Seq(Items), StandsJoin
    <3>. QED BY ONLY <3>1, <3>2
  <2>2. o \in Spots(L) /\ o \in Nat
    BY <1>6, LenProperties DEF Stands, Spots
  <2>. PICK e \in Nat : e = o + (1 + n)
    BY <2>2
  <2>3. e \in Spots(L)
    BY <1>6, <2>1 DEF Stands
  <2>4. o \in DOMAIN L /\ L[o] = Item("union", s, 1, skipping)
    <3>1. 1 \in 1..1 /\ o + 1 - 1 = o
      BY <2>2
    <3>. QED BY <1>3, <2>1, <3>1 DEF Stands
  <2>5. L[o].op = "union" /\ L[o].node = s /\ L[o].skipping = skipping
    BY <2>4 DEF Item
  <2>6. DOMAIN skipping = 1..n
    BY <1>2, LenProperties
  <2>7. ASSUME NEW b \in 1..n
        PROVE  /\ o + skipping[b] \in Spots(L)
               /\ \E last \in ways[b][o + skipping[b]] : e \in Past(L, last)
    <3>1. skipping[b] = b
      BY <1>2
    <3>2. (o + 1) + b - 1 = o + b /\ (o + b) + (1 + (n - b)) = e
      BY ONLY <2>2, b \in 1..n, e = o + (1 + n), n \in Nat
    <3>3. o + b \in DOMAIN L /\ L[o + b] = SingleItem(s.of[b], 1 + (n - b))
      BY <1>2, <2>1, <3>2 DEF Stands
    <3>4. o + b \in Spots(L)
      BY <3>3, LenProperties DEF Spots
    <3>5. s.of[b] \in Nodes /\ s.of[b].kind \in Single /\ 1 + (n - b) \in Nat
      BY NodeFacts
    <3>. PICK q : q = o + b
      OBVIOUS
    <3>. PICK ret \in Nat : ret = 1 + (n - b)
      BY <3>5
    <3>6. q + ret \in Exits(L, wanted)[s.of[b]][q]
      BY <2>3, <3>2, <3>3, <3>4, <3>5, SingleLeads
    <3>7. e \in ways[b][q]
      BY <3>2, <3>6
    <3>8. e \in Past(L, e)
      BY <2>3 DEF Past
    <3>. QED BY <3>1, <3>4, <3>7, <3>8
  <2>8. e \in Branches(L, ways, s, o)
    BY <2>3, <2>4, <2>5, <2>6, <2>7 DEF Branches
  <2>9. E[s][o] = Branches(L, ways, s, o)
    BY <1>5, <2>2 DEF ExitsOf
  <2>. QED BY <2>1, <2>8, <2>9
<1>. QED BY <1>4, <1>6 DEF Leads

\* So does every node with single branches.
LEMMA NodeLeads ==
    ASSUME NEW L \in Seq(Items), NEW wanted
    PROVE  \A s \in Nodes : Simple(s) => Leads(L, wanted, s)
<1>. DEFINE P == {s \in Nodes : Simple(s) => Leads(L, wanted, s)}
<1>1. ASSUME NEW s \in Nodes, \A y \in Nodes : Depth[y] < Depth[s] => y \in P
      PROVE  s \in P
  <2>. SUFFICES ASSUME Simple(s) PROVE Leads(L, wanted, s)
    OBVIOUS
  <2>0. s.kind \notin {"array", "map"} => \A i \in DOMAIN s.of : Leads(L, wanted, s.of[i])
    <3>1. \A i \in DOMAIN s.of : s.of[i] \in P
      BY <1>1, NodeFacts
    <3>. QED BY <3>1, SimpleNodes
  <2>1. CASE s.kind \in Single
    <3>. SUFFICES ASSUME NEW o, Stands(L, o, compileFilteringParser(wanted)[s][1].items)
                  PROVE  o + Len(compileFilteringParser(wanted)[s][1].items) \in Exits(L, wanted)[s][o]
      BY DEF Leads
    <3>. PICK items : items = compileFilteringParser(wanted)[s][1].items
      OBVIOUS
    <3>1. items = <<SingleItem(s, 1)>>
      <4>1. compileFilteringParser(wanted)[s][1] = Compiled(<<SingleItem(s, 1)>>, 1)
        BY <2>1, SingleCode
      <4>. QED BY <4>1 DEF Compiled
    <3>2. Len(items) = 1 /\ items[1] = SingleItem(s, 1)
      BY <3>1
    <3>3. o \in Spots(L) /\ o \in Nat /\ o + 1 \in Spots(L)
      BY <3>2, LenProperties DEF Stands, Spots
    <3>4. o \in DOMAIN L /\ L[o] = SingleItem(s, 1)
      <4>1. 1 \in 1..1 /\ o + 1 - 1 = o
        BY <3>3
      <4>. QED BY <3>2, <4>1 DEF Stands
    <3>5. o + 1 \in Exits(L, wanted)[s][o]
      BY <2>1, <3>3, <3>4, SingleLeads
    <3>. QED BY <3>2, <3>5
  <2>2. CASE s.kind = "custom"
    <3>1. s.of[1] \in Nodes /\ Leads(L, wanted, s.of[1])
      BY <2>0, <2>2, NodeFacts
    <3>2. compileFilteringParser(wanted)[s][1] = compileFilteringParser(wanted)[s.of[1]][1]
      <4>. PICK C : C = compileFilteringParser(wanted)
        OBVIOUS
      <4>1. C[s][1] = CompileForFilter(C, wanted, s, 1)
        BY CompiledNodes
      <4>. QED BY <2>2, <4>1 DEF CompileForFilter
    <3>3. \A o \in Spots(L) : Exits(L, wanted)[s][o] = Exits(L, wanted)[s.of[1]][o]
      <4>. PICK ways : ways = [i \in DOMAIN s.of |-> Exits(L, wanted)[s.of[i]]]
        OBVIOUS
      <4>1. Exits(L, wanted)[s] = ExitsOf(L, wanted, ways, s)
        BY ExitsNodes
      <4>2. ways[1] = Exits(L, wanted)[s.of[1]]
        BY <2>2, NodeFacts
      <4>. QED BY <2>2, <4>1, <4>2 DEF ExitsOf
    <3>. QED BY <3>1, <3>2, <3>3 DEF Leads, Stands
  <2>3. CASE s.kind = "record"
    BY <2>0, <2>3, RecordLeads
  <2>4. CASE s.kind = "union"
    BY <2>4, SimpleNodes, UnionLeads
  <2>. QED BY <2>1, <2>2, <2>3, <2>4, NodeFacts DEF Kinds, Single
<1>2. P = Nodes
  <2>1. P \in SUBSET Nodes
    OBVIOUS
  <2>. HIDE DEF P
  <2>. QED BY SMTT(30), <1>1, <2>1, DepthType, RankInduct
<1>. QED BY <1>2

\* The compiler is right for simple schemas: where every branch of a union is a null,
\* a leaf, an array or a map, the list leads to its end, whatever the filter is on
\* (blockdecoder.cc:529-613).
THEOREM SimpleConnected ==
    \A wanted : \A s \in Nodes :
        Simple(s) => Connected(compileFilteringParser(wanted)[s][1].items, wanted, s)
<1>. SUFFICES ASSUME NEW wanted, NEW s \in Nodes, Simple(s)
              PROVE  Connected(compileFilteringParser(wanted)[s][1].items, wanted, s)
  OBVIOUS
<1>. PICK L : L = compileFilteringParser(wanted)[s][1].items
  OBVIOUS
<1>1. L \in Seq(Items)
  <2>1. compileFilteringParser(wanted)[s][1] \in Code
    BY CompiledNodes DEF Codes
  <2>. QED BY <2>1 DEF Code
<1>2. Leads(L, wanted, s)
  BY <1>1, NodeLeads
<1>. PICK l \in Nat : l = Len(L)
  BY <1>1, LenProperties
<1>3. Stands(L, 1, L)
  <2>1. 1 \in 1..(l + 1) /\ 1 + l \in 1..(l + 1)
    OBVIOUS
  <2>2. \A i \in 1..l : 1 + i - 1 = i /\ i \in DOMAIN L
    BY <1>1, LenProperties
  <2>. QED BY <2>1, <2>2 DEF Stands, Spots
<1>4. 1 + l \in Exits(L, wanted)[s][1]
  BY <1>2, <1>3 DEF Leads
<1>5. 1 + l = l + 1
  OBVIOUS
<1>. QED BY <1>4, <1>5 DEF Connected

\* So with a simple schema the loop reads every record to its end, and tells every
\* predicate what the recursive reading does and of a record last that it ended, as
\* long as the recursive reading can read the records.
THEOREM SimpleReading ==
    FilterSpec => [](Simple(case.schema) /\ WholeDocuments(case) /\ NodesApart
                        => Aligned /\ SameCalls /\ RecordsEvaluatedLast)
<1>. DEFINE Given == Simple(case.schema) /\ WholeDocuments(case) /\ NodesApart
<1>1. LoopInv /\ Given => Sound
  <2>. SUFFICES ASSUME LoopInv, Given PROVE Sound
    OBVIOUS
  <2>1. case \in Cases /\ program = Compilation(case)
    BY DEF LoopInv, CaseKept
  <2>2. case.schema \in Nodes
    BY <2>1, StreamFacts
  <2>. QED BY <2>1, <2>2, SimpleConnected DEF Sound, Compilation
<1>. HIDE DEF Given
<1>2. FilterSpec => [](Given => Aligned /\ SameCalls /\ RecordsEvaluatedLast)
  BY <1>1, LoopInvariant, FilterAligned, FilterSameCalls, FilterRecordsLast, PTL
<1>. QED BY <1>2 DEF Given
===============================================================================
