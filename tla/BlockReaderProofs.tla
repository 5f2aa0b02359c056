-------------------------- MODULE BlockReaderProofs ---------------------------
(***************************************************************************)
(* BlockReader's properties, for all files and all sizes.                  *)
(*                                                                         *)
(* First where everything is in what was written: W is the whole file, of  *)
(* which the file is the beginning, and At says where its parts are.  Then *)
(* what each reading of them finds, whether they are there or cut.  The    *)
(* invariant IInv says where the emitter and the worker are: the emitter's *)
(* pointer is at the end of a block, unless the header was cut (Placed),   *)
(* the block in hand is one that was written (Held), and the worker is     *)
(* where one of its records begins (InPlace).  Two more go on top of it:   *)
(* Reported, why the run is over, and Behind, where the worker is when the *)
(* count says that there are more records than there are.                  *)
(***************************************************************************)
EXTENDS BlockNumbers

\* The bytes s are in w behind the first p.
At(w, p, s) == p + Len(s) <= Len(w) /\ \A j \in 1..Len(s) : w[p + j] = s[j]

\* What is in a string as a whole.
LEMMA AtSelf == \A w \in Strings : At(w, 0, w)
BY DEF At, Strings

\* If two strings are in it one behind the other, each of them is.
LEMMA AtBoth ==
    ASSUME NEW w \in Strings, NEW p \in Nat, NEW s \in Strings, NEW t \in Strings, At(w, p, s \o t)
    PROVE  At(w, p, s) /\ At(w, p + Len(s), t)
<1>1. /\ Len(s) \in Nat /\ Len(t) \in Nat /\ Len(s \o t) = Len(s) + Len(t)
      /\ \A j \in 1..Len(s) : (s \o t)[j] = s[j]
      /\ \A j \in 1..Len(t) : (s \o t)[Len(s) + j] = t[j]
  BY DEF Strings
<1>2. p + Len(s) + Len(t) <= Len(w) /\ Len(w) \in Nat
  BY <1>1 DEF At, Strings
<1>3. At(w, p, s)
  <2>1. ASSUME NEW j \in 1..Len(s) PROVE w[p + j] = s[j]
    <3>1. j \in 1..Len(s \o t)
      BY <1>1
    <3>. QED BY <1>1, <3>1 DEF At
  <2>. QED BY <1>1, <1>2, <2>1 DEF At
<1>4. At(w, p + Len(s), t)
  <2>1. ASSUME NEW j \in 1..Len(t) PROVE w[p + Len(s) + j] = t[j]
    <3>1. Len(s) + j \in 1..Len(s \o t) /\ p + (Len(s) + j) = p + Len(s) + j
      BY <1>1
    <3>. QED BY <1>1, <3>1 DEF At
  <2>. QED BY <1>1, <1>2, <2>1 DEF At
<1>. QED BY <1>3, <1>4

\* What is in a string that is in it, is in it.
LEMMA AtWithin ==
    ASSUME NEW w \in Strings, NEW s \in Strings, NEW t \in Strings, NEW p \in Nat, NEW q \in Nat,
           At(w, p, s), At(s, q, t)
    PROVE  At(w, p + q, t)
<1>1. Len(s) \in Nat /\ Len(t) \in Nat /\ Len(w) \in Nat
  BY DEF Strings
<1>2. ASSUME NEW j \in 1..Len(t) PROVE w[p + q + j] = t[j]
  <2>1. q + j \in 1..Len(s) /\ p + (q + j) = p + q + j
    BY <1>1 DEF At
  <2>. QED BY <2>1 DEF At
<1>. QED BY <1>1, <1>2 DEF At

-----------------------------------------------------------------------------
\* Adding to the larger side keeps an inequality.
LEMMA Longer == \A a, b, c \in Nat : c <= a => c <= a + b
OBVIOUS

\* g is the strings part[1], ... one after the other behind z.
Joins(g, n, z, part) == g = [j \in 0..n |-> IF j = 0 THEN z ELSE g[j - 1] \o part[j]]

\* There is such a function, for all parts: the definitions of the bytes by
\* recursion mean something.
LEMMA JoinExists ==
    ASSUME NEW n \in Nat, NEW z \in Strings, NEW part \in [1..n -> Strings]
    PROVE  \E g : Joins(g, n, z, part)
<1>. PICK step : step = [pair \in Nat \X Strings |->
                           IF pair[1] < n THEN pair[2] \o part[pair[1] + 1] ELSE pair[2]]
  OBVIOUS
<1>1. \A j \in Nat : j < n => j + 1 \in 1..n
  OBVIOUS
<1>2. \A s, t \in Strings : s \o t \in Strings
  BY DEF Strings
<1>3. \A j \in Nat, s \in Strings : j < n => s \o part[j + 1] \in Strings
  BY <1>1, <1>2
<1>4. \A pair \in Nat \X Strings : pair[1] \in Nat /\ pair[2] \in Strings
  OBVIOUS
<1>5. step \in [Nat \X Strings -> Strings]
  BY <1>3, <1>4
<1>6. \A j \in Nat, s \in Strings : j < n => step[<<j, s>>] = s \o part[j + 1]
  OBVIOUS
<1>7. PICK f : Recursive(f, Strings, z, step)
  BY <1>5, Recursion
<1>8. f[0] = z /\ \A j \in Nat : j < n => f[j + 1] = f[j] \o part[j + 1]
  BY <1>6, <1>7 DEF Recursive
<1>. PICK g : g = [j \in 0..n |-> f[j]]
  OBVIOUS
<1>9. ASSUME NEW j \in 0..n PROVE f[j] = IF j = 0 THEN z ELSE g[j - 1] \o part[j]
  <2>1. CASE j = 0
    BY <1>8, <2>1
  <2>2. CASE j # 0
    <3>1. j - 1 \in Nat /\ j - 1 < n /\ (j - 1) + 1 = j /\ j - 1 \in 0..n
      BY <2>2
    <3>2. f[j] = f[j - 1] \o part[j]
      BY <1>8, <3>1
    <3>. QED BY <2>2, <3>1, <3>2
  <2>. QED BY <2>1, <2>2
<1>. QED BY <1>9 DEF Joins

JoinsUp(g, n, z, part) ==
    /\ g \in [0..n -> Strings]
    /\ g[0] = z
    /\ \A j \in 1..n : g[j] = g[j - 1] \o part[j] /\ Len(g[j]) = Len(g[j - 1]) + Len(part[j])

\* And it is what its equation says, as lengths, too.
LEMMA JoinSteps ==
    ASSUME NEW n \in Nat, NEW z \in Strings, NEW part \in [1..n -> Strings], NEW g,
           Joins(g, n, z, part)
    PROVE  JoinsUp(g, n, z, part)
<1>1. g[0] = z
  BY DEF Joins
<1>2. \A j \in 1..n : g[j] = g[j - 1] \o part[j]
  BY DEF Joins
<1>3. \A s, t \in Strings : s \o t \in Strings /\ Len(s \o t) = Len(s) + Len(t)
  BY DEF Strings
<1>4. {j \in Nat : j <= n => g[j] \in Strings} = Nat
  <2>. DEFINE P == {j \in Nat : j <= n => g[j] \in Strings}
  <2>1. 0 \in P
    BY <1>1
  <2>2. ASSUME NEW j \in P PROVE j + 1 \in P
    <3>. SUFFICES ASSUME j + 1 <= n PROVE g[j + 1] \in Strings
      OBVIOUS
    <3>1. j + 1 \in 1..n /\ (j + 1) - 1 = j /\ g[j] \in Strings
      OBVIOUS
    <3>2. part[j + 1] \in Strings
      BY <3>1
    <3>3. g[j + 1] = g[j] \o part[j + 1]
      BY <1>2, <3>1
    <3>. QED BY <1>3, <3>1, <3>2, <3>3
  <2>. HIDE DEF P
  <2>3. P \in SUBSET Nat
    BY DEF P
  <2>4. P = Nat
    BY <2>1, <2>2, <2>3, Induct
  <2>. QED BY <2>4 DEF P
<1>5. \A j \in 0..n : g[j] \in Strings
  BY <1>4
<1>6. g \in [0..n -> Strings]
  <2>. PICK h : h = [j \in 0..n |-> IF j = 0 THEN z ELSE g[j - 1] \o part[j]]
    OBVIOUS
  <2>1. g = [j \in 0..n |-> h[j]]
    BY DEF Joins
  <2>. QED BY <1>5, <2>1
<1>7. ASSUME NEW j \in 1..n PROVE Len(g[j]) = Len(g[j - 1]) + Len(part[j])
  <2>1. j - 1 \in 0..n
    OBVIOUS
  <2>. QED BY <1>2, <1>3, <1>5, <2>1
<1>. QED BY <1>1, <1>2, <1>6, <1>7 DEF JoinsUp

\* Each of the parts is in its place in all of them.
LEMMA JoinPlaces ==
    ASSUME NEW n \in Nat, NEW z \in Strings, NEW part \in [1..n -> Strings], NEW g,
           Joins(g, n, z, part)
    PROVE  /\ \A j \in 0..n : At(g[n], 0, g[j])
           /\ \A j \in 1..n : At(g[n], Len(g[j - 1]), part[j])
           /\ \A j, k \in 0..n : j <= k => Len(g[j]) <= Len(g[k])
<1>1. /\ g \in [0..n -> Strings]
      /\ \A j \in 1..n : g[j] = g[j - 1] \o part[j] /\ Len(g[j]) = Len(g[j - 1]) + Len(part[j])
  <2>1. JoinsUp(g, n, z, part)
    BY JoinSteps
  <2>. QED BY <2>1 DEF JoinsUp
<1>2. ASSUME NEW j \in 0..(n - 1), At(g[n], 0, g[j + 1])
      PROVE  At(g[n], 0, g[j]) /\ At(g[n], Len(g[j]), part[j + 1])
  <2>1. j + 1 \in 1..n /\ (j + 1) - 1 = j /\ j \in 0..n /\ n \in 0..n /\ 0 \in Nat
    OBVIOUS
  <2>2. g[j + 1] = g[j] \o part[j + 1]
    BY <1>1, <2>1
  <2>3. g[j] \in Strings /\ part[j + 1] \in Strings /\ g[n] \in Strings
    BY <1>1, <2>1
  <2>4. At(g[n], 0, g[j]) /\ At(g[n], 0 + Len(g[j]), part[j + 1])
    BY <1>2, <2>1, <2>2, <2>3, AtBoth
  <2>5. 0 + Len(g[j]) = Len(g[j])
    BY <2>3 DEF Strings
  <2>. QED BY <2>4, <2>5
<1>3. {d \in Nat : d <= n => At(g[n], 0, g[n - d])} = Nat
  <2>. DEFINE P == {d \in Nat : d <= n => At(g[n], 0, g[n - d])}
  <2>1. 0 \in P
    BY <1>1, AtSelf
  <2>2. ASSUME NEW d \in P PROVE d + 1 \in P
    <3>. SUFFICES ASSUME d + 1 <= n PROVE At(g[n], 0, g[n - (d + 1)])
      OBVIOUS
    <3>1. n - (d + 1) \in 0..(n - 1) /\ (n - (d + 1)) + 1 = n - d /\ At(g[n], 0, g[n - d])
      OBVIOUS
    <3>. QED BY <1>2, <3>1
  <2>. HIDE DEF P
  <2>3. P \in SUBSET Nat
    BY DEF P
  <2>4. P = Nat
    BY <2>1, <2>2, <2>3, Induct
  <2>. QED BY <2>4 DEF P
<1>4. ASSUME NEW j \in 0..n PROVE At(g[n], 0, g[j])
  <2>1. n - j \in Nat /\ n - j <= n /\ n - (n - j) = j
    OBVIOUS
  <2>. QED BY <1>3, <2>1
<1>5. ASSUME NEW j \in 1..n PROVE At(g[n], Len(g[j - 1]), part[j])
  <2>1. j - 1 \in 0..(n - 1) /\ (j - 1) + 1 = j /\ j \in 0..n
    OBVIOUS
  <2>. QED BY <1>2, <1>4, <2>1
<1>6. ASSUME NEW j \in 0..n, NEW k \in 0..n, j <= k PROVE Len(g[j]) <= Len(g[k])
  <2>. DEFINE P == {d \in Nat : j + d <= n => Len(g[j]) <= Len(g[j + d])}
  <2>0. \A s \in Strings : Len(s) \in Nat
    BY DEF Strings
  <2>1. 0 \in P
    BY <1>1, <2>0
  <2>2. ASSUME NEW d \in P PROVE d + 1 \in P
    <3>. SUFFICES ASSUME j + (d + 1) <= n PROVE Len(g[j]) <= Len(g[j + (d + 1)])
      OBVIOUS
    <3>. PICK m : m = j + (d + 1)
      OBVIOUS
    <3>1. m \in 1..n /\ m - 1 = j + d /\ m - 1 \in 0..n /\ Len(g[j]) <= Len(g[m - 1])
      OBVIOUS
    <3>. HIDE DEF P
    <3>2. Len(g[m]) = Len(g[m - 1]) + Len(part[m])
      BY <1>1, <3>1
    <3>3. Len(g[m - 1]) \in Nat /\ Len(part[m]) \in Nat /\ Len(g[j]) \in Nat
      BY <1>1, <2>0, <3>1
    <3>4. Len(g[j]) <= Len(g[m])
      <4>1. Len(g[j]) <= Len(g[m - 1]) + Len(part[m])
        BY <3>1, <3>3, Longer
      <4>. QED BY <3>2, <4>1
    <3>. QED BY <3>4
  <2>3. P \in SUBSET Nat
    OBVIOUS
  <2>. HIDE DEF P
  <2>4. P = Nat
    BY <2>1, <2>2, <2>3, Induct
  <2>5. PICK d \in Nat : j + d = k
    <3>1. k - j \in Nat /\ j + (k - j) = k
      BY <1>6
    <3>. QED BY <3>1
  <2>6. d \in P
    BY <2>4
  <2>. QED BY <2>5, <2>6 DEF P
<1>. QED BY <1>4, <1>5, <1>6

-----------------------------------------------------------------------------
Records == [value : Int, text : Strings]

\* What a file is made of.
LEMMA FileType ==
    ASSUME file \in Files
    PROVE  /\ file.metadata \in Seq(Strings \X Strings) /\ file.sync \in Strings
           /\ file.written \in Seq(Seq(Records))
           /\ file.overcount \in Nat /\ file.bytes \in Strings
           /\ Sizes(file) /\ HasSchema(file) /\ HasMarker(file) /\ Cut(file)
BY FilesAssumption DEF Records

\* The numbers in the header are numbers of a word.
LEMMA MetadataFit ==
    ASSUME file \in Files
    PROVE  /\ Fits(Len(file.metadata))
           /\ \A n \in 1..Len(file.metadata) :
                /\ file.metadata[n][1] \in Strings /\ Fits(Len(file.metadata[n][1]))
                /\ file.metadata[n][2] \in Strings /\ Fits(Len(file.metadata[n][2]))
<1>1. \A n \in NumbersOf(file) : Fits(n)
  BY FileType DEF Sizes
<1>2. Len(file.metadata) \in NumbersOf(file)
  BY DEF NumbersOf
<1>3. ASSUME NEW n \in 1..Len(file.metadata)
      PROVE  /\ file.metadata[n][1] \in Strings /\ Fits(Len(file.metadata[n][1]))
             /\ file.metadata[n][2] \in Strings /\ Fits(Len(file.metadata[n][2]))
  <2>1. file.metadata \in Seq(Strings \X Strings)
    BY FileType
  <2>2. n \in DOMAIN file.metadata /\ file.metadata[n] \in Strings \X Strings
    BY <2>1
  <2>3. \A k \in {1, 2} : Len(file.metadata[n][k]) \in NumbersOf(file)
    BY <2>2 DEF NumbersOf
  <2>. QED BY <1>1, <2>2, <2>3
<1>. QED BY <1>1, <1>2, <1>3

\* So are those in a block.
LEMMA BlocksFit ==
    ASSUME file \in Files, NEW n \in 1..Len(file.written)
    PROVE  LET records == file.written[n]
           IN  /\ records \in Seq(Records)
               /\ Fits(Len(records) + file.overcount)
               /\ Fits(Len(DataBytes(records)[Len(records)]))
               /\ \A m \in 1..Len(records) :
                    /\ records[m] \in Records
                    /\ Fits(records[m].value) /\ Fits(Len(records[m].text))
<1>. PICK records : records = file.written[n]
  OBVIOUS
<1>1. \A k \in NumbersOf(file) : Fits(k)
  BY FileType DEF Sizes
<1>2. file.written \in Seq(Seq(Records))
  BY FileType
<1>3. n \in DOMAIN file.written /\ records \in Seq(Records)
  BY <1>2
<1>. PICK K : K = {Len(records) + file.overcount, Len(DataBytes(records)[Len(records)])}
                   \cup {records[m].value : m \in DOMAIN records}
                   \cup {Len(records[m].text) : m \in DOMAIN records}
  OBVIOUS
<1>4. K \subseteq NumbersOf(file)
  BY <1>3 DEF NumbersOf
<1>5. \A k \in K : Fits(k)
  BY <1>1, <1>4
<1>6. \A m \in 1..Len(records) : m \in DOMAIN records /\ records[m] \in Records
  BY <1>3
<1>. QED BY <1>3, <1>5, <1>6

\* A number is written in a byte or more.
LEMMA GroupsType == \A n : Fits(n) => Groups(n) \in Strings /\ Len(Groups(n)) \in Nat \ {0}
<1>. SUFFICES ASSUME NEW n, Fits(n) PROVE Groups(n) \in Strings /\ Len(Groups(n)) \in Nat \ {0}
  OBVIOUS
<1>1. PICK k \in 1..MaxGroups : Groups(n) \in Strings /\ Len(Groups(n)) = k
  BY GroupsOf
<1>. QED BY <1>1, Sizing

\* Strings one behind the other.
LEMMA Concat == \A s, t \in Strings : s \o t \in Strings /\ Len(s \o t) = Len(s) + Len(t)
                                      /\ Len(s) \in Nat
BY DEF Strings

\* The metadata are one behind the other.
MetaParts == [n \in 1..Len(file.metadata) |-> MetaBytes(file.metadata[n])]

\* The recursive definition of the metadata's bytes is such a function.
LEMMA EntriesJoin ==
    ASSUME file \in Files
    PROVE  /\ Len(file.metadata) \in Nat
           /\ AVRO_MAGICK \o Groups(Len(file.metadata)) \in Strings
           /\ MetaParts \in [1..Len(file.metadata) -> Strings]
           /\ Joins(EntryBytes(file.metadata), Len(file.metadata),
                    AVRO_MAGICK \o Groups(Len(file.metadata)), MetaParts)
<1>. PICK M : M = Len(file.metadata)
  OBVIOUS
<1>. PICK z : z = AVRO_MAGICK \o Groups(Len(file.metadata))
  OBVIOUS
<1>1. M \in Nat
  BY FileType
<1>2. z \in Strings
  BY MetadataFit, GroupsType, Concat, FilesAssumption
<1>3. ASSUME NEW n \in 1..M PROVE MetaBytes(file.metadata[n]) \in Strings
  <2>1. /\ file.metadata[n][1] \in Strings /\ Groups(Len(file.metadata[n][1])) \in Strings
        /\ file.metadata[n][2] \in Strings /\ Groups(Len(file.metadata[n][2])) \in Strings
    BY MetadataFit, GroupsType
  <2>. QED BY <2>1, Concat DEF MetaBytes, StringBytes
<1>4. MetaParts \in [1..M -> Strings]
  BY <1>3 DEF MetaParts
<1>5. \E g : Joins(g, M, z, MetaParts)
  BY <1>1, <1>2, <1>4, JoinExists
<1>6. \A g : Joins(g, M, z, MetaParts)
        <=> g = [j \in 0..M |-> IF j = 0 THEN z ELSE g[j - 1] \o MetaBytes(file.metadata[j])]
  <2>. TAKE g
  <2>1. \A j \in 0..M : j # 0 => MetaParts[j] = MetaBytes(file.metadata[j])
    BY <1>1 DEF MetaParts
  <2>2. [j \in 0..M |-> IF j = 0 THEN z ELSE g[j - 1] \o MetaParts[j]]
        = [j \in 0..M |-> IF j = 0 THEN z ELSE g[j - 1] \o MetaBytes(file.metadata[j])]
    BY <2>1
  <2>. QED BY <2>2 DEF Joins
<1>. DEFINE Equation(g) ==
         g = [j \in 0..Len(file.metadata) |->
                IF j = 0 THEN AVRO_MAGICK \o Groups(Len(file.metadata))
                ELSE g[j - 1] \o MetaBytes(file.metadata[j])]
<1>7. \A g : Joins(g, M, z, MetaParts) <=> Equation(g)
  BY ZenonT(30), <1>6
<1>8. EntryBytes(file.metadata) = CHOOSE g : Equation(g)
  BY DEF EntryBytes
<1>. HIDE DEF Equation
<1>9. Joins(EntryBytes(file.metadata), M, z, MetaParts)
  BY <1>5, <1>7, <1>8
<1>. QED BY <1>1, <1>2, <1>4, <1>9

\* The records of a block are one behind the other.
RecordParts(records) == [m \in 1..Len(records) |-> RecordBytes(records[m])]

\* So is that of a block's data.
LEMMA DataJoin ==
    ASSUME file \in Files, NEW n \in 1..Len(file.written), NEW records, records = file.written[n]
    PROVE  /\ Len(records) \in Nat /\ <<>> \in Strings
           /\ RecordParts(records) \in [1..Len(records) -> Strings]
           /\ Joins(DataBytes(records), Len(records), <<>>, RecordParts(records))
<1>1. Len(records) \in Nat /\ <<>> \in Strings
  BY BlocksFit DEF Strings
<1>2. ASSUME NEW m \in 1..Len(records) PROVE RecordBytes(records[m]) \in Strings
  <2>1. records[m] \in Records /\ Fits(records[m].value) /\ Fits(Len(records[m].text))
    BY BlocksFit
  <2>2. /\ Groups(records[m].value) \in Strings /\ Groups(Len(records[m].text)) \in Strings
        /\ records[m].text \in Strings
    BY <2>1, GroupsType DEF Records
  <2>. QED BY <2>2, Concat DEF RecordBytes
<1>3. RecordParts(records) \in [1..Len(records) -> Strings]
  BY <1>2 DEF RecordParts
<1>4. \E g : Joins(g, Len(records), <<>>, RecordParts(records))
  BY <1>1, <1>3, JoinExists
<1>. DEFINE Equation(g) ==
         g = [j \in 0..Len(records) |->
                IF j = 0 THEN <<>> ELSE g[j - 1] \o RecordBytes(records[j])]
<1>5. \A g : Joins(g, Len(records), <<>>, RecordParts(records)) <=> Equation(g)
  <2>. TAKE g
  <2>1. \A j \in 0..Len(records) : j # 0 => RecordParts(records)[j] = RecordBytes(records[j])
    BY <1>1 DEF RecordParts
  <2>2. [j \in 0..Len(records) |-> IF j = 0 THEN <<>> ELSE g[j - 1] \o RecordParts(records)[j]]
        = [j \in 0..Len(records) |-> IF j = 0 THEN <<>> ELSE g[j - 1] \o RecordBytes(records[j])]
    BY <2>1
  <2>. QED BY <2>2 DEF Joins
<1>6. DataBytes(records) = CHOOSE g : Equation(g)
  BY DEF DataBytes
<1>. HIDE DEF Equation
<1>7. Joins(DataBytes(records), Len(records), <<>>, RecordParts(records))
  BY <1>4, <1>5, <1>6
<1>. QED BY <1>1, <1>3, <1>7

\* The data of the block n, all of it.
Data(n) == DataBytes(file.written[n])[Len(file.written[n])]

\* The data of a block are bytes.
LEMMA DataType ==
    ASSUME file \in Files, NEW n \in 1..Len(file.written)
    PROVE  Data(n) \in Strings
<1>. PICK records : records = file.written[n]
  OBVIOUS
<1>1. JoinsUp(DataBytes(records), Len(records), <<>>, RecordParts(records))
  BY DataJoin, JoinSteps
<1>2. Len(records) \in 0..Len(records)
  BY DataJoin
<1>. QED BY <1>1, <1>2 DEF JoinsUp, Data

BlockParts == [n \in 1..Len(file.written) |->
                 BlockBytes(file.written[n], file.overcount, file.sync)]

\* And that of the file.
LEMMA FileJoin ==
    ASSUME file \in Files
    PROVE  /\ Len(file.written) \in Nat
           /\ HeaderBytes(file.metadata, file.sync) \in Strings
           /\ BlockParts \in [1..Len(file.written) -> Strings]
           /\ Joins(FileBytes(file), Len(file.written),
                    HeaderBytes(file.metadata, file.sync), BlockParts)
<1>. PICK N : N = Len(file.written)
  OBVIOUS
<1>. PICK z : z = HeaderBytes(file.metadata, file.sync)
  OBVIOUS
<1>1. N \in Nat
  BY FileType
<1>2. z \in Strings
  <2>1. JoinsUp(EntryBytes(file.metadata), Len(file.metadata),
                AVRO_MAGICK \o Groups(Len(file.metadata)), MetaParts)
    BY EntriesJoin, JoinSteps
  <2>2. EntryBytes(file.metadata)[Len(file.metadata)] \in Strings
    <3>1. Len(file.metadata) \in 0..Len(file.metadata)
      BY EntriesJoin
    <3>. QED BY <2>1, <3>1 DEF JoinsUp
  <2>3. <<0>> \in Strings /\ file.sync \in Strings
    BY FileType, Sizing DEF Strings, Octet
  <2>. QED BY <2>2, <2>3, Concat DEF HeaderBytes
<1>3. ASSUME NEW n \in 1..N
      PROVE  BlockBytes(file.written[n], file.overcount, file.sync) \in Strings
  <2>1. /\ Groups(Len(file.written[n]) + file.overcount) \in Strings
        /\ Groups(Len(Data(n))) \in Strings
    BY BlocksFit, GroupsType DEF Data
  <2>2. Data(n) \in Strings /\ file.sync \in Strings
    BY DataType, FileType
  <2>3. BlockBytes(file.written[n], file.overcount, file.sync)
          = Groups(Len(file.written[n]) + file.overcount) \o Groups(Len(Data(n))) \o Data(n)
            \o file.sync
    BY DEF BlockBytes, Data
  <2>. QED BY <2>1, <2>2, <2>3, Concat
<1>4. BlockParts \in [1..N -> Strings]
  BY <1>3 DEF BlockParts
<1>5. \E g : Joins(g, N, z, BlockParts)
  BY <1>1, <1>2, <1>4, JoinExists
<1>. DEFINE Equation(g) ==
         g = [j \in 0..Len(file.written) |->
                IF j = 0 THEN HeaderBytes(file.metadata, file.sync)
                ELSE g[j - 1] \o BlockBytes(file.written[j], file.overcount, file.sync)]
<1>6. \A g : Joins(g, N, z, BlockParts) <=> Equation(g)
  <2>. TAKE g
  <2>1. \A j \in 0..N : j # 0 =>
          BlockParts[j] = BlockBytes(file.written[j], file.overcount, file.sync)
    BY <1>1 DEF BlockParts
  <2>2. [j \in 0..N |-> IF j = 0 THEN z ELSE g[j - 1] \o BlockParts[j]]
        = [j \in 0..N |-> IF j = 0 THEN z ELSE g[j - 1]
              \o BlockBytes(file.written[j], file.overcount, file.sync)]
    BY <2>1
  <2>. QED BY <2>2 DEF Joins
<1>7. FileBytes(file) = CHOOSE g : Equation(g)
  BY DEF FileBytes
<1>. HIDE DEF Equation
<1>8. Joins(FileBytes(file), N, z, BlockParts)
  BY <1>5, <1>6, <1>7
<1>. QED BY <1>1, <1>2, <1>4, <1>8

-----------------------------------------------------------------------------
\* The whole file, and where its header (0) and its blocks end.
W == FileBytes(file)[Len(file.written)]
End(n) == Len(FileBytes(file)[n])

\* The file is the beginning of what was written.
LEMMA WholeType ==
    ASSUME file \in Files
    PROVE  /\ W \in Strings /\ Len(W) \in Nat /\ Len(W) + PageSize <= Word \div 2
           /\ Len(file.bytes) \in 0..Len(W)
           /\ file.bytes = SubSeq(W, 1, Len(file.bytes))
<1>1. JoinsUp(FileBytes(file), Len(file.written), HeaderBytes(file.metadata, file.sync), BlockParts)
  BY FileJoin, JoinSteps
<1>2. Len(file.written) \in 0..Len(file.written)
  BY FileJoin
<1>3. W \in Strings
  BY <1>1, <1>2 DEF JoinsUp, W
<1>4. Len(W) \in Nat
  BY <1>3 DEF Strings
<1>5. Len(W) + PageSize <= Word \div 2
  BY FileType DEF Sizes, W
<1>6. PICK n \in 0..Len(W) : file.bytes = SubSeq(W, 1, n)
  BY FileType DEF Cut, W
<1>7. Len(file.bytes) = n
  BY <1>3, <1>4, <1>6 DEF Strings
<1>. QED BY <1>3, <1>4, <1>5, <1>6, <1>7

\* A byte of the file is what was written, or zero behind its end.
LEMMA ByteOfFile ==
    ASSUME file \in Files, NEW p \in Nat
    PROVE  Byte(p) = IF p < Len(file.bytes) THEN W[p + 1] ELSE 0
<1>1. Len(file.bytes) \in Nat /\ Len(file.bytes) <= Len(W) /\ Len(W) \in Nat
  BY WholeType
<1>2. CASE p < Len(file.bytes)
  <2>1. p + 1 \in 1..Len(file.bytes)
    BY <1>1, <1>2
  <2>2. file.bytes[p + 1] = W[p + 1]
    BY <1>1, <2>1, WholeType DEF Strings
  <2>. QED BY <1>1, <1>2, <2>2 DEF Byte
<1>3. CASE ~(p < Len(file.bytes))
  BY <1>1, <1>3 DEF Byte
<1>. QED BY <1>2, <1>3

\* The mapping reaches to the end of the file at least, and its places are far from
\* overflowing.
LEMMA MappedBounds ==
    ASSUME file \in Files
    PROVE  Mapped \in Len(file.bytes)..((Word \div 2) - 1)
<1>. DEFINE a == Len(file.bytes) + PageSize - 1
<1>1. PageSize \in Nat \ {0} /\ Len(file.bytes) \in Nat /\ a \in Nat
  BY SizesAssumption, WholeType
<1>2. PICK q \in Nat, r \in 0..(PageSize - 1) : q = a \div PageSize /\ a = PageSize * q + r
  BY <1>1, Division
<1>. HIDE DEF a
<1>3. PICK m \in Nat : m = PageSize * q
  BY <1>1
<1>4. m <= a /\ a <= m + (PageSize - 1)
  BY <1>1, <1>2, <1>3
<1>5. Len(file.bytes) <= m /\ m <= Len(file.bytes) + PageSize - 1
  BY <1>1, <1>4 DEF a
<1>6. Mapped = m
  BY <1>2, <1>3 DEF Mapped, a
<1>. QED BY <1>1, <1>5, <1>6, WholeType, Sizing

\* What is written in front of where the file is cut is there.
LEMMA Present ==
    ASSUME file \in Files, NEW p \in Nat, NEW s \in Strings, At(W, p, s),
           p + Len(s) <= Len(file.bytes)
    PROVE  Holds(p, s) /\ Bytes(p, Len(s)) = s /\ Readable(p, Len(s))
<1>1. Len(s) \in Nat /\ Len(file.bytes) \in Nat
  BY WholeType DEF Strings
<1>2. ASSUME NEW j \in 1..Len(s) PROVE Byte(p + j - 1) = s[j]
  <2>1. p + j - 1 \in Nat /\ p + j - 1 < Len(file.bytes) /\ (p + j - 1) + 1 = p + j
    BY <1>1
  <2>2. Byte(p + j - 1) = W[p + j]
    BY <2>1, ByteOfFile
  <2>. QED BY <2>2 DEF At
<1>3. Holds(p, s)
  BY <1>2 DEF Holds
<1>4. Bytes(p, Len(s)) = s
  BY <1>1, <1>2 DEF Bytes, Strings
<1>5. Readable(p, Len(s))
  BY <1>1, MappedBounds, Sizing DEF Readable
<1>. QED BY <1>3, <1>4, <1>5

\* Where the parts of the block n are.
Counted(n) == Groups(Len(file.written[n]) + file.overcount)
Sized(n) == Groups(Len(Data(n)))

\* A block begins where the one before ends: its count, the size of its data, its
\* data, and the marker.
LEMMA BlockPlaces ==
    ASSUME file \in Files, NEW n \in 1..Len(file.written)
    PROVE  /\ Counted(n) \in Strings /\ Sized(n) \in Strings /\ Data(n) \in Strings
           /\ End(n - 1) \in Nat
           /\ At(W, End(n - 1), Counted(n))
           /\ At(W, End(n - 1) + Len(Counted(n)), Sized(n))
           /\ At(W, End(n - 1) + Len(Counted(n)) + Len(Sized(n)), Data(n))
           /\ At(W, End(n - 1) + Len(Counted(n)) + Len(Sized(n)) + Len(Data(n)), file.sync)
           /\ End(n) = End(n - 1) + Len(Counted(n)) + Len(Sized(n)) + Len(Data(n)) + SyncLength
<1>1. Counted(n) \in Strings /\ Sized(n) \in Strings
  BY BlocksFit, GroupsType DEF Counted, Sized, Data
<1>2. Data(n) \in Strings /\ file.sync \in Strings
  BY DataType, FileType
<1>. PICK a \in Strings, b \in Strings, c \in Strings, d \in Strings :
           a = Counted(n) /\ b = Sized(n) /\ c = Data(n) /\ d = file.sync
  BY <1>1, <1>2
<1>3. a \o b \in Strings /\ (a \o b) \o c \in Strings
  BY Concat
<1>4. BlockParts[n] = a \o b \o c \o d
  BY DEF BlockParts, BlockBytes, Counted, Sized, Data
<1>5. JoinsUp(FileBytes(file), Len(file.written), HeaderBytes(file.metadata, file.sync), BlockParts)
  BY FileJoin, JoinSteps
<1>6. At(W, End(n - 1), BlockParts[n])
  BY FileJoin, JoinPlaces DEF W, End
<1>7. n - 1 \in 0..Len(file.written) /\ n \in 1..Len(file.written)
  BY FileJoin
<1>8. End(n - 1) \in Nat /\ End(n) = End(n - 1) + Len(BlockParts[n])
  <2>1. FileBytes(file)[n - 1] \in Strings
    BY <1>5, <1>7 DEF JoinsUp
  <2>2. Len(FileBytes(file)[n]) = Len(FileBytes(file)[n - 1]) + Len(BlockParts[n])
    BY <1>5, <1>7 DEF JoinsUp
  <2>. QED BY <2>1, <2>2, Concat DEF End
<1>. PICK p \in Nat : p = End(n - 1)
  BY <1>8
<1>9. Len(a) \in Nat /\ Len(b) \in Nat /\ Len(c) \in Nat /\ Len(d) = SyncLength
  BY Concat, FileType DEF HasMarker
<1>10. At(W, p, a \o b \o c) /\ At(W, p + Len(a \o b \o c), d)
  <2>1. At(W, p, (a \o b \o c) \o d)
    BY <1>4, <1>6
  <2>. QED BY <1>3, <2>1, AtBoth, WholeType
<1>11. At(W, p, a \o b) /\ At(W, p + Len(a \o b), c)
  BY <1>3, <1>10, AtBoth, WholeType
<1>12. At(W, p, a) /\ At(W, p + Len(a), b)
  BY <1>11, AtBoth, WholeType
<1>13. Len(a \o b) = Len(a) + Len(b) /\ Len(a \o b \o c) = Len(a) + Len(b) + Len(c)
       /\ Len(a \o b \o c \o d) = Len(a) + Len(b) + Len(c) + SyncLength
  <2>1. Len(a \o b) = Len(a) + Len(b)
    BY Concat
  <2>2. Len((a \o b) \o c) = Len(a \o b) + Len(c)
    BY <1>3, Concat
  <2>3. Len((a \o b \o c) \o d) = Len(a \o b \o c) + Len(d)
    BY <1>3, Concat
  <2>. QED BY <1>9, <2>1, <2>2, <2>3
<1>14. p + (Len(a) + Len(b)) = p + Len(a) + Len(b)
       /\ p + (Len(a) + Len(b) + Len(c)) = p + Len(a) + Len(b) + Len(c)
       /\ p + (Len(a) + Len(b) + Len(c) + SyncLength) = p + Len(a) + Len(b) + Len(c) + SyncLength
  BY <1>9, SizesAssumption
<1>. QED BY <1>1, <1>2, <1>4, <1>8, <1>10, <1>11, <1>12, <1>13, <1>14

\* Where the data of a block begin, and where in them its first m records end.
From(n) == End(n - 1) + Len(Counted(n)) + Len(Sized(n))
Offset(n, m) == Len(DataBytes(file.written[n])[m])

\* Sums of places.
LEMMA Sums ==
    \A p, x, y, z \in Nat : p + (x + y) = p + x + y /\ p + (x + y + z) = p + x + y + z
OBVIOUS

\* A record begins where the one before ends: its value, the length of its text,
\* and the text.
LEMMA RecordPlaces ==
    ASSUME file \in Files, NEW n \in 1..Len(file.written), NEW m \in 1..Len(file.written[n]),
           NEW r, r = file.written[n][m]
    PROVE  /\ Groups(r.value) \in Strings /\ Groups(Len(r.text)) \in Strings /\ r.text \in Strings
           /\ Offset(n, m - 1) \in Nat
           /\ At(Data(n), Offset(n, m - 1), Groups(r.value))
           /\ At(Data(n), Offset(n, m - 1) + Len(Groups(r.value)), Groups(Len(r.text)))
           /\ At(Data(n), Offset(n, m - 1) + Len(Groups(r.value)) + Len(Groups(Len(r.text))), r.text)
           /\ Offset(n, m) = Offset(n, m - 1) + Len(Groups(r.value)) + Len(Groups(Len(r.text)))
                             + Len(r.text)
<1>. PICK records : records = file.written[n]
  OBVIOUS
<1>1. r \in Records /\ Fits(r.value) /\ Fits(Len(r.text))
  BY BlocksFit
<1>2. /\ Groups(r.value) \in Strings /\ Groups(Len(r.text)) \in Strings /\ r.text \in Strings
  BY <1>1, GroupsType DEF Records
<1>0. PICK a \in Strings, b \in Strings, c \in Strings :
            a = Groups(r.value) /\ b = Groups(Len(r.text)) /\ c = r.text
  BY <1>2
<1>3. a \o b \in Strings
  BY <1>0, Concat
<1>4. RecordParts(records)[m] = (a \o b) \o c
  BY <1>0 DEF RecordParts, RecordBytes
<1>5. JoinsUp(DataBytes(records), Len(records), <<>>, RecordParts(records))
  BY DataJoin, JoinSteps
<1>6. At(Data(n), Offset(n, m - 1), (a \o b) \o c)
  <2>1. At(DataBytes(records)[Len(records)], Len(DataBytes(records)[m - 1]), RecordParts(records)[m])
    BY DataJoin, JoinPlaces
  <2>. QED BY <1>4, <2>1 DEF Data, Offset
<1>7. m - 1 \in 0..Len(records) /\ m \in 1..Len(records)
  BY DataJoin
<1>8. Offset(n, m - 1) \in Nat /\ Offset(n, m) = Offset(n, m - 1) + Len((a \o b) \o c)
  <2>1. DataBytes(records)[m - 1] \in Strings
    BY <1>5, <1>7 DEF JoinsUp
  <2>2. Len(DataBytes(records)[m]) = Len(DataBytes(records)[m - 1]) + Len(RecordParts(records)[m])
    BY <1>5, <1>7 DEF JoinsUp
  <2>. QED BY <1>4, <2>1, <2>2, Concat DEF Offset
<1>p. PICK p \in Nat : p = Offset(n, m - 1)
  BY <1>8
<1>9. PICK x \in Nat, y \in Nat, z \in Nat : x = Len(a) /\ y = Len(b) /\ z = Len(c)
  BY <1>0, Concat
<1>10. At(Data(n), p, a \o b) /\ At(Data(n), p + Len(a \o b), c)
  BY <1>0, <1>p, <1>3, <1>6, AtBoth, DataType
<1>11. At(Data(n), p, a) /\ At(Data(n), p + Len(a), b)
  BY <1>0, <1>p, <1>10, AtBoth, DataType
<1>12. Len(a \o b) = x + y /\ Len((a \o b) \o c) = x + y + z
  <2>1. Len(a \o b) = Len(a) + Len(b)
    BY <1>0, Concat
  <2>2. Len((a \o b) \o c) = Len(a \o b) + Len(c)
    BY <1>0, <1>3, Concat
  <2>. QED BY <1>9, <2>1, <2>2
<1>13. p + (x + y) = p + x + y /\ p + (x + y + z) = p + x + y + z
  <2>1. p \in Nat /\ x \in Nat /\ y \in Nat /\ z \in Nat
    OBVIOUS
  <2>. QED BY <2>1, Sums, SMTT(30)
<1>14. At(Data(n), p, a) /\ At(Data(n), p + x, b) /\ At(Data(n), p + x + y, c)
  BY <1>9, <1>10, <1>11, <1>12, <1>13
<1>15. Offset(n, m) = p + x + y + z
  BY <1>8, <1>p, <1>12, <1>13
<1>. QED BY <1>0, <1>p, <1>2, <1>9, <1>14, <1>15

\* Where records end in the data of a block.
LEMMA Offsets ==
    ASSUME file \in Files, NEW n \in 1..Len(file.written)
    PROVE  /\ Offset(n, 0) = 0
           /\ Offset(n, Len(file.written[n])) = Len(Data(n))
           /\ Len(Data(n)) \in Nat /\ Len(file.written[n]) \in Nat
           /\ \A m \in 0..Len(file.written[n]) :
                Offset(n, m) \in Nat /\ Offset(n, m) <= Len(Data(n))
<1>. PICK records : records = file.written[n]
  OBVIOUS
<1>1. JoinsUp(DataBytes(records), Len(records), <<>>, RecordParts(records))
  BY DataJoin, JoinSteps
<1>2. Len(records) \in Nat /\ Len(records) \in 0..Len(records)
  BY DataJoin
<1>3. Offset(n, 0) = 0
  BY <1>1 DEF JoinsUp, Offset
<1>4. Offset(n, Len(records)) = Len(Data(n))
  BY DEF Offset, Data
<1>5. ASSUME NEW m \in 0..Len(records)
      PROVE  Offset(n, m) \in Nat /\ Offset(n, m) <= Len(Data(n))
  <2>1. DataBytes(records)[m] \in Strings
    BY <1>1 DEF JoinsUp
  <2>2. Len(DataBytes(records)[m]) <= Len(DataBytes(records)[Len(records)])
    <3>1. m <= Len(records)
      BY <1>2
    <3>. QED BY <1>2, <3>1, DataJoin, JoinPlaces
  <2>. QED BY <2>1, <2>2, Concat DEF Offset, Data
<1>. QED BY <1>2, <1>3, <1>4, <1>5, DataType, Concat

-----------------------------------------------------------------------------
\* A number that is not too large is not changed by a conversion to size_t.
LEMMA Converted == \A k \in 0..(Word - 1) : size_t(k) = k
BY Sizing DEF size_t

\* What a conversion to size_t makes of any number.
LEMMA ConvertedType == \A k \in Int : size_t(k) \in 0..(Word - 1) /\ size_t(k) \in Nat
<1>. PICK w \in Nat \ {0} : w = Word
  BY Sizing
<1>1. \A k \in Int : k % w \in 0..(w - 1)
  OBVIOUS
<1>. QED BY <1>1 DEF size_t

\* What a worker may find, whatever the bytes are.
LEMMA LongType ==
    ASSUME file.bytes \in Strings, block.from \in Nat, NEW p \in Nat, NEW wanted
    PROVE  LET n == LongAt(p, wanted)
           IN  /\ n \in Outcomes(Int)
               /\ n.at >= p
               /\ n.how = "ok" => n.at > p /\ block.from + n.at <= Mapped
<1>. PICK q \in Nat : q = block.from + p
  OBVIOUS
<1>. PICK eof : eof = BufferEof(p + MaxGroups)
  OBVIOUS
<1>. PICK n : n = IF wanted THEN readZigZagLong(q, eof) ELSE skipZigZagLong(q, eof)
  OBVIOUS
<1>1. /\ n \in Outcomes(Int) /\ n.at >= q
      /\ n.how = "ok" => n.at > q /\ Readable(q, n.at - q)
  BY ReadType, SkipType
<1>2. LongAt(p, wanted) = Outcome(n.how, n.value, n.at - block.from)
  BY DEF LongAt, InBuffer
<1>3. n.at \in Nat /\ n.value \in Int /\ n.how \in {"ok", "eof", "error", "lost"}
  BY <1>1 DEF Outcomes
<1>4. n.at - block.from \in Nat /\ n.at - block.from >= p
  BY <1>1, <1>3
<1>5. n.how = "ok" => n.at - block.from > p /\ block.from + (n.at - block.from) <= Mapped
  <2>. SUFFICES ASSUME n.how = "ok" PROVE n.at - block.from > p /\ block.from + (n.at - block.from) <= Mapped
    OBVIOUS
  <2>1. n.at > q /\ q + (n.at - q) <= Mapped
    BY <1>1 DEF Readable
  <2>2. q + (n.at - q) = n.at /\ block.from + (n.at - block.from) = n.at
    BY <1>3
  <2>. QED BY <1>3, <2>1, <2>2
<1>. QED BY <1>2, <1>3, <1>4, <1>5, OutcomeFields DEF Outcomes, Outcome

\* A long that was written, and is there, is read or skipped (zigzag.hpp,
\* typeparser.h) whatever eof says.
LEMMA LongWritten ==
    ASSUME file \in Files, block.from \in Nat, NEW p \in Nat, NEW k, Fits(k),
           At(W, block.from + p, Groups(k)),
           block.from + p + Len(Groups(k)) <= Len(file.bytes), NEW wanted
    PROVE  LongAt(p, wanted) = Outcome("ok", IF wanted THEN k ELSE 0, p + Len(Groups(k)))
<1>. PICK q \in Nat : q = block.from + p
  OBVIOUS
<1>. PICK eof : eof = BufferEof(p + MaxGroups)
  OBVIOUS
<1>1. Holds(q, Groups(k)) /\ Readable(q, Len(Groups(k))) /\ Len(Groups(k)) \in Nat
  BY Present, GroupsType
<1>2. /\ readZigZagLong(q, eof) = Outcome("ok", k, q + Len(Groups(k)))
      /\ skipZigZagLong(q, eof) = Outcome("ok", 0, q + Len(Groups(k)))
  BY <1>1, FileType, ReadWritten
<1>3. q + Len(Groups(k)) - block.from = p + Len(Groups(k))
  BY <1>1
<1>. QED BY <1>2, <1>3, OutcomeFields DEF LongAt, InBuffer

\* What reading or skipping a string may end with.
LEMMA StringType ==
    ASSUME file.bytes \in Strings, block.from \in Nat, NEW p \in Nat
    PROVE  LET s == StringAt(p)
           IN  s \in Outcomes([from : Nat, len : Nat])
<1>0. PICK len : len = LongAt(p, TRUE)
  OBVIOUS
<1>1. len \in Outcomes(Int)
  BY <1>0, LongType
<1>2. /\ len.how \in {"ok", "eof", "error", "lost"} /\ len.at \in Nat
      /\ size_t(len.value) \in Nat /\ size_t(len.at + len.value) \in Nat
  <2>1. len.how \in {"ok", "eof", "error", "lost"} /\ len.at \in Nat /\ len.value \in Int
    BY <1>1 DEF Outcomes
  <2>2. PICK to \in Nat, v \in Int : to = len.at /\ v = len.value
    BY <2>1
  <2>3. to + v \in Int
    BY <2>2
  <2>4. size_t(v) \in Nat /\ size_t(to + v) \in Nat
    BY <2>2, <2>3, ConvertedType
  <2>. QED BY <2>1, <2>2, <2>4
<1>3. StringAt(p) = Outcome(len.how, [from |-> len.at, len |-> size_t(len.value)],
                            size_t(len.at + len.value))
  BY <1>0 DEF StringAt, StringBehind
<1>4. [from |-> len.at, len |-> size_t(len.value)] \in [from : Nat, len : Nat]
  BY <1>2
<1>5. \A how \in {"ok", "eof", "error", "lost"}, v \in [from : Nat, len : Nat], to \in Nat :
        Outcome(how, v, to) \in Outcomes([from : Nat, len : Nat])
  BY DEF Outcome, Outcomes
<1>. QED BY <1>2, <1>3, <1>4, <1>5

\* What going through a record may end with.
LEMMA RecordType ==
    ASSUME file.bytes \in Strings, block.from \in Nat, NEW p \in Nat, NEW wanted
    PROVE  LET r == RecordAt(p, wanted)
           IN  /\ r.how \in {"ok", "eof", "error", "lost"} /\ r.at \in Nat
               /\ r.how = "ok" => r.value[1] \in Int /\ r.value[2] \in [from : Nat, len : Nat]
<1>. PICK long : long = LongAt(p, wanted)
  OBVIOUS
<1>1. long \in Outcomes(Int)
  BY LongType
<1>2. long.how \in {"ok", "eof", "error", "lost"} /\ long.at \in Nat /\ long.value \in Int
  BY <1>1 DEF Outcomes
<1>. PICK s : s = StringAt(long.at)
  OBVIOUS
<1>3. s \in Outcomes([from : Nat, len : Nat])
  BY <1>2, StringType
<1>4. s.how \in {"ok", "eof", "error", "lost"} /\ s.at \in Nat /\ s.value \in [from : Nat, len : Nat]
  BY <1>3 DEF Outcomes
<1>5. RecordAt(p, wanted) = IF long.how # "ok" THEN Outcome(long.how, <<>>, long.at)
                            ELSE Outcome(s.how, <<long.value, s.value>>, s.at)
  BY DEF RecordAt
<1>6. CASE long.how # "ok"
  BY <1>2, <1>5, <1>6, OutcomeFields
<1>7. CASE long.how = "ok"
  <2>1. PICK pair : pair = <<long.value, s.value>>
    OBVIOUS
  <2>2. pair[1] = long.value /\ pair[2] = s.value
    BY <2>1
  <2>3. RecordAt(p, wanted) = Outcome(s.how, pair, s.at)
    BY <1>5, <1>7, <2>1
  <2>. QED BY <1>2, <1>4, <2>2, <2>3, OutcomeFields
<1>. QED BY <1>6, <1>7

\* A string that was written is found, and the place behind it.
LEMMA StringWritten ==
    ASSUME file \in Files, block.from \in Nat, NEW p \in Nat, NEW text \in Strings,
           Fits(Len(text)), NEW g \in Nat, g = Len(Groups(Len(text))),
           At(W, block.from + p, Groups(Len(text))), At(W, block.from + p + g, text),
           block.from + p + g + Len(text) <= Len(file.bytes)
    PROVE  StringAt(p) = Outcome("ok", [from |-> p + g, len |-> Len(text)], p + g + Len(text))
<1>1. PICK l \in Nat : l = Len(text)
  BY Concat
<1>2. PICK f \in Nat : f = block.from
  OBVIOUS
<1>3. PICK b \in Nat, h \in Nat : b = Len(file.bytes) /\ h = Word \div 2 /\ b <= h /\ Word = 2 * h
  <2>1. Len(file.bytes) \in Nat /\ Len(W) \in Nat /\ Len(file.bytes) <= Len(W)
        /\ Len(W) + PageSize <= Word \div 2 /\ PageSize \in Nat
    BY WholeType, SizesAssumption
  <2>. QED BY <2>1, Sizing
<1>4. f + p + g <= b /\ l \in 0..(Word - 1) /\ p + g + l \in 0..(Word - 1)
  <2>1. f + p + g + l <= b
    BY <1>1, <1>2, <1>3
  <2>2. h \in Nat \ {0}
    BY <1>3, Sizing
  <2>. QED BY <1>3, <2>1, <2>2
<1>5. LongAt(p, TRUE) = Outcome("ok", l, p + g)
  BY <1>1, <1>2, <1>3, <1>4, LongWritten
<1>6. size_t(l) = l /\ size_t(p + g + l) = p + g + l
  BY <1>4, Converted
<1>7. LongAt(p, TRUE).how = "ok" /\ LongAt(p, TRUE).value = l /\ LongAt(p, TRUE).at = p + g
  <2>1. \A len : len = Outcome("ok", l, p + g)
                 => len.how = "ok" /\ len.value = l /\ len.at = p + g
    BY DEF Outcome
  <2>. QED BY <1>5, <2>1, Zenon
<1>8. StringAt(p) = Outcome("ok", [from |-> p + g, len |-> l], p + g + l)
  BY <1>6, <1>7 DEF StringAt, StringBehind
<1>. QED BY <1>1, <1>8

\* Sums of places in a block.
LEMMA PlaceSums ==
    \A f, p, x, y, z, d, b \in Nat :
        p + x + y + z <= d /\ f + d <= b =>
            /\ p + x \in Nat /\ p + x + y \in Nat /\ f + (p + x + y) \in Nat
            /\ f + (p + x) = f + p + x /\ f + (p + x + y) = f + p + x + y
            /\ f + (p + x + y) = f + (p + x) + y
            /\ f + p + x <= b /\ f + (p + x) + y <= b /\ f + (p + x) + y + z <= b
            /\ f + (p + x + y) + z <= b
OBVIOUS

\* The text of a string of the block in hand.
TextOf(s) == [j \in 1..s.len |-> Byte(block.from + s.from + j - 1)]

\* A record that was written, and is all there, is read and skipped as it was
\* written: both end where it ends, and the value and the text are its own
\* (typeparser.h, deflatedbuffer.h).
THEOREM RecordWritten ==
    ASSUME file \in Files, NEW n \in 1..Len(file.written), block.from = From(n),
           From(n) \in Nat, From(n) + Len(Data(n)) <= Len(file.bytes),
           NEW m \in 1..Len(file.written[n]), NEW wanted
    PROVE  LET r == file.written[n][m]
               record == RecordAt(Offset(n, m - 1), wanted)
               string == record.value[2]
           IN  /\ record.how = "ok" /\ record.at = Offset(n, m)
               /\ record.value[1] = IF wanted THEN r.value ELSE 0
               /\ Readable(block.from + string.from, string.len)
               /\ TextOf(string) = r.text
<1>1. PICK r : r = file.written[n][m]
  OBVIOUS
<1>2. r.text \in Strings /\ Fits(r.value) /\ Fits(Len(r.text)) /\ Len(r.text) \in Nat
  BY <1>1, BlocksFit, Concat DEF Records
<1>3. /\ Groups(r.value) \in Strings /\ Groups(Len(r.text)) \in Strings
      /\ Offset(n, m - 1) \in Nat
      /\ At(Data(n), Offset(n, m - 1), Groups(r.value))
      /\ At(Data(n), Offset(n, m - 1) + Len(Groups(r.value)), Groups(Len(r.text)))
      /\ At(Data(n), Offset(n, m - 1) + Len(Groups(r.value)) + Len(Groups(Len(r.text))), r.text)
      /\ Offset(n, m) = Offset(n, m - 1) + Len(Groups(r.value)) + Len(Groups(Len(r.text)))
                        + Len(r.text)
  BY <1>1, RecordPlaces
<1>4. PICK p \in Nat, x \in Nat, y \in Nat, z \in Nat :
             /\ p = Offset(n, m - 1) /\ x = Len(Groups(r.value)) /\ y = Len(Groups(Len(r.text)))
             /\ z = Len(r.text)
  BY <1>2, <1>3, Concat
<1>5. PICK f \in Nat, b \in Nat, d \in Nat :
             f = From(n) /\ b = Len(file.bytes) /\ d = Len(Data(n)) /\ f + d <= b
  BY WholeType, DataType, Concat
<1>6. At(W, f, Data(n)) /\ W \in Strings /\ Data(n) \in Strings
  BY <1>5, BlockPlaces, WholeType DEF From
<1>7. /\ At(Data(n), p, Groups(r.value)) /\ At(Data(n), p + x, Groups(z))
      /\ At(Data(n), p + x + y, r.text) /\ Offset(n, m) = p + x + y + z
  BY <1>3, <1>4
<1>8. p + x + y + z <= d
  BY <1>4, <1>5, <1>7 DEF At
<1>9. /\ p + x \in Nat /\ p + x + y \in Nat /\ f + (p + x + y) \in Nat
      /\ f + (p + x) = f + p + x /\ f + (p + x + y) = f + p + x + y
      /\ f + (p + x + y) = f + (p + x) + y
      /\ f + p + x <= b /\ f + (p + x) + y <= b /\ f + (p + x) + y + z <= b
      /\ f + (p + x + y) + z <= b
  <2>1. p \in Nat /\ x \in Nat /\ y \in Nat /\ z \in Nat
    BY <1>4
  <2>2. f \in Nat /\ b \in Nat /\ d \in Nat /\ f + d <= b
    BY <1>5
  <2>. QED BY <2>1, <2>2, <1>8, PlaceSums, SMTT(30)
<1>10. /\ At(W, f + p, Groups(r.value)) /\ At(W, f + (p + x), Groups(z))
       /\ At(W, f + (p + x + y), r.text)
  <2>1. Groups(r.value) \in Strings /\ Groups(z) \in Strings /\ r.text \in Strings
    BY <1>2, <1>3, <1>4
  <2>2. p \in Nat /\ f \in Nat
    BY <1>4, <1>5
  <2>. QED BY <1>6, <1>7, <1>9, <2>1, <2>2, AtWithin
<1>11. LongAt(p, wanted) = Outcome("ok", IF wanted THEN r.value ELSE 0, p + x)
  <2>1. block.from = f /\ f \in Nat
    BY <1>5
  <2>. QED BY SMTT(30), <1>2, <1>4, <1>5, <1>9, <1>10, <2>1, LongWritten
<1>12. StringAt(p + x) = Outcome("ok", [from |-> p + x + y, len |-> z], p + x + y + z)
  <2>1. block.from = f /\ f \in Nat /\ b = Len(file.bytes)
    BY <1>5
  <2>2. y \in Nat /\ y = Len(Groups(Len(r.text))) /\ z = Len(r.text)
    BY <1>4
  <2>3. At(W, f + (p + x) + y, r.text) /\ f + (p + x) + y + z <= Len(file.bytes)
    BY <1>9, <1>10, <2>1
  <2>4. At(W, f + (p + x), Groups(Len(r.text)))
    BY <1>10, <2>2
  <2>. QED BY ZenonT(30), <1>2, <1>9, <2>1, <2>2, <2>3, <2>4, StringWritten
<1>13. RecordAt(p, wanted) = Outcome("ok", <<IF wanted THEN r.value ELSE 0,
                                            [from |-> p + x + y, len |-> z]>>, p + x + y + z)
  <2>1. /\ LongAt(p, wanted).how = "ok" /\ LongAt(p, wanted).at = p + x
        /\ LongAt(p, wanted).value = IF wanted THEN r.value ELSE 0
    BY <1>11, OutcomeFields
  <2>2. /\ StringAt(p + x).how = "ok" /\ StringAt(p + x).at = p + x + y + z
        /\ StringAt(p + x).value = [from |-> p + x + y, len |-> z]
    BY <1>12, OutcomeFields
  <2>. QED BY <2>1, <2>2 DEF RecordAt
<1>14. /\ Readable(f + (p + x + y), z)
       /\ Bytes(f + (p + x + y), z) = r.text
  <2>1. z = Len(r.text) /\ b = Len(file.bytes)
    BY <1>4, <1>5
  <2>2. Readable(f + (p + x + y), z) /\ Bytes(f + (p + x + y), z) = r.text
    BY <1>2, <1>9, <1>10, <2>1, Present
  <2>. QED BY <2>2
<1>15. block.from = f
  BY <1>5
<1>16. PICK record : record = RecordAt(p, wanted)
  OBVIOUS
<1>17. /\ record.how = "ok" /\ record.at = Offset(n, m)
       /\ record.value = <<IF wanted THEN r.value ELSE 0, [from |-> p + x + y, len |-> z]>>
  BY SMTT(30), <1>7, <1>13, <1>16, OutcomeFields
<1>18. /\ record.value[1] = IF wanted THEN r.value ELSE 0
       /\ record.value[2].from = p + x + y /\ record.value[2].len = z
  BY <1>17
<1>19. p = Offset(n, m - 1)
  BY <1>4
<1>20. TextOf(record.value[2]) = r.text
  BY <1>14, <1>15, <1>18 DEF TextOf, Bytes
<1>. QED BY <1>1, <1>14, <1>15, <1>16, <1>17, <1>18, <1>19, <1>20

-----------------------------------------------------------------------------
\* Behind the file there are zeros, which are the number 0.
LEMMA NumberBehind ==
    ASSUME file \in Files, NEW p \in Nat, p >= Len(file.bytes), NEW eof
    PROVE  LET m == readZigZagLong(p, eof)
           IN  m.how = "ok" => m.value = 0 /\ m.at > Len(file.bytes)
<1>1. Len(file.bytes) \in Nat /\ file.bytes \in Strings
  BY WholeType, FileType
<1>2. Byte(p + 0) = 0
  BY <1>1, ByteOfFile
<1>3. Fits(0) /\ 0 >= 0
  BY Sizing DEF Fits
<1>4. 0 \in 0..(Len(Groups(0)) - 1)
  BY <1>3, GroupsType
<1>5. \A j \in 0..(0 - 1) : Byte(p + j) = Groups(0)[j + 1]
  OBVIOUS
<1>6. LET m == readZigZagLong(p, eof)
      IN  m.how = "ok" => m.value \in 0..0 /\ m.at = p + 0 + 1
  BY SMTT(30), <1>1, <1>2, <1>3, <1>4, <1>5, ReadCut
<1>. QED BY <1>1, <1>6

\* A number that was written is read, unless it is cut: then the place behind it
\* is behind the file, and it is no larger than it was.
LEMMA NumberReads ==
    ASSUME file \in Files, NEW p \in Nat, NEW k, Fits(k), k >= 0, At(W, p, Groups(k)), NEW eof
    PROVE  LET m == readZigZagLong(p, eof)
               q == p + Len(Groups(k))
           IN  /\ q <= Len(file.bytes) => m = Outcome("ok", k, q)
               /\ q > Len(file.bytes) /\ m.how = "ok" =>
                    m.at > Len(file.bytes) /\ m.value \in 0..k
<1>1. PICK m : m = readZigZagLong(p, eof)
  OBVIOUS
<1>2. /\ Len(file.bytes) \in Nat /\ file.bytes \in Strings
      /\ Groups(k) \in Strings /\ Len(Groups(k)) \in Nat \ {0}
  BY WholeType, FileType, GroupsType
<1>3. PICK b \in Nat, g \in Nat \ {0} : b = Len(file.bytes) /\ g = Len(Groups(k))
  BY <1>2
<1>4. CASE p + g <= b
  <2>1. Holds(p, Groups(k)) /\ Readable(p, Len(Groups(k)))
    BY <1>2, <1>3, <1>4, Present
  <2>2. m = Outcome("ok", k, p + Len(Groups(k)))
    BY <1>1, <1>2, <2>1, ReadWritten
  <2>. QED BY <1>1, <1>3, <1>4, <2>2
<1>5. CASE p + g > b /\ p <= b
  <2>1. PICK c \in 0..(g - 1) : b = p + c
    <3>1. b - p \in 0..(g - 1) /\ b = p + (b - p)
      BY <1>3, <1>5
    <3>. QED BY <3>1
  <2>2. Byte(p + c) = 0
    BY <1>3, <2>1, ByteOfFile
  <2>3. ASSUME NEW j \in 0..(c - 1) PROVE Byte(p + j) = Groups(k)[j + 1]
    <3>1. p + j \in Nat /\ p + j < b /\ j + 1 \in 1..g /\ (p + j) + 1 = p + (j + 1)
      BY <1>3, <2>1
    <3>2. Byte(p + j) = W[p + (j + 1)]
      BY <1>3, <3>1, ByteOfFile
    <3>. QED BY <1>3, <3>1, <3>2 DEF At
  <2>4. m.how = "ok" => m.value \in 0..k /\ m.at = p + c + 1
    <3>1. c \in 0..(Len(Groups(k)) - 1) /\ file.bytes \in Strings
      BY <1>2, <1>3
    <3>2. LET n == readZigZagLong(p, eof)
          IN  n.how = "ok" => n.value \in 0..k /\ n.at = p + c + 1
      BY <3>1, <2>2, <2>3, ReadCut
    <3>. QED BY <1>1, <3>2
  <2>. QED BY <1>1, <1>3, <1>5, <2>1, <2>4
<1>6. CASE p > b
  <2>1. m.how = "ok" => m.value = 0 /\ m.at > b
    BY <1>1, <1>3, <1>6, NumberBehind
  <2>2. k \in Int /\ 0 \in 0..k
    BY Sizing DEF Fits
  <2>3. p + g > b
    BY <1>3, <1>6
  <2>. QED BY <1>1, <1>3, <2>1, <2>2, <2>3
<1>7. (p + g <= b) \/ (p + g > b /\ p <= b) \/ p > b
  BY <1>3
<1>. QED BY <1>4, <1>5, <1>6, <1>7

-----------------------------------------------------------------------------
\* The header: what getStdString may find.
LEMMA TextType ==
    ASSUME file.bytes \in Strings, NEW len \in Outcomes(Int)
    PROVE  LET s == StdString(len)
           IN  /\ s \in Outcomes(Strings) /\ s.at >= len.at
               /\ s.how = "ok" => /\ len.how = "ok" /\ len.value >= 0
                                  /\ s.value = Bytes(len.at, len.value)
                                  /\ Len(s.value) = len.value /\ s.at = len.at + len.value
<1>1. PICK p \in Nat, v \in Int, h \in {"ok", "eof", "error", "lost"} :
             p = len.at /\ v = len.value /\ h = len.how
  BY DEF Outcomes
<1>2. <<>> \in Strings
  BY DEF Strings
<1>3. v >= 0 => Bytes(p, v) \in Strings /\ Len(Bytes(p, v)) = v /\ p + v \in Nat /\ p + v >= p
  <2>. SUFFICES ASSUME v >= 0
                PROVE  Bytes(p, v) \in Strings /\ Len(Bytes(p, v)) = v
                       /\ p + v \in Nat /\ p + v >= p
    OBVIOUS
  <2>1. \A j \in 1..v : Byte(p + j - 1) \in Octet
    BY ByteIsOctet
  <2>2. Bytes(p, v) \in [1..v -> Octet] /\ v \in Nat
    BY <1>1, <2>1 DEF Bytes
  <2>. QED BY <1>1, <2>2 DEF Strings
<1>4. StdString(len) = IF h # "ok" THEN Outcome(h, <<>>, p)
                       ELSE IF v < 0 THEN Outcome("error", <<>>, p)
                       ELSE IF ~Readable(p, v) THEN Outcome("lost", <<>>, p)
                       ELSE Outcome("ok", Bytes(p, v), p + v)
  BY <1>1 DEF StdString
<1>5. \A how \in {"ok", "eof", "error", "lost"}, s \in Strings, to \in Nat :
        Outcome(how, s, to) \in Outcomes(Strings)
  BY DEF Outcome, Outcomes
<1>6. CASE h # "ok"
  BY <1>1, <1>2, <1>4, <1>5, <1>6, OutcomeFields
<1>7. CASE h = "ok" /\ (v < 0 \/ ~Readable(p, v))
  <2>1. PICK how \in {"error", "lost"} : StdString(len) = Outcome(how, <<>>, p)
    BY <1>4, <1>7
  <2>. QED BY <1>1, <1>2, <1>5, <2>1, OutcomeFields
<1>8. CASE h = "ok" /\ v >= 0 /\ Readable(p, v)
  <2>1. StdString(len) = Outcome("ok", Bytes(p, v), p + v)
    BY <1>1, <1>4, <1>8
  <2>. QED BY <1>1, <1>3, <1>5, <1>8, <2>1, OutcomeFields
<1>. QED BY <1>1, <1>6, <1>7, <1>8

\* A string that was written is read, unless it is cut.
LEMMA TextReads ==
    ASSUME file \in Files, NEW p \in Nat, NEW s \in Strings, Fits(Len(s)),
           At(W, p, StringBytes(s))
    PROVE  LET r == StdString(NumberIn(p))
               q == p + Len(StringBytes(s))
           IN  /\ q <= Len(file.bytes) => r = Outcome("ok", s, q)
               /\ q > Len(file.bytes) /\ r.how = "ok" => r.at >= Len(file.bytes)
               /\ q > Len(file.bytes) /\ r.how = "ok" /\ Len(s) > 0 => s[Len(s)] = 0 \/ r.value # s
<1>1. PICK len : len = NumberIn(p)
  OBVIOUS
<1>2. PICK r : r = StdString(len)
  OBVIOUS
<1>3. PICK l \in Nat : l = Len(s)
  BY Concat
<1>4. Groups(l) \in Strings /\ file.bytes \in Strings
  BY <1>3, GroupsType, FileType
<1>5. PICK b \in Nat, g \in Nat : b = Len(file.bytes) /\ g = Len(Groups(l))
  BY <1>4, Concat
<1>6. Len(StringBytes(s)) = g + l
  BY <1>3, <1>4, <1>5, Concat DEF StringBytes
<1>7. At(W, p, Groups(l)) /\ At(W, p + g, s)
  <2>1. At(W, p, Groups(l) \o s)
    BY <1>3 DEF StringBytes
  <2>. QED BY <1>4, <1>5, <2>1, AtBoth, WholeType
<1>8. /\ p + g <= b => len = Outcome("ok", l, p + g)
      /\ p + g > b /\ len.how = "ok" => len.at > b /\ len.value \in 0..l
  <2>1. l >= 0 /\ Fits(l)
    BY <1>3
  <2>. QED BY <1>1, <1>5, <1>7, <2>1, NumberReads DEF NumberIn
<1>9. len \in Outcomes(Int)
  BY <1>1, <1>4, ReadType DEF NumberIn
<1>10. /\ r \in Outcomes(Strings) /\ r.at >= len.at
       /\ r.how = "ok" => /\ len.how = "ok" /\ len.value >= 0
                          /\ r.value = Bytes(len.at, len.value)
                          /\ Len(r.value) = len.value /\ r.at = len.at + len.value
  BY <1>2, <1>4, <1>9, TextType
<1>11. CASE p + (g + l) <= b
  <2>1. p + g <= b /\ p + g + l <= b /\ p + g \in Nat
    BY <1>3, <1>5, <1>11
  <2>2. len = Outcome("ok", l, p + g)
    BY <1>8, <2>1
  <2>3. Readable(p + g, l) /\ Bytes(p + g, l) = s
    BY <1>3, <1>5, <1>7, <2>1, Present
  <2>4. ~(l < 0) /\ p + g + l = p + (g + l)
    BY <1>3, <1>5
  <2>5. r = Outcome("ok", s, p + (g + l))
    BY <1>2, <2>2, <2>3, <2>4, OutcomeFields DEF StdString
  <2>. QED BY <1>1, <1>2, <1>3, <1>5, <1>6, <1>11, <2>5
<1>12. CASE p + (g + l) > b
  <2>. SUFFICES ASSUME r.how = "ok"
                PROVE  r.at >= b /\ (l > 0 => s[l] = 0 \/ r.value # s)
    BY <1>1, <1>2, <1>3, <1>5, <1>6, <1>12
  <2>1. PICK a \in Nat, v \in Nat : a = len.at /\ v = len.value
    BY <1>9, <1>10 DEF Outcomes
  <2>2. r.value = Bytes(a, v) /\ Len(r.value) = v /\ r.at = a + v
    BY <1>10, <2>1
  <2>3. a > b \/ (a = p + g /\ v = l)
    <3>1. CASE p + g <= b
      <4>1. len = Outcome("ok", l, p + g)
        BY <1>8, <3>1
      <4>. QED BY <2>1, <4>1, OutcomeFields
    <3>2. CASE p + g > b
      BY <1>8, <1>10, <2>1, <3>2
    <3>. QED BY <1>3, <1>5, <3>1, <3>2
  <2>4. a + v >= b
    BY <1>3, <1>5, <1>12, <2>1, <2>3
  <2>5. ASSUME l > 0, r.value = s PROVE s[l] = 0
    <3>1. v = l
      BY <1>3, <2>2, <2>5
    <3>2. a + l - 1 \in Nat /\ a + l - 1 >= b /\ l \in 1..l
      BY SMTT(30), <1>3, <1>5, <1>12, <2>1, <2>3, <2>5
    <3>3. Byte(a + l - 1) = 0
      BY <1>5, <3>2, ByteOfFile
    <3>4. Bytes(a, l)[l] = Byte(a + l - 1)
      BY <3>2 DEF Bytes
    <3>. QED BY <2>2, <2>5, <3>1, <3>3, <3>4
  <2>. QED BY <2>2, <2>4, <2>5
<1>. QED BY <1>3, <1>5, <1>11, <1>12

\* Behind the end of the file getStdString finds an empty string.
LEMMA TextBehind ==
    ASSUME file \in Files, NEW p \in Nat, p >= Len(file.bytes)
    PROVE  LET r == StdString(NumberIn(p))
           IN  r.how = "ok" => r.at >= Len(file.bytes) /\ Len(r.value) = 0
<1>1. PICK len : len = NumberIn(p)
  OBVIOUS
<1>2. file.bytes \in Strings /\ Len(file.bytes) \in Nat
  BY FileType, WholeType
<1>3. len \in Outcomes(Int)
  BY <1>1, <1>2, ReadType DEF NumberIn
<1>4. len.how = "ok" => len.value = 0 /\ len.at > Len(file.bytes)
  BY <1>1, NumberBehind DEF NumberIn
<1>5. LET r == StdString(len)
      IN  r.how = "ok" => len.how = "ok" /\ Len(r.value) = len.value /\ r.at = len.at + len.value
  BY <1>2, <1>3, TextType
<1>6. len.at \in Nat
  BY <1>3 DEF Outcomes
<1>. QED BY <1>1, <1>2, <1>4, <1>5, <1>6

\* Where the parts of the header are, and where each of the metadata ends.
EntryEnd(n) == Len(EntryBytes(file.metadata)[n])

\* One of the metadata begins where the one before ends: its key and its value.
LEMMA EntryPlaces ==
    ASSUME file \in Files, NEW n \in 1..Len(file.metadata), NEW key, NEW value,
           key = StringBytes(file.metadata[n][1]), value = StringBytes(file.metadata[n][2])
    PROVE  /\ key \in Strings /\ value \in Strings /\ EntryEnd(n - 1) \in Nat
           /\ At(EntryBytes(file.metadata)[Len(file.metadata)], EntryEnd(n - 1), key)
           /\ At(EntryBytes(file.metadata)[Len(file.metadata)], EntryEnd(n - 1) + Len(key), value)
           /\ EntryEnd(n) = EntryEnd(n - 1) + Len(key) + Len(value)
<1>1. PICK M \in Nat : M = Len(file.metadata)
  BY EntriesJoin
<1>2. PICK z \in Strings : z = AVRO_MAGICK \o Groups(Len(file.metadata))
  BY EntriesJoin
<1>3. PICK g : g = EntryBytes(file.metadata)
  OBVIOUS
<1>4. MetaParts \in [1..M -> Strings] /\ Joins(g, M, z, MetaParts)
  BY <1>1, <1>2, <1>3, EntriesJoin
<1>5. key \in Strings /\ value \in Strings
  <2>1. /\ file.metadata[n][1] \in Strings /\ Groups(Len(file.metadata[n][1])) \in Strings
        /\ file.metadata[n][2] \in Strings /\ Groups(Len(file.metadata[n][2])) \in Strings
    BY MetadataFit, GroupsType
  <2>. QED BY <2>1, Concat DEF StringBytes
<1>6. MetaParts[n] = key \o value
  BY DEF MetaParts, MetaBytes
<1>7. n \in 1..M /\ n - 1 \in 0..M /\ M \in 0..M
  BY <1>1
<1>8. JoinsUp(g, M, z, MetaParts)
  BY <1>4, JoinSteps
<1>9. g[n - 1] \in Strings /\ g[M] \in Strings /\ Len(g[n]) = Len(g[n - 1]) + Len(MetaParts[n])
  BY <1>7, <1>8 DEF JoinsUp
<1>10. At(g[M], Len(g[n - 1]), key \o value)
  BY <1>4, <1>6, <1>7, JoinPlaces
<1>11. Len(g[n - 1]) \in Nat /\ Len(key \o value) = Len(key) + Len(value)
       /\ Len(key) \in Nat /\ Len(value) \in Nat
  BY <1>5, <1>9, Concat
<1>12. At(g[M], Len(g[n - 1]), key) /\ At(g[M], Len(g[n - 1]) + Len(key), value)
  BY <1>5, <1>9, <1>10, <1>11, AtBoth
<1>13. Len(g[n]) = Len(g[n - 1]) + Len(key) + Len(value)
  <2>1. Len(g[n]) = Len(g[n - 1]) + Len(key \o value)
    BY <1>6, <1>9
  <2>2. PICK x \in Nat, y \in Nat, v \in Nat :
               x = Len(g[n - 1]) /\ y = Len(key) /\ v = Len(value)
    BY <1>11
  <2>3. Len(g[n]) = x + (y + v)
    BY <1>11, <2>1, <2>2
  <2>4. x + (y + v) = x + y + v
    OBVIOUS
  <2>. QED BY <2>2, <2>3, <2>4
<1>. QED BY <1>1, <1>3, <1>5, <1>11, <1>12, <1>13 DEF EntryEnd

\* The parts of the header: the magic bytes, the number of the metadata, these, the
\* end of the map, and the marker.
LEMMA HeaderPlaces ==
    ASSUME file \in Files, NEW M, M = Len(file.metadata)
    PROVE  /\ At(W, 0, EntryBytes(file.metadata)[M]) /\ EntryBytes(file.metadata)[M] \in Strings
           /\ AVRO_MAGICK \in Strings /\ At(W, 0, AVRO_MAGICK)
           /\ At(W, Len(AVRO_MAGICK), Groups(M))
           /\ EntryEnd(0) = Len(AVRO_MAGICK) + Len(Groups(M))
           /\ \A j \in 0..M : EntryEnd(j) \in Nat
           /\ \A j, k \in 0..M : j <= k => EntryEnd(j) <= EntryEnd(k)
           /\ At(W, EntryEnd(M), <<0>>) /\ At(W, EntryEnd(M) + 1, file.sync)
           /\ End(0) = EntryEnd(M) + 1 + SyncLength
<1>1. M \in Nat /\ M \in 0..M /\ 0 \in 0..M
  BY EntriesJoin
<1>2. PICK z \in Strings : z = AVRO_MAGICK \o Groups(M)
  BY EntriesJoin
<1>3. PICK g : g = EntryBytes(file.metadata)
  OBVIOUS
<1>4. MetaParts \in [1..M -> Strings] /\ Joins(g, M, z, MetaParts)
  BY <1>2, <1>3, EntriesJoin
<1>5. JoinsUp(g, M, z, MetaParts)
  BY <1>1, <1>4, JoinSteps
<1>6. g \in [0..M -> Strings] /\ g[0] = z
  BY <1>5 DEF JoinsUp
<1>7. g[M] \in Strings /\ <<0>> \in Strings /\ file.sync \in Strings /\ Len(<<0>>) = 1
  <2>1. 0 \in Octet
    BY Sizing DEF Octet
  <2>2. \A x \in Octet : <<x>> \in Seq(Octet) /\ Len(<<x>>) = 1
    OBVIOUS
  <2>. QED BY <1>1, <1>6, <2>1, <2>2, FileType DEF Strings
<1>8. /\ \A j \in 0..M : At(g[M], 0, g[j])
      /\ \A j, k \in 0..M : j <= k => Len(g[j]) <= Len(g[k])
  BY <1>1, <1>4, JoinPlaces
<1>9. PICK h : h = HeaderBytes(file.metadata, file.sync)
  OBVIOUS
<1>10. h = g[M] \o <<0>> \o file.sync /\ g[M] \o <<0>> \in Strings /\ h \in Strings
  <2>1. h = g[M] \o <<0>> \o file.sync
    BY <1>3, <1>9 DEF HeaderBytes
  <2>2. g[M] \o <<0>> \in Strings
    BY <1>7, Concat
  <2>. QED BY <1>7, <2>1, <2>2, Concat
<1>11. At(W, 0, h) /\ FileBytes(file)[0] = h
  <2>1. Joins(FileBytes(file), Len(file.written), h, BlockParts) /\ Len(file.written) \in Nat
        /\ BlockParts \in [1..Len(file.written) -> Strings] /\ h \in Strings
    BY <1>9, FileJoin
  <2>2. 0 \in 0..Len(file.written)
    BY <2>1
  <2>3. JoinsUp(FileBytes(file), Len(file.written), h, BlockParts)
    BY <2>1, JoinSteps
  <2>4. FileBytes(file)[0] = h
    BY <2>3 DEF JoinsUp
  <2>. QED BY <2>1, <2>2, <2>4, JoinPlaces DEF W
<1>12. PICK e \in Nat : e = Len(g[M])
  BY <1>7, Concat
<1>13. /\ At(W, 0, g[M]) /\ At(W, 0 + Len(g[M]), <<0>>)
       /\ At(W, 0 + Len(g[M] \o <<0>>), file.sync)
  <2>1. At(W, 0, (g[M] \o <<0>>) \o file.sync)
    BY <1>10, <1>11
  <2>2. At(W, 0, g[M] \o <<0>>) /\ At(W, 0 + Len(g[M] \o <<0>>), file.sync)
    BY <1>7, <1>10, <2>1, WholeType, AtBoth
  <2>. QED BY <1>7, <2>2, WholeType, AtBoth
<1>14. Len(g[M] \o <<0>>) = e + 1 /\ Len(h) = e + 1 + SyncLength
  <2>1. Len(g[M] \o <<0>>) = e + 1
    BY <1>7, <1>12, Concat
  <2>2. Len(file.sync) = SyncLength
    BY FileType DEF HasMarker
  <2>3. Len((g[M] \o <<0>>) \o file.sync) = Len(g[M] \o <<0>>) + Len(file.sync)
    BY <1>7, <1>10, Concat
  <2>. QED BY <1>10, <2>1, <2>2, <2>3
<1>15. At(W, e, <<0>>) /\ At(W, e + 1, file.sync)
  <2>1. 0 + e = e /\ 0 + (e + 1) = e + 1
    BY <1>12
  <2>. QED BY <1>12, <1>13, <1>14, <2>1
<1>16. AVRO_MAGICK \in Strings /\ Groups(M) \in Strings
  BY FilesAssumption, MetadataFit, GroupsType
<1>17. At(W, 0, AVRO_MAGICK) /\ At(W, Len(AVRO_MAGICK), Groups(M))
       /\ Len(z) = Len(AVRO_MAGICK) + Len(Groups(M))
  <2>1. At(W, 0 + 0, z)
    BY <1>1, <1>2, <1>6, <1>7, <1>8, <1>13, WholeType, AtWithin
  <2>2. At(W, 0, AVRO_MAGICK \o Groups(M))
    BY <1>2, <2>1
  <2>3. At(W, 0, AVRO_MAGICK) /\ At(W, 0 + Len(AVRO_MAGICK), Groups(M))
    BY <1>16, <2>2, WholeType, AtBoth
  <2>4. 0 + Len(AVRO_MAGICK) = Len(AVRO_MAGICK)
    BY <1>16, Concat
  <2>. QED BY <1>2, <1>16, <2>3, <2>4, Concat
<1>18. \A j \in 0..M : Len(g[j]) \in Nat
  BY <1>6, Concat
<1>. QED BY <1>3, <1>6, <1>7, <1>8, <1>11, <1>12, <1>13, <1>14, <1>15, <1>16, <1>17, <1>18
     DEF EntryEnd, End

SchemaPlace == CHOOSE n \in DOMAIN file.metadata : file.metadata[n][1] = SchemaKey

\* The schema's place in the metadata.
LEMMA SchemaThere ==
    ASSUME file \in Files
    PROVE  /\ SchemaPlace \in 1..Len(file.metadata)
           /\ \A m \in 1..Len(file.metadata) :
                file.metadata[m][1] = SchemaKey <=> m = SchemaPlace
           /\ Schema = file.metadata[SchemaPlace][2]
           /\ Len(Schema) > 0 /\ Schema[Len(Schema)] # 0
<1>1. DOMAIN file.metadata = 1..Len(file.metadata)
  BY FileType
<1>2. PICK n \in 1..Len(file.metadata) :
             /\ \A m \in 1..Len(file.metadata) : file.metadata[m][1] = SchemaKey <=> m = n
             /\ Len(file.metadata[n][2]) > 0
             /\ file.metadata[n][2][Len(file.metadata[n][2])] # 0
  BY <1>1, FileType DEF HasSchema
<1>3. SchemaPlace = n
  BY <1>1, <1>2 DEF SchemaPlace
<1>4. Schema = file.metadata[SchemaPlace][2]
  BY DEF Schema, SchemaPlace
<1>. QED BY <1>2, <1>3, <1>4

\* What reading a string of the header may end with; it never goes back.
LEMMA TextAfter ==
    ASSUME file.bytes \in Strings, NEW p \in Nat
    PROVE  LET s == StdString(NumberIn(p))
           IN  s \in Outcomes(Strings) /\ s.at \in Nat /\ s.at >= p
<1>1. PICK len \in Outcomes(Int) : len = NumberIn(p) /\ len.at >= p
  BY ReadType DEF NumberIn
<1>2. PICK s \in Outcomes(Strings) : s = StdString(len) /\ s.at >= len.at
  BY TextType
<1>3. s.at \in Nat /\ len.at \in Nat
  BY <1>1, <1>2 DEF Outcomes
<1>. QED BY <1>1, <1>2, <1>3

\* One more of the metadata.
NextEntry(before) ==
    LET key == StdString(NumberIn(before.at))
        value == StdString(NumberIn(key.at))
    IN  IF before.how # "ok" THEN before
        ELSE IF key.how # "ok" THEN key
        ELSE IF value.how # "ok" THEN value
        ELSE [value EXCEPT !.value = IF key.value = SchemaKey THEN @ ELSE before.value]

\* One step of the loop over the metadata.
LEMMA EntryType ==
    ASSUME file.bytes \in Strings, NEW before \in Outcomes(Strings)
    PROVE  LET key == StdString(NumberIn(before.at))
               value == StdString(NumberIn(key.at))
           IN  /\ NextEntry(before) \in Outcomes(Strings)
               /\ NextEntry(before).how = "ok" =>
                    /\ before.how = "ok" /\ key.how = "ok" /\ value.how = "ok"
                    /\ NextEntry(before).at = value.at
                    /\ NextEntry(before).value
                         = IF key.value = SchemaKey THEN value.value ELSE before.value
               /\ before.how = "ok" /\ key.how = "ok" /\ value.how = "ok" =>
                    NextEntry(before)
                      = Outcome("ok", IF key.value = SchemaKey THEN value.value ELSE before.value,
                                value.at)
<1>1. PICK key : key = StdString(NumberIn(before.at))
  OBVIOUS
<1>2. PICK value : value = StdString(NumberIn(key.at))
  OBVIOUS
<1>3. before.at \in Nat
  BY DEF Outcomes
<1>4. key \in Outcomes(Strings) /\ key.at \in Nat
  BY <1>1, <1>3, TextAfter
<1>5. value \in Outcomes(Strings)
  BY <1>2, <1>4, TextAfter
<1>6. NextEntry(before)
        = IF before.how # "ok" THEN before
          ELSE IF key.how # "ok" THEN key
          ELSE IF value.how # "ok" THEN value
          ELSE [value EXCEPT !.value = IF key.value = SchemaKey THEN @ ELSE before.value]
  BY <1>1, <1>2 DEF NextEntry
<1>7. \A x \in Strings : /\ [value EXCEPT !.value = x] = Outcome(value.how, x, value.at)
                         /\ [value EXCEPT !.value = x] \in Outcomes(Strings)
  BY <1>5 DEF Outcomes, Outcome
<1>8. before.value \in Strings /\ value.value \in Strings
  BY <1>5 DEF Outcomes
<1>9. CASE before.how = "ok" /\ key.how = "ok" /\ value.how = "ok"
  <2>1. PICK x \in Strings : x = IF key.value = SchemaKey THEN value.value ELSE before.value
    BY <1>8
  <2>2. NextEntry(before) = [value EXCEPT !.value = x]
    BY <1>6, <1>9, <2>1
  <2>3. NextEntry(before) = Outcome("ok", x, value.at) /\ NextEntry(before) \in Outcomes(Strings)
    BY <1>7, <1>9, <2>1, <2>2
  <2>. QED BY <1>1, <1>2, <1>9, <2>1, <2>3, OutcomeFields
<1>10. CASE ~(before.how = "ok" /\ key.how = "ok" /\ value.how = "ok")
  <2>1. NextEntry(before) \in Outcomes(Strings) /\ NextEntry(before).how # "ok"
    BY <1>4, <1>5, <1>6, <1>10
  <2>. QED BY <1>1, <1>2, <1>10, <2>1
<1>. QED BY <1>9, <1>10

\* What has been read of the header with the first n of the metadata.
HeaderRead(e, n) ==
    /\ e \in Outcomes(Strings)
    /\ EntryEnd(n) <= Len(file.bytes) =>
         e = Outcome("ok", IF SchemaPlace <= n THEN Schema ELSE <<>>, EntryEnd(n))
    /\ e.how = "ok" /\ EntryEnd(n) > Len(file.bytes) =>
         e.at >= Len(file.bytes) /\ (EntryEnd(SchemaPlace) > Len(file.bytes) => e.value # Schema)

\* If it was right with the metadata so far, it is with one more: a key or a value
\* that is cut ends behind the file and is not what was written.
LEMMA EntryStep ==
    ASSUME file \in Files, NEW n \in 1..Len(file.metadata), NEW before, HeaderRead(before, n - 1)
    PROVE  HeaderRead(NextEntry(before), n)
<1>1. PICK key : key = StdString(NumberIn(before.at))
  OBVIOUS
<1>2. PICK value : value = StdString(NumberIn(key.at))
  OBVIOUS
<1>3. PICK next : next = NextEntry(before)
  OBVIOUS
<1>4. file.bytes \in Strings /\ before \in Outcomes(Strings) /\ before.at \in Nat
  BY FileType DEF HeaderRead, Outcomes
<1>5. /\ next \in Outcomes(Strings)
      /\ next.how = "ok" =>
           /\ before.how = "ok" /\ key.how = "ok" /\ value.how = "ok"
           /\ next.at = value.at
           /\ next.value = IF key.value = SchemaKey THEN value.value ELSE before.value
      /\ before.how = "ok" /\ key.how = "ok" /\ value.how = "ok" =>
           next = Outcome("ok", IF key.value = SchemaKey THEN value.value ELSE before.value,
                          value.at)
  BY <1>1, <1>2, <1>3, <1>4, EntryType
<1>6. PICK k \in Strings, v \in Strings : k = file.metadata[n][1] /\ v = file.metadata[n][2]
  BY MetadataFit
<1>7. Fits(Len(k)) /\ Fits(Len(v))
  BY <1>6, MetadataFit
<1>8. PICK p \in Nat, x \in Nat, y \in Nat, b \in Nat :
             /\ p = EntryEnd(n - 1) /\ x = Len(StringBytes(k)) /\ y = Len(StringBytes(v))
             /\ b = Len(file.bytes)
  <2>1. EntryEnd(n - 1) \in Nat /\ StringBytes(k) \in Strings /\ StringBytes(v) \in Strings
    BY <1>6, EntryPlaces
  <2>2. Len(StringBytes(k)) \in Nat /\ Len(StringBytes(v)) \in Nat /\ Len(file.bytes) \in Nat
    BY <2>1, Concat, WholeType
  <2>. QED BY <2>1, <2>2
<1>9. EntryEnd(n) = p + x + y
  BY <1>6, <1>8, EntryPlaces
<1>10. At(W, p, StringBytes(k)) /\ At(W, p + x, StringBytes(v))
  <2>1. PICK g : g = EntryBytes(file.metadata)[Len(file.metadata)]
    OBVIOUS
  <2>2. At(g, p, StringBytes(k)) /\ At(g, p + x, StringBytes(v))
    BY <1>6, <1>8, <2>1, EntryPlaces
  <2>3. At(W, 0, g) /\ g \in Strings
    BY <2>1, HeaderPlaces
  <2>4. StringBytes(k) \in Strings /\ StringBytes(v) \in Strings
    BY <1>6, EntryPlaces
  <2>5. p + x \in Nat /\ 0 + p = p /\ 0 + (p + x) = p + x
    BY <1>8
  <2>6. At(W, 0 + p, StringBytes(k)) /\ At(W, 0 + (p + x), StringBytes(v))
    BY <1>8, <2>2, <2>3, <2>4, <2>5, WholeType, AtWithin
  <2>. QED BY <2>5, <2>6
<1>11. k = SchemaKey <=> n = SchemaPlace
  BY <1>6, SchemaThere
<1>12. n = SchemaPlace => v = Schema
  BY <1>6, SchemaThere
<1>13. SchemaPlace \in Nat /\ SchemaPlace \in 0..Len(file.metadata) /\ n \in Nat
       /\ n - 1 \in 0..Len(file.metadata) /\ Schema # <<>> /\ Len(Schema) > 0
  <2>1. Len(<<>>) = 0
    OBVIOUS
  <2>. QED BY <2>1, SchemaThere, EntriesJoin
<1>14. /\ p <= b => before = Outcome("ok", IF SchemaPlace <= n - 1 THEN Schema ELSE <<>>, p)
       /\ before.how = "ok" /\ p > b =>
            before.at >= b /\ (EntryEnd(SchemaPlace) > b => before.value # Schema)
  BY <1>8 DEF HeaderRead
<1>15. \A q \in Nat : q >= b =>
         LET r == StdString(NumberIn(q)) IN r.how = "ok" => r.at >= b /\ Len(r.value) = 0
  BY <1>8, TextBehind
<1>16. p <= b => /\ p + x <= b => key = Outcome("ok", k, p + x)
                 /\ p + x > b /\ key.how = "ok" => key.at >= b
  <2>. SUFFICES ASSUME p <= b
                PROVE  /\ p + x <= b => key = Outcome("ok", k, p + x)
                       /\ p + x > b /\ key.how = "ok" => key.at >= b
    OBVIOUS
  <2>1. key = StdString(NumberIn(p))
    BY <1>1, <1>14, OutcomeFields
  <2>. QED BY <1>7, <1>8, <1>10, <2>1, TextReads
<1>17. p <= b /\ p + x <= b =>
         /\ p + x + y <= b => value = Outcome("ok", v, p + x + y)
         /\ p + x + y > b /\ value.how = "ok" =>
              value.at >= b /\ (n = SchemaPlace => value.value # Schema)
  <2>. SUFFICES ASSUME p <= b, p + x <= b
                PROVE  /\ p + x + y <= b => value = Outcome("ok", v, p + x + y)
                       /\ p + x + y > b /\ value.how = "ok" =>
                            value.at >= b /\ (n = SchemaPlace => value.value # Schema)
    OBVIOUS
  <2>1. value = StdString(NumberIn(p + x)) /\ p + x \in Nat
    BY <1>2, <1>8, <1>16, OutcomeFields
  <2>2. /\ p + x + y <= b => value = Outcome("ok", v, p + x + y)
        /\ p + x + y > b /\ value.how = "ok" => value.at >= b
        /\ p + x + y > b /\ value.how = "ok" /\ Len(v) > 0 => v[Len(v)] = 0 \/ value.value # v
    BY <1>7, <1>8, <1>10, <2>1, TextReads
  <2>. QED BY <1>12, <2>2, SchemaThere
<1>18. p <= b /\ EntryEnd(SchemaPlace) > b => before.value # Schema
  <2>. SUFFICES ASSUME p <= b, EntryEnd(SchemaPlace) > b PROVE before.value # Schema
    OBVIOUS
  <2>1. ~(SchemaPlace <= n - 1)
    <3>. SUFFICES ASSUME SchemaPlace <= n - 1 PROVE FALSE
      OBVIOUS
    <3>1. EntryEnd(SchemaPlace) <= EntryEnd(n - 1) /\ EntryEnd(SchemaPlace) \in Nat
      BY <1>13, HeaderPlaces
    <3>. QED BY <1>8, <3>1
  <2>. QED BY <1>13, <1>14, <2>1, OutcomeFields
<1>19. CASE p + x + y <= b
  <2>1. p <= b /\ p + x <= b
    BY <1>8, <1>19
  <2>2. before = Outcome("ok", IF SchemaPlace <= n - 1 THEN Schema ELSE <<>>, p)
        /\ key = Outcome("ok", k, p + x) /\ value = Outcome("ok", v, p + x + y)
    BY <1>14, <1>16, <1>17, <1>19, <2>1
  <2>3. next = Outcome("ok", IF k = SchemaKey THEN v
                             ELSE IF SchemaPlace <= n - 1 THEN Schema ELSE <<>>, p + x + y)
    BY <1>5, <2>2, OutcomeFields
  <2>4. (IF k = SchemaKey THEN v ELSE IF SchemaPlace <= n - 1 THEN Schema ELSE <<>>)
        = IF SchemaPlace <= n THEN Schema ELSE <<>>
    BY <1>11, <1>12, <1>13
  <2>. QED BY <1>3, <1>5, <1>8, <1>9, <1>19, <2>3, <2>4 DEF HeaderRead
<1>20. CASE p + x + y > b
  <2>. SUFFICES ASSUME next.how = "ok"
                PROVE  next.at >= b /\ (EntryEnd(SchemaPlace) > b => next.value # Schema)
    BY <1>3, <1>5, <1>8, <1>9, <1>20 DEF HeaderRead
  <2>1. /\ before.how = "ok" /\ key.how = "ok" /\ value.how = "ok"
        /\ next.at = value.at
        /\ next.value = IF key.value = SchemaKey THEN value.value ELSE before.value
    BY <1>5
  <2>2. EntryEnd(SchemaPlace) > b => before.value # Schema
    BY <1>8, <1>14, <1>18, <2>1
  <2>3. CASE p <= b /\ p + x <= b
    <3>1. key = Outcome("ok", k, p + x)
          /\ value.at >= b /\ (n = SchemaPlace => value.value # Schema)
      BY <1>16, <1>17, <1>20, <2>1, <2>3
    <3>. QED BY <1>11, <2>1, <2>2, <3>1, OutcomeFields
  <2>4. CASE p > b \/ p + x > b
    <3>1. key.at \in Nat /\ key.at >= b
      <4>1. key.at \in Nat /\ key.at >= before.at
        BY <1>1, <1>4, TextAfter
      <4>2. CASE p > b
        BY <1>4, <1>8, <1>14, <2>1, <4>1, <4>2
      <4>3. CASE p <= b
        BY <1>16, <2>1, <2>4, <4>1, <4>3
      <4>. QED BY <1>8, <4>2, <4>3
    <3>2. value.at >= b /\ Len(value.value) = 0
      BY <1>2, <1>15, <2>1, <3>1
    <3>3. value.value # Schema
      BY <1>13, <3>2
    <3>. QED BY <2>1, <2>2, <3>2, <3>3
  <2>. QED BY <1>8, <2>3, <2>4
<1>. QED BY <1>8, <1>19, <1>20

\* All of the metadata: they are read exactly if they are all there, the schema
\* is not found if it is not, and behind what is cut nothing is.
LEMMA MetadataRead ==
    ASSUME file \in Files, NEW M, M = Len(file.metadata), NEW metadata, metadata = Metadata
    PROVE  /\ metadata \in Outcomes(Strings)
           /\ EntryEnd(M) <= Len(file.bytes) => metadata = Outcome("ok", Schema, EntryEnd(M))
           /\ metadata.how = "ok" /\ EntryEnd(M) > Len(file.bytes) =>
                metadata.at >= Len(file.bytes)
           /\ metadata.how = "ok" /\ EntryEnd(SchemaPlace) > Len(file.bytes) =>
                metadata.value # Schema
<1>1. PICK number : number = NumberIn(Len(AVRO_MAGICK))
  OBVIOUS
<1>2. file.bytes \in Strings /\ M \in Nat /\ Len(AVRO_MAGICK) \in Nat /\ Len(file.bytes) \in Nat
  BY FileType, EntriesJoin, HeaderPlaces, Concat, WholeType
<1>3. number \in Outcomes(Int)
  BY <1>1, <1>2, ReadType DEF NumberIn
<1>4. /\ EntryEnd(0) <= Len(file.bytes) => number = Outcome("ok", M, EntryEnd(0))
      /\ EntryEnd(0) > Len(file.bytes) /\ number.how = "ok" =>
           number.at > Len(file.bytes) /\ number.value \in 0..M
  <2>1. Fits(M) /\ M >= 0
    BY <1>2, MetadataFit
  <2>2. /\ At(W, Len(AVRO_MAGICK), Groups(M))
        /\ EntryEnd(0) = Len(AVRO_MAGICK) + Len(Groups(M))
    BY HeaderPlaces
  <2>. QED BY <1>1, <1>2, <2>1, <2>2, NumberReads DEF NumberIn
<1>5. PICK N \in Nat : N = IF number.value > 0 THEN number.value ELSE 0
  <2>1. number.value \in Int
    BY <1>3 DEF Outcomes
  <2>. QED BY <2>1
<1>6. PICK first : first = Outcome(number.how, <<>>, number.at)
  OBVIOUS
<1>7. first \in Outcomes(Strings)
  BY <1>3, <1>6 DEF Outcome, Outcomes, Strings
<1>. DEFINE Equation(g) ==
         g = [n \in 0..(IF number.value > 0 THEN number.value ELSE 0) |->
                IF n = 0 THEN Outcome(number.how, <<>>, number.at)
                ELSE LET before == g[n - 1]
                         key == StdString(NumberIn(before.at))
                         value == StdString(NumberIn(key.at))
                     IN  IF before.how # "ok" THEN before
                         ELSE IF key.how # "ok" THEN key
                         ELSE IF value.how # "ok" THEN value
                         ELSE [value EXCEPT !.value = IF key.value = SchemaKey THEN @
                                                      ELSE before.value]]
<1>8. metadata = (CHOOSE g : Equation(g))[N]
  <2>1. metadata = (CHOOSE g : Equation(g))[IF number.value > 0 THEN number.value ELSE 0]
    BY ZenonT(180), <1>1 DEF Metadata
  <2>. QED BY <1>5, <2>1
<1>9. \A g : Equation(g) <=> g = [n \in 0..N |-> IF n = 0 THEN first ELSE NextEntry(g[n - 1])]
  BY <1>5, <1>6 DEF NextEntry
<1>. HIDE DEF Equation
<1>10. \E g : Equation(g)
  <2>. DEFINE step == [pair \in Nat \X Outcomes(Strings) |-> NextEntry(pair[2])]
  <2>1. step \in [Nat \X Outcomes(Strings) -> Outcomes(Strings)]
    BY <1>2, EntryType
  <2>2. PICK f : Recursive(f, Outcomes(Strings), first, step)
    <3>. HIDE DEF step
    <3>. QED BY <1>7, <2>1, Recursion
  <2>3. f[0] = first /\ \A n \in Nat : f[n + 1] = NextEntry(f[n])
    BY <2>2 DEF Recursive
  <2>. DEFINE g == [n \in 0..N |-> f[n]]
  <2>4. g = [n \in 0..N |-> IF n = 0 THEN first ELSE NextEntry(g[n - 1])]
    <3>1. ASSUME NEW n \in 0..N, n # 0 PROVE f[n] = NextEntry(g[n - 1])
      <4>1. n - 1 \in Nat /\ (n - 1) + 1 = n /\ n - 1 \in 0..N
        BY <3>1
      <4>. QED BY <2>3, <4>1
    <3>. QED BY <2>3, <3>1
  <2>. QED BY <1>9, <2>4
<1>11. PICK g : Equation(g) /\ metadata = g[N]
  BY <1>8, <1>10
<1>12. g[0] = first /\ \A n \in 1..N : g[n] = NextEntry(g[n - 1])
  BY <1>9, <1>11
<1>13. /\ \A n \in 0..M : EntryEnd(n) \in Nat
       /\ EntryEnd(0) <= EntryEnd(M) /\ EntryEnd(SchemaPlace) <= EntryEnd(M)
       /\ EntryEnd(0) <= EntryEnd(SchemaPlace)
       /\ \A n \in 0..M : EntryEnd(0) <= EntryEnd(n)
       /\ 0 \in 0..M /\ SchemaPlace \in 1..M /\ SchemaPlace \in 0..M /\ M \in 0..M
  <2>1. 0 \in 0..M /\ SchemaPlace \in 1..M /\ SchemaPlace \in 0..M /\ M \in 0..M
    BY <1>2, SchemaThere
  <2>2. 0 <= M /\ SchemaPlace <= M /\ 0 <= SchemaPlace /\ \A n \in 0..M : 0 <= n
    BY <1>2, <2>1
  <2>. QED BY <2>1, <2>2, HeaderPlaces
<1>14. CASE number.how # "ok"
  <2>. DEFINE P == {n \in Nat : n <= N => g[n] \in Outcomes(Strings) /\ g[n].how # "ok"}
  <2>1. 0 \in P
    BY <1>6, <1>7, <1>12, <1>14, OutcomeFields
  <2>2. ASSUME NEW n \in P PROVE n + 1 \in P
    <3>. SUFFICES ASSUME n + 1 <= N PROVE g[n + 1] \in Outcomes(Strings) /\ g[n + 1].how # "ok"
      OBVIOUS
    <3>1. n + 1 \in 1..N /\ (n + 1) - 1 = n /\ g[n] \in Outcomes(Strings) /\ g[n].how # "ok"
      OBVIOUS
    <3>. QED BY <1>12, <3>1 DEF NextEntry
  <2>3. P \in SUBSET Nat
    OBVIOUS
  <2>. HIDE DEF P
  <2>4. N \in P
    BY <2>1, <2>2, <2>3, Induct
  <2>5. metadata \in Outcomes(Strings) /\ metadata.how # "ok"
    BY <1>11, <2>4 DEF P
  <2>6. EntryEnd(0) > Len(file.bytes)
    BY <1>2, <1>4, <1>13, <1>14, OutcomeFields
  <2>. QED BY <1>2, <1>13, <2>5, <2>6
<1>15. CASE number.how = "ok"
  <2>1. N \in 0..M /\ (EntryEnd(0) <= Len(file.bytes) => N = M)
    <3>1. CASE EntryEnd(0) <= Len(file.bytes)
      BY <1>2, <1>4, <1>5, <3>1, OutcomeFields
    <3>2. CASE EntryEnd(0) > Len(file.bytes)
      BY <1>2, <1>4, <1>5, <1>13, <1>15, <3>2
    <3>. QED BY <1>2, <1>13, <3>1, <3>2
  <2>2. HeaderRead(first, 0)
    <3>1. EntryEnd(0) <= Len(file.bytes) => first = Outcome("ok", <<>>, EntryEnd(0))
      BY <1>4, <1>6, OutcomeFields
    <3>2. EntryEnd(0) > Len(file.bytes) => first.at >= Len(file.bytes) /\ first.value = <<>>
      <4>1. number.at \in Nat
        BY <1>3 DEF Outcomes
      <4>. QED BY <1>2, <1>4, <1>6, <1>15, <4>1, OutcomeFields
    <3>3. <<>> # Schema /\ ~(SchemaPlace <= 0)
      <4>1. Len(<<>>) = 0
        OBVIOUS
      <4>. QED BY <1>13, <4>1, SchemaThere
    <3>. QED BY <1>7, <3>1, <3>2, <3>3 DEF HeaderRead
  <2>. DEFINE P == {n \in Nat : n <= N => HeaderRead(g[n], n)}
  <2>3. 0 \in P
    BY <1>12, <2>2
  <2>4. ASSUME NEW n \in P PROVE n + 1 \in P
    <3>. SUFFICES ASSUME n + 1 <= N PROVE HeaderRead(g[n + 1], n + 1)
      OBVIOUS
    <3>1. n + 1 \in 1..N /\ n + 1 \in 1..M /\ (n + 1) - 1 = n /\ HeaderRead(g[n], n)
      BY <1>2, <2>1
    <3>. QED BY <1>12, <3>1, EntryStep
  <2>5. P \in SUBSET Nat
    OBVIOUS
  <2>. HIDE DEF P
  <2>6. N \in P
    BY <2>3, <2>4, <2>5, Induct
  <2>7. HeaderRead(metadata, N)
    BY <1>11, <2>6 DEF P
  <2>8. CASE EntryEnd(0) <= Len(file.bytes)
    <3>1. N = M /\ SchemaPlace <= M
      BY <1>13, <2>1, <2>8
    <3>2. EntryEnd(SchemaPlace) > Len(file.bytes) => EntryEnd(M) > Len(file.bytes)
      BY <1>2, <1>13
    <3>. QED BY <2>7, <3>1, <3>2 DEF HeaderRead
  <2>9. CASE EntryEnd(0) > Len(file.bytes)
    <3>1. /\ EntryEnd(N) > Len(file.bytes) /\ EntryEnd(M) > Len(file.bytes)
          /\ EntryEnd(SchemaPlace) > Len(file.bytes) /\ ~(EntryEnd(M) <= Len(file.bytes))
      BY SMTT(30), <1>2, <1>13, <2>1, <2>9
    <3>. QED BY <2>7, <3>1 DEF HeaderRead
  <2>10. EntryEnd(0) <= Len(file.bytes) \/ EntryEnd(0) > Len(file.bytes)
    BY <1>2, <1>13
  <2>. QED BY <2>8, <2>9, <2>10
<1>. QED BY <1>14, <1>15

-----------------------------------------------------------------------------
\* What a step of the emitter does: it fails, or it has read the header.
Failed ==
    /\ status' \in {"error", "lost"}
    /\ UNCHANGED <<file, sync, pointer, block, at, start, passed, i, blocks, printed>>

\* That is what Fail does.
LEMMA Fails == \A how : Fail(how) => Failed
BY DEF Fail, Failed

HeaderTaken ==
    /\ status' = "running"
    /\ UNCHANGED <<file, block, at, start, passed, i, blocks, printed>>
    /\ pointer' \in Nat /\ Len(sync') = SyncLength
    /\ IF End(0) <= Len(file.bytes) THEN sync' = file.sync /\ pointer' = End(0)
                                    ELSE pointer' >= Len(file.bytes)
    /\ EntryEnd(SchemaPlace) <= Len(file.bytes)

\* readHeader fails only if the header is not all there. If it does not fail, the
\* schema was read, and either all the rest, too, or everything up to the end of the
\* file.
LEMMA HeaderStep ==
    ASSUME file \in Files, ReadHeader
    PROVE  HeaderTaken \/ (Failed /\ End(0) > Len(file.bytes))
<1>1. PICK M \in Nat : M = Len(file.metadata)
  BY EntriesJoin
<1>2. PICK metadata : metadata = Metadata
  OBVIOUS
<1>3. PICK b \in Nat, e \in Nat, l \in Nat \ {0}, n \in Nat :
             /\ b = Len(file.bytes) /\ e = EntryEnd(M) /\ l = SyncLength
             /\ n = Len(AVRO_MAGICK)
  <2>1. M \in 0..M
    BY <1>1
  <2>2. EntryEnd(M) \in Nat /\ AVRO_MAGICK \in Strings
    BY <1>1, <2>1, HeaderPlaces
  <2>3. Len(file.bytes) \in Nat /\ SyncLength \in Nat \ {0} /\ Len(AVRO_MAGICK) \in Nat
    BY <2>2, WholeType, SizesAssumption, Concat
  <2>. QED BY <2>2, <2>3
<1>4. End(0) = e + 1 + l
  BY <1>1, <1>3, HeaderPlaces
<1>5. /\ metadata \in Outcomes(Strings)
      /\ e <= b => metadata = Outcome("ok", Schema, e)
      /\ metadata.how = "ok" /\ e > b => metadata.at >= b
      /\ metadata.how = "ok" /\ EntryEnd(SchemaPlace) > b => metadata.value # Schema
  BY <1>1, <1>2, <1>3, MetadataRead
<1>6. metadata.at \in Nat /\ EntryEnd(SchemaPlace) \in Nat
  <2>1. SchemaPlace \in 0..M
    BY <1>1, SchemaThere
  <2>. QED BY <1>1, <1>5, <2>1, HeaderPlaces DEF Outcomes
<1>7. PICK a \in Nat : a = metadata.at
  BY <1>6
<1>8. \/ ~Readable(0, n) /\ Fail("lost")
      \/ Bytes(0, n) # AVRO_MAGICK /\ Fail("error")
      \/ metadata.how # "ok" /\ Fail(metadata.how)
      \/ metadata.how = "ok" /\ ~Readable(a, 1) /\ Fail("lost")
      \/ metadata.how = "ok" /\ Byte(a) # 0 /\ Fail("error")
      \/ metadata.how = "ok" /\ ~Readable(a + 1, SyncLength) /\ Fail("lost")
      \/ metadata.how = "ok" /\ HeaderEnds(a + 1, metadata)
  BY <1>2, <1>3, <1>7 DEF ReadHeader
<1>9. CASE e + 1 + l <= b
  <2>1. e <= b /\ e + 1 <= b /\ (e + 1) + l <= b /\ e + 1 \in Nat
    BY <1>3, <1>9
  <2>2. metadata = Outcome("ok", Schema, e) /\ metadata.how = "ok" /\ a = e
        /\ metadata.value = Schema
    BY <1>5, <1>7, <2>1, OutcomeFields
  <2>3. Readable(0, n) /\ Bytes(0, n) = AVRO_MAGICK
    <3>1. AVRO_MAGICK \in Strings /\ At(W, 0, AVRO_MAGICK)
      BY <1>1, HeaderPlaces
    <3>2. 0 + n <= b
      <4>1. EntryEnd(0) <= e /\ EntryEnd(0) = n + Len(Groups(M)) /\ Len(Groups(M)) \in Nat
        <5>1. 0 \in 0..M /\ M \in 0..M /\ 0 <= M
          BY <1>1
        <5>. QED BY <1>1, <1>3, <5>1, HeaderPlaces, MetadataFit, GroupsType
      <4>. QED BY <1>3, <2>1, <4>1
    <3>. QED BY <1>3, <3>1, <3>2, Present
  <2>4. Readable(e, 1) /\ Byte(e) = 0
    <3>1. <<0>> \in Strings /\ Len(<<0>>) = 1 /\ <<0>>[1] = 0
      <4>1. 0 \in Octet
        BY Sizing DEF Octet
      <4>. QED BY <4>1 DEF Strings
    <3>2. At(W, e, <<0>>)
      BY <1>1, <1>3, HeaderPlaces
    <3>3. Readable(e, Len(<<0>>)) /\ Holds(e, <<0>>)
      BY <1>3, <2>1, <3>1, <3>2, Present
    <3>4. 1 \in 1..Len(<<0>>) /\ e + 1 - 1 = e
      BY <1>3, <3>1
    <3>. QED BY <3>1, <3>3, <3>4 DEF Holds
  <2>5. Readable(e + 1, SyncLength) /\ Bytes(e + 1, SyncLength) = file.sync
    <3>1. file.sync \in Strings /\ Len(file.sync) = SyncLength /\ At(W, e + 1, file.sync)
      BY <1>1, <1>3, FileType, HeaderPlaces DEF HasMarker
    <3>. QED BY <1>3, <2>1, <3>1, Present
  <2>6. HeaderEnds(e + 1, metadata)
    BY <1>8, <2>2, <2>3, <2>4, <2>5
  <2>7. EntryEnd(SchemaPlace) <= b
    <3>1. SchemaPlace \in 0..M /\ M \in 0..M /\ SchemaPlace <= M
      BY <1>1, SchemaThere
    <3>2. EntryEnd(SchemaPlace) <= e
      BY <1>1, <1>3, <3>1, HeaderPlaces
    <3>. QED BY <1>3, <1>6, <2>1, <3>2
  <2>8. /\ sync' = file.sync /\ pointer' = (e + 1) + l /\ status' = "running"
        /\ UNCHANGED <<file, block, at, start, passed, i, blocks, printed>>
    BY <1>3, <2>2, <2>5, <2>6 DEF HeaderEnds
  <2>9. Len(file.sync) = SyncLength
    BY FileType DEF HasMarker
  <2>10. (e + 1) + l = End(0) /\ (e + 1) + l \in Nat /\ End(0) <= Len(file.bytes)
    BY <1>3, <1>4, <1>9
  <2>. QED BY <1>3, <2>7, <2>8, <2>9, <2>10 DEF HeaderTaken
<1>10. CASE e + 1 + l > b
  <2>1. End(0) > Len(file.bytes) /\ ~(End(0) <= Len(file.bytes))
    BY <1>3, <1>4, <1>10
  <2>2. CASE metadata.how = "ok" /\ HeaderEnds(a + 1, metadata) /\ metadata.value = Schema
    <3>1. /\ sync' = Bytes(a + 1, SyncLength) /\ pointer' = a + 1 + l /\ status' = "running"
          /\ UNCHANGED <<file, block, at, start, passed, i, blocks, printed>>
      BY <1>3, <2>2 DEF HeaderEnds
    <3>2. Len(Bytes(a + 1, SyncLength)) = SyncLength
      BY <1>3 DEF Bytes
    <3>3. EntryEnd(SchemaPlace) <= b
      BY <1>3, <1>5, <1>6, <2>2
    <3>4. a + 1 + l \in Nat /\ a + 1 + l >= b
      <4>1. CASE e <= b
        <5>1. a = e
          BY <1>5, <1>7, <4>1, OutcomeFields
        <5>. QED BY <1>3, <1>7, <1>10, <5>1
      <4>2. CASE e > b
        BY <1>3, <1>5, <1>7, <2>2, <4>2
      <4>. QED BY <1>3, <4>1, <4>2
    <3>. QED BY <1>3, <2>1, <3>1, <3>2, <3>3, <3>4 DEF HeaderTaken
  <2>3. CASE HeaderEnds(a + 1, metadata) /\ metadata.value # Schema
    BY <2>1, <2>3, Fails DEF HeaderEnds
  <2>. QED BY <1>8, <2>1, <2>2, <2>3, Fails
<1>11. e + 1 + l <= b \/ e + 1 + l > b
  BY <1>3
<1>. QED BY <1>9, <1>10, <1>11

\* Or it has read the next block, and nothing of it is cut.
BlockTaken ==
    /\ block' = [count |-> Len(file.written[blocks + 1]) + file.overcount,
                 from |-> From(blocks + 1), size |-> Len(Data(blocks + 1))]
    /\ pointer' = End(blocks + 1) /\ End(blocks + 1) <= Len(file.bytes)
    /\ at' = 0 /\ start' = 0 /\ i' = 0 /\ blocks' = blocks + 1
    /\ UNCHANGED <<file, sync, passed, printed, status>>

\* Where the blocks end, and that a file is whole if it ends there.
LEMMA Ends ==
    ASSUME file \in Files
    PROVE  /\ Len(file.written) \in Nat
           /\ \A n \in 0..Len(file.written) : End(n) \in Nat /\ End(n) <= Len(W)
           /\ \A m, n \in 0..Len(file.written) : m <= n => End(m) <= End(n)
           /\ End(Len(file.written)) = Len(W)
           /\ \A n \in 0..Len(file.written) : Len(file.bytes) = End(n) => Whole(n)
           /\ \A n \in 0..Len(file.written) : Whole(n) => Len(file.bytes) = End(n)
<1>1. PICK N \in Nat : N = Len(file.written)
  BY FileJoin
<1>2. PICK g : g = FileBytes(file)
  OBVIOUS
<1>3. PICK z : z = HeaderBytes(file.metadata, file.sync)
  OBVIOUS
<1>4. z \in Strings /\ BlockParts \in [1..N -> Strings] /\ Joins(g, N, z, BlockParts)
  BY <1>1, <1>2, <1>3, FileJoin
<1>5. g \in [0..N -> Strings]
  <2>1. JoinsUp(g, N, z, BlockParts)
    BY <1>1, <1>4, JoinSteps
  <2>. QED BY <2>1 DEF JoinsUp
<1>6. \A n \in 0..N : At(g[N], 0, g[n])
  BY <1>1, <1>4, JoinPlaces
<1>7. \A j, k \in 0..N : j <= k => Len(g[j]) <= Len(g[k])
  BY <1>1, <1>4, JoinPlaces
<1>8. \A n \in 0..N : Len(g[n]) \in Nat /\ Len(g[n]) <= Len(g[N])
  <2>1. \A n \in 0..N : Len(g[n]) \in Nat
    BY <1>5, Concat
  <2>2. N \in 0..N /\ \A n \in 0..N : n <= N
    BY <1>1
  <2>. QED BY <1>7, <2>1, <2>2
<1>9. ASSUME NEW n \in 0..N, Len(file.bytes) = Len(g[n]) PROVE file.bytes = g[n]
  <2>1. file.bytes \in Strings /\ g[n] \in Strings
    BY <1>5, FileType
  <2>2. ASSUME NEW j \in 1..Len(g[n]) PROVE file.bytes[j] = g[n][j]
    <3>1. g[N][0 + j] = g[n][j] /\ 0 + j = j
      BY <1>6, <1>8 DEF At
    <3>2. W \in Strings /\ Len(file.bytes) \in 0..Len(W) /\ Len(W) \in Nat
          /\ file.bytes = SubSeq(W, 1, Len(file.bytes)) /\ W = g[N]
      BY <1>1, <1>2, WholeType DEF W
    <3>3. file.bytes[j] = W[j]
      BY <1>9, <3>2 DEF Strings
    <3>. QED BY <3>1, <3>2, <3>3
  <2>3. file.bytes \in Seq(Octet) /\ g[n] \in Seq(Octet)
    BY <2>1 DEF Strings
  <2>. QED BY <1>9, <2>2, <2>3
<1>. QED BY <1>1, <1>2, <1>7, <1>8, <1>9 DEF End, Whole, W

\* The numbers in front of a block.
LEMMA BlockNumbersRead ==
    ASSUME file \in Files, NEW n \in 1..Len(file.written),
           NEW count, count = NumberIn(End(n - 1)), NEW size, size = NumberIn(count.at)
    PROVE  /\ count \in Outcomes(Int) /\ size \in Outcomes(Int)
           /\ size.how = "ok" => size.at <= Mapped
           /\ From(n) <= Len(file.bytes) =>
                /\ count.how = "ok" /\ count.value = Len(file.written[n]) + file.overcount
                /\ size = Outcome("ok", Len(Data(n)), From(n))
           /\ From(n) > Len(file.bytes) /\ count.how = "ok" /\ size.how = "ok" =>
                size.at > Len(file.bytes) /\ size.value \in 0..Len(Data(n))
<1>1. PICK k : k = Len(file.written[n]) + file.overcount
  OBVIOUS
<1>2. k \in Nat /\ Fits(k) /\ Groups(k) = Counted(n)
  <2>1. Len(file.written[n]) \in Nat /\ file.overcount \in Nat
    BY Offsets, FileType
  <2>. QED BY <1>1, <2>1, BlocksFit DEF Counted
<1>3. PICK d \in Nat : d = Len(Data(n)) /\ Fits(d) /\ Groups(d) = Sized(n)
  <2>1. Len(Data(n)) \in Nat /\ Fits(Len(Data(n)))
    BY DataType, Concat, BlocksFit DEF Data
  <2>. QED BY <2>1 DEF Sized
<1>4. PICK p \in Nat, x \in Nat, y \in Nat, b \in Nat :
             /\ p = End(n - 1) /\ x = Len(Groups(k)) /\ y = Len(Groups(d))
             /\ b = Len(file.bytes)
  <2>1. End(n - 1) \in Nat /\ Len(Groups(k)) \in Nat /\ Len(Groups(d)) \in Nat
    BY <1>2, <1>3, BlockPlaces, GroupsType
  <2>. QED BY <2>1, WholeType
<1>5. At(W, p, Groups(k)) /\ At(W, p + x, Groups(d)) /\ From(n) = p + x + y
  BY <1>2, <1>3, <1>4, BlockPlaces DEF From
<1>6. file.bytes \in Strings
  BY FileType
<1>7. count \in Outcomes(Int)
  BY <1>4, <1>6, ReadType DEF NumberIn
<1>8. PICK q \in Nat : q = count.at
  BY <1>7 DEF Outcomes
<1>9. /\ size \in Outcomes(Int) /\ size.at >= q
      /\ size.how = "ok" => Readable(q, size.at - q)
  BY <1>6, <1>8, ReadType DEF NumberIn
<1>10. size.how = "ok" => size.at <= Mapped
  <2>. SUFFICES ASSUME size.how = "ok" PROVE size.at <= Mapped
    OBVIOUS
  <2>1. PICK a \in Nat : a = size.at
    BY <1>9 DEF Outcomes
  <2>2. q + (a - q) = a
    BY <1>8, <2>1
  <2>. QED BY <1>9, <2>1, <2>2 DEF Readable
<1>11. /\ p + x <= b => count = Outcome("ok", k, p + x)
       /\ p + x > b /\ count.how = "ok" => q > b
  <2>1. k >= 0
    BY <1>2
  <2>. QED BY <1>2, <1>4, <1>5, <1>8, <2>1, NumberReads DEF NumberIn
<1>12. CASE p + x <= b
  <2>1. count.how = "ok" /\ count.value = k /\ q = p + x
    BY <1>8, <1>11, <1>12, OutcomeFields
  <2>2. /\ p + x + y <= b => size = Outcome("ok", d, p + x + y)
        /\ p + x + y > b /\ size.how = "ok" => size.at > b /\ size.value \in 0..d
    <3>1. PICK r \in Nat : r = p + x
      BY <1>4
    <3>2. d >= 0 /\ At(W, r, Groups(d)) /\ Fits(d)
      BY <1>3, <1>5, <3>1
    <3>3. PICK eof : size = readZigZagLong(r, eof)
      BY <1>8, <2>1, <3>1 DEF NumberIn
    <3>4. /\ r + y <= b => size = Outcome("ok", d, r + y)
          /\ r + y > b /\ size.how = "ok" => size.at > b /\ size.value \in 0..d
      BY <1>4, <3>2, <3>3, NumberReads
    <3>. QED BY <3>1, <3>4
  <2>. QED BY <1>1, <1>3, <1>4, <1>5, <1>7, <1>9, <1>10, <2>1, <2>2
<1>13. CASE p + x > b
  <2>1. p + x + y > b /\ ~(p + x + y <= b)
    BY <1>4, <1>13
  <2>2. count.how = "ok" /\ size.how = "ok" => size.at > b /\ size.value = 0
    <3>. SUFFICES ASSUME count.how = "ok", size.how = "ok" PROVE size.at > b /\ size.value = 0
      OBVIOUS
    <3>1. q >= Len(file.bytes)
      BY <1>4, <1>8, <1>11, <1>13
    <3>2. size = NumberIn(q)
      BY <1>8
    <3>. QED BY <1>4, <1>8, <3>1, <3>2, NumberBehind DEF NumberIn
  <2>3. 0 \in 0..d
    BY <1>3
  <2>. QED BY <1>3, <1>4, <1>5, <1>7, <1>9, <1>10, <2>1, <2>2, <2>3
<1>. QED BY <1>4, <1>12, <1>13

\* None of the sums of nextBlock leaves the word.
LEMMA WordSums ==
    \A f, d, b, h \in Nat, l \in Nat \ {0} :
        h > 0 /\ f + d + l <= h /\ b <= h /\ f <= b =>
            /\ d \in 0..(2 * h - 1) /\ d + l \in 0..(2 * h - 1)
            /\ b - f \in 0..(2 * h - 1) /\ f + d \in 0..(2 * h - 1)
OBVIOUS

\* nextBlock reads the block as it was written, or fails, and only if the block is cut.
LEMMA NextBlockStep ==
    ASSUME file \in Files, blocks \in 0..Len(file.written), NextBlock, pointer \in Nat,
           IF End(blocks) <= Len(file.bytes) THEN sync = file.sync /\ pointer = End(blocks)
           ELSE blocks = 0 /\ pointer >= Len(file.bytes)
    PROVE  /\ blocks + 1 \in 1..Len(file.written)
           /\ BlockTaken \/ (Failed /\ End(blocks) < Len(file.bytes)
                                    /\ Len(file.bytes) < End(blocks + 1))
<1>1. PICK b \in Nat, l \in Nat \ {0}, w \in Nat, h \in Nat :
             /\ b = Len(file.bytes) /\ l = SyncLength /\ w = Len(W) /\ h = Word \div 2
             /\ b <= w /\ w <= h /\ Word = 2 * h
  <2>1. Len(W) \in Nat /\ Len(file.bytes) \in 0..Len(W) /\ PageSize \in Nat
        /\ Len(W) + PageSize <= Word \div 2 /\ SyncLength \in Nat \ {0}
    BY WholeType, SizesAssumption
  <2>2. Len(W) <= Word \div 2
    BY <2>1, Sizing
  <2>3. Len(file.bytes) \in Nat /\ Len(file.bytes) <= Len(W)
    BY <2>1
  <2>4. Word \div 2 \in Nat /\ Word = 2 * (Word \div 2)
    BY Sizing
  <2>. QED BY <2>1, <2>2, <2>3, <2>4
<1>2. pointer < b
  BY <1>1 DEF NextBlock
<1>3. End(blocks) \in Nat /\ sync = file.sync /\ pointer = End(blocks) /\ End(blocks) < b
  <2>1. End(blocks) \in Nat
    BY Ends
  <2>2. End(blocks) <= b
    <3>. SUFFICES ASSUME ~(End(blocks) <= b) PROVE FALSE
      OBVIOUS
    <3>1. blocks = 0 /\ pointer >= b
      BY <1>1
    <3>. QED BY <1>2, <3>1
  <2>. QED BY <1>1, <1>2, <2>1, <2>2
<1>4. PICK n \in 1..Len(file.written) : n = blocks + 1 /\ n - 1 = blocks
  <2>1. Len(file.written) \in Nat /\ End(Len(file.written)) = w
    BY <1>1, Ends
  <2>2. blocks # Len(file.written)
    BY <1>1, <1>3, <2>1
  <2>. QED BY <2>1, <2>2
<1>5. PICK count : count = NumberIn(pointer)
  OBVIOUS
<1>6. PICK size : size = NumberIn(count.at)
  OBVIOUS
<1>7. PICK f \in Nat, d \in Nat : f = From(n) /\ d = Len(Data(n)) /\ End(n) = f + d + l /\ f + d + l <= w
  <2>1. PICK p \in Nat, x \in Nat, y \in Nat, z \in Nat :
               p = End(n - 1) /\ x = Len(Counted(n)) /\ y = Len(Sized(n)) /\ z = Len(Data(n))
    <3>1. End(n - 1) \in Nat /\ Len(Counted(n)) \in Nat /\ Len(Sized(n)) \in Nat
          /\ Len(Data(n)) \in Nat
      BY BlockPlaces, Concat
    <3>. QED BY <3>1
  <2>2. From(n) = p + x + y /\ p + x + y \in Nat
    BY <2>1 DEF From
  <2>3. End(n) = p + x + y + z + l
    BY <1>1, <2>1, BlockPlaces
  <2>4. End(n) <= w
    <3>1. n \in 0..Len(file.written)
      OBVIOUS
    <3>. QED BY <1>1, <3>1, Ends
  <2>. QED BY <2>1, <2>2, <2>3, <2>4
<1>8. /\ count \in Outcomes(Int) /\ size \in Outcomes(Int)
      /\ size.how = "ok" => size.at <= Mapped
      /\ f <= b => /\ count.how = "ok" /\ count.value = Len(file.written[n]) + file.overcount
                   /\ size = Outcome("ok", d, f)
      /\ f > b /\ count.how = "ok" /\ size.how = "ok" => size.at > b /\ size.value \in 0..d
  BY <1>1, <1>3, <1>4, <1>5, <1>6, <1>7, BlockNumbersRead
<1>9. PICK from \in Nat, v \in Int : from = size.at /\ v = size.value
  BY <1>8 DEF Outcomes
<1>10. PICK behind : behind = size_t(from + v)
  OBVIOUS
<1>11. \/ count.how # "ok" /\ Fail(count.how)
       \/ size.how # "ok" /\ Fail(size.how)
       \/ size.how = "ok" /\ size_t(v + l) > size_t(b - from) /\ Fail("error")
       \/ size.how = "ok" /\ ~Readable(behind, l) /\ Fail("lost")
       \/ size.how = "ok" /\ Bytes(behind, l) # sync /\ Fail("error")
       \/ /\ count.how = "ok" /\ size.how = "ok" /\ ~(size_t(v + l) > size_t(b - from))
          /\ Bytes(behind, l) = sync
          /\ block' = [count |-> count.value, from |-> from, size |-> size_t(v)]
          /\ pointer' = behind + l
          /\ at' = 0 /\ start' = 0 /\ i' = 0 /\ blocks' = blocks + 1
          /\ UNCHANGED <<file, sync, passed, printed, status>>
  BY <1>1, <1>5, <1>6, <1>9, <1>10 DEF NextBlock
<1>12. CASE f > b
  <2>1. End(n) > b
    BY <1>1, <1>7, <1>12
  <2>2. ASSUME count.how = "ok", size.how = "ok" PROVE Bytes(behind, l) # sync
    <3>1. from > b /\ v \in 0..d /\ from < h
      <4>1. from > b /\ v \in 0..d
        BY <1>8, <1>9, <1>12, <2>2
      <4>2. from <= Mapped /\ Mapped <= h - 1 /\ Mapped \in Int
        BY <1>1, <1>8, <1>9, <2>2, MappedBounds
      <4>. QED BY <1>1, <4>1, <4>2
    <3>2. from + v \in 0..(Word - 1) /\ from + v \in Nat /\ from + v > b
      BY SMTT(30), <1>1, <1>7, <3>1
    <3>3. behind = from + v
      BY <1>10, <3>2, Converted
    <3>4. PICK j \in 1..l : file.sync[j] # 0
      BY <1>1, FileType DEF HasMarker
    <3>5. Bytes(behind, l)[j] = Byte(behind + j - 1)
      BY DEF Bytes
    <3>6. behind + j - 1 \in Nat /\ ~(behind + j - 1 < b)
      BY <1>1, <3>2, <3>3, <3>4
    <3>7. Byte(behind + j - 1) = 0
      BY <1>1, <3>6, ByteOfFile
    <3>. QED BY <1>3, <3>4, <3>5, <3>7
  <2>3. Failed
    BY <1>11, <2>2, Fails
  <2>. QED BY <1>1, <1>3, <1>4, <2>1, <2>3
<1>13. CASE f <= b
  <2>1. /\ count.how = "ok" /\ count.value = Len(file.written[n]) + file.overcount
        /\ size.how = "ok" /\ from = f /\ v = d
    BY <1>8, <1>9, <1>13, OutcomeFields
  <2>2. size_t(d) = d /\ size_t(d + l) = d + l /\ size_t(b - f) = b - f /\ size_t(f + d) = f + d
    <3>1. /\ d \in 0..(Word - 1) /\ d + l \in 0..(Word - 1) /\ b - f \in 0..(Word - 1)
          /\ f + d \in 0..(Word - 1)
      <4>1. h > 0
        BY <1>1, Sizing
      <4>2. f + d + l <= h /\ b <= h
        BY SMTT(30), <1>1, <1>7
      <4>3. f \in Nat /\ d \in Nat /\ l \in Nat \ {0} /\ b \in Nat /\ h \in Nat
        BY <1>1, <1>7
      <4>4. Word = 2 * h
        BY <1>1
      <4>. QED BY <1>13, <4>1, <4>2, <4>3, <4>4, WordSums
    <3>. QED BY <3>1, Converted
  <2>3. CASE d + l > b - f
    <3>1. size_t(v + l) > size_t(b - from)
      BY <2>1, <2>2, <2>3
    <3>2. Failed
      BY <1>11, <2>1, <3>1, Fails
    <3>3. End(n) > b
      BY <1>1, <1>7, <2>3
    <3>. QED BY <1>1, <1>3, <1>4, <3>2, <3>3
  <2>4. CASE d + l <= b - f
    <3>1. (f + d) + l <= b /\ f + d \in Nat
      BY SMTT(30), <1>1, <1>7, <2>4
    <3>2. Readable(f + d, l) /\ Bytes(f + d, l) = file.sync
      <4>1. At(W, f + d, file.sync)
        BY <1>7, BlockPlaces DEF From
      <4>2. file.sync \in Strings /\ Len(file.sync) = l
        BY <1>1, FileType DEF HasMarker
      <4>. QED BY <1>1, <3>1, <4>1, <4>2, Present
    <3>3. ~(d + l > b - f)
      BY SMTT(30), <1>1, <1>7, <2>4
    <3>4. /\ block' = [count |-> count.value, from |-> f, size |-> d]
          /\ pointer' = (f + d) + l
          /\ at' = 0 /\ start' = 0 /\ i' = 0 /\ blocks' = blocks + 1
          /\ UNCHANGED <<file, sync, passed, printed, status>>
      BY <1>3, <1>10, <1>11, <2>1, <2>2, <3>2, <3>3
    <3>5. (f + d) + l = End(n) /\ End(n) <= Len(file.bytes)
      BY <1>1, <1>7, <3>1
    <3>. QED BY <1>4, <1>7, <2>1, <3>4, <3>5 DEF BlockTaken
  <2>5. d + l > b - f \/ d + l <= b - f
    BY SMTT(30), <1>1, <1>7
  <2>. QED BY <2>3, <2>4, <2>5
<1>14. f > b \/ f <= b
  BY <1>1, <1>7
<1>. QED BY <1>12, <1>13, <1>14

-----------------------------------------------------------------------------
\* What was read before: the header exactly, if it is all there, and then one
\* block after the other, none of which is cut.
Placed ==
    /\ status = "opened" => blocks = 0
    /\ blocks <= Len(file.written)
    /\ status \in {"running", "ended"} =>
         IF End(blocks) <= Len(file.bytes)
         THEN sync = file.sync /\ pointer = End(blocks)
         ELSE blocks = 0 /\ pointer >= Len(file.bytes)

\* The block in hand, and no record is in hand outside of it.
Held ==
    /\ blocks = 0 => block.count = 0
    /\ blocks > 0 =>
         /\ block.from = From(blocks) /\ block.size = Len(Data(blocks))
         /\ block.count <= Len(file.written[blocks]) + file.overcount
         /\ End(blocks) <= Len(file.bytes)
    /\ passed => i < block.count

\* The worker is at the beginning of a record that was written.
InPlace ==
    InBlock /\ i < Len(file.written[blocks]) =>
        (IF passed THEN start ELSE at) = Offset(blocks, i)

IInv == file \in Files /\ TypeOK /\ Placed /\ Held /\ InPlace /\ NothingInvented

\* Why the run is over.
Reported ==
    /\ status \in {"error", "lost"} /\ file.overcount = 0 =>
         \A n \in 0..Len(file.written) : Len(file.bytes) # End(n)
    /\ status \in {"running", "ended"} => EntryEnd(SchemaPlace) <= Len(file.bytes)
    /\ status = "ended" => Len(file.bytes) <= pointer

\* A line p shows what was written into the file f, and so does all of s.
Right(f, p) ==
    /\ p.block \in DOMAIN f.written
    /\ p.number \in DOMAIN f.written[p.block]
    /\ f.written[p.block][p.number] = [value |-> p.value, text |-> p.text]

AllRight(f, s) == f.overcount = 0 => \A p \in {s[j] : j \in 1..Len(s)} : Right(f, p)

\* NothingInvented, as a statement about a file and what is printed.
LEMMA NothingMeansRight ==
    (NothingInvented <=> AllRight(file, printed)) /\ (NothingInvented' <=> AllRight(file', printed'))
<1>1. NothingInvented <=> AllRight(file, printed)
  BY DEF NothingInvented, AllRight, Right
<1>2. NothingInvented' <=> AllRight(file', printed')
  BY DEF NothingInvented, AllRight, Right
<1>. QED BY <1>1, <1>2

\* It stays if nothing is printed,
LEMMA NothingMore ==
    ASSUME NothingInvented, printed' = printed, file' = file
    PROVE  NothingInvented'
BY NothingMeansRight

\* or a line that is right.
LEMMA OneMore ==
    ASSUME NothingInvented, NEW S, printed \in Seq(S), NEW line, printed' = Append(printed, line),
           file' = file, file.overcount = 0 => Right(file, line)
    PROVE  NothingInvented'
<1>1. ASSUME file.overcount = 0, NEW j \in 1..Len(printed') PROVE Right(file, printed'[j])
  <2>1. CASE j \in 1..Len(printed)
    <3>1. printed'[j] = printed[j]
      BY <2>1
    <3>2. printed[j] \in {printed[k] : k \in 1..Len(printed)}
      BY <2>1
    <3>3. AllRight(file, printed)
      BY NothingMeansRight
    <3>. QED BY <1>1, <3>1, <3>2, <3>3 DEF AllRight
  <2>2. CASE j = Len(printed) + 1
    BY <1>1, <2>2
  <2>3. j \in 1..Len(printed) \/ j = Len(printed) + 1
    BY <1>1
  <2>. QED BY <2>1, <2>2, <2>3
<1>2. AllRight(file, printed')
  BY <1>1 DEF AllRight
<1>. QED BY <1>2, NothingMeansRight

\* The invariant holds in the beginning.
LEMMA Initially == Init => IInv
<1>. SUFFICES ASSUME Init PROVE IInv
  OBVIOUS
<1>1. Len(file.written) \in Nat
  BY FileJoin DEF Init
<1>2. TypeOK
  <2>1. /\ pointer \in Nat /\ at \in Nat /\ start \in Nat
        /\ i \in Nat /\ ~(i > 0) /\ blocks \in Nat
    BY DEF Init
  <2>4. passed \in BOOLEAN
    BY DEF Init
  <2>5. sync = <<>> /\ status \in {"opened", "running", "ended", "error", "lost"}
    BY DEF Init
  <2>2. block \in [count : Int, from : Nat, size : Nat]
    BY DEF Init
  <2>3. printed \in Seq([block : Nat, number : Nat, value : Int, text : Strings])
    BY DEF Init
  <2>. QED BY <2>1, <2>2, <2>3, <2>4, <2>5 DEF TypeOK
<1>3. Placed
  BY <1>1 DEF Init, Placed
<1>4. Held /\ InPlace /\ NothingInvented
  BY DEF Init, Held, InPlace, InBlock, NothingInvented
<1>. QED BY <1>2, <1>3, <1>4 DEF Init, IInv

\* A reading that fails changes nothing else.
LEMMA FailedKeeps ==
    ASSUME IInv, Failed
    PROVE  IInv'
<1>1. TypeOK'
  BY DEF IInv, TypeOK, Failed
<1>2. Placed'
  BY DEF IInv, Placed, Failed, End
<1>3. Held'
  BY DEF IInv, Held, Failed, From, End, Counted, Sized, Data
<1>4. InPlace' /\ NothingInvented'
  BY DEF IInv, InPlace, InBlock, NothingInvented, Failed
<1>5. file' \in Files
  BY DEF IInv, Failed
<1>. QED BY <1>1, <1>2, <1>3, <1>4, <1>5 DEF IInv

\* It is kept by reading the header,
LEMMA HeaderKeeps ==
    ASSUME IInv, ReadHeader
    PROVE  IInv'
<1>1. CASE Failed
  BY <1>1, FailedKeeps
<1>2. CASE HeaderTaken
  <2>1. blocks = 0 /\ block.count = 0
    BY DEF IInv, Placed, Held, ReadHeader
  <2>2. TypeOK'
    BY <1>2 DEF IInv, TypeOK, HeaderTaken
  <2>3. Placed'
    BY <1>2, <2>1 DEF IInv, Placed, HeaderTaken, End
  <2>4. Held'
    BY <1>2, <2>1 DEF IInv, Held, HeaderTaken
  <2>5. InPlace' /\ NothingInvented'
    <3>1. ~InBlock'
      BY <1>2, <2>1 DEF IInv, TypeOK, InBlock, HeaderTaken
    <3>. QED BY <1>2, <3>1 DEF IInv, InPlace, NothingInvented, HeaderTaken
  <2>6. file' \in Files
    BY <1>2 DEF IInv, HeaderTaken
  <2>. QED BY <2>2, <2>3, <2>4, <2>5, <2>6 DEF IInv
<1>. QED BY <1>1, <1>2, HeaderStep DEF IInv

\* by the end of the file,
LEMMA EndKeeps ==
    ASSUME IInv, EndOfFile
    PROVE  IInv'
<1>1. TypeOK'
  BY DEF IInv, TypeOK, EndOfFile
<1>2. Placed'
  BY DEF IInv, Placed, EndOfFile, Between, End
<1>3. Held'
  BY DEF IInv, Held, EndOfFile, From, End, Counted, Sized, Data
<1>4. InPlace' /\ NothingInvented'
  BY DEF IInv, InPlace, InBlock, NothingInvented, EndOfFile
<1>5. file' \in Files
  BY DEF IInv, EndOfFile
<1>. QED BY <1>1, <1>2, <1>3, <1>4, <1>5 DEF IInv

\* and by reading a block.
LEMMA BlockKeeps ==
    ASSUME IInv, NextBlock
    PROVE  IInv'
<1>1. file \in Files /\ blocks \in Nat /\ blocks <= Len(file.written) /\ status = "running"
      /\ pointer \in Nat
      /\ IF End(blocks) <= Len(file.bytes) THEN sync = file.sync /\ pointer = End(blocks)
         ELSE blocks = 0 /\ pointer >= Len(file.bytes)
  BY DEF IInv, TypeOK, Placed, NextBlock, Between
<1>2. blocks \in 0..Len(file.written)
  BY <1>1, Ends
<1>3. blocks + 1 \in 1..Len(file.written) /\ (BlockTaken \/ Failed)
  BY <1>1, <1>2, NextBlockStep
<1>4. CASE Failed
  BY <1>4, FailedKeeps
<1>5. CASE BlockTaken
  <2>1. PICK n \in 1..Len(file.written) : n = blocks + 1
    BY <1>3
  <2>2. n \in Nat /\ n > 0 /\ n <= Len(file.written) /\ n \in 0..Len(file.written)
    BY <1>1, <2>1, Ends
  <2>3. PICK c \in Nat, f \in Nat, d \in Nat :
               /\ c = Len(file.written[n]) + file.overcount /\ f = From(n) /\ d = Len(Data(n))
    <3>1. Len(file.written[n]) \in Nat /\ file.overcount \in Nat
      BY <1>1, Offsets, FileType
    <3>2. From(n) \in Nat
      <4>1. End(n - 1) \in Nat /\ Len(Counted(n)) \in Nat /\ Len(Sized(n)) \in Nat
        BY <1>1, BlockPlaces, Concat
      <4>. QED BY <4>1 DEF From
    <3>3. Len(Data(n)) \in Nat
      BY <1>1, Offsets
    <3>. QED BY <3>1, <3>2, <3>3
  <2>4. End(n) \in Nat
    BY <1>1, <2>2, Ends
  <2>5. /\ block' = [count |-> c, from |-> f, size |-> d]
        /\ pointer' = End(n) /\ End(n) <= Len(file.bytes)
        /\ at' = 0 /\ start' = 0 /\ i' = 0 /\ blocks' = n
        /\ UNCHANGED <<file, sync, passed, printed, status>>
    BY <1>5, <2>1, <2>3 DEF BlockTaken
  <2>6. passed = FALSE
    BY DEF IInv, TypeOK, Held, NextBlock, Between
  <2>7. TypeOK'
    BY <2>2, <2>3, <2>4, <2>5 DEF IInv, TypeOK
  <2>8. Placed'
    <3>1. sync = file.sync
      <4>1. pointer < Len(file.bytes) /\ pointer \in Nat /\ Len(file.bytes) \in Nat
        BY <1>1, WholeType DEF IInv, TypeOK, NextBlock
      <4>2. ~(pointer >= Len(file.bytes))
        BY <4>1
      <4>. QED BY <1>1, <4>2
    <3>. QED BY <1>1, <2>2, <2>5, <3>1 DEF Placed, End
  <2>9. Held'
    <3>1. f = From(n)' /\ d = Len(Data(n)') /\ End(n)' = End(n)
      BY <2>3, <2>5 DEF From, End, Counted, Sized, Data
    <3>. QED BY <2>2, <2>3, <2>5, <2>6, <3>1 DEF Held, From, End, Counted, Sized, Data
  <2>10. InPlace'
    <3>1. Len(DataBytes(file.written[n])[0]) = 0
      BY <1>1, Offsets DEF Offset
    <3>. QED BY <2>5, <2>6, <3>1 DEF InPlace, Offset
  <2>11. NothingInvented' /\ file' \in Files
    <3>1. printed' = printed /\ file' = file /\ NothingInvented
      BY <2>5 DEF IInv
    <3>. QED BY <1>1, <3>1 DEF NothingInvented
  <2>. QED BY <2>7, <2>8, <2>9, <2>10, <2>11 DEF IInv
<1>. QED BY <1>3, <1>4, <1>5

\* The block in hand while the worker goes through it.
LEMMA InHand ==
    ASSUME IInv, InBlock
    PROVE  /\ file \in Files /\ file.bytes \in Strings /\ status = "running"
           /\ blocks \in Nat /\ blocks > 0 /\ blocks \in 1..Len(file.written)
           /\ block.from = From(blocks) /\ From(blocks) \in Nat
           /\ block.size = Len(Data(blocks))
           /\ From(blocks) + Len(Data(blocks)) <= Len(file.bytes)
           /\ i \in Nat /\ i < block.count /\ block.count \in Int
           /\ Len(file.written[blocks]) \in Nat
           /\ block.count <= Len(file.written[blocks]) + file.overcount
<1>1. /\ file \in Files /\ file.bytes \in Strings /\ status = "running" /\ blocks \in Nat
      /\ i \in Nat /\ i < block.count /\ block.count \in Int /\ block.from \in Nat
      /\ blocks <= Len(file.written)
  BY FileType DEF IInv, TypeOK, Placed, InBlock
<1>2. blocks > 0
  BY <1>1 DEF IInv, Held
<1>3. blocks \in 1..Len(file.written)
  BY <1>1, <1>2, Ends
<1>4. /\ block.from = From(blocks) /\ block.size = Len(Data(blocks))
      /\ block.count <= Len(file.written[blocks]) + file.overcount
      /\ End(blocks) <= Len(file.bytes)
  BY <1>2 DEF IInv, Held
<1>5. PICK f \in Nat, d \in Nat, l \in Nat :
             f = From(blocks) /\ d = Len(Data(blocks)) /\ l = SyncLength
  BY <1>1, <1>3, <1>4, Offsets, SizesAssumption
<1>6. End(blocks) = f + d + l
  BY <1>1, <1>3, <1>5, BlockPlaces DEF From
<1>7. f + d <= Len(file.bytes)
  BY <1>1, <1>4, <1>5, <1>6, WholeType
<1>. QED BY <1>1, <1>2, <1>3, <1>4, <1>5, <1>7, Offsets

\* Giving up a block, or the run, keeps the invariant.
LEMMA AbandonKeeps ==
    ASSUME IInv, InBlock, NEW how \in {"eof", "error", "lost"}, Abandon(how)
    PROVE  IInv'
<1>1. /\ status = "running" /\ i \in Nat /\ i < block.count
      /\ block \in [count : Int, from : Nat, size : Nat] /\ blocks > 0
  BY InHand DEF IInv, TypeOK
<1>2. /\ block' \in [count : Int, from : Nat, size : Nat]
      /\ block'.from = block.from /\ block'.size = block.size
      /\ block'.count = (IF how = "eof" THEN i ELSE block.count)
      /\ passed' = FALSE
      /\ status' = (IF how = "eof" THEN "running" ELSE how)
      /\ UNCHANGED <<file, sync, pointer, at, start, i, blocks, printed>>
  BY <1>1 DEF Abandon
<1>3. ~InBlock'
  BY <1>1, <1>2 DEF InBlock
<1>4. TypeOK'
  <2>1. passed' \in BOOLEAN
    BY <1>2
  <2>2. i' \in Nat /\ (i' > 0 => i' <= block'.count)
    BY <1>1, <1>2
  <2>3. status' \in {"opened", "running", "ended", "error", "lost"}
    BY <1>2
  <2>. QED BY <1>2, <2>1, <2>2, <2>3 DEF IInv, TypeOK
<1>5. Placed'
  BY <1>1, <1>2 DEF IInv, Placed, End
<1>6. Held'
  <2>1. block'.count \in Int /\ block'.count <= block.count /\ block.count \in Int
    BY <1>1, <1>2
  <2>2. block.count <= Len(file.written[blocks]) + file.overcount
        /\ Len(file.written[blocks]) + file.overcount \in Int
    BY SMTT(30), InHand, FileType
  <2>3. block'.count <= Len(file.written[blocks]) + file.overcount
    BY <2>1, <2>2
  <2>4. ~passed' /\ file' = file /\ blocks' = blocks /\ blocks > 0
    BY <1>1, <1>2
  <2>5. blocks \in Nat /\ ~(blocks = 0)
    BY <1>1, InHand
  <2>6. block.from = From(blocks) /\ block.size = Len(Data(blocks)) /\ End(blocks) <= Len(file.bytes)
    BY <1>1 DEF IInv, Held
  <2>. QED BY <1>2, <2>3, <2>4, <2>5, <2>6 DEF Held, From, End, Counted, Sized, Data
<1>7. InPlace'
  BY <1>3 DEF InPlace
<1>8. NothingInvented' /\ file' \in Files
  <2>1. printed' = printed /\ file' = file /\ NothingInvented /\ file \in Files
    BY <1>2 DEF IInv
  <2>. QED BY <2>1 DEF NothingInvented
<1>. QED BY <1>4, <1>5, <1>6, <1>7, <1>8 DEF IInv

\* The record that the worker is at the beginning of.
LEMMA RecordThere ==
    ASSUME IInv, InBlock, i < Len(file.written[blocks]), NEW wanted, NEW p,
           p = IF passed THEN start ELSE at
    PROVE  LET r == file.written[blocks][i + 1]
               record == RecordAt(p, wanted)
               string == record.value[2]
           IN  /\ p = Offset(blocks, i)
               /\ record.how = "ok" /\ record.at = Offset(blocks, i + 1)
               /\ record.value[1] = IF wanted THEN r.value ELSE 0
               /\ Readable(block.from + string.from, string.len)
               /\ TextOf(string) = r.text
<1>1. p = Offset(blocks, i)
  BY DEF IInv, InPlace
<1>2. i + 1 \in 1..Len(file.written[blocks]) /\ (i + 1) - 1 = i
  BY SMTT(30), InHand
<1>3. PICK n \in 1..Len(file.written) : n = blocks
  BY InHand
<1>4. PICK m \in 1..Len(file.written[n]) : m = i + 1 /\ m - 1 = i
  BY <1>2, <1>3
<1>5. /\ block.from = From(n) /\ From(n) \in Nat /\ file \in Files
      /\ From(n) + Len(Data(n)) <= Len(file.bytes)
  BY <1>3, InHand
<1>6. LET r == file.written[n][m]
          record == RecordAt(Offset(n, m - 1), wanted)
          string == record.value[2]
      IN  /\ record.how = "ok" /\ record.at = Offset(n, m)
          /\ record.value[1] = IF wanted THEN r.value ELSE 0
          /\ Readable(block.from + string.from, string.len)
          /\ TextOf(string) = r.text
  BY <1>5, RecordWritten
<1>. QED BY <1>1, <1>3, <1>4, <1>6

\* A step of the worker that goes on keeps the block in hand.
WorkerGoesOn ==
    UNCHANGED <<file, sync, pointer, block, blocks, status>>

\* What WorkerGoesOn says of the invariant's parts about the block in hand.
LEMMA HeldKeeps ==
    ASSUME IInv, InBlock, WorkerGoesOn, i' \in Nat, i' <= block.count,
           passed' => i' < block.count
    PROVE  /\ Placed' /\ Held' /\ file' \in Files
           /\ i' > 0 => i' <= block'.count
           /\ file' = file /\ block' = block /\ blocks' = blocks /\ status' = status
<1>1. /\ file' = file /\ block' = block /\ blocks' = blocks /\ status' = status
      /\ sync' = sync /\ pointer' = pointer
  BY DEF WorkerGoesOn
<1>2. Placed'
  BY <1>1 DEF IInv, Placed, End
<1>3. Held'
  BY <1>1 DEF IInv, Held, From, End, Counted, Sized, Data
<1>. QED BY <1>1, <1>2, <1>3 DEF IInv

\* The invariant is kept by a record that is filtered, which is gone through from
\* its beginning to its end, whatever of it is read and whatever skipped;
LEMMA FilterKeeps ==
    ASSUME IInv, NEW wanted \in BOOLEAN, NEW passes \in BOOLEAN, FilterRecord(wanted, passes)
    PROVE  IInv'
<1>1. InBlock /\ ~passed
  BY DEF FilterRecord
<1>2. PICK record : record = RecordAt(at, wanted)
  OBVIOUS
<1>3. at \in Nat /\ block.from \in Nat /\ block.count \in Int /\ i \in Nat /\ file.bytes \in Strings
      /\ i < block.count
  BY <1>1, InHand DEF IInv, TypeOK
<1>4. record.how \in {"ok", "eof", "error", "lost"} /\ record.at \in Nat
  BY <1>2, <1>3, RecordType
<1>5. CASE record.how # "ok"
  <2>1. Abandon(record.how) /\ record.how \in {"eof", "error", "lost"}
    BY <1>2, <1>4, <1>5 DEF FilterRecord
  <2>. QED BY <1>1, <2>1, AbandonKeeps
<1>6. CASE record.how = "ok"
  <2>1. /\ start' = at /\ at' = record.at /\ passed' = passes
        /\ i' = (IF passes THEN i ELSE i + 1)
        /\ WorkerGoesOn /\ printed' = printed
    BY <1>2, <1>6 DEF FilterRecord, WorkerGoesOn
  <2>2. i' \in Nat /\ i' <= block.count /\ (passed' => i' < block.count)
    BY <1>3, <2>1
  <2>3. /\ Placed' /\ Held' /\ file' \in Files
        /\ i' > 0 => i' <= block'.count
        /\ file' = file /\ block' = block /\ blocks' = blocks /\ status' = status
    BY <1>1, <2>1, <2>2, HeldKeeps
  <2>4. TypeOK'
    <3>1. passed' \in BOOLEAN /\ sync' = sync /\ pointer' = pointer
      BY <2>1 DEF WorkerGoesOn
    <3>. QED BY <1>3, <1>4, <2>1, <2>2, <2>3, <3>1 DEF IInv, TypeOK
  <2>5. InPlace'
    <3>. SUFFICES ASSUME InBlock', i' < Len(file.written[blocks])
                  PROVE  (IF passed' THEN start' ELSE at') = Offset(blocks, i')
      BY <2>3 DEF InPlace, Offset
    <3>1. i < Len(file.written[blocks])
      <4>1. i' >= i /\ Len(file.written[blocks]) \in Nat
        BY <1>1, <1>3, <2>1, InHand
      <4>. QED BY <1>3, <2>2, <4>1
    <3>2. at = Offset(blocks, i) /\ record.at = Offset(blocks, i + 1)
      BY <1>1, <1>2, <3>1, RecordThere
    <3>. QED BY <2>1, <3>2
  <2>6. NothingInvented'
    <3>1. printed' = printed /\ file' = file /\ NothingInvented
      BY <2>1, <2>3 DEF IInv
    <3>. QED BY <3>1, NothingMore
  <2>. QED BY <2>3, <2>4, <2>5, <2>6 DEF IInv
<1>. QED BY <1>5, <1>6

\* by one that is not filtered;
LEMMA StartKeeps ==
    ASSUME IInv, StartRecord
    PROVE  IInv'
<1>1. InBlock /\ ~passed
  BY DEF StartRecord
<1>2. at \in Nat /\ block.count \in Int /\ i \in Nat /\ i < block.count
  BY <1>1, InHand DEF IInv, TypeOK
<1>3. start' = at /\ passed' = TRUE /\ i' = i /\ at' = at /\ WorkerGoesOn /\ printed' = printed
  BY DEF StartRecord, WorkerGoesOn
<1>4. /\ Placed' /\ Held' /\ file' \in Files
      /\ i' > 0 => i' <= block'.count
      /\ file' = file /\ block' = block /\ blocks' = blocks /\ status' = status
  <2>1. i' \in Nat /\ i' <= block.count /\ i' < block.count
    BY <1>2, <1>3
  <2>. QED BY <1>1, <1>3, <2>1, HeldKeeps
<1>5. TypeOK'
  <2>1. passed' \in BOOLEAN /\ sync' = sync /\ pointer' = pointer
    BY <1>3 DEF WorkerGoesOn
  <2>. QED BY <1>2, <1>3, <1>4, <2>1 DEF IInv, TypeOK
<1>6. InPlace'
  <2>1. i < Len(file.written[blocks]) => at = Offset(blocks, i)
    BY <1>1 DEF IInv, InPlace
  <2>2. (IF passed' THEN start' ELSE at') = at
    BY <1>3
  <2>. QED BY <1>3, <1>4, <2>1, <2>2 DEF InPlace, Offset
<1>7. NothingInvented'
  <2>1. printed' = printed /\ file' = file /\ NothingInvented
    BY <1>3, <1>4 DEF IInv
  <2>. QED BY <2>1, NothingMore
<1>. QED BY <1>4, <1>5, <1>6, <1>7 DEF IInv

\* and by one that is printed: it is read from its beginning again, as it was
\* written.
LEMMA DumpKeeps ==
    ASSUME IInv, DumpRecord
    PROVE  IInv'
<1>1. InBlock /\ passed
  BY DEF DumpRecord
<1>2. PICK record : record = RecordAt(start, TRUE)
  OBVIOUS
<1>3. start \in Nat /\ block.from \in Nat /\ block.count \in Int /\ i \in Nat /\ i < block.count
      /\ file.bytes \in Strings /\ blocks \in Nat
  BY <1>1, InHand DEF IInv, TypeOK
<1>4. /\ record.how \in {"ok", "eof", "error", "lost"} /\ record.at \in Nat
      /\ record.how = "ok" => record.value[1] \in Int /\ record.value[2] \in [from : Nat, len : Nat]
  BY <1>2, <1>3, RecordType
<1>5. PICK string : string = record.value[2]
  OBVIOUS
<1>6. CASE record.how # "ok" \/ ~Readable(block.from + string.from, string.len)
  <2>1. PICK how \in {"eof", "error", "lost"} : Abandon(how)
    BY <1>2, <1>4, <1>5, <1>6 DEF DumpRecord, resetToDocument
  <2>. QED BY <1>1, <2>1, AbandonKeeps
<1>7. CASE record.how = "ok" /\ Readable(block.from + string.from, string.len)
  <2>1. PICK line : line = Line(record.value[1], string)
    OBVIOUS
  <2>2. /\ at' = record.at /\ passed' = FALSE /\ i' = i + 1
        /\ printed' = Append(printed, line)
        /\ WorkerGoesOn /\ start' = start
    BY <1>2, <1>5, <1>7, <2>1 DEF DumpRecord, resetToDocument, WorkerGoesOn
  <2>3. /\ Placed' /\ Held' /\ file' \in Files
        /\ i' > 0 => i' <= block'.count
        /\ file' = file /\ block' = block /\ blocks' = blocks /\ status' = status
    <3>1. i' \in Nat /\ i' <= block.count /\ ~passed'
      BY <1>3, <2>2
    <3>. QED BY <1>1, <2>2, <3>1, HeldKeeps
  <2>4. line = [block |-> blocks, number |-> i + 1, value |-> record.value[1],
                text |-> TextOf(string)]
    BY <2>1 DEF Line, TextOf
  <2>5. TypeOK'
    <3>6. passed' \in BOOLEAN
      BY <2>2
    <3>1. sync' = sync /\ pointer' = pointer /\ i' \in Nat
      BY <1>3, <2>2 DEF WorkerGoesOn
    <3>2. PICK text : text = TextOf(string)
      OBVIOUS
    <3>3. text \in Strings
      <4>1. string.len \in Nat
        BY <1>4, <1>5, <1>7
      <4>2. text \in [1..string.len -> Octet]
        BY <1>3, <3>2, ByteIsOctet DEF TextOf
      <4>. QED BY <4>1, <4>2 DEF Strings
    <3>4. line \in [block : Nat, number : Nat, value : Int, text : Strings]
      BY <1>3, <1>4, <1>7, <2>4, <3>2, <3>3
    <3>5. printed' \in Seq([block : Nat, number : Nat, value : Int, text : Strings])
      BY <2>2, <3>4 DEF IInv, TypeOK
    <3>. QED BY <1>3, <1>4, <2>2, <2>3, <3>1, <3>5, <3>6 DEF IInv, TypeOK
  <2>6. InPlace'
    <3>. SUFFICES ASSUME InBlock', i' < Len(file.written[blocks])
                  PROVE  (IF passed' THEN start' ELSE at') = Offset(blocks, i')
      BY <2>3 DEF InPlace, Offset
    <3>1. i < Len(file.written[blocks])
      <4>1. Len(file.written[blocks]) \in Nat
        BY <1>1, InHand
      <4>. QED BY <1>3, <2>2, <4>1
    <3>2. record.at = Offset(blocks, i + 1)
      BY <1>1, <1>2, <3>1, RecordThere
    <3>. QED BY <2>2, <3>2
  <2>7. NothingInvented'
    <3>1. file.overcount = 0 => Right(file, line)
      <4>. SUFFICES ASSUME file.overcount = 0 PROVE Right(file, line)
        OBVIOUS
      <4>1. Len(file.written[blocks]) \in Nat /\ i < Len(file.written[blocks])
            /\ blocks \in 1..Len(file.written) /\ file \in Files
        BY <1>1, <1>3, InHand
      <4>2. i + 1 \in 1..Len(file.written[blocks])
        BY <1>3, <4>1
      <4>3. file.written \in Seq(Seq(Records)) /\ file.written[blocks] \in Seq(Records)
            /\ file.written[blocks][i + 1] \in Records
        BY <4>1, <4>2, FileType, BlocksFit
      <4>4. blocks \in DOMAIN file.written /\ i + 1 \in DOMAIN file.written[blocks]
        BY <4>1, <4>2, <4>3
      <4>5. /\ record.value[1] = file.written[blocks][i + 1].value
            /\ TextOf(string) = file.written[blocks][i + 1].text
        <5>1. start = IF passed THEN start ELSE at
          BY <1>1
        <5>2. PICK r : r = file.written[blocks][i + 1]
          OBVIOUS
        <5>3. /\ record.value[1] = IF TRUE THEN r.value ELSE 0
              /\ TextOf(string) = r.text
          BY <1>1, <1>2, <1>5, <4>1, <5>1, <5>2, RecordThere
        <5>. QED BY <5>2, <5>3
      <4>6. file.written[blocks][i + 1]
              = [value |-> record.value[1],
                 text |-> TextOf(string)]
        BY <4>3, <4>5 DEF Records
      <4>. QED BY <2>4, <4>4, <4>6 DEF Right
    <3>2. printed \in Seq([block : Nat, number : Nat, value : Int, text : Strings])
          /\ NothingInvented
      BY DEF IInv, TypeOK
    <3>. QED BY <2>2, <2>3, <3>1, <3>2, OneMore
  <2>. QED BY <2>3, <2>5, <2>6, <2>7 DEF IInv
<1>. QED BY <1>6, <1>7

\* Nor does it change with nothing.
LEMMA Stutters ==
    ASSUME IInv, UNCHANGED vars
    PROVE  IInv'
<1>1. /\ file' = file /\ sync' = sync /\ pointer' = pointer /\ block' = block /\ at' = at
      /\ start' = start /\ passed' = passed /\ i' = i /\ blocks' = blocks /\ printed' = printed
      /\ status' = status
  BY DEF vars
<1>2. TypeOK' /\ file' \in Files
  BY <1>1 DEF IInv, TypeOK
<1>3. Placed'
  BY <1>1 DEF IInv, Placed, End
<1>4. Held'
  BY <1>1 DEF IInv, Held, From, End, Counted, Sized, Data
<1>5. InPlace'
  BY <1>1 DEF IInv, InPlace, InBlock, Offset
<1>6. NothingInvented'
  BY <1>1, NothingMore DEF IInv
<1>. QED BY <1>2, <1>3, <1>4, <1>5, <1>6 DEF IInv

\* All steps keep the invariant.
LEMMA Keeps ==
    ASSUME IInv, [Next]_vars
    PROVE  IInv'
<1>1. CASE ReadHeader
  BY <1>1, HeaderKeeps
<1>2. CASE EndOfFile
  BY <1>2, EndKeeps
<1>3. CASE NextBlock
  BY <1>3, BlockKeeps
<1>4. CASE EndOfBuffer
  BY <1>4, AbandonKeeps DEF EndOfBuffer
<1>5. CASE StartRecord
  BY <1>5, StartKeeps
<1>6. CASE \E wanted, passes \in BOOLEAN : FilterRecord(wanted, passes)
  BY <1>6, FilterKeeps
<1>7. CASE DumpRecord
  BY <1>7, DumpKeeps
<1>8. CASE UNCHANGED vars
  BY <1>8, Stutters
<1>9. CASE Over
  BY <1>9, Stutters DEF Over
<1>. QED BY <1>1, <1>2, <1>3, <1>4, <1>5, <1>6, <1>7, <1>8, <1>9 DEF Next

\* So it holds always.
LEMMA Always == Spec => []IInv
<1>. QED BY Initially, Keeps, PTL DEF Spec

\* The variables have their types. The marker in the header is as long as a marker,
\* at, start and pointer are never negative, whatever lengths are read from the file
\* (stringbuffer.h, deflatedbuffer.h), and no more records of a block are gone
\* through than its count says.
THEOREM TypeCorrect == Spec => []TypeOK
BY Always, PTL DEF IInv

\* What is printed was written, in that place, for all files, however they were cut,
\* and all sizes of groups, words, markers and pages (zigzag.hpp, typeparser.h,
\* reader.cc:90-112): the worker is always at the beginning of a record, and both
\* ways through it, the one that skips and the one that reads, end where it ends.
THEOREM NothingInventedAlways == Spec => []NothingInvented
BY Always, PTL DEF IInv

-----------------------------------------------------------------------------
\* Nothing that the worker does with the records of a file that says how many
\* there are ends the run.
LEMMA WorkerSucceeds ==
    ASSUME IInv, InBlock, file.overcount = 0, NEW wanted
    PROVE  LET record == RecordAt(IF passed THEN start ELSE at, wanted)
           IN  record.how = "ok"
               /\ Readable(block.from + record.value[2].from, record.value[2].len)
<1>1. i < Len(file.written[blocks])
  <2>1. PICK L \in Nat, c \in Int : L = Len(file.written[blocks]) /\ c = block.count
    BY InHand
  <2>. QED BY <2>1, InHand
<1>. QED BY <1>1, RecordThere

\* Reported is about the file, its pointer and the status.
LEMMA StatusKept ==
    ASSUME Reported, UNCHANGED <<file, pointer, status>>
    PROVE  Reported'
BY DEF Reported, End, EntryEnd, SchemaPlace

\* A block given up is no end of the run, unless the file says there are more records.
LEMMA AbandonReported ==
    ASSUME IInv, Reported, InBlock, NEW how \in {"eof", "error", "lost"}, Abandon(how),
           file.overcount = 0 => how = "eof"
    PROVE  Reported'
<1>1. UNCHANGED <<file, pointer>> /\ status = "running"
      /\ status' = (IF how = "eof" THEN "running" ELSE how)
  BY InHand DEF Abandon
<1>2. CASE how = "eof"
  BY <1>1, <1>2, StatusKept
<1>3. CASE how # "eof"
  <2>1. file'.overcount # 0 /\ status' \notin {"running", "ended"}
    BY <1>1, <1>3
  <2>. QED BY <2>1 DEF Reported
<1>. QED BY <1>2, <1>3

\* After reading the header the run is over only for a reason,
LEMMA HeaderReported ==
    ASSUME IInv, Reported, ReadHeader
    PROVE  Reported'
<1>1. file \in Files
  BY DEF IInv
<1>2. CASE HeaderTaken
  <2>1. status' = "running" /\ file' = file /\ EntryEnd(SchemaPlace) <= Len(file.bytes)
    BY <1>2 DEF HeaderTaken
  <2>. QED BY <2>1 DEF Reported, EntryEnd, SchemaPlace
<1>3. CASE Failed /\ End(0) > Len(file.bytes)
  <2>1. ASSUME NEW n \in 0..Len(file.written) PROVE Len(file.bytes) # End(n)
    <3>1. n \in Nat /\ 0 \in 0..Len(file.written) /\ 0 <= n
      BY <1>1, Ends
    <3>2. End(0) <= End(n) /\ End(0) \in Nat /\ End(n) \in Nat /\ Len(file.bytes) \in Nat
      BY <1>1, <3>1, Ends, WholeType
    <3>. QED BY <1>3, <3>2
  <2>2. status' \in {"error", "lost"} /\ file' = file
    BY <1>3 DEF Failed
  <2>. QED BY <2>1, <2>2 DEF Reported, End
<1>. QED BY <1>1, <1>2, <1>3, HeaderStep

\* and after reading a block.
LEMMA BlockReported ==
    ASSUME IInv, Reported, NextBlock
    PROVE  Reported'
<1>1. file \in Files /\ blocks \in Nat /\ blocks <= Len(file.written) /\ status = "running"
      /\ pointer \in Nat
      /\ IF End(blocks) <= Len(file.bytes) THEN sync = file.sync /\ pointer = End(blocks)
         ELSE blocks = 0 /\ pointer >= Len(file.bytes)
  BY DEF IInv, TypeOK, Placed, NextBlock, Between
<1>2. blocks \in 0..Len(file.written)
  BY <1>1, Ends
<1>3. /\ blocks + 1 \in 1..Len(file.written)
      /\ BlockTaken \/ (Failed /\ End(blocks) < Len(file.bytes)
                               /\ Len(file.bytes) < End(blocks + 1))
  BY <1>1, <1>2, NextBlockStep
<1>4. CASE BlockTaken
  <2>1. status' = "running" /\ file' = file
    BY <1>1, <1>4 DEF BlockTaken
  <2>2. EntryEnd(SchemaPlace) <= Len(file.bytes)
    BY <1>1 DEF Reported
  <2>. QED BY <2>1, <2>2 DEF Reported, EntryEnd, SchemaPlace
<1>5. CASE Failed /\ End(blocks) < Len(file.bytes) /\ Len(file.bytes) < End(blocks + 1)
  <2>1. ASSUME NEW n \in 0..Len(file.written) PROVE Len(file.bytes) # End(n)
    <3>1. n \in Nat /\ blocks + 1 \in 0..Len(file.written) /\ (n <= blocks \/ blocks + 1 <= n)
      <4>1. PICK N \in Nat : N = Len(file.written)
        BY <1>1, Ends
      <4>2. n \in 0..N /\ blocks \in Nat /\ blocks + 1 \in 1..N
        BY <1>1, <1>3, <4>1
      <4>. QED BY <4>1, <4>2
    <3>2. /\ End(n) \in Nat /\ End(blocks) \in Nat /\ End(blocks + 1) \in Nat
          /\ Len(file.bytes) \in Nat
          /\ n <= blocks => End(n) <= End(blocks)
          /\ blocks + 1 <= n => End(blocks + 1) <= End(n)
      BY <1>1, <1>2, <3>1, Ends, WholeType
    <3>. QED BY <1>5, <3>1, <3>2
  <2>2. status' \in {"error", "lost"} /\ file' = file
    BY <1>5 DEF Failed
  <2>. QED BY <2>1, <2>2 DEF Reported, End
<1>. QED BY <1>3, <1>4, <1>5

\* All steps keep it.
LEMMA ReportedKeeps ==
    ASSUME IInv, Reported, [Next]_vars
    PROVE  Reported'
<1>1. CASE ReadHeader
  BY <1>1, HeaderReported
<1>2. CASE EndOfFile
  <2>1. /\ status = "running" /\ status' = "ended" /\ file' = file /\ pointer' = pointer
        /\ Len(file.bytes) <= pointer
    BY <1>2 DEF EndOfFile, Between
  <2>2. EntryEnd(SchemaPlace) <= Len(file.bytes)
    BY <2>1 DEF Reported
  <2>. QED BY <2>1, <2>2 DEF Reported, EntryEnd, SchemaPlace
<1>3. CASE NextBlock
  BY <1>3, BlockReported
<1>4. CASE EndOfBuffer
  BY <1>4, AbandonReported DEF EndOfBuffer
<1>5. CASE StartRecord
  BY <1>5, StatusKept DEF StartRecord
<1>6. ASSUME NEW wanted \in BOOLEAN, NEW passes \in BOOLEAN, FilterRecord(wanted, passes)
      PROVE  Reported'
  <2>1. PICK record : record = RecordAt(at, wanted)
    OBVIOUS
  <2>2. InBlock /\ ~passed
    BY <1>6 DEF FilterRecord
  <2>3. CASE record.how = "ok"
    BY <1>6, <2>1, <2>3, StatusKept DEF FilterRecord
  <2>4. CASE record.how # "ok"
    <3>1. record.how \in {"ok", "eof", "error", "lost"}
      <4>1. at \in Nat /\ block.from \in Nat /\ file.bytes \in Strings
        BY <2>2, InHand DEF IInv, TypeOK
      <4>. QED BY <2>1, <4>1, RecordType
    <3>2. Abandon(record.how)
      BY <1>6, <2>1, <2>4 DEF FilterRecord
    <3>3. file.overcount # 0
      BY <2>1, <2>2, <2>4, WorkerSucceeds
    <3>. QED BY <2>2, <2>4, <3>1, <3>2, <3>3, AbandonReported
  <2>. QED BY <2>3, <2>4
<1>7. CASE DumpRecord
  <2>1. PICK record : record = RecordAt(start, TRUE)
    OBVIOUS
  <2>2. InBlock /\ passed
    BY <1>7 DEF DumpRecord
  <2>3. CASE record.how = "ok" /\ Readable(block.from + record.value[2].from, record.value[2].len)
    BY <1>7, <2>1, <2>3, StatusKept DEF DumpRecord, resetToDocument
  <2>4. CASE ~(record.how = "ok" /\ Readable(block.from + record.value[2].from, record.value[2].len))
    <3>1. record.how \in {"ok", "eof", "error", "lost"}
      <4>1. start \in Nat /\ block.from \in Nat /\ file.bytes \in Strings
        BY <2>2, InHand DEF IInv, TypeOK
      <4>. QED BY <2>1, <4>1, RecordType
    <3>2. PICK how \in {"eof", "error", "lost"} : Abandon(how)
      BY <1>7, <2>1, <2>4, <3>1 DEF DumpRecord, resetToDocument
    <3>3. file.overcount # 0
      BY <2>1, <2>2, <2>4, WorkerSucceeds
    <3>. QED BY <2>2, <3>2, <3>3, AbandonReported
  <2>. QED BY <2>3, <2>4
<1>8. CASE UNCHANGED vars
  BY <1>8, StatusKept DEF vars
<1>9. CASE Over
  BY <1>9, StatusKept DEF Over, vars
<1>. QED BY <1>1, <1>2, <1>3, <1>4, <1>5, <1>6, <1>7, <1>8, <1>9 DEF Next

\* With the other invariant it is what CutReported says.
LEMMA ReportedMeans ==
    ASSUME IInv, Reported
    PROVE  CutReported
<1>. SUFFICES ASSUME file.overcount = 0
              PROVE  /\ {n \in 0..Len(file.written) : Whole(n)} # {} =>
                          status \notin {"error", "lost"}
                     /\ status = "ended" =>
                          \/ blocks \in {n \in 0..Len(file.written) : Whole(n)}
                          \/ blocks = 0 /\ CutBehindSchema
  BY DEF CutReported
<1>1. file \in Files /\ blocks \in 0..Len(file.written)
  <2>1. file \in Files /\ blocks \in Nat /\ blocks <= Len(file.written)
    BY DEF IInv, TypeOK, Placed
  <2>. QED BY <2>1, Ends
<1>2. ASSUME NEW n \in 0..Len(file.written), Whole(n) PROVE status \notin {"error", "lost"}
  BY <1>1, <1>2, Ends DEF Reported
<1>3. ASSUME status = "ended"
      PROVE  Whole(blocks) \/ (blocks = 0 /\ CutBehindSchema)
  <2>1. PICK b \in Nat, e \in Nat, p \in Nat :
               b = Len(file.bytes) /\ e = End(blocks) /\ p = pointer /\ b <= p
    <3>1. Len(file.bytes) \in Nat /\ End(blocks) \in Nat /\ pointer \in Nat
      BY <1>1, WholeType, Ends DEF IInv, TypeOK
    <3>. QED BY <1>3, <3>1 DEF Reported
  <2>2. CASE e <= b
    <3>1. p = e
      BY <1>3, <2>1, <2>2 DEF IInv, Placed
    <3>2. b = e
      BY <2>1, <2>2, <3>1
    <3>. QED BY <1>1, <2>1, <3>2, Ends
  <2>3. CASE ~(e <= b)
    <3>1. blocks = 0
      BY <1>3, <2>1, <2>3 DEF IInv, Placed
    <3>2. PICK m \in 1..Len(file.metadata) : m = SchemaPlace /\ file.metadata[m][1] = SchemaKey
      BY <1>1, SchemaThere
    <3>3. m \in DOMAIN file.metadata /\ m \in 0..Len(file.metadata)
      BY <1>1, FileType
    <3>4. PICK s \in Nat : s = EntryEnd(m) /\ s <= b
      <4>1. EntryEnd(m) \in Nat
        BY <1>1, <3>3, HeaderPlaces
      <4>. QED BY <1>3, <2>1, <3>2, <4>1 DEF Reported
    <3>5. b \in s..(e - 1)
      BY <2>1, <2>3, <3>4
    <3>6. Len(file.bytes) \in Len(EntryBytes(file.metadata)[m])..(Len(FileBytes(file)[0]) - 1)
      BY <2>1, <3>1, <3>4, <3>5 DEF EntryEnd, End
    <3>. QED BY <3>1, <3>2, <3>3, <3>6 DEF CutBehindSchema
  <2>. QED BY <2>2, <2>3
<1>. QED BY <1>1, <1>2, <1>3

\* A file that ends with a block is read to its end with all its records, and one
\* that is cut elsewhere is not taken for one that ends with a block, for all files
\* and sizes (reader.cc:48-112).
THEOREM CutReportedAlways == Spec => []CutReported
<1>1. Init => Reported
  BY DEF Init, Reported
<1>2. IInv /\ Reported /\ [Next]_vars => Reported'
  BY ReportedKeeps
<1>3. IInv /\ Reported => CutReported
  BY ReportedMeans
<1>. QED BY <1>1, <1>2, <1>3, Always, PTL DEF Spec

-----------------------------------------------------------------------------
\* The length of the string that is read behind the data of the block in hand.
LengthBehind ==
    LET behind == readZigZagLong(block.from + block.size, FALSE)
    IN  readZigZagLong(behind.at, FALSE).value

\* When the records that were written are gone through, the worker is at the end
\* of the data; and when one more is, behind it, where DeflatedBuffer::eof stops it.
Behind ==
    blocks > 0 /\ LengthBehind >= 0 =>
        /\ i <= Len(file.written[blocks]) + 1
        /\ InBlock /\ i = Len(file.written[blocks]) =>
             (IF passed THEN start ELSE at) = block.size
        /\ InBlock /\ i = Len(file.written[blocks]) + 1 => ~passed /\ at > block.size

\* What is read depends on the file only.
LEMMA ReadKept ==
    ASSUME file' = file
    PROVE  \A p : readZigZagLong(p, FALSE)' = readZigZagLong(p, FALSE)
BY ZenonT(30), SMTT(30) DEF readZigZagLong, NumberAt, LastOf, Encoded, Byte, Readable, Mapped

\* So the length behind the data changes with the block only.
LEMMA LengthKept ==
    ASSUME file' = file, block'.from = block.from, block'.size = block.size
    PROVE  LengthBehind' = LengthBehind
BY ReadKept DEF LengthBehind

\* If the block in hand is no longer gone through, nothing changes.
LEMMA BehindStays ==
    ASSUME Behind, file' = file, blocks' = blocks, i' = i, ~InBlock',
           block'.from = block.from, block'.size = block.size
    PROVE  Behind'
<1>1. LengthBehind' = LengthBehind
  BY LengthKept
<1>. QED BY <1>1 DEF Behind

\* The sum of a place in the mapping and a length does not leave the word.
LEMMA BeyondSums ==
    \A h, m, to, v \in Nat : to <= m /\ m <= h - 1 /\ v <= h - 1 => to + v \in 0..(2 * h - 1)
OBVIOUS

\* A record that is read at the end of the data is behind it: the long and the
\* length take a byte each at least, and neither the length nor the place, which
\* is in the mapping, is so large that their sum overflows.
LEMMA RecordBehind ==
    ASSUME file \in Files, block.from \in Nat, NEW p \in Nat, p = block.size, LengthBehind >= 0,
           NEW wanted, RecordAt(p, wanted).how = "ok"
    PROVE  RecordAt(p, wanted).at > p
<1>1. file.bytes \in Strings
  BY FileType
<1>2. PICK f \in Nat : f = block.from
  OBVIOUS
<1>3. PICK long : long = LongAt(p, wanted)
  OBVIOUS
<1>4. PICK string : string = StringAt(long.at)
  OBVIOUS
<1>5. RecordAt(p, wanted) = IF long.how # "ok" THEN Outcome(long.how, <<>>, long.at)
                            ELSE Outcome(string.how, <<long.value, string.value>>, string.at)
  BY <1>3, <1>4 DEF RecordAt
<1>6. long.how = "ok" /\ string.how = "ok" /\ RecordAt(p, wanted).at = string.at
  <2>1. long.how = "ok"
    BY <1>5, OutcomeFields
  <2>2. RecordAt(p, wanted) = Outcome(string.how, <<long.value, string.value>>, string.at)
    BY <1>5, <2>1
  <2>. QED BY <2>1, <2>2, OutcomeFields
<1>7. PICK len : len = LongAt(long.at, TRUE)
  OBVIOUS
<1>8. len.how = "ok" /\ string.at = size_t(len.at + len.value)
  <2>1. PICK text : string = Outcome(len.how, text, size_t(len.at + len.value))
    BY <1>4, <1>7 DEF StringAt, StringBehind
  <2>2. string.how = len.how /\ string.at = size_t(len.at + len.value)
    BY <2>1, OutcomeFields
  <2>. QED BY <1>6, <2>2
<1>9. PICK q \in Nat : q = long.at /\ q > p
  <2>1. long \in Outcomes(Int) /\ long.at > p
    BY <1>1, <1>3, <1>6, LongType
  <2>. QED BY <2>1 DEF Outcomes
<1>10. PICK to \in Nat : to = len.at /\ to > q /\ f + to <= Mapped
  <2>1. len \in Outcomes(Int) /\ len.at > q /\ f + len.at <= Mapped
    BY <1>1, <1>2, <1>7, <1>8, <1>9, LongType
  <2>. QED BY <2>1 DEF Outcomes
<1>11. readZigZagLong(f + p, FALSE).at = f + q
  <2>1. PICK eof : eof = BufferEof(p + MaxGroups)
    OBVIOUS
  <2>2. PICK n : n = IF wanted THEN readZigZagLong(f + p, eof) ELSE skipZigZagLong(f + p, eof)
    OBVIOUS
  <2>3. long = Outcome(n.how, n.value, n.at - f)
    BY <1>2, <1>3, <2>1, <2>2 DEF LongAt, InBuffer
  <2>4. n.how = "ok" /\ q = n.at - f
    BY <1>6, <1>9, <2>3, OutcomeFields
  <2>5. readZigZagLong(f + p, FALSE).at = n.at
    BY <2>2, <2>4, ReadSame
  <2>6. n.at \in Nat
    <3>1. f + p \in Nat
      OBVIOUS
    <3>2. n \in Outcomes(Int)
      BY <1>1, <2>2, <3>1, ReadType, SkipType
    <3>. QED BY <3>2 DEF Outcomes
  <2>7. n.at = f + q
    <3>1. PICK a \in Nat : a = n.at
      BY <2>6
    <3>2. q = a - f
      BY <2>4, <3>1
    <3>3. a = f + q
      BY <3>2
    <3>. QED BY <3>1, <3>3
  <2>. QED BY <2>5, <2>7
<1>12. len.value = LengthBehind /\ Fits(len.value)
  <2>1. PICK eof : eof = BufferEof(q + MaxGroups)
    OBVIOUS
  <2>2. PICK n : n = readZigZagLong(f + q, eof)
    OBVIOUS
  <2>3. len = Outcome(n.how, n.value, n.at - f)
    BY <1>2, <1>7, <1>9, <2>1, <2>2 DEF LongAt, InBuffer
  <2>4. n.how = "ok" /\ len.value = n.value
    BY <1>8, <2>3, OutcomeFields
  <2>5. readZigZagLong(f + q, FALSE).value = n.value
    BY <2>2, <2>4, ReadSame
  <2>6. Fits(n.value)
    <3>1. f + q \in Nat
      OBVIOUS
    <3>. QED BY <1>1, <2>2, <3>1, ReadFits
  <2>. QED BY <1>2, <1>11, <2>4, <2>5, <2>6 DEF LengthBehind
<1>13. PICK h \in Nat : h = Word \div 2 /\ Word = 2 * h
  BY Sizing
<1>14. PICK v \in Nat : v = len.value /\ v <= h - 1
  BY <1>12, <1>13 DEF Fits
<1>15. PICK m \in Nat : m = Mapped /\ m <= h - 1
  BY <1>13, MappedBounds, WholeType
<1>16. to <= m
  BY <1>10, <1>15
<1>17. size_t(to + v) = to + v
  <2>1. to + v \in 0..(2 * h - 1)
    BY <1>14, <1>15, <1>16, BeyondSums
  <2>. QED BY <1>13, <2>1, Converted
<1>18. string.at = to + v
  BY <1>8, <1>10, <1>14, <1>17
<1>. QED BY <1>6, <1>9, <1>10, <1>14, <1>18

\* One more record, or a record in hand.
LEMMA WorkerBehind ==
    ASSUME IInv, Behind, InBlock, WorkerGoesOn, NEW p \in Nat, p = IF passed THEN start ELSE at,
           passed \/ ~BufferEof(at),
           \/ i' = i /\ passed' = TRUE /\ start' = p
           \/ /\ i' = i + 1 /\ passed' = FALSE
              /\ \E wanted : RecordAt(p, wanted).how = "ok" /\ at' = RecordAt(p, wanted).at
    PROVE  Behind'
<1>1. /\ file' = file /\ block' = block /\ blocks' = blocks /\ status' = status
  BY DEF WorkerGoesOn
<1>2. PICK n \in 1..Len(file.written) : n = blocks
  BY InHand
<1>3. PICK L \in Nat, s \in Nat : L = Len(file.written[n]) /\ s = block.size
  BY <1>2, InHand DEF IInv, TypeOK
<1>4. file \in Files /\ i \in Nat /\ blocks > 0 /\ block.from \in Nat
  BY InHand DEF IInv, TypeOK
<1>. SUFFICES ASSUME LengthBehind >= 0
              PROVE  /\ i' <= L + 1
                     /\ InBlock' /\ i' = L => (IF passed' THEN start' ELSE at') = s
                     /\ InBlock' /\ i' = L + 1 => ~passed' /\ at' > s
  <2>1. LengthBehind' = LengthBehind
    BY <1>1, LengthKept
  <2>. QED BY <1>1, <1>2, <1>3, <2>1 DEF Behind
<1>5. i <= L + 1 /\ (i = L => p = s) /\ (i = L + 1 => ~passed /\ at > s)
  BY <1>2, <1>3, <1>4 DEF Behind
<1>6. i # L + 1
  <2>1. SUFFICES ASSUME i = L + 1 PROVE FALSE
    OBVIOUS
  <2>. QED BY <1>3, <1>5, <2>1 DEF BufferEof
<1>7. CASE i' = i /\ passed' = TRUE /\ start' = p
  BY <1>3, <1>4, <1>5, <1>6, <1>7
<1>8. CASE /\ i' = i + 1 /\ passed' = FALSE
           /\ \E wanted : RecordAt(p, wanted).how = "ok" /\ at' = RecordAt(p, wanted).at
  <2>1. PICK wanted : RecordAt(p, wanted).how = "ok" /\ at' = RecordAt(p, wanted).at
    BY <1>8
  <2>2. CASE i = L
    <3>1. p = s
      BY <1>5, <2>2
    <3>2. at' > s
      BY <1>3, <1>4, <2>1, <3>1, RecordBehind
    <3>. QED BY <1>3, <1>8, <2>2, <3>2
  <2>3. CASE i < L
    <3>1. at' = Offset(n, i + 1)
      BY <1>2, <1>3, <2>1, <2>3, RecordThere
    <3>2. i + 1 = L => at' = s
      BY <1>2, <1>3, <3>1, InHand DEF Offset, Data
    <3>. QED BY <1>3, <1>4, <1>8, <2>3, <3>2
  <2>. QED BY <1>3, <1>4, <1>5, <1>6, <2>2, <2>3
<1>. QED BY <1>7, <1>8

\* All steps keep it.
LEMMA BehindKeeps ==
    ASSUME IInv, Behind, [Next]_vars
    PROVE  Behind'
<1>1. ASSUME Failed PROVE Behind'
  BY <1>1, BehindStays DEF Failed, InBlock
<1>2. ASSUME InBlock, NEW how \in {"eof", "error", "lost"}, Abandon(how) PROVE Behind'
  <2>1. i \in Nat /\ block \in [count : Int, from : Nat, size : Nat]
    BY DEF IInv, TypeOK
  <2>2. /\ file' = file /\ blocks' = blocks /\ i' = i
        /\ block'.from = block.from /\ block'.size = block.size
        /\ how = "eof" => block'.count = i
        /\ how # "eof" => status' = how
    BY <1>2, <2>1 DEF Abandon
  <2>3. ~InBlock'
    BY <1>2, <2>1, <2>2 DEF InBlock
  <2>. QED BY <2>2, <2>3, BehindStays
<1>3. CASE ReadHeader
  <2>1. blocks = 0
    BY <1>3 DEF ReadHeader, IInv, Placed
  <2>2. blocks' = blocks
    BY <1>3 DEF ReadHeader, Fail, HeaderEnds
  <2>. QED BY <2>1, <2>2 DEF Behind
<1>4. CASE EndOfFile
  BY <1>4, BehindStays DEF EndOfFile, InBlock
<1>5. CASE NextBlock
  <2>1. /\ file \in Files /\ blocks \in Nat /\ blocks <= Len(file.written)
        /\ pointer \in Nat
        /\ IF End(blocks) <= Len(file.bytes) THEN sync = file.sync /\ pointer = End(blocks)
           ELSE blocks = 0 /\ pointer >= Len(file.bytes)
    BY <1>5 DEF IInv, TypeOK, Placed, NextBlock, Between
  <2>2. blocks \in 0..Len(file.written)
    BY <2>1, Ends
  <2>3. blocks + 1 \in 1..Len(file.written) /\ (BlockTaken \/ Failed)
    BY <1>5, <2>1, <2>2, NextBlockStep
  <2>4. CASE BlockTaken
    <3>1. PICK n \in 1..Len(file.written) : n = blocks + 1
      BY <2>3
    <3>2. PICK L \in Nat : L = Len(file.written[n])
      BY <2>1, <3>1, Offsets
    <3>3. /\ file' = file /\ blocks' = n /\ i' = 0 /\ at' = 0
          /\ block'.size = Len(Data(n)) /\ passed' = passed
      BY <2>4, <3>1 DEF BlockTaken
    <3>4. ~passed
      BY <1>5 DEF IInv, TypeOK, Held, NextBlock, Between
    <3>5. L = 0 => Len(Data(n)) = 0
      BY <2>1, <3>1, <3>2, Offsets DEF Offset, Data
    <3>6. i' <= L + 1 /\ i' # L + 1
      BY <3>2, <3>3
    <3>. QED BY <3>2, <3>3, <3>4, <3>5, <3>6 DEF Behind
  <2>. QED BY <1>1, <2>3, <2>4
<1>6. CASE EndOfBuffer
  BY <1>2, <1>6 DEF EndOfBuffer
<1>7. CASE StartRecord
  <2>1. InBlock /\ ~passed /\ ~BufferEof(at) /\ at \in Nat
    BY <1>7 DEF StartRecord, IInv, TypeOK
  <2>2. i' = i /\ passed' = TRUE /\ start' = at /\ WorkerGoesOn
    BY <1>7 DEF StartRecord, WorkerGoesOn
  <2>. QED BY <2>1, <2>2, WorkerBehind
<1>8. CASE \E wanted, passes \in BOOLEAN : FilterRecord(wanted, passes)
  <2>1. PICK wanted \in BOOLEAN, passes \in BOOLEAN : FilterRecord(wanted, passes)
    BY <1>8
  <2>2. InBlock /\ ~passed /\ ~BufferEof(at) /\ at \in Nat
    BY <2>1 DEF FilterRecord, IInv, TypeOK
  <2>3. PICK record : record = RecordAt(at, wanted)
    OBVIOUS
  <2>4. record.how \in {"ok", "eof", "error", "lost"}
    BY <2>2, <2>3, InHand, RecordType DEF IInv, TypeOK
  <2>5. CASE record.how = "ok"
    <3>1. /\ start' = at /\ at' = record.at /\ passed' = passes
          /\ i' = (IF passes THEN i ELSE i + 1) /\ WorkerGoesOn
      BY <2>1, <2>3, <2>5 DEF FilterRecord, WorkerGoesOn
    <3>2. CASE passes
      BY <2>2, <3>1, <3>2, WorkerBehind
    <3>3. CASE ~passes
      BY <2>2, <2>3, <2>5, <3>1, <3>3, WorkerBehind
    <3>. QED BY <3>2, <3>3
  <2>6. CASE record.how # "ok"
    <3>1. Abandon(record.how) /\ record.how \in {"eof", "error", "lost"}
      BY <2>1, <2>3, <2>4, <2>6 DEF FilterRecord
    <3>. QED BY <1>2, <2>2, <3>1
  <2>. QED BY <2>5, <2>6
<1>9. CASE DumpRecord
  <2>1. InBlock /\ passed /\ start \in Nat
    BY <1>9 DEF DumpRecord, IInv, TypeOK
  <2>2. PICK record : record = RecordAt(start, TRUE)
    OBVIOUS
  <2>3. record.how \in {"ok", "eof", "error", "lost"}
    BY <2>1, <2>2, InHand, RecordType DEF IInv, TypeOK
  <2>4. PICK string : string = record.value[2]
    OBVIOUS
  <2>5. CASE record.how = "ok" /\ Readable(block.from + string.from, string.len)
    <3>1. at' = record.at /\ passed' = FALSE /\ i' = i + 1 /\ WorkerGoesOn
      BY <1>9, <2>2, <2>4, <2>5 DEF DumpRecord, resetToDocument, WorkerGoesOn
    <3>. QED BY <2>1, <2>2, <2>5, <3>1, WorkerBehind
  <2>6. CASE ~(record.how = "ok" /\ Readable(block.from + string.from, string.len))
    <3>1. PICK how \in {"eof", "error", "lost"} : Abandon(how)
      BY <1>9, <2>2, <2>3, <2>4, <2>6 DEF DumpRecord, resetToDocument
    <3>. QED BY <1>2, <2>1, <3>1
  <2>. QED BY <2>5, <2>6
<1>10. CASE UNCHANGED vars
  <2>1. file' = file /\ block' = block /\ blocks' = blocks /\ i' = i /\ passed' = passed
        /\ at' = at /\ start' = start /\ status' = status
    BY <1>10 DEF vars
  <2>2. LengthBehind' = LengthBehind
    BY <2>1, LengthKept
  <2>. QED BY <2>1, <2>2 DEF Behind, InBlock
<1>11. CASE Over
  BY <1>10, <1>11 DEF Over
<1>. QED BY <1>3, <1>4, <1>5, <1>6, <1>7, <1>8, <1>9, <1>10, <1>11 DEF Next

\* A block with fewer records than it says costs at most one record that is not
\* there, for all files and sizes, if the length of the string behind its data is
\* not negative: the one byte that DeflatedBuffer::eof is late (deflatedbuffer.h:31)
\* is too few for two.
THEOREM OneTooManyAlways == Spec => []OneTooMany
<1>1. Init => Behind
  BY DEF Init, Behind
<1>2. IInv /\ Behind /\ [Next]_vars => Behind'
  BY BehindKeeps
<1>3. IInv /\ Behind => OneTooMany
  <2>. SUFFICES ASSUME IInv, Behind, blocks \in DOMAIN file.written, LengthBehind >= 0
                PROVE  i <= Len(file.written[blocks]) + 1
    BY DEF OneTooMany, LengthBehind
  <2>1. file \in Files
    BY DEF IInv
  <2>2. DOMAIN file.written = 1..Len(file.written)
    BY <2>1, FileType
  <2>3. blocks > 0
    BY <2>2
  <2>. QED BY <2>3 DEF Behind
<1>. QED BY <1>1, <1>2, <1>3, Always, PTL DEF Spec
===============================================================================
