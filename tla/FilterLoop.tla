------------------------------ MODULE FilterLoop ------------------------------
(***************************************************************************)
(* BlockDecoder (avro/blockdecoder.cc) reads a record for a filter in two  *)
(* ways.  The recursive one, decodeDocument (Decoding.tla), follows the    *)
(* schema.  The other, "parse loop", is on by default: setFilter compiles  *)
(* the schema into a list of items, each of which reads one value and says *)
(* how many items further the next one is.  This module runs the compiled  *)
(* list over the records of a block, and compares what comes out with the  *)
(* recursive reading.  ParseLoop adds the list for printing columns.       *)
(*                                                                         *)
(* A definition marked "Variant" is the definition after it with a bug; it *)
(* is no part of the model, and shows that a property sees such a bug.     *)
(***************************************************************************)
EXTENDS Decoding, SequencesExt

CONSTANTS Cases         \* what to do with which records: records with
                        \*   mode    "filter", or another of ParseLoop
                        \*   schema  a node
                        \*   wanted  for "filter", ids that a predicate is on
                        \*   docs    the encoded records of a block

ASSUME CasesAssumption ==
    \A c \in Cases : /\ c.schema \in Nodes
                     /\ c.docs \in Seq(Seq(Int)) /\ c.docs # <<>>

VARIABLES case,         \* the case; never changes
          program,      \* parseLoop
          k,            \* the record being read
          pc,           \* the item to be run next; 1 is the first
          at,           \* the stream's pointer; 1 is the first
          log,          \* what predicates were told of the current record
          status        \* "running", "done", or "lost": undefined behaviour or
                        \* an assertion

loop == <<case, program, k, pc, at, log, status>>

Stream == FlattenSeq(case.docs)

\* The ids that a predicate is on.  Without a filter there is none.
Wanted(c) == IF c.mode = "filter" THEN c.wanted ELSE {}

-----------------------------------------------------------------------------
(* The compiler.  It puts items in front of what is compiled already, from   *)
(* the last child to the first; here it returns its items in their order, for*)
(* every node and every distance to what comes behind.                       *)

\* An item: what it does (op), for which node, how far it is to the next item,
\* and for a union how far it is for each branch.
Item(op, s, ret, skipping) ==
    [op |-> op, node |-> s, ret |-> ret, skipping |-> skipping]

Compiled(items, size) == [items |-> items, size |-> size]

\* The children of a record, each with the default distance 1.
CompileFields(compiled, ss) ==
    LET upTo[i \in 0..Len(ss)] ==
            IF i = 0 THEN Compiled(<<>>, 0)
            ELSE LET before == upTo[i - 1]
                     last == compiled[ss[i]][1]
                 IN  Compiled(before.items \o last.items, before.size + last.size)
    IN  upTo[Len(ss)]

\* Variant: the distances are collected in the order of the children.
CompileInOrder(compiled, ss, ret) ==
    LET from[i \in 1..(Len(ss) + 1)] ==
            IF i > Len(ss) THEN [items |-> <<>>, left |-> ret, skipping |-> <<>>]
            ELSE LET rest == from[i + 1]
                     first == compiled[ss[i]][rest.left]
                     left == rest.left + first.size
                 IN  [items |-> first.items \o rest.items, left |-> left,
                      skipping |-> <<left - ret>> \o rest.skipping]
    IN  from[1]

\* Variant: a branch does not step over those behind it.
CompileAlone(compiled, ss, ret) ==
    LET from[i \in 1..(Len(ss) + 1)] ==
            IF i > Len(ss) THEN [items |-> <<>>, left |-> ret, skipping |-> <<>>]
            ELSE LET rest == from[i + 1]
                     first == compiled[ss[i]][ret]
                     left == rest.left + first.size
                 IN  [items |-> first.items \o rest.items, left |-> left,
                      skipping |-> Append(rest.skipping, left - ret)]
    IN  from[1]

\* The branches of a union, last to first: each steps over those compiled
\* before it (left), and the distances are collected in that order.
CompileBranches(compiled, ss, ret) ==
    LET from[i \in 1..(Len(ss) + 1)] ==
            IF i > Len(ss) THEN [items |-> <<>>, left |-> ret, skipping |-> <<>>]
            ELSE LET rest == from[i + 1]
                     first == compiled[ss[i]][rest.left]
                     left == rest.left + first.size
                 IN  [items |-> first.items \o rest.items, left |-> left,
                      skipping |-> Append(rest.skipping, left - ret)]
    IN  from[1]

\* The item in front of the branches.
CompileUnion(compiled, s, ret) ==
    LET branches == CompileBranches(compiled, s.of, ret)
    IN  Compiled(<<Item("union", s, ret, branches.skipping)>> \o branches.items, branches.left)

\* Variant: the item that ends the record comes first.
RecordEndFirst(compiled, wanted, s, ret) ==
    LET fields == CompileFields(compiled, s.of)
        end == IF s.id \in wanted THEN <<Item("recordEnd", s, 1, <<>>)>> ELSE <<>>
    IN  Compiled(end \o fields.items, 1 + fields.size)

\* A record that the filter looks into: an item at its end tells the record
\* predicates.  Its size counts that item whether it is there or not.
RecordForFilter(compiled, wanted, s, ret) ==
    LET fields == CompileFields(compiled, s.of)
        end == IF s.id \in wanted THEN <<Item("recordEnd", s, ret, <<>>)>> ELSE <<>>
    IN  Compiled(fields.items \o end, 1 + fields.size)

\* A node, when its children are compiled.
CompileForFilter(compiled, wanted, s, ret) ==
    CASE s.kind = "union"  -> CompileUnion(compiled, s, ret)
      [] s.kind = "custom" -> compiled[s.of[1]][1]
      [] s.kind = "record" -> RecordForFilter(compiled, wanted, s, ret)
      [] s.kind \in {"array", "map"} -> Compiled(<<Item("chunks", s, ret, <<>>)>>, 1)
      [] OTHER -> Compiled(<<Item("value", s, ret, <<>>)>>, 1)

compileFilteringParser(wanted) ==
    LET compiled[s \in Nodes] == [ret \in Nat |-> CompileForFilter(compiled, wanted, s, ret)]
    IN  compiled

-----------------------------------------------------------------------------
FilterInit ==
    /\ case \in {c \in Cases : c.mode = "filter"}
    /\ program = compileFilteringParser(case.wanted)[case.schema][1].items
    /\ k = 1 /\ pc = 1 /\ at = 1
    /\ log = <<>>
    /\ status = "running"

\* The item to run, and what it leaves behind.
Running(op) ==
    /\ status = "running"
    /\ pc \in DOMAIN program
    /\ program[pc].op = op

Lose == status' = "lost" /\ UNCHANGED <<case, program, k, pc, at, log>>

\* The item has come to a place in the stream; go on.
Advance(ok, to) ==
    IF ok THEN at' = to /\ pc' = pc + program[pc].ret /\ UNCHANGED <<case, program, k, status>>
    ELSE Lose

\* The item has read what a recursive reading would, and told the predicates.
Proceed(read) ==
    /\ Advance(read.ok, read.at)
    /\ read.ok => log' = log \o read.log

\* A leaf or a null: skip it, or apply the predicates on it.
RunValue ==
    /\ Running("value")
    /\ case.mode = "filter"
    /\ Proceed(decodeDocument(case.wanted, Stream)[program[pc].node][at])

\* Variant: comes back to itself.
RunUnionBack ==
    /\ Running("union")
    /\ IF at <= Len(Stream) /\ Stream[at] + 1 \in DOMAIN program[pc].skipping
       THEN /\ at' = at + 1
            /\ pc' = pc - program[pc].skipping[Stream[at] + 1]
            /\ UNCHANGED <<case, program, k, log, status>>
       ELSE Lose

\* The branch of a union: JumpToN, ApplyUnion, JumpToNTsv.
RunUnion ==
    /\ Running("union")
    /\ LET s == program[pc].node
           skipping == program[pc].skipping
           b == Stream[at] + 1
       IN  IF at <= Len(Stream) /\ b \in DOMAIN skipping
           THEN /\ at' = at + 1
                /\ pc' = pc + skipping[b]
                /\ log' = log \o On(Wanted(case), s, "setIsNull", s.of[b].kind = "null")
                /\ UNCHANGED <<case, program, k, status>>
           ELSE Lose

\* An array or a map: its elements are read recursively.  The items of the TSV
\* loop are those of the filter, and tell the columns nothing.
RunChunks ==
    /\ Running("chunks")
    /\ Proceed(decodeDocument(Wanted(case), Stream)[program[pc].node][at])

\* ApplyRecord.
RunRecordEnd ==
    /\ Running("recordEnd")
    /\ Proceed(Read(TRUE, at, On(case.wanted, program[pc].node, "recordEnd", 0)))

\* The loop is over.
Over == status = "running" /\ pc \notin DOMAIN program

\* The next record of the block, if there is one.
NextDocument ==
    /\ IF k < Len(case.docs)
       THEN k' = k + 1 /\ pc' = 1 /\ log' = <<>> /\ UNCHANGED status
       ELSE status' = "done" /\ UNCHANGED <<k, pc, log>>
    /\ UNCHANGED <<case, program, at>>

EndFilter == Over /\ case.mode = "filter" /\ NextDocument

Stopped == status # "running" /\ UNCHANGED loop

FilterNext ==
    RunValue \/ RunUnion \/ RunChunks \/ RunRecordEnd \/ EndFilter \/ Stopped

FilterSpec == FilterInit /\ [][FilterNext]_loop

-----------------------------------------------------------------------------
TypeOK ==
    /\ k \in 1..Len(case.docs)
    /\ pc \in Nat \ {0} /\ at \in Nat \ {0}
    /\ status \in {"running", "done", "lost"}
    /\ log # <<>> => case.mode = "filter" /\ \A i \in DOMAIN log : log[i].id \in case.wanted

\* Where the records of the block end.
Before(i) == Len(FlattenSeq(SubSeq(case.docs, 1, i)))

AtEnd == status # "lost" /\ pc \notin DOMAIN program

\* The loop does not lose its place: it reads every record to its end, where
\* the next one begins (blockdecoder.cc:93-95, 529-613, 830-926).
Aligned ==
    /\ status # "lost"
    /\ AtEnd => at = Before(k) + 1

\* The calls of the recursive reading of the current record, for one node.
ReferenceOf(i) == decodeDocument(case.wanted, Stream)[case.schema][Before(i - 1) + 1]

CallsOn(calls, id) ==
    LET upTo[i \in 0..Len(calls)] ==
            IF i = 0 THEN <<>>
            ELSE upTo[i - 1] \o IF calls[i].id = id THEN <<calls[i]>> ELSE <<>>
    IN  upTo[Len(calls)]

\* Every predicate is told in the same order what the recursive reading tells it
\* (blockdecoder.cc:92-98).  (A union tells its predicates earlier in the loop,
\* but to each of them the same.)
SameCalls ==
    AtEnd /\ case.mode = "filter" =>
        \A id \in case.wanted : CallsOn(log, id) = CallsOn(ReferenceOf(k).log, id)

\* The nodes of the tree of each node, and their ids.
Tree[s \in Nodes] == {s} \cup UNION {Tree[s.of[i]] : i \in DOMAIN s.of}

Below(s) == {t.id : t \in Tree[s]}

\* The last of the calls for any node of a record ends that record.
Ended(calls, r) ==
    LET about == {i \in DOMAIN calls : calls[i].id \in Below(r)}
    IN  \A i \in about :
            (\A j \in about : j <= i) => calls[i].id = r.id /\ calls[i].what = "recordEnd"

\* The expression over a record is evaluated after all the predicates in the
\* record were told (blockdecoder.cc:560-571).
RecordsEvaluatedLast ==
    AtEnd /\ case.mode = "filter" =>
        \A r \in Tree[case.schema] :
            r.kind = "record" /\ r.id \in case.wanted => Ended(log, r)

-----------------------------------------------------------------------------
(* What is to be seen of a list before it runs: whether each item leads to   *)
(* where the next value is read, whatever the branches will be.              *)

Spots(items) == 1..(Len(items) + 1)

\* Behind an item that does op for a node.
Behind(items, op, s, o) ==
    {e \in Spots(items) :
        /\ o \in DOMAIN items
        /\ items[o].op = op /\ items[o].node = s /\ e = o + items[o].ret}

\* A null takes nothing from the stream: one may as well be behind its item.
Past(items, o) ==
    {e \in Spots(items) :
        \/ e = o
        \/ /\ o \in DOMAIN items
           /\ items[o].op = "value" /\ items[o].node.kind = "null" /\ e = o + items[o].ret}

\* From a spot, through one node after the other.
Through(ways, o) ==
    LET upTo[i \in 0..Len(ways)] ==
            IF i = 0 THEN {o} ELSE UNION {ways[i][e] : e \in upTo[i - 1]}
    IN  upTo[Len(ways)]

\* Where every branch leads.
Branches(items, ways, s, o) ==
    {e \in Spots(items) :
        /\ o \in DOMAIN items
        /\ items[o].op = "union" /\ items[o].node = s
        /\ DOMAIN items[o].skipping = DOMAIN s.of
        /\ \A b \in DOMAIN s.of :
             LET to == o + items[o].skipping[b]
             IN  to \in Spots(items) /\ \E last \in ways[b][to] : e \in Past(items, last)}

\* The spots one may be at when a value of the node was read from a spot, if ways are
\* those for its children.
ExitsOf(items, wanted, ways, s) ==
    [o \in Spots(items) |->
        CASE s.kind = "null"   -> Past(items, o)
          [] s.kind = "leaf"   -> Behind(items, "value", s, o)
          [] s.kind = "custom" -> ways[1][o]
          [] s.kind = "record" ->
               IF s.id \in wanted
               THEN UNION {Behind(items, "recordEnd", s, e) : e \in Through(ways, o)}
               ELSE Through(ways, o)
          [] s.kind = "union"  -> Branches(items, ways, s, o)
          [] s.kind \in {"array", "map"} -> Behind(items, "chunks", s, o)]

Exits(items, wanted) ==
    LET exits[s \in Nodes] ==
            ExitsOf(items, wanted, [i \in DOMAIN s.of |-> exits[s.of[i]]], s)
    IN  exits

\* Each way through the list leads to its end.
Connected(items, wanted, s) == Len(items) + 1 \in Exits(items, wanted)[s][1]

\* The nodes that a list has items for: an array or a map is read recursively.
Itemized[s \in Nodes] ==
    {s} \cup IF s.kind \in {"array", "map"} THEN {}
             ELSE UNION {Itemized[s.of[i]] : i \in DOMAIN s.of}

Single == {"null", "leaf", "array", "map"}

\* The branches of its unions are of one item each: for them the distances that
\* are collected from the last branch to the first are right.
Simple(s) ==
    \A u \in Itemized[s] : u.kind = "union" => \A i \in DOMAIN u.of : u.of[i].kind \in Single

\* The records are what the recursive reading takes them for, one behind the other.
WholeDocuments(c) ==
    \A i \in DOMAIN c.docs :
        LET read == decodeDocument(c.wanted, FlattenSeq(c.docs))[c.schema]
                        [Len(FlattenSeq(SubSeq(c.docs, 1, i - 1))) + 1]
        IN  read.ok /\ read.at = Len(FlattenSeq(SubSeq(c.docs, 1, i))) + 1

\* No node is below itself, or below two children of one: a node owns its children.
NodesApart ==
    \A s \in Nodes : \A i \in DOMAIN s.of :
        /\ s.id \notin Below(s.of[i])
        /\ \A j \in DOMAIN s.of : i # j => Below(s.of[i]) \cap Below(s.of[j]) = {}

\* What the theorems on the loop ask of a case: wherever the branches lead, every
\* item of the compiled list hands over to the item for what is next in the schema,
\* and the last to the end of the list (blockdecoder.cc:529-613); the block holds
\* whole records; and the schema is a tree (node/node.h).
Sound ==
    case.mode = "filter" =>
        /\ Connected(program, case.wanted, case.schema)
        /\ WholeDocuments(case)
        /\ NodesApart
==============================================================================
