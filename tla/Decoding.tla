------------------------------- MODULE Decoding -------------------------------
(***************************************************************************)
(* The recursive reading of a record for a filter:                         *)
(* BlockDecoder::decodeDocument (avro/blockdecoder.cc), which follows the  *)
(* schema.                                                                 *)
(*                                                                         *)
(* The schema is a tree of nodes, of Schemas.tla.  The stream is abstract  *)
(* too: every leaf value, every key, every branch of a union, every count  *)
(* is one number.  A reader that has lost its place then reads a number    *)
(* that means something else, as the code does.                            *)
(*                                                                         *)
(* What a pass over a record does, besides moving on, is the sequence of   *)
(* the calls on predicates: the log.  wanted is the set of the ids of the  *)
(* nodes that something is on.                                             *)
(*                                                                         *)
(* A reading is a function: from the place in the stream where it begins   *)
(* to the place where it ends, its log, and whether it came to an end; ok  *)
(* is FALSE if it left the stream or met a branch the union does not have. *)
(***************************************************************************)
EXTENDS Integers, Sequences

CONSTANTS IntBits,      \* the width of an int
          Nodes,        \* the nodes of all schemas
          Depth         \* for each node, how deep the tree below it is

ASSUME IntAssumption == IntBits \in Nat \ {0}

Kinds == {"null", "leaf", "custom", "record", "union", "array", "map"}

ASSUME NodesAssumption ==
    /\ Depth \in [Nodes -> Nat]
    /\ \A s \in Nodes :
         /\ s.kind \in Kinds
         /\ s.of \in Seq(Nodes)
         /\ \A i \in DOMAIN s.of : Depth[s.of[i]] < Depth[s]
         /\ s.kind \in {"custom", "array", "map"} => Len(s.of) = 1

\* A long where an int is expected: its lower bits, with their sign.
AsInt(n) == ((n + 2^(IntBits - 1)) % 2^IntBits) - 2^(IntBits - 1)

Call(id, what, value) == [id |-> id, what |-> what, value |-> value]

\* The calls for a node, if anything is on it.
On(wanted, s, what, value) ==
    IF s.id \in wanted THEN <<Call(s.id, what, value)>> ELSE <<>>

Places == Nat \ {0}

Read(ok, to, log) == [ok |-> ok, at |-> to, log |-> log]

Then(first, second) ==
    Read(first.ok /\ second.ok, second.at, first.log \o second.log)

\* Readings one after the other.
InTurn(readings, p) ==
    LET upTo[i \in 0..Len(readings)] ==
            IF i = 0 THEN Read(TRUE, p, <<>>)
            ELSE LET before == upTo[i - 1] IN Then(before, readings[i][before.at])
    IN  upTo[Len(readings)]

\* An element of an array or, behind a key, of a map.
ReadElement(wanted, reading, s) ==
    [p \in Places |->
        LET item == reading[IF s.kind = "map" THEN p + 1 ELSE p]
            push == IF s.kind = "array" THEN On(wanted, s, "push", 0) ELSE <<>>
        IN  Then(item, Read(TRUE, item.at, push))]

\* Blocks of elements until the empty one.  There are none in a block whose count is
\* negative, and no more blocks than numbers in the stream.
Chunks(wanted, in, reading, s) ==
    LET element == ReadElement(wanted, reading, s)
        blocks[n \in Nat] ==
            [p \in Places |->
                IF n = 0 \/ p > Len(in) THEN Read(FALSE, p, <<>>)
                ELSE IF in[p] = 0 THEN Read(TRUE, p + 1, <<>>)
                ELSE LET items == InTurn([i \in 1..in[p] |-> element], p + 1)
                     IN  IF items.ok THEN Then(items, blocks[n - 1][items.at]) ELSE items]
    IN  blocks[Len(in)]

\* One number, that of a leaf.
ReadLeaf(wanted, in, s) ==
    [p \in Places |->
        IF p > Len(in) THEN Read(FALSE, p, <<>>)
                       ELSE Read(TRUE, p + 1, On(wanted, s, "apply", in[p]))]

\* The fields, and what is on the record.
ReadRecord(wanted, readings, s) ==
    [p \in Places |->
        LET fields == InTurn(readings, p)
        IN  Then(fields, Read(TRUE, fields.at, On(wanted, s, "recordEnd", 0)))]

\* The branch, and what is on the union.
ReadUnion(wanted, in, readings, s) ==
    [p \in Places |->
        IF p > Len(in) \/ in[p] + 1 \notin DOMAIN s.of THEN Read(FALSE, p, <<>>)
        ELSE LET inner == readings[in[p] + 1][p + 1]
                 isNull == s.of[in[p] + 1].kind = "null"
             IN  Then(inner, Read(TRUE, inner.at, On(wanted, s, "setIsNull", isNull)))]

\* A node, when those of its children are known.
ReadNode(wanted, in, readings, s) ==
    CASE s.kind = "null"   -> [p \in Places |-> Read(TRUE, p, <<>>)]
      [] s.kind = "leaf"   -> ReadLeaf(wanted, in, s)
      [] s.kind = "custom" -> readings[1]
      [] s.kind = "record" -> ReadRecord(wanted, readings, s)
      [] s.kind = "union"  -> ReadUnion(wanted, in, readings, s)
      [] s.kind \in {"array", "map"} -> Chunks(wanted, in, readings[1], s)

\* The reading of each node.
decodeDocument(wanted, in) ==
    LET reading[s \in Nodes] ==
            ReadNode(wanted, in, [i \in DOMAIN s.of |-> reading[s.of[i]]], s)
    IN  reading
==============================================================================
