------------------------------ MODULE ParseLoop ------------------------------
(***************************************************************************)
(* What BlockDecoder (avro/blockdecoder.cc) does with the records of a     *)
(* block: the list of items for a filter (FilterLoop.tla), the list for    *)
(* printing columns, and printing without a list.  setTsvFilterExpression  *)
(* compiles the schema into items as setFilter does, with others where a   *)
(* column is filled; dumpDocument (Dumpers.tla) follows the schema.  What  *)
(* comes out is compared with the record.                                  *)
(*                                                                         *)
(* A definition marked "Variant" is the definition after it with a bug; it *)
(* is no part of the model, and shows that a property sees such a bug.     *)
(***************************************************************************)
EXTENDS FilterLoop, Dumpers

\* A case has the mode "filter" or "tsv", by a compiled list, or "rows", "json" or
\* "fool", recursively; and besides what FilterLoop says
\*   fields  for "tsv" and "rows", the paths of -l
\*   columns for them, those of compileFieldsList

VARIABLE out            \* the columns, or the text, of the current record

vars == <<loop, out>>

-----------------------------------------------------------------------------
(* The compiler for columns.                                                 *)

\* Variant: a record is never a column.
RecordFieldsOnly(compiled, c, s, ret) == CompileFields(compiled, s.of)

\* The ids of the nodes that go into a column.
Columns(c) == UNION {c.columns[i] : i \in DOMAIN c.columns}

\* A record for the columns: one item if it is a column itself, which is
\* printed as JSON, and otherwise its fields.
RecordForTsv(compiled, c, s, ret) ==
    IF s.id \in Columns(c) THEN Compiled(<<Item("json", s, ret, <<>>)>>, 1)
                           ELSE CompileFields(compiled, s.of)

\* An array or map may be a column itself.
CollectionItem(c, s, ret) ==
    Item(IF s.id \in Columns(c) THEN "json" ELSE "chunks", s, ret, <<>>)

\* compileTsvExpression.
compileTsvExpression(c) ==
    LET compiled[s \in Nodes] ==
            [ret \in Nat |->
                CASE s.kind = "union"  -> CompileUnion(compiled, s, ret)
                  [] s.kind = "custom" -> compiled[s.of[1]][1]
                  [] s.kind = "record" -> RecordForTsv(compiled, c, s, ret)
                  [] s.kind \in {"array", "map"} -> Compiled(<<CollectionItem(c, s, ret)>>, 1)
                  [] OTHER -> Compiled(<<Item("value", s, ret, <<>>)>>, 1)]
    IN  compiled

-----------------------------------------------------------------------------
\* Where a record begins: a row without values, or no text.
NoOutput(c) == IF c.mode \in {"tsv", "rows"} THEN [i \in DOMAIN c.columns |-> <<>>] ELSE <<>>

PrintInit ==
    /\ case \in {c \in Cases : c.mode # "filter"}
    /\ program = IF case.mode = "tsv" THEN compileTsvExpression(case)[case.schema][1].items
                                      ELSE <<Item("dump", case.schema, 1, <<>>)>>
    /\ k = 1 /\ pc = 1 /\ at = 1
    /\ log = <<>> /\ out = NoOutput(case)
    /\ status = "running"

Init == (FilterInit /\ out = <<>>) \/ PrintInit

\* What the item prints, if it comes to an end; it tells nobody.
PrintOut(ok, new) == IF ok THEN out' = new /\ UNCHANGED log ELSE UNCHANGED out

\* A leaf or a null: skip it, or put it into the columns it is for.  A long is
\* read as an int.
RunColumn ==
    /\ Running("value")
    /\ case.mode = "tsv"
    /\ LET s == program[pc].node
           read == dumpDocument(Stream, s, at)
           v == read.log[1].value
           text == Text(s, IF s.type = "long" THEN AsInt(v) ELSE v)
       IN  /\ Advance(read.ok, read.at)
           /\ PrintOut(read.ok, addToPositions(out, case.columns, s, <<text>>))

\* ApplyTsvAsJson: all of a record, array or map goes into the column.
RunJson ==
    /\ Running("json")
    /\ LET s == program[pc].node
           read == dumpDocument(Stream, s, at)
           text == Json(read.log)
           ok == read.ok /\ text.ok
       IN  /\ Advance(ok, read.at)
           /\ PrintOut(ok, addToPositions(out, case.columns, s, text.out))

\* dumpDocument of a record, by one of the three dumpers.
Dumped == dumpDocument(Stream, case.schema, at)

Dump(mode, text) ==
    /\ Running("dump")
    /\ case.mode = mode
    /\ LET ok == Dumped.ok /\ text.ok
       IN  Advance(ok, Dumped.at) /\ PrintOut(ok, text.out)

DumpJson == Dump("json", Json(Dumped.log))
DumpFool == Dump("fool", Fool(Dumped.log))
DumpRows == Dump("rows", [ok |-> TRUE, out |-> Tsv(case.columns, Dumped.log)])

\* The next record.  A column without a value is written through a null pointer.
EndPrinting ==
    /\ Over
    /\ case.mode # "filter"
    /\ IF case.mode \in {"tsv", "rows"} /\ \E i \in DOMAIN out : out[i] = <<>>
       THEN Lose /\ UNCHANGED out
       ELSE NextDocument /\ out' = IF k < Len(case.docs) THEN NoOutput(case) ELSE out

\* The list for columns has unions, arrays and maps like that for a filter.
Next ==
    \/ FilterNext /\ UNCHANGED out
    \/ RunColumn \/ RunJson \/ DumpJson \/ DumpFool \/ DumpRows \/ EndPrinting

Spec == Init /\ [][Next]_vars

-----------------------------------------------------------------------------
\* No two nodes of a schema have the same number, though a union is made twice
\* (schemareader.cc:156, 207): the columns of -l are found by it
\* (blockdecoder.cc:856, 932), and a value would get into another's.
NumbersDistinct ==
    LET numbers == Numbers(case.schema)
    IN  \A i, j \in DOMAIN numbers : i # j => numbers[i] # numbers[j]

\* The record that is printed, read by its schema.
Printed == ValueOf(Stream, case.schema, Before(k - 1) + 1).value

\* The row has for every field of -l what the record has there, a record, an array
\* or a map in JSON: what the loop finds by the numbers of nodes is what the user
\* asked for by name (blockdecoder.cc:614-763, 830-938, dumper/tsv.h:51-64).
RowExact ==
    AtEnd /\ case.mode \in {"tsv", "rows"} =>
        out = [i \in DOMAIN case.fields |-> JsonText(Member(Printed, case.fields[i]))]

\* With --json each record is one text of JSON, with a name for every value in an
\* object and for no other, and reads back as the record: the dumper and the
\* Writer each know half of where a name belongs (dumper/json.h:35-119,
\* blockdecoder.cc:942-1029).
JsonExact == AtEnd /\ case.mode = "json" => out = JsonText(Printed)

\* In the default layout every value is on a line of its own, indented by the
\* records, arrays and maps around it, though the indent is printed sometimes by
\* the value and sometimes by the custom node in front of it
\* (dumper/fool.h:33-142).
FoolExact == AtEnd /\ case.mode = "fool" => out = Lines(<<>>, Printed, 0)
==============================================================================
