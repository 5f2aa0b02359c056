------------------------------- MODULE Dumpers -------------------------------
(***************************************************************************)
(* What is printed of a record.  dumpDocument (avro/blockdecoder.cc:       *)
(* 941-1029) goes through it by the schema and calls a dumper, one of      *)
(*   Json  avro/dumper/json.h, on the Writer of rapidjson                  *)
(*   Fool  avro/dumper/fool.h, the layout that is used by default          *)
(*   Tsv   avro/dumper/tsv.h, for a list of fields                         *)
(* The calls are a sequence of events, and a dumper folds them.            *)
(*                                                                         *)
(* A text is a sequence of tokens, each with its characters, a sequence    *)
(* too, for the name of a field is one (Schemas.tla).  How a number is     *)
(* spelled and what is escaped in a string is left out.                    *)
(*                                                                         *)
(* A definition marked "Variant" is the definition after it with a bug; it *)
(* is no part of the model, and shows that a property sees such a bug.     *)
(***************************************************************************)
EXTENDS Decoding, Schemas, SequencesExt

Token(is, chars) == [is |-> is, chars |-> chars]
Mark(is)         == Token(is, <<>>)

\* The token for a value of a type: of strings and enums a string.
Text(s, v) ==
    CASE s.kind = "null"                -> Token("null", <<>>)
      [] s.type = "enum"                -> Token("string", s.values[v + 1])
      [] s.type \in {"string", "bytes"} -> Token("string", <<ToString(v)>>)
      [] s.type = "boolean"             -> Token(IF v = 1 THEN "true" ELSE "false", <<>>)
      [] OTHER                          -> Token("number", <<ToString(v)>>)

-----------------------------------------------------------------------------
(* The calls on a dumper *)

Event(call, s, v) == [call |-> call, node |-> s, value |-> v]

\* An event, if there is a value to be read, and for an enum a symbol.
ReadEvent(call, in, s, p) ==
    IF p > Len(in) \/ (s.type = "enum" /\ in[p] + 1 \notin DOMAIN s.values)
    THEN Read(FALSE, p, <<>>)
    ELSE Read(TRUE, p + 1, <<Event(call, s, in[p])>>)

\* Between two calls.
Around(before, read, after, s) ==
    Read(read.ok, read.at, <<Event(before, s, 0)>> \o read.log \o <<Event(after, s, 0)>>)

RECURSIVE dumpDocument(_, _, _), DumpFields(_, _, _), DumpItems(_, _, _, _),
          DumpChunks(_, _, _)

DumpFields(in, ss, p) ==
    IF ss = <<>> THEN Read(TRUE, p, <<>>)
    ELSE LET first == dumpDocument(in, Head(ss), p)
         IN  Then(first, DumpFields(in, Tail(ss), first.at))

\* n elements; those of a map are a key and a string or an int.
DumpItems(in, s, n, p) ==
    IF n <= 0 THEN Read(TRUE, p, <<>>)
    ELSE LET name == ReadEvent("MapName", in, s, p)
             item == IF s.kind = "array" THEN dumpDocument(in, s.of[1], p)
                     ELSE Then(name, ReadEvent("MapValue", in, s.of[1], name.at))
         IN  Then(item, DumpItems(in, s, n - 1, item.at))

DumpChunks(in, s, p) ==
    CASE p > Len(in) -> Read(FALSE, p, <<>>)
      [] in[p] = 0   -> Read(TRUE, p + 1, <<>>)
      [] OTHER       -> LET items == DumpItems(in, s, in[p], p + 1)
                        IN  IF items.ok THEN Then(items, DumpChunks(in, s, items.at))
                                        ELSE items

\* dumpDocument.  The values of a map can only be strings or ints, an assertion.
dumpDocument(in, s, p) ==
    CASE s.kind = "null"   -> Read(TRUE, p, <<Event("Null", s, 0)>>)
      [] s.kind = "leaf"   -> ReadEvent(IF s.type = "enum" THEN "Enum" ELSE "Value", in, s, p)
      [] s.kind = "custom" ->
           LET inner == dumpDocument(in, s.of[1], p)
           IN  Read(inner.ok, inner.at, <<Event("CustomBegin", s, 0)>> \o inner.log)
      [] s.kind = "record" ->
           Around("RecordBegin", DumpFields(in, s.of, p), "RecordEnd", s)
      [] s.kind = "union"  ->
           IF p > Len(in) \/ in[p] + 1 \notin DOMAIN s.of THEN Read(FALSE, p, <<>>)
           ELSE dumpDocument(in, s.of[in[p] + 1], p + 1)
      [] s.kind = "array"  -> Around("ArrayBegin", DumpChunks(in, s, p), "ArrayEnd", s)
      [] s.kind = "map"    ->
           IF s.of[1].type \notin {"string", "bytes", "int"} THEN Read(FALSE, p, <<>>)
           ELSE Around("MapBegin", DumpChunks(in, s, p), "MapEnd", s)

-----------------------------------------------------------------------------
(* Json: the Writer of rapidjson knows for each level that is open whether   *)
(* it is an array and how many values it has; the even ones in an object are *)
(* the names.                                                                *)

Level(inArray) == [inArray |-> inArray, valueCount |-> 0]

EmptyWriter == [out |-> <<>>, levels |-> <<>>, ok |-> TRUE]

\* Writer::Prefix and the value.  In an object the even ones have to be strings;
\* there is one value at the root.
Write(w, token) ==
    IF w.levels = <<>>
    THEN [w EXCEPT !.out = Append(@, token), !.ok = @ /\ w.out = <<>>]
    ELSE LET top == Last(w.levels)
             isName == ~top.inArray /\ top.valueCount % 2 = 0
             before == CASE top.valueCount = 0      -> <<>>
                         [] top.inArray \/ isName   -> <<Mark(",")>>
                         [] OTHER                   -> <<Mark(":")>>
         IN  [out |-> w.out \o before \o <<token>>,
              levels |-> Append(Front(w.levels), [top EXCEPT !.valueCount = @ + 1]),
              ok |-> w.ok /\ (isName => token.is = "string")]

Open(w, bracket, inArray) ==
    LET written == Write(w, Mark(bracket))
    IN  [written EXCEPT !.levels = Append(@, Level(inArray))]

Close(w, bracket, inArray) ==
    [w EXCEPT !.out = Append(@, Mark(bracket)),
              !.levels = Front(@),
              !.ok = @ /\ Last(w.levels).inArray = inArray]

\* Variant: a node that has no name gets one all the same.
WriteNameAlways(w, s) == Write(w, Token("string", s.name))

\* The name of a field; the elements of an array, and what is in a custom node,
\* have none.
WriteName(w, s) == IF s.name = <<>> THEN w ELSE Write(w, Token("string", s.name))

\* The calls on Json.
JsonCall(w, e) ==
    CASE e.call \in {"Value", "Null"}            -> Write(WriteName(w, e.node), Text(e.node, e.value))
      [] e.call \in {"Enum", "MapValue"}         -> Write(w, Text(e.node, e.value))
      [] e.call = "MapName"                      -> Write(w, Token("string", <<ToString(e.value)>>))
      [] e.call = "CustomBegin"                  -> WriteName(w, e.node)
      [] e.call \in {"RecordBegin", "MapBegin"}  -> Open(w, "{", FALSE)
      [] e.call \in {"RecordEnd", "MapEnd"}      -> Close(w, "}", FALSE)
      [] e.call = "ArrayBegin"                   -> Open(w, "[", TRUE)
      [] e.call = "ArrayEnd"                     -> Close(w, "]", TRUE)

Json(events) == FoldLeft(JsonCall, EmptyWriter, events)

-----------------------------------------------------------------------------
(* Fool: a line for each value, indented by the level.                       *)

EmptyFool == [out |-> <<>>, level |-> 0, ok |-> TRUE]

Indents == 12   \* the deepest level that indents[] has an entry for

Tabs(n) == [i \in 1..n |-> Mark("tab")]

Emit(f, tokens) == [f EXCEPT !.out = @ \o tokens]

Indented(f) ==
    IF f.level \in 0..Indents THEN Emit(f, Tabs(f.level)) ELSE [f EXCEPT !.ok = FALSE]

PrintName(f, s) == IF s.name = <<>> THEN f ELSE Emit(f, <<Token("name", s.name)>>)

Newline == Mark("newline")

Begin(f, bracket) == [Emit(f, <<Mark(bracket), Newline>>) EXCEPT !.level = @ + 1]

\* Variant: the level is not left.
EndInside(f, bracket) == Emit(Indented(f), <<Mark(bracket), Newline>>)

End(f, bracket) ==
    Emit(Indented([f EXCEPT !.level = @ - 1]), <<Mark(bracket), Newline>>)

\* The calls on Fool.
FoolCall(f, e) ==
    CASE e.call \in {"Value", "Null"} ->
           Emit(PrintName(Indented(f), e.node), <<Text(e.node, e.value), Newline>>)
      [] e.call \in {"Enum", "MapValue"}        -> Emit(f, <<Text(e.node, e.value), Newline>>)
      [] e.call = "MapName"                     ->
           Emit(Indented(f), <<Token("name", <<ToString(e.value)>>)>>)
      [] e.call = "CustomBegin"                 -> PrintName(Indented(f), e.node)
      [] e.call \in {"RecordBegin", "MapBegin"} -> Begin(f, "{")
      [] e.call \in {"RecordEnd", "MapEnd"}     -> End(f, "}")
      [] e.call = "ArrayBegin"                  -> Begin(f, "[")
      [] e.call = "ArrayEnd"                    -> End(f, "]")

Fool(events) == FoldLeft(FoolCall, EmptyFool, events)

-----------------------------------------------------------------------------
(* Tsv: toDump, a text for each position, empty if there is none yet.        *)

\* Variant: a node goes to one position only.
addToPosition(toDump, columns, s, text) ==
    [i \in DOMAIN toDump |->
        IF s.id \in columns[i] /\ \A j \in 1..(i - 1) : s.id \notin columns[j]
        THEN text ELSE toDump[i]]

\* addIfNecessary, and the items of the compiled loop: columns is the sequence of
\* the numbers of the nodes that go to each position.
addToPositions(toDump, columns, s, text) ==
    [i \in DOMAIN toDump |-> IF s.id \in columns[i] THEN text ELSE toDump[i]]

\* The calls on Tsv: all but those for values do nothing.
Tsv(columns, events) ==
    LET Call1(toDump, e) ==
            IF e.call \in {"Value", "Null", "Enum"}
            THEN addToPositions(toDump, columns, e.node, <<Text(e.node, e.value)>>)
            ELSE toDump
    IN  FoldLeft(Call1, [i \in DOMAIN columns |-> <<>>], events)

-----------------------------------------------------------------------------
(* What a record is: the reference of the dumpers.  A value is a scalar, a   *)
(* list, or members, with their names.                                       *)

Scalar(token)   == [is |-> "scalar", token |-> token]
Listed(values)  == [is |-> "list", of |-> values]
Members(pairs)  == [is |-> "members", of |-> pairs]

Known(value, to) == [value |-> value, at |-> to]

RECURSIVE ValueOf(_, _, _), Sequenced(_, _, _), Blocks(_, _, _, _)

\* The values of nodes one behind the other, in a sequence.
Sequenced(in, ss, p) ==
    IF ss = <<>> THEN Known(<<>>, p)
    ELSE LET first == ValueOf(in, Head(ss), p)
             rest == Sequenced(in, Tail(ss), first.at)
         IN  Known(<<first.value>> \o rest.value, rest.at)

\* The elements up to the empty block, n of this one to go.  In Avro a negative
\* count is one of as many elements, with their size behind it.
Blocks(in, elements, n, p) ==
    CASE n > 0              -> LET first == Sequenced(in, elements, p)
                                   rest == Blocks(in, elements, n - 1, first.at)
                               IN  Known(<<first.value>> \o rest.value, rest.at)
      [] n = 0 /\ in[p] = 0 -> Known(<<>>, p + 1)
      [] n = 0 /\ in[p] < 0 -> Blocks(in, elements, -in[p], p + 2)
      [] OTHER              -> Blocks(in, elements, in[p], p + 1)

ValueOf(in, s, p) ==
    CASE s.kind = "null"   -> Known(Scalar(Text(s, 0)), p)
      [] s.kind = "leaf"   -> Known(Scalar(Text(s, in[p])), p + 1)
      [] s.kind = "custom" -> ValueOf(in, s.of[1], p)
      [] s.kind = "union"  -> ValueOf(in, s.of[in[p] + 1], p + 1)
      [] s.kind = "record" ->
           LET values == Sequenced(in, s.of, p)
           IN  Known(Members([i \in DOMAIN s.of |-> <<s.of[i].name, values.value[i]>>]), values.at)
      [] s.kind = "array"  ->
           LET items == Blocks(in, s.of, 0, p)
           IN  Known(Listed([i \in DOMAIN items.value |-> items.value[i][1]]), items.at)
      [] s.kind = "map"    ->
           LET items == Blocks(in, <<Node("string", 0, <<>>, <<>>)>> \o s.of, 0, p)
           IN  Known(Members([i \in DOMAIN items.value |->
                                <<items.value[i][1].token.chars, items.value[i][2]>>]), items.at)

\* The text of a value in JSON.
RECURSIVE JsonText(_)
JsonText(v) ==
    LET Separated(texts) ==
            FlattenSeq([i \in DOMAIN texts |->
                          IF i = 1 THEN texts[i] ELSE <<Mark(",")>> \o texts[i]])
    IN  CASE v.is = "scalar"  -> <<v.token>>
          [] v.is = "list"    ->
               <<Mark("[")>> \o Separated([i \in DOMAIN v.of |-> JsonText(v.of[i])])
                             \o <<Mark("]")>>
          [] v.is = "members" ->
               <<Mark("{")>> \o Separated([i \in DOMAIN v.of |->
                                    <<Token("string", v.of[i][1]), Mark(":")>>
                                        \o JsonText(v.of[i][2])])
                             \o <<Mark("}")>>

\* The lines of a value that is named, or not (<<>>): each is indented by the
\* brackets around it.
RECURSIVE Lines(_, _, _)
Lines(name, v, level) ==
    LET head == Tabs(level) \o (IF name = <<>> THEN <<>> ELSE <<Token("name", name)>>)
        Bracketed(open, lines, close) ==
            head \o <<Mark(open), Newline>> \o FlattenSeq(lines)
                 \o Tabs(level) \o <<Mark(close), Newline>>
    IN  CASE v.is = "scalar"  -> head \o <<v.token, Newline>>
          [] v.is = "list"    ->
               Bracketed("[", [i \in DOMAIN v.of |-> Lines(<<>>, v.of[i], level + 1)], "]")
          [] v.is = "members" ->
               Bracketed("{", [i \in DOMAIN v.of |->
                                  Lines(v.of[i][1], v.of[i][2], level + 1)], "}")

\* The value at a path of names.
RECURSIVE Member(_, _)
Member(v, path) ==
    IF path = <<>> THEN v
    ELSE Member(v.of[CHOOSE i \in DOMAIN v.of : v.of[i][1] = Head(path)][2], Tail(path))
==============================================================================
