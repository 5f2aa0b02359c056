----------------------------- MODULE MCFilterEval -----------------------------
(* Filters on small schemas, for TLC: every value with few values of a leaf  *)
(* and arrays of at most two elements; two records after each other.  The    *)
(* texts are written from the expressions they mean, and some by hand.       *)
EXTENDS FilterEval, TLC

\* Schemas.
Plain               == Value("int")
Field(name, type)   == Object(type, <<name>>, <<>>)
Optional(type)      == Array(<<Value("null"), type>>)
Struct(fields)      == Object(Value("record"), <<"R">>, fields)
ArrayOf(items)      == Object(Value("array"), <<>>, <<items>>)
Schema(fields)      == parse(Struct(fields))
EnumOf(symbols)     == Object(Value("enum"), <<"E">>, symbols)

\* The empty string, "x", "xy" and "yx".
FewStrings == << <<>>, <<"x">>, <<"x", "y">>, <<"y", "x">> >>

LeafValues(type) == CASE type \in {"string", "bytes"} -> DOMAIN Strings
                      [] type \in {"double", "float"} -> {1, 2}
                      [] OTHER -> {0, 1}

RECURSIVE Values(_), FieldValues(_), Encode(_, _), EncodeAll(_, _), EncodeItems(_, _)
FieldValues(ss) ==
    IF ss = <<>> THEN {<<>>}
    ELSE {<<v>> \o w : v \in Values(Head(ss)), w \in FieldValues(Tail(ss))}

Values(s) ==
    CASE s.kind = "null"   -> {[is |-> "null"]}
      [] s.kind = "leaf"   -> {[is |-> "leaf", n |-> n] : n \in LeafValues(s.type)}
      [] s.kind = "custom" -> Values(s.of[1])
      [] s.kind = "union"  ->
           UNION {{[is |-> "union", branch |-> i, value |-> v] : v \in Values(s.of[i])} :
                  i \in DOMAIN s.of}
      [] s.kind = "array"  ->
           {[is |-> "array", items |-> w] :
              w \in UNION {[1..n -> Values(s.of[1])] : n \in 0..2}}
      [] s.kind = "record" -> {[is |-> "record", fields |-> w] : w \in FieldValues(s.of)}

EncodeAll(ss, vs) ==
    IF ss = <<>> THEN <<>>
    ELSE Encode(Head(ss), Head(vs)) \o EncodeAll(Tail(ss), Tail(vs))

EncodeItems(s, vs) ==
    IF vs = <<>> THEN <<>> ELSE Encode(s, Head(vs)) \o EncodeItems(s, Tail(vs))

Encode(s, v) ==
    CASE s.kind = "null"   -> <<>>
      [] s.kind = "leaf"   -> <<v.n>>
      [] s.kind = "custom" -> Encode(s.of[1], v)
      [] s.kind = "union"  -> <<v.branch - 1>> \o Encode(s.of[v.branch], v.value)
      [] s.kind = "array"  ->
           IF v.items = <<>> THEN <<0>>
           ELSE <<Len(v.items)>> \o EncodeItems(s.of[1], v.items) \o <<0>>
      [] s.kind = "record" -> EncodeAll(s.of, v.fields)

-----------------------------------------------------------------------------
(* What filters mean, and texts for it.                                     *)

At(names) == [i \in DOMAIN names |-> <<names[i]>>]

\* A predicate on a path, of names of one word each, with a number in halves.
Test(names, index, op, c) ==
    [kind |-> "predicate", path |-> At(names), index |-> index, op |-> op, constant |-> c]
Pred(names, index, op, n) == Test(names, index, op, Double(2 * n))
NullTest(names, op)       == Test(names, Whole, op, Nil)
OfRecord(names, index, e) ==
    [kind |-> "record", path |-> At(names), index |-> index, of |-> <<e>>]
And(a, b) == [kind |-> "and", of |-> <<a, b>>]
Or(a, b)  == [kind |-> "or", of |-> <<a, b>>]
Not(a)    == [kind |-> "not", of |-> <<a>>]

Operators ==
    [EQ |-> "==", NE |-> "~=", IS_NIL |-> "==", NOT_NIL |-> "~=", LT |-> "<", GT |-> ">",
     LE |-> "<=", GE |-> ">=", CONTAINS |-> ":contains(", STARTS_WITH |-> ":starts_with(",
     ENDS_WITH |-> ":ends_with("]

ConstantText(c) ==
    CASE c.is = "double" -> <<Number(ToString(c.halves), c.halves)>>
      [] c.is = "string" -> <<Quoted(c.chars)>>
      [] c.is = "bool"   -> <<Word(IF c.holds THEN "true" ELSE "false")>>
      [] c.is = "nil"    -> <<Word("nil")>>

RECURSIVE PathText(_)
PathText(path) ==
    LET name == [i \in DOMAIN Head(path) |-> Word(Head(path)[i])]
    IN  IF Len(path) = 1 THEN name
        ELSE name \o <<Word(".")>> \o PathText(Tail(path))

OperandText(e) ==
    PathText(e.path) \o
    CASE e.index.q = "plain" -> <<>>
      [] e.index.q = "at" ->
           <<Sign("["), Number(ToString(e.index.n), 2 * e.index.n), Sign("]")>>
      [] OTHER -> <<Sign("["), Word(e.index.q), Sign("]")>>

\* With b between the words, a blank or nothing.
RECURSIVE Text(_, _)
Text(e, b) ==
    LET InBraces(f) == IF f.kind \in {"and", "or"}
                       THEN <<Sign("(")>> \o Text(f, b) \o <<Sign(")")>> ELSE Text(f, b)
    IN  CASE e.kind \in {"and", "or"} ->
               Text(e.of[1], b) \o b \o <<Word(e.kind)>> \o b \o InBraces(e.of[2])
          [] e.kind = "not" -> <<Word("not")>> \o b \o Text(e.of[1], b)
          [] e.kind = "record" ->
               OperandText(e) \o b \o <<Sign("(")>> \o Text(e.of[1], b) \o <<Sign(")")>>
          [] e.op \in {"CONTAINS", "STARTS_WITH", "ENDS_WITH"} ->
               OperandText(e) \o <<Sign(Operators[e.op])>> \o ConstantText(e.constant)
                   \o <<Sign(")")>>
          [] OTHER ->
               OperandText(e) \o b \o <<Sign(Operators[e.op])>> \o b
                   \o ConstantText(e.constant)

Doc(s, v, cut) == [value |-> v, data |-> Encode(s, v), cut |-> cut]

Case(s, text, meant, docs) ==
    [schema |-> s, text |-> text, meant |-> meant, docs |-> docs]

Filtering(s, meants, cuts) ==
    {Case(s, Text(f, <<Blank>>), f, <<Doc(s, v, c), Doc(s, w, FALSE)>>) :
        f \in meants, c \in cuts, v \in Values(s), w \in Values(s)}

\* A text on each record alone.
Reading(s, text, meant) ==
    {Case(s, text, meant, <<Doc(s, v, FALSE)>>) : v \in Values(s)}

-----------------------------------------------------------------------------
\* A field, and one in a record.
Simple == Schema(<<Field("a", Plain), Field("p", Struct(<<Field("q", Plain)>>))>>)
SimpleFilters ==
    LET a(op) == Pred(<<"a">>, Whole, op, 1)
        q == Pred(<<"p", "q">>, Whole, "EQ", 0)
    IN  {a(op) : op \in NumericOps} \cup {And(a("EQ"), q), Or(a("EQ"), Not(q))}

Nullable == Schema(<<Field("a", Optional(Plain)),
                     Field("p", Optional(Struct(<<Field("q", Plain)>>)))>>)
NullableFilters ==
    LET a == Pred(<<"a">>, Whole, "EQ", 1)
        q == Pred(<<"p", "q">>, Whole, "NE", 1)
    IN  {Not(a), And(a, q), Or(a, Not(q)),
         And(NullTest(<<"a">>, "NOT_NIL"), Not(a)), Or(NullTest(<<"p">>, "IS_NIL"), q)}

Indices == {Index(q, 0) : q \in {"all", "any", "none"}} \cup {Index("at", n) : n \in {0, 1}}

\* Arrays of leaves, one of them optional.
Arrays     == Schema(<<Field("xs", ArrayOf(Plain)), Field("y", Plain)>>)
MaybeArray == Schema(<<Field("xs", Optional(ArrayOf(Plain)))>>)
ArrayFilters == {Pred(<<"xs">>, i, "EQ", 1) : i \in Indices}
ArrayAndLeafFilters ==
    {And(f, Pred(<<"y">>, Whole, "GT", 0)) : f \in ArrayFilters}
        \cup {Not(f) : f \in ArrayFilters}

\* Arrays of records.
RecordsOf(fields) == Schema(<<Field("rs", ArrayOf(Struct(fields)))>>)
Records == RecordsOf(<<Field("f", Plain), Field("g", Plain)>>)
RecordFilters ==
    {OfRecord(<<"rs">>, i,
        And(Pred(<<"f">>, Whole, "EQ", 1), Not(Pred(<<"g">>, Whole, "EQ", 1)))) :
            i \in Indices}

\* The fields of a record in an array may be asked whether they are null.
NilRecords == RecordsOf(<<Field("f", Optional(Plain))>>)
NilFilters == {OfRecord(<<"rs">>, i, NullTest(<<"f">>, "NOT_NIL")) : i \in Indices}

\* An array in a record in an array: right as long as that has one record, as
\* the inner predicate goes on collecting over the records of one document.
InnerArrays == RecordsOf(<<Field("xs", ArrayOf(Plain))>>)
InnerFilters ==
    {OfRecord(<<"rs">>, Index("any", 0), Pred(<<"xs">>, Index(q, 0), "EQ", 1)) :
        q \in {"all", "any"}}

\* A field of each type.  A fraction is cut off for an int, which does no harm
\* to two of the operators.
OfType(type) == Schema(<<Field("s", type)>>)
OnField(ops, constants) == {Test(<<"s">>, Whole, op, c) : op \in ops, c \in constants}
TypedCases ==
    Filtering(OfType(Value("string")),
              OnField({"EQ", "NE", "CONTAINS", "STARTS_WITH", "ENDS_WITH"},
                      {Str(<<"x">>), Str(<<"x", "y">>)}), {FALSE})
    \cup Filtering(OfType(Optional(Value("bytes"))), OnField({"NE"}, {Str(<<>>)}), {FALSE})
    \cup Filtering(OfType(Value("boolean")), OnField({"EQ", "NE"}, {Bool(TRUE)}), {FALSE})
    \cup Filtering(OfType(Value("double")), OnField(NumericOps, {Double(1)}), {FALSE})
    \cup Filtering(OfType(EnumOf(<< <<"x">>, <<"y">> >>)),
                   OnField({"EQ", "NE"}, {Str(<<"y">>)}), {FALSE})
    \cup Filtering(OfType(Optional(Value("long"))),
                   OnField(NumericOps, {Double(2)}) \cup OnField({"GT", "LE"}, {Double(1)}),
                   {FALSE})

\* Names that begin with a keyword, brackets, and the order of operators.
Bit(names) == Pred(names, Whole, "EQ", 1)
ThreeBits == Schema(<<Object(Plain, <<"and", "y">>, <<>>), Object(Plain, <<"or">>, <<>>),
                      Field("a", Plain)>>)
ThreeFilters ==
    LET andy == [Bit(<<"a">>) EXCEPT !.path = << <<"and", "y">> >>]
        or == Bit(<<"or">>)
        a == Bit(<<"a">>)
    IN  {And(Or(andy, or), a), Or(And(andy, or), Not(a)), Or(andy, And(or, a)),
         And(andy, Or(Not(or), a)), And(And(a, andy), or)}
TextCases ==
    UNION {Reading(ThreeBits, Text(f, b), f) : f \in ThreeFilters, b \in {<<>>, <<Blank>>}}
    \cup Reading(ThreeBits, <<Sign("(")>> \o Text(Bit(<<"a">>), <<>>) \o <<Sign(")"), Blank>>,
                 Bit(<<"a">>))

\* Texts that mean nothing, by themselves or for a schema.
WrongTexts ==
    LET a == Text(Bit(<<"a">>), <<Blank>>)
        open == <<Sign("(")>>
    IN  {open \o a, a \o <<Sign(")")>>, a \o <<Blank, Word("a")>>, a \o <<Blank, Word("and")>>,
         a \o <<Word("or")>> \o open \o a, Tail(a), Text(Bit(<<"z">>), <<>>),
         Text(NullTest(<<"a">>, "IS_NIL"), <<>>), Text(Bit(<<"p">>), <<>>),
         <<Word("not")>> \o open \o a \o <<Sign(")")>>,
         Text(Test(<<"a">>, Whole, "EQ", Str(<<"x">>)), <<>>),
         Text(Test(<<"a">>, Whole, "STARTS_WITH", Str(<<"x">>)), <<>>)}
WrongCases ==
    UNION {Reading(Simple, text, Nothing) : text \in WrongTexts}
    \cup Reading(OfType(EnumOf(<< <<"x">> >>)), Text(Test(<<"s">>, Whole, "EQ", Str(<<"y">>)), <<>>),
                 Nothing)
    \cup UNION {Reading(OfType(Value(type)), Text(Bit(<<"s">>), <<>>), Nothing) :
                  type \in {"string", "boolean"}}

GoodCases ==
    Filtering(Simple, SimpleFilters, BOOLEAN)
    \cup Filtering(Nullable, NullableFilters, {FALSE})
    \cup Filtering(Arrays, ArrayAndLeafFilters, {FALSE})
    \cup Filtering(MaybeArray, ArrayFilters, {FALSE})
    \cup {c \in Filtering(Records, RecordFilters, {FALSE}) :
            Len(c.docs[1].value.fields[1].items) = 2
                \/ c.docs[2].value = c.docs[1].value}
    \cup Filtering(NilRecords, NilFilters, {FALSE})
    \cup {c \in Filtering(InnerArrays, InnerFilters, {FALSE}) :
            \A i \in {1, 2} : Len(c.docs[i].value.fields[1].items) <= 1}
    \cup TypedCases \cup TextCases \cup WrongCases

\* A comparison with a field that may be null, in a record in an array.
StaleCases ==
    Filtering(NilRecords,
              {OfRecord(<<"rs">>, Index("all", 0), Pred(<<"f">>, Whole, "EQ", 1))}, {FALSE})

\* A text that ends behind a name, one with "=" for "==", one that compares an
\* array, an order of strings, and a number for an enum.
AbortCases ==
    LET s == <<Word("s")>>
        one == Number("1", 2)
    IN  UNION {Reading(OfType(Plain), text, Nothing) :
                 text \in {s, s \o <<Sign("="), one>>, s \o <<Sign("(")>> \o s}}
        \cup Reading(OfType(ArrayOf(Plain)), s \o <<Sign("=="), one>>, Nothing)
        \cup Reading(OfType(Value("string")), s \o <<Sign("<"), Quoted(<<"x">>)>>, Nothing)
        \cup Reading(OfType(EnumOf(<< <<"x">>, <<"y">> >>)), s \o <<Sign("=="), one>>, Nothing)

\* All the nodes there are.
AllNodes ==
    UNION {NodesOf(s) : s \in {Simple, Nullable, Arrays, MaybeArray, Records, NilRecords,
                               InnerArrays, ThreeBits, OfType(ArrayOf(Plain))}
        \cup {OfType(Value(type)) : type \in {"string", "boolean", "double"}}
        \cup {OfType(Optional(Value(type))) : type \in {"bytes", "long"}}
        \cup {OfType(EnumOf(<< <<"x">>, <<"y">> >>)), OfType(EnumOf(<< <<"x">> >>)),
              OfType(Plain)}}
AllDepths == [s \in AllNodes |-> DepthOf(s)]
===============================================================================
