----------------------------- MODULE MCParseLoop -----------------------------
(* The readings of a record on small schemas, for TLC: every record of a     *)
(* schema with leaf values 0 and 1 and collections of at most one element,   *)
(* two records in a block, and some longer collections where they are        *)
(* printed.  Filters and field lists are put on the nodes the way the program*)
(* does it.                                                                  *)
EXTENDS ParseLoop, Predicates

\* Schemas.  The names of fields, and of types, are of one word.
Field(word, type)   == Object(type, <<word>>, <<>>)
Plain               == Value("int")
Null                == Value("null")
Enum                == Object(Value("enum"), <<"E">>, <<<<"x">>, <<"y">>>>)
Struct(fields)      == Object(Value("record"), <<"R">>, fields)
ArrayOf(items)      == Object(Value("array"), <<>>, <<items>>)
MapOf(values)       == Object(Value("map"), <<>>, <<values>>)
Schema(fields)      == parse(Struct(fields))

\* A record in a record, between two leaves.
Nested == Schema(<<Field("a", Plain),
                   Field("p", Struct(<<Field("q", Plain), Field("r", Enum)>>)),
                   Field("z", Plain)>>)

\* A field of the type, and a leaf behind it.
Before1(type) == Schema(<<Field("a", type), Field("z", Plain)>>)

\* A leaf that may be null, on both sides, and a union of three.
Nullable  == Before1(Array(<<Null, Plain>>))
Nullable2 == Before1(Array(<<Plain, Null>>))
Three     == Before1(Array(<<Value("string"), Null, Plain>>))

\* An enum that may be null, in both orders.
NullOrEnum == Before1(Array(<<Null, Enum>>))
EnumOrNull == Before1(Array(<<Enum, Null>>))

\* A record that may be null, with null as the last branch and as the first.
RecordOrNull == Before1(Array(<<Struct(<<Field("q", Plain)>>), Null>>))
NullOrRecord == Before1(Array(<<Null, Struct(<<Field("q", Plain), Field("r", Plain)>>)>>))

\* Collections: of leaves, of records, of the values of a map; one that may be
\* null, and one whose elements may.
Array1      == Before1(ArrayOf(Plain))
Records     == Before1(ArrayOf(Struct(<<Field("q", Plain)>>)))
Map1        == Before1(MapOf(Plain))
ArrayOrNull == Before1(Array(<<Null, ArrayOf(Plain)>>))
Optionals   == Before1(ArrayOf(Array(<<Null, Plain>>)))

\* Arrays in arrays, lists of enums, maps of strings, and both collections.
Arrays      == Before1(ArrayOf(ArrayOf(Plain)))
Enums       == Before1(ArrayOf(Enum))
Strings     == Before1(MapOf(Value("string")))
ArrayAndMap == Schema(<<Field("a", ArrayOf(Plain)), Field("b", MapOf(Plain))>>)

\* Records in records, as many as there are indents for.
RECURSIVE Deep(_)
Deep(n) == IF n = 1 THEN Struct(<<Field("a", Plain)>>)
           ELSE Struct(<<Field("a", Deep(n - 1)), Field("z", Plain)>>)
Deepest == parse(Deep(12))

\* All the nodes there are.
AllNodes ==
    UNION {NodesOf(s) : s \in {Nested, Nullable, Nullable2, Three, NullOrEnum, EnumOrNull,
                               RecordOrNull, NullOrRecord, Array1, Records, Map1, ArrayOrNull,
                               Optionals, Arrays, Enums, Strings, ArrayAndMap, Deepest}}
AllDepths == [s \in AllNodes |-> DepthOf(s)]

RECURSIVE Encodings(_), EncodeAll(_)
Encodings(s) ==
    CASE s.kind = "null"   -> {<<>>}
      [] s.kind = "leaf"   -> {<<0>>, <<1>>}
      [] s.kind = "custom" -> Encodings(s.of[1])
      [] s.kind = "record" -> EncodeAll(s.of)
      [] s.kind = "union"  ->
           UNION {{<<i - 1>> \o e : e \in Encodings(s.of[i])} : i \in DOMAIN s.of}
      [] s.kind = "array"  ->
           {<<0>>} \cup {<<1>> \o e \o <<0>> : e \in Encodings(s.of[1])}
      [] s.kind = "map"    ->
           {<<0>>} \cup {<<1, 7>> \o e \o <<0>> : e \in Encodings(s.of[1])}

EncodeAll(ss) ==
    IF ss = <<>> THEN {<<>>}
    ELSE {a \o b : a \in Encodings(Head(ss)), b \in EncodeAll(Tail(ss))}

\* Conditions on identifiers, with a constant that the node can be compared with.
Eq(id, ident)      == Predicate(id, ident, Whole, "EQ", Double(2))
EqEnum(id, ident)  == Predicate(id, ident, Whole, "EQ", Str(<<"y">>))
AllEq(id, ident)   == Predicate(id, ident, ArrayIndex(ALL), "EQ", Double(2))
NotNil(id, ident)  == Predicate(id, ident, Whole, "NOT_NIL", Nil)
AnyOf(id, ident, e) == RecordExpr(id, ident, ArrayIndex(ANY), e)
And(a, b)          == Expr("and", <<a, b>>)

A == <<"a">>
Z == <<"z">>

\* Two records of a schema, read for a filter on the ids, and for a filter.
Reading(schema, wanted) ==
    {[mode |-> "filter", schema |-> schema, wanted |-> wanted, docs |-> <<a, b>>] : a \in Encodings(schema), b \in Encodings(schema)}

\* The ids a filter is put on; a filter that is refused is not run.
Filter(schema, e) ==
    LET assigned == assignItems(schema, e)
    IN  IF assigned.is = "put" THEN Reading(schema, {pair[1] : pair \in assigned.on}) ELSE {}

\* Two records printed, and printed for a list of fields.
Printing(mode, schema) ==
    {[mode |-> mode, schema |-> schema, docs |-> <<a, b>>] :
        a \in Encodings(schema), b \in Encodings(schema)}

FieldList(mode, schema, fields) ==
    {[mode |-> mode, schema |-> schema, fields |-> fields,
      columns |-> compileFieldsList(fields, schema).columns, docs |-> <<a, b>>] :
        a \in Encodings(schema), b \in Encodings(schema)}

\* What the program puts a filter or a list of fields on, where the loop is right.
FilterCases ==
    UNION {Filter(Nested, e) :
             e \in {Eq(1, A), And(EqEnum(1, <<"p", ".", "r">>), Eq(2, Z)),
                    Eq(1, <<"p", ".", "q">>)}}
    \cup UNION {Filter(s, e) : s \in {Nullable, Nullable2},
                               e \in {Eq(1, A), And(NotNil(1, A), Eq(2, A)), Eq(1, Z)}}
    \cup UNION {Filter(s, e) : s \in {Three, NullOrEnum, EnumOrNull},
                               e \in {EqEnum(1, A), And(NotNil(1, A), EqEnum(2, A)), Eq(1, Z)}}
    \cup UNION {Filter(RecordOrNull, e) :
                  e \in {And(NotNil(1, A), Eq(2, Z)), Eq(1, <<"a", ".", "q">>)}}
    \cup UNION {Filter(Array1, e) : e \in {AllEq(1, A), Eq(1, Z)}}
    \cup UNION {Filter(Records, e) : e \in {AnyOf(1, A, Eq(2, <<"q">>)), Eq(1, Z)}}
    \cup UNION {Filter(ArrayOrNull, e) :
                  e \in {And(NotNil(1, A), Eq(2, Z)), AllEq(1, A)}}
    \cup Filter(Map1, Eq(1, Z))

FieldCases ==
    UNION {FieldList("tsv", Nested, fs) :
             fs \in {<<<<A>>, <<<<"p">>, <<"r">>>>, <<A>>>>, <<<<<<"p">>>>>>}}
    \cup UNION {FieldList("tsv", s, <<<<Z>>, <<A>>>>) :
                  s \in {Nullable, Nullable2, Three, NullOrEnum, Array1, Map1, ArrayOrNull}}
    \cup UNION {FieldList("tsv", s, <<<<Z>>>>) :
                  s \in {EnumOrNull, RecordOrNull, Records, Array1, Map1}}

\* Without the loop, which has no columns for records, arrays and maps.
RowCases ==
    FieldList("rows", Nested, <<<<A>>, <<<<"p">>, <<"r">>>>, <<A>>>>)
    \cup UNION {FieldList("rows", s, <<<<Z>>, <<A>>>>) :
                  s \in {Nullable, Three, NullOrEnum, EnumOrNull}}
    \cup UNION {FieldList("rows", s, <<<<Z>>>>) : s \in {NullOrRecord, Map1}}

\* All that can be printed: what may be null, records in records, in arrays, and
\* arrays in arrays, lists of enums, and maps of strings.
PrintCases ==
    UNION {Printing(mode, s) :
             mode \in {"json", "fool"},
             s \in {Nested, Three, NullOrEnum, EnumOrNull, RecordOrNull, NullOrRecord, Records,
                    ArrayOrNull, Arrays, Enums, Strings, ArrayAndMap}}

\* Two elements, in one block and in two.
LongCases ==
    {[mode |-> mode, schema |-> s, docs |-> <<<<2, 0, 1, 0, 1>>, <<1, 0, 1, 1, 0, 1>>>>] :
        mode \in {"json", "fool"}, s \in {Array1, Records, Enums}}
    \cup {[mode |-> mode, schema |-> Map1,
           docs |-> <<<<2, 7, 0, 6, 1, 0, 1>>, <<1, 7, 0, 1, 6, 1, 0, 1>>>>] :
             mode \in {"json", "fool"}}
    \cup {[mode |-> "tsv", schema |-> s, fields |-> <<<<A>>, <<Z>>>>,
           columns |-> compileFieldsList(<<<<A>>, <<Z>>>>, s).columns,
           docs |-> <<<<2, 0, 1, 0, 1>>>>] : s \in {Array1, Records}}

\* Records in records.
DeepCases ==
    {[mode |-> mode, schema |-> Deepest, docs |-> <<[i \in 1..12 |-> i % 2]>>] :
        mode \in {"json", "fool"}}

\* The loop also has an item for expressions on a record that is in no array, on
\* which predicate::List puts none: on the record within, and on the outer one.
RecordEndCases ==
    UNION {Reading(Nested, {Nested.of[2].of[1].id, Nested.of[2].of[1].of[1].id}),
           Reading(Nested, {Nested.id, Nested.of[3].id}),
           Reading(RecordOrNull, {RecordOrNull.of[1].of[1].of[1].id})}

SafeCases ==
    FilterCases \cup RecordEndCases \cup FieldCases \cup RowCases \cup PrintCases
    \cup LongCases \cup DeepCases

\* A record that may be null, with null first, as Avro's default values ask for.
NullFirstCases == Filter(NullOrRecord, Eq(1, Z))

\* A column for an enum that may be null, with null last.
EnumOrNullCases == FieldList("tsv", EnumOrNull, <<<<A>>, <<Z>>>>)

\* An array of what may be null.  The records are those of the written schema:
\* an element, its branch in front of it.
OptionalsCases ==
    {[mode |-> "filter", schema |-> Optionals,
      wanted |-> {pair[1] : pair \in assignItems(Optionals, Eq(1, Z)).on},
      docs |-> <<<<1, 1, 1, 0, 0>>>>]}
==============================================================================
