------------------------------- MODULE Schemas -------------------------------
(***************************************************************************)
(* From the schema of a file to its tree of nodes (SchemaReader,           *)
(* avro/schemareader.cc), and from the field list of -l to the nodes that  *)
(* fill the columns (avro/node/nodebypath.cc, Reader::compileFieldsList).  *)
(*                                                                         *)
(* The schema is what the JSON parser makes of it: a value (the name of a  *)
(* type), an array (a union) or an object, with its type, its name, and    *)
(* inside, the sequence of its fields, the type of its items or the symbols*)
(* of an enum.  A name is a sequence of words (Expressions.tla).  Members  *)
(* of an object that no part of the reader looks at are not there, and     *)
(* neither are schemas the reader refuses: with a member or the name of a  *)
(* type it does not know, which goes for every type that has been defined  *)
(* before and is used again.                                               *)
(*                                                                         *)
(* A node has its type, id (its number), name (its item name), of, its     *)
(* children, and for an enum the values.  The kind of all types that are   *)
(* compared as one value is "leaf".                                        *)
(*                                                                         *)
(* A definition marked "Variant" is the definition after it with a bug; it *)
(* is no part of the model, and shows that a property sees such a bug.     *)
(***************************************************************************)
EXTENDS Integers, Sequences, FiniteSetsExt

\* The JSON.
Value(name)               == [is |-> "value", data |-> name]
Array(types)              == [is |-> "array", of |-> types]
Object(type, name, inside) ==
    [is |-> "object", type |-> type, name |-> name, inside |-> inside]

Scalars == {"string", "bytes", "int", "long", "float", "double", "boolean", "enum"}

Node(type, id, name, of) ==
    [kind |-> IF type \in Scalars THEN "leaf" ELSE type, type |-> type,
     id |-> id, name |-> name, of |-> of, values |-> <<>>]

\* A node, and currentIndex behind it.
Parsed(s, index) == [node |-> s, index |-> index]

nodeByTypeName(type, name, index) == Parsed(Node(type, index, name, <<>>), index + 1)

RECURSIVE parseOneJsonObject(_, _), nodeByType(_, _, _), readRecordFields(_, _),
          readUnion(_, _, _), readUnionTwice(_, _, _)

\* The children of a record: of is the sequence of them.
readRecordFields(fields, index) ==
    IF fields = <<>> THEN [of |-> <<>>, index |-> index]
    ELSE LET first == parseOneJsonObject(Head(fields), index)
             rest == readRecordFields(Tail(fields), first.index)
         IN  [of |-> <<first.node>> \o rest.of, index |-> rest.index]

\* Variant: does not go on counting behind a branch.
readUnionTwice(types, name, index) ==
    IF types = <<>> THEN [of |-> <<>>, index |-> index]
    ELSE LET first == nodeByType(Head(types), name, index)
             rest == readUnionTwice(Tail(types), name, index)
         IN  [of |-> <<first.node>> \o rest.of, index |-> rest.index]

\* The branches of a union, all named as the union.
readUnion(types, name, index) ==
    IF types = <<>> THEN [of |-> <<>>, index |-> index]
    ELSE LET first == nodeByType(Head(types), name, index)
             rest == readUnion(Tail(types), name, first.index)
         IN  [of |-> <<first.node>> \o rest.of, index |-> rest.index]

\* nodeByType: an object gets a custom node in front of its own; of a union there
\* is only the node, without branches.
nodeByType(type, name, index) ==
    CASE type.is = "value" -> nodeByTypeName(type.data, name, index)
      [] type.is = "array" -> Parsed(Node("union", index, name, <<>>), index + 1)
      [] type.is = "object" ->
           LET definition == parseOneJsonObject(type, index + 1)
           IN  Parsed(Node("custom", index, name, <<definition.node>>), definition.index)

\* parseOneJsonObject: the node for its type, and then what is inside.  The union
\* is made a second time, now with its branches.
parseOneJsonObject(object, index) ==
    LET new == nodeByType(object.type, object.name, index)
        Filled(type, id, children) ==
            Parsed(Node(type, id, object.name, children.of), children.index)
    IN  CASE new.node.kind = "record" ->
               Filled("record", index, readRecordFields(object.inside, new.index))
          [] new.node.kind = "union" ->
               Filled("union", new.index,
                      readUnion(object.type.of, object.name, new.index + 1))
          [] new.node.kind \in {"array", "map"} ->
               LET items == nodeByType(object.inside[1], object.name, new.index)
               IN  Filled(new.node.kind, index, [of |-> <<items.node>>, index |-> items.index])
          [] new.node.type = "enum" ->
               [new EXCEPT !.node.values = object.inside]
          [] OTHER -> new

\* SchemaReader::parse.
parse(schema) == parseOneJsonObject(schema, 0).node

-----------------------------------------------------------------------------
(* The nodes of a field list *)

RECURSIVE notCustom(_)
notCustom(s) == IF s.kind = "custom" THEN notCustom(s.of[1]) ELSE s

NotFound == Node("none", 0, <<>>, <<>>)

\* nodeByPath.  A chunk for which there is no field, in a custom node, yields
\* what the custom node stands for.
RECURSIVE nodeByPath(_, _)
nodeByPath(path, s) ==
    IF path = <<>> THEN s
    ELSE LET inner == IF s.kind = "custom" THEN s.of[1] ELSE s
             named == IF inner.kind # "record" THEN {}
                      ELSE {i \in DOMAIN inner.of : inner.of[i].name = Head(path)}
         IN  CASE named # {} ->
                    nodeByPath(Tail(path),
                               inner.of[CHOOSE i \in named : \A j \in named : i <= j])
               [] named = {} /\ inner # s -> nodeByPath(Tail(path), inner)
               [] OTHER -> NotFound

\* The numbers of the nodes that fill the column of a field.  Those of a union are
\* its own and those of its branches.
Column(field) ==
    LET s == notCustom(field)
    IN  {s.id} \cup
        IF s.kind = "union" THEN {notCustom(s.of[i]).id : i \in DOMAIN s.of} ELSE {}

\* compileFieldsList: a column for each field, unless one was not found.
compileFieldsList(fields, schema) ==
    LET found == [i \in DOMAIN fields |-> nodeByPath(fields[i], schema)]
    IN  IF \E i \in DOMAIN found : found[i] = NotFound
        THEN [ok |-> FALSE, columns |-> <<>>]
        ELSE [ok |-> TRUE, columns |-> [i \in DOMAIN found |-> Column(found[i])]]

-----------------------------------------------------------------------------
(* The numbers of the nodes of a tree, as they were given. *)

RECURSIVE Numbers(_), NumbersOf(_)
NumbersOf(ss) == IF ss = <<>> THEN <<>> ELSE Numbers(Head(ss)) \o NumbersOf(Tail(ss))
Numbers(s) == <<s.id>> \o NumbersOf(s.of)

\* The nodes of a tree, and how deep it is.
RECURSIVE NodesOf(_), DepthOf(_)
NodesOf(s) == {s} \cup UNION {NodesOf(s.of[i]) : i \in DOMAIN s.of}
DepthOf(s) == IF s.of = <<>> THEN 0 ELSE 1 + Max({DepthOf(s.of[i]) : i \in DOMAIN s.of})
==============================================================================
