------------------------------ MODULE Predicates ------------------------------
(***************************************************************************)
(* Which nodes the parts of a filter are put on, and what becomes of the   *)
(* constants: predicate::List (avro/predicate/list.cc), by a way of its own*)
(* through the tree (schemaPathByIdent), other than that of -l (nodeByPath *)
(* in Schemas.tla).  Expressions are in Expressions.tla.                   *)
(*                                                                         *)
(* A constant that does not fit an int is not in this model.               *)
(*                                                                         *)
(* A definition marked "Variant" is the definition after it with a bug; it *)
(* is no part of the model, and shows that a property sees such a bug.     *)
(***************************************************************************)
EXTENDS Schemas, Expressions

-----------------------------------------------------------------------------
(* Nodes of an expression *)

\* schemaPathByIdent.  A custom node and a union (its last branch that is not
\* null) are stepped through on the way, an array is not.
RECURSIVE NodeOf(_, _)
NodeOf(s, path) ==
    IF path = <<>> THEN s
    ELSE CASE s.kind = "custom" -> NodeOf(s.of[1], path)
           [] s.kind = "union" /\ \E i \in DOMAIN s.of : s.of[i].kind # "null" ->
                LET i == CHOOSE i \in DOMAIN s.of :
                           /\ s.of[i].kind # "null"
                           /\ \A j \in DOMAIN s.of : j > i => s.of[j].kind = "null"
                IN  NodeOf(s.of[i], path)
           [] s.kind = "record" /\ \E i \in DOMAIN s.of : s.of[i].name = Head(path) ->
                LET i == CHOOSE i \in DOMAIN s.of :
                           /\ s.of[i].name = Head(path)
                           /\ \A j \in 1..(i - 1) : s.of[j].name # Head(path)
                IN  NodeOf(s.of[i], Tail(path))
           [] OTHER -> NotFound

schemaPathByIdent(s, ident) == NodeOf(s, Path(ident))

unwrapCustom(s) == notCustom(s)

\* The first branch that is not null.
notNullUnion(s) ==
    IF s.kind # "union" THEN s
    ELSE s.of[CHOOSE i \in DOMAIN s.of :
                /\ s.of[i].kind # "null"
                /\ \A j \in 1..(i - 1) : s.of[j].kind = "null"]

\* Where a predicate on a union goes: the first branch of a type that can be
\* compared, or the last branch.
Comparable(s) ==
    LET fits(i) == unwrapCustom(s.of[i]).kind \in {"leaf", "array"}
        i == IF \E j \in DOMAIN s.of : fits(j)
             THEN CHOOSE j \in DOMAIN s.of : fits(j) /\ \A h \in 1..(j - 1) : ~fits(h)
             ELSE Len(s.of)
    IN  unwrapCustom(s.of[i])

-----------------------------------------------------------------------------
(* The outcome for a predicate, and for several: what is put where, as pairs *)
(* of a node and an expression, and the converted constants.                 *)

Put(pairs, constants) == [is |-> "put", on |-> pairs, constants |-> constants]
Refused               == [is |-> "refused"]     \* a runtime_error or PathNotFound
Aborted               == [is |-> "aborted"]     \* an exception nobody catches

\* One after the other, up to the first that throws.
Together(results) ==
    LET bad == {i \in DOMAIN results : results[i].is # "put"}
    IN  IF bad # {} THEN results[CHOOSE i \in bad : \A j \in bad : i <= j]
        ELSE Put(UNION {results[i].on : i \in DOMAIN results},
                 UNION {results[i].constants : i \in DOMAIN results})

\* ToInt: towards zero.
Truncated(halves) == IF halves >= 0 THEN halves \div 2 ELSE -((-halves) \div 2)

\* findIndexForValue, -1 for none.
IndexForValue(s, chars) ==
    IF \E i \in DOMAIN s.values : s.values[i] = chars
    THEN (CHOOSE i \in DOMAIN s.values :
            s.values[i] = chars /\ \A j \in 1..(i - 1) : s.values[j] # chars) - 1
    ELSE -1

\* convertFilterConstant, and for an enum boost::get<std::string>: the constant as
\* the node compares with it.
Converted(s, e) ==
    LET c == e.constant
        As(constant) == Put({<<s.id, e.id>>}, {<<e.id, constant>>})
    IN  CASE s.type = "enum" ->
               (CASE c.is # "string" -> Aborted
                  [] IndexForValue(s, c.chars) = -1 -> Refused
                  [] OTHER -> As(Integer(IndexForValue(s, c.chars))))
          [] s.type \in {"string", "bytes"} ->
               IF c.is = "string" THEN As(c) ELSE Refused
          [] s.type = "boolean" -> IF c.is = "bool" THEN As(c) ELSE Refused
          [] s.type \in {"float", "double"} -> IF c.is = "double" THEN As(c) ELSE Refused
          [] s.type \in {"int", "long"} ->
               IF c.is = "double" THEN As(Integer(Truncated(c.halves))) ELSE Refused
          [] OTHER -> Refused

\* processPredicate.
processPredicate(e, found) ==
    LET s == unwrapCustom(found)
        target == IF s.kind = "union" /\ ~IsNil(e) THEN Comparable(s) ELSE s
        nullable == s.kind = "union" /\ \E i \in DOMAIN s.of : s.of[i].kind = "null"
    IN  CASE found.kind = "none" -> Refused
          [] IsNil(e) -> IF nullable THEN Put({<<s.id, e.id>>}, {<<e.id, Nil>>})
                                     ELSE Refused
          [] target.kind = "array" ->
               Together(<<Put({<<target.id, e.id>>}, {}),
                          Converted(unwrapCustom(target.of[1]), e)>>)
          [] OTHER -> Converted(target, e)

\* The predicates of a record expression, on the node of an element.
Inner(r, element) ==
    LET predicates == Extract("predicate", r.of[1])
    IN  Together([i \in DOMAIN predicates |->
                    processPredicate(predicates[i],
                                     schemaPathByIdent(element, predicates[i].ident))])

\* Variant: the expression is not told of the end of an element.
RecordOnArrayOnly(s, r) ==
    LET parent == unwrapCustom(notNullUnion(unwrapCustom(schemaPathByIdent(s, r.ident))))
        element == IF parent.kind = "array" THEN unwrapCustom(parent.of[1]) ELSE parent
    IN  Together(<<Put(IF parent.kind = "array" THEN {<<parent.id, r.id>>} ELSE {}, {}),
                   Inner(r, element)>>)

\* An expression over a record goes on the array and on its elements; on a
\* record that is in no array it goes nowhere.
processRecord(s, r) ==
    LET found == schemaPathByIdent(s, r.ident)
        parent == unwrapCustom(notNullUnion(unwrapCustom(found)))
        element == IF parent.kind = "array" THEN unwrapCustom(parent.of[1]) ELSE parent
        here == IF parent.kind = "array"
                THEN {<<parent.id, r.id>>, <<element.id, r.id>>} ELSE {}
    IN  IF found.kind = "none" THEN Refused
        ELSE Together(<<Put(here, {}), Inner(r, element)>>)

\* assignItems: first the predicates, then the record expressions.
assignItems(s, e) ==
    LET predicates == Extract("predicate", e)
        records == Extract("record", e)
    IN  Together([i \in DOMAIN predicates |->
                    processPredicate(predicates[i],
                                     schemaPathByIdent(s, predicates[i].ident))]
                 \o [i \in DOMAIN records |-> processRecord(s, records[i])])
===============================================================================
