----------------------------- MODULE Expressions -----------------------------
(***************************************************************************)
(* The expression of a filter (filter/detail/ast.hpp, equality_expression, *)
(* record_expression): a tree.  An expression is a record with kind and id *)
(* (the place in the text):                                                *)
(*   "predicate"        ident, index, op, constant                         *)
(*   "record"           ident, index and of, the inner expression          *)
(*   "and" "or" "not"   of                                                 *)
(* The identifier is a sequence of words; one that is "." parts the names  *)
(* of a path, so a name is a sequence of words too.  index has q, "plain", *)
(* "all", "any", "none" or "at", and n, the number in the brackets of "at".*)
(***************************************************************************)
EXTENDS Integers, Sequences, SequencesExt

\* Constants.  To have fractions, doubles are counted in halves; a string is the
\* sequence of its characters.
Nil        == [is |-> "nil"]
Double(h)  == [is |-> "double", halves |-> h]
Integer(n) == [is |-> "int", n |-> n]
Bool(b)    == [is |-> "bool", holds |-> b]
Str(chars) == [is |-> "string", chars |-> chars]

\* detail::array_element: an index is a number, three of which have a meaning.
Index(q, n) == [q |-> q, n |-> n]
Whole       == Index("plain", 0)
ANY  == -1
ALL  == -2
NONE == -3
ArrayIndex(n) == CASE n = ANY  -> Index("any", 0)
                   [] n = ALL  -> Index("all", 0)
                   [] n = NONE -> Index("none", 0)
                   [] OTHER    -> Index("at", n)

Predicate(id, ident, index, op, constant) ==
    [kind |-> "predicate", id |-> id, ident |-> ident, index |-> index, op |-> op,
     constant |-> constant]

RecordExpr(id, ident, index, e) ==
    [kind |-> "record", id |-> id, ident |-> ident, index |-> index, of |-> <<e>>]

Expr(kind, of) == [kind |-> kind, id |-> 0, of |-> of]

Nothing == [kind |-> "nothing"]

IsNil(e) == e.op \in {"IS_NIL", "NOT_NIL"}

\* The names of a path.
Path(ident) ==
    LET points == SetToSortSeq({i \in DOMAIN ident : ident[i] = "."}, <)
        cuts == <<0>> \o points \o <<Len(ident) + 1>>
    IN  [i \in 1..(Len(cuts) - 1) |-> SubSeq(ident, cuts[i] + 1, cuts[i + 1] - 1)]

RECURSIVE Subexpressions(_)
Subexpressions(e) ==
    {e} \cup IF e.kind \in {"and", "or", "not", "record"}
             THEN UNION {Subexpressions(e.of[i]) : i \in DOMAIN e.of} ELSE {}

Stateful(e) == {s \in Subexpressions(e) : s.kind \in {"predicate", "record"}}

\* ExpressionExtractor and RecordExtractor: those not inside a record
\* expression, in their order.
RECURSIVE Extract(_, _)
Extract(kind, e) ==
    CASE e.kind = kind -> <<e>>
      [] e.kind \in {"and", "or", "not"} ->
           FlattenSeq([i \in DOMAIN e.of |-> Extract(kind, e.of[i])])
      [] OTHER -> <<>>
==============================================================================
