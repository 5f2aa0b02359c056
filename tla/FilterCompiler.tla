---------------------------- MODULE FilterCompiler ----------------------------
(***************************************************************************)
(* From the text of -c to an expression: filter::Compiler::compile         *)
(* (filter/compiler.cc), a grammar of Boost.Spirit.  A rule takes the first*)
(* of its alternatives that matches and never comes back to another; `>>'  *)
(* between two parts lets the rule fail if the second part does, and `>'   *)
(* throws an exception then, which nobody catches.                         *)
(*                                                                         *)
(* A text is a sequence of pieces.  Words without a blank between them are *)
(* one name in the file, but where the grammar has a keyword it also takes *)
(* the beginning of a longer word; so a word is cut into pieces behind     *)
(* every beginning that is a keyword ("notify" is not, ify), and a name is *)
(* the sequence of them.  A string in quotes is one piece, with its        *)
(* escapes resolved; it is not whole if its end or an escape is wrong.     *)
(*                                                                         *)
(* A number stands for the double that qi::double_ makes of it; to have    *)
(* fractions it is counted in halves.  Expressions are in Expressions.tla. *)
(*                                                                         *)
(* A definition marked "Variant" is the definition after it with a bug; it *)
(* is no part of the model, and shows that a property sees such a bug.     *)
(***************************************************************************)
EXTENDS Expressions

\* Pieces of a text.
Word(data)           == [is |-> "word", data |-> data]
Number(data, halves) == [is |-> "number", data |-> data, halves |-> halves]
Quoted(chars)        == [is |-> "quoted", chars |-> chars, whole |-> TRUE]
BadlyQuoted          == [is |-> "quoted", chars |-> <<>>, whole |-> FALSE]
Sign(data)           == [is |-> "sign", data |-> data]
Blank                == [is |-> "blank"]

-----------------------------------------------------------------------------
(* What a parser makes of the text t from p on.                             *)

Matched(at, value) == [is |-> "matched", at |-> at, value |-> value]
Failed             == [is |-> "failed"]
Thrown             == [is |-> "thrown"]

AndThen(r, Rest(_)) == IF r.is = "matched" THEN Rest(r) ELSE r
OrElse(r, other)    == IF r.is = "failed" THEN other ELSE r
Expected(r)         == IF r.is = "failed" THEN Thrown ELSE r

\* The skipper.
SkipBlanks(t, p) ==
    CHOOSE q \in p..(Len(t) + 1) :
        /\ \A i \in p..(q - 1) : t[i].is = "blank"
        /\ q \in DOMAIN t => t[q].is # "blank"

literal(t, p, is, data) ==
    LET q == SkipBlanks(t, p)
    IN  IF q \in DOMAIN t /\ t[q].is = is /\ t[q].data = data
        THEN Matched(q + 1, data) ELSE Failed

keyword(t, p, word) == literal(t, p, "word", word)
sign(t, p, chars)   == literal(t, p, "sign", chars)

\* quoted_string: the rule has no skipper.
quoted_string(t, p) ==
    CASE p \notin DOMAIN t \/ t[p].is # "quoted" -> Failed
      [] t[p].whole -> Matched(p + 1, Str(t[p].chars))
      [] OTHER      -> Thrown

\* constant: double_, which takes the blanks in front even if it fails, and
\* so int_ has nothing left to do.
constant(t, p) ==
    LET q == SkipBlanks(t, p)
    IN  CASE q \notin DOMAIN t -> Failed
          [] t[q].is = "number" -> Matched(q + 1, Double(t[q].halves))
          [] t[q].is = "word" /\ t[q].data \in {"true", "false"} ->
               Matched(q + 1, Bool(t[q].data = "true"))
          [] t[q].is = "word" /\ t[q].data = "nil" -> Matched(q + 1, Nil)
          [] OTHER -> quoted_string(t, q)

\* identifier: as many letters, digits, points and underscores as there are.
identifier(t, p) ==
    LET Named(i) == i \in DOMAIN t /\ \/ t[i].is = "word"
                                      \/ t[i].is = "number" /\ t[i].halves >= 0
        q == SkipBlanks(t, p)
        end == CHOOSE e \in q..(Len(t) + 1) :
                  (\A i \in q..(e - 1) : Named(i)) /\ ~Named(e)
    IN  IF end = q THEN Failed
        ELSE Matched(end, [i \in 1..(end - q) |-> t[q + i - 1].data])

Operand(ident, index) == [ident |-> ident, index |-> index]

\* What is between the brackets.
array_index(t, p) ==
    LET q == SkipBlanks(t, p)
    IN  CASE q \notin DOMAIN t -> Failed
          [] t[q].is = "number" /\ t[q].halves % 2 = 0 ->
               Matched(q + 1, t[q].halves \div 2)
          [] t[q].is = "word" /\ t[q].data = "any"  -> Matched(q + 1, ANY)
          [] t[q].is = "word" /\ t[q].data = "all"  -> Matched(q + 1, ALL)
          [] t[q].is = "word" /\ t[q].data = "none" -> Matched(q + 1, NONE)
          [] OTHER -> Failed

array_expression(t, p) ==
    AndThen(identifier(t, p), LAMBDA name :
    AndThen(sign(t, name.at, "["), LAMBDA open :
    AndThen(array_index(t, open.at), LAMBDA index :
    AndThen(sign(t, index.at, "]"), LAMBDA close :
        Matched(close.at, Operand(name.value, ArrayIndex(index.value)))))))

operand(t, p) ==
    OrElse(array_expression(t, p),
           AndThen(identifier(t, p), LAMBDA name :
               Matched(name.at, Operand(name.value, Whole))))

\* The operators of equality_expression; one of them may make it a test for nil.
Comparison(chars, c) ==
    CASE chars = "==" -> IF c.is = "nil" THEN "IS_NIL" ELSE "EQ"
      [] chars = "~=" -> IF c.is = "nil" THEN "NOT_NIL" ELSE "NE"
      [] chars = "<"  -> "LT"
      [] chars = ">"  -> "GT"
      [] chars = "<=" -> "LE"
      [] chars = ">=" -> "GE"

Comparisons == {"==", "~=", "<", ">", "<=", ">="}

StringOperation(chars) ==
    CASE chars = ":contains("    -> "CONTAINS"
      [] chars = ":starts_with(" -> "STARTS_WITH"
      [] chars = ":ends_with("   -> "ENDS_WITH"

StringOperations == {":contains(", ":starts_with(", ":ends_with("}

\* An operand, an operator and a constant, or a string operator with a string
\* and the end of its bracket.
equality_expr(t, p) ==
    AndThen(operand(t, p), LAMBDA left :
        LET q == SkipBlanks(t, left.at)
        IN  CASE q \notin DOMAIN t \/ t[q].is # "sign" -> Failed
              [] t[q].data \in Comparisons ->
                   AndThen(constant(t, q + 1), LAMBDA c :
                       Matched(c.at, Predicate(p, left.value.ident, left.value.index,
                                               Comparison(t[q].data, c.value), c.value)))
              [] t[q].data \in StringOperations ->
                   AndThen(quoted_string(t, q + 1), LAMBDA c :
                   AndThen(sign(t, c.at, ")"), LAMBDA close :
                       Matched(close.at, Predicate(p, left.value.ident, left.value.index,
                                                   StringOperation(t[q].data), c.value))))
              [] OTHER -> Failed)

RECURSIVE logical_expression(_, _), braces_expr(_, _), Operands(_, _, _)

\* Behind its name, everything is expected.
record_expr(t, p) ==
    AndThen(operand(t, p), LAMBDA left :
    AndThen(Expected(sign(t, left.at, "(")), LAMBDA open :
    AndThen(Expected(logical_expression(t, open.at)), LAMBDA inner :
    AndThen(Expected(sign(t, inner.at, ")")), LAMBDA close :
        Matched(close.at, RecordExpr(p, left.value.ident, left.value.index,
                                     inner.value))))))

\* Variant: an expression over a record is tried first.
LeafRecordFirst(t, p) == OrElse(record_expr(t, p), equality_expr(t, p))

Leaf(t, p) == OrElse(equality_expr(t, p), record_expr(t, p))

\* An expression in brackets, "not" and one without, or one without.
braces_expr(t, p) ==
    LET inBraces ==
            AndThen(sign(t, p, "("), LAMBDA open :
            AndThen(logical_expression(t, open.at), LAMBDA inner :
            AndThen(sign(t, inner.at, ")"), LAMBDA close :
                Matched(close.at, inner.value))))
        negated ==
            AndThen(keyword(t, p, "not"), LAMBDA no :
            AndThen(Leaf(t, no.at), LAMBDA e :
                Matched(e.at, Expr("not", <<e.value>>))))
    IN  OrElse(inBraces, OrElse(negated, Leaf(t, p)))

\* Variant: what is behind an operator is all one operand.
OperandsToTheRight(t, p, left) ==
    LET More(op) ==
            AndThen(keyword(t, p, op), LAMBDA word :
            AndThen(logical_expression(t, word.at), LAMBDA right :
                Matched(right.at, Expr(op, <<left, right.value>>))))
    IN  OrElse(More("and"), OrElse(More("or"), Matched(p, left)))

\* "and" and "or" as they come: what is on the left is one operand.
Operands(t, p, left) ==
    LET More(op) ==
            AndThen(keyword(t, p, op), LAMBDA word :
            AndThen(braces_expr(t, word.at), LAMBDA right :
                Operands(t, right.at, Expr(op, <<left, right.value>>))))
    IN  OrElse(More("and"), OrElse(More("or"), Matched(p, left)))

logical_expression(t, p) ==
    AndThen(braces_expr(t, p), LAMBDA first : Operands(t, first.at, first.value))

\* Variant: a rest of the text is passed over.
compileSomeOf(text) ==
    LET r == logical_expression(text, 1)
    IN  CASE r.is = "thrown"  -> [outcome |-> "aborted", filter |-> Nothing]
          [] r.is = "failed"  -> [outcome |-> "failed", filter |-> Nothing]
          [] r.is = "matched" -> [outcome |-> "compiled", filter |-> r.value]

\* Compiler::compile; a text that is not used up is a CompileError.
compile(text) ==
    LET r == logical_expression(text, 1)
    IN  CASE r.is = "thrown" -> [outcome |-> "aborted", filter |-> Nothing]
          [] r.is = "matched" /\ SkipBlanks(text, r.at) = Len(text) + 1 ->
               [outcome |-> "compiled", filter |-> r.value]
          [] OTHER -> [outcome |-> "failed", filter |-> Nothing]
==============================================================================
