------------------------------ MODULE FilterEval ------------------------------
(***************************************************************************)
(* What becomes of a filter, from the text of -c to the verdict on each    *)
(* record.  main compiles the text (FilterCompiler.tla) to a tree whose    *)
(* leaves are predicates (filter::equality_expression) and expressions over*)
(* a record (filter::record_expression); each keeps a state                *)
(* (filter/state.cc) in place of its value.  predicate::List puts them on  *)
(* nodes of the schema (Predicates.tla); while a record is decoded         *)
(* (Decoding.tla) the nodes call what is on them, and at its end the tree  *)
(* is evaluated from the states, which are then reset.  The module compares*)
(* that with what the text means for the record.                           *)
(*                                                                         *)
(* A value of a leaf is a number: that of an int or long, a double in      *)
(* halves, the index of an enum, 0 or 1 for a boolean, the place in Strings*)
(* of a string.  Strings hold characters; NUL is one of them.              *)
(*                                                                         *)
(* A record may be cut: reading it ends with Eof, which the worker swallows*)
(* before it goes on with another block and the same decoder.              *)
(*                                                                         *)
(* A definition marked "Variant" is the definition after it with a bug; it *)
(* is no part of the model, and shows that a property sees such a bug.     *)
(***************************************************************************)
EXTENDS Decoding, Predicates, FilterCompiler, FiniteSets

CONSTANTS Cases,    \* what to filter: records with schema, text, meant (the
                    \* expression that the text means for the schema, with
                    \* path for ident; Nothing if it means nothing) and docs;
                    \* a doc has value, the data that encode it, and cut
          Strings   \* the strings of the data

VARIABLES case,     \* the case; never changes
          filter,   \* the compiled text
          on,       \* filterItems: pairs of a node id and an expression id
          states,   \* by expression id: constant, currentState, array_states
          k,        \* the record being decoded
          calls,    \* what its nodes have still to tell
          verdicts, \* expressionPassed for the records so far; "cut" for none
          status    \* "started", "compiled", "running", "done"; "failed" by the
                    \* compiler, "refused" by setFilter, "aborted"

vars == <<case, filter, on, states, k, calls, verdicts, status>>

Expression(id) == CHOOSE e \in Stateful(filter) : e.id = id

-----------------------------------------------------------------------------
(* States, and the evaluation of the tree from them.                        *)

Fresh == [constant |-> Nil, current |-> FALSE, pushed |-> <<>>]

Holds(seq, b) == \E i \in DOMAIN seq : seq[i] = b

\* state::getState.
getState(e, st) ==
    CASE e.index.q = "plain" -> st.current
      [] e.index.q = "all"   -> ~Holds(st.pushed, FALSE)
      [] e.index.q = "any"   -> Holds(st.pushed, TRUE)
      [] e.index.q = "none"  -> ~Holds(st.pushed, TRUE)
      [] e.index.q = "at"    ->
           e.index.n >= 0 /\ Len(st.pushed) > e.index.n /\ st.pushed[e.index.n + 1]

\* AstRunner.
RECURSIVE Eval(_, _)
Eval(e, sts) ==
    CASE e.kind = "and" -> \A i \in DOMAIN e.of : Eval(e.of[i], sts)
      [] e.kind = "or"  -> \E i \in DOMAIN e.of : Eval(e.of[i], sts)
      [] e.kind = "not" -> ~Eval(e.of[1], sts)
      [] OTHER          -> getState(e, sts[e.id])

-----------------------------------------------------------------------------
(* Predicate::apply<T> for a value of each type.                            *)

NumericOps == {"EQ", "NE", "LT", "GT", "LE", "GE"}

Compare(op, value, c) ==
    CASE op = "EQ" -> value = c
      [] op = "NE" -> value # c
      [] op = "LT" -> value < c
      [] op = "GT" -> value > c
      [] op = "LE" -> value <= c
      [] op = "GE" -> value >= c

NUL == "NUL"

\* strncmp(a, b, n) = 0: no difference in front of a NUL.
SameUpTo(a, b, n) ==
    \A i \in 1..n : a[i] = b[i] \/ \E j \in 1..(i - 1) : a[j] = NUL /\ b[j] = NUL

\* The operators of StringBuffer.  contains() compares the place that
\* std::search returns with the end.
Equals(s, c)     == Len(s) = Len(c) /\ SameUpTo(c, s, Len(c))
contains(s, c)   ==
    \E i \in 1..Len(s) : Len(c) <= Len(s) - i + 1 /\ SubSeq(s, i, i + Len(c) - 1) = c
starts_with(s, c) == Len(c) <= Len(s) /\ SameUpTo(c, s, Len(c))

\* Variant: compares the beginning.
ends_with_front(s, c) == Len(c) <= Len(s) /\ SameUpTo(c, s, Len(c))

ends_with(s, c)  ==
    Len(c) <= Len(s) /\ SameUpTo(c, SubSeq(s, Len(s) - Len(c) + 1, Len(s)), Len(c))

StringTest(op, s, c) ==
    CASE op = "EQ" -> Equals(s, c)
      [] op = "NE" -> ~Equals(s, c)
      [] op = "CONTAINS"    -> contains(s, c)
      [] op = "STARTS_WITH" -> starts_with(s, c)
      [] op = "ENDS_WITH"   -> ends_with(s, c)

\* The type of a leaf, from its id.
RECURSIVE LeafTypes(_)
LeafTypes(s) ==
    IF s.kind = "leaf" THEN {<<s.id, s.type>>}
    ELSE UNION {LeafTypes(s.of[i]) : i \in DOMAIN s.of}

TypeOf(id) == (CHOOSE pair \in LeafTypes(case.schema) : pair[1] = id)[2]

\* apply asserts that the operator is one of the type's.
Applicable(type, op) ==
    CASE type \in {"string", "bytes"} ->
           op \in {"EQ", "NE", "CONTAINS", "STARTS_WITH", "ENDS_WITH"}
      [] type = "boolean" -> op \in {"EQ", "NE"}
      [] OTHER -> op \in NumericOps

apply(type, op, value, c) ==
    CASE type \in {"string", "bytes"} -> StringTest(op, Strings[value], c.chars)
      [] type = "boolean" -> Compare(op, value = 1, c.holds)
      [] type \in {"float", "double"} -> Compare(op, value, c.halves)
      [] type \in {"int", "enum"} -> Compare(op, value, c.n)
      [] type = "long" -> Compare(op, AsInt(value), c.n)

-----------------------------------------------------------------------------
\* What a call does to an expression.
After(e, call, sts) ==
    LET st == sts[e.id]
    IN  CASE call.what = "apply" ->
               [st EXCEPT !.current = apply(TypeOf(call.id), e.op, call.value, st.constant)]
          [] call.what = "setIsNull" ->
               [st EXCEPT !.current = (e.op = "IS_NIL") = call.value]
          [] call.what = "push" -> [st EXCEPT !.pushed = Append(@, st.current)]
          [] call.what = "recordEnd" -> [st EXCEPT !.current = Eval(e.of[1], sts)]

Told(call) == {Expression(p[2]) : p \in {p \in on : p[1] = call.id}}

\* The assertions in predicate.cc: the operator is one of the type's, and only
\* an expression with an index is on an array.
Asserted(call, e) ==
    CASE call.what = "apply" -> Applicable(TypeOf(call.id), e.op)
      [] call.what = "push"  -> e.kind = "predicate" => e.index.q # "plain"
      [] OTHER -> TRUE

Reset(st) == [st EXCEPT !.current = FALSE, !.pushed = <<>>]

\* Variant: the predicates inside a record expression are passed over.
ResetOuter(sts) ==
    LET outer == Extract("predicate", filter) \o Extract("record", filter)
    IN  [id \in DOMAIN sts |->
            IF \E i \in DOMAIN outer : outer[i].id = id THEN Reset(sts[id]) ELSE sts[id]]

\* Filter::resetState: every state of the tree.
resetState(sts) == [id \in DOMAIN sts |-> Reset(sts[id])]

-----------------------------------------------------------------------------
CallsOf(c, pairs, i) ==
    decodeDocument({p[1] : p \in pairs}, c.docs[i].data)[c.schema][1].log

Init ==
    /\ case \in Cases
    /\ filter = Nothing
    /\ on = {} /\ states = <<>> /\ calls = <<>> /\ verdicts = <<>>
    /\ k = 1
    /\ status = "started"

\* main.
Compile ==
    /\ status = "started"
    /\ LET result == compile(case.text)
       IN  status' = result.outcome /\ filter' = result.filter
    /\ UNCHANGED <<case, on, states, k, calls, verdicts>>

\* A new decoder for the first record.
SetFilter ==
    /\ status = "compiled"
    /\ LET result == assignItems(case.schema, filter)
           Constant(id) ==
               IF result.is = "put" /\ \E p \in result.constants : p[1] = id
               THEN (CHOOSE p \in result.constants : p[1] = id)[2] ELSE Nil
       IN  IF result.is = "put"
           THEN /\ status' = "running"
                /\ on' = result.on
                /\ states' = [id \in {e.id : e \in Stateful(filter)} |->
                                [Fresh EXCEPT !.constant = Constant(id)]]
                /\ calls' = CallsOf(case, result.on, 1)
           ELSE status' = result.is /\ UNCHANGED <<on, states, calls>>
    /\ UNCHANGED <<case, filter, k, verdicts>>

\* A node tells what is on it.
Tell ==
    /\ status = "running"
    /\ calls # <<>>
    /\ LET call == Head(calls)
       IN  IF \E e \in Told(call) : ~Asserted(call, e)
           THEN status' = "aborted" /\ UNCHANGED <<states, calls>>
           ELSE /\ states' = [id \in DOMAIN states |->
                                IF \E e \in Told(call) : e.id = id
                                THEN After(Expression(id), call, states)
                                ELSE states[id]]
                /\ calls' = Tail(calls)
                /\ UNCHANGED status
    /\ UNCHANGED <<case, filter, on, k, verdicts>>

\* Variant: a record that does not pass is not recorded.
NextRecordIfMatch(verdict) ==
    /\ verdicts' = IF verdict = "skip" THEN verdicts ELSE Append(verdicts, verdict)
    /\ IF k < Len(case.docs)
       THEN k' = k + 1 /\ calls' = CallsOf(case, on, k + 1) /\ UNCHANGED status
       ELSE status' = "done" /\ calls' = <<>> /\ UNCHANGED k
    /\ UNCHANGED <<case, filter, on>>

\* On to the next record, of this block or of another.
NextRecord(verdict) ==
    /\ verdicts' = Append(verdicts, verdict)
    /\ IF k < Len(case.docs)
       THEN k' = k + 1 /\ calls' = CallsOf(case, on, k + 1) /\ UNCHANGED status
       ELSE status' = "done" /\ calls' = <<>> /\ UNCHANGED k
    /\ UNCHANGED <<case, filter, on>>

\* The end of a record: evaluate, then reset.
EndRecord ==
    /\ status = "running"
    /\ calls = <<>> /\ ~case.docs[k].cut
    /\ states' = resetState(states)
    /\ NextRecord(IF Eval(filter, states) THEN "match" ELSE "skip")

\* The record ends too early, anywhere: nothing is evaluated and nothing reset.
Eof ==
    /\ status = "running"
    /\ case.docs[k].cut
    /\ UNCHANGED states
    /\ NextRecord("cut")

Over == status \in {"done", "failed", "refused", "aborted"} /\ UNCHANGED vars

Next == Compile \/ SetFilter \/ Tell \/ EndRecord \/ Eof \/ Over

Spec == Init /\ [][Next]_vars

-----------------------------------------------------------------------------
(* What an expression means for a value.  A value is a record: is, and n of *)
(* a leaf, branch and value of a union, items of an array (a sequence),     *)
(* fields of a record (by position).                                        *)

\* Down a path, through unions and custom nodes; "null" if one is null.
RECURSIVE Locate(_, _, _)
Locate(s, v, path) ==
    CASE s.kind = "custom" -> Locate(s.of[1], v, path)
      [] s.kind = "union"  -> Locate(s.of[v.branch], v.value, path)
      [] s.kind = "null" \/ path = <<>> -> [s |-> s, v |-> v]
      [] OTHER ->
           LET i == CHOOSE i \in DOMAIN s.of : s.of[i].name = Head(path)
           IN  Locate(s.of[i], v.fields[i], Tail(path))

\* How an index puts together what holds for the elements.
Quantified(index, n, P(_)) ==
    CASE index.q = "all"  -> \A i \in 1..n : P(i)
      [] index.q = "any"  -> \E i \in 1..n : P(i)
      [] index.q = "none" -> \A i \in 1..n : ~P(i)
      [] index.q = "at"   -> index.n < n /\ P(index.n + 1)

\* What a comparison means for a value of a type, without regard to widths.
StringMatches(op, chars, c) ==
    CASE op = "EQ" -> chars = c
      [] op = "NE" -> chars # c
      [] op = "STARTS_WITH" -> IsPrefix(c, chars)
      [] op = "ENDS_WITH"   -> IsSuffix(c, chars)
      [] op = "CONTAINS"    ->
           \E i \in 1..(Len(chars) + 1) : IsPrefix(c, SubSeq(chars, i, Len(chars)))

Matches(s, op, n, c) ==
    CASE s.type \in {"string", "bytes"} -> StringMatches(op, Strings[n], c.chars)
      [] s.type = "boolean" -> Compare(op, n = 1, c.holds)
      [] s.type = "enum"    -> Compare(op, s.values[n + 1], c.chars)
      [] s.type \in {"float", "double"} -> Compare(op, n, c.halves)
      [] s.type \in {"int", "long"} -> Compare(op, 2 * n, c.halves)

RECURSIVE Meaning(_, _, _)
Meaning(e, s, v) ==
    CASE e.kind = "and" -> \A i \in DOMAIN e.of : Meaning(e.of[i], s, v)
      [] e.kind = "or"  -> \E i \in DOMAIN e.of : Meaning(e.of[i], s, v)
      [] e.kind = "not" -> ~Meaning(e.of[1], s, v)
      [] OTHER ->
           LET found == Locate(s, v, e.path)
               items == IF found.v.is = "array" THEN found.v.items ELSE <<>>
               Test(t, w) ==
                   IF e.kind = "record" THEN Meaning(e.of[1], t, w)
                   ELSE w.is = "leaf" /\ Matches(notCustom(t), e.op, w.n, e.constant)
               Element(i) == Test(found.s.of[1], items[i])
           IN  IF e.index.q = "plain"
               THEN CASE e.kind = "predicate" /\ IsNil(e) ->
                           (found.v.is = "null") = (e.op = "IS_NIL")
                      [] OTHER -> Test(found.s, found.v)
               ELSE Quantified(e.index, Len(items), Element)

-----------------------------------------------------------------------------
TypeOK ==
    /\ on \subseteq Nat \X DOMAIN states
    /\ \A id \in DOMAIN states :
          states[id].current \in BOOLEAN /\ states[id].pushed \in Seq(BOOLEAN)
    /\ verdicts \in Seq({"match", "skip", "cut"})
    /\ Len(verdicts) = IF status = "done" THEN k ELSE k - 1
    /\ status \in {"started", "compiled", "running", "done", "failed", "refused",
                   "aborted"}

\* The filter passes the records for which what its text says holds, whatever
\* came before: the text goes through a grammar that never comes back to a
\* choice, constants are converted to the type of the field, and one walk over
\* the record that tells predicates and record expressions in the order of the
\* schema is enough to evaluate a tree in another order, with elements of arrays
\* told one after the other (filter/compiler.cc:203-280, predicate/list.cc:248-274,
\* blockdecoder.cc:92-109, filter/state.cc, filter/detail/astrunner.h).
Verdict ==
    \A i \in DOMAIN verdicts :
        verdicts[i] # "cut" =>
            (verdicts[i] = "match") = Meaning(case.meant, case.schema, case.docs[i].value)

\* A text that means something is taken as a filter, and of one that does not
\* the user is told, by the compiler or by the decoder (main.cc:131-137,
\* fileemitor.cc:88-99): no record is judged by a part of a text.
Understood ==
    /\ status \in {"failed", "refused"} => case.meant = Nothing
    /\ status \in {"running", "done"} => case.meant # Nothing

\* What is wrong with a filter is reported and does not end the process
\* (main.cc:133-136; predicate.cc:39, 42, 65, 99, 115 assert that it cannot).
Reported == status # "aborted"
===============================================================================
