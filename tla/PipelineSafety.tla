---------------------------- MODULE PipelineSafety ----------------------------
(***************************************************************************)
(* What the pipeline may not do, for every number of workers, every input  *)
(* and every schedule.  The limit: no more records are answered than it    *)
(* allows.  The output: records come out whole, each with its separator,   *)
(* and those of one worker in the order of the input.  The end and the     *)
(* headers: who leaves has closed the queue, no block is left behind, a    *)
(* block is decoded with the schema of its file, and a failure shows in    *)
(* the exit status.                                                        *)
(***************************************************************************)
EXTENDS PipelineTypes

-----------------------------------------------------------------------------
(* The limit.  A record is printed or counted only by a worker that has    *)
(* taken a ticket (Limiter::documentFinished), so what was answered, what  *)
(* is about to be answered and the tickets left are the limit together.    *)

\* Workers between the ticket and the answer.
Dumping == {w \in Workers : wpc[w] = "dump"}

\* --count-only without a filter adds up whole blocks, and no worker looks at a
\* record.
BlockWise == run.count /\ ~run.filter

AtRecords == {"doc", "ticket", "dump", "separate"}

CountedType ==
    /\ ~BlockWise => counted \in Nat
    /\ BlockWise => \A w \in Workers : wpc[w] \notin AtRecords

IInv ==
    /\ run \in Runs
    /\ wpc \in [Workers -> WorkerPcs]
    /\ limit \in Int
    /\ CountedType
    /\ \E S : out \in Seq(S)
    /\ Answered + Cardinality(Dumping) + Max(limit, 0) = Bound

-----------------------------------------------------------------------------
(* Counting *)

LEMMA DumpingFinite ==
    /\ IsFiniteSet(Dumping)
    /\ Cardinality(Dumping) \in Nat
    /\ Dumping = {} => Cardinality(Dumping) = 0
<1>1. Dumping \subseteq Workers  BY DEF Dumping
<1>2. IsFiniteSet(Dumping)  BY <1>1, FS_Subset, WorkersAssumption
<1>. QED  BY <1>2, FS_CardinalityType, FS_EmptySet

LEMMA CardinalityChange ==
    ASSUME NEW A, NEW B, NEW x, IsFiniteSet(A)
    PROVE  /\ B = A \cup {x} /\ x \notin A => Cardinality(B) = Cardinality(A) + 1
           /\ B = A \ {x} /\ x \in A => Cardinality(B) = Cardinality(A) - 1
           /\ B \subseteq A => Cardinality(B) <= Cardinality(A)
           /\ Cardinality(A) \in Nat
           /\ B \subseteq A => Cardinality(B) \in Nat
BY FS_AddElement, FS_RemoveElement, FS_Subset, FS_CardinalityType

LEMMA IndicesFinite ==
    ASSUME NEW S, out \in Seq(S)
    PROVE  /\ IsFiniteSet(Indices("record"))
           /\ Cardinality(Indices("record")) \in Nat
<1>1. Len(out) \in Nat  BY LenProperties
<1>2. IsFiniteSet(1..Len(out))  BY <1>1, FS_Interval
<1>3. Indices("record") \subseteq 1..Len(out)  BY DEF Indices
<1>4. IsFiniteSet(Indices("record"))  BY <1>2, <1>3, FS_Subset
<1>. QED  BY <1>4, FS_CardinalityType

\* One more write to stdout: the records on it grow by one, or not at all.
LEMMA WriteEffect ==
    ASSUME NEW S, out \in Seq(S), NEW e, out' = Append(out, e)
    PROVE  /\ \E T : out' \in Seq(T)
           /\ e.what = "record" =>
                Cardinality(Indices("record"))' = Cardinality(Indices("record")) + 1
           /\ e.what # "record" =>
                Cardinality(Indices("record"))' = Cardinality(Indices("record"))
<1>. DEFINE T == S \cup {e}
            I == Indices("record")
<1>1. out \in Seq(T) /\ e \in T
  BY SeqMonotonic
<1>2. /\ out' \in Seq(T)
      /\ Len(out') = Len(out) + 1
      /\ Len(out) \in Nat
      /\ \A i \in 1..Len(out) : out'[i] = out[i]
      /\ out'[Len(out) + 1] = e
  BY <1>1, AppendProperties, LenProperties
<1>3. ASSUME e.what = "record"
      PROVE  I' = I \cup {Len(out) + 1} /\ Len(out) + 1 \notin I
  BY <1>2, <1>3 DEF Indices
<1>4. ASSUME e.what # "record"
      PROVE  I' = I
  BY <1>2, <1>4 DEF Indices
<1>5. IsFiniteSet(I)  BY IndicesFinite
<1>6. e.what = "record" => Cardinality(I)' = Cardinality(I) + 1
  BY <1>3, <1>5, CardinalityChange
<1>. QED  BY <1>2, <1>4, <1>6

LEMMA AnsweredType ==
    IInv => Answered \in Nat /\ Bound \in Nat /\ Max(limit, 0) \in Nat
BY IndicesFinite, NumbersAssumption, RunsAssumption
DEF IInv, Answered, Bound, Max, InitialLimit, CountedType, BlockWise

-----------------------------------------------------------------------------
(* The steps *)

\* A step that answers nothing, takes no ticket and leaves the workers at the answer
\* there.
LEMMA QuietStep ==
    ASSUME IInv, UNCHANGED <<run, limit>>, Answered' = Answered,
           CountedType', \E S : out' \in Seq(S),
           wpc' \in [Workers -> WorkerPcs], Dumping' = Dumping
    PROVE  IInv'
<1>1. Bound' = Bound /\ Max(limit, 0)' = Max(limit, 0)
  BY DEF Bound, Max, InitialLimit
<1>2. (Answered + Cardinality(Dumping) + Max(limit, 0) = Bound)'
  BY <1>1 DEF IInv
<1>. QED  BY <1>2 DEF IInv

LEMMA GotoEffect ==
    ASSUME wpc \in [Workers -> WorkerPcs], NEW w \in Workers,
           NEW p \in WorkerPcs, Goto(w, p)
    PROVE  /\ wpc' \in [Workers -> WorkerPcs]
           /\ p # "dump" => Dumping' = Dumping \ {w}
           /\ p = "dump" => Dumping' = Dumping \cup {w}
           /\ p # "dump" /\ wpc[w] # "dump" => Dumping' = Dumping
BY DEF Goto, Dumping

\* Who does not look at records does not come to one by a step like these.
LEMMA CountedKept ==
    ASSUME IInv, UNCHANGED <<run, counted>>,
           \/ UNCHANGED wpc
           \/ \E w \in Workers : \E p \in WorkerPcs :
                 Goto(w, p) /\ (p \notin AtRecords \/ wpc[w] \in AtRecords)
    PROVE  CountedType'
BY DEF IInv, CountedType, BlockWise, Goto

\* A step of a worker that stays, or goes anywhere but to the answer, and
\* leaves limiter, counter and screen alone.
LEMMA LocalStep ==
    ASSUME IInv, UNCHANGED <<run, limit, counted, out>>,
           \/ UNCHANGED wpc
           \/ \E w \in Workers : \E p \in WorkerPcs \ {"dump"} :
                 /\ Goto(w, p) /\ wpc[w] # "dump"
                 /\ p \notin AtRecords \/ wpc[w] \in AtRecords \/ ~BlockWise
    PROVE  IInv'
<1>1. wpc' \in [Workers -> WorkerPcs] /\ Dumping' = Dumping
  BY GotoEffect DEF IInv, Dumping
<1>2. Answered' = Answered  BY DEF Answered, Indices
<1>3. CountedType' /\ \E S : out' \in Seq(S)
  BY DEF IInv, CountedType, BlockWise, Goto
<1>. QED  BY <1>1, <1>2, <1>3, QuietStep

LEMMA TerminateStep == IInv /\ Terminate => IInv'
BY LocalStep DEF Terminate, input, workers, output

LEMMA EmitterStepLemma ==
    ASSUME IInv, EmitterStep \/ MainExit \/ ErrorRace \/ Spurious
    PROVE  IInv'
<1>1. Terminate \/ UNCHANGED <<run, limit, counted, out, wpc>>
  BY DEF EmitterStep, NoMoreFiles, BadFile, KeepHeader, NewHeader, NextFile,
         ReadBlock, PushTask, EmitterExit, EmitterFail, EmitterFailed,
         LeaveMainLoop, HeaderRead, EmitterLocal, MainExit, ErrorRace, Spurious,
         input, workers, output
<1>. QED  BY <1>1, TerminateStep, LocalStep

LEMMA NewDecoderStep ==
    ASSUME IInv, NEW w \in Workers, NewDecoder(w)
    PROVE  IInv'
<1>1. CASE Terminate
  BY <1>1, TerminateStep
<1>2. CASE ~Terminate
  <2>1. PICK S : out \in Seq(S)  BY DEF IInv
  <2>2. /\ UNCHANGED <<run, limit, counted>>
        /\ \E p \in {"decode", "fail"} : Goto(w, p)
        /\ wpc[w] = "setup"
        /\ out' = Append(out, Debug(w)) \/ out' = out
    BY <1>2 DEF NewDecoder, input
  <2>3. Debug(w).what # "record"  BY DEF Debug
  <2>4. CASE out' = Append(out, Debug(w))
    <3>1. Answered' = Answered /\ \E T : out' \in Seq(T)
      BY <2>1, <2>2, <2>3, <2>4, WriteEffect DEF Answered
    <3>2. wpc' \in [Workers -> WorkerPcs] /\ Dumping' = Dumping
      BY <2>2, GotoEffect DEF IInv, WorkerPcs
    <3>3. CountedType'
      BY <2>2, CountedKept DEF WorkerPcs, AtRecords
    <3>. QED  BY <2>2, <3>1, <3>2, <3>3, QuietStep
  <2>5. CASE out' = out
    BY <2>2, <2>5, LocalStep DEF WorkerPcs, AtRecords
  <2>. QED  BY <2>2, <2>4, <2>5
<1>. QED  BY <1>1, <1>2

\* --count-only without a filter does not answer record by record: its total
\* is not under the limit.
LEMMA DecodeStep ==
    ASSUME IInv, NEW w \in Workers, Decode(w)
    PROVE  IInv'
<1>1. CASE Terminate
  BY <1>1, TerminateStep
<1>2. CASE ~Terminate /\ UNCHANGED counted
  <2>1. /\ UNCHANGED <<run, limit, counted, out>> /\ wpc[w] = "decode"
        /\ \E p \in {"pop", "stop", "doc"} : Goto(w, p) /\ (p = "doc" => ~BlockWise)
    BY <1>2 DEF Decode, WorkerLocal, BlockWise, input, output
  <2>. QED  BY <2>1, LocalStep DEF WorkerPcs, AtRecords
<1>3. CASE ~Terminate /\ ~UNCHANGED counted
  <2>1. /\ run.count /\ ~run.filter
        /\ Goto(w, "pop")
        /\ counted' = counted + Len(TaskBlock(w).docs)
        /\ UNCHANGED <<run, limit, out>> /\ wpc[w] = "decode"
    BY <1>3 DEF Decode, WorkerLocal, input, output
  <2>2. Answered' = Answered  BY <2>1 DEF Answered, Indices
  <2>3. "pop" \in WorkerPcs  BY DEF WorkerPcs
  <2>4. wpc' \in [Workers -> WorkerPcs] /\ Dumping' = Dumping
    BY <2>1, <2>3, GotoEffect DEF IInv
  <2>5. CountedType' /\ \E S : out' \in Seq(S)
    BY <2>1 DEF IInv, CountedType, BlockWise, AtRecords, Goto
  <2>. QED  BY <2>1, <2>2, <2>4, <2>5, QuietStep
<1>. QED  BY <1>1, <1>2, <1>3

\* The ticket: one less in the limiter, one more worker on its way to answer.
LEMMA TicketStep ==
    ASSUME IInv, NEW w \in Workers, Ticket(w)
    PROVE  IInv'
<1>. DEFINE D == Cardinality(Dumping)
<1>1. /\ wpc[w] = "ticket" /\ limit' = limit - 1 /\ limit \in Int
      /\ UNCHANGED <<run, counted, out>>
      /\ Goto(w, IF limit <= 0 THEN "stop" ELSE "dump")
  BY DEF Ticket, IInv, input, output
<1>2. w \notin Dumping  BY <1>1 DEF Dumping
<1>3. Answered' = Answered /\ Bound' = Bound
  BY <1>1 DEF Answered, Indices, Bound, Max, InitialLimit
<1>4. Answered \in Nat /\ Bound \in Nat
        /\ Answered + D + Max(limit, 0) = Bound
  BY AnsweredType DEF IInv
<1>5. D \in Nat /\ IsFiniteSet(Dumping)  BY DumpingFinite
<1>6. {"stop", "dump"} \subseteq WorkerPcs  BY DEF WorkerPcs
<1>7. CASE limit <= 0
  <2>1. Goto(w, "stop")  BY <1>1, <1>7
  <2>2. wpc' \in [Workers -> WorkerPcs] /\ Dumping' = Dumping
    <3>1. wpc \in [Workers -> WorkerPcs] /\ "stop" \in WorkerPcs /\ wpc[w] # "dump"
      BY <1>1, <1>6 DEF IInv
    <3>. QED  BY <2>1, <3>1, GotoEffect
  <2>3. D' = D  BY <2>2
  <2>. HIDE DEF D
  <2>4. Max(limit, 0) = 0 /\ Max(limit', 0) = 0
    BY <1>1, <1>7 DEF Max
  <2>5. Answered' + D' + Max(limit', 0) = Bound'
    BY <1>3, <1>4, <1>5, <2>3, <2>4
  <2>6. CountedType'  BY <1>1, <1>6, <2>1, CountedKept DEF AtRecords
  <2>. QED  BY <1>1, <2>2, <2>5, <2>6 DEF IInv, D, Max
<1>8. CASE limit > 0
  <2>1. Goto(w, "dump")  BY <1>1, <1>8
  <2>2. wpc' \in [Workers -> WorkerPcs] /\ Dumping' = Dumping \cup {w}
    BY <1>6, <2>1, GotoEffect DEF IInv
  <2>3. D' = D + 1  BY <1>2, <1>5, <2>2, CardinalityChange
  <2>. HIDE DEF D
  <2>4. Max(limit, 0) = limit /\ Max(limit', 0) = limit - 1
    BY <1>1, <1>8 DEF Max
  <2>5. Answered' + D' + Max(limit', 0) = Bound'
    BY <1>1, <1>3, <1>4, <1>5, <2>3, <2>4
  <2>6. CountedType'  BY <1>1, <1>6, <2>1, CountedKept DEF AtRecords
  <2>. QED  BY <1>1, <2>2, <2>5, <2>6 DEF IInv, D, Max
<1>. QED  BY <1>1, <1>7, <1>8

\* The answer: one worker less on its way, at most one record more.
LEMMA AnswerStep ==
    ASSUME IInv, NEW w \in Workers, CountDoc(w) \/ WriteDoc(w)
    PROVE  IInv'
<1>. DEFINE D == Cardinality(Dumping)
<1>1. /\ wpc[w] = "dump"
      /\ UNCHANGED <<run, limit>> /\ ~BlockWise
      /\ \E p \in WorkerPcs \ {"dump"} : Goto(w, p)
  BY DEF CountDoc, WriteDoc, DocDone, WorkerPcs, input, IInv, CountedType, AtRecords
<1>2. w \in Dumping  BY <1>1 DEF Dumping
<1>3. wpc' \in [Workers -> WorkerPcs] /\ Dumping' = Dumping \ {w}
  BY <1>1, GotoEffect DEF IInv
<1>4. D' = D - 1 /\ D \in Nat /\ D' \in Nat
  BY <1>2, <1>3, DumpingFinite, CardinalityChange
<1>5. PICK S : out \in Seq(S)  BY DEF IInv
<1>6. Answered' = Answered + 1 /\ Answered' \in Nat /\ CountedType'
        /\ \E T : out' \in Seq(T)
  <2>1. CASE CountDoc(w)
    <3>1. counted' = counted + 1 /\ UNCHANGED out
      BY <2>1 DEF CountDoc, output
    <3>2. Indices("record")' = Indices("record")  BY <3>1 DEF Indices
    <3>3. Cardinality(Indices("record")) \in Nat
      BY <1>5, IndicesFinite
    <3>. QED
      BY <1>1, <1>5, <3>1, <3>2, <3>3 DEF Answered, CountedType, BlockWise, IInv
  <2>2. CASE WriteDoc(w)
    <3>1. out' = Append(out, Record(w, ThisDoc(w))) /\ UNCHANGED counted
      BY <2>2 DEF WriteDoc
    <3>2. Record(w, ThisDoc(w)).what = "record"  BY DEF Record
    <3>3. /\ \E T : out' \in Seq(T)
          /\ Cardinality(Indices("record"))' = Cardinality(Indices("record")) + 1
      BY <1>5, <3>1, <3>2, WriteEffect
    <3>4. Cardinality(Indices("record")) \in Nat
      BY <1>5, IndicesFinite
    <3>5. counted \in Nat  BY <1>1 DEF IInv, CountedType
    <3>6. CountedType'  BY <1>1, <3>1, <3>5 DEF CountedType, BlockWise
    <3>7. Answered' = Answered + 1 /\ Answered' \in Nat
      BY SMTT(30), <1>1, <3>1, <3>3, <3>4, <3>5 DEF Answered
    <3>. QED  BY <3>3, <3>6, <3>7
  <2>. QED  BY <2>1, <2>2
<1>7. Bound' = Bound /\ Max(limit, 0)' = Max(limit, 0)
  BY <1>1 DEF Bound, Max, InitialLimit
<1>8. Answered \in Nat /\ Bound \in Nat /\ Max(limit, 0) \in Nat
  BY AnsweredType
<1>9. Answered + D + Max(limit, 0) = Bound  BY DEF IInv
<1>. HIDE DEF D
<1>10. Answered' + D' + Max(limit, 0)' = Bound'
  BY <1>4, <1>6, <1>7, <1>8, <1>9
<1>. QED  BY <1>1, <1>3, <1>6, <1>10 DEF IInv, D

LEMMA SeparatorStep ==
    ASSUME IInv, NEW w \in Workers, WriteSeparator(w)
    PROVE  IInv'
<1>1. PICK S : out \in Seq(S)  BY DEF IInv
<1>2. /\ out' = Append(out, Separator(w))
      /\ Goto(w, "doc") /\ wpc[w] = "separate"
      /\ UNCHANGED <<run, limit, counted>>
  BY DEF WriteSeparator, DocDone, input
<1>3. Separator(w).what # "record"  BY DEF Separator
<1>4. Answered' = Answered /\ \E T : out' \in Seq(T)
  BY <1>1, <1>2, <1>3, WriteEffect DEF Answered
<1>5. "doc" \in WorkerPcs  BY DEF WorkerPcs
<1>6. wpc' \in [Workers -> WorkerPcs] /\ Dumping' = Dumping
  BY <1>2, <1>5, GotoEffect DEF IInv
<1>7. CountedType'  BY <1>2, <1>5, CountedKept DEF AtRecords
<1>. QED  BY <1>2, <1>4, <1>6, <1>7, QuietStep

-----------------------------------------------------------------------------
LEMMA IInvInit == Init => IInv
<1>. SUFFICES ASSUME Init PROVE IInv
  OBVIOUS
<1>1. out = <<>> /\ counted = 0 /\ limit = InitialLimit(run.limit) /\ run \in Runs
  BY DEF Init
<1>2. out \in Seq({}) /\ Len(out) = 0
  BY <1>1, EmptySeq
<1>3. Indices("record") = {}  BY <1>2 DEF Indices
<1>4. /\ wpc \in [Workers -> {"pop", "none"}]
      /\ Dumping = {}
  <2>1. PICK started : wpc = [w \in Workers |-> IF w \in started THEN "pop" ELSE "none"]
    BY DEF Init
  <2>. QED  BY <2>1 DEF Dumping
<1>5. Cardinality(Indices("record")) = 0 /\ Cardinality(Dumping) = 0
  BY <1>3, <1>4, FS_EmptySet
<1>6. Answered = 0  BY <1>1, <1>5 DEF Answered
<1>7. limit \in Int /\ Max(limit, 0) = Bound /\ Bound \in Nat
  BY <1>1, NumbersAssumption, RunsAssumption DEF InitialLimit, Bound, Max
<1>8. wpc \in [Workers -> WorkerPcs]  BY <1>4 DEF WorkerPcs
<1>9. Answered + Cardinality(Dumping) + Max(limit, 0) = Bound
  BY <1>5, <1>6, <1>7
<1>. QED
  BY <1>1, <1>2, <1>4, <1>7, <1>8, <1>9 DEF IInv, CountedType, AtRecords

LEMMA WorkerStepLemma ==
    ASSUME IInv, NEW w \in Workers, WorkerStep(w)
    PROVE  IInv'
<1>1. ASSUME PopTask(w) \/ KeepDecoder(w) \/ WorkerFail(w) \/ WorkerFailed(w)
               \/ Stop(w)
      PROVE  IInv'
  <2>1. /\ UNCHANGED <<run, limit, counted, out>> /\ wpc[w] # "dump"
        /\ \/ UNCHANGED wpc
           \/ \E p \in {"setup", "decode", "failing", "stop", "ended"} : Goto(w, p)
    BY <1>1
    DEF PopTask, KeepDecoder, WorkerFail, WorkerFailed, Stop, WorkerLocal, input, output
  <2>. QED  BY <2>1, LocalStep DEF WorkerPcs, AtRecords
<1>2. ASSUME NextDoc(w) PROVE IInv'
  <2>1. /\ UNCHANGED <<run, limit, counted, out>> /\ wpc[w] = "doc"
        /\ \E p \in {"pop", "stop", "ticket", "doc"} : Goto(w, p)
    BY <1>2 DEF NextDoc, WorkerLocal, input, output
  <2>. QED  BY <2>1, LocalStep DEF WorkerPcs, AtRecords
<1>. QED
  BY <1>1, <1>2, NewDecoderStep, DecodeStep, TicketStep, AnswerStep, SeparatorStep
  DEF WorkerStep

LEMMA IInvNext == IInv /\ [Next]_vars => IInv'
<1>. SUFFICES ASSUME IInv, [Next]_vars PROVE IInv'
  OBVIOUS
<1>1. CASE UNCHANGED vars
  BY <1>1, LocalStep DEF vars, input, output, workers
<1>2. CASE Step
  BY <1>2, EmitterStepLemma, WorkerStepLemma DEF Step
<1>. QED  BY <1>1, <1>2 DEF Next, Over

\* aq never answers more records than -n asks for: not with any number of
\* workers, on any input, sound or not, and whatever the schedule.
THEOREM Limit == Spec => []LimitRespected
<1>1. IInv => LimitRespected
  BY AnsweredType, DumpingFinite DEF IInv, LimitRespected
<1>. QED  BY <1>1, IInvInit, IInvNext, PTL DEF Spec

-----------------------------------------------------------------------------
(* The output *)

\* What the steps of a worker write, and where they take it.
LEMMA WorkerWrites ==
    ASSUME TypeInv, NEW w \in Workers, WorkerStep(w), ~PopTask(w), ~Terminate
    PROVE  \/ /\ UNCHANGED <<screen, out>>
              /\ wpc[w] # "separate"
              /\ \E p : Goto(w, p) /\ p # "separate"
           \/ /\ run.filter /\ run.nested
              /\ out' = Append(out, Debug(w)) /\ UNCHANGED <<screen, doc>>
              /\ wpc[w] = "setup"
              /\ \E p : Goto(w, p) /\ p \in {"decode", "fail"}
           \/ /\ wpc[w] = "dump" /\ Goto(w, "separate")
              /\ screen = None /\ screen' = w
              /\ out' = Append(out, Record(w, ThisDoc(w))) /\ UNCHANGED doc
           \/ /\ wpc[w] = "separate" /\ Goto(w, "doc")
              /\ screen' = None
              /\ out' = Append(out, Separator(w))
              /\ doc' = [doc EXCEPT ![w] = doc[w] + 1]
<1>1. CASE KeepDecoder(w) \/ WorkerFail(w) \/ WorkerFailed(w) \/ Stop(w)
  BY <1>1
  DEF KeepDecoder, WorkerFail, WorkerFailed, Stop, WorkerLocal, output
<1>2. CASE NewDecoder(w)
  BY <1>2 DEF NewDecoder
<1>3. CASE Decode(w) \/ Ticket(w) \/ CountDoc(w)
  BY <1>3 DEF Decode, Ticket, CountDoc, DocDone, WorkerLocal, output
<1>4. CASE WriteDoc(w) \/ WriteSeparator(w)
  BY <1>4 DEF WriteDoc, WriteSeparator, DocDone
<1>5. CASE NextDoc(w)
  <2>1. /\ wpc[w] = "doc" /\ UNCHANGED <<screen, out>>
        /\ \E p \in {"pop", "stop", "ticket", "doc"} : Goto(w, p)
    BY <1>5 DEF NextDoc, WorkerLocal, output
  <2>. QED  BY <2>1
<1>. QED  BY <1>1, <1>2, <1>3, <1>4, <1>5 DEF WorkerStep

\* The steps that write nothing and touch no worker that writes.
LEMMA NothingWritten ==
    ASSUME TypeInv,
           \/ EmitterStep \/ MainExit \/ ErrorRace \/ Spurious \/ Terminate
           \/ UNCHANGED vars \/ \E w \in Workers : PopTask(w)
    PROVE  /\ UNCHANGED <<screen, out, doc>>
           /\ \A w \in Workers : \/ wpc'[w] = wpc[w] /\ task'[w] = task[w]
                                 \/ /\ wpc[w] = "pop" /\ wpc'[w] = "ended"
                                    /\ task'[w] = task[w]
                                 \/ wpc[w] = "pop" /\ wpc'[w] = "setup"
<1>1. CASE EmitterStep \/ MainExit \/ ErrorRace \/ Spurious \/ Terminate \/ UNCHANGED vars
  BY <1>1
  DEF EmitterStep, NoMoreFiles, BadFile, KeepHeader, NewHeader, NextFile, ReadBlock,
      PushTask, EmitterExit, EmitterFail, EmitterFailed, LeaveMainLoop, EmitterLocal,
      MainExit, ErrorRace, Spurious, Terminate, vars, output, workers
<1>2. ASSUME NEW w \in Workers, PopTask(w)
      PROVE  /\ UNCHANGED <<screen, out, doc>>
             /\ \A v \in Workers : \/ wpc'[v] = wpc[v] /\ task'[v] = task[v]
                                   \/ /\ wpc[v] = "pop" /\ wpc'[v] = "ended"
                                      /\ task'[v] = task[v]
                                   \/ wpc[v] = "pop" /\ wpc'[v] = "setup"
  <2>1. UNCHANGED <<screen, out, doc>> /\ wpc[w] = "pop"
    BY <1>2, PopEffect DEF output
  <2>2. \/ UNCHANGED <<wpc, task>>
        \/ Goto(w, "ended") /\ UNCHANGED task
        \/ Goto(w, "setup") /\ task' = [task EXCEPT ![w] = Head(queue)]
    BY <1>2, PopEffect
  <2>. QED  BY <2>1, <2>2 DEF Goto, TypeInv, TypeOK
<1>. QED  BY <1>1, <1>2

-----------------------------------------------------------------------------
(* Whole records *)

\* The worker between a record and its separator, and it alone, holds the screen.
ScreenHeld == \A w \in Workers : wpc[w] = "separate" <=> screen = w

LastIsRecord == screen # None => out # <<>> /\ out[Len(out)].what = "record"

WholeInv == ScreenHeld /\ (~(run.filter /\ run.nested) => LastIsRecord /\ OneRecordPerLine)

LEMMA WholeInit == Init => WholeInv
<1>. SUFFICES ASSUME Init PROVE WholeInv
  OBVIOUS
<1>1. Len(out) = 0 /\ screen = None  BY EmptySeq DEF Init
<1>2. wpc \in [Workers -> {"pop", "none"}]  BY DEF Init
<1>. QED
  BY <1>1, <1>2, NoneAssumption DEF WholeInv, ScreenHeld, LastIsRecord, OneRecordPerLine

\* One more write.
LEMMA WriteKeeps ==
    ASSUME TypeInv, NEW e, e \in Writes, out' = Append(out, e)
    PROVE  /\ Len(out) \in Nat /\ Len(out') = Len(out) + 1
           /\ DOMAIN out = 1..Len(out) /\ out' # <<>>
           /\ \A i \in 1..Len(out) : out'[i] = out[i]
           /\ out'[Len(out) + 1] = e
<1>1. out \in Seq(Writes)  BY DEF TypeInv, TypeOK, Writes
<1>. QED  BY <1>1, AppendProperties, LenProperties, EmptySeq

LEMMA WholeNext ==
    ASSUME TypeInv, WholeInv, [Next]_vars
    PROVE  WholeInv'
<1>. DEFINE Plain == ~(run.filter /\ run.nested)
<1>1. UNCHANGED run  BY InputKept
<1>2. wpc \in [Workers -> WorkerPcs] /\ screen \in Workers \cup {None}
  BY DEF TypeInv, TypeOK
<1>3. ASSUME EmitterStep \/ MainExit \/ ErrorRace \/ Spurious \/ Terminate
               \/ UNCHANGED vars \/ \E w \in Workers : PopTask(w)
      PROVE  WholeInv'
  <2>1. UNCHANGED <<screen, out>>
          /\ \A w \in Workers : wpc'[w] = "separate" <=> wpc[w] = "separate"
    BY <1>3, NothingWritten
  <2>. QED
    BY <1>1, <2>1 DEF WholeInv, ScreenHeld, LastIsRecord, OneRecordPerLine
<1>4. ASSUME NEW w \in Workers, WorkerStep(w), ~PopTask(w), ~Terminate
      PROVE  WholeInv'
  <2>1. CASE /\ UNCHANGED <<screen, out>>
             /\ wpc[w] # "separate"
             /\ \E p : Goto(w, p) /\ p # "separate"
    <3>1. ScreenHeld'
      BY <1>2, <2>1 DEF WholeInv, ScreenHeld, Goto
    <3>. QED  BY <1>1, <2>1, <3>1 DEF WholeInv, LastIsRecord, OneRecordPerLine
  <2>2. CASE /\ run.filter /\ run.nested
             /\ UNCHANGED screen /\ wpc[w] = "setup"
             /\ \E p : Goto(w, p) /\ p \in {"decode", "fail"}
    BY <1>1, <1>2, <2>2 DEF WholeInv, ScreenHeld, Goto
  <2>3. CASE /\ wpc[w] = "dump" /\ Goto(w, "separate")
             /\ screen = None /\ screen' = w
             /\ out' = Append(out, Record(w, ThisDoc(w)))
    <3>1. ScreenHeld'
      BY <1>2, <2>3, NoneAssumption DEF WholeInv, ScreenHeld, Goto
    <3>2. Record(w, ThisDoc(w)) \in Writes /\ Record(w, ThisDoc(w)).what = "record"
      BY <2>3, WorkerTask DEF Record, Writes
    <3>3. ASSUME Plain PROVE LastIsRecord' /\ OneRecordPerLine'
      <4>1. LastIsRecord'
        BY <2>3, <3>2, WriteKeeps DEF LastIsRecord
      <4>2. w # None  BY NoneAssumption
      <4>3. OneRecordPerLine  BY <3>3 DEF WholeInv
      <4>4. OneRecordPerLine'
        BY <2>3, <3>2, <4>2, <4>3, WriteKeeps DEF OneRecordPerLine
      <4>. QED  BY <4>1, <4>4
    <3>. QED  BY <1>1, <3>1, <3>3 DEF WholeInv
  <2>4. CASE /\ wpc[w] = "separate" /\ Goto(w, "doc")
             /\ screen' = None
             /\ out' = Append(out, Separator(w))
    <3>1. screen = w  BY <2>4 DEF WholeInv, ScreenHeld
    <3>2. ScreenHeld'
      BY <1>2, <2>4, <3>1, NoneAssumption DEF WholeInv, ScreenHeld, Goto
    <3>3. Separator(w) \in Writes /\ Separator(w).what = "separator"
      BY DEF Separator, Writes
    <3>4. ASSUME Plain PROVE LastIsRecord' /\ OneRecordPerLine'
      <4>1. LastIsRecord'  BY <2>4 DEF LastIsRecord
      <4>2. OneRecordPerLine /\ out # <<>> /\ out[Len(out)].what = "record"
        BY <3>1, <3>4, NoneAssumption DEF WholeInv, LastIsRecord
      <4>3. Len(out) # 0
        BY <4>2, EmptySeq, SeqEqual DEF TypeInv, TypeOK
      <4>4. OneRecordPerLine'
        BY <2>4, <3>3, <4>2, <4>3, WriteKeeps DEF OneRecordPerLine
      <4>. QED  BY <4>1, <4>4
    <3>. QED  BY <1>1, <3>2, <3>4 DEF WholeInv
  <2>. QED  BY <1>4, <2>1, <2>2, <2>3, <2>4, WorkerWrites
<1>. QED  BY <1>3, <1>4 DEF Next, Step, Over

\* However many workers print, records come out whole: each with its separator
\* right behind it (unless a filter has a record expression in it).
THEOREM WholeRecordsAlways == Spec => []WholeRecords
<1>1. WholeInv => WholeRecords  BY DEF WholeInv, WholeRecords
<1>2. Spec => [](TypeInv /\ WholeInv)
  BY TypeInit, TypeNext, WholeInit, WholeNext, PTL DEF Spec
<1>. QED  BY <1>1, <1>2, PTL

-----------------------------------------------------------------------------
(* The order *)

\* Of tasks, or records, by file and block.
Earlier(s, t)   == s.file < t.file \/ (s.file = t.file /\ s.block < t.block)
SamePlace(s, t) == s.file = t.file /\ s.block = t.block

\* The emitter is past it.
Emitted(t) ==
    \/ t.file < file
    \/ epc # "file" /\ t.file = file /\ t.block < block

\* The blocks leave the emitter in order, and no two workers have the same one.
BlocksOrdered ==
    /\ \A i \in 1..Len(queue) : Emitted(queue[i])
    /\ \A i, j \in 1..Len(queue) : i < j => Earlier(queue[i], queue[j])
    /\ \A w \in Workers : task[w] # None =>
          /\ Emitted(task[w])
          /\ \A i \in 1..Len(queue) : Earlier(task[w], queue[i])
    /\ \A v, w \in Workers :
          v # w /\ task[v] # None /\ task[w] # None => ~SamePlace(task[v], task[w])

\* The worker is past the record.
DoneBy(w, d) ==
    \/ Earlier(d, task[w])
    \/ /\ SamePlace(d, task[w])
       /\ wpc[w] \notin {"setup", "decode"}
       /\ d.doc < doc[w] \/ (d.doc = doc[w] /\ wpc[w] = "separate")

\* A record that was written is behind the worker that wrote it, not in a block
\* somebody else has, and not in one that somebody will have.
Written(d, w) ==
    /\ d \in Doc
    /\ task[w] # None /\ DoneBy(w, d)
    /\ Emitted(d)
    /\ \A j \in 1..Len(queue) : Earlier(d, queue[j])
    /\ \A v \in Workers : v # w /\ task[v] # None => ~SamePlace(d, task[v])

WrittenDone == \A i \in Indices("record") : Written(out[i].of, out[i].by)

OrderInv == BlocksOrdered /\ WrittenDone /\ InOrder

LEMMA OrderInit == Init => OrderInv
<1>. SUFFICES ASSUME Init PROVE OrderInv
  OBVIOUS
<1>1. Len(queue) = 0 /\ Indices("record") = {}
  BY EmptySeq DEF Init, Q!Init, Indices
<1>. QED  BY <1>1 DEF Init, OrderInv, BlocksOrdered, WrittenDone, InOrder

\* What the emitter is past it does not come back to.
LEMMA EmittedKept ==
    ASSUME TypeInv, [Next]_vars, NEW t, t.file \in Nat, t.block \in Nat, Emitted(t)
    PROVE  Emitted(t)'
<1>1. file \in Nat /\ block \in Nat  BY DEF TypeInv, TypeOK
<1>2. CASE EmitterStep /\ PushTask
  <2>1. /\ UNCHANGED file /\ epc = "push"
        /\ \/ epc' \in {epc, "exit"} /\ UNCHANGED block
           \/ epc' = "block" /\ block' = block + 1
    BY <1>2, PushEffect
  <2>. QED  BY <1>1, <2>1 DEF Emitted
<1>3. CASE EmitterStep /\ ~PushTask
  <2>1. \/ epc = "file" /\ UNCHANGED file
        \/ epc # "file" /\ epc' # "file" /\ UNCHANGED <<file, block>>
        \/ file' = file + 1
        \/ UNCHANGED <<epc, file, block>>
    BY <1>3
    DEF EmitterStep, NoMoreFiles, BadFile, KeepHeader, NewHeader, NextFile, ReadBlock,
        EmitterExit, EmitterFail, EmitterFailed, LeaveMainLoop, HeaderRead, Terminate,
        emitter
  <2>. QED  BY <1>1, <2>1 DEF Emitted
<1>4. CASE UNCHANGED <<epc, file, block>>
  BY <1>4 DEF Emitted
<1>5. ASSUME NEW w \in Workers, WorkerStep(w) PROVE UNCHANGED <<epc, file, block>>
  BY <1>5, WorkerLeavesEmitter DEF emitter
<1>6. ASSUME MainExit \/ ErrorRace \/ Spurious \/ UNCHANGED vars
      PROVE  UNCHANGED <<epc, file, block>>
  BY <1>6 DEF MainExit, ErrorRace, Spurious, Terminate, vars, emitter
<1>. QED  BY <1>2, <1>3, <1>4, <1>5, <1>6 DEF Next, Step, Over

\* The places of the queue, and of the tasks, are numbers.
LEMMA PlaceType ==
    ASSUME TypeInv
    PROVE  /\ \A i \in 1..Len(queue) : queue[i].file \in Nat /\ queue[i].block \in Nat
           /\ \A w \in Workers : task[w] # None =>
                 task[w].file \in Nat /\ task[w].block \in Nat
           /\ file \in Nat /\ block \in Nat
<1>1. queue \in Seq(Task)  BY DEF TypeInv, TypeOK, Q!TypeOK
<1>2. \A i \in 1..Len(queue) : queue[i] \in Task  BY <1>1, ElementOfSeq
<1>. QED  BY <1>2 DEF Task, TypeInv, TypeOK

\* A record is by a worker, of a record of the input if it is one.
LEMMA RecordType ==
    ASSUME TypeInv, NEW i \in Indices("record")
    PROVE  i \in 1..Len(out) /\ out[i] \in Writes /\ out[i].by \in Workers
<1>1. i \in 1..Len(out) /\ out \in Seq(Writes)
  BY DEF Indices, TypeInv, TypeOK, Writes
<1>2. out[i] \in Writes  BY <1>1, ElementOfSeq
<1>. QED  BY <1>1, <1>2 DEF Writes

\* A worker does not go back in its block.
Onward(w) ==
    \/ wpc'[w] = wpc[w] /\ doc'[w] = doc[w]
    \/ wpc[w] \in {"setup", "decode"}
    \/ /\ wpc'[w] \notin {"setup", "decode"}
       /\ doc'[w] > doc[w] \/ (doc'[w] = doc[w] /\ wpc[w] # "separate")

LEMMA BlocksKept ==
    ASSUME TypeInv, BlocksOrdered, [Next]_vars, UNCHANGED <<queue, task>>
    PROVE  BlocksOrdered'
<1>1. (\A i \in 1..Len(queue) : Emitted(queue[i]))'
  BY EmittedKept, PlaceType DEF BlocksOrdered
<1>2. \A w \in Workers : task'[w] # None => Emitted(task[w])'
  BY EmittedKept, PlaceType DEF BlocksOrdered
<1>. QED  BY <1>1, <1>2 DEF BlocksOrdered, Earlier, SamePlace

LEMMA WrittenKept ==
    ASSUME TypeInv, [Next]_vars, UNCHANGED <<queue, task>>,
           \A w \in Workers : Onward(w)
    PROVE  \A d : \A w \in Workers : Written(d, w) => Written(d, w)'
<1>. SUFFICES ASSUME NEW d, NEW w \in Workers, Written(d, w) PROVE Written(d, w)'
  OBVIOUS
<1>1. d \in Doc /\ DoneBy(w, d) /\ Emitted(d)  BY DEF Written
<1>2. Emitted(d)'  BY <1>1, EmittedKept DEF Doc
<1>3. doc[w] \in Nat /\ d.doc \in Nat  BY <1>1 DEF TypeInv, TypeOK, Doc
<1>4. CASE wpc[w] \in {"setup", "decode"}
  BY <1>1, <1>2, <1>4 DEF Written, DoneBy, Earlier, SamePlace
<1>5. CASE wpc'[w] = wpc[w] /\ doc'[w] = doc[w]
  BY <1>1, <1>2, <1>5 DEF Written, DoneBy, Earlier, SamePlace
<1>6. CASE /\ wpc'[w] \notin {"setup", "decode"} /\ wpc[w] \notin {"setup", "decode"}
           /\ doc'[w] > doc[w] \/ (doc'[w] = doc[w] /\ wpc[w] # "separate")
  <2>1. doc'[w] \in Nat  BY TypeNext DEF TypeInv, TypeOK
  <2>2. DoneBy(w, d)'
    BY <1>1, <1>3, <1>6, <2>1 DEF DoneBy, Earlier, SamePlace
  <2>. QED  BY <1>1, <1>2, <2>2 DEF Written, Earlier, SamePlace
<1>. QED  BY <1>4, <1>5, <1>6 DEF Onward

\* A step that prints no record and takes no worker back.
LEMMA OrderKept ==
    ASSUME TypeInv, OrderInv, [Next]_vars, UNCHANGED <<queue, task>>,
           Indices("record")' = Indices("record"),
           \A i \in Indices("record") : out'[i] = out[i],
           \A w \in Workers : Onward(w)
    PROVE  OrderInv'
<1>1. BlocksOrdered'  BY BlocksKept DEF OrderInv
<1>2. \A d : \A w \in Workers : Written(d, w) => Written(d, w)'
  BY WrittenKept
<1>3. \A i \in Indices("record") : out[i].by \in Workers  BY RecordType
<1>4. WrittenDone'  BY <1>2, <1>3 DEF OrderInv, WrittenDone, Written
<1>5. InOrder'  BY DEF OrderInv, InOrder, Before
<1>. QED  BY <1>1, <1>4, <1>5 DEF OrderInv

\* push: the block the emitter is at comes behind everything it is past.
LEMMA OrderPush ==
    ASSUME TypeInv, OrderInv, [Next]_vars, PushTask, EmitterStep
    PROVE  OrderInv'
<1>1. /\ UNCHANGED <<wpc, task, doc, out, file>> /\ epc = "push"
  BY PushEffect DEF workers, output
<1>2. CASE UNCHANGED queue
  BY <1>1, <1>2, OrderKept DEF Indices, Onward
<1>3. CASE /\ queue' = Append(queue, NewTask)
           /\ epc' = "block" /\ block' = block + 1
  <2>1. queue \in Seq(Task) /\ NewTask \in Task /\ Len(queue) \in Nat
    BY InputType DEF TypeInv, TypeOK, NewTask, Task
  <2>2. /\ Len(queue') = Len(queue) + 1
        /\ \A i \in 1..Len(queue) : queue'[i] = queue[i]
        /\ queue'[Len(queue) + 1] = NewTask
    BY <1>3, <2>1, AppendProperties
  <2>3. NewTask.file = file /\ NewTask.block = block  BY DEF NewTask
  <2>4. \A t : Emitted(t) => Earlier(t, NewTask)
    BY <1>1, <2>3 DEF Emitted, Earlier
  <2>5. /\ \A t : t.file \in Nat /\ t.block \in Nat /\ Emitted(t) => Emitted(t)'
        /\ \A t : t.file = file /\ t.block = block => Emitted(t)'
    BY <1>1, <1>3, EmittedKept, PlaceType DEF Emitted
  <2>6. BlocksOrdered'
    <3>1. (\A i \in 1..Len(queue) : Emitted(queue[i]))'
      BY <2>1, <2>2, <2>3, <2>5, PlaceType DEF OrderInv, BlocksOrdered
    <3>2. (\A i, j \in 1..Len(queue) : i < j => Earlier(queue[i], queue[j]))'
      BY <2>1, <2>2, <2>4 DEF OrderInv, BlocksOrdered, Earlier
    <3>3. (\A w \in Workers : task[w] # None => Emitted(task[w]))'
      BY <1>1, EmittedKept, PlaceType DEF OrderInv, BlocksOrdered
    <3>4. (\A w \in Workers : task[w] # None =>
             \A i \in 1..Len(queue) : Earlier(task[w], queue[i]))'
      BY <1>1, <2>1, <2>2, <2>4 DEF OrderInv, BlocksOrdered, Earlier
    <3>5. (\A v, w \in Workers :
             v # w /\ task[v] # None /\ task[w] # None => ~SamePlace(task[v], task[w]))'
      BY <1>1 DEF OrderInv, BlocksOrdered, SamePlace
    <3>. QED  BY <3>1, <3>2, <3>3, <3>4, <3>5 DEF BlocksOrdered
  <2>7. Indices("record")' = Indices("record")  BY <1>1 DEF Indices
  <2>8. ASSUME NEW i \in Indices("record")
        PROVE  Emitted(out[i].of)' /\ Earlier(out[i].of, NewTask)
    <3>1. out[i].of \in Doc /\ Emitted(out[i].of)  BY DEF OrderInv, WrittenDone, Written
    <3>. QED  BY <1>1, <2>4, <2>5, <3>1 DEF Doc
  <2>9. WrittenDone'
    <3>1. ASSUME NEW i \in Indices("record"), NEW j \in 1..Len(queue')
          PROVE  Earlier(out[i].of, queue'[j])
      BY <2>1, <2>2, <2>8 DEF OrderInv, WrittenDone, Written
    <3>. QED
      BY <1>1, <2>7, <2>8, <3>1
      DEF OrderInv, WrittenDone, Written, DoneBy, Earlier, SamePlace
  <2>10. InOrder'  BY <1>1, <2>7 DEF OrderInv, InOrder, Before
  <2>. QED  BY <2>6, <2>9, <2>10 DEF OrderInv
<1>. QED  BY <1>2, <1>3, PushEffect

\* pop: the front of the queue is behind everything its new worker has done.
LEMMA OrderPop ==
    ASSUME TypeInv, OrderInv, [Next]_vars, NEW w \in Workers, PopTask(w)
    PROVE  OrderInv'
<1>1. UNCHANGED <<doc, out, epc, file, block>> /\ wpc[w] = "pop"
        /\ wpc \in [Workers -> WorkerPcs] /\ task \in [Workers -> Task \cup {None}]
  BY PopEffect DEF output, emitter, TypeInv, TypeOK
<1>2. CASE UNCHANGED <<wpc, task, queue>>
  BY <1>1, <1>2, OrderKept DEF Indices, Onward
<1>3. CASE Goto(w, "ended") /\ UNCHANGED <<task, queue>>
  BY <1>1, <1>3, OrderKept DEF Goto, Indices, Onward
<1>4. CASE /\ queue # <<>> /\ Goto(w, "setup")
           /\ task' = [task EXCEPT ![w] = Head(queue)]
           /\ queue' = Tail(queue)
  <2>1. /\ Head(queue) = queue[1] /\ 1 \in 1..Len(queue) /\ Len(queue) \in Nat
        /\ \A i \in 1..Len(queue') : /\ queue'[i] = queue[i + 1]
                                     /\ i + 1 \in 1..Len(queue) /\ i \in Nat
    BY <1>4, InputType, HeadTailProperties, LenProperties, EmptySeq DEF TypeInv
  <2>2. task' = [task EXCEPT ![w] = queue[1]]  BY <1>4, <2>1
  <2>3. /\ wpc' = [wpc EXCEPT ![w] = "setup"] /\ queue[1].file \in Nat
        /\ queue[1].block \in Nat
    BY <1>4, <2>1, PlaceType DEF Goto
  <2>4. \A t : Emitted(t) <=> Emitted(t)'  BY <1>1 DEF Emitted
  <2>5. BlocksOrdered'
    <3>1. (\A i \in 1..Len(queue) : Emitted(queue[i]))'
      BY <2>1, <2>4 DEF OrderInv, BlocksOrdered
    <3>2. (\A i, j \in 1..Len(queue) : i < j => Earlier(queue[i], queue[j]))'
      <4>1. \A i, j \in 1..Len(queue) : i < j => Earlier(queue[i], queue[j])
        BY DEF OrderInv, BlocksOrdered
      <4>2. ASSUME NEW i \in 1..Len(queue'), NEW j \in 1..Len(queue'), i < j
            PROVE  Earlier(queue'[i], queue'[j])
        <5>1. /\ i + 1 \in 1..Len(queue) /\ j + 1 \in 1..Len(queue) /\ i + 1 < j + 1
              /\ queue'[i] = queue[i + 1] /\ queue'[j] = queue[j + 1]
          BY <2>1, <4>2
        <5>. QED  BY <4>1, <5>1
      <4>. QED  BY <4>2 DEF Earlier
    <3>3. (\A v \in Workers : task[v] # None => Emitted(task[v]))'
      BY <1>1, <2>1, <2>2, <2>4 DEF OrderInv, BlocksOrdered
    <3>4. (\A v \in Workers : task[v] # None =>
             \A i \in 1..Len(queue) : Earlier(task[v], queue[i]))'
      <4>1. \A i \in 1..Len(queue') : Earlier(queue[1], queue'[i])
        BY <2>1 DEF OrderInv, BlocksOrdered
      <4>2. \A v \in Workers \ {w} : task'[v] = task[v]
        BY <1>1, <2>2
      <4>3. \A v \in Workers : task[v] # None =>
               \A i \in 1..Len(queue') : Earlier(task[v], queue'[i])
        BY <2>1 DEF OrderInv, BlocksOrdered
      <4>4. task'[w] = queue[1]  BY <1>1, <2>2
      <4>. QED  BY <4>1, <4>2, <4>3, <4>4 DEF Earlier
    <3>5. \A v \in Workers : task[v] # None => ~SamePlace(task[v], queue[1])
                                                /\ ~SamePlace(queue[1], task[v])
      BY <2>1, PlaceType DEF OrderInv, BlocksOrdered, Earlier, SamePlace
    <3>6. (\A u, v \in Workers :
             u # v /\ task[u] # None /\ task[v] # None => ~SamePlace(task[u], task[v]))'
      BY <1>1, <2>2, <3>5 DEF OrderInv, BlocksOrdered, SamePlace
    <3>. QED  BY <3>1, <3>2, <3>3, <3>4, <3>6 DEF BlocksOrdered
  <2>6. Indices("record")' = Indices("record")  BY <1>1 DEF Indices
  <2>7. ASSUME NEW i \in Indices("record")
        PROVE  /\ out[i].of \in Doc /\ Emitted(out[i].of)'
               /\ Earlier(out[i].of, queue[1])
               /\ ~SamePlace(out[i].of, queue[1])
               /\ out[i].by \in Workers
               /\ task'[out[i].by] # None /\ DoneBy(out[i].by, out[i].of)'
    <3>1. /\ out[i].of \in Doc /\ Emitted(out[i].of)
          /\ task[out[i].by] # None /\ DoneBy(out[i].by, out[i].of)
          /\ Earlier(out[i].of, queue[1])
      BY <2>1 DEF OrderInv, WrittenDone, Written
    <3>2. out[i].by \in Workers  BY RecordType
    <3>3. ~SamePlace(out[i].of, queue[1])
      BY <2>3, <3>1 DEF Earlier, SamePlace, Doc
    <3>4. queue[1] # None
      BY <2>1, NoneAssumption, InputType, ElementOfSeq DEF TypeInv
    <3>5. task'[out[i].by] # None /\ DoneBy(out[i].by, out[i].of)'
      BY <1>1, <2>2, <2>3, <3>1, <3>2, <3>4 DEF DoneBy, Earlier, SamePlace
    <3>. QED  BY <1>1, <2>4, <3>1, <3>2, <3>3, <3>5
  <2>8. WrittenDone'
    <3>1. ASSUME NEW i \in Indices("record"), NEW j \in 1..Len(queue')
          PROVE  Earlier(out[i].of, queue'[j])
      BY <2>1 DEF OrderInv, WrittenDone, Written
    <3>2. ASSUME NEW i \in Indices("record"), NEW v \in Workers, v # out[i].by,
                 task'[v] # None
          PROVE  ~SamePlace(out[i].of, task'[v])
      BY <1>1, <2>2, <2>7, <3>2 DEF OrderInv, WrittenDone, Written
    <3>. QED
      BY <1>1, <2>6, <2>7, <3>1, <3>2 DEF WrittenDone, Written, Earlier, SamePlace
  <2>9. InOrder'  BY <1>1, <2>6 DEF OrderInv, InOrder, Before
  <2>. QED  BY <2>5, <2>8, <2>9 DEF OrderInv
<1>. QED  BY <1>2, <1>3, <1>4, PopEffect

\* A worker writes the record it is at, and then goes on to the next.
LEMMA WorkerOnward ==
    ASSUME TypeInv, NEW w \in Workers, WorkerStep(w), ~PopTask(w), ~Terminate
    PROVE  \A v \in Workers : Onward(v)
<1>1. /\ wpc \in [Workers -> WorkerPcs] /\ doc \in [Workers -> Nat]
      /\ wpc[w] \notin {"none", "pop", "ended"}
  BY WorkerMoves DEF TypeInv, TypeOK
<1>2. CASE KeepDecoder(w) \/ NewDecoder(w) \/ Decode(w)
  BY <1>1, <1>2 DEF KeepDecoder, NewDecoder, Decode, Goto, Onward, WorkerLocal
<1>3. CASE WorkerFail(w) \/ WorkerFailed(w) \/ Stop(w) \/ Ticket(w)
  BY <1>1, <1>3 DEF WorkerFail, WorkerFailed, Stop, Ticket, Goto, Onward
<1>4. CASE CountDoc(w) \/ WriteDoc(w) \/ WriteSeparator(w)
  BY <1>1, <1>4 DEF CountDoc, WriteDoc, WriteSeparator, DocDone, Goto, Onward
<1>5. CASE NextDoc(w)
  <2>1. /\ wpc[w] = "doc"
        /\ doc' = doc \/ doc' = [doc EXCEPT ![w] = doc[w] + 1]
        /\ \E p \in {"pop", "stop", "ticket", "doc"} : Goto(w, p)
    BY <1>5 DEF NextDoc
  <2>. QED  BY <1>1, <2>1 DEF Goto, Onward
<1>. QED  BY <1>2, <1>3, <1>4, <1>5 DEF WorkerStep

\* A worker prints a record: it is behind those it has printed.
LEMMA OrderWrite ==
    ASSUME TypeInv, OrderInv, [Next]_vars, NEW w \in Workers, WorkerStep(w),
           ~PopTask(w), ~Terminate,
           wpc[w] = "dump", Goto(w, "separate"), UNCHANGED doc,
           out' = Append(out, Record(w, ThisDoc(w)))
    PROVE  OrderInv'
<1>. PICK d : d = ThisDoc(w)
  OBVIOUS
<1>. PICK n : n = Len(out) + 1
  OBVIOUS
<1>1. UNCHANGED <<queue, task>>  BY WorkerMoves
<1>2. d \in Doc /\ task[w] \in Task /\ task[w] # None  BY WorkerTask, NoneAssumption
<1>3. /\ Len(out) \in Nat /\ Len(out') = n
      /\ \A i \in 1..Len(out) : out'[i] = out[i]
      /\ out'[n] = Record(w, d)
  <2>1. Record(w, d) \in Writes  BY <1>2 DEF Record, Writes
  <2>. QED  BY <2>1, WriteKeeps
<1>4. d.file = task[w].file /\ d.block = task[w].block /\ d.doc = doc[w]
  BY DEF ThisDoc
<1>5. wpc'[w] = "separate"  BY DEF Goto, TypeInv, TypeOK
<1>6. out'[n].what = "record" /\ out'[n].of = d /\ out'[n].by = w
  BY <1>3 DEF Record
<1>7. Indices("record")' = Indices("record") \cup {n}
  BY <1>3, <1>6 DEF Indices
<1>8. \A c : \A v \in Workers : Written(c, v) => Written(c, v)'
  BY <1>1, WorkerOnward, WrittenKept
<1>9. Written(d, w)'
  <2>1. Emitted(task[w])  BY <1>2 DEF OrderInv, BlocksOrdered
  <2>2. Emitted(d)  BY <1>4, <2>1 DEF Emitted
  <2>3. Emitted(d)'  BY <1>2, <2>2, EmittedKept DEF Doc
  <2>4. \A j \in 1..Len(queue) : Earlier(d, queue[j])
    BY <1>2, <1>4 DEF OrderInv, BlocksOrdered, Earlier
  <2>5. \A v \in Workers : v # w /\ task[v] # None => ~SamePlace(d, task[v])
    BY <1>2, <1>4 DEF OrderInv, BlocksOrdered, SamePlace
  <2>6. DoneBy(w, d)'
    BY <1>1, <1>4, <1>5 DEF DoneBy, SamePlace
  <2>. QED  BY <1>1, <1>2, <2>3, <2>4, <2>5, <2>6 DEF Written, Earlier, SamePlace
<1>10. \A i \in Indices("record") :
          i \in 1..Len(out) /\ out[i].by \in Workers /\ Written(out[i].of, out[i].by)
  BY RecordType DEF OrderInv, WrittenDone
<1>11. WrittenDone'
  BY <1>3, <1>6, <1>7, <1>8, <1>9, <1>10 DEF WrittenDone
<1>12. ASSUME NEW i \in Indices("record"), out[i].by = w
       PROVE  Before(out[i].of, d)
  <2>1. DoneBy(w, out[i].of)  BY <1>10, <1>12 DEF Written
  <2>. QED  BY <1>4, <2>1 DEF DoneBy, Earlier, SamePlace, Before
<1>13. InOrder'
  <2>1. ASSUME NEW i \in Indices("record")', NEW j \in Indices("record")',
               i < j, out'[i].by = out'[j].by
        PROVE  Before(out'[i].of, out'[j].of)
    <3>1. i \in Indices("record")  BY <1>3, <1>7, <1>10, <2>1
    <3>2. CASE j \in Indices("record")
      BY <1>3, <1>10, <2>1, <3>1, <3>2 DEF OrderInv, InOrder
    <3>3. CASE j = n
      BY <1>3, <1>6, <1>10, <1>12, <2>1, <3>1, <3>3
    <3>. QED  BY <1>7, <3>2, <3>3
  <2>. QED  BY <2>1 DEF InOrder, Before
<1>14. BlocksOrdered'  BY <1>1, BlocksKept DEF OrderInv
<1>. QED  BY <1>11, <1>13, <1>14 DEF OrderInv

LEMMA OrderNext ==
    ASSUME TypeInv, OrderInv, [Next]_vars
    PROVE  OrderInv'
<1>1. CASE EmitterStep /\ PushTask
  BY <1>1, OrderPush
<1>2. CASE EmitterStep /\ ~PushTask
  <2>1. UNCHANGED <<wpc, task, doc, out, queue>>
    BY <1>2
    DEF EmitterStep, NoMoreFiles, BadFile, KeepHeader, NewHeader, NextFile, ReadBlock,
        EmitterExit, EmitterFail, EmitterFailed, LeaveMainLoop, EmitterLocal, Q!Done,
        Terminate, workers, output, qvars
  <2>. QED  BY <2>1, OrderKept DEF Indices, Onward
<1>3. CASE MainExit \/ ErrorRace \/ Spurious \/ Terminate \/ UNCHANGED vars
  <2>1. UNCHANGED <<wpc, task, doc, out, queue>>
    BY <1>3
    DEF MainExit, ErrorRace, Spurious, Q!SpuriousWakeup, Terminate, vars, workers,
        output, qvars
  <2>. QED  BY <2>1, OrderKept DEF Indices, Onward
<1>4. ASSUME NEW w \in Workers, WorkerStep(w), ~PopTask(w), ~Terminate
      PROVE  OrderInv'
  <2>1. UNCHANGED <<queue, task>>  BY <1>4, WorkerMoves
  <2>2. \A v \in Workers : Onward(v)  BY <1>4, WorkerOnward
  <2>3. ASSUME NEW e \in Writes, e.what # "record", out' = Append(out, e)
        PROVE  OrderInv'
    <3>1. /\ Indices("record")' = Indices("record")
          /\ \A i \in Indices("record") : out'[i] = out[i]
      BY <2>3, WriteKeeps DEF Indices
    <3>. QED  BY <2>1, <2>2, <3>1, OrderKept
  <2>4. CASE UNCHANGED out
    BY <2>1, <2>2, <2>4, OrderKept DEF Indices
  <2>5. CASE out' = Append(out, Debug(w)) \/ out' = Append(out, Separator(w))
    BY <2>3, <2>5 DEF Debug, Separator, Writes
  <2>6. CASE /\ wpc[w] = "dump" /\ Goto(w, "separate") /\ UNCHANGED doc
             /\ out' = Append(out, Record(w, ThisDoc(w)))
    BY <1>4, <2>6, OrderWrite
  <2>. QED  BY <1>4, <2>4, <2>5, <2>6, WorkerWrites
<1>. QED  BY <1>1, <1>2, <1>3, <1>4, OrderPop DEF Next, Step, Over

\* The records that one worker prints are in the order of the input.
THEOREM InOrderAlways == Spec => []InOrder
<1>1. OrderInv => InOrder  BY DEF OrderInv
<1>2. Spec => [](TypeInv /\ OrderInv)
  BY TypeInit, TypeNext, OrderInit, OrderNext, PTL DEF Spec
<1>. QED  BY <1>1, <1>2, PTL

-----------------------------------------------------------------------------
(* The end *)

\* Only a closed queue lets anybody leave, and only one that is empty as well
\* tells a worker "no more".
ClosedBehind ==
    /\ epc = "ended" => is_done
    /\ \A w \in Workers : wpc[w] = "ended" => is_done
    /\ \A w \in Workers : ~ret[w].ok => wpc[w] = "ended" /\ queue = <<>>

LEMMA ClosedInit == Init => ClosedBehind
BY DEF Init, ClosedBehind, Q!Init, Q!Result, Q!Threads

\* A step of a worker other than pop and the last leaves the queue alone.
LEMMA WorkerInside ==
    ASSUME TypeInv, NEW w \in Workers, WorkerStep(w), ~PopTask(w), ~Stop(w), ~Terminate
    PROVE  /\ UNCHANGED qvars
           /\ wpc[w] \notin {"none", "pop", "ended"}
           /\ \E p \in WorkerPcs \ {"none", "ended"} : Goto(w, p)
<1>1. CASE KeepDecoder(w) \/ NewDecoder(w) \/ WorkerFail(w) \/ WorkerFailed(w)
  BY <1>1
  DEF KeepDecoder, NewDecoder, WorkerFail, WorkerFailed, WorkerLocal, WorkerPcs
<1>2. CASE Decode(w) \/ Ticket(w) \/ CountDoc(w) \/ WriteDoc(w) \/ WriteSeparator(w)
  BY <1>2
  DEF Decode, Ticket, CountDoc, WriteDoc, WriteSeparator, DocDone, WorkerLocal, WorkerPcs
<1>3. CASE NextDoc(w)
  <2>1. /\ wpc[w] = "doc" /\ UNCHANGED qvars
        /\ \E p \in {"pop", "stop", "ticket", "doc"} : Goto(w, p)
    BY <1>3 DEF NextDoc, WorkerLocal
  <2>. QED  BY <2>1 DEF WorkerPcs
<1>. QED  BY <1>1, <1>2, <1>3 DEF WorkerStep

LEMMA ClosedNext ==
    ASSUME TypeInv, ClosedBehind, [Next]_vars
    PROVE  ClosedBehind'
<1>1. CASE PushTask
  <2>1. UNCHANGED <<wpc, is_done>> /\ \A w \in Workers : ret'[w] = ret[w]
    BY <1>1, PushEffect DEF workers
  <2>2. epc' # "ended"  BY <1>1, PushEffect
  <2>3. queue' = queue \/ ~is_done  BY <1>1, PushEffect
  <2>. QED  BY <2>1, <2>2, <2>3 DEF ClosedBehind
<1>2. CASE EmitterExit
  BY <1>2 DEF EmitterExit, Q!Done, ClosedBehind, workers
<1>3. CASE EmitterStep /\ ~PushTask /\ ~EmitterExit
  <2>1. UNCHANGED <<wpc, ret, queue, is_done>> /\ (epc' = "ended" => epc = "ended")
    BY <1>3
    DEF EmitterStep, NoMoreFiles, BadFile, KeepHeader, NewHeader, NextFile, ReadBlock,
        EmitterFail, EmitterFailed, LeaveMainLoop, EmitterLocal, Terminate, emitter,
        workers, qvars
  <2>. QED  BY <2>1 DEF ClosedBehind
<1>4. CASE MainExit \/ ErrorRace \/ Spurious \/ UNCHANGED vars \/ Terminate
  BY <1>4
  DEF MainExit, ErrorRace, Spurious, Q!SpuriousWakeup, Terminate, ClosedBehind, vars,
      emitter, workers, qvars
<1>5. ASSUME NEW w \in Workers, PopTask(w) PROVE ClosedBehind'
  <2>1. /\ UNCHANGED <<epc, is_done>> /\ wpc \in [Workers -> WorkerPcs]
        /\ \A v \in Workers \ {w} : ret'[v] = ret[v]
        /\ wpc[w] = "pop"
    BY <1>5, PopEffect DEF emitter, Q!Threads, TypeInv, TypeOK
  <2>2. CASE UNCHANGED <<wpc, queue, ret>>
    BY <2>1, <2>2 DEF ClosedBehind
  <2>3. CASE /\ is_done /\ queue = <<>> /\ Goto(w, "ended") /\ UNCHANGED queue
             /\ ret'[w].ok = FALSE
    BY <2>1, <2>3 DEF ClosedBehind, Goto
  <2>4. CASE queue # <<>> /\ Goto(w, "setup") /\ ret'[w].ok = TRUE
    BY <2>1, <2>4 DEF ClosedBehind, Goto
  <2>. QED  BY <1>5, <2>2, <2>3, <2>4, PopEffect
<1>6. ASSUME NEW w \in Workers, Stop(w) PROVE ClosedBehind'
  BY <1>6 DEF Stop, Goto, Q!Done, ClosedBehind, TypeInv, TypeOK, emitter
<1>7. ASSUME NEW w \in Workers, WorkerStep(w), ~PopTask(w), ~Stop(w), ~Terminate
      PROVE  ClosedBehind'
  <2>1. UNCHANGED <<epc, ret, queue, is_done>>
    BY <1>7, WorkerInside, WorkerLeavesEmitter DEF emitter, qvars
  <2>2. PICK p \in WorkerPcs \ {"none", "ended"} : Goto(w, p)
    BY <1>7, WorkerInside
  <2>3. wpc[w] # "ended"  BY <1>7, WorkerInside
  <2>. QED  BY <2>1, <2>2, <2>3 DEF ClosedBehind, Goto, TypeInv, TypeOK
<1>. QED  BY <1>1, <1>2, <1>3, <1>4, <1>5, <1>6, <1>7 DEF Next, Step, Over

\* Whoever leaves, a thread that failed as well, has closed the queue or found it
\* closed: nobody waits in it for a thread that is gone.
THEOREM LeaversCloseAlways == Spec => []LeaversClose
<1>1. ClosedBehind => LeaversClose  BY DEF ClosedBehind, LeaversClose
<1>2. Spec => [](TypeInv /\ ClosedBehind)
  BY TypeInit, TypeNext, ClosedInit, ClosedNext, PTL DEF Spec
<1>. QED  BY <1>1, <1>2, PTL

\* A worker that was told "no more" leaves no block behind.
THEOREM DrainedAlways == Spec => []Drained
<1>1. ClosedBehind => Drained  BY DEF ClosedBehind, Drained
<1>2. Spec => [](TypeInv /\ ClosedBehind)
  BY TypeInit, TypeNext, ClosedInit, ClosedNext, PTL DEF Spec
<1>. QED  BY <1>1, <1>2, PTL

-----------------------------------------------------------------------------
(* The headers *)

\* A task carries the header of its file, and the number of that header.
Fits(t) ==
    /\ t.fileId = t.header
    /\ headers[t.header].meta = run.files[t.file].meta

TasksFit ==
    /\ \A i \in 1..Len(queue) : Fits(queue[i])
    /\ \A w \in Workers : task[w] # None => Fits(task[w])

\* The emitter counts the headers, and reads a file under its own.
EmitterHeader ==
    /\ currentFileId = Len(headers) \/ epc \in {"exit", "ended"}
    /\ epc \in {"block", "push"} =>
          headers[Len(headers)] = [meta |-> CurrentFile.meta, sync |-> CurrentFile.sync]

Working == {"decode", "doc", "ticket", "dump", "separate"}

\* A decoder is for the header its file id stands for, and a worker at a block has
\* the decoder for it.
DecodersMade ==
    /\ \A w \in Workers : decoder[w] # None =>
          /\ decoder[w].fileId = decoder[w].header
          /\ decoder[w].header \in DOMAIN headers
    /\ \A w \in Workers : wpc[w] \in Working => HasDecoder(w)

HeadersInv == TasksFit /\ EmitterHeader /\ DecodersMade

LEMMA HeadersInit == Init => HeadersInv
<1>. SUFFICES ASSUME Init PROVE HeadersInv
  OBVIOUS
<1>1. Len(queue) = 0 /\ Len(headers) = 0  BY EmptySeq DEF Init, Q!Init
<1>2. wpc \in [Workers -> {"pop", "none"}]  BY DEF Init
<1>. QED
  BY <1>1, <1>2 DEF Init, HeadersInv, TasksFit, EmitterHeader, DecodersMade, Working

LEMMA FitsKept ==
    ASSUME TypeInv, [Next]_vars, NEW t, Placed(t), Fits(t)
    PROVE  Fits(t)'
<1>1. t.header \in 1..Len(headers)  BY InputType DEF Placed, TypeInv
<1>. QED  BY <1>1, InputKept, HeadersKept DEF Fits

\* A step that leaves queue and tasks alone.
LEMMA TasksFitKept ==
    ASSUME TypeInv, TasksFit, [Next]_vars, UNCHANGED <<queue, task>>
    PROVE  TasksFit'
BY FitsKept DEF TasksFit, TypeInv, TasksPlaced

LEMMA DecoderKept ==
    ASSUME TypeInv, [Next]_vars, NEW h \in DOMAIN headers
    PROVE  h \in DOMAIN headers' /\ headers'[h].meta = headers[h].meta
<1>1. h \in 1..Len(headers) /\ Len(headers) \in Nat  BY InputType DEF TypeInv
<1>2. DOMAIN headers' = 1..Len(headers') /\ Len(headers') \in Nat
  BY HeadersKept, LenProperties
<1>. QED  BY <1>1, <1>2, HeadersKept

\* A step that leaves the workers alone.
LEMMA DecodersKept ==
    ASSUME TypeInv, DecodersMade, [Next]_vars, UNCHANGED <<wpc, task, decoder>>
    PROVE  DecodersMade'
BY DecoderKept DEF DecodersMade, HasDecoder

\* What the emitter's steps do to header and place.
LEMMA EmitterHeaderNext ==
    ASSUME TypeInv, EmitterHeader, EmitterStep
    PROVE  EmitterHeader'
<1>. DEFINE H == [meta |-> CurrentFile.meta, sync |-> CurrentFile.sync]
<1>1. /\ headers \in Seq([meta : Metadata, sync : STRING]) /\ Len(headers) \in Nat
      /\ DOMAIN headers = 1..Len(headers)
  BY InputType DEF TypeInv
<1>2. CASE KeepHeader
  <2>1. /\ UNCHANGED <<run, file, currentFileId>> /\ epc = "file" /\ epc' = "block"
        /\ headers' = [headers EXCEPT ![Len(headers)].sync = CurrentFile.sync]
        /\ headers # <<>> /\ headers[Len(headers)].meta = CurrentFile.meta
    BY <1>2 DEF KeepHeader, HeaderRead, SameHeader, EmitterLocal, input
  <2>2. Len(headers) \in 1..Len(headers)  BY <1>1, <2>1, EmptySeq, SeqEqual
  <2>3. headers[Len(headers)] \in [meta : Metadata, sync : STRING]
    BY <1>1, <2>2, ElementOfSeq
  <2>4. [headers[Len(headers)] EXCEPT !.sync = CurrentFile.sync] = H
    BY <2>1, <2>3
  <2>5. headers' = [headers EXCEPT ![Len(headers)] = H]
    BY <2>1, <2>4
  <2>6. Len(headers') = Len(headers)
    BY <1>1, <2>2, <2>5, LenProperties
  <2>7. headers'[Len(headers')] = H  BY <1>1, <2>2, <2>5, <2>6
  <2>8. H' = H  BY <2>1 DEF CurrentFile
  <2>. QED  BY <2>1, <2>6, <2>7, <2>8 DEF EmitterHeader
<1>3. CASE NewHeader
  <2>1. /\ UNCHANGED <<run, file>> /\ epc = "file"
        /\ currentFileId' = currentFileId + 1
    BY <1>3 DEF NewHeader, HeaderRead, EmitterLocal, input
  <2>2. CASE CurrentFile.meta.schema # "ok"
    BY <1>3, <2>2 DEF NewHeader, EmitterHeader
  <2>3. CASE CurrentFile.meta.schema = "ok"
    <3>1. headers' = Append(headers, H)  BY <1>3, <2>3 DEF NewHeader
    <3>2. Len(headers') = Len(headers) + 1 /\ headers'[Len(headers) + 1] = H
      BY <1>1, <3>1
    <3>3. H' = H  BY <2>1 DEF CurrentFile
    <3>. QED  BY <2>1, <3>2, <3>3 DEF EmitterHeader
  <2>. QED  BY <2>2, <2>3
<1>4. CASE PushTask
  <2>1. UNCHANGED <<run, file, headers, currentFileId>> /\ epc = "push"
    BY <1>4, PushEffect DEF input
  <2>. QED  BY <2>1 DEF EmitterHeader, CurrentFile
<1>5. CASE ~KeepHeader /\ ~NewHeader /\ ~PushTask
  <2>1. /\ UNCHANGED <<run, headers, currentFileId>>
        /\ epc' \in {"block", "push"} => epc \in {"block", "push"} /\ UNCHANGED file
        /\ epc \in {"exit", "ended"} => epc' \in {"exit", "ended"}
    BY <1>5
    DEF EmitterStep, NoMoreFiles, BadFile, NextFile, ReadBlock, EmitterExit,
        EmitterFail, EmitterFailed, LeaveMainLoop, EmitterLocal, Terminate,
        emitter, input
  <2>. QED  BY <2>1 DEF EmitterHeader, CurrentFile
<1>. QED  BY <1>2, <1>3, <1>4, <1>5

\* A worker makes a decoder for its task, and otherwise keeps the one it has; it
\* gets to a block only with the decoder for it.
LEMMA WorkerDecoder ==
    ASSUME TypeInv, NEW w \in Workers, WorkerStep(w), ~PopTask(w), ~Terminate
    PROVE  /\ UNCHANGED task
           /\ \E p : Goto(w, p) /\ (p \in Working => wpc[w] \in Working \/ wpc[w] = "setup")
           /\ \/ /\ UNCHANGED decoder
                 /\ wpc[w] = "setup" => HasDecoder(w)
              \/ /\ wpc[w] = "setup"
                 /\ decoder' = [decoder EXCEPT ![w] = [fileId |-> task[w].fileId,
                                                      header |-> task[w].header]]
<1>1. CASE KeepDecoder(w) \/ NewDecoder(w) \/ WorkerFail(w) \/ WorkerFailed(w) \/ Stop(w)
  BY <1>1
  DEF KeepDecoder, NewDecoder, WorkerFail, WorkerFailed, Stop, WorkerLocal, Working
<1>2. CASE Decode(w) \/ Ticket(w) \/ CountDoc(w) \/ WriteDoc(w) \/ WriteSeparator(w)
  BY <1>2
  DEF Decode, Ticket, CountDoc, WriteDoc, WriteSeparator, DocDone, WorkerLocal, Working
<1>3. CASE NextDoc(w)
  <2>1. /\ wpc[w] = "doc" /\ UNCHANGED <<task, decoder>>
        /\ \E p \in {"pop", "stop", "ticket", "doc"} : Goto(w, p)
    BY <1>3 DEF NextDoc, WorkerLocal
  <2>. QED  BY <2>1 DEF Working
<1>. QED  BY <1>1, <1>2, <1>3 DEF WorkerStep

LEMMA HeadersNext ==
    ASSUME TypeInv, HeadersInv, [Next]_vars
    PROVE  HeadersInv'
<1>1. CASE PushTask
  <2>1. UNCHANGED <<wpc, task, decoder>> /\ epc = "push" /\ UNCHANGED headers
    BY <1>1, PushEffect DEF workers
  <2>2. EmitterHeader'
    BY <1>1, EmitterHeaderNext DEF EmitterStep, HeadersInv
  <2>3. DecodersMade'  BY <2>1, DecodersKept DEF HeadersInv
  <2>4. Fits(NewTask)
    BY <2>1 DEF HeadersInv, EmitterHeader, NewTask, Fits, CurrentFile
  <2>5. ASSUME queue' = Append(queue, NewTask) PROVE TasksFit'
    <3>1. queue \in Seq(Task) /\ NewTask \in Task
      BY InputType DEF TypeInv, TypeOK, NewTask, Task
    <3>2. \A i \in 1..Len(queue') : \/ i \in 1..Len(queue) /\ queue'[i] = queue[i]
                                   \/ queue'[i] = NewTask
      BY <2>5, <3>1, AppendProperties
    <3>4. \A t : Fits(t) => Fits(t)'
      BY <2>1, InputKept DEF Fits
    <3>5. (\A i \in 1..Len(queue) : Fits(queue[i]))'
      BY <2>4, <3>2, <3>4 DEF HeadersInv, TasksFit
    <3>6. (\A w \in Workers : task[w] # None => Fits(task[w]))'
      BY <2>1, <3>4 DEF HeadersInv, TasksFit
    <3>. QED  BY <3>5, <3>6 DEF TasksFit
  <2>6. ASSUME UNCHANGED queue PROVE TasksFit'
    BY <2>1, <2>6, TasksFitKept DEF HeadersInv
  <2>. QED  BY <1>1, <2>2, <2>3, <2>5, <2>6, PushEffect DEF HeadersInv
<1>2. CASE EmitterStep /\ ~PushTask
  <2>1. UNCHANGED <<wpc, task, decoder, queue>>
    BY <1>2
    DEF EmitterStep, NoMoreFiles, BadFile, KeepHeader, NewHeader, NextFile, ReadBlock,
        EmitterExit, EmitterFail, EmitterFailed, LeaveMainLoop, EmitterLocal, Q!Done,
        Terminate, workers, qvars
  <2>. QED
    BY <1>2, <2>1, EmitterHeaderNext, TasksFitKept, DecodersKept DEF HeadersInv
<1>3. CASE MainExit \/ ErrorRace \/ Spurious \/ Terminate \/ UNCHANGED vars
  <2>1. UNCHANGED <<run, emitter, wpc, task, decoder, queue>>
    BY <1>3
    DEF MainExit, ErrorRace, Spurious, Q!SpuriousWakeup, Terminate, vars, input,
        workers, qvars
  <2>2. EmitterHeader'
    BY <2>1 DEF HeadersInv, EmitterHeader, CurrentFile, emitter
  <2>. QED  BY <2>1, <2>2, TasksFitKept, DecodersKept DEF HeadersInv
<1>4. ASSUME NEW w \in Workers, WorkerStep(w) PROVE EmitterHeader'
  <2>1. UNCHANGED <<run, emitter>>  BY <1>4, WorkerLeavesEmitter DEF input
  <2>. QED  BY <2>1 DEF HeadersInv, EmitterHeader, CurrentFile, emitter
<1>5. ASSUME NEW w \in Workers, PopTask(w) PROVE HeadersInv'
  <2>1. EmitterHeader'  BY <1>4, <1>5 DEF WorkerStep
  <2>2. UNCHANGED <<run, headers, decoder>> /\ wpc[w] = "pop"
    BY <1>5, PopEffect DEF input, emitter
  <2>3. /\ wpc \in [Workers -> WorkerPcs] /\ task \in [Workers -> Task \cup {None}]
    BY DEF TypeInv, TypeOK
  <2>4. CASE UNCHANGED <<wpc, task, queue>>
    BY <2>1, <2>2, <2>4, TasksFitKept, DecodersKept DEF HeadersInv
  <2>5. CASE Goto(w, "ended") /\ UNCHANGED <<task, queue>>
    <3>1. DecodersMade'
      BY <2>2, <2>3, <2>5 DEF HeadersInv, DecodersMade, Goto, HasDecoder, Working
    <3>. QED  BY <2>1, <2>5, <3>1, TasksFitKept DEF HeadersInv
  <2>6. CASE /\ queue # <<>> /\ Goto(w, "setup")
             /\ task' = [task EXCEPT ![w] = Head(queue)]
             /\ queue' = Tail(queue)
    <3>1. /\ Head(queue) = queue[1] /\ 1 \in 1..Len(queue)
          /\ \A i \in 1..Len(queue') : queue'[i] = queue[i + 1] /\ i + 1 \in 1..Len(queue)
      BY <2>6, InputType, HeadTailProperties, LenProperties, EmptySeq DEF TypeInv
    <3>2. \A t : Fits(t) => Fits(t)'
      BY <2>2 DEF Fits
    <3>3. (\A i \in 1..Len(queue) : Fits(queue[i]))'
      BY <3>1, <3>2 DEF HeadersInv, TasksFit
    <3>4. Fits(Head(queue))  BY <3>1 DEF HeadersInv, TasksFit
    <3>5. (\A v \in Workers : task[v] # None => Fits(task[v]))'
      BY <2>3, <2>6, <3>2, <3>4 DEF HeadersInv, TasksFit
    <3>6. DecodersMade'
      BY <2>2, <2>3, <2>6 DEF HeadersInv, DecodersMade, Goto, HasDecoder, Working
    <3>. QED  BY <2>1, <3>3, <3>5, <3>6 DEF HeadersInv, TasksFit
  <2>. QED  BY <1>5, <2>4, <2>5, <2>6, PopEffect
<1>6. ASSUME NEW w \in Workers, WorkerStep(w), ~PopTask(w), ~Terminate
      PROVE  HeadersInv'
  <2>1. UNCHANGED <<queue, task>> /\ wpc[w] \notin {"none", "pop", "ended"}
    BY <1>6, WorkerMoves
  <2>2. UNCHANGED headers  BY <1>6, WorkerLeavesEmitter DEF emitter
  <2>3. PICK p : Goto(w, p) /\ (p \in Working => wpc[w] \in Working \/ wpc[w] = "setup")
    BY <1>6, WorkerDecoder
  <2>4. /\ task[w] \in Task /\ task[w].header \in DOMAIN headers
        /\ task[w].fileId = task[w].header /\ task[w].fileId \in Nat
        /\ task[w].header \in Nat
    BY <1>6, <2>1, WorkerTask DEF Placed, Task, HeadersInv, TasksFit, Fits, TypeInv,
       TasksPlaced
  <2>5. /\ wpc \in [Workers -> WorkerPcs]
        /\ decoder \in [Workers -> Decoder \cup {None}]
    BY DEF TypeInv, TypeOK
  <2>6. ASSUME UNCHANGED decoder, wpc[w] = "setup" => HasDecoder(w)
        PROVE  DecodersMade'
    BY <2>1, <2>2, <2>3, <2>5, <2>6 DEF HeadersInv, DecodersMade, Goto, HasDecoder
  <2>7. ASSUME wpc[w] = "setup",
               decoder' = [decoder EXCEPT ![w] = [fileId |-> task[w].fileId,
                                                  header |-> task[w].header]]
        PROVE  DecodersMade'
    <3>. DEFINE d == [fileId |-> task[w].fileId, header |-> task[w].header]
    <3>1. d \in Decoder /\ d.fileId = task[w].fileId /\ d.header = task[w].header
      BY <2>4 DEF Decoder
    <3>2. decoder' = [decoder EXCEPT ![w] = d]  BY <2>7
    <3>. HIDE DEF d
    <3>3. d # None  BY <3>1, NoneAssumption
    <3>. QED
      BY <2>1, <2>2, <2>3, <2>4, <2>5, <3>1, <3>2, <3>3
      DEF HeadersInv, DecodersMade, Goto, HasDecoder
  <2>8. DecodersMade'
    BY <1>6, <2>6, <2>7, WorkerDecoder
  <2>. QED  BY <1>4, <1>6, <2>1, <2>8, TasksFitKept DEF HeadersInv
<1>. QED  BY <1>1, <1>2, <1>3, <1>5, <1>6 DEF Next, Step, Over

\* A worker decodes a block with the schema of the file the block is from, however
\* long it has kept its decoder and whatever the emitter reads meanwhile.
THEOREM DecoderFitsAlways == Spec => []DecoderFits
<1>1. TypeInv /\ HeadersInv => DecoderFits
  BY DEF HeadersInv, DecodersMade, TasksFit, Fits, Working, HasDecoder, TypeInv,
     TasksPlaced, DecoderFits, TaskMeta
<1>2. Spec => [](TypeInv /\ HeadersInv)
  BY TypeInit, TypeNext, HeadersInit, HeadersNext, PTL DEF Spec
<1>. QED  BY <1>1, <1>2, PTL

-----------------------------------------------------------------------------
(* The exit status *)

\* A filter or a list of fields that does not fit is in lastError, or on its way.
FailureNoted ==
    /\ \A w \in Workers :
          decoder[w] # None /\ headers[decoder[w].header].meta.setup # "ok" =>
              wpc[w] \in {"fail", "failing"} \/ lastError
    /\ \A h \in DOMAIN headers :
          headers[h].meta.fields # "ok" => epc \in {"fail", "failing"} \/ lastError

\* main has seen everybody leave; with status 0, and no message.
GoodEnd ==
    /\ Exited =>
          /\ epc = "ended"
          /\ \A w \in Workers : wpc[w] \in {"none", "ended"}
    /\ status = "exit0" => ~lastError

ReportInv == FailureNoted /\ GoodEnd

LEMMA ReportInit == Init => ReportInv
<1>. SUFFICES ASSUME Init PROVE ReportInv
  OBVIOUS
<1>1. DOMAIN headers = {}  BY EmptySeq DEF Init
<1>. QED  BY <1>1 DEF Init, ReportInv, FailureNoted, GoodEnd, Exited

\* What the threads do to lastError: it is never taken back, and whoever assigns it
\* goes on when it is assigned.
LEMMA EmitterReports ==
    ASSUME TypeInv, EmitterStep
    PROVE  /\ UNCHANGED <<wpc, decoder>> /\ status' \in {status, "aborted"}
           /\ lastError => lastError'
           /\ epc \in {"fail", "failing"} => epc' \in {"fail", "failing"} \/ lastError'
<1>1. CASE PushTask
  BY <1>1, PushEffect DEF workers, errors
<1>2. CASE ~PushTask
  BY <1>2
  DEF EmitterStep, NoMoreFiles, BadFile, KeepHeader, NewHeader, NextFile, ReadBlock,
      EmitterExit, EmitterFail, EmitterFailed, LeaveMainLoop, EmitterLocal, HeaderRead,
      BeginError, EndError, Terminate, workers, errors, emitter
<1>. QED  BY <1>1, <1>2

LEMMA WorkerReports ==
    ASSUME TypeInv, NEW w \in Workers, WorkerStep(w), ~PopTask(w), ~Terminate
    PROVE  /\ lastError => lastError'
           /\ UNCHANGED <<epc, headers, status>>
           /\ \E p : /\ Goto(w, p)
                     /\ wpc[w] \in {"fail", "failing"} =>
                          UNCHANGED decoder /\ (p = "failing" \/ lastError')
                     /\ ~UNCHANGED decoder =>
                          TaskMeta(w).setup = "ok" \/ p = "fail"
<1>1. CASE KeepDecoder(w) \/ NewDecoder(w) \/ WorkerFail(w) \/ WorkerFailed(w) \/ Stop(w)
  BY <1>1
  DEF KeepDecoder, NewDecoder, WorkerFail, WorkerFailed, Stop, WorkerLocal, BeginError,
      EndError, errors, emitter
<1>2. CASE Decode(w) \/ Ticket(w) \/ CountDoc(w) \/ WriteDoc(w) \/ WriteSeparator(w)
  BY <1>2
  DEF Decode, Ticket, CountDoc, WriteDoc, WriteSeparator, DocDone, WorkerLocal, errors,
      emitter
<1>3. CASE NextDoc(w)
  <2>1. /\ wpc[w] = "doc" /\ UNCHANGED <<decoder, lastError, epc, headers, status>>
        /\ \E p \in {"pop", "stop", "ticket", "doc"} : Goto(w, p)
    BY <1>3 DEF NextDoc, WorkerLocal, errors, emitter
  <2>. QED  BY <2>1
<1>. QED  BY <1>1, <1>2, <1>3 DEF WorkerStep

\* A header that the emitter did not have before brings it to "fail" if its fields
\* do not fit.
LEMMA NewFields ==
    ASSUME TypeInv, [Next]_vars, EmitterStep, NEW h \in DOMAIN headers'
    PROVE  \/ h \in DOMAIN headers
           \/ headers'[h].meta.fields = "ok" \/ epc' = "fail"
<1>1. /\ headers \in Seq([meta : Metadata, sync : STRING])
      /\ DOMAIN headers = 1..Len(headers) /\ Len(headers) \in Nat
  BY InputType DEF TypeInv
<1>2. CASE NewHeader /\ ~UNCHANGED headers
  <2>. DEFINE H == [meta |-> CurrentFile.meta, sync |-> CurrentFile.sync]
  <2>1. headers' = Append(headers, H)
          /\ (CurrentFile.meta.fields # "ok" => epc' = "fail")
    BY <1>2 DEF NewHeader
  <2>2. DOMAIN headers' = 1..Len(headers) + 1 /\ headers'[Len(headers) + 1] = H
    BY <1>1, <2>1
  <2>. QED  BY <1>1, <2>1, <2>2
<1>3. CASE KeepHeader
  BY <1>3 DEF KeepHeader
<1>4. CASE UNCHANGED headers
  BY <1>4
<1>5. CASE EmitterStep /\ ~NewHeader /\ ~KeepHeader
  <2>1. UNCHANGED headers
    BY <1>5
    DEF EmitterStep, NoMoreFiles, BadFile, NextFile, ReadBlock, PushTask, EmitterExit,
        EmitterFail, EmitterFailed, LeaveMainLoop, EmitterLocal, Terminate, emitter
  <2>. QED  BY <2>1
<1>. QED  BY <1>2, <1>3, <1>4, <1>5

LEMMA GoodEndNext ==
    ASSUME TypeInv, GoodEnd, [Next]_vars
    PROVE  GoodEnd'
<1>1. CASE UNCHANGED vars
  BY <1>1 DEF GoodEnd, Exited, vars, emitter, errors, workers
<1>2. CASE status = "running" /\ MainExit
  BY <1>2 DEF MainExit, GoodEnd, emitter, errors, workers
<1>3. ASSUME status = "running", EmitterStep PROVE ~Exited'
  BY <1>3, EmitterReports DEF Exited
<1>4. ASSUME NEW w \in Workers, status = "running", WorkerStep(w) PROVE ~Exited'
  BY <1>4, WorkerReports, PopEffect DEF Terminate, Exited
<1>5. ASSUME status = "running", ErrorRace \/ Spurious PROVE ~Exited'
  BY <1>5 DEF ErrorRace, Spurious, Terminate, Exited
<1>. QED  BY <1>1, <1>2, <1>3, <1>4, <1>5 DEF Next, Step, Over, GoodEnd, Exited

LEMMA ReportNext ==
    ASSUME TypeInv, HeadersInv, ReportInv, [Next]_vars
    PROVE  ReportInv'
<1>1. GoodEnd'  BY GoodEndNext DEF ReportInv
<1>2. \A h \in DOMAIN headers : headers'[h].meta = headers[h].meta
  BY DecoderKept
<1>3. \A w \in Workers : decoder[w] # None => decoder[w].header \in DOMAIN headers
  BY DEF HeadersInv, DecodersMade
<1>4. CASE EmitterStep
  <2>1. /\ UNCHANGED <<wpc, decoder>> /\ (lastError => lastError')
        /\ epc \in {"fail", "failing"} => epc' \in {"fail", "failing"} \/ lastError'
    BY <1>4, EmitterReports
  <2>2. \A h \in DOMAIN headers' :
           headers'[h].meta.fields # "ok" => h \in DOMAIN headers \/ epc' = "fail"
    BY <1>4, NewFields
  <2>. QED  BY <1>1, <1>2, <1>3, <2>1, <2>2 DEF ReportInv, FailureNoted
<1>5. CASE MainExit \/ ErrorRace \/ Spurious \/ Terminate \/ UNCHANGED vars
  <2>1. UNCHANGED <<epc, headers, lastError, wpc, decoder>>
    BY <1>5
    DEF MainExit, ErrorRace, Spurious, Terminate, vars, emitter, errors, workers
  <2>. QED  BY <1>1, <2>1 DEF ReportInv, FailureNoted
<1>6. ASSUME NEW w \in Workers, PopTask(w) PROVE FailureNoted'
  <2>1. UNCHANGED <<epc, headers, lastError, decoder>> /\ wpc[w] = "pop"
    BY <1>6, PopEffect DEF emitter, errors
  <2>2. \A v \in Workers \ {w} : wpc'[v] = wpc[v]
    <3>1. wpc \in [Workers -> WorkerPcs]  BY DEF TypeInv, TypeOK
    <3>2. UNCHANGED wpc \/ \E p \in WorkerPcs : Goto(w, p)
      BY <1>6, PopEffect DEF WorkerPcs
    <3>. QED  BY <3>1, <3>2 DEF Goto
  <2>3. ASSUME NEW v \in Workers, wpc[v] \in {"fail", "failing"}
        PROVE  wpc'[v] = wpc[v]
    BY <2>1, <2>2, <2>3
  <2>. QED  BY <2>1, <2>3 DEF ReportInv, FailureNoted
<1>7. ASSUME NEW w \in Workers, WorkerStep(w), ~PopTask(w), ~Terminate
      PROVE  FailureNoted'
  <2>1. UNCHANGED <<epc, headers>> /\ (lastError => lastError')
    BY <1>7, WorkerReports
  <2>2. PICK p : /\ Goto(w, p)
                 /\ wpc[w] \in {"fail", "failing"} =>
                      UNCHANGED decoder /\ (p = "failing" \/ lastError')
                 /\ ~UNCHANGED decoder => TaskMeta(w).setup = "ok" \/ p = "fail"
    BY <1>7, WorkerReports
  <2>3. /\ wpc \in [Workers -> WorkerPcs]
        /\ decoder \in [Workers -> Decoder \cup {None}]
    BY DEF TypeInv, TypeOK
  <2>4. \A v \in Workers \ {w} : wpc'[v] = wpc[v] /\ decoder'[v] = decoder[v]
    BY <1>7, <2>2, <2>3, WorkerDecoder DEF Goto
  <2>5. ASSUME decoder'[w] # None, headers[decoder'[w].header].meta.setup # "ok"
        PROVE  wpc'[w] \in {"fail", "failing"} \/ lastError'
    <3>1. wpc'[w] = p  BY <2>2, <2>3 DEF Goto
    <3>2. CASE UNCHANGED decoder
      BY <2>1, <2>2, <2>5, <3>1, <3>2 DEF ReportInv, FailureNoted
    <3>3. CASE ~UNCHANGED decoder
      <4>1. decoder'[w] = [fileId |-> task[w].fileId, header |-> task[w].header]
        BY <1>7, <2>3, <3>3, WorkerDecoder
      <4>2. TaskMeta(w) = headers[decoder'[w].header].meta  BY <4>1 DEF TaskMeta
      <4>. QED  BY <2>2, <2>5, <3>1, <3>3, <4>2
    <3>. QED  BY <3>2, <3>3
  <2>. QED  BY <2>1, <2>4, <2>5 DEF ReportInv, FailureNoted
<1>. QED  BY <1>1, <1>4, <1>5, <1>6, <1>7 DEF Next, Step, Over, ReportInv

\* A run that ends with status 0 made no decoder, and read no header, that the
\* filter or the list of fields does not fit.
THEOREM FailureReportedAlways == Spec => []FailureReported
<1>. DEFINE I == TypeInv /\ HeadersInv /\ ReportInv
<1>1. I => FailureReported
  BY DEF ReportInv, FailureNoted, GoodEnd, Exited, FailureReported
<1>2. Init => I  BY TypeInit, HeadersInit, ReportInit
<1>3. I /\ [Next]_vars => I'  BY TypeNext, HeadersNext, ReportNext
<1>. QED  BY <1>1, <1>2, <1>3, PTL DEF Spec

=============================================================================
