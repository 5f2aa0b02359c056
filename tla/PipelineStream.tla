---------------------------- MODULE PipelineStream ----------------------------
(***************************************************************************)
(* Nothing more, nothing less: every record that is printed is a match that*)
(* was not printed before (on any input), and on sound input a run that    *)
(* ends has answered every match, or as many as the limit allows.  So the  *)
(* pipeline implements RecordStream, and the total of --count-only is      *)
(* exact; for every number of workers and every schedule.                  *)
(*                                                                         *)
(* The argument accounts for every match: it is in a block the emitter has *)
(* not pushed, in the queue, ahead of a worker in its block, or settled;   *)
(* the settled ones are those that were printed, or counted.               *)
(***************************************************************************)
EXTENDS PipelineSafety

(* The input *)

Kinds == IF run.filter THEN {"match"} ELSE {"match", "skip"}

\* The record d is there, and passes.
IsMatch(d) ==
    /\ d \in Doc
    /\ d.file \in DOMAIN run.files
    /\ d.block \in DOMAIN run.files[d.file].blocks
    /\ d.doc \in DOMAIN run.files[d.file].blocks[d.block].docs
    /\ run.files[d.file].blocks[d.block].docs[d.doc] \in Kinds

LEMMA MatchesAre == ASSUME TypeInv, NEW d PROVE d \in Matches <=> IsMatch(d)
<1>. DEFINE F == run.files
            DocsIn(f, b) ==
                {[file |-> f, block |-> b, doc |-> n] :
                    n \in {n \in DOMAIN F[f].blocks[b].docs :
                             F[f].blocks[b].docs[n] \in Kinds}}
<1>1. d \in Matches <=>
        \E f \in DOMAIN F : \E b \in DOMAIN F[f].blocks : d \in DocsIn(f, b)
  BY DEF Matches, DocsOf, Kinds
<1>2. ASSUME NEW f \in DOMAIN F, NEW b \in DOMAIN F[f].blocks, d \in DocsIn(f, b)
      PROVE  IsMatch(d)
  <2>1. PICK n \in DOMAIN F[f].blocks[b].docs :
           /\ d = [file |-> f, block |-> b, doc |-> n]
           /\ F[f].blocks[b].docs[n] \in Kinds
    BY <1>2
  <2>2. f \in Nat /\ b \in Nat /\ n \in Nat
    BY InputType DEF TypeInv
  <2>. QED  BY <2>1, <2>2 DEF IsMatch, Doc
<1>3. ASSUME IsMatch(d)
      PROVE  d \in DocsIn(d.file, d.block)
  <2>1. d = [file |-> d.file, block |-> d.block, doc |-> d.doc]
    BY <1>3 DEF IsMatch, Doc
  <2>. QED  BY <1>3, <2>1 DEF IsMatch
<1>. HIDE DEF DocsIn
<1>. QED  BY <1>1, <1>2, <1>3 DEF IsMatch

LEMMA ImageFinite ==
    ASSUME NEW n \in Nat, NEW f
    PROVE  IsFiniteSet(1..n) /\ IsFiniteSet({f[i] : i \in 1..n})
<1>. DEFINE T == {f[i] : i \in 1..n}
            g == [i \in 1..n |-> f[i]]
<1>1. IsFiniteSet(1..n)  BY FS_Interval
<1>2. g \in Surjection(1..n, T)  BY DEF Surjection
<1>. HIDE DEF T, g
<1>3. IsFiniteSet(T)  BY <1>1, <1>2, FS_Surjection
<1>. QED  BY <1>1, <1>3 DEF T

\* There are finitely many.
LEMMA MatchesFinite == TypeInv => IsFiniteSet(Matches)
<1>. SUFFICES ASSUME TypeInv PROVE IsFiniteSet(Matches)
  OBVIOUS
<1>. DEFINE F == run.files
            B(f) == F[f].blocks
            Numbers(f, b) == {n \in DOMAIN B(f)[b].docs : B(f)[b].docs[n] \in Kinds}
            DocsIn(f, b) == {[file |-> f, block |-> b, doc |-> n] : n \in Numbers(f, b)}
            InBlocks(f)  == {DocsIn(f, b) : b \in DOMAIN B(f)}
            InFiles      == {UNION InBlocks(f) : f \in DOMAIN F}
<1>1. ASSUME NEW f \in DOMAIN F, NEW b \in DOMAIN B(f)
      PROVE  IsFiniteSet(DocsIn(f, b))
  <2>. DEFINE n == Len(B(f)[b].docs)
              g == [i \in 1..n |-> [file |-> f, block |-> b, doc |-> i]]
  <2>1. n \in Nat /\ DOMAIN B(f)[b].docs = 1..n  BY InputType DEF TypeInv
  <2>2. DocsIn(f, b) \subseteq {g[i] : i \in 1..n}  BY <2>1
  <2>. HIDE DEF n, g, DocsIn
  <2>3. IsFiniteSet({g[i] : i \in 1..n})  BY <2>1, ImageFinite
  <2>. QED  BY <2>2, <2>3, FS_Subset
<1>2. ASSUME NEW f \in DOMAIN F PROVE IsFiniteSet(UNION InBlocks(f))
  <2>. DEFINE n == Len(B(f))
              g == [b \in 1..n |-> DocsIn(f, b)]
  <2>1. n \in Nat /\ DOMAIN B(f) = 1..n  BY InputType DEF TypeInv
  <2>. HIDE DEF n, DocsIn
  <2>2. \A S \in InBlocks(f) : IsFiniteSet(S)  BY <1>1
  <2>3. InBlocks(f) = {g[b] : b \in 1..n}  BY <2>1
  <2>. HIDE DEF g, InBlocks
  <2>4. IsFiniteSet(InBlocks(f))  BY <2>1, <2>3, ImageFinite
  <2>. QED  BY <2>2, <2>4, FS_UNION
<1>3. IsFiniteSet(InFiles)
  <2>. DEFINE n == Len(F)
              g == [f \in 1..n |-> UNION InBlocks(f)]
  <2>1. n \in Nat /\ DOMAIN F = 1..n  BY InputType DEF TypeInv
  <2>. HIDE DEF n, InBlocks
  <2>2. InFiles = {g[f] : f \in 1..n}  BY <2>1
  <2>. HIDE DEF g, InFiles
  <2>. QED  BY <2>1, <2>2, ImageFinite
<1>4. \A S \in InFiles : IsFiniteSet(S)  BY <1>2
<1>5. Matches = UNION InFiles  BY DEF Matches, DocsOf, Kinds
<1>. HIDE DEF InFiles
<1>. QED  BY <1>3, <1>4, <1>5, FS_UNION

-----------------------------------------------------------------------------
(* The records in hand *)

\* Who has a ticket, or asks for one, has it for a record that passes.  And
\* --count-only counts, or else aq prints.
TicketInv ==
    /\ \A w \in Workers : doc[w] >= 1
    /\ \A w \in Workers :
          wpc[w] \in {"ticket", "dump", "separate"} => IsMatch(ThisDoc(w))
    /\ run.count => Indices("record") = {}
    /\ ~run.count => counted = 0

LEMMA TicketInit == Init => TicketInv
<1>. SUFFICES ASSUME Init PROVE TicketInv
  OBVIOUS
<1>1. Indices("record") = {}  BY EmptySeq DEF Init, Indices
<1>2. wpc \in [Workers -> {"pop", "none"}]  BY DEF Init
<1>. QED  BY <1>1, <1>2 DEF Init, TicketInv

\* The steps that answer nothing, and leave the workers at a record there.
LEMMA NothingAnswered ==
    ASSUME TypeInv,
           \/ EmitterStep \/ MainExit \/ ErrorRace \/ Spurious \/ Terminate
           \/ UNCHANGED vars \/ \E w \in Workers : PopTask(w)
    PROVE  UNCHANGED <<doc, limit, counted, out>>
<1>1. ASSUME NEW w \in Workers, PopTask(w) PROVE UNCHANGED <<doc, limit, counted, out>>
  BY <1>1, PopEffect DEF output
<1>. QED
  BY <1>1
  DEF EmitterStep, NoMoreFiles, BadFile, KeepHeader, NewHeader, NextFile, ReadBlock,
      PushTask, EmitterExit, EmitterFail, EmitterFailed, LeaveMainLoop, EmitterLocal,
      MainExit, ErrorRace, Spurious, Terminate, vars, output, workers

\* A worker asks for a ticket for the record it looks at, and stays there until it
\* is answered.
LEMMA WorkerRecord ==
    ASSUME TypeInv, NEW w \in Workers, WorkerStep(w), ~PopTask(w), ~Terminate
    PROVE  \E p :
              /\ Goto(w, p)
              /\ p \in {"ticket", "dump", "separate"} =>
                    /\ UNCHANGED doc
                    /\ \/ wpc[w] \in {"ticket", "dump", "separate"}
                       \/ doc[w] <= Len(TaskBlock(w).docs) /\ DocKind(w) \in Kinds
<1>1. CASE KeepDecoder(w) \/ NewDecoder(w) \/ WorkerFail(w) \/ WorkerFailed(w) \/ Stop(w)
  BY <1>1 DEF KeepDecoder, NewDecoder, WorkerFail, WorkerFailed, Stop
<1>2. CASE Decode(w) \/ Ticket(w) \/ CountDoc(w) \/ WriteDoc(w) \/ WriteSeparator(w)
  BY <1>2 DEF Decode, Ticket, CountDoc, WriteDoc, WriteSeparator, DocDone
<1>3. CASE NextDoc(w)
  <2>1. \/ \E p \in {"pop", "stop", "doc"} : Goto(w, p)
        \/ /\ Goto(w, "ticket") /\ UNCHANGED doc
           /\ doc[w] <= Len(TaskBlock(w).docs) /\ Passes(DocKind(w))
    BY <1>3 DEF NextDoc
  <2>2. \A k : Passes(k) => k \in Kinds  BY DEF Passes, Kinds
  <2>. QED  BY <2>1, <2>2
<1>. QED  BY <1>1, <1>2, <1>3 DEF WorkerStep

\* But for WriteDoc a step of a worker leaves the records that are out as they are.
LEMMA WorkerSilent ==
    ASSUME TypeInv, NEW w \in Workers, WorkerStep(w), ~PopTask(w), ~Terminate, ~WriteDoc(w)
    PROVE  /\ Indices("record")' = Indices("record")
           /\ \A i \in Indices("record") : out'[i] = out[i]
<1>1. \/ out' = out
      \/ out' = Append(out, Debug(w))
      \/ out' = Append(out, Separator(w))
  BY DEF WorkerStep, KeepDecoder, NewDecoder, WorkerFail, WorkerFailed, Stop, Decode,
         NextDoc, Ticket, CountDoc, WriteSeparator, WorkerLocal, output
<1>2. ASSUME NEW e \in Writes, e.what # "record", out' = Append(out, e)
      PROVE  /\ Indices("record")' = Indices("record")
             /\ \A i \in Indices("record") : out'[i] = out[i]
  BY <1>2, WriteKeeps DEF Indices
<1>. QED  BY <1>1, <1>2 DEF Debug, Separator, Writes, Indices

LEMMA TicketNext ==
    ASSUME TypeInv, TicketInv, [Next]_vars
    PROVE  TicketInv'
<1>1. UNCHANGED run  BY InputKept
<1>2. TypeInv  OBVIOUS
<1>3. /\ wpc \in [Workers -> WorkerPcs] /\ doc \in [Workers -> Nat]
      /\ out \in Seq(Writes)
  BY <1>2 DEF TypeInv, TypeOK, Writes
<1>4. \A d : IsMatch(d) <=> IsMatch(d)'  BY <1>1 DEF IsMatch, Kinds
<1>5. ASSUME \/ EmitterStep \/ MainExit \/ ErrorRace \/ Spurious \/ Terminate
             \/ UNCHANGED vars \/ \E w \in Workers : PopTask(w)
      PROVE  TicketInv'
  <2>1. UNCHANGED <<doc, counted, out>>  BY <1>2, <1>5, NothingAnswered
  <2>2. ASSUME NEW w \in Workers, wpc'[w] \in {"ticket", "dump", "separate"}
        PROVE  wpc[w] \in {"ticket", "dump", "separate"} /\ ThisDoc(w)' = ThisDoc(w)
    BY <1>2, <1>5, <2>1, <2>2, NothingWritten DEF ThisDoc
  <2>. QED  BY <1>1, <1>4, <2>1, <2>2 DEF TicketInv, Indices
<1>6. ASSUME NEW w \in Workers, WorkerStep(w), ~PopTask(w), ~Terminate
      PROVE  TicketInv'
  <2>1. UNCHANGED task /\ wpc[w] \notin {"none", "pop", "ended"}
    BY <1>6, WorkerMoves
  <2>2. \/ doc' = doc
        \/ doc' = [doc EXCEPT ![w] = 1]
        \/ doc' = [doc EXCEPT ![w] = doc[w] + 1]
    BY <1>6, WorkerVariables
  <2>3. \A v \in Workers : doc'[v] >= 1
    BY <1>3, <2>2 DEF TicketInv
  <2>4. PICK p : /\ Goto(w, p)
                 /\ p \in {"ticket", "dump", "separate"} =>
                       /\ UNCHANGED doc
                       /\ \/ wpc[w] \in {"ticket", "dump", "separate"}
                          \/ doc[w] <= Len(TaskBlock(w).docs) /\ DocKind(w) \in Kinds
    BY <1>2, <1>6, WorkerRecord
  <2>5. ASSUME doc[w] <= Len(TaskBlock(w).docs), DocKind(w) \in Kinds
        PROVE  IsMatch(ThisDoc(w))
    <3>1. /\ task[w] \in Task /\ Placed(task[w]) /\ ThisDoc(w) \in Doc
          /\ Len(TaskBlock(w).docs) \in Nat
          /\ DOMAIN TaskBlock(w).docs = 1..Len(TaskBlock(w).docs)
      BY <1>2, <2>1, WorkerTask
    <3>2. doc[w] \in DOMAIN TaskBlock(w).docs
      BY <1>3, <2>5, <3>1 DEF TicketInv
    <3>. QED
      BY <2>5, <3>1, <3>2 DEF IsMatch, ThisDoc, Placed, TaskBlock, DocKind
  <2>6. ASSUME p \in {"ticket", "dump", "separate"}
        PROVE  IsMatch(ThisDoc(w)) /\ UNCHANGED doc
    BY <2>4, <2>5, <2>6 DEF TicketInv
  <2>7. \A v \in Workers \ {w} : wpc'[v] = wpc[v] /\ doc'[v] = doc[v]
    BY <1>3, <2>2, <2>4 DEF Goto
  <2>8. ASSUME NEW v \in Workers, wpc'[v] \in {"ticket", "dump", "separate"}
        PROVE  IsMatch(ThisDoc(v))'
    <3>. PICK d : d = ThisDoc(v)
      OBVIOUS
    <3>1. IsMatch(d) /\ ThisDoc(v)' = d
      <4>1. CASE v = w
        BY <1>3, <2>1, <2>4, <2>6, <2>8, <4>1 DEF Goto, ThisDoc
      <4>2. CASE v # w
        BY <2>1, <2>7, <2>8, <4>2 DEF TicketInv, ThisDoc
      <4>. QED  BY <4>1, <4>2
    <3>. QED  BY <1>4, <3>1
  <2>9. ASSUME run.count PROVE Indices("record")' = {}
    <3>1. ~WriteDoc(w)  BY <2>9 DEF WriteDoc
    <3>. QED  BY <1>2, <1>6, <2>9, <3>1, WorkerSilent DEF TicketInv
  <2>10. ASSUME ~run.count PROVE UNCHANGED counted
    BY <1>6, <2>10
    DEF WorkerStep, KeepDecoder, NewDecoder, WorkerFail, WorkerFailed, Stop, Decode,
        NextDoc, Ticket, CountDoc, WriteDoc, WriteSeparator, WorkerLocal
  <2>. QED  BY <1>1, <2>3, <2>8, <2>9, <2>10 DEF TicketInv
<1>. QED  BY <1>5, <1>6 DEF Next, Step, Over

\* What is known of a run so far, whatever its input.
Base == TypeInv /\ ClosedBehind /\ HeadersInv /\ ReportInv /\ OrderInv /\ IInv
            /\ TicketInv

LEMMA BaseInit == Init => Base
BY TypeInit, ClosedInit, HeadersInit, ReportInit, OrderInit, IInvInit, TicketInit
DEF Base

LEMMA BaseNext == Base /\ [Next]_vars => Base'
BY TypeNext, ClosedNext, HeadersNext, ReportNext, OrderNext, IInvNext, TicketNext
DEF Base

-----------------------------------------------------------------------------
(* Sound input *)

\* What a sound input is like, where a task is.
LEMMA SoundTask ==
    ASSUME Base, Sound, NEW w \in Workers, task[w] # None
    PROVE  /\ TaskMeta(w).setup = "ok" /\ TaskMeta(w).codec = "ok"
           /\ TaskBlock(w).data = "ok"
           /\ \A d \in DOMAIN TaskBlock(w).docs :
                 TaskBlock(w).docs[d] \in {"match", "skip"}
<1>1. Placed(task[w]) /\ Fits(task[w])
  BY DEF Base, TypeInv, TasksPlaced, HeadersInv, TasksFit
<1>2. SoundFile(run.files[task[w].file])
  BY <1>1 DEF Placed, Sound
<1>3. SoundBlock(run.files[task[w].file], TaskBlock(w))
  BY <1>1, <1>2 DEF Placed, SoundFile, TaskBlock
<1>. QED  BY <1>1, <1>2, <1>3 DEF Fits, TaskMeta, SoundFile, SoundBlock

\* There is room for another answer.
Open == BlockWise \/ limit > 0

\* A worker between blocks, or told "no more", is through with the block it had.
BlocksDone ==
    \A w \in Workers :
        /\ wpc[w] \in {"none", "pop"} \/ ~ret[w].ok
        /\ task[w] # None
        /\ ~BlockWise
        => doc[w] > Len(TaskBlock(w).docs)

\* Nobody fails; and nobody leaves early while there is room.
NoFailure ==
    /\ epc \notin {"fail", "failing"} /\ writers = {}
    /\ \A w \in Workers : wpc[w] \notin {"fail", "failing"}

NoLeaver ==
    /\ \A w \in Workers : wpc[w] # "stop" /\ (wpc[w] = "ended" => ~ret[w].ok)
    /\ is_done => epc = "ended"
    /\ epc \in {"exit", "ended"} => file > Len(run.files)

SoundInv == Sound => BlocksDone /\ NoFailure /\ (Open => NoLeaver)

LEMMA SoundInit == Init => SoundInv
<1>. SUFFICES ASSUME Init PROVE SoundInv
  OBVIOUS
<1>1. wpc \in [Workers -> {"pop", "none"}] /\ task = [w \in Workers |-> None]
  BY DEF Init
<1>2. is_done = FALSE  BY DEF Init, Q!Init
<1>. QED
  BY <1>1, <1>2 DEF Init, SoundInv, BlocksDone, NoFailure, NoLeaver

\* Room is not given back.
LEMMA OpenKept ==
    ASSUME TypeInv, [Next]_vars, Open'
    PROVE  Open
<1>1. UNCHANGED run  BY InputKept
<1>2. limit \in Int  BY DEF TypeInv, TypeOK
<1>3. limit' = limit \/ limit' = limit - 1
  <2>1. ASSUME NEW w \in Workers, WorkerStep(w), ~PopTask(w), ~Terminate, ~Ticket(w)
        PROVE  UNCHANGED limit
    BY <2>1, WorkerMoves
  <2>. QED  BY <2>1, NothingAnswered DEF Next, Step, Over, Ticket
<1>. QED  BY <1>1, <1>2, <1>3 DEF Open, BlockWise

\* The file and the block the emitter is at.
LEMMA SoundPlace ==
    ASSUME Base, Sound
    PROVE  /\ epc = "file" /\ file <= Len(run.files) => SoundFile(CurrentFile)
           /\ epc \in {"block", "push"} => SoundFile(CurrentFile)
           /\ epc = "block" /\ block <= Len(CurrentFile.blocks) =>
                /\ CurrentBlock.frame = "ok"
                /\ CurrentBlock.sync = headers[Len(headers)].sync
<1>1. TypeInv /\ EmitterHeader  BY DEF Base, HeadersInv
<1>2. file \in Nat /\ block \in Nat /\ file >= 1 /\ block >= 1
  BY <1>1 DEF TypeInv, TypeOK, EmitterPlace
<1>3. (epc = "file" /\ file <= Len(run.files)) \/ epc \in {"block", "push"}
        => file \in DOMAIN run.files
  BY <1>1, <1>2, InputType DEF TypeInv, EmitterPlace
<1>4. file \in DOMAIN run.files => SoundFile(CurrentFile)
  BY DEF Sound, CurrentFile
<1>5. ASSUME epc = "block", block <= Len(CurrentFile.blocks)
      PROVE  SoundBlock(CurrentFile, CurrentBlock)
  <2>1. block \in DOMAIN CurrentFile.blocks
    BY <1>1, <1>2, <1>3, <1>5, InputType DEF TypeInv, CurrentFile
  <2>. QED  BY <1>3, <1>4, <1>5, <2>1 DEF SoundFile, CurrentBlock
<1>6. epc = "block" => headers[Len(headers)].sync = CurrentFile.sync
  BY <1>1 DEF EmitterHeader
<1>. QED  BY <1>3, <1>4, <1>5, <1>6 DEF SoundBlock

\* The emitter fails in nothing.
LEMMA EmitterSound ==
    ASSUME Base, Sound, SoundInv, EmitterStep, ~PushTask
    PROVE  /\ UNCHANGED <<run, status, wpc, task, doc, ret, writers, limit>>
           /\ epc' \notin {"fail", "failing"}
           /\ is_done' = is_done \/ epc' = "ended"
           /\ epc' \in {"exit", "ended"} =>
                 UNCHANGED file /\ (file > Len(run.files) \/ epc = "exit")
           /\ epc # "ended"
<1>1. epc \notin {"fail", "failing"}  BY DEF SoundInv, NoFailure
<1>2. CASE NoMoreFiles \/ NextFile \/ EmitterExit \/ KeepHeader
  BY <1>2
  DEF NoMoreFiles, NextFile, EmitterExit, Q!Done, KeepHeader, HeaderRead, LeaveMainLoop,
      EmitterLocal, input, workers, errors, qvars
<1>3. ~BadFile  BY SoundPlace DEF BadFile, SoundFile
<1>4. CASE NewHeader
  BY <1>4, SoundPlace
  DEF NewHeader, HeaderRead, SoundFile, EmitterLocal, input, workers, errors, qvars
<1>5. CASE ReadBlock
  BY <1>5, SoundPlace
  DEF ReadBlock, EmitterLocal, input, workers, errors, qvars
<1>. QED
  BY <1>1, <1>2, <1>3, <1>4, <1>5 DEF EmitterStep, EmitterFail, EmitterFailed

\* Nor does a worker; and it stops only when there is no room.
LEMMA WorkerSound ==
    ASSUME Base, Sound, SoundInv, NEW w \in Workers, WorkerStep(w), ~PopTask(w), ~Stop(w)
    PROVE  /\ UNCHANGED <<run, status, writers>>
           /\ \E p \in WorkerPcs \ {"none", "fail", "failing", "ended"} :
                 /\ Goto(w, p)
                 /\ p = "pop" => BlockWise \/ doc'[w] > Len(TaskBlock(w).docs)
                 /\ p = "stop" => ~Open'
<1>1. TypeInv /\ limit \in Int /\ wpc[w] \notin {"fail", "failing"} /\ doc[w] \in Nat
        /\ doc[w] >= 1
  BY DEF Base, TypeInv, TypeOK, SoundInv, NoFailure, TicketInv
<1>2. wpc[w] \notin {"none", "pop", "ended"} => task[w] # None
  BY <1>1 DEF TypeInv, TasksPlaced
<1>3. CASE KeepDecoder(w) \/ WriteDoc(w) \/ WriteSeparator(w) \/ CountDoc(w)
  BY <1>3
  DEF KeepDecoder, WriteDoc, WriteSeparator, CountDoc, DocDone, WorkerLocal, WorkerPcs,
      input, errors
<1>4. CASE NewDecoder(w)
  BY <1>2, <1>4, SoundTask DEF NewDecoder, WorkerPcs, input, errors
<1>5. CASE Decode(w)
  BY <1>2, <1>5, SoundTask DEF Decode, WorkerPcs, BlockWise, input, errors
<1>6. CASE NextDoc(w)
  <2>1. /\ wpc[w] = "doc" /\ UNCHANGED <<run, status, writers, limit>>
        /\ \/ Goto(w, "ticket") \/ Goto(w, "doc")
           \/ Goto(w, "pop") /\ UNCHANGED doc /\ doc[w] > Len(TaskBlock(w).docs)
           \/ Goto(w, "stop") /\ limit <= 0
           \/ doc[w] <= Len(TaskBlock(w).docs) /\ DocKind(w) \in {"eof", "bad"}
    BY <1>6 DEF NextDoc, WorkerLocal, input, errors
  <2>2. ~BlockWise  BY <2>1 DEF Base, IInv, CountedType, AtRecords
  <2>3. doc[w] <= Len(TaskBlock(w).docs) => DocKind(w) \in {"match", "skip"}
    <3>1. DOMAIN TaskBlock(w).docs = 1..Len(TaskBlock(w).docs)
            /\ Len(TaskBlock(w).docs) \in Nat
      BY <1>1, <2>1, WorkerTask
    <3>. QED  BY <1>1, <1>2, <2>1, <3>1, SoundTask DEF DocKind
  <2>4. limit <= 0 => ~Open'
    BY <1>1, <2>1, <2>2 DEF Open, BlockWise
  <2>. QED  BY <2>1, <2>3, <2>4 DEF WorkerPcs
<1>7. CASE Ticket(w)
  <2>1. /\ wpc[w] = "ticket" /\ UNCHANGED <<run, status, writers>>
        /\ limit' = limit - 1
        /\ Goto(w, IF limit <= 0 THEN "stop" ELSE "dump")
    BY <1>7 DEF Ticket, input, errors
  <2>2. ~BlockWise  BY <2>1 DEF Base, IInv, CountedType, AtRecords
  <2>3. limit <= 0 => ~Open'
    BY <1>1, <2>1, <2>2 DEF Open, BlockWise
  <2>4. CASE limit <= 0
    BY <2>1, <2>3, <2>4 DEF WorkerPcs
  <2>5. CASE ~(limit <= 0)
    BY <2>1, <2>5 DEF WorkerPcs
  <2>. QED  BY <2>4, <2>5
<1>. QED
  BY <1>1, <1>3, <1>4, <1>5, <1>6, <1>7 DEF WorkerStep, WorkerFail, WorkerFailed

\* On sound input no exception is left uncaught.
LEMMA NoAbort ==
    ASSUME Base, Sound, SoundInv, Step
    PROVE  status' # "aborted"
<1>1. TypeInv /\ status = "running"  BY DEF Base, Step
<1>2. ASSUME EmitterStep PROVE status' # "aborted"
  BY <1>1, <1>2, EmitterSound, PushEffect
<1>3. ASSUME NEW w \in Workers, WorkerStep(w) PROVE status' # "aborted"
  <2>1. CASE PopTask(w) \/ Stop(w)
    BY <1>1, <2>1, PopEffect DEF Stop
  <2>. QED  BY <1>1, <1>3, <2>1, WorkerSound
<1>4. ~ErrorRace
  <2>1. Cardinality(writers) = 0  BY FS_EmptySet DEF SoundInv, NoFailure
  <2>. QED  BY <2>1 DEF ErrorRace
<1>. QED  BY <1>1, <1>2, <1>3, <1>4 DEF Step, MainExit, Spurious

LEMMA SoundNext ==
    ASSUME Base, SoundInv, [Next]_vars
    PROVE  SoundInv'
<1>1. UNCHANGED run /\ (Sound' <=> Sound)  BY InputKept DEF Sound
<1>2. TypeInv /\ ClosedBehind  BY DEF Base
<1>3. /\ wpc \in [Workers -> WorkerPcs] /\ doc \in [Workers -> Nat]
      /\ task \in [Workers -> Task \cup {None}]
  BY <1>2 DEF TypeInv, TypeOK
<1>. SUFFICES ASSUME Sound PROVE (BlocksDone /\ NoFailure /\ (Open => NoLeaver))'
  BY <1>1 DEF SoundInv
<1>4. Open' => Open /\ NoLeaver  BY <1>2, OpenKept DEF SoundInv
<1>5. BlocksDone /\ NoFailure  BY DEF SoundInv
<1>6. CASE PushTask
  <2>1. /\ UNCHANGED <<wpc, task, doc, writers, limit, is_done, file>> /\ epc = "push"
        /\ \A w \in Workers : ret'[w] = ret[w]
        /\ epc' \in {"push", "block"} \/ (epc' = "exit" /\ is_done)
    BY <1>2, <1>6, PushEffect DEF workers, errors
  <2>2. BlocksDone' /\ NoFailure'
    BY <1>1, <1>5, <2>1 DEF BlocksDone, NoFailure, BlockWise, TaskBlock
  <2>3. Open' => NoLeaver'
    BY <1>1, <1>4, <2>1 DEF NoLeaver
  <2>. QED  BY <2>2, <2>3
<1>7. CASE EmitterStep /\ ~PushTask
  <2>1. BlocksDone' /\ NoFailure'
    BY <1>1, <1>5, <1>7, EmitterSound DEF BlocksDone, NoFailure, BlockWise, TaskBlock
  <2>2. Open' => NoLeaver'
    BY <1>1, <1>4, <1>7, EmitterSound DEF NoLeaver
  <2>. QED  BY <2>1, <2>2
<1>8. CASE MainExit \/ ErrorRace \/ Spurious \/ Terminate \/ UNCHANGED vars
  <2>1. UNCHANGED <<epc, file, wpc, task, doc, writers, limit, is_done, ret>>
    BY <1>8
    DEF MainExit, ErrorRace, Spurious, Q!SpuriousWakeup, Terminate, vars, emitter,
        workers, errors, qvars
  <2>2. BlocksDone' /\ NoFailure'
    BY <1>1, <1>5, <2>1 DEF BlocksDone, NoFailure, BlockWise, TaskBlock
  <2>3. Open' => NoLeaver'
    BY <1>1, <1>4, <2>1 DEF NoLeaver
  <2>. QED  BY <2>2, <2>3
<1>9. ASSUME NEW w \in Workers, PopTask(w)
      PROVE  (BlocksDone /\ NoFailure /\ (Open => NoLeaver))'
  <2>1. /\ wpc[w] = "pop" /\ UNCHANGED <<epc, file, writers, doc, limit, is_done>>
        /\ \A v \in Workers \ {w} : ret'[v] = ret[v]
    BY <1>2, <1>9, PopEffect DEF emitter, errors, Q!Threads
  <2>2. \/ UNCHANGED <<wpc, task, ret>>
        \/ Goto(w, "ended") /\ UNCHANGED task /\ ret'[w].ok = FALSE
        \/ /\ Goto(w, "setup") /\ task' = [task EXCEPT ![w] = Head(queue)]
           /\ ret'[w].ok = TRUE
    BY <1>2, <1>9, PopEffect
  <2>3. BlocksDone'
    BY <1>1, <1>3, <1>5, <2>1, <2>2 DEF BlocksDone, BlockWise, TaskBlock, Goto
  <2>4. NoFailure'
    BY <1>3, <1>5, <2>1, <2>2 DEF NoFailure, Goto
  <2>5. Open' => NoLeaver'
    BY <1>1, <1>3, <1>4, <2>1, <2>2 DEF NoLeaver, Goto
  <2>. QED  BY <2>3, <2>4, <2>5
<1>10. ASSUME NEW w \in Workers, Stop(w)
       PROVE  (BlocksDone /\ NoFailure /\ (Open => NoLeaver))'
  <2>1. /\ wpc[w] = "stop" /\ Goto(w, "ended")
        /\ UNCHANGED <<epc, file, writers, task, doc, limit, ret>>
    BY <1>10 DEF Stop, Q!Done, emitter, errors
  <2>2. ret[w].ok  BY <1>2, <2>1 DEF ClosedBehind
  <2>3. BlocksDone'
    BY <1>1, <1>3, <1>5, <2>1, <2>2 DEF BlocksDone, BlockWise, TaskBlock, Goto
  <2>4. NoFailure'
    BY <1>3, <1>5, <2>1 DEF NoFailure, Goto
  <2>5. ~Open'  BY <1>4, <2>1 DEF NoLeaver
  <2>. QED  BY <2>3, <2>4, <2>5
<1>11. ASSUME NEW w \in Workers, WorkerStep(w), ~PopTask(w), ~Stop(w), ~Terminate
       PROVE  (BlocksDone /\ NoFailure /\ (Open => NoLeaver))'
  <2>1. PICK p \in WorkerPcs \ {"none", "fail", "failing", "ended"} :
           /\ Goto(w, p)
           /\ p = "pop" => BlockWise \/ doc'[w] > Len(TaskBlock(w).docs)
           /\ p = "stop" => ~Open'
    BY <1>11, WorkerSound
  <2>2. /\ UNCHANGED <<epc, file, writers, task, ret, is_done>>
        /\ wpc[w] \notin {"none", "pop", "ended"}
    BY <1>2, <1>11, WorkerSound, WorkerInside, WorkerMoves, WorkerLeavesEmitter
    DEF emitter, qvars
  <2>3. \A v \in Workers \ {w} : doc'[v] = doc[v] /\ wpc'[v] = wpc[v]
    BY <1>3, <1>11, <2>1, WorkerVariables DEF Goto
  <2>4. ret[w].ok  BY <1>2, <2>2 DEF ClosedBehind
  <2>5. BlocksDone'
    BY <1>1, <1>3, <1>5, <2>1, <2>2, <2>3, <2>4 DEF BlocksDone, BlockWise, TaskBlock, Goto
  <2>6. NoFailure'
    BY <1>3, <1>5, <2>1, <2>2 DEF NoFailure, Goto
  <2>7. Open' => NoLeaver'
    BY <1>1, <1>3, <1>4, <2>1, <2>2 DEF NoLeaver, Goto
  <2>. QED  BY <2>5, <2>6, <2>7
<1>. QED  BY <1>6, <1>7, <1>8, <1>9, <1>10, <1>11 DEF Next, Step, Over

-----------------------------------------------------------------------------
(* The account *)

\* The block of the record is with worker w, which has not answered it yet.
InHand(w, d) ==
    /\ SamePlace(d, task[w])
    /\ \/ wpc[w] \in {"setup", "decode"}
       \/ /\ ~BlockWise
          /\ d.doc > doc[w] \/ (d.doc = doc[w] /\ wpc[w] # "separate")

\* Neither the emitter, nor the queue, nor a worker has it any more.
Past(d) ==
    /\ Emitted(d)
    /\ \A j \in 1..Len(queue) : ~SamePlace(d, queue[j])
    /\ \A w \in Workers : task[w] # None => ~InHand(w, d)

Settled == {d \in Matches : Past(d)}

PrintedDocs == {out[i].of : i \in Indices("record")}

\* On sound input the records that are settled are those that were printed, or as
\* many as were counted.
Accounted ==
    Sound => IF run.count THEN counted = Cardinality(Settled)
                          ELSE PrintedDocs = Settled

\* Where a match is.
LEMMA MatchPlace ==
    ASSUME TypeInv, NEW d \in Matches
    PROVE  /\ d \in Doc /\ IsMatch(d)
           /\ d.file \in 1..Len(run.files)
           /\ d.block \in 1..Len(run.files[d.file].blocks)
           /\ d.doc \in 1..Len(run.files[d.file].blocks[d.block].docs)
<1>1. IsMatch(d)  BY MatchesAre
<1>. QED  BY <1>1, InputType DEF IsMatch, TypeInv

LEMMA AccountedInit == Init => Accounted
<1>. SUFFICES ASSUME Init PROVE Accounted
  OBVIOUS
<1>1. Indices("record") = {}  BY EmptySeq DEF Init, Indices
<1>2. TypeInv  BY TypeInit
<1>3. ASSUME NEW d \in Matches PROVE ~Past(d)
  <2>1. d.file \in Nat /\ d.file >= 1
    <3>1. d \in Doc /\ d.file \in 1..Len(run.files)  BY <1>2, <1>3, MatchPlace
    <3>. QED  BY <3>1 DEF Doc
  <2>. QED  BY <2>1 DEF Past, Emitted, Init
<1>4. Settled = {}  BY <1>3 DEF Settled
<1>5. PrintedDocs = {} /\ Cardinality(Settled) = 0  BY <1>1, <1>4, FS_EmptySet DEF PrintedDocs
<1>. QED  BY <1>4, <1>5 DEF Accounted, Init

LEMMA MatchesKept == ASSUME [Next]_vars PROVE Matches' = Matches
<1>1. run' = run  BY InputKept
<1>. QED  BY <1>1 DEF Matches, DocsOf

\* A step that settles nothing and answers nothing.
LEMMA AccountedKept ==
    ASSUME Accounted, [Next]_vars,
           \A d \in Matches : Past(d)' <=> Past(d),
           UNCHANGED counted, PrintedDocs' = PrintedDocs
    PROVE  Accounted'
<1>1. Settled' = Settled  BY MatchesKept DEF Settled
<1>2. run' = run /\ (Sound' <=> Sound)  BY InputKept DEF Sound
<1>. QED  BY <1>1, <1>2 DEF Accounted

\* On sound input the emitter gets past a block only by pushing it.
LEMMA EmittedSame ==
    ASSUME Base, Sound, SoundInv, EmitterStep, ~PushTask, NEW d \in Matches
    PROVE  Emitted(d)' <=> Emitted(d)
<1>1. TypeInv  BY DEF Base
<1>2. /\ d.file \in Nat /\ d.block \in Nat /\ d.block >= 1
      /\ d.file <= Len(run.files) /\ d.block <= Len(run.files[d.file].blocks)
      /\ Len(run.files) \in Nat /\ Len(run.files[d.file].blocks) \in Nat
  <2>1. d.file \in DOMAIN run.files /\ d \in Doc
    BY <1>1, MatchPlace, InputType DEF TypeInv
  <2>. QED  BY <1>1, <2>1, MatchPlace, InputType DEF TypeInv, Doc
<1>3. file \in Nat /\ block \in Nat  BY <1>1 DEF TypeInv, TypeOK
<1>4. CASE NoMoreFiles
  BY <1>2, <1>3, <1>4 DEF NoMoreFiles, LeaveMainLoop, Emitted
<1>5. CASE KeepHeader \/ NewHeader
  <2>1. /\ epc = "file" /\ file' = file /\ block' = 1 /\ epc' # "file"
    BY <1>5 DEF KeepHeader, NewHeader, HeaderRead
  <2>. QED  BY <1>2, <1>3, <2>1 DEF Emitted
<1>6. CASE NextFile
  <2>1. /\ epc = "block" /\ block > Len(run.files[file].blocks)
        /\ epc' = "file" /\ file' = file + 1
    BY <1>6 DEF NextFile, CurrentFile
  <2>. QED  BY <1>2, <1>3, <2>1 DEF Emitted
<1>7. CASE ReadBlock \/ EmitterExit
  <2>1. epc # "file" /\ epc' # "file" /\ UNCHANGED <<file, block>>
    BY <1>7, SoundPlace DEF ReadBlock, EmitterExit
  <2>. QED  BY <2>1 DEF Emitted
<1>8. ~BadFile  BY SoundPlace DEF BadFile, SoundFile
<1>9. epc \notin {"fail", "failing"}  BY DEF SoundInv, NoFailure
<1>. QED
  BY <1>4, <1>5, <1>6, <1>7, <1>8, <1>9 DEF EmitterStep, EmitterFail, EmitterFailed

\* What the emitter pushes was not past, and is not: it is in the queue.
LEMMA EmitterSettles ==
    ASSUME Base, Sound, SoundInv, [Next]_vars, EmitterStep, NEW d \in Matches
    PROVE  Past(d)' <=> Past(d)
<1>1. TypeInv /\ run' = run  BY InputKept DEF Base
<1>2. UNCHANGED <<wpc, task, doc>>
  BY <1>1, EmitterSound, PushEffect DEF workers
<1>3. \A w \in Workers : InHand(w, d)' <=> InHand(w, d)
  BY <1>1, <1>2 DEF InHand, BlockWise, SamePlace
<1>4. CASE UNCHANGED queue /\ (Emitted(d)' <=> Emitted(d))
  BY <1>2, <1>3, <1>4 DEF Past, SamePlace
<1>5. CASE ~PushTask
  <2>1. UNCHANGED queue
    BY <1>5
    DEF EmitterStep, NoMoreFiles, BadFile, KeepHeader, NewHeader, NextFile, ReadBlock,
        EmitterExit, EmitterFail, EmitterFailed, LeaveMainLoop, EmitterLocal, Q!Done,
        Terminate, qvars
  <2>. QED  BY <1>4, <1>5, <2>1, EmittedSame
<1>6. CASE PushTask /\ UNCHANGED queue
  <2>1. epc = "push" /\ epc' # "file" /\ UNCHANGED <<file, block>>
    <3>1. queue' # Append(queue, NewTask)
      <4>1. queue \in Seq(Task) /\ NewTask \in Task /\ Len(queue) \in Nat
        BY <1>1, InputType DEF TypeInv, TypeOK, NewTask, Task
      <4>. QED  BY <1>6, <4>1, AppendProperties
    <3>. QED  BY <1>1, <1>6, <3>1, PushEffect
  <2>. QED  BY <1>4, <1>6, <2>1 DEF Emitted
<1>7. CASE PushTask /\ ~UNCHANGED queue
  <2>1. /\ epc = "push" /\ epc' = "block" /\ file' = file /\ block' = block + 1
        /\ queue' = Append(queue, NewTask)
    BY <1>1, <1>7, PushEffect
  <2>2. queue \in Seq(Task) /\ NewTask \in Task /\ Len(queue) \in Nat
    BY <1>1, InputType DEF TypeInv, TypeOK, NewTask, Task
  <2>3. /\ Len(queue') = Len(queue) + 1
        /\ \A i \in 1..Len(queue) : queue'[i] = queue[i]
        /\ queue'[Len(queue) + 1] = NewTask
    BY <2>1, <2>2, AppendProperties
  <2>4. NewTask.file = file /\ NewTask.block = block  BY DEF NewTask
  <2>5. d.file \in Nat /\ d.block \in Nat /\ file \in Nat /\ block \in Nat
    BY <1>1, MatchPlace DEF TypeInv, TypeOK, Doc
  <2>6. CASE d.file = file /\ d.block = block
    <3>1. ~Past(d)  BY <2>1, <2>5, <2>6 DEF Past, Emitted
    <3>2. ~Past(d)'  BY <2>2, <2>3, <2>4, <2>6 DEF Past, SamePlace
    <3>. QED  BY <3>1, <3>2
  <2>7. CASE ~(d.file = file /\ d.block = block)
    <3>1. Emitted(d)' <=> Emitted(d)
      BY <2>1, <2>5, <2>7 DEF Emitted
    <3>2. (\A j \in 1..Len(queue) : ~SamePlace(d, queue[j]))'
            <=> \A j \in 1..Len(queue) : ~SamePlace(d, queue[j])
      BY <2>2, <2>3, <2>4, <2>7 DEF SamePlace
    <3>. QED  BY <1>2, <1>3, <3>1, <3>2 DEF Past
  <2>. QED  BY <2>6, <2>7
<1>. QED  BY <1>5, <1>6, <1>7

\* A worker that takes a block was through with the one before.
LEMMA PopSettles ==
    ASSUME Base, Sound, SoundInv, [Next]_vars, NEW w \in Workers, PopTask(w),
           NEW d \in Matches
    PROVE  Past(d)' <=> Past(d)
<1>1. TypeInv /\ run' = run  BY InputKept DEF Base
<1>2. /\ wpc[w] = "pop" /\ UNCHANGED <<epc, file, block, doc>>
      /\ wpc \in [Workers -> WorkerPcs] /\ task \in [Workers -> Task \cup {None}]
      /\ doc \in [Workers -> Nat]
  BY <1>1, PopEffect DEF emitter, TypeInv, TypeOK
<1>3. /\ Emitted(d)' <=> Emitted(d)
      /\ BlockWise' <=> BlockWise
  BY <1>1, <1>2 DEF Emitted, BlockWise
<1>4. CASE UNCHANGED <<wpc, task, queue>>
  BY <1>1, <1>2, <1>3, <1>4 DEF Past, InHand, SamePlace
<1>5. CASE Goto(w, "ended") /\ UNCHANGED <<task, queue>>
  <2>1. \A v \in Workers : InHand(v, d)' <=> InHand(v, d)
    BY <1>2, <1>3, <1>5 DEF InHand, SamePlace, Goto
  <2>. QED  BY <1>3, <1>5, <2>1 DEF Past, SamePlace
<1>6. CASE /\ queue # <<>> /\ Goto(w, "setup")
           /\ task' = [task EXCEPT ![w] = Head(queue)]
           /\ queue' = Tail(queue)
  <2>1. /\ Head(queue) = queue[1] /\ 1 \in 1..Len(queue) /\ Len(queue) \in Nat
        /\ Len(queue') = Len(queue) - 1
        /\ \A i \in 1..Len(queue') : queue'[i] = queue[i + 1]
        /\ Head(queue) \in Task
    BY <1>1, <1>6, InputType, HeadTailProperties, LenProperties, EmptySeq DEF TypeInv
  <2>2. /\ task'[w] = queue[1] /\ wpc'[w] = "setup" /\ queue[1] # None
        /\ \A v \in Workers \ {w} : task'[v] = task[v] /\ wpc'[v] = wpc[v]
    BY <1>2, <1>6, <2>1, NoneAssumption DEF Goto
  <2>3. CASE SamePlace(d, queue[1])
    <3>1. ~Past(d)  BY <2>1, <2>3 DEF Past
    <3>2. InHand(w, d)'  BY <2>2, <2>3 DEF InHand, SamePlace
    <3>3. ~Past(d)'  BY <2>2, <3>2 DEF Past
    <3>. QED  BY <3>1, <3>3
  <2>4. CASE ~SamePlace(d, queue[1])
    <3>1. (\A j \in 1..Len(queue) : ~SamePlace(d, queue[j]))'
            <=> \A j \in 1..Len(queue) : ~SamePlace(d, queue[j])
      <4>1. ASSUME NEW j \in 1..Len(queue), j # 1
            PROVE  j - 1 \in 1..Len(queue') /\ queue'[j - 1] = queue[j]
        BY <2>1, <4>1
      <4>2. ASSUME NEW j \in 1..Len(queue')
            PROVE  j + 1 \in 1..Len(queue) /\ queue'[j] = queue[j + 1]
        BY <2>1
      <4>3. ASSUME \A j \in 1..Len(queue) : ~SamePlace(d, queue[j])
            PROVE  \A j \in 1..Len(queue') : ~SamePlace(d, queue'[j])
        BY <4>2, <4>3
      <4>4. ASSUME \A j \in 1..Len(queue') : ~SamePlace(d, queue'[j])
            PROVE  \A j \in 1..Len(queue) : ~SamePlace(d, queue[j])
        BY <2>4, <4>1, <4>4
      <4>. QED  BY <4>3, <4>4 DEF SamePlace
    <3>2. ~InHand(w, d)'  BY <2>2, <2>4 DEF InHand, SamePlace
    <3>3. task[w] # None => ~InHand(w, d)
      <4>. SUFFICES ASSUME task[w] # None, SamePlace(d, task[w]), ~BlockWise
                    PROVE  d.doc < doc[w]
        BY <1>2, MatchPlace, <1>1 DEF InHand, Doc
      <4>1. doc[w] > Len(TaskBlock(w).docs)
        BY <1>2 DEF SoundInv, BlocksDone
      <4>2. d.doc \in 1..Len(TaskBlock(w).docs) /\ d.doc \in Nat
        BY <1>1, MatchPlace DEF TaskBlock, SamePlace, Doc
      <4>3. Len(TaskBlock(w).docs) \in Nat
        BY <1>1, InputType DEF TypeInv, TasksPlaced, Placed, TaskBlock
      <4>. QED  BY <1>2, <4>1, <4>2, <4>3
    <3>4. \A v \in Workers \ {w} : InHand(v, d)' <=> InHand(v, d)
      BY <1>2, <1>3, <2>2 DEF InHand, SamePlace
    <3>5. (\A v \in Workers : task[v] # None => ~InHand(v, d))'
            <=> \A v \in Workers : task[v] # None => ~InHand(v, d)
      BY <2>2, <3>2, <3>3, <3>4
    <3>. QED  BY <1>3, <3>1, <3>5 DEF Past
  <2>. QED  BY <2>3, <2>4
<1>. QED  BY <1>1, <1>4, <1>5, <1>6, PopEffect

\* What a step of a worker takes out of its hands: all of the block if blocks are
\* counted, or the record that it answers.
LEMMA WorkerHand ==
    ASSUME Base, Sound, SoundInv, [Next]_vars, NEW w \in Workers, WorkerStep(w),
           ~PopTask(w), ~Terminate, NEW d \in Matches, SamePlace(d, task[w])
    PROVE  InHand(w, d)' <=>
             /\ InHand(w, d)
             /\ ~(BlockWise /\ Decode(w))
             /\ ~((CountDoc(w) \/ WriteDoc(w)) /\ d = ThisDoc(w))
<1>1. TypeInv /\ run' = run /\ (BlockWise' <=> BlockWise)
  BY InputKept DEF Base, BlockWise
<1>2. /\ wpc \in [Workers -> WorkerPcs] /\ doc \in [Workers -> Nat] /\ doc[w] \in Nat
      /\ d.doc \in Nat /\ d.doc >= 1 /\ d \in Doc
  BY <1>1, MatchPlace DEF TypeInv, TypeOK, Doc
<1>3. task' = task /\ wpc[w] \notin {"none", "pop", "ended"} /\ task[w] # None
  BY <1>1, WorkerMoves DEF TypeInv, TasksPlaced
<1>4. SamePlace(d, task[w])'  BY <1>3 DEF SamePlace
<1>5. d = ThisDoc(w) <=> d.doc = doc[w]
  BY <1>2 DEF ThisDoc, SamePlace, Doc
<1>6. wpc[w] \in AtRecords => ~BlockWise
  BY DEF Base, IInv, CountedType
<1>7. wpc[w] \notin {"fail", "failing"}  BY DEF SoundInv, NoFailure
<1>8. CASE KeepDecoder(w) \/ NewDecoder(w)
  BY <1>1, <1>2, <1>3, <1>4, <1>8, SoundTask
  DEF KeepDecoder, NewDecoder, Goto, InHand, Decode, CountDoc, WriteDoc
<1>9. CASE Stop(w) \/ Ticket(w)
  <2>1. /\ wpc[w] \in {"stop", "ticket"} /\ doc' = doc
        /\ \E p \in {"ended", "stop", "dump"} : Goto(w, p)
    BY <1>9 DEF Stop, Ticket
  <2>. QED
    BY <1>1, <1>2, <1>4, <2>1 DEF Goto, InHand, Decode, CountDoc, WriteDoc
<1>10. CASE Decode(w)
  <2>1. /\ wpc[w] = "decode" /\ doc' = [doc EXCEPT ![w] = 1]
        /\ Goto(w, IF BlockWise THEN "pop" ELSE "doc")
    BY <1>3, <1>10, SoundTask DEF Decode, BlockWise
  <2>. QED
    BY <1>1, <1>2, <1>4, <1>10, <2>1 DEF Goto, InHand, CountDoc, WriteDoc
<1>11. CASE NextDoc(w)
  <2>1. /\ wpc[w] = "doc"
        /\ \/ /\ UNCHANGED doc
              /\ \E p \in {"pop", "stop", "ticket"} : Goto(w, p)
           \/ /\ doc' = [doc EXCEPT ![w] = doc[w] + 1] /\ Goto(w, "doc")
              /\ DocKind(w) = "skip" /\ run.filter
    BY <1>11 DEF NextDoc, Passes
  <2>2. d.doc = doc[w] => DocKind(w) \in Kinds
    BY <1>1, MatchPlace DEF IsMatch, DocKind, TaskBlock, SamePlace
  <2>3. ~Decode(w) /\ ~CountDoc(w) /\ ~WriteDoc(w)
    BY <2>1 DEF Decode, CountDoc, WriteDoc
  <2>. QED
    BY <1>1, <1>2, <1>4, <2>1, <2>2, <2>3 DEF Goto, InHand, Kinds
<1>12. CASE CountDoc(w)
  <2>1. /\ wpc[w] = "dump" /\ doc' = [doc EXCEPT ![w] = doc[w] + 1] /\ Goto(w, "doc")
    BY <1>12 DEF CountDoc, DocDone
  <2>. QED
    BY <1>1, <1>2, <1>4, <1>5, <1>6, <1>12, <2>1 DEF Goto, InHand, Decode, AtRecords
<1>13. CASE WriteDoc(w)
  <2>1. /\ wpc[w] = "dump" /\ doc' = doc /\ Goto(w, "separate")
    BY <1>13 DEF WriteDoc
  <2>. QED
    BY <1>1, <1>2, <1>4, <1>5, <1>6, <1>13, <2>1 DEF Goto, InHand, Decode, AtRecords
<1>14. CASE WriteSeparator(w)
  <2>1. /\ wpc[w] = "separate" /\ doc' = [doc EXCEPT ![w] = doc[w] + 1]
        /\ Goto(w, "doc")
    BY <1>14 DEF WriteSeparator, DocDone
  <2>. QED
    BY <1>1, <1>2, <1>4, <2>1 DEF Goto, InHand, Decode, CountDoc, WriteDoc
<1>. QED
  BY <1>7, <1>8, <1>9, <1>10, <1>11, <1>12, <1>13, <1>14
  DEF WorkerStep, WorkerFail, WorkerFailed

\* In the block of a worker its hand decides, and elsewhere its steps do not matter.
LEMMA WorkerPast ==
    ASSUME Base, [Next]_vars, NEW w \in Workers, WorkerStep(w), ~PopTask(w), ~Terminate,
           NEW d \in Matches
    PROVE  /\ ~SamePlace(d, task[w]) => (Past(d)' <=> Past(d))
           /\ SamePlace(d, task[w]) =>
                (Past(d) <=> ~InHand(w, d)) /\ (Past(d)' <=> ~InHand(w, d)')
<1>1. TypeInv /\ run' = run /\ (BlockWise' <=> BlockWise) /\ BlocksOrdered
  BY InputKept DEF Base, BlockWise, OrderInv
<1>2. /\ UNCHANGED <<queue, task, epc, file, block>>
      /\ wpc[w] \notin {"none", "pop", "ended"} /\ task[w] # None
  BY <1>1, WorkerMoves, WorkerLeavesEmitter DEF emitter, TypeInv, TasksPlaced
<1>3. \A v \in Workers \ {w} : wpc'[v] = wpc[v] /\ doc'[v] = doc[v]
  <2>1. wpc \in [Workers -> WorkerPcs] /\ doc \in [Workers -> Nat]
    BY <1>1 DEF TypeInv, TypeOK
  <2>2. \E p : Goto(w, p)  BY WorkerMoves
  <2>3. \/ doc' = doc
        \/ doc' = [doc EXCEPT ![w] = 1]
        \/ doc' = [doc EXCEPT ![w] = doc[w] + 1]
    BY WorkerVariables
  <2>4. ASSUME NEW v \in Workers \ {w} PROVE wpc'[v] = wpc[v]
    BY <2>1, <2>2 DEF Goto
  <2>5. ASSUME NEW v \in Workers \ {w} PROVE doc'[v] = doc[v]
    BY <2>1, <2>3
  <2>. QED  BY <2>4, <2>5
<1>4. /\ Emitted(d)' <=> Emitted(d)
      /\ \A v \in Workers \ {w} : InHand(v, d)' <=> InHand(v, d)
  <2>1. Emitted(d)' <=> Emitted(d)  BY <1>2 DEF Emitted
  <2>2. ASSUME NEW v \in Workers \ {w} PROVE InHand(v, d)' <=> InHand(v, d)
    <3>1. task'[v] = task[v] /\ wpc'[v] = wpc[v] /\ doc'[v] = doc[v]
      BY <1>2, <1>3
    <3>. QED  BY <1>1, <3>1 DEF InHand, SamePlace
  <2>. QED  BY <2>1, <2>2
<1>5. ASSUME ~SamePlace(d, task[w]) PROVE Past(d)' <=> Past(d)
  <2>1. ~InHand(w, d) /\ ~InHand(w, d)'  BY <1>2, <1>5 DEF InHand, SamePlace
  <2>2. \A v \in Workers : InHand(v, d)' <=> InHand(v, d)  BY <1>4, <2>1
  <2>3. (\A j \in 1..Len(queue) : ~SamePlace(d, queue[j]))'
          <=> \A j \in 1..Len(queue) : ~SamePlace(d, queue[j])
    BY <1>2 DEF SamePlace
  <2>4. (\A v \in Workers : task[v] # None => ~InHand(v, d))'
          <=> \A v \in Workers : task[v] # None => ~InHand(v, d)
    BY <1>2, <2>2
  <2>. QED  BY <1>4, <2>3, <2>4 DEF Past
<1>6. ASSUME SamePlace(d, task[w])
      PROVE  (Past(d) <=> ~InHand(w, d)) /\ (Past(d)' <=> ~InHand(w, d)')
  <2>1. Emitted(d)  BY <1>1, <1>2, <1>6 DEF BlocksOrdered, Emitted, SamePlace
  <2>2. \A j \in 1..Len(queue) : ~SamePlace(d, queue[j])
    BY <1>1, <1>2, <1>6, PlaceType DEF BlocksOrdered, Earlier, SamePlace
  <2>3. \A v \in Workers \ {w} : task[v] # None => ~InHand(v, d)
    BY <1>1, <1>2, <1>6 DEF BlocksOrdered, SamePlace, InHand
  <2>. QED  BY <1>2, <1>4, <2>1, <2>2, <2>3 DEF Past, SamePlace
<1>. QED  BY <1>5, <1>6

\* --count-only without a filter: a block is settled as a whole.
LEMMA BlockCounted ==
    ASSUME Base, Sound, SoundInv, Accounted, [Next]_vars, NEW w \in Workers,
           Decode(w), WorkerStep(w), ~PopTask(w), ~Terminate, BlockWise
    PROVE  Accounted'
<1>. DEFINE Here == {d \in Matches : SamePlace(d, task[w])}
            n == Len(TaskBlock(w).docs)
<1>1. TypeInv /\ run' = run /\ (Sound' <=> Sound)  BY InputKept DEF Base, Sound
<1>2. /\ wpc[w] = "decode" /\ task[w] # None
      /\ counted' = counted + n
  BY <1>1, SoundTask DEF Decode, BlockWise, TypeInv, TasksPlaced
<1>3. /\ task[w] \in Task /\ Placed(task[w]) /\ n \in Nat
      /\ DOMAIN TaskBlock(w).docs = 1..n
  BY <1>1, <1>2, WorkerTask
<1>4. \A d \in Here : ~Past(d) /\ Past(d)'
  BY <1>1, <1>2, WorkerPast, WorkerHand DEF InHand
<1>5. \A d \in Matches \ Here : Past(d)' <=> Past(d)
  BY <1>1, WorkerPast
<1>6. Settled' = Settled \cup Here /\ Settled \cap Here = {}
  BY <1>4, <1>5, MatchesKept DEF Settled
<1>7. IsFiniteSet(Here) /\ Cardinality(Here) = n
  <2>. DEFINE At(i) == [file |-> task[w].file, block |-> task[w].block, doc |-> i]
              g == [i \in 1..n |-> At(i)]
  <2>1. ASSUME NEW i \in 1..n PROVE At(i) \in Here
    <3>1. TaskBlock(w).docs[i] \in Kinds
      BY <1>2, <1>3, SoundTask DEF Kinds, BlockWise
    <3>2. IsMatch(At(i))
      <4>1. /\ task[w].file \in Nat /\ task[w].block \in Nat /\ i \in Nat
            /\ task[w].file \in DOMAIN run.files
            /\ task[w].block \in DOMAIN run.files[task[w].file].blocks
        BY <1>3 DEF Task, Placed
      <4>2. At(i) \in Doc  BY <4>1 DEF Doc
      <4>. QED  BY <1>3, <3>1, <4>1, <4>2 DEF IsMatch, TaskBlock
    <3>. QED  BY <1>1, <3>2, MatchesAre DEF SamePlace
  <2>2. ASSUME NEW d \in Here PROVE d.doc \in 1..n /\ d = At(d.doc)
    BY <1>1, MatchPlace DEF SamePlace, TaskBlock, Doc
  <2>. HIDE DEF Here, n
  <2>3. g \in Bijection(1..n, Here)
    <3>1. g \in [1..n -> Here]  BY <2>1
    <3>2. \A i, j \in 1..n : g[i] = g[j] => i = j  OBVIOUS
    <3>3. \A d \in Here : \E i \in 1..n : g[i] = d  BY <2>2
    <3>. HIDE DEF g
    <3>. QED  BY <3>1, <3>2, <3>3 DEF Bijection, Injection, Surjection, IsInjective
  <2>4. IsFiniteSet(1..n) /\ Cardinality(1..n) = n
    <3>1. n \in Int /\ 1 \in Int /\ n >= 0  BY <1>3
    <3>2. IsFiniteSet(1..n) /\ Cardinality(1..n) = IF 1 > n THEN 0 ELSE n - 1 + 1
      BY <3>1, FS_Interval
    <3>. QED  BY <3>1, <3>2
  <2>5. ExistsBijection(1..n, Here)  BY <2>3 DEF ExistsBijection
  <2>. QED  BY <2>4, <2>5, FS_Bijection
<1>8. IsFiniteSet(Settled) /\ Cardinality(Settled) \in Nat
  BY <1>1, MatchesFinite, FS_Subset, FS_CardinalityType DEF Settled
<1>. HIDE DEF Here, n
<1>9. Cardinality(Settled') = Cardinality(Settled) + n
  <2>1. Cardinality(Settled \cap Here) = 0  BY <1>6, FS_EmptySet
  <2>2. Cardinality(Settled \cup Here)
          = Cardinality(Settled) + Cardinality(Here) - Cardinality(Settled \cap Here)
    BY <1>7, <1>8, FS_Union
  <2>. QED  BY <1>3, <1>6, <1>7, <1>8, <2>1, <2>2
<1>10. run.count  BY DEF BlockWise
<1>. QED  BY <1>1, <1>2, <1>9, <1>10 DEF Accounted

\* The record that a worker answers was not settled before.
LEMMA RecordAnswered ==
    ASSUME Base, Sound, SoundInv, Accounted, [Next]_vars, NEW w \in Workers,
           CountDoc(w) \/ WriteDoc(w), WorkerStep(w), ~PopTask(w), ~Terminate
    PROVE  Accounted'
<1>. PICK d : d = ThisDoc(w)
  OBVIOUS
<1>1. TypeInv /\ TicketInv /\ run' = run /\ (Sound' <=> Sound)
  BY InputKept DEF Base, Sound
<1>2. wpc[w] = "dump" /\ ~BlockWise /\ ~Decode(w)
  BY DEF CountDoc, WriteDoc, Decode, Base, IInv, CountedType, AtRecords
<1>3. d \in Matches /\ SamePlace(d, task[w])
  BY <1>1, <1>2, MatchesAre DEF TicketInv, ThisDoc, SamePlace
<1>4. InHand(w, d)  BY <1>2, <1>3 DEF InHand, ThisDoc
<1>5. ~Past(d) /\ Past(d)'
  BY <1>3, <1>4, WorkerPast, WorkerHand
<1>6. \A c \in Matches \ {d} : Past(c)' <=> Past(c)
  BY <1>2, WorkerPast, WorkerHand
<1>7. Settled' = Settled \cup {d} /\ d \notin Settled
  BY <1>3, <1>5, <1>6, MatchesKept DEF Settled
<1>8. IsFiniteSet(Settled)  BY <1>1, MatchesFinite, FS_Subset DEF Settled
<1>9. CASE CountDoc(w)
  <2>1. run.count /\ counted' = counted + 1  BY <1>9 DEF CountDoc
  <2>2. Cardinality(Settled') = Cardinality(Settled) + 1
    BY <1>7, <1>8, CardinalityChange
  <2>. QED  BY <1>1, <2>1, <2>2 DEF Accounted
<1>10. CASE WriteDoc(w)
  <2>1. ~run.count /\ out' = Append(out, Record(w, d))  BY <1>10 DEF WriteDoc
  <2>2. Record(w, d) \in Writes /\ Record(w, d).what = "record" /\ Record(w, d).of = d
    BY <1>1, <1>3, MatchPlace DEF Record, Writes
  <2>3. PrintedDocs' = PrintedDocs \cup {d}
    <3>1. /\ Indices("record")' = Indices("record") \cup {Len(out) + 1}
          /\ \A i \in Indices("record") : out'[i] = out[i]
          /\ out'[Len(out) + 1].of = d
      BY <1>1, <2>1, <2>2, WriteKeeps DEF Indices
    <3>. QED  BY <3>1 DEF PrintedDocs
  <2>. QED  BY <1>1, <1>7, <2>1, <2>3 DEF Accounted
<1>. QED  BY <1>9, <1>10

LEMMA AccountedNext ==
    ASSUME Base, SoundInv, Accounted, [Next]_vars
    PROVE  Accounted'
<1>1. TypeInv /\ run' = run /\ (Sound' <=> Sound)  BY InputKept DEF Base, Sound
<1>. SUFFICES ASSUME Sound PROVE Accounted'
  BY <1>1 DEF Accounted
<1>2. CASE EmitterStep \/ \E w \in Workers : PopTask(w)
  <2>1. \A d \in Matches : Past(d)' <=> Past(d)
    BY <1>2, EmitterSettles, PopSettles
  <2>2. UNCHANGED <<counted, out>>  BY <1>1, <1>2, NothingAnswered
  <2>. QED  BY <2>1, <2>2, AccountedKept DEF PrintedDocs, Indices
<1>3. CASE MainExit \/ ErrorRace \/ Spurious \/ Terminate \/ UNCHANGED vars
  <2>1. UNCHANGED <<epc, file, block, queue, wpc, task, doc, counted, out>>
    BY <1>3
    DEF MainExit, ErrorRace, Spurious, Q!SpuriousWakeup, Terminate, vars, emitter,
        workers, output, qvars
  <2>2. \A d \in Matches : Past(d)' <=> Past(d)
    BY <1>1, <2>1 DEF Past, Emitted, InHand, SamePlace, BlockWise
  <2>. QED  BY <2>1, <2>2, AccountedKept DEF PrintedDocs, Indices
<1>4. ASSUME NEW w \in Workers, WorkerStep(w), ~PopTask(w), ~Terminate,
             ~(BlockWise /\ Decode(w)), ~CountDoc(w), ~WriteDoc(w)
      PROVE  Accounted'
  <2>1. \A d \in Matches : Past(d)' <=> Past(d)
    BY <1>4, WorkerPast, WorkerHand
  <2>2. UNCHANGED counted
    BY <1>4
    DEF WorkerStep, KeepDecoder, NewDecoder, WorkerFail, WorkerFailed, Stop, Decode,
        NextDoc, Ticket, WriteSeparator, WorkerLocal, BlockWise
  <2>3. PrintedDocs' = PrintedDocs
    BY <1>1, <1>4, WorkerSilent DEF PrintedDocs
  <2>. QED  BY <2>1, <2>2, <2>3, AccountedKept
<1>. QED
  BY <1>2, <1>3, <1>4, BlockCounted, RecordAnswered DEF Next, Step, Over

-----------------------------------------------------------------------------
(* The end *)

\* main starts one worker at least (correctJobsNumber).
Started == \E w \in Workers : wpc[w] # "none"

LEMMA StartedInit == Init => Started
<1>. SUFFICES ASSUME Init PROVE Started
  OBVIOUS
<1>1. PICK started \in SUBSET Workers :
        /\ Cardinality(started) = correctJobsNumber(run.jobs)
        /\ wpc = [w \in Workers |-> IF w \in started THEN "pop" ELSE "none"]
  BY DEF Init
<1>2. Cardinality(Workers) \in Nat  BY WorkersAssumption, FS_CardinalityType
<1>3. MaxJobs \in Nat /\ MaxJobs >= 1  BY <1>2, JobsAssumption
<1>4. run.jobs \in Nat  BY RunsAssumption DEF Init
<1>5. correctJobsNumber(run.jobs) >= 1
  BY <1>3, <1>4 DEF correctJobsNumber
<1>6. started # {}
  <2>1. Cardinality({}) = 0  BY FS_EmptySet
  <2>. QED  BY <1>1, <1>5, <2>1
<1>. QED  BY <1>1, <1>6 DEF Started

LEMMA StartedNext ==
    ASSUME TypeInv, Started, [Next]_vars
    PROVE  Started'
<1>1. PICK v \in Workers : wpc[v] # "none"  BY DEF Started
<1>2. ASSUME \/ EmitterStep \/ MainExit \/ ErrorRace \/ Spurious \/ Terminate
             \/ UNCHANGED vars \/ \E w \in Workers : PopTask(w)
      PROVE  Started'
  BY <1>1, <1>2, NothingWritten DEF Started
<1>3. ASSUME NEW w \in Workers, WorkerStep(w), ~PopTask(w), ~Terminate
      PROVE  Started'
  <2>1. PICK p \in WorkerPcs \ {"none"} : Goto(w, p)
    <3>1. Stop(w) => Goto(w, "ended")  BY DEF Stop
    <3>. QED  BY <1>3, <3>1, WorkerInside DEF WorkerPcs
  <2>. QED  BY <1>1, <2>1 DEF Started, Goto, TypeInv, TypeOK
<1>. QED  BY <1>2, <1>3 DEF Next, Step, Over

StreamInv == Base /\ SoundInv /\ Accounted /\ Started

LEMMA StreamInvInit == Init => StreamInv
BY BaseInit, SoundInit, AccountedInit, StartedInit DEF StreamInv

LEMMA StreamInvNext == StreamInv /\ [Next]_vars => StreamInv'
<1>. SUFFICES ASSUME StreamInv, [Next]_vars PROVE StreamInv'
  OBVIOUS
<1>1. Base /\ SoundInv /\ Accounted /\ Started /\ TypeInv  BY DEF StreamInv, Base
<1>. QED  BY <1>1, BaseNext, SoundNext, AccountedNext, StartedNext DEF StreamInv

\* When everybody has left, every match is settled, or the limit is used up.
LEMMA AllSettled ==
    ASSUME StreamInv, Sound, epc = "ended",
           \A w \in Workers : wpc[w] \in {"none", "ended"}
    PROVE  /\ Open => Settled = Matches
           /\ ~Open => limit <= 0 /\ ~BlockWise
           /\ Answered + Max(limit, 0) = Bound
<1>1. TypeInv /\ ClosedBehind /\ SoundInv /\ BlocksDone /\ IInv
  BY DEF StreamInv, Base, SoundInv
<1>2. limit \in Int /\ file \in Nat /\ doc \in [Workers -> Nat]
  BY <1>1 DEF TypeInv, TypeOK
<1>3. Answered + Max(limit, 0) = Bound
  <2>1. Dumping = {}  BY DEF Dumping
  <2>2. Cardinality(Dumping) = 0  BY <2>1, DumpingFinite
  <2>3. Answered \in Nat /\ Bound \in Nat /\ Max(limit, 0) \in Nat
    BY <1>1, AnsweredType
  <2>4. Answered + Cardinality(Dumping) + Max(limit, 0) = Bound  BY <1>1 DEF IInv
  <2>. HIDE DEF Answered, Bound, Max, Dumping
  <2>. QED  BY <2>2, <2>3, <2>4
<1>4. ASSUME Open, NEW d \in Matches
      PROVE  Past(d)
  <2>1. NoLeaver  BY <1>1, <1>4 DEF SoundInv
  <2>2. /\ d \in Doc /\ d.file \in 1..Len(run.files) /\ Len(run.files) \in Nat
        /\ d.doc \in 1..Len(run.files[d.file].blocks[d.block].docs)
    BY <1>1, MatchPlace, InputType DEF TypeInv
  <2>3. Emitted(d)
    BY <1>2, <2>1, <2>2 DEF NoLeaver, Emitted
  <2>4. Len(queue) = 0
    <3>1. PICK v \in Workers : wpc[v] = "ended"  BY DEF StreamInv, Started
    <3>2. queue = <<>>  BY <1>1, <2>1, <3>1 DEF NoLeaver, ClosedBehind
    <3>. QED  BY <3>2, EmptySeq
  <2>5. ASSUME NEW w \in Workers, task[w] # None, SamePlace(d, task[w]), ~BlockWise
        PROVE  d.doc < doc[w]
    <3>1. doc[w] > Len(TaskBlock(w).docs)
      BY <1>1, <2>1, <2>5 DEF BlocksDone, NoLeaver
    <3>2. d.doc \in 1..Len(TaskBlock(w).docs) /\ d.doc \in Nat /\ doc[w] \in Nat
      BY <1>2, <2>2, <2>5 DEF TaskBlock, SamePlace, Doc
    <3>3. Len(TaskBlock(w).docs) \in Nat
      BY <1>1, <2>5, InputType DEF TypeInv, TasksPlaced, Placed, TaskBlock
    <3>. QED  BY <3>1, <3>2, <3>3
  <2>6. \A w \in Workers : task[w] # None => ~InHand(w, d)
    BY <1>2, <2>2, <2>5 DEF InHand, Doc
  <2>. QED  BY <2>3, <2>4, <2>6 DEF Past
<1>. QED  BY <1>2, <1>3, <1>4 DEF Settled, Open

\* The total of --count-only is exact, on sound input: all the records, or with a
\* filter the matches up to the limit; for every number of workers and schedule.
THEOREM CountExactAlways == Spec => []CountExact
<1>1. StreamInv => CountExact
  <2>. SUFFICES ASSUME StreamInv, run.count, Exited, Sound
                PROVE  counted = IF run.filter
                                 THEN IF Cardinality(Matches) < Bound
                                      THEN Cardinality(Matches) ELSE Bound
                                 ELSE Cardinality(Matches)
    BY DEF CountExact
  <2>1. /\ TypeInv /\ TicketInv /\ epc = "ended"
        /\ \A w \in Workers : wpc[w] \in {"none", "ended"}
    BY DEF StreamInv, Base, ReportInv, GoodEnd
  <2>2. counted = Cardinality(Settled)  BY DEF StreamInv, Accounted
  <2>3. IsFiniteSet(Matches) /\ Settled \subseteq Matches
    BY <2>1, MatchesFinite DEF Settled
  <2>4. /\ Cardinality(Matches) \in Nat /\ Cardinality(Settled) \in Nat
        /\ Cardinality(Settled) <= Cardinality(Matches)
    BY <2>3, FS_CardinalityType, FS_Subset
  <2>5. /\ Open => Settled = Matches
        /\ ~Open => limit <= 0 /\ ~BlockWise
        /\ Answered + Max(limit, 0) = Bound
    BY <2>1, AllSettled
  <2>6. CASE ~run.filter
    BY <2>2, <2>5, <2>6 DEF Open, BlockWise
  <2>7. CASE run.filter
    <3>1. Cardinality(Indices("record")) = 0
      BY <2>1, FS_EmptySet DEF TicketInv
    <3>2. counted \in Nat /\ limit \in Int  BY <2>1 DEF TypeInv, TypeOK
    <3>3. Answered = counted  BY <2>7, <3>1, <3>2 DEF Answered
    <3>4. counted + Max(limit, 0) = Bound  BY <2>5, <3>3
    <3>. HIDE DEF Bound, Settled, Matches
    <3>5. CASE limit > 0
      <4>1. Settled = Matches  BY <2>5, <3>5 DEF Open
      <4>2. Max(limit, 0) = limit  BY <3>2, <3>5 DEF Max
      <4>. QED  BY <2>2, <2>7, <3>2, <3>4, <3>5, <4>1, <4>2
    <3>6. CASE ~(limit > 0)
      <4>1. Max(limit, 0) = 0  BY <3>2, <3>6 DEF Max
      <4>. QED  BY <2>2, <2>4, <2>7, <3>2, <3>4, <4>1
    <3>. QED  BY <3>5, <3>6
  <2>. QED  BY <2>6, <2>7
<1>. QED  BY <1>1, StreamInvInit, StreamInvNext, PTL DEF Spec

-----------------------------------------------------------------------------
(* The stream of records *)

\* The records of `out' are numbered through.
Ranked ==
    /\ \A n \in 1..Cardinality(Indices("record")) :
          \E i \in Indices("record") : WithRank(n) = {i}
    /\ \A i \in Indices("record") :
          \E n \in 1..Cardinality(Indices("record")) : WithRank(n) = {i}

LEMMA RankedInit == Init => Ranked
<1>. SUFFICES ASSUME Init PROVE Ranked
  OBVIOUS
<1>1. Indices("record") = {}  BY EmptySeq DEF Init, Indices
<1>2. Cardinality(Indices("record")) = 0  BY <1>1, FS_EmptySet
<1>. QED  BY <1>1, <1>2 DEF Ranked

\* What the number of a record is.
LEMMA RankedPrinted ==
    ASSUME TypeInv, Ranked
    PROVE  /\ PrintedRecords \in Seq(Doc \cup {None})
           /\ Len(PrintedRecords) = Cardinality(Indices("record"))
           /\ Cardinality(Indices("record")) \in Nat
           /\ \A n \in 1..Cardinality(Indices("record")) :
                 \A i \in Indices("record") :
                    WithRank(n) = {i} => PrintedRecords[n] = out[i].of
           /\ Stream!PrintedSet = PrintedDocs
<1>. DEFINE K == Cardinality(Indices("record"))
            S == Doc \cup {None}
<1>1. K \in Nat  BY IndicesFinite DEF TypeInv, TypeOK
<1>2. ASSUME NEW n \in 1..K, NEW i \in Indices("record"), WithRank(n) = {i}
      PROVE  PrintedRecords[n] = out[i].of
  <2>1. (CHOOSE j \in WithRank(n) : TRUE) = i  BY <1>2
  <2>. QED  BY <2>1 DEF PrintedRecords
<1>3. \A i \in Indices("record") : out[i].of \in S
  BY RecordType DEF Writes
<1>4. \A n \in 1..K : PrintedRecords[n] \in S
  BY <1>2, <1>3 DEF Ranked
<1>5. DOMAIN PrintedRecords = 1..K /\ PrintedRecords = [n \in 1..K |-> PrintedRecords[n]]
  BY DEF PrintedRecords
<1>. HIDE DEF K, S
<1>6. PrintedRecords \in [1..K -> S]  BY <1>4, <1>5
<1>7. PrintedRecords \in Seq(S)  BY <1>1, <1>6, SeqDef
<1>8. Len(PrintedRecords) = K
  <2>1. Len(PrintedRecords) \in Nat /\ 1..Len(PrintedRecords) = 1..K
    BY <1>5, <1>7, LenProperties
  <2>. QED  BY <1>1, <2>1
<1>9. Stream!PrintedSet = PrintedDocs
  <2>1. Stream!PrintedSet = {PrintedRecords[n] : n \in 1..K}
    BY <1>8 DEF Stream!PrintedSet
  <2>2. ASSUME NEW n \in 1..K PROVE PrintedRecords[n] \in PrintedDocs
    BY <1>2 DEF PrintedDocs, Ranked, K
  <2>3. ASSUME NEW i \in Indices("record")
        PROVE  \E n \in 1..K : PrintedRecords[n] = out[i].of
    BY <1>2 DEF Ranked, K
  <2>. QED  BY <2>1, <2>2, <2>3 DEF PrintedDocs
<1>. QED  BY <1>1, <1>2, <1>7, <1>8, <1>9 DEF K, S

\* Nothing new to number.
LEMMA RankedSame ==
    ASSUME TypeInv, Ranked, Indices("record")' = Indices("record"),
           \A i \in Indices("record") : out'[i] = out[i]
    PROVE  Ranked' /\ PrintedRecords' = PrintedRecords
<1>1. \A n : WithRank(n)' = WithRank(n)  BY DEF WithRank
<1>2. Ranked'  BY <1>1 DEF Ranked
<1>3. ASSUME NEW n \in 1..Cardinality(Indices("record"))
      PROVE  out'[CHOOSE i \in WithRank(n)' : TRUE].of
               = out[CHOOSE i \in WithRank(n) : TRUE].of
  <2>1. PICK j \in Indices("record") : WithRank(n) = {j}  BY DEF Ranked
  <2>2. (CHOOSE i \in WithRank(n) : TRUE) = j  BY <2>1
  <2>. QED  BY <1>1, <2>2
<1>4. PrintedRecords' = PrintedRecords
  BY <1>3 DEF PrintedRecords
<1>. QED  BY <1>2, <1>4

\* A new record has the next number.
LEMMA RankedWrite ==
    ASSUME TypeInv, Ranked, NEW e \in Writes, e.what = "record", out' = Append(out, e)
    PROVE  Ranked' /\ PrintedRecords' = Append(PrintedRecords, e.of)
<1>. PICK I : I = Indices("record")
  OBVIOUS
<1>. PICK J : J = Indices("record")'
  OBVIOUS
<1>. PICK K : K = Cardinality(I)
  OBVIOUS
<1>. PICK m : m = Len(out) + 1
  OBVIOUS
<1>. DEFINE Old(i) == Cardinality({k \in I : k <= i})
            New(i) == Cardinality({k \in J : k <= i})
<1>1. /\ Len(out) \in Nat /\ Len(out') = m
      /\ \A i \in 1..Len(out) : out'[i] = out[i]
      /\ out'[m] = e
  BY WriteKeeps
<1>2. J = I \cup {m} /\ I \subseteq 1..Len(out) /\ m \notin I
  BY <1>1 DEF Indices
<1>3. IsFiniteSet(I) /\ K \in Nat  BY IndicesFinite DEF TypeInv, TypeOK
<1>4. Cardinality(J) = K + 1  BY <1>2, <1>3, CardinalityChange
<1>5. ASSUME NEW i \in I
      PROVE  New(i) = Old(i) /\ Old(i) \in Nat /\ Old(i) <= K
  <2>1. {k \in J : k <= i} = {k \in I : k <= i}  BY <1>1, <1>2
  <2>2. {k \in I : k <= i} \subseteq I  OBVIOUS
  <2>. QED  BY <1>3, <2>1, <2>2, CardinalityChange
<1>6. New(m) = K + 1
  <2>1. {k \in J : k <= m} = J  BY <1>1, <1>2
  <2>. QED  BY <1>4, <2>1
<1>7. \A n : WithRank(n) = {i \in I : Old(i) = n}  BY DEF WithRank
<1>8. \A n : WithRank(n)' = {i \in J : New(i) = n}  BY DEF WithRank
<1>. HIDE DEF Old, New
<1>9. ASSUME NEW n \in 1..K PROVE WithRank(n)' = WithRank(n)
  <2>1. n # K + 1  BY <1>3
  <2>2. {i \in J : New(i) = n} = {i \in I : Old(i) = n}
    BY <1>2, <1>5, <1>6, <2>1
  <2>. QED  BY <1>7, <1>8, <2>2
<1>10. WithRank(K + 1)' = {m}
  BY <1>2, <1>3, <1>5, <1>6, <1>8
<1>11. /\ \A n \in 1..K : \E i \in I : WithRank(n) = {i}
       /\ \A i \in I : \E n \in 1..K : WithRank(n) = {i}
  BY DEF Ranked
<1>12. Ranked'
  <2>1. ASSUME NEW n \in 1..(K + 1) PROVE \E i \in J : WithRank(n)' = {i}
    <3>1. CASE n \in 1..K  BY <1>2, <1>9, <1>11, <3>1
    <3>2. CASE n = K + 1  BY <1>2, <1>10, <3>2
    <3>. QED  BY <1>3, <3>1, <3>2
  <2>2. ASSUME NEW i \in J PROVE \E n \in 1..(K + 1) : WithRank(n)' = {i}
    <3>1. CASE i \in I
      <4>1. PICK n \in 1..K : WithRank(n) = {i}  BY <1>11, <3>1
      <4>2. n \in 1..(K + 1)  BY <1>3
      <4>. QED  BY <1>9, <4>1, <4>2
    <3>2. CASE i = m
      <4>1. K + 1 \in 1..(K + 1)  BY <1>3
      <4>. QED  BY <1>10, <3>2, <4>1
    <3>. QED  BY <1>2, <3>1, <3>2
  <2>. QED  BY <1>4, <2>1, <2>2 DEF Ranked
<1>13. /\ PrintedRecords \in Seq(Doc \cup {None}) /\ Len(PrintedRecords) = K
       /\ \A n \in 1..K : \A i \in I : WithRank(n) = {i} => PrintedRecords[n] = out[i].of
  BY RankedPrinted
<1>14. PrintedRecords' =
         [n \in 1..(K + 1) |-> out'[CHOOSE i \in WithRank(n)' : TRUE].of]
  BY <1>4 DEF PrintedRecords
<1>15. ASSUME NEW n \in 1..K
       PROVE  PrintedRecords'[n] = PrintedRecords[n]
  <2>1. PICK j \in I : WithRank(n) = {j}  BY <1>11
  <2>2. (CHOOSE i \in WithRank(n)' : TRUE) = j  BY <1>9, <2>1
  <2>3. out'[j] = out[j]  BY <1>1, <1>2
  <2>4. n \in 1..(K + 1)  BY <1>3
  <2>5. PrintedRecords'[n] = out'[CHOOSE i \in WithRank(n)' : TRUE].of
    BY <1>14, <2>4
  <2>. QED  BY <1>13, <2>1, <2>2, <2>3, <2>5
<1>16. PrintedRecords'[K + 1] = e.of
  <2>1. (CHOOSE i \in WithRank(K + 1)' : TRUE) = m  BY <1>10
  <2>2. K + 1 \in 1..(K + 1)  BY <1>3
  <2>3. PrintedRecords'[K + 1] = out'[CHOOSE i \in WithRank(K + 1)' : TRUE].of
    BY <1>14, <2>2
  <2>. QED  BY <1>1, <2>1, <2>3
<1>17. PrintedRecords' = Append(PrintedRecords, e.of)
  <2>. PICK a : a = Append(PrintedRecords, e.of)
    OBVIOUS
  <2>. PICK b : b = PrintedRecords'
    OBVIOUS
  <2>1. e.of \in Doc \cup {None}  BY DEF Writes
  <2>2. /\ a \in Seq(Doc \cup {None}) /\ Len(a) = K + 1
        /\ \A n \in 1..K : a[n] = PrintedRecords[n]
        /\ a[K + 1] = e.of
    BY <1>13, <2>1, AppendProperties
  <2>3. DOMAIN a = 1..(K + 1) /\ a = [n \in 1..(K + 1) |-> a[n]]
    BY <2>2, LenProperties
  <2>4. b = [n \in 1..(K + 1) |-> b[n]]
    <3>. DEFINE v(n) == out'[CHOOSE i \in WithRank(n)' : TRUE].of
    <3>1. b = [n \in 1..(K + 1) |-> v(n)]  BY <1>14
    <3>. HIDE DEF v
    <3>. QED  BY <3>1
  <2>5. ASSUME NEW n \in 1..(K + 1) PROVE a[n] = b[n]
    <3>1. n \in 1..K \/ n = K + 1  BY <1>3
    <3>. QED  BY <1>15, <1>16, <2>2, <3>1
  <2>6. a = b  BY <2>3, <2>4, <2>5
  <2>. QED  BY <2>6
<1>. QED  BY <1>12, <1>17

\* But for WriteDoc, no step changes the records that are out.
LEMMA RankedKept ==
    ASSUME TypeInv, Ranked, [Next]_vars, \A w \in Workers : ~WriteDoc(w)
    PROVE  Ranked' /\ PrintedRecords' = PrintedRecords
<1>1. ASSUME \/ EmitterStep \/ MainExit \/ ErrorRace \/ Spurious \/ Terminate
             \/ UNCHANGED vars \/ \E w \in Workers : PopTask(w)
      PROVE  Ranked' /\ PrintedRecords' = PrintedRecords
  <2>1. out' = out  BY <1>1, NothingAnswered
  <2>. QED  BY <2>1, RankedSame DEF Indices
<1>2. ASSUME NEW w \in Workers, WorkerStep(w), ~PopTask(w), ~Terminate
      PROVE  Ranked' /\ PrintedRecords' = PrintedRecords
  BY <1>2, WorkerSilent, RankedSame
<1>. QED  BY <1>1, <1>2 DEF Next, Step, Over

\* WriteDoc adds one.
LEMMA RankedAdded ==
    ASSUME TypeInv, TicketInv, Ranked, NEW w \in Workers, WriteDoc(w)
    PROVE  Ranked' /\ PrintedRecords' = Append(PrintedRecords, ThisDoc(w))
<1>1. wpc[w] = "dump" /\ out' = Append(out, Record(w, ThisDoc(w)))  BY DEF WriteDoc
<1>2. ThisDoc(w) \in Doc  BY <1>1 DEF TicketInv, IsMatch
<1>. PICK e : e = Record(w, ThisDoc(w))
  OBVIOUS
<1>3. e \in Writes /\ e.what = "record" /\ e.of = ThisDoc(w)
  BY <1>2 DEF Record, Writes
<1>4. out' = Append(out, e)  BY <1>1
<1>. QED  BY <1>3, <1>4, RankedWrite

LEMMA RankedNext ==
    ASSUME TypeInv, TicketInv, Ranked, [Next]_vars
    PROVE  Ranked'
BY RankedKept, RankedAdded

\* status changes when main ends, or by an exception that nothing catches.
LEMMA StatusKept ==
    ASSUME TypeInv, Step, ~MainExit, ~Terminate
    PROVE  UNCHANGED status
<1>1. ASSUME EmitterStep PROVE UNCHANGED status
  BY <1>1
  DEF EmitterStep, NoMoreFiles, BadFile, KeepHeader, NewHeader, NextFile, ReadBlock,
      PushTask, EmitterExit, EmitterFail, EmitterFailed, LeaveMainLoop, EmitterLocal
<1>2. ASSUME NEW w \in Workers, WorkerStep(w) PROVE UNCHANGED status
  BY <1>2
  DEF WorkerStep, PopTask, KeepDecoder, NewDecoder, WorkerFail, WorkerFailed, Stop,
      Decode, NextDoc, Ticket, CountDoc, WriteDoc, WriteSeparator, WorkerLocal
<1>. QED  BY <1>1, <1>2 DEF Step, ErrorRace, Spurious

\* What RecordStream is told of the input stays as it is.
LEMMA StreamInputKept ==
    ASSUME [Next]_vars
    PROVE  /\ (IF run.count THEN {} ELSE Matches)' = IF run.count THEN {} ELSE Matches
           /\ Bound' = Bound
           /\ Sound' = Sound
<1>1. run' = run /\ Matches' = Matches  BY InputKept, MatchesKept
<1>2. Sound' = Sound  BY <1>1 DEF Sound
<1>. QED  BY <1>1, <1>2 DEF Bound, InitialLimit, Max

\* Who writes a record writes one that nobody wrote before, and the limit allows.
LEMMA EmitStep ==
    ASSUME StreamInv, Ranked, Step, NEW w \in Workers, WriteDoc(w)
    PROVE  Stream!Next
<1>. PICK d : d = ThisDoc(w)
  OBVIOUS
<1>1. Base /\ TypeInv /\ TicketInv /\ IInv /\ OrderInv /\ [Next]_vars
  BY DEF StreamInv, Base, Next
<1>2. /\ wpc[w] = "dump" /\ ~run.count /\ status = "running"
      /\ status' = status
  BY DEF WriteDoc, Step
<1>3. IsMatch(d) /\ d \in Matches
  BY <1>1, <1>2, MatchesAre DEF TicketInv
<1>4. /\ Stream!PrintedSet = PrintedDocs
      /\ Len(PrintedRecords) = Cardinality(Indices("record"))
  BY <1>1, RankedPrinted
<1>5. d \notin PrintedDocs
  <2>. SUFFICES ASSUME NEW i \in Indices("record"), out[i].of = d PROVE FALSE
    BY DEF PrintedDocs
  <2>1. Written(d, out[i].by) /\ out[i].by \in Workers
    BY <1>1, RecordType DEF OrderInv, WrittenDone
  <2>2. task[w] # None /\ SamePlace(d, task[w]) /\ d.doc = doc[w]
    BY <1>1, <1>2 DEF ThisDoc, SamePlace, TypeInv, TasksPlaced
  <2>3. out[i].by = w  BY <2>1, <2>2 DEF Written
  <2>4. d.file \in Nat /\ d.block \in Nat /\ d.doc \in Nat
    BY <1>3 DEF IsMatch, Doc
  <2>. QED  BY <1>2, <2>1, <2>2, <2>3, <2>4 DEF Written, DoneBy, Earlier, SamePlace
<1>6. Cardinality(Indices("record")) < Bound
  <2>1. Cardinality(Dumping) \in Nat /\ Cardinality(Dumping) # 0
    <3>1. w \in Dumping  BY <1>2 DEF Dumping
    <3>. QED  BY <3>1, DumpingFinite, FS_EmptySet
  <2>2. Answered \in Nat /\ Bound \in Nat /\ Max(limit, 0) \in Nat
    BY <1>1, AnsweredType
  <2>3. Answered + Cardinality(Dumping) + Max(limit, 0) = Bound
    BY <1>1 DEF IInv
  <2>4. Answered = Cardinality(Indices("record"))
    <3>1. counted = 0  BY <1>1, <1>2 DEF TicketInv
    <3>2. Cardinality(Indices("record")) \in Nat  BY <1>1, RankedPrinted
    <3>. QED  BY <3>1, <3>2 DEF Answered
  <2>. HIDE DEF Answered, Bound, Max, Dumping
  <2>. QED  BY <2>1, <2>2, <2>3, <2>4
<1>7. PrintedRecords' = Append(PrintedRecords, d)  BY <1>1, RankedAdded
<1>8. (IF Exited THEN "exited" ELSE status)' = (IF Exited THEN "exited" ELSE status)
        /\ ~Exited
  BY <1>2 DEF Exited
<1>9. Stream!Emit(d)
  BY <1>1, <1>2, <1>3, <1>4, <1>5, <1>6, <1>7, <1>8, StreamInputKept DEF Stream!Emit
<1>. QED  BY <1>2, <1>3, <1>9 DEF Stream!Next

\* When main ends, the records of a sound input are out, or as many as the limit
\* allows.
LEMMA ExitStep ==
    ASSUME StreamInv, Ranked, Step, MainExit
    PROVE  Stream!Next
<1>1. TypeInv /\ TicketInv /\ [Next]_vars
  BY DEF StreamInv, Base, Next
<1>2. /\ status = "running" /\ Exited' /\ ~Exited
      /\ epc = "ended" /\ \A w \in Workers : wpc[w] \in {"none", "ended"}
      /\ \A w \in Workers : ~WriteDoc(w)
  BY DEF Step, MainExit, Exited, WriteDoc
<1>3. /\ Stream!PrintedSet = PrintedDocs
      /\ Len(PrintedRecords) = Cardinality(Indices("record"))
      /\ Cardinality(Indices("record")) \in Nat
  BY <1>1, RankedPrinted
<1>4. PrintedRecords' = PrintedRecords  BY <1>1, <1>2, RankedKept
<1>5. ASSUME Sound
      PROVE  \/ PrintedDocs = IF run.count THEN {} ELSE Matches
             \/ Cardinality(Indices("record")) = Bound
  <2>1. CASE run.count
    BY <1>1, <2>1 DEF TicketInv, PrintedDocs
  <2>2. CASE ~run.count /\ Open
    <3>1. PrintedDocs = Settled  BY <1>5, <2>2 DEF StreamInv, Accounted
    <3>. QED  BY <1>2, <1>5, <2>2, <3>1, AllSettled
  <2>3. CASE ~run.count /\ ~Open
    <3>1. limit <= 0 /\ Answered + Max(limit, 0) = Bound
      BY <1>2, <1>5, <2>3, AllSettled
    <3>2. Max(limit, 0) = 0  BY <1>1, <3>1 DEF Max, TypeInv, TypeOK
    <3>3. Answered = Cardinality(Indices("record"))
      <4>1. counted = 0  BY <1>1, <2>3 DEF TicketInv
      <4>. QED  BY <1>3, <4>1 DEF Answered
    <3>. HIDE DEF Answered, Bound, Max
    <3>. QED  BY <1>3, <3>1, <3>2, <3>3
  <2>. QED  BY <2>1, <2>2, <2>3
<1>6. Stream!Exit
  BY <1>1, <1>2, <1>3, <1>4, <1>5, StreamInputKept DEF Stream!Exit
<1>. QED  BY <1>6 DEF Stream!Next

LEMMA AbortStep ==
    ASSUME StreamInv, Ranked, Step, Terminate
    PROVE  Stream!Next
<1>1. TypeInv /\ [Next]_vars /\ Base /\ SoundInv
  BY DEF StreamInv, Base, Next
<1>2. /\ status = "running" /\ status' = "aborted" /\ ~Exited /\ ~Exited'
      /\ UNCHANGED out
  BY DEF Step, Terminate, Exited, output
<1>3. ~Sound  BY <1>1, <1>2, NoAbort
<1>4. PrintedRecords' = PrintedRecords  BY <1>1, <1>2, RankedSame DEF Indices
<1>5. Stream!Abort
  BY <1>1, <1>2, <1>3, <1>4, StreamInputKept DEF Stream!Abort
<1>. QED  BY <1>5 DEF Stream!Next

LEMMA StreamInit == Init => Stream!Init
<1>. SUFFICES ASSUME Init PROVE Stream!Init
  OBVIOUS
<1>1. TypeInv /\ Ranked  BY TypeInit, RankedInit
<1>2. Indices("record") = {}  BY EmptySeq DEF Init, Indices
<1>3. /\ PrintedRecords \in Seq(Doc \cup {None})
      /\ Len(PrintedRecords) = 0
  BY <1>1, <1>2, RankedPrinted, FS_EmptySet
<1>4. PrintedRecords = <<>>  BY <1>3, EmptySeq
<1>. QED  BY <1>4 DEF Init, Stream!Init, Exited

LEMMA StreamNext ==
    ASSUME StreamInv, Ranked, [Next]_vars
    PROVE  [Stream!Next]_(Stream!vars)
<1>1. TypeInv  BY DEF StreamInv, Base
<1>2. ASSUME UNCHANGED status, \A w \in Workers : ~WriteDoc(w)
      PROVE  UNCHANGED Stream!vars
  <2>1. PrintedRecords' = PrintedRecords  BY <1>1, <1>2, RankedKept
  <2>. QED  BY <1>2, <2>1, StreamInputKept DEF Stream!vars, Exited
<1>3. CASE UNCHANGED vars \/ Over
  <2>1. status' = status /\ wpc' = wpc  BY <1>3 DEF vars, Over, workers
  <2>2. \A w \in Workers : ~WriteDoc(w)
    BY <1>1, <2>1 DEF WriteDoc, Goto, TypeInv, TypeOK
  <2>. QED  BY <1>2, <2>1, <2>2
<1>4. CASE Step /\ ~MainExit /\ ~Terminate /\ \A w \in Workers : ~WriteDoc(w)
  BY <1>1, <1>2, <1>4, StatusKept
<1>. QED  BY <1>3, <1>4, EmitStep, ExitStep, AbortStep DEF Next

\* aq implements RecordStream: for every number of workers and every schedule the
\* records it prints are matches, none of them twice and no more than the limit; and
\* when it ends by itself on sound input it has printed them all, or the limit.
THEOREM ImplementsStream == Spec => StreamSpec
<1>1. Init => StreamInv /\ Ranked  BY StreamInvInit, RankedInit
<1>2. StreamInv /\ Ranked /\ [Next]_vars => (StreamInv /\ Ranked)'
  <2>. SUFFICES ASSUME StreamInv, Ranked, [Next]_vars PROVE StreamInv' /\ Ranked'
    OBVIOUS
  <2>1. TypeInv /\ TicketInv  BY DEF StreamInv, Base
  <2>. QED  BY <2>1, StreamInvNext, RankedNext
<1>3. StreamInv /\ Ranked /\ [Next]_vars => [Stream!Next]_(Stream!vars)
  BY StreamNext
<1>. QED  BY <1>1, <1>2, <1>3, StreamInit, PTL DEF Spec, StreamSpec, Stream!Spec
=============================================================================
