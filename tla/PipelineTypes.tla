---------------------------- MODULE PipelineTypes ----------------------------
(***************************************************************************)
(* The types of the pipeline's variables, for every number of workers and  *)
(* every input.  Two of them are not obvious.  The limiter is an int that  *)
(* workers go on to count down when it is used up (Limiter::               *)
(* documentFinished), and must not overflow: each of them stops, so it     *)
(* counts down below zero once for every worker at most.  And the queue    *)
(* keeps the types it has by itself, since every step of the pipeline is a *)
(* step of the queue or leaves it alone.                                   *)
(***************************************************************************)
EXTENDS Pipeline, FiniteSetTheorems, SequenceTheorems, TLAPS

USE WorkersAssumption, NumbersAssumption, NoneAssumption, RunsAssumption

-----------------------------------------------------------------------------
(* The queue *)

QP == INSTANCE ConcurrentQueueProofs
          WITH Producers <- {Emitter}, Consumers <- Workers, Values <- Task,
               SIZE <- QueueSize, pc <- qpc

\* What is proved of the queue is proved of the pipeline's.
LEMMA QueueType == (Q!Init => Q!TypeOK) /\ (Q!TypeOK /\ [Q!Next]_(Q!vars) => Q!TypeOK')
<1>1. Q!Threads = QP!Threads  BY DEF Q!Threads, QP!Threads
<1>2. Q!TypeOK <=> QP!TypeOK  BY <1>1 DEF Q!TypeOK, QP!TypeOK
<1>3. Q!TypeOK' <=> QP!TypeOK'  BY <1>1 DEF Q!TypeOK, QP!TypeOK
<1>4. ASSUME NEW t, NEW v
      PROVE  /\ Q!PushNow(t, v) <=> QP!PushNow(t, v)
             /\ Q!PushWait(t, v) <=> QP!PushWait(t, v)
  BY DEF Q!PushNow, QP!PushNow, Q!PushWait, QP!PushWait, Q!PushRest, QP!PushRest,
         Q!Return, QP!Return, Q!NotifyOne, QP!NotifyOne, Q!Result, QP!Result
<1>5. ASSUME NEW t
      PROVE  /\ Q!PushResume(t) <=> QP!PushResume(t)
             /\ Q!Pop(t) <=> QP!Pop(t)
             /\ Q!Done(t) <=> QP!Done(t)
             /\ Q!SpuriousWakeup(t) <=> QP!SpuriousWakeup(t)
  BY DEF Q!PushResume, QP!PushResume, Q!PushRest, QP!PushRest, Q!Pop, QP!Pop,
         Q!PopWait, QP!PopWait, Q!PopValue, QP!PopValue, Q!PopEnd, QP!PopEnd,
         Q!InPop, QP!InPop, Q!Done, QP!Done, Q!SpuriousWakeup, QP!SpuriousWakeup,
         Q!Return, QP!Return, Q!NotifyOne, QP!NotifyOne, Q!Result, QP!Result
<1>6. Q!Next <=> QP!Next
  BY <1>1, <1>4, <1>5 DEF Q!Next, QP!Next, Q!Push, QP!Push
<1>7. IsFiniteSet({Emitter})  BY FS_Singleton
<1>8. \A S : QP!IsFiniteSet(S) <=> IsFiniteSet(S)
  BY DEF QP!IsFiniteSet, IsFiniteSet
<1>9. (QP!Init => QP!TypeOK) /\ (QP!TypeOK /\ [QP!Next]_(QP!vars) => QP!TypeOK')
  BY <1>7, <1>8, QP!TypeInit, QP!TypeNext
<1>10. Q!Init <=> QP!Init
  BY <1>1 DEF Q!Init, QP!Init, Q!Result, QP!Result
<1>. QED  BY <1>2, <1>3, <1>6, <1>9, <1>10 DEF Q!vars, QP!vars

\* Every step of the pipeline is one of the queue, or leaves it alone.
LEMMA QueueStep ==
    ASSUME TypeOK, [Next]_vars
    PROVE  [Q!Next]_(Q!vars)
<1>1. NewTask \in Task
  BY LenProperties DEF TypeOK, NewTask, Task
<1>2. ASSUME PushTask PROVE Q!Next
  BY <1>1, <1>2 DEF PushTask, Q!Next, Q!Push
<1>3. ASSUME NEW w \in Workers, PopTask(w) PROVE Q!Next
  BY <1>3 DEF PopTask, Q!Next, Q!Pop
<1>4. ASSUME EmitterExit PROVE Q!Next
  BY <1>4 DEF EmitterExit, Q!Next, Q!Threads
<1>5. ASSUME NEW w \in Workers, Stop(w) PROVE Q!Next
  BY <1>5 DEF Stop, Q!Next, Q!Threads
<1>6. ASSUME Spurious PROVE Q!Next
  BY <1>6 DEF Spurious, Q!Next, Q!Threads, Threads
<1>7. ASSUME EmitterStep, ~PushTask, ~EmitterExit PROVE UNCHANGED qvars
  BY <1>7
  DEF EmitterStep, NoMoreFiles, BadFile, KeepHeader, NewHeader, NextFile, ReadBlock,
      EmitterFail, EmitterFailed, LeaveMainLoop, EmitterLocal, Terminate
<1>8. ASSUME NEW w \in Workers, WorkerStep(w), ~PopTask(w), ~Stop(w)
      PROVE  UNCHANGED qvars
  BY <1>8
  DEF WorkerStep, KeepDecoder, NewDecoder, WorkerFail, WorkerFailed, Decode, NextDoc,
      Ticket, CountDoc, WriteDoc, WriteSeparator, WorkerLocal, Terminate
<1>9. ASSUME MainExit \/ ErrorRace \/ UNCHANGED vars PROVE UNCHANGED qvars
  BY <1>9 DEF MainExit, ErrorRace, Terminate, vars
<1>10. UNCHANGED qvars <=> UNCHANGED Q!vars  BY DEF qvars, Q!vars
<1>. QED
  BY <1>2, <1>3, <1>4, <1>5, <1>6, <1>7, <1>8, <1>9, <1>10 DEF Next, Step, Over

-----------------------------------------------------------------------------
(* The invariant *)

\* A task is a block of the input, with a header object that has been made.
Placed(t) ==
    /\ t.file \in DOMAIN run.files
    /\ t.block \in DOMAIN run.files[t.file].blocks
    /\ t.header \in DOMAIN headers

\* Where the emitter is.  While it waits in push nothing changes what it pushes.
EmitterPlace ==
    /\ file >= 1 /\ block >= 1
    /\ epc \in {"block", "push"} => file \in DOMAIN run.files /\ headers # <<>>
    /\ epc = "push" => block \in DOMAIN run.files[file].blocks
    /\ qpc[Emitter] = "push" => epc = "push" /\ arg[Emitter] = NewTask

\* A worker between pop and pop has a task.
TasksPlaced ==
    /\ \A i \in 1..Len(queue) : Placed(queue[i])
    /\ \A w \in Workers : task[w] # None => Placed(task[w])
    /\ \A w \in Workers : wpc[w] \notin {"none", "pop", "ended"} => task[w] # None

\* Workers that have taken, or are free to have taken, a ticket too many.
Late == {w \in Workers : wpc[w] \in {"stop", "ended"}}

\* The limiter is below zero from the start, and nobody counts it down, or at
\* most once for every worker that has stopped.
LimitKept ==
    \/ -Cardinality(Late) <= limit
    \/ limit < 0 /\ \A w \in Workers : wpc[w] # "ticket"

TypeInv == TypeOK /\ EmitterPlace /\ TasksPlaced /\ LimitKept

LEMMA InputType ==
    ASSUME TypeOK
    PROVE  /\ run.files \in Seq(InputFile)
           /\ DOMAIN run.files = 1..Len(run.files) /\ Len(run.files) \in Nat
           /\ \A f \in DOMAIN run.files :
                 /\ run.files[f] \in InputFile
                 /\ run.files[f].blocks \in Seq(InputBlock)
                 /\ DOMAIN run.files[f].blocks = 1..Len(run.files[f].blocks)
                 /\ Len(run.files[f].blocks) \in Nat
                 /\ \A b \in DOMAIN run.files[f].blocks :
                       /\ run.files[f].blocks[b] \in InputBlock
                       /\ Len(run.files[f].blocks[b].docs) \in Nat
                       /\ DOMAIN run.files[f].blocks[b].docs
                            = 1..Len(run.files[f].blocks[b].docs)
           /\ headers \in Seq([meta : Metadata, sync : STRING])
           /\ DOMAIN headers = 1..Len(headers) /\ Len(headers) \in Nat
           /\ queue \in Seq(Task)
           /\ DOMAIN queue = 1..Len(queue) /\ Len(queue) \in Nat
<1>1. run.files \in Seq(InputFile)  BY DEF TypeOK
<1>2. headers \in Seq([meta : Metadata, sync : STRING]) /\ queue \in Seq(Task)
  BY DEF TypeOK, Q!TypeOK
<1>3. ASSUME NEW f \in DOMAIN run.files
      PROVE  /\ run.files[f] \in InputFile
             /\ run.files[f].blocks \in Seq(InputBlock)
             /\ DOMAIN run.files[f].blocks = 1..Len(run.files[f].blocks)
             /\ Len(run.files[f].blocks) \in Nat
  <2>1. run.files[f] \in InputFile  BY <1>1, LenProperties, ElementOfSeq
  <2>2. run.files[f].blocks \in Seq(InputBlock)  BY <2>1 DEF InputFile
  <2>. QED  BY <2>1, <2>2, LenProperties
<1>4. ASSUME NEW f \in DOMAIN run.files, NEW b \in DOMAIN run.files[f].blocks
      PROVE  /\ run.files[f].blocks[b] \in InputBlock
             /\ Len(run.files[f].blocks[b].docs) \in Nat
             /\ DOMAIN run.files[f].blocks[b].docs
                  = 1..Len(run.files[f].blocks[b].docs)
  <2>1. run.files[f].blocks[b] \in InputBlock  BY <1>3, ElementOfSeq
  <2>2. run.files[f].blocks[b].docs \in Seq({"match", "skip", "eof", "bad"})
    BY <2>1 DEF InputBlock
  <2>. QED  BY <2>1, <2>2, LenProperties
<1>. QED  BY <1>1, <1>2, <1>3, <1>4, LenProperties

-----------------------------------------------------------------------------
(* What the steps do *)

\* The input never changes, and header objects stay with their metadata.
LEMMA InputKept == ASSUME [Next]_vars PROVE run' = run
<1>1. ASSUME EmitterStep PROVE run' = run
  BY <1>1
  DEF EmitterStep, NoMoreFiles, BadFile, KeepHeader, NewHeader, NextFile, ReadBlock,
      PushTask, EmitterExit, EmitterFail, EmitterFailed, LeaveMainLoop, EmitterLocal,
      Terminate, input
<1>2. ASSUME NEW w \in Workers, WorkerStep(w) PROVE run' = run
  BY <1>2
  DEF WorkerStep, PopTask, KeepDecoder, NewDecoder, WorkerFail, WorkerFailed, Stop,
      Decode, NextDoc, Ticket, CountDoc, WriteDoc, WriteSeparator, WorkerLocal,
      Terminate, input
<1>. QED
  BY <1>1, <1>2 DEF Next, Step, Over, MainExit, ErrorRace, Spurious, Terminate, vars, input

LEMMA HeadersKept ==
    ASSUME TypeInv, [Next]_vars
    PROVE  /\ headers' \in Seq([meta : Metadata, sync : STRING])
           /\ Len(headers) <= Len(headers')
           /\ \A h \in 1..Len(headers) : headers'[h].meta = headers[h].meta
<1>. DEFINE Headers == [meta : Metadata, sync : STRING]
            Kept == /\ headers' \in Seq(Headers)
                    /\ Len(headers) <= Len(headers')
                    /\ \A h \in 1..Len(headers) : headers'[h].meta = headers[h].meta
<1>. SUFFICES Kept
  OBVIOUS
<1>1. headers \in Seq(Headers) /\ Len(headers) \in Nat
        /\ DOMAIN headers = 1..Len(headers)
  BY InputType DEF TypeInv
<1>2. CASE UNCHANGED headers
  BY <1>1, <1>2
<1>3. CASE HeaderRead /\ (KeepHeader \/ NewHeader)
  <2>1. CurrentFile.meta \in Metadata /\ CurrentFile.sync \in STRING
    BY <1>3, InputType
    DEF HeaderRead, CurrentFile, InputFile, TypeInv, TypeOK, EmitterPlace
  <2>. HIDE DEF Headers
  <2>2. ASSUME NEW e \in Headers, headers' = Append(headers, e)
        PROVE  Kept
    BY <1>1, <2>2, AppendProperties
  <2>3. CASE KeepHeader
    <3>1. Len(headers) \in 1..Len(headers)
      BY <1>1, <2>3, EmptySeq, SeqEqual DEF KeepHeader, SameHeader
    <3>. DEFINE e == [headers[Len(headers)] EXCEPT !.sync = CurrentFile.sync]
    <3>2. headers[Len(headers)] \in Headers  BY <1>1, <3>1, ElementOfSeq
    <3>3. e \in Headers /\ e.meta = headers[Len(headers)].meta
      BY <2>1, <3>2 DEF Headers
    <3>4. headers' = [headers EXCEPT ![Len(headers)] = e]  BY <2>3 DEF KeepHeader
    <3>. HIDE DEF e
    <3>5. headers' \in Seq(Headers) /\ Len(headers') = Len(headers)
      BY <1>1, <3>1, <3>3, <3>4, ExceptSeq
    <3>6. \A h \in 1..Len(headers) : headers'[h].meta = headers[h].meta
      BY <1>1, <3>1, <3>3, <3>4
    <3>. QED  BY <1>1, <3>5, <3>6
  <2>4. CASE NewHeader /\ ~UNCHANGED headers
    <3>. DEFINE e == [meta |-> CurrentFile.meta, sync |-> CurrentFile.sync]
    <3>. e \in Headers /\ headers' = Append(headers, e)
      BY <2>1, <2>4 DEF NewHeader, Headers
    <3>. QED  BY <2>2
  <2>. QED  BY <1>2, <1>3, <2>3, <2>4
<1>4. ASSUME EmitterStep, ~KeepHeader, ~NewHeader PROVE UNCHANGED headers
  BY <1>4
  DEF EmitterStep, NoMoreFiles, BadFile, NextFile, ReadBlock,
      PushTask, EmitterExit, EmitterFail, EmitterFailed, LeaveMainLoop, EmitterLocal,
      Terminate, emitter
<1>5. ASSUME NEW w \in Workers, WorkerStep(w) PROVE UNCHANGED headers
  BY <1>5
  DEF WorkerStep, PopTask, KeepDecoder, NewDecoder, WorkerFail, WorkerFailed, Stop,
      Decode, NextDoc, Ticket, CountDoc, WriteDoc, WriteSeparator, WorkerLocal,
      Terminate, emitter
<1>6. ASSUME MainExit \/ ErrorRace \/ Spurious \/ UNCHANGED vars
      PROVE  UNCHANGED headers
  BY <1>6 DEF MainExit, ErrorRace, Spurious, Terminate, vars, emitter
<1>7. KeepHeader \/ NewHeader => HeaderRead  BY DEF KeepHeader, NewHeader
<1>. QED  BY <1>2, <1>3, <1>4, <1>5, <1>6, <1>7 DEF Next, Step, Over

\* push, as the emitter sees it: it waits, or the queue is closed, or the task is
\* in the queue.
LEMMA PushEffect ==
    ASSUME TypeInv, PushTask
    PROVE  /\ epc = "push"
           /\ UNCHANGED <<input, status, file, headers, currentFileId, errors,
                          workers, limit, counted, output, is_done>>
           /\ \A w \in Workers : ret'[w] = ret[w]
           /\ \/ UNCHANGED <<epc, block, queue>> /\ qpc'[Emitter] = "push"
                   /\ arg'[Emitter] = NewTask
              \/ /\ is_done /\ epc' = "exit" /\ UNCHANGED <<block, queue>>
                 /\ qpc'[Emitter] = "idle"
              \/ /\ ~is_done /\ epc' = "block" /\ block' = block + 1
                 /\ queue' = Append(queue, NewTask)
                 /\ qpc'[Emitter] = "idle"
<1>1. /\ qpc \in [Q!Threads -> {"idle", "push", "pop"}] /\ Emitter \in Q!Threads
      /\ arg \in [Q!Threads -> Task \cup {None}]
      /\ ret \in [Q!Threads -> [ok : BOOLEAN, val : Task \cup {None}]]
      /\ Workers \subseteq Q!Threads /\ Emitter \notin Workers
  BY DEF TypeInv, TypeOK, Q!TypeOK, Q!Threads
<1>2. qpc[Emitter] = "push" => arg[Emitter] = NewTask
  BY DEF TypeInv, EmitterPlace
<1>3. CASE Q!PushWait(Emitter, NewTask)
  BY <1>1, <1>3 DEF PushTask, Q!PushWait, Q!PushNow, Q!PushResume
<1>4. CASE Q!PushRest(Emitter, NewTask) /\ ~Q!PushWait(Emitter, NewTask)
  BY <1>1, <1>4 DEF PushTask, Q!PushRest, Q!Return
<1>. QED  BY <1>2, <1>3, <1>4 DEF PushTask, Q!PushNow, Q!PushResume

\* pop, as a worker sees it: it waits, or is told "no more", or has a task.
LEMMA PopEffect ==
    ASSUME TypeInv, NEW w \in Workers, PopTask(w)
    PROVE  /\ wpc[w] = "pop"
           /\ UNCHANGED <<input, status, emitter, errors, decoder, doc, limit, counted,
                          output, is_done>>
           /\ \A t \in Q!Threads \ {w} :
                 qpc'[t] = qpc[t] /\ arg'[t] = arg[t] /\ ret'[t] = ret[t]
           /\ \/ UNCHANGED <<wpc, task, queue, ret>>
              \/ /\ is_done /\ queue = <<>> /\ Goto(w, "ended")
                 /\ UNCHANGED <<task, queue>> /\ ret'[w].ok = FALSE
              \/ /\ queue # <<>> /\ Goto(w, "setup")
                 /\ task' = [task EXCEPT ![w] = Head(queue)]
                 /\ queue' = Tail(queue) /\ ret'[w].ok = TRUE
<1>1. /\ qpc \in [Q!Threads -> {"idle", "push", "pop"}] /\ w \in Q!Threads
      /\ arg \in [Q!Threads -> Task \cup {None}]
      /\ ret \in [Q!Threads -> [ok : BOOLEAN, val : Task \cup {None}]]
  BY DEF TypeInv, TypeOK, Q!TypeOK, Q!Threads
<1>. QED
  BY <1>1 DEF PopTask, Q!PopWait, Q!PopEnd, Q!PopValue, Q!Return, Q!Result

-----------------------------------------------------------------------------
(* Type correctness *)

LEMMA TypeInit == Init => TypeInv
<1>. SUFFICES ASSUME Init PROVE TypeInv
  OBVIOUS
<1>1. Q!TypeOK
  BY QueueType DEF Init
<1>2. /\ wpc \in [Workers -> {"pop", "none"}]
      /\ task \in [Workers -> {None}]
      /\ decoder \in [Workers -> {None}]
      /\ doc \in [Workers -> {1}]
  BY DEF Init
<1>3. limit \in -(MaxInt + 1)..MaxInt
  BY DEF Init, InitialLimit
<1>4. headers \in Seq([meta : Metadata, sync : STRING])
  BY EmptySeq DEF Init
<1>5. out \in Seq([what : {"record", "separator", "debug"},
                  of : Doc \cup {None}, by : Workers])
  BY EmptySeq DEF Init
<1>6. TypeOK
  BY <1>1, <1>2, <1>3, <1>4, <1>5 DEF Init, TypeOK, WorkerPcs
<1>7. Late = {}  BY <1>2 DEF Late
<1>8. Cardinality(Late) = 0  BY <1>7, FS_EmptySet
<1>9. LimitKept
  <2>. HIDE DEF Late
  <2>1. limit \in Int  BY <1>3
  <2>2. \A w \in Workers : wpc[w] # "ticket"  BY <1>2
  <2>. QED  BY <1>8, <2>1, <2>2 DEF LimitKept
<1>10. EmitterPlace  BY DEF Init, EmitterPlace, Q!Init, Q!Threads
<1>11. TasksPlaced
  <2>1. queue = <<>>  BY DEF Init, Q!Init
  <2>2. Len(queue) = 0  BY <2>1, EmptySeq
  <2>. QED  BY <1>2, <2>2 DEF TasksPlaced
<1>. QED  BY <1>6, <1>9, <1>10, <1>11 DEF TypeInv

\* A placed task stays placed.
LEMMA PlacedKept ==
    ASSUME TypeInv, [Next]_vars, NEW t, Placed(t)
    PROVE  Placed(t)'
<1>1. t.header \in 1..Len(headers) /\ DOMAIN headers = 1..Len(headers)
        /\ Len(headers) \in Nat
  BY InputType DEF Placed, TypeInv
<1>2. DOMAIN headers' = 1..Len(headers') /\ Len(headers') \in Nat
  BY HeadersKept, LenProperties
<1>. QED  BY <1>1, <1>2, InputKept, HeadersKept DEF Placed

\* A step that leaves the workers and what they share alone.
LEMMA EmitterType ==
    ASSUME TypeInv, [Next]_vars, Q!TypeOK',
           EmitterStep \/ MainExit \/ ErrorRace \/ Spurious
    PROVE  TypeInv'
<1>1. UNCHANGED <<run, wpc, task, decoder, doc, limit, counted, screen, out>>
  BY DEF EmitterStep, NoMoreFiles, BadFile, KeepHeader, NewHeader, NextFile,
         ReadBlock, PushTask, EmitterExit, EmitterFail, EmitterFailed,
         LeaveMainLoop, HeaderRead, EmitterLocal, MainExit, ErrorRace, Spurious,
         Terminate, input, workers, output
<1>2. LimitKept'
  BY <1>1 DEF LimitKept, Late, TypeInv
<1>3. /\ headers' \in Seq([meta : Metadata, sync : STRING])
      /\ Len(headers) \in Nat /\ DOMAIN headers = 1..Len(headers)
      /\ Len(headers') \in Nat /\ DOMAIN headers' = 1..Len(headers')
      /\ queue \in Seq(Task) /\ Len(queue) \in Nat
  BY HeadersKept, InputType, LenProperties DEF TypeInv
<1>4. UNCHANGED queue => TasksPlaced'
  BY <1>1, PlacedKept DEF TasksPlaced, TypeInv
<1>5. CASE PushTask
  <2>1. TypeOK'
    <3>1. /\ UNCHANGED <<status, file, headers, currentFileId, lastError, writers>>
          /\ epc' \in {epc, "exit", "block"} /\ block' \in {block, block + 1}
      BY <1>5, PushEffect DEF errors
    <3>2. epc' \in {"file", "block", "push", "fail", "failing", "exit", "ended"}
            /\ block' \in Nat
      BY <3>1 DEF TypeOK, TypeInv
    <3>. QED  BY <1>1, <1>3, <3>1, <3>2 DEF TypeOK, TypeInv
  <2>2. EmitterPlace'
    <3>1. /\ EmitterPlace /\ epc = "push" /\ block \in Nat
          /\ UNCHANGED <<run, file, headers, currentFileId>>
          /\ \/ UNCHANGED <<epc, block>> /\ arg'[Emitter] = NewTask
             \/ epc' = "exit" /\ UNCHANGED block /\ qpc'[Emitter] = "idle"
             \/ epc' = "block" /\ block' = block + 1 /\ qpc'[Emitter] = "idle"
      BY <1>1, <1>5, PushEffect DEF TypeInv, TypeOK
    <3>. QED  BY <3>1 DEF EmitterPlace, NewTask
  <2>3. ASSUME queue' = Append(queue, NewTask) PROVE TasksPlaced'
    <3>1. NewTask \in Task
      BY <1>3 DEF NewTask, Task, TypeInv, TypeOK
    <3>2. Len(headers) \in 1..Len(headers)
      BY <1>3, <1>5, EmptySeq, SeqEqual DEF PushTask, TypeInv, EmitterPlace
    <3>3. Placed(NewTask)
      BY <1>3, <1>5, <3>2 DEF NewTask, Placed, PushTask, TypeInv, EmitterPlace
    <3>4. \A i \in 1..Len(queue') : \/ i \in 1..Len(queue) /\ queue'[i] = queue[i]
                                   \/ queue'[i] = NewTask
      BY <1>3, <2>3, <3>1, AppendProperties
    <3>. QED  BY <1>1, <3>3, <3>4, PlacedKept DEF TasksPlaced, TypeInv
  <2>. QED  BY <1>2, <1>4, <1>5, <2>1, <2>2, <2>3, PushEffect DEF TypeInv
<1>6. CASE EmitterStep /\ ~PushTask
  <2>1. UNCHANGED <<queue, qpc, arg>>
    BY <1>6
    DEF EmitterStep, NoMoreFiles, BadFile, KeepHeader, NewHeader, NextFile, ReadBlock,
        EmitterExit, EmitterFail, EmitterFailed, LeaveMainLoop, EmitterLocal,
        Terminate, Q!Done, qvars
  <2>2. /\ status' \in {status, "aborted"}
        /\ epc' \in {epc, "file", "block", "push", "fail", "failing", "exit", "ended"}
        /\ file' \in {file, file + 1}
        /\ block' \in {block, 1}
        /\ currentFileId' \in {currentFileId, currentFileId + 1}
        /\ lastError' \in {lastError, TRUE}
        /\ writers' \in {writers, writers \cup {Emitter}, writers \ {Emitter}}
    BY <1>6
    DEF EmitterStep, NoMoreFiles, BadFile, KeepHeader, NewHeader, NextFile, ReadBlock,
        EmitterExit, EmitterFail, EmitterFailed, LeaveMainLoop, EmitterLocal,
        BeginError, EndError, Terminate, emitter, errors
  <2>3. TypeOK'
    <3>1. status' \in {"running", "exit0", "exit1", "aborted"}
      BY <2>2 DEF TypeInv, TypeOK
    <3>2. epc' \in {"file", "block", "push", "fail", "failing", "exit", "ended"}
      BY <2>2 DEF TypeInv, TypeOK
    <3>3. file' \in Nat /\ block' \in Nat /\ currentFileId' \in Nat
      BY <2>2 DEF TypeInv, TypeOK
    <3>4. lastError' \in BOOLEAN /\ writers' \subseteq Threads
      BY <2>2 DEF TypeInv, TypeOK, Threads
    <3>. QED
      BY <1>1, <1>3, <3>1, <3>2, <3>3, <3>4 DEF TypeInv, TypeOK
  <2>4. ASSUME KeepHeader \/ NewHeader PROVE EmitterPlace'
    <3>1. /\ epc = "file" /\ file <= Len(run.files) /\ UNCHANGED file /\ block' = 1
          /\ epc' \in {"block", "exit", "fail"}
          /\ epc' = "block" => headers' # <<>>
      <4>1. CASE KeepHeader
        <5>1. Len(headers) # 0
          BY <1>3, <4>1, EmptySeq, SeqEqual DEF KeepHeader, SameHeader, TypeInv, TypeOK
        <5>2. Len(headers') # 0
          BY <1>3, <5>1, HeadersKept
        <5>3. headers' # <<>>  BY <5>2, EmptySeq
        <5>. QED  BY <4>1, <5>3 DEF KeepHeader, HeaderRead
      <4>2. CASE NewHeader
        <5>1. CASE CurrentFile.meta.schema = "ok"
          <6>1. Len(headers') # 0
            BY <1>3, <4>2, <5>1 DEF NewHeader, TypeInv, TypeOK
          <6>2. headers' # <<>>  BY <6>1, EmptySeq
          <6>. QED  BY <4>2, <6>2 DEF NewHeader, HeaderRead
        <5>2. CASE CurrentFile.meta.schema # "ok"
          BY <4>2, <5>2 DEF NewHeader, HeaderRead
        <5>. QED  BY <5>1, <5>2
      <4>. QED  BY <2>4, <4>1, <4>2
    <3>2. file \in DOMAIN run.files
      BY <3>1, InputType DEF TypeInv, TypeOK, EmitterPlace
    <3>. QED  BY <1>1, <2>1, <3>1, <3>2 DEF TypeInv, EmitterPlace
  <2>5. ASSUME ~KeepHeader, ~NewHeader PROVE EmitterPlace'
    <3>1. /\ UNCHANGED headers
          /\ file' \in {file, file + 1} /\ UNCHANGED block
          /\ epc' = "block" => epc = "block" /\ UNCHANGED file
          /\ epc' = "push" => /\ UNCHANGED file
                              /\ \/ epc = "push" /\ UNCHANGED currentFileId
                                 \/ epc = "block" /\ block <= Len(CurrentFile.blocks)
          /\ epc = "push" => epc' = "push"
      BY <1>6, <2>5
      DEF EmitterStep, NoMoreFiles, BadFile, NextFile, ReadBlock,
          EmitterExit, EmitterFail, EmitterFailed, LeaveMainLoop, EmitterLocal,
          Terminate, emitter
    <3>2. epc = "block" /\ block <= Len(CurrentFile.blocks)
            => block \in DOMAIN run.files[file].blocks
      BY InputType DEF CurrentFile, TypeInv, TypeOK, EmitterPlace
    <3>3. file' >= 1 /\ block' >= 1
      BY <3>1 DEF TypeInv, TypeOK, EmitterPlace
    <3>4. (epc = "push" => block \in DOMAIN run.files[file].blocks)'
      BY <1>1, <3>1, <3>2 DEF TypeInv, EmitterPlace
    <3>5. (epc \in {"block", "push"} => file \in DOMAIN run.files /\ headers # <<>>)'
      BY <1>1, <3>1 DEF TypeInv, EmitterPlace
    <3>6. (qpc[Emitter] = "push" => epc = "push" /\ arg[Emitter] = NewTask)'
      BY <2>1, <3>1 DEF TypeInv, EmitterPlace, NewTask
    <3>. QED  BY <3>3, <3>4, <3>5, <3>6 DEF EmitterPlace
  <2>. QED  BY <1>2, <1>4, <2>1, <2>3, <2>4, <2>5 DEF TypeInv
<1>7. CASE MainExit \/ ErrorRace \/ Spurious
  <2>1. UNCHANGED <<queue, qpc, arg, emitter>>
    BY <1>7 DEF MainExit, ErrorRace, Spurious, Terminate, Q!SpuriousWakeup, qvars
  <2>2. TypeOK'
    BY <1>1, <1>7, <2>1
    DEF MainExit, ErrorRace, Spurious, Terminate, TypeInv, TypeOK, emitter, errors
  <2>3. EmitterPlace'
    BY <1>1, <2>1 DEF TypeInv, EmitterPlace, NewTask, emitter
  <2>. QED  BY <1>2, <1>4, <2>1, <2>2, <2>3 DEF TypeInv
<1>. QED  BY <1>5, <1>6, <1>7

\* No worker touches what is the emitter's, but the queue.
LEMMA WorkerLeavesEmitter ==
    ASSUME NEW w \in Workers, WorkerStep(w)
    PROVE  UNCHANGED <<input, emitter>>
BY DEF WorkerStep, PopTask, KeepDecoder, NewDecoder, WorkerFail, WorkerFailed, Stop,
       Decode, NextDoc, Ticket, CountDoc, WriteDoc, WriteSeparator, WorkerLocal,
       Terminate

LEMMA LateFinite ==
    IsFiniteSet(Late) /\ Cardinality(Late) \in Nat /\ Cardinality(Late) <= Cardinality(Workers)
      /\ Cardinality(Workers) \in Nat
BY FS_Subset, FS_CardinalityType DEF Late

\* Who has stopped does not come back.
LEMMA LateGrows ==
    ASSUME TypeInv, NEW w \in Workers, NEW p \in WorkerPcs, Goto(w, p),
           wpc[w] # "ended", wpc[w] = "stop" => p = "ended",
           UNCHANGED limit, p = "ticket" => limit > 0
    PROVE  LimitKept'
<1>1. Late \subseteq Late' /\ Late' \subseteq Workers
  BY DEF Late, Goto, TypeInv, TypeOK
<1>2. Cardinality(Late) <= Cardinality(Late') /\ Cardinality(Late') \in Nat
        /\ Cardinality(Late) \in Nat
  BY <1>1, FS_Subset, FS_CardinalityType, LateFinite
<1>3. limit \in Int  BY DEF TypeInv, TypeOK
<1>4. CASE -Cardinality(Late) <= limit
  BY <1>2, <1>3, <1>4 DEF LimitKept
<1>5. CASE limit < 0 /\ \A v \in Workers : wpc[v] # "ticket"
  BY <1>3, <1>5 DEF LimitKept, Goto, TypeInv, TypeOK
<1>. QED  BY <1>4, <1>5 DEF TypeInv, LimitKept

\* A step of a worker that leaves the queue and its task alone.
LEMMA WorkerPlaces ==
    ASSUME TypeInv, [Next]_vars, NEW w \in Workers, WorkerStep(w),
           UNCHANGED <<queue, qpc, arg, task>>, NEW p, Goto(w, p),
           wpc[w] \notin {"none", "pop", "ended"} \/ p \in {"none", "pop", "ended"}
    PROVE  EmitterPlace' /\ TasksPlaced'
<1>1. UNCHANGED <<run, epc, file, block, headers, currentFileId>>
  BY WorkerLeavesEmitter DEF input, emitter
<1>2. EmitterPlace'
  BY <1>1 DEF TypeInv, EmitterPlace, NewTask
<1>3. TasksPlaced'
  BY <1>1 DEF TypeInv, TypeOK, TasksPlaced, Placed, Goto
<1>. QED  BY <1>2, <1>3

LEMMA PopType ==
    ASSUME TypeInv, [Next]_vars, Q!TypeOK', NEW w \in Workers, PopTask(w)
    PROVE  TypeInv'
<1>1. /\ wpc[w] = "pop"
      /\ UNCHANGED <<run, status, epc, file, block, headers, currentFileId, lastError,
                     writers, decoder, doc, limit, counted, screen, out>>
  BY PopEffect DEF input, emitter, errors, output
<1>2. qpc'[Emitter] = qpc[Emitter] /\ arg'[Emitter] = arg[Emitter]
  BY PopEffect DEF Q!Threads
<1>3. EmitterPlace'
  BY <1>1, <1>2 DEF TypeInv, EmitterPlace, NewTask
<1>4. CASE UNCHANGED <<wpc, task, queue>>
  BY <1>1, <1>3, <1>4
  DEF TypeInv, TypeOK, TasksPlaced, Placed, LimitKept, Late
<1>5. CASE Goto(w, "ended") /\ UNCHANGED <<task, queue>>
  <2>1. LimitKept'
    BY <1>1, <1>5, LateGrows DEF WorkerPcs
  <2>2. TypeOK'
    BY <1>1, <1>5 DEF TypeInv, TypeOK, Goto, WorkerPcs
  <2>3. TasksPlaced'
    BY <1>1, <1>5 DEF TypeInv, TypeOK, TasksPlaced, Placed, Goto
  <2>. QED  BY <1>3, <2>1, <2>2, <2>3 DEF TypeInv
<1>6. CASE /\ queue # <<>> /\ Goto(w, "setup")
           /\ task' = [task EXCEPT ![w] = Head(queue)]
           /\ queue' = Tail(queue)
  <2>1. LimitKept'
    BY <1>1, <1>6, LateGrows DEF WorkerPcs
  <2>2. /\ queue \in Seq(Task) /\ Head(queue) \in Task
        /\ Head(queue) = queue[1] /\ 1 \in 1..Len(queue)
        /\ \A i \in 1..Len(queue') : queue'[i] = queue[i + 1] /\ i + 1 \in 1..Len(queue)
    BY <1>6, HeadTailProperties, LenProperties, EmptySeq DEF TypeInv, TypeOK, Q!TypeOK
  <2>3. TypeOK'
    BY <1>1, <1>6, <2>2 DEF TypeInv, TypeOK, Goto, WorkerPcs
  <2>4. \A t : Placed(t) => Placed(t)'
    BY <1>1 DEF Placed
  <2>5. TasksPlaced'
    <3>1. (\A i \in 1..Len(queue) : Placed(queue[i]))'
      BY <2>2, <2>4 DEF TypeInv, TasksPlaced
    <3>2. Placed(Head(queue))  BY <2>2 DEF TypeInv, TasksPlaced
    <3>3. (\A v \in Workers : task[v] # None => Placed(task[v]))'
      BY <1>6, <2>4, <3>2 DEF TypeInv, TypeOK, TasksPlaced
    <3>4. \A v \in Workers : wpc'[v] \notin {"none", "pop", "ended"} => task'[v] # None
      BY <1>6, <2>2 DEF TypeInv, TypeOK, TasksPlaced, Goto
    <3>. QED  BY <3>1, <3>3, <3>4 DEF TasksPlaced
  <2>. QED  BY <1>3, <2>1, <2>3, <2>5 DEF TypeInv
<1>. QED  BY <1>4, <1>5, <1>6, PopEffect

LEMMA TerminateType ==
    ASSUME TypeInv, Terminate
    PROVE  TypeInv'
BY DEF Terminate, TypeInv, TypeOK, EmitterPlace, TasksPlaced, Placed, NewTask, LimitKept,
       Late, input, emitter, errors, workers, output, qvars, Q!TypeOK

\* What is written to stdout.
Writes == [what : {"record", "separator", "debug"}, of : Doc \cup {None}, by : Workers]

\* The task of a worker between pop and pop, and its block.
LEMMA WorkerTask ==
    ASSUME TypeInv, NEW w \in Workers, wpc[w] \notin {"none", "pop", "ended"}
    PROVE  /\ task[w] \in Task /\ Placed(task[w])
           /\ TaskBlock(w) \in InputBlock
           /\ Len(TaskBlock(w).docs) \in Nat
           /\ DOMAIN TaskBlock(w).docs = 1..Len(TaskBlock(w).docs)
           /\ ThisDoc(w) \in Doc
<1>1. task[w] \in Task /\ Placed(task[w]) /\ doc[w] \in Nat
  BY DEF TypeInv, TypeOK, TasksPlaced
<1>. QED  BY <1>1, InputType DEF TypeInv, Placed, TaskBlock, ThisDoc, Doc, Task

\* A step of a worker other than pop: where it goes, and what it leaves alone.
LEMMA WorkerMoves ==
    ASSUME NEW w \in Workers, WorkerStep(w), ~PopTask(w), ~Terminate
    PROVE  /\ UNCHANGED <<queue, qpc, arg, task, status>>
           /\ wpc[w] \notin {"none", "pop", "ended"}
           /\ \E p \in WorkerPcs :
                 /\ Goto(w, p)
                 /\ wpc[w] = "stop" => p = "ended"
                 /\ ~Ticket(w) => UNCHANGED limit /\ (p = "ticket" => limit > 0)
<1>1. CASE KeepDecoder(w) \/ NewDecoder(w) \/ WorkerFail(w) \/ WorkerFailed(w)
  BY <1>1
  DEF KeepDecoder, NewDecoder, WorkerFail, WorkerFailed, WorkerLocal, WorkerPcs, qvars
<1>2. CASE Stop(w) \/ Decode(w) \/ CountDoc(w) \/ WriteDoc(w) \/ WriteSeparator(w)
  BY <1>2
  DEF Stop, Q!Done, Decode, CountDoc, WriteDoc, WriteSeparator, DocDone, WorkerLocal,
      WorkerPcs, qvars
<1>3. CASE NextDoc(w)
  <2>1. /\ wpc[w] = "doc" /\ UNCHANGED <<queue, qpc, arg, task, limit, status>>
        /\ \E p \in {"pop", "stop", "ticket", "doc"} :
              Goto(w, p) /\ (p = "ticket" => limit > 0)
    BY <1>3 DEF NextDoc, WorkerLocal, qvars
  <2>. QED  BY <2>1 DEF WorkerPcs
<1>4. CASE Ticket(w)
  BY <1>4 DEF Ticket, WorkerPcs, qvars
<1>. QED  BY <1>1, <1>2, <1>3, <1>4 DEF WorkerStep

\* What a step of a worker does to the variables it shares or keeps.
LEMMA WorkerVariables ==
    ASSUME NEW w \in Workers, WorkerStep(w), ~PopTask(w), ~Terminate
    PROVE  /\ lastError' = lastError \/ lastError' = TRUE
           /\ \/ writers' = writers
              \/ writers' = writers \cup {w}
              \/ writers' = writers \ {w}
           /\ \/ decoder' = decoder
              \/ decoder' = [decoder EXCEPT ![w] = [fileId |-> task[w].fileId,
                                                   header |-> task[w].header]]
           /\ \/ doc' = doc
              \/ doc' = [doc EXCEPT ![w] = 1]
              \/ doc' = [doc EXCEPT ![w] = doc[w] + 1]
           /\ \/ counted' = counted
              \/ counted' = counted + 1
              \/ counted' = counted + Len(TaskBlock(w).docs)
           /\ screen' = screen \/ screen' = w \/ screen' = None
           /\ \/ out' = out
              \/ out' = Append(out, Debug(w))
              \/ out' = Append(out, Separator(w))
              \/ out' = Append(out, Record(w, ThisDoc(w)))
<1>1. CASE KeepDecoder(w) \/ WorkerFail(w) \/ WorkerFailed(w) \/ Stop(w)
  BY <1>1
  DEF KeepDecoder, WorkerFail, WorkerFailed, Stop, BeginError, EndError, WorkerLocal,
      errors, output
<1>2. CASE NewDecoder(w)
  BY <1>2 DEF NewDecoder, errors
<1>3. CASE Decode(w) \/ NextDoc(w) \/ Ticket(w) \/ CountDoc(w)
  BY <1>3
  DEF Decode, NextDoc, Ticket, CountDoc, DocDone, WorkerLocal, errors, output
<1>4. CASE WriteDoc(w) \/ WriteSeparator(w)
  BY <1>4 DEF WriteDoc, WriteSeparator, DocDone, errors
<1>. QED  BY <1>1, <1>2, <1>3, <1>4 DEF WorkerStep

LEMMA WorkerType ==
    ASSUME TypeInv, [Next]_vars, Q!TypeOK', NEW w \in Workers, WorkerStep(w),
           ~PopTask(w), ~Terminate
    PROVE  TypeInv'
<1>1. PICK p \in WorkerPcs :
        /\ Goto(w, p)
        /\ wpc[w] = "stop" => p = "ended"
        /\ ~Ticket(w) => UNCHANGED limit /\ (p = "ticket" => limit > 0)
  BY WorkerMoves
<1>2. /\ UNCHANGED <<queue, qpc, arg, task, status>>
      /\ wpc[w] \notin {"none", "pop", "ended"}
  BY WorkerMoves
<1>3. UNCHANGED <<run, epc, file, block, headers, currentFileId>>
  BY WorkerLeavesEmitter DEF input, emitter
<1>4. EmitterPlace' /\ TasksPlaced'
  BY <1>1, <1>2, WorkerPlaces
<1>5. LimitKept' /\ limit' \in -(MaxInt + 1)..MaxInt
  <2>1. CASE ~Ticket(w)
    <3>1. LimitKept'  BY <1>1, <1>2, <2>1, LateGrows
    <3>. QED  BY <1>1, <2>1, <3>1 DEF TypeInv, TypeOK
  <2>2. CASE Ticket(w) /\ limit > 0
    <3>1. limit' = limit - 1 /\ limit \in -(MaxInt + 1)..MaxInt
      BY <2>2 DEF Ticket, TypeInv, TypeOK
    <3>2. Late' \subseteq Workers  BY DEF Late
    <3>3. Cardinality(Late') \in Nat  BY <3>2, FS_Subset, FS_CardinalityType
    <3>. HIDE DEF Late
    <3>. QED  BY <2>2, <3>1, <3>3 DEF LimitKept
  <2>3. CASE Ticket(w) /\ ~(limit > 0)
    <3>1. limit' = limit - 1 /\ limit \in -(MaxInt + 1)..MaxInt /\ Goto(w, "stop")
            /\ wpc[w] = "ticket"
      BY <2>3 DEF Ticket, TypeInv, TypeOK
    <3>2. -Cardinality(Late) <= limit
      BY <3>1 DEF TypeInv, LimitKept
    <3>3. Late' = Late \cup {w} /\ w \notin Late
      BY <3>1 DEF Late, Goto, TypeInv, TypeOK
    <3>4. Cardinality(Late') = Cardinality(Late) + 1
      BY <3>3, LateFinite, FS_AddElement
    <3>5. Late' \subseteq Workers  BY DEF Late
    <3>6. Cardinality(Late') <= Cardinality(Workers) /\ Cardinality(Workers) \in Nat
            /\ Cardinality(Late) \in Nat
      BY <3>5, LateFinite, FS_Subset
    <3>. HIDE DEF Late
    <3>. QED  BY <3>1, <3>2, <3>4, <3>6 DEF LimitKept
  <2>. QED  BY <2>1, <2>2, <2>3
<1>6. wpc' \in [Workers -> WorkerPcs]
  BY <1>1 DEF Goto, TypeInv, TypeOK
<1>7. /\ task[w] \in Task /\ Len(TaskBlock(w).docs) \in Nat /\ ThisDoc(w) \in Doc
      /\ doc[w] \in Nat /\ counted \in Nat
  BY <1>2, WorkerTask DEF TypeInv, TypeOK
<1>8. /\ decoder' \in [Workers -> Decoder \cup {None}]
      /\ doc' \in [Workers -> Nat]
  <2>1. [fileId |-> task[w].fileId, header |-> task[w].header] \in Decoder
    BY <1>7 DEF Task, Decoder
  <2>2. decoder' \in [Workers -> Decoder \cup {None}]
    BY <2>1, WorkerVariables DEF TypeInv, TypeOK
  <2>3. \/ doc' = doc
        \/ doc' = [doc EXCEPT ![w] = 1]
        \/ doc' = [doc EXCEPT ![w] = doc[w] + 1]
    BY WorkerVariables
  <2>4. doc' \in [Workers -> Nat]
    <3>1. doc \in [Workers -> Nat] /\ doc[w] + 1 \in Nat
      BY <1>7 DEF TypeInv, TypeOK
    <3>. QED  BY <2>3, <3>1
  <2>. QED  BY <2>2, <2>4
<1>9. /\ lastError' \in BOOLEAN /\ writers' \subseteq Threads
      /\ counted' \in Nat /\ screen' \in Workers \cup {None}
  <2>1. lastError' \in BOOLEAN  BY WorkerVariables DEF TypeInv, TypeOK
  <2>2. writers' \subseteq Threads
    BY WorkerVariables DEF TypeInv, TypeOK, Threads
  <2>3. \/ counted' = counted
        \/ counted' = counted + 1
        \/ counted' = counted + Len(TaskBlock(w).docs)
    BY WorkerVariables
  <2>4. counted' \in Nat  BY <1>7, <2>3
  <2>5. screen' \in Workers \cup {None}
    BY WorkerVariables DEF TypeInv, TypeOK
  <2>. QED  BY <2>1, <2>2, <2>4, <2>5
<1>10. out' \in Seq(Writes)
  <2>1. out \in Seq(Writes)  BY DEF TypeInv, TypeOK, Writes
  <2>2. Debug(w) \in Writes /\ Separator(w) \in Writes /\ Record(w, ThisDoc(w)) \in Writes
    BY <1>7 DEF Debug, Separator, Record, Writes
  <2>3. \/ out' = out
        \/ out' = Append(out, Debug(w))
        \/ out' = Append(out, Separator(w))
        \/ out' = Append(out, Record(w, ThisDoc(w)))
    BY WorkerVariables
  <2>. QED  BY <2>1, <2>2, <2>3, AppendProperties
<1>11. TypeOK'
  BY <1>2, <1>3, <1>5, <1>6, <1>8, <1>9, <1>10 DEF TypeInv, TypeOK, Writes
<1>. QED  BY <1>4, <1>5, <1>11 DEF TypeInv

LEMMA TypeNext == TypeInv /\ [Next]_vars => TypeInv'
<1>. SUFFICES ASSUME TypeInv, [Next]_vars PROVE TypeInv'
  OBVIOUS
<1>1. Q!TypeOK'
  BY QueueType, QueueStep DEF TypeInv, TypeOK
<1>2. CASE EmitterStep \/ MainExit \/ ErrorRace \/ Spurious
  BY <1>1, <1>2, EmitterType
<1>3. ASSUME NEW w \in Workers, WorkerStep(w) PROVE TypeInv'
  BY <1>1, <1>3, PopType, TerminateType, WorkerType
<1>4. CASE UNCHANGED vars
  BY <1>4
  DEF TypeInv, TypeOK, EmitterPlace, TasksPlaced, Placed, NewTask, LimitKept,
      Late, vars, input, emitter, errors, workers, output, qvars, Q!TypeOK
<1>. QED  BY <1>2, <1>3, <1>4 DEF Next, Step, Over

LEMMA TypeInvariance == Spec => []TypeInv
<1>. QED  BY TypeInit, TypeNext, PTL DEF Spec

\* Every variable of a run has its type, and the limiter, which is counted down
\* without a look at what is left (limiter.cc), never goes below the smallest int,
\* for every input, every number of workers and every schedule.
THEOREM TypeCorrect == Spec => []TypeOK
<1>1. TypeInv => TypeOK  BY DEF TypeInv
<1>. QED  BY <1>1, TypeInvariance, PTL
===============================================================================
