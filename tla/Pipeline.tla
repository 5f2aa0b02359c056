------------------------------- MODULE Pipeline -------------------------------
(***************************************************************************)
(* One run of aq: the emitter thread (FileEmitor::operator(), fileemitor.cc)*)
(* that reads the files block by block, the worker threads (worker.cc) that*)
(* decode the blocks and print or count the records, the queue between     *)
(* them (ConcurrentQueue.tla), the limiter and the screen they share, and  *)
(* main, which joins them and computes the exit status.                    *)
(*                                                                         *)
(* The input is data: a run is a command line and a sequence of files,     *)
(* each file, block and record carrying the outcome of the library calls   *)
(* made on it.  The control is all here: which call comes first, which     *)
(* exception goes where, who tells whom to stop.  Steps of one thread that *)
(* touch nothing shared are merged; every access to shared state (queue,   *)
(* limiter, counter, screen, lastError) is a step of its own.              *)
(*                                                                         *)
(* FileEmitor::stop is left out: it is written in six places and read in   *)
(* none.                                                                   *)
(*                                                                         *)
(* A definition marked "Variant" is the definition after it with a bug; it *)
(* is no part of the model, and shows that a property sees such a bug.     *)
(***************************************************************************)
EXTENDS Integers, Sequences, FiniteSets

CONSTANTS Workers,      \* the worker threads there may be
          Emitter,      \* the emitter thread
          None,         \* "nothing": a null pointer
          Runs,         \* the command lines and inputs to consider
          MaxJobs,      \* the most workers main starts, 16 in the code
          QueueSize,    \* SIZE of the queue, 100 in the code
          MaxSpurious,  \* spurious wakeups in a behaviour
          MaxInt        \* std::numeric_limits<int>::max()

ASSUME WorkersAssumption == IsFiniteSet(Workers) /\ Emitter \notin Workers

ASSUME JobsAssumption == MaxJobs \in 1..Cardinality(Workers)

\* There are fewer threads than an int can count.
ASSUME NumbersAssumption ==
    /\ QueueSize \in Nat /\ MaxSpurious \in Nat /\ MaxInt \in Nat
    /\ Cardinality(Workers) <= MaxInt

Threads == Workers \cup {Emitter}

-----------------------------------------------------------------------------
(* The input.  A run is a record                                            *)
(*   jobs    --jobs      limit   -n          files  a sequence of files     *)
(*   count   --count-only                    filter -c was given            *)
(*   nested  the filter has a path in front of a parenthesis whose node is  *)
(*           a record                                                       *)
(* A file is a record                                                       *)
(*   open    the Reader's constructor: "ok" or "error"                      *)
(*   header  readHeader: "ok", "error" (a runtime_error) or "eof" (Eof)     *)
(*   meta    the header's metadata, sync its marker, blocks a sequence      *)
(* Metadata are a record: name, and the outcome of what depends on them     *)
(*   schema  parseSchema     fields  compileFieldsList   "ok" or "error"    *)
(*   setup   setFilter and setTsvFilterExpression: "ok", "error" or "abort" *)
(*           (an exception no caller catches)                               *)
(*   codec   createForHeader: the same three                                *)
(* A block is a record                                                      *)
(*   frame   the sizes in front of it: "ok", "error" or "eof"               *)
(*   sync    the marker behind it, data the outcome of inflate              *)
(*   docs    a sequence, one for each of its objectCount records: "match",  *)
(*           "skip" (does not pass the filter), "eof" (the buffer ends) or  *)
(*           "bad" (the decoder throws runtime_error)                       *)
(* A task, what the queue carries, is a block with the header it is read    *)
(* under and the number of that header.                                     *)

Metadata   == [name : STRING, schema : {"ok", "error"}, fields : {"ok", "error"},
               setup : {"ok", "error", "abort"}, codec : {"ok", "error", "abort"}]
InputBlock == [frame : {"ok", "error", "eof"}, sync : STRING,
               data : {"ok", "error"}, docs : Seq({"match", "skip", "eof", "bad"})]
InputFile  == [open : {"ok", "error"}, header : {"ok", "error", "eof"},
               meta : Metadata, sync : STRING, blocks : Seq(InputBlock)]

Task == [header : Nat, fileId : Nat, file : Nat, block : Nat]
Doc  == [file : Nat, block : Nat, doc : Nat]

\* A decoder, by the file id and the header it is made for.
Decoder == [fileId : Nat, header : Nat]

ASSUME NoneAssumption ==
    None \notin Workers /\ None \notin Task /\ None \notin Decoder

ASSUME RunsAssumption ==
    \A r \in Runs :
        /\ r.jobs \in Nat /\ r.limit \in -(MaxInt + 1)..MaxInt
        /\ r.count \in BOOLEAN /\ r.filter \in BOOLEAN /\ r.nested \in BOOLEAN
        /\ r.files \in Seq(InputFile)

VARIABLES run,          \* the command line and the input; never changes
          status,       \* "running", "exit0", "exit1" or "aborted"
          (* the emitter *)
          epc,          \* where it is
          file, block,  \* the file and the block it is at
          headers,      \* the header objects made so far; the last is current
          currentFileId,
          lastError,    \* lastError is not empty
          writers,      \* threads in the middle of assigning lastError
          (* the workers *)
          wpc,          \* where each is
          task,         \* its task
          decoder,      \* its BlockDecoder: the file id and header it is for
          doc,          \* the record of the task it is at
          (* shared *)
          limit,        \* Limiter::limit
          counted,      \* countedDocuments
          screen,       \* the holder of screenMutex, or None
          out,          \* what was written to stdout
          (* the queue *)
          queue, is_done, full, empty, qpc, arg, ret, spurious

input   == <<run>>
emitter == <<epc, file, block, headers, currentFileId>>
errors  == <<lastError, writers>>
workers == <<wpc, task, decoder, doc>>
output  == <<screen, out>>
qvars   == <<queue, is_done, full, empty, qpc, arg, ret, spurious>>
vars    == <<input, status, emitter, errors, workers, limit, counted, output,
             qvars>>

Q == INSTANCE ConcurrentQueue
         WITH Producers <- {Emitter}, Consumers <- Workers, Values <- Task,
              SIZE <- QueueSize, pc <- qpc

Max(a, b) == IF a > b THEN a ELSE b

\* Limiter::Limiter: -1 stands for the largest int.
InitialLimit(n) == IF n = -1 THEN MaxInt ELSE n

\* What is written to stdout: a record, the separator behind it, and the line
\* predicate/list.cc prints for a predicate inside a record expression.
\* (`by' is the worker that writes, for the properties.)
Record(w, d) == [what |-> "record", of |-> d, by |-> w]
Separator(w) == [what |-> "separator", of |-> None, by |-> w]
Debug(w)     == [what |-> "debug", of |-> None, by |-> w]

\* Variant: takes --jobs as it comes.
jobsAsGiven(jobs) == IF jobs > MaxJobs THEN MaxJobs ELSE jobs

\* At least one worker, and not more than MaxJobs.
correctJobsNumber(jobs) ==
    CASE jobs < 1       -> 1
      [] jobs > MaxJobs -> MaxJobs
      [] OTHER          -> jobs

\* main starts that many workers; a worker that is not started is at "none".
Init ==
    /\ run \in Runs
    /\ status = "running"
    /\ epc = "file" /\ file = 1 /\ block = 1
    /\ headers = <<>> /\ currentFileId = 0
    /\ lastError = FALSE /\ writers = {}
    /\ \E started \in SUBSET Workers :
          /\ Cardinality(started) = correctJobsNumber(run.jobs)
          /\ wpc = [w \in Workers |-> IF w \in started THEN "pop" ELSE "none"]
    /\ task = [w \in Workers |-> None]
    /\ decoder = [w \in Workers |-> None]
    /\ doc = [w \in Workers |-> 1]
    /\ limit = InitialLimit(run.limit)
    /\ counted = 0
    /\ screen = None /\ out = <<>>
    /\ Q!Init

\* An exception that nothing catches: std::terminate.
Terminate ==
    /\ status' = "aborted"
    /\ UNCHANGED <<input, emitter, errors, workers, limit, counted, output, qvars>>

-----------------------------------------------------------------------------
(* The emitter: FileEmitor::mainLoop *)

CurrentFile  == run.files[file]
CurrentBlock == CurrentFile.blocks[block]

EmitterLocal == UNCHANGED <<input, status, errors, workers, limit, counted,
                            output, qvars>>

\* The list is done, or something went wrong: leave mainLoop.
LeaveMainLoop ==
    /\ epc' = "exit"
    /\ UNCHANGED <<file, block, headers, currentFileId>>
    /\ EmitterLocal

\* The metadata equal those of the header object in use.
SameHeader ==
    headers # <<>> /\ headers[Len(headers)].meta = CurrentFile.meta

NoMoreFiles ==
    /\ epc = "file"
    /\ file > Len(run.files)
    /\ LeaveMainLoop

\* The Reader cannot open the file, or readHeader finds no Avro header.
BadFile ==
    /\ epc = "file"
    /\ file <= Len(run.files)
    /\ \/ (CurrentFile.open = "error" \/ CurrentFile.header = "error")
          /\ LeaveMainLoop
       \/ CurrentFile.open = "ok" /\ CurrentFile.header = "eof" /\ Terminate

HeaderRead ==
    /\ epc = "file"
    /\ file <= Len(run.files)
    /\ CurrentFile.open = "ok"
    /\ CurrentFile.header = "ok"

\* Variant: keeps the marker of the file before.
KeepHeaderOldSync ==
    /\ HeaderRead
    /\ SameHeader
    /\ epc' = "block"
    /\ block' = 1
    /\ UNCHANGED <<file, currentFileId, headers>>
    /\ EmitterLocal

\* The same metadata as before: the header object stays, with the new marker.
KeepHeader ==
    /\ HeaderRead
    /\ SameHeader
    /\ headers' = [headers EXCEPT ![Len(headers)].sync = CurrentFile.sync]
    /\ epc' = "block"
    /\ block' = 1
    /\ UNCHANGED <<file, currentFileId>>
    /\ EmitterLocal

\* Variant: forgets to count the header.
NewHeaderSameId ==
    /\ HeaderRead
    /\ ~SameHeader
    /\ headers' = Append(headers, [meta |-> CurrentFile.meta,
                                   sync |-> CurrentFile.sync])
    /\ epc' = "block"
    /\ block' = 1
    /\ UNCHANGED <<file, currentFileId>>
    /\ EmitterLocal

\* Other metadata: a new file id, schema, header object and list of fields.
NewHeader ==
    /\ HeaderRead
    /\ ~SameHeader
    /\ currentFileId' = currentFileId + 1
    /\ IF CurrentFile.meta.schema = "ok"
       THEN headers' = Append(headers, [meta |-> CurrentFile.meta,
                                        sync |-> CurrentFile.sync])
       ELSE UNCHANGED headers
    /\ epc' = IF CurrentFile.meta.schema # "ok" THEN "exit"
              ELSE IF CurrentFile.meta.fields # "ok" THEN "fail"
              ELSE "block"
    /\ block' = 1
    /\ UNCHANGED file
    /\ EmitterLocal

NextFile ==
    /\ epc = "block"
    /\ block > Len(CurrentFile.blocks)
    /\ epc' = "file"
    /\ file' = file + 1
    /\ UNCHANGED <<block, headers, currentFileId>>
    /\ EmitterLocal

\* Reader::nextBlock: the sizes, then the marker, against the header object.
ReadBlock ==
    /\ epc = "block"
    /\ block <= Len(CurrentFile.blocks)
    /\ \/ CurrentBlock.frame = "eof" /\ Terminate
       \/ /\ CurrentBlock.frame # "eof"
          /\ IF CurrentBlock.frame = "ok"
                  /\ CurrentBlock.sync = headers[Len(headers)].sync
             THEN epc' = "push"
             ELSE epc' = "exit"
          /\ UNCHANGED <<file, block, headers, currentFileId>>
          /\ EmitterLocal

NewTask == [header |-> Len(headers), fileId |-> currentFileId,
            file |-> file, block |-> block]

\* queue.push(task), until it returns; false means that the run is over.
PushTask ==
    /\ epc = "push"
    /\ \/ Q!PushWait(Emitter, NewTask) /\ UNCHANGED <<epc, block>>
       \/ /\ Q!PushNow(Emitter, NewTask) \/ Q!PushResume(Emitter)
          /\ IF is_done
             THEN epc' = "exit" /\ UNCHANGED block
             ELSE epc' = "block" /\ block' = block + 1
    /\ UNCHANGED <<input, status, file, headers, currentFileId, errors, workers,
                   limit, counted, output>>

\* Variant: leaves without closing the queue.
EmitterExitOpen ==
    /\ epc = "exit"
    /\ epc' = "ended"
    /\ UNCHANGED <<input, status, file, block, headers, currentFileId, errors,
                   workers, limit, counted, output, qvars>>

\* on_scope_exit closes the queue however mainLoop is left.
EmitterExit ==
    /\ epc = "exit"
    /\ Q!Done(Emitter)
    /\ epc' = "ended"
    /\ UNCHANGED <<input, status, file, block, headers, currentFileId, errors,
                   workers, limit, counted, output>>

-----------------------------------------------------------------------------
(* lastError is a plain std::string that any thread may assign.  Two        *)
(* assignments that overlap are undefined: they leave some message, or the  *)
(* process dies.                                                            *)

BeginError(t) == writers' = writers \cup {t} /\ UNCHANGED lastError

\* Variant: the message is lost.
EndErrorLost(t) == writers' = writers \ {t} /\ UNCHANGED lastError

EndError(t) == writers' = writers \ {t} /\ lastError' = TRUE

EmitterFail ==
    /\ epc = "fail"
    /\ BeginError(Emitter)
    /\ epc' = "failing"
    /\ UNCHANGED <<input, status, file, block, headers, currentFileId, workers,
                   limit, counted, output, qvars>>

EmitterFailed ==
    /\ epc = "failing"
    /\ EndError(Emitter)
    /\ epc' = "exit"
    /\ UNCHANGED <<input, status, file, block, headers, currentFileId, workers,
                   limit, counted, output, qvars>>

ErrorRace ==
    /\ Cardinality(writers) > 1
    /\ Terminate

-----------------------------------------------------------------------------
(* A worker: Worker::operator() *)

TaskBlock(w) == run.files[task[w].file].blocks[task[w].block]
TaskMeta(w)  == headers[task[w].header].meta
ThisDoc(w)   == [file |-> task[w].file, block |-> task[w].block, doc |-> doc[w]]
DocKind(w)   == TaskBlock(w).docs[doc[w]]

Goto(w, p) == wpc' = [wpc EXCEPT ![w] = p]

WorkerLocal == UNCHANGED <<input, status, emitter, errors, limit, counted,
                           output, qvars>>

\* getNextTask: pop a task, or the end of the run.
PopTask(w) ==
    /\ wpc[w] = "pop"
    /\ \/ Q!PopWait(w) /\ UNCHANGED <<wpc, task>>
       \/ Q!PopEnd(w) /\ Goto(w, "ended") /\ UNCHANGED task
       \/ /\ Q!PopValue(w)
          /\ Goto(w, "setup")
          /\ task' = [task EXCEPT ![w] = Head(queue)]
    /\ UNCHANGED <<input, status, emitter, errors, decoder, doc, limit, counted,
                   output>>

\* The decoder in hand is for the file id of the task.
HasDecoder(w) == decoder[w] # None /\ decoder[w].fileId = task[w].fileId

\* getNextTask: go on with the decoder in hand.
KeepDecoder(w) ==
    /\ wpc[w] = "setup"
    /\ HasDecoder(w)
    /\ Goto(w, "decode")
    /\ UNCHANGED <<task, decoder, doc>>
    /\ WorkerLocal

\* getNextTask: a new decoder; setFilter and setTsvFilterExpression may refuse.
\* A record expression of the filter makes predicate::List write to stdout,
\* whoever holds screenMutex.
NewDecoder(w) ==
    /\ wpc[w] = "setup"
    /\ ~HasDecoder(w)
    /\ \/ TaskMeta(w).setup = "abort" /\ Terminate
       \/ /\ TaskMeta(w).setup # "abort"
          /\ decoder' = [decoder EXCEPT ![w] = [fileId |-> task[w].fileId,
                                                header |-> task[w].header]]
          /\ Goto(w, IF TaskMeta(w).setup = "ok" THEN "decode" ELSE "fail")
          /\ out' = IF run.filter /\ run.nested THEN Append(out, Debug(w)) ELSE out
          /\ UNCHANGED <<input, status, emitter, errors, task, doc, limit,
                         counted, screen, qvars>>

\* returnStop: lastError first, then queue.done().
WorkerFail(w) ==
    /\ wpc[w] = "fail"
    /\ BeginError(w)
    /\ Goto(w, "failing")
    /\ UNCHANGED <<input, status, emitter, task, decoder, doc, limit, counted,
                   output, qvars>>

WorkerFailed(w) ==
    /\ wpc[w] = "failing"
    /\ EndError(w)
    /\ Goto(w, "stop")
    /\ UNCHANGED <<input, status, emitter, task, decoder, doc, limit, counted,
                   output, qvars>>

\* Variant: leaves without closing the queue.
StopQuietly(w) ==
    /\ wpc[w] = "stop"
    /\ Goto(w, "ended")
    /\ UNCHANGED <<input, status, emitter, errors, task, decoder, doc, limit,
                   counted, output, qvars>>

\* queue.done() and out: returnStop, or the handlers of Finished and
\* runtime_error.
Stop(w) ==
    /\ wpc[w] = "stop"
    /\ Q!Done(w)
    /\ Goto(w, "ended")
    /\ UNCHANGED <<input, status, emitter, errors, task, decoder, doc, limit,
                   counted, output>>

\* Variant: adds up the object counts whether there is a filter or not.
DecodeCountOnly(w) ==
    /\ wpc[w] = "decode"
    /\ TaskMeta(w).codec = "ok" /\ TaskBlock(w).data = "ok"
    /\ doc' = [doc EXCEPT ![w] = 1]
    /\ IF run.count
       THEN Goto(w, "pop") /\ counted' = counted + Len(TaskBlock(w).docs)
       ELSE Goto(w, "doc") /\ UNCHANGED counted
    /\ UNCHANGED <<input, status, emitter, errors, task, decoder, limit, output,
                   qvars>>

\* createForHeader and codec->decode, then decodeAndDumpBlock: without a filter
\* --count-only adds up the object counts and looks at no record.
Decode(w) ==
    /\ wpc[w] = "decode"
    /\ \/ TaskMeta(w).codec = "abort" /\ Terminate
       \/ /\ TaskMeta(w).codec = "error" \/ TaskBlock(w).data = "error"
          /\ TaskMeta(w).codec # "abort"
          /\ Goto(w, "stop")
          /\ UNCHANGED <<task, decoder, doc>>
          /\ WorkerLocal
       \/ /\ TaskMeta(w).codec = "ok" /\ TaskBlock(w).data = "ok"
          /\ doc' = [doc EXCEPT ![w] = 1]
          /\ IF run.count /\ ~run.filter
             THEN Goto(w, "pop") /\ counted' = counted + Len(TaskBlock(w).docs)
             ELSE Goto(w, "doc") /\ UNCHANGED counted
          /\ UNCHANGED <<input, status, emitter, errors, task, decoder, limit,
                         output, qvars>>

Passes(kind) == kind = "match" \/ (kind = "skip" /\ ~run.filter)

\* The head of decodeAndDumpBlock's loop: is the limit used up, is there a
\* record, does it pass?
NextDoc(w) ==
    /\ wpc[w] = "doc"
    /\ \/ doc[w] > Len(TaskBlock(w).docs) /\ Goto(w, "pop") /\ UNCHANGED doc
       \/ /\ doc[w] <= Len(TaskBlock(w).docs)
          /\ limit <= 0
          /\ Goto(w, "stop")
          /\ UNCHANGED doc
       \/ /\ doc[w] <= Len(TaskBlock(w).docs)
          /\ limit > 0
          /\ \/ DocKind(w) = "eof" /\ Goto(w, "pop") /\ UNCHANGED doc
             \/ DocKind(w) = "bad" /\ Goto(w, "stop") /\ UNCHANGED doc
             \/ Passes(DocKind(w)) /\ Goto(w, "ticket") /\ UNCHANGED doc
             \/ /\ DocKind(w) = "skip" /\ ~Passes("skip")
                /\ Goto(w, "doc")
                /\ doc' = [doc EXCEPT ![w] = @ + 1]
    /\ UNCHANGED <<task, decoder>>
    /\ WorkerLocal

\* Variant: trusts the look at the limiter at the head of the loop.
TicketUnchecked(w) ==
    /\ wpc[w] = "ticket"
    /\ limit' = limit - 1
    /\ Goto(w, "dump")
    /\ UNCHANGED <<input, status, emitter, errors, task, decoder, doc, counted,
                   output, qvars>>

\* Limiter::documentFinished: fetch_sub, and Finished if there was none left.
Ticket(w) ==
    /\ wpc[w] = "ticket"
    /\ limit' = limit - 1
    /\ Goto(w, IF limit <= 0 THEN "stop" ELSE "dump")
    /\ UNCHANGED <<input, status, emitter, errors, task, decoder, doc, counted,
                   output, qvars>>

DocDone(w) == Goto(w, "doc") /\ doc' = [doc EXCEPT ![w] = @ + 1]

\* Variant: counts down.
CountDocDown(w) ==
    /\ wpc[w] = "dump"
    /\ run.count
    /\ counted' = counted - 1
    /\ DocDone(w)
    /\ UNCHANGED <<input, status, emitter, errors, task, decoder, limit, output,
                   qvars>>

\* dumpDocument, --count-only.
CountDoc(w) ==
    /\ wpc[w] = "dump"
    /\ run.count
    /\ counted' = counted + 1
    /\ DocDone(w)
    /\ UNCHANGED <<input, status, emitter, errors, task, decoder, limit, output,
                   qvars>>

\* Variant: does not wait for screenMutex.
WriteDocUnlocked(w) ==
    /\ wpc[w] = "dump"
    /\ ~run.count
    /\ screen' = w
    /\ out' = Append(out, Record(w, ThisDoc(w)))
    /\ Goto(w, "separate")
    /\ UNCHANGED <<input, status, emitter, errors, task, decoder, doc, limit,
                   counted, qvars>>

\* dumpDocument, then outDocument: the record under screenMutex ...
WriteDoc(w) ==
    /\ wpc[w] = "dump"
    /\ ~run.count
    /\ screen = None
    /\ screen' = w
    /\ out' = Append(out, Record(w, ThisDoc(w)))
    /\ Goto(w, "separate")
    /\ UNCHANGED <<input, status, emitter, errors, task, decoder, doc, limit,
                   counted, qvars>>

\* ... and the separator.
WriteSeparator(w) ==
    /\ wpc[w] = "separate"
    /\ screen' = None
    /\ out' = Append(out, Separator(w))
    /\ DocDone(w)
    /\ UNCHANGED <<input, status, emitter, errors, task, decoder, limit, counted,
                   qvars>>

-----------------------------------------------------------------------------
(* main: join the workers, then the emitter; the status is 1 if there is a  *)
(* message in lastError.                                                    *)
MainExit ==
    /\ \A w \in Workers : wpc[w] \in {"none", "ended"}
    /\ epc = "ended"
    /\ status' = IF lastError THEN "exit1" ELSE "exit0"
    /\ UNCHANGED <<input, emitter, errors, workers, limit, counted, output, qvars>>

Spurious ==
    /\ \E t \in Threads : Q!SpuriousWakeup(t)
    /\ UNCHANGED <<input, status, emitter, errors, workers, limit, counted, output>>

EmitterStep ==
    \/ NoMoreFiles \/ BadFile \/ KeepHeader \/ NewHeader \/ NextFile
    \/ ReadBlock \/ PushTask \/ EmitterExit \/ EmitterFail \/ EmitterFailed

WorkerStep(w) ==
    \/ PopTask(w) \/ KeepDecoder(w) \/ NewDecoder(w) \/ WorkerFail(w)
    \/ WorkerFailed(w) \/ Stop(w) \/ Decode(w) \/ NextDoc(w) \/ Ticket(w)
    \/ CountDoc(w) \/ WriteDoc(w) \/ WriteSeparator(w)

\* The process is gone: nothing happens any more.
Over == status # "running" /\ UNCHANGED vars

Step ==
    /\ status = "running"
    /\ \/ EmitterStep
       \/ \E w \in Workers : WorkerStep(w)
       \/ MainExit
       \/ ErrorRace
       \/ Spurious

Next == Step \/ Over

Spec == Init /\ [][Next]_vars

\* Every thread that can go on goes on.
Fairness ==
    /\ WF_vars(status = "running" /\ EmitterStep)
    /\ \A w \in Workers : WF_vars(status = "running" /\ WorkerStep(w))
    /\ WF_vars(status = "running" /\ MainExit)

FairSpec == Spec /\ Fairness

-----------------------------------------------------------------------------
(* What the properties are about *)

Indices(what) == {i \in 1..Len(out) : out[i].what = what}

\* The records of the input, by kind, and those that pass the filter.
DocsOf(r, kinds) ==
    UNION {UNION {{[file |-> f, block |-> b, doc |-> d] :
                     d \in {d \in DOMAIN r.files[f].blocks[b].docs :
                              r.files[f].blocks[b].docs[d] \in kinds}} :
                  b \in DOMAIN r.files[f].blocks} :
           f \in DOMAIN r.files}

Matches == DocsOf(run, IF run.filter THEN {"match"} ELSE {"match", "skip"})

SoundBlock(f, b) ==
    /\ b.frame = "ok" /\ b.sync = f.sync /\ b.data = "ok"
    /\ \A d \in DOMAIN b.docs : b.docs[d] \in {"match", "skip"}

SoundFile(f) ==
    /\ f.open = "ok" /\ f.header = "ok"
    /\ f.meta.schema = "ok" /\ f.meta.fields = "ok"
    /\ f.meta.setup = "ok" /\ f.meta.codec = "ok"
    /\ \A b \in DOMAIN f.blocks : SoundBlock(f, f.blocks[b])

\* Nothing is wrong with the input.
Sound == \A f \in DOMAIN run.files : SoundFile(run.files[f])

Bound == Max(InitialLimit(run.limit), 0)

Exited == status \in {"exit0", "exit1"}

\* Records answered one by one: printed, or counted with a filter.
Answered == Cardinality(Indices("record"))
                + (IF run.count /\ ~run.filter THEN 0 ELSE counted)

-----------------------------------------------------------------------------
(* Safety *)

WorkerPcs == {"none", "pop", "setup", "fail", "failing", "stop", "decode", "doc",
              "ticket", "dump", "separate", "ended"}

TypeOK ==
    /\ run \in Runs
    /\ status \in {"running", "exit0", "exit1", "aborted"}
    /\ epc \in {"file", "block", "push", "fail", "failing", "exit", "ended"}
    /\ file \in Nat /\ block \in Nat /\ currentFileId \in Nat
    /\ headers \in Seq([meta : Metadata, sync : STRING])
    /\ lastError \in BOOLEAN
    /\ writers \subseteq Threads
    /\ wpc \in [Workers -> WorkerPcs]
    /\ task \in [Workers -> Task \cup {None}]
    /\ decoder \in [Workers -> Decoder \cup {None}]
    /\ doc \in [Workers -> Nat]
    /\ limit \in -(MaxInt + 1)..MaxInt
    /\ counted \in Nat
    /\ screen \in Workers \cup {None}
    /\ out \in Seq([what : {"record", "separator", "debug"},
                    of : Doc \cup {None}, by : Workers])
    /\ Q!TypeOK

\* Never more records than -n asks for, printed or counted, although the
\* limiter is looked at (blockdecoder.cc:84) and counted down (:102) at
\* different times by all the workers.
LimitRespected == Answered <= Bound

\* Records come out whole: each with its separator right behind it, in
\* outDocument (main.cc:20-24), however many workers print.
OneRecordPerLine ==
    \A i \in 1..Len(out) :
        /\ out[i].what = "record" =>
              IF i = Len(out) THEN screen # None
                              ELSE out[i + 1].what = "separator"
        /\ out[i].what = "separator" => i > 1 /\ out[i - 1].what = "record"
        /\ out[i].what # "debug"

WholeRecords == ~(run.filter /\ run.nested) => OneRecordPerLine

\* The records that one worker prints are in the order of the input, so with
\* one worker all are; it takes the FIFO queue for that (concurrentqueue.hpp:52)
\* and a decoder that goes through a block once (blockdecoder.cc:81-110).
Before(c, d) ==
    \/ c.file < d.file
    \/ c.file = d.file /\ c.block < d.block
    \/ c.file = d.file /\ c.block = d.block /\ c.doc < d.doc

InOrder ==
    \A i, j \in Indices("record") :
        i < j /\ out[i].by = out[j].by => Before(out[i].of, out[j].of)

\* A worker decodes a block with the schema of the file the block is from,
\* though its decoder is kept from task to task on the word of fileId
\* (fileemitor.cc:71) and the emitter changes the header meanwhile (:181).
DecoderFits ==
    \A w \in Workers :
        wpc[w] \in {"decode", "doc", "ticket", "dump", "separate"} =>
            /\ decoder[w].header = task[w].header
            /\ TaskMeta(w) = run.files[task[w].file].meta

\* Whoever leaves has closed the queue or found it closed, so that nobody can
\* wait in it for a thread that is gone (fileemitor.cc:136, 142, 162; worker.cc).
LeaversClose ==
    epc = "ended" \/ (\E w \in Workers : wpc[w] = "ended") => is_done

\* A worker that was told "no more" leaves no block behind, even one pushed
\* while it was on its way out.
Drained ==
    (\E w \in Workers : wpc[w] = "ended" /\ ~ret[w].ok) => queue = <<>>

\* A filter or a list of fields that does not fit a schema is reported by the
\* exit status (fileemitor.cc:94-108, 202-212; main.cc:182).
FailureReported ==
    status = "exit0" =>
        /\ \A w \in Workers :
              decoder[w] # None => headers[decoder[w].header].meta.setup = "ok"
        /\ \A h \in DOMAIN headers : headers[h].meta.fields = "ok"

\* The total of --count-only is right when the input is: all the records, or
\* with a filter the matches up to the limit.
CountExact ==
    run.count /\ Exited /\ Sound =>
        counted = IF run.filter
                  THEN IF Cardinality(Matches) < Bound
                       THEN Cardinality(Matches) ELSE Bound
                  ELSE Cardinality(Matches)

\* What is printed is what RecordStream allows.  The n-th record of `out' is the
\* one with n records up to it.
WithRank(n) ==
    {i \in Indices("record") : Cardinality({k \in Indices("record") : k <= i}) = n}

PrintedRecords ==
    [n \in 1..Cardinality(Indices("record")) |-> out[CHOOSE i \in WithRank(n) : TRUE].of]

Stream == INSTANCE RecordStream
    WITH matches <- IF run.count THEN {} ELSE Matches,
         bound   <- Bound,
         sound   <- Sound,
         printed <- PrintedRecords,
         state   <- IF Exited THEN "exited" ELSE status

StreamSpec == Stream!Spec

(* Liveness *)

\* The process ends: no input, fault or limit leaves a thread waiting.
Termination == <>(status # "running")

-----------------------------------------------------------------------------
(* What the documentation says and the code does not do *)

\* aq.1, -n: "Stop when LIMIT is reached", with --count-only too.
CountRespectsLimit ==
    run.count /\ run.limit # -1 => counted <= Max(run.limit, 0)
===============================================================================
