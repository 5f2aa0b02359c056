# Formal models of aq

`aq` prints the records of Avro files. It filters them with an expression
(`-c`), selects fields (`-l`), counts (`--count-only`) and stops after a number
of them (`-n`). One thread reads the files block by block, others inflate,
decode, filter and print. This directory holds TLA+ models of that program, TLC
runs on small instances of them, and TLAPS proofs of what matters most. Every
module is written from the code; `PROJECT.json` names, for each definition, the
lines it stands for. Paths below are relative to `src/avroq/` unless they begin
with `src/`.

## 1. The system

### Components, their state and their operations

| component | state | operations | modelled by |
|---|---|---|---|
| task queue, `util/concurrentqueue.hpp` | `queue`, `is_done`, a mutex, two condition variables | `push`, `pop`, `done` | `ConcurrentQueue` (`ClosableQueue` is what it promises) |
| file emitter, `fileemitor.cc` | the file and header it is at, `currentFileId`, `lastError`, `countedDocuments` | `mainLoop`, `getNextTask`, `returnStop`, `finished` | `Pipeline` |
| worker, `worker.cc` | its `BlockDecoder` and the file id that is for | `operator()` and its handlers | `Pipeline` |
| limiter, `avro/limiter.cc` | an atomic count | `documentFinished`, `finished` | `Pipeline` |
| main, `main.cc` | the threads, `screenMutex` | number of threads, joining, exit status, `outDocument`, compiling the filter | `Pipeline`, `FilterEval`; not the command line |
| parse loop, `avro/blockdecoder.cc` 253-926 | a vector of closures, the place in it | `compileFilteringParser`, `compileTsvExpression` and every item | `FilterLoop` (for a filter), `ParseLoop` (for columns) |
| recursive decoder, the rest of `avro/blockdecoder.cc` | the place in the buffer | `decodeDocument`, `dumpDocument`, `skipOrApplyFilter` | `Decoding`, `Dumpers`, `Pipeline` (the loop over records) |
| file reader, `avro/reader.cc`, `stringbuffer.*`, `filehandler.cc` | the mapped file and a pointer | `readHeader`, `nextBlock`, `eof` | `BlockReader`; outcomes of it in `Pipeline` |
| numbers and strings, `avro/zigzag.hpp`, `typeparser.h`, `deflatedbuffer.*` | the inflated block, its pointer, the start of the record | `read`, `skip`, `startDocument`, `resetToDocument`, `eof` | `BlockReader` |
| predicates, `avro/predicate/` | predicates by node | `assignItems`, `apply`, `setIsNull`, `pushArrayState`, `recordEnd` | `Predicates` (which node has which, with which constant), `FilterEval` (the calls) |
| filter, `filter/` | a state per predicate and record expression in the tree | `resetState`, `expressionPassed`, the extractors | `FilterEval` |
| TSV columns, `avro/dumper/tsv.h` | a pointer per column | `compileFieldsList`, `addToPosition`, `EndDocument` | `Schemas` (which columns), `Dumpers`, `ParseLoop` (what they hold) |
| schema reader, nodes, `avro/schemareader.cc`, `avro/node/` | the tree of nodes, `currentIndex` | `parse`, `nodeByPath` | `Schemas`; not the text of the JSON |
| codecs, `avro/codec/` | an output buffer | `getDeflatedBuffer` | their outcomes, in `Pipeline` |
| filter compiler, `filter/compiler.cc` | none | a Boost.Spirit grammar, `compile` | `FilterCompiler`, `Expressions` (the trees it makes) |
| record dumpers, `avro/dumper/fool.h`, `json.h` | the level of the indent; the levels of rapidjson's `Writer` | a method for each type and bracket | `Dumpers` |
| `src/3rdparty`, `src/debian`, `src/package-scripts` | | | third-party code and packaging |

### How they interact

The emitter pushes tasks (a block, a shared pointer to its header, a file id)
into the queue. Each worker pops one, builds a new `BlockDecoder` if the file
id is not the one its decoder is for, and lets it decode the block. The decoder
goes through every record once for the filter, and for one that passes asks the
limiter and goes through it again from its start to print it. Printing goes
through `outDocument`, which takes `screenMutex`. Who leaves, for whatever
reason, closes the queue. `main` joins all threads; the exit status depends on
`FileEmitor::lastError`.

### What is hard

* the wakeups: `notify_one`, an `if` where a `while` is usual, `done()` from
  any thread at any time;
* the limit, looked at in one place and counted down in another, by all workers;
* state kept from one task, file, block, record or array element to the next:
  the decoder of a worker, the header that the emitter changes while tasks point
  to it, predicate states, the pointer after a record;
* exceptions: eight ways out of `mainLoop`; `Eof`, `Finished`, `runtime_error`
  and what is none of them have different handlers; whoever is waiting must be
  released in every case;
* the compiled loop, in which an item knows only how far the next one is;
* a grammar that never comes back to a choice, whose keywords match the beginning
  of a longer word, and which throws in some places and fails in others;
* names and indents of printed values, of which the decoder, the node and the
  dumper each know a part;
* integers: the largest `int` as "no limit", a long where an `int` is read;
* reading a file that is cut, and block counts that are wrong.

### What makes each component correct

* Queue: it is a closable FIFO queue; nobody sleeps while there is something to
  do; it is bounded; `done()` gets everybody out.
* Emitter, workers, limiter, screen: what is printed is a part of what the input
  says, in order for one worker, whole, all of it if nothing is wrong, and never
  more than `-n`; the count is exact; failures are reported; the process ends.
* Schema reader: the numbers of the nodes are distinct, and the tree is that of
  the records of the file.
* Parse loop: it reads as the recursive decoder does.
* Dumpers: the text is that of the record: JSON that reads back, a line for each
  value at the right depth, a row with the fields that were asked for.
* Filter: a record passes exactly if what the text of `-c` says holds for it; a
  text that means nothing is refused with a message.
* File reader, parsers: what is printed is in the file; a cut is noticed.

## 2. Modules

    ClosableQueue <--implements-- ConcurrentQueue <--INSTANCE-- Pipeline --implements--> RecordStream
                                        |                          |
                              ConcurrentQueueProofs  <-- PipelineTypes <-- PipelineSafety <-- PipelineStream

                                Recursions <-- FilterLoopProofs
                                                  |
                                                  v
                  Decoding <---------------- FilterLoop <-----+
                   ^    ^                                     |
                   |    +------- Dumpers <--------------- ParseLoop
                   |                |
                   |                v
              FilterEval        Schemas                    Recursions <--+
               |      |             ^                                    |
               |      +-------> Predicates     BlockReader <-- BlockNumbers <-- BlockReaderProofs
               v                    |
         FilterCompiler --> Expressions

(an arrow without a label points from a module to one that it EXTENDS)

* **`ConcurrentQueue`**. One action for each stretch of `push`, `pop` and `done`
  under the mutex. A thread is in the wait set (`full`, `empty`), or it is in the
  call (`pc`) and not in the wait set: then it was woken and waits for the mutex.
  `notify_one` takes any one thread out of the set, spurious wakeups are an
  action. `PushWait`/`PushNow`/`PushResume` are the two outcomes of the `if` at
  line 21 and the rest of `push` after the wait; after it, the size is not looked
  at again, as in the code.
* **`ClosableQueue`**. A sequence and a flag: put while open (or drop when
  closed), take from the front, report the end only if closed and empty.
* **`Pipeline`**. All threads of a run, with `ConcurrentQueue` as the queue. The
  steps of a thread that touch nothing shared are merged into the one before
  them; every access to queue, limiter, counter, screen, header and `lastError` is
  a step of its own. The input is data: a run holds the command line and, for
  every file, block and record, the outcome of the library calls on it ("ok",
  "error", "eof", "abort": an exception nobody catches). `lastError` is a plain
  string that several threads assign: two assignments at once are undefined, and
  `ErrorRace` lets the process end there. A run asks for a number of jobs; `correctJobsNumber`
  makes of it the number of workers that are started, the others never are.
* **`RecordStream`**. What a user may expect of a run: records of the input that
  match, each at most once, never more than the limit; a sound input ends with
  all of them, or as many as the limit allows. It says nothing of the order
  between workers; that each worker prints in order is `InOrder`.
* **`Schemas`**. `SchemaReader`: from the JSON of a schema (a value, an array, an
  object) to the tree, with the custom nodes in front of composite types, unions
  made in two steps, and the numbers in the order they are given. `nodeByPath` and
  `compileFieldsList`: from the list of `-l` to the nodes that fill columns.
* **`Expressions`**. The trees of a filter (`filter/detail/ast.hpp`,
  `equality_expression`, `record_expression`), their constants and indices, and
  the visitors that collect parts of a tree.
* **`FilterCompiler`**. The grammar, one operator per rule: a parser takes a text
  and a place and has matched up to another, has failed, or has thrown. A text is a
  sequence of words, numbers, strings in quotes, signs and blanks; a word is cut
  behind each beginning that is a keyword, since the grammar does so too.
* **`Predicates`**. `predicate::List`: from the expression of `-c` to the nodes its
  parts are put on, with constants converted to their types, or the refusal, or an
  exception that nobody catches. `schemaPathByIdent` is a search of its own, with
  other rules than `nodeByPath`: it goes through unions.
* **`Decoding`**. `decodeDocument`: a record as a sequence of small numbers, read as
  the schema says. What the code does by recursion is a recursive function over the
  nodes: the reading of a node, made from those of its children, says for each place in
  the stream where it ends and which calls it makes on predicates. `Nodes` are those
  of all schemas, `Depth` how deep each tree is, so that the recursion ends. `AsInt` is the
  conversion of a long that is read as an `int`.
* **`Dumpers`**. `dumpDocument` gives the calls on a dumper, and each dumper folds
  them: `Json` with the stack of rapidjson's `Writer`, `Fool` with its level, `Tsv`
  with its columns. Text is a sequence of tokens. At the end stands the reference:
  the value that a schema reads in a stream, its JSON, its lines, its members.
* **`FilterLoop`**. The compiler of the loop for a filter and a machine that runs what it
  emits: `pc` is the item, `at` the place in the stream, `log` the calls so far. An item
  knows the distance to the next one; a union knows one for each branch. An access
  behind the stream or the vector ends in `"lost"`. `Connected` says of a list
  that every item hands over to the one for what comes next in the schema.
* **`ParseLoop`**. The same for columns, and printing without a list: `out` is the columns
  or the text. A column that is a null pointer, an access behind the table of indents
  and a failed assertion end in `"lost"` too. The cases of `MCParseLoop` are made by the
  code's own way: a schema is parsed by `parse`, a filter is put on it by
  `assignItems`, a field list by `compileFieldsList`.
* **`FilterEval`**. A text is compiled (`Compile`), its predicates and record
  expressions are put on nodes (`SetFilter`), and the calls that
  `decodeDocument` makes are told to them one by one (`Tell`); then the tree is
  evaluated and reset. A record may be cut (`Eof`), after which the states are not
  reset. `Meaning` is the reference: what an expression says of a value, without
  states and without widths. A case pairs a text with the expression it is
  meant to be, so a mistake of the grammar shows as well.
* **`BlockReader`**. A file as bytes: `readHeader` and `nextBlock` on the mapped
  file, numbers of any width with the shifts, conversions and unsigned comparisons
  of the code, the two passes over a record. What was written, and which files there
  are, is stated with Avro's encoding, apart from the code (`FilesAssumption`).

A definition marked *Variant* is the definition after it with a plausible bug. It
is not part of a model. Each property is broken by a variant in place of the
definition it is a variant of (`PROJECT.json`, "mutants"), so no property holds
for reasons that have nothing to do with the code.

## 3. Runs

All bounds are constants of the `.cfg` files or definitions of the `MC` modules.

| run | what it checks | size |
|---|---|---|
| `queue` | two producers, three consumers, two values, `SIZE` 1, one spurious wakeup: no lost wakeup, `done()` wakes all, capacity; implements `ClosableQueue`; waiting threads go on after `done()`, when there is a value, when there is room | 323 000 states |
| `pipeline` | emitter, two workers, every sound input with five limits and four modes, and each fault the code tells apart; all safety properties, `StreamSpec`, `Termination` | 376 000 states |
| `pipeline_debug` | finding: a line of debugging output between the records | |
| `pipeline_count` | finding: `--count-only` without a filter ignores `-n` | |
| `loop_safe` | the loop against the recursion on the schemas where they agree: nested records, nullable leaves and enums, unions of three, arrays, maps, records in arrays, a union of a record and null; no two nodes have the same number; the rows of `-l`, with the loop and without, the JSON and the default layout are what the record asks for; and every case is one the theorems on the loop speak of (`Sound`) | 46 800 states |
| `loop_null_record` | finding: null and a record in a union | |
| `loop_enum` | finding: a column for an enum in a union, with null behind it | |
| `loop_optionals` | finding: an array whose items are a union | |
| `filter_verdict` | texts with comparisons of every type, null tests, `and`, `or`, `not`, brackets, all indices, records in arrays, arrays in those; names like keywords; texts that mean nothing; two records | 82 000 states |
| `filter_stale` | finding: a state that outlives an array element | |
| `filter_abort` | finding: mistyped filters that end the process | |
| `bytes` | files whole, cut at every byte of header and blocks, and with wrong counts | 28 700 states |

### Why the bounds are enough

* Queue: the hazards need one sleeper and one thread between the wakeup and the
  mutex on each side, so two threads of each kind; the third consumer makes a
  wakeup that is taken by somebody else possible; one spurious wakeup lets a
  thread overtake one that was notified; `SIZE` 1 makes the queue full and more
  than full (the size is tested with `>`). The proofs cover the rest: any number of
  threads and of spurious wakeups, any size.
* Pipeline: `QueueSize` 0 makes the queue full with one task, so the emitter waits
  in most runs; two workers race for the last ticket (limits 0, 1, 2 against up
  to three records), for the screen and with a header change; limits -1 and -2
  are no limit and nothing. Files have at most two blocks of at most two records,
  enough for a header to change, to stay, and to stay with another marker, with
  tasks of the old one queued. A fault is in the first or the second file. One
  spurious wakeup. The largest `int` (`MaxInt`) is 3, so an input of four records
  reaches the end of "no limit", and `limit` goes below zero. `MaxJobs` is 2 for the 16
  of the code; runs ask for 0 to 3 jobs, so the clamp works on both sides and a
  single worker occurs.
* Parse loop and dumpers: what can go wrong is a distance between items; it depends on the
  shape of the schema, so every composite type occurs alone, between leaves and
  within another. Two records make a wrong place visible in the second. Three of
  the cases (`RecordEndCases`) put a record expression on a record that is in no
  array: the loop has an item for it, though `predicate::List` puts none there.
  Collections have one element, and two, in one block of the encoding and in two,
  where they are printed; records within records go as deep as there are indents.
  `IntBits` is 3, and leaf values fit.
* Filter: arrays of up to two elements tell first, last, all and any apart; two
  records show what is left over from the first. Strings are the empty one, one
  that is a beginning of another and one that is an end of it. Texts are written
  from expressions of up to three parts, with blanks between the words and
  without; those that mean nothing lack each part once.
* Bytes: groups of 3 bits in words of 7 instead of 7 in 64; in both the last
  group of the longest number holds one bit and a number of that length fills
  the word. Pages of 8 bytes put the end of the file before, at and behind a page
  end. The marker is two bytes; the two markers used behave differently when
  they are read as a record.

### Fairness

Liveness is checked in `queue` and, as `Termination`, in `pipeline`. In `ConcurrentQueue` a
thread that has begun a call, and is woken, gets the mutex sooner or later (weak
fairness of `PushResume` and of the steps of a `pop` under way); no thread has to
begin a call, be woken spuriously or call `done()`. In `Pipeline` the steps of the
emitter, of each worker and of `main` are weakly fair: these are threads of the
operating system, none holds a lock for ever, and each is enabled until it waits
or ends. Neither spurious wakeups nor the data race on `lastError` are fair. Weak
fairness is enough: `done()` never becomes undone, and a wakeup is not taken back.
`screenMutex` is held for two writes; in the model a worker waiting for it could
be overtaken, but only as often as there are records.

Deadlock is checked everywhere; a process that is over stutters in an action of
its own (`Over`), and in `ConcurrentQueue` some thread can always go on or begin
a call.

## 4. Proofs

The theorems hold for every value of the constants that satisfies the assumptions
named in the modules: finite, disjoint sets of threads (`ThreadsAssumption`,
`WorkersAssumption`); `SIZE`, `MaxSpurious` and `MaxInt` natural numbers, and no
more workers than an `int` can count (`SizeAssumption`, `NumbersAssumption`); at
least one worker and at most as many as there are (`JobsAssumption`); a null pointer that
is no worker, task or decoder (`NoneAssumption`); inputs of the right type
(`RunsAssumption`): any number of files, blocks and records, with any faults.
TLC evaluates all of these in the runs. Those about files and schemas are below.

### The queue (`ConcurrentQueueProofs`)

* `TypeCorrect`, `DoneWakes`, `NoLostWakeup`, `NoLostRoom`, `Reserved`, `Bounded`: the
  invariants of the queue. None of them but the first two is inductive by itself.
  `NoLostConsumerWakeup` says: while a consumer sleeps there are as many awake
  consumers as values. A `push` adds a value and wakes one, if one sleeps; a `pop`
  takes a value and its taker is no longer awake in the call; so the difference
  is kept. `NoLostProducerWakeup` is the same for places. `Capacity` needs
  strengthening: a producer that was woken pushes without looking, so its value
  must be counted from the wakeup on. `Reservation` does that (the queue plus the
  woken producers are at most `SIZE`, the producers and the spurious wakeups),
  and `IInv` is the conjunction, with `DoneWakesEverybody` for the case in which
  nobody waits any more. There is one lemma for each action.
* `Refines`: the queue implements `ClosableQueue`, with `items` the deque and
  `closed` the flag; waiting and being woken are stutters.

### The pipeline

* `PipelineTypes` proves `TypeOK`. The queue's part comes from
  `ConcurrentQueueProofs` by `INSTANCE`: a step of the pipeline is a step of the
  queue or leaves it alone (`QueueStep`). `TypeInv` adds what the types rest on:
  the file and the block that the emitter is at exist (`EmitterPlace`), a task in the
  queue or with a worker is a block of the input (`TasksPlaced`), and the limiter is
  below zero by no more than the workers that are on their way out (`LimitKept`):
  `fetch_sub` takes one from zero only for a worker that leaves then, so the `int`
  does not wrap around.
* `PipelineSafety` proves `LeaversClose` and `Drained` from `ClosedBehind` (who left
  found the queue closed, or closed it; who was told "no more" left it empty),
  which is inductive since a closed queue stays closed and takes nothing. It
  proves `DecoderFits` from `HeadersInv`: header objects are only added, their
  metadata never change (`KeepHeader` changes the marker of the last), and equal
  file ids mean equal headers, as `currentFileId` and `headers` grow together; so a
  decoder kept on the word of its file id is the right one. And it proves
  `FailureReported` from `ReportInv`: a failure is in `lastError` or on its way
  there, and `lastError` is never taken back.
* For the output it proves `WholeRecords` (`ScreenHeld`: a worker is between record and
  separator exactly if it holds `screenMutex`) and `InOrder`. For the order, `Written`
  says of every record on stdout that it lies behind the worker that wrote it, in
  no block that another worker has, and in none that is queued or still to come;
  `BlocksOrdered` that the emitter is past all the tasks, that the queue is in
  order, and behind all the tasks that workers have.
* Its proof of `LimitRespected` rests on an equality: records
  answered, plus workers between ticket and answer (`Dumping`), plus what is left
  of the limit, are the limit. The look at the limiter at the head of the loop
  (`blockdecoder.cc:84`) plays no part in the proof: it only saves work. The counter under
  `--count-only` without a filter is not bounded by it, hence the definition of
  `Answered` (see the findings).
* `PipelineStream` proves `CountExact` and that the pipeline implements
  `RecordStream` (`ImplementsStream`: `StreamSpec`). A record that gets a ticket is a
  match (`TicketInv`); on sound input nobody fails, and nobody leaves early while
  the limiter is open (`SoundInv`), so that an abort shows unsound input (`NoAbort`).
  A match is with the emitter, in the queue, in the hands of a worker that has not
  answered it, or settled; `Accounted` says that on sound input the settled ones
  are the printed ones, or as many as were counted. Each step of the program moves a match
  from one place to the next or leaves it where it is; only `CountDoc`, `WriteDoc`,
  or `Decode` when whole blocks are counted, settle any. When `main` has joined
  everybody, the emitter is past the last file, the queue is empty and no worker
  has a record in hand, unless the limit is used up (`AllSettled`); with the
  equality for the limit both totals follow. That a record is not printed twice is
  `Written` again, on any input. `Ranked` numbers the records on stdout through,
  which makes them the sequence that `RecordStream` speaks of.

### Recursion (`Recursions`)

A recursive function says something only if it exists. `Recursion` (over numbers) and
`RankRecursion` (over anything with a rank, for schemas the depth) show that it does and that it
satisfies its equation, `Induct` and `RankInduct` are the inductions that go with them. The
step is a function and the property is a set, so none needs an operator as a parameter.
`BlockReader`, `Decoding` and `FilterLoop` have their recursions in that form.

### The parse loop (`FilterLoopProofs`)

The theorems are about `FilterSpec`, the part of `ParseLoop`'s `Spec` that has to do with
filters; the run checks both. They hold for all schemas that are trees (`NodesAssumption`: the
depth falls from a node to its children; custom nodes, arrays and maps have one child) and
all cases (`CasesAssumption`), for every set of nodes that predicates are on, and whatever the
branches and counts in the stream are.

* `FilterTypes`: `TypeOK`, with no other assumption.
* `FilterAligned`, `FilterSameCalls`, `FilterRecordsLast`: the loop reads every record to its end,
  tells each predicate in the same order what `decodeDocument` tells it, and tells of the end
  of a record after everything in it. The hypothesis is `Sound`: the compiled list is connected, the
  block holds whole records, and no node is in the tree twice (a node owns its children).
  TLC finds every case of `loop_safe` sound. In `loop_null_record` the list is not
  connected, and in `loop_optionals` the recursive reading does not get through the record either.
* `SimpleConnected`: the compiler connects the list of every schema in which the branches of
  unions are nulls, leaves, arrays and maps, at any depth, whatever the filter is on. It says where
  the disagreements of section 5 can be, and that there are no others in the lists for filters: at unions
  with a branch of several items (a record, a union), whose distance goes to another branch, or
  with a custom node, which loses its own. `SimpleReading` puts it together: on simple schemas
  all three properties hold of all whole records, with no look at the list.

The invariant is `LoopInv`: the case and its list stay (`CaseKept`), the state is of its types
(`PlaceKept`), and, if the case is sound, the loop is on its course (`OnCourse`): not lost, at a
place from which it comes to the end of the list just where the record ends, with the calls so
far and those to come in the right order. A mark (item, place, calls to come) is *good* if
some set holds it in which each mark is the end of the record, at the end of the list with no
calls to come, or has a step of the loop to another of the set; so a step from a good mark
is one the loop can take and leads to a good mark. `Carries` is the lemma in which the work is:
if behind the items of a node there is a good mark, then so there is before them, with
the calls of the node put in front. It is shown by induction over the depth, with one lemma for each
kind of node, and speaks of the exits of a node in the list (`Exits`), in which a null may be stepped
over or not. It also says which calls the node makes: for each id those of the
recursive reading, and for a given record its end last (`Tidy`), both of which outlast putting the calls
of one node behind those of another.

### The bytes of a file (`BlockNumbers`, `BlockReaderProofs`)

Every property of the run `bytes` is proved for every file and all sizes of groups,
words, markers and pages, 7, 64, 16 and 4096 among them. `FilesAssumption` says what
a file is: bytes, cut anywhere, of a header with one schema, which does not end with
a NUL, and a marker, not all zeros, and of any blocks of any records, whose numbers
are longs; file and last page stay below 2^63 bytes; the counts may be too large by
`overcount`. `SizesAssumption` says that the sizes are not zero.

* `BlockNumbers` is the arithmetic. The model's recursive functions (powers of two,
  `encoded` in the loop of `readZigZagLong`, the bytes of what was written) are shown to exist
  and to satisfy their equations. From these: `decodeZigzag64` undoes the zigzag encoding
  (`ZigzagInverse`), groups are put together again, the last of which is cut by the
  width of the word (`EncodedPrefix`), so a number that was written is read as it was and
  skipped up to where it ends (`ReadWritten`), one that is cut by the zeros behind the file is no larger
  than it was and ends behind the file (`ReadCut`), and `encoded` never overflows
  whatever the bytes are (`EncodedFits`).
* `RecordWritten`: a record that is there is read as it was written, and skipping it
  ends where reading it does.
* `TypeCorrect` and `NothingInvented` come from one inductive invariant, `IInv`. Neither
  is inductive alone: what is printed depends on where the worker is, and that on what
  the emitter has read. So `Placed` says that the emitter's pointer is at the end of the blocks
  read so far and `sync` is the marker, unless the header was cut, when everything
  is behind the file's end; `Held` that the block in hand is one that was written, at its
  place; `InPlace` that the worker is where the next record begins, or, with one
  that has passed in hand, `start` is. `NextBlockStep` is the heart of it: what `nextBlock`
  does not refuse was written, although numbers are read from behind the end and
  the check of the size is made with unsigned words; a marker is found behind the
  end only if it is all zeros, and it is not.
* `CutReported` needs `Reported` as well: a run ends with an exception only on a file that ends at
  no end of a block, and if it goes on, the schema was all there. The hard part
  is the header (`MetadataRead`): a key or a value that is cut ends behind the file, and
  after it only empty ones are read, so the schema is not found.
* `OneTooMany` needs `Behind`: when the records that were written are gone through, the
  worker is exactly at the end of the data, and a record read from there ends behind
  it, where `DeflatedBuffer::eof` sees it. That takes the hypothesis on the
  length of the string behind the data, and that neither the length nor the place
  is so large that the sum overflows (`RecordBehind`).

`IInv`, `Reported` and `Behind` were checked by TLC on the files of `bytes` before they were
proved.

### Only model-checked

All liveness (it needs fairness and ENABLED, which the prover does not handle):
`Termination`, and what `queue` checks of waiting threads. What is printed by `ParseLoop`
(`NumbersDistinct`, `RowExact`, `JsonExact`, `FoolExact`), and what `FilterEval` says of verdicts,
refusals and reports: there `Schemas`, `Dumpers`, `Expressions`, `FilterCompiler` and `Predicates`
come in, whose recursions over JSON, texts, expressions and values are RECURSIVE
operators, out of the prover's reach, and the properties compare two of these
on all data. `IntAssumption`, in `Decoding`, is for those: no theorem needs it.

## 5. Where the code disagrees with its documentation or itself

Each has a run that finds it (`PROJECT.json`, "findings").

* `pipeline_debug`: `predicate/list.cc:176` writes the schema of each predicate
  inside a non-array record expression to standard output, without
  `screenMutex`.
* `pipeline_count`: `--count-only` without `-c` counts whole blocks and does not
  stop at `-n`.
* `loop_null_record`: in a union of null and a record the compiled loop collects
  the distances of the branches from the last to the first and looks them up
  from the first; everything after such a union is read from the wrong place.
  In the schemas of `loop_safe` it does not matter: there all branches compile to
  one item each, or the record comes before null.
* `loop_enum`: a type in a custom node loses the distance it should step over
  (`blockdecoder.cc:854`, and 558 for filters). In `[enum, null]` the column of the
  enum is replaced by "null", so the row is wrong; in a union of an enum and an int the filter's loop
  would read an int that is not there. With null in front of the enum the next
  item is the right one, so that order is in `loop_safe`.
* `loop_optionals`: the union of the items of an array, or the values of a map,
  stays without branches (`schemareader.cc:159`, 161), and the first element is
  read by a branch that is not there, even if no filter or column is about it.
* `filter_stale`: `state::pushState` keeps the current state, so an element whose
  field is null counts with the value of the element before it.
* `filter_abort`: `main` reports a filter that does not compile, but what
  `record_expr` expects it throws as an `expectation_failure` (`filter/compiler.cc:259`),
  which nobody catches: `-c 's'` and `-c 's = 1'` end the process. So do, in a worker,
  an array without an index (`predicate.cc:115`), an order of strings
  (`predicate.cc:42`) and a number for an enum (`predicate/list.cc:252`).

Further observations, made with the models and kept out of the passing runs by
the choice of inputs:

* the keywords match the beginning of a longer word, so a condition on a field
  whose name begins with "not" is read as the negation of one on the rest of the name
  (`compiler.cc:263`); there is no `not` in front of brackets;
* a blank in front of the string, as in `s:contains( "x")`, ends the process, for
  `quoted_string` skips none and `record_expr`, tried next, throws;
* `xs[-1]` is `xs[any]`: the special indices are -1, -2 and -3 (`ast.hpp:83`);
* a fraction is cut off from a constant for an `int` (`list.cc:83`), so `f == 0.5` is
  `f == 0`; `filter_verdict` has fractions with `>` and `<=` only, of positive numbers;
* a long is compared as an `int` (`predicate.cc:53`) and `-l` prints it as one with
  the loop (`blockdecoder.cc:896`) and as a long without: `Verdict` and `RowExact`,
  which know no widths, are checked on longs that fit; a constant beyond an `int` is
  undefined (`list.cc:84`) and not in the model;
* strings are compared with `strncmp`, which stops at a NUL; `contains("")` is false
  of an empty string (`stringbuffer.h:39-78`);
* a block of array elements with a negative count, which Avro allows, is taken for
  one without elements (`blockdecoder.cc:198`); the model does the same and the
  inputs have none;
* a map of other values than strings or ints cannot be printed, an assertion
  (`blockdecoder.cc:982`);
* a record, array or map 13 levels deep reads behind the table of indents
  (`dumper/fool.h:14-28`); `loop_safe` goes to 12;
* with `-l`, text is not escaped, a tab or newline in a string makes a column or row
  (`dumper/tsv.h:74`);
* the clamp of `--jobs` is 16 (`main.cc:57`), the manual page says 10
  (`src/package-scripts/aq.1:46`);
* metadata in several blocks, which Avro allows, reach the assertion of
  `reader.cc:75`;
* a record cut within an array leaves states in its predicates, as `Eof` skips
  `resetState` (`blockdecoder.cc:107`), and the first record of the next block
  may be judged by them; cuts in `filter_verdict` are therefore on plain fields;
* an index inside a record expression over an array of records, as in
  `rs[all](xs[any] == 1)`, collects over all the elements; `filter_verdict` has it
  with at most one;
* a record expression on a record that is in no array is never true
  (`list.cc:173-179` puts nothing on its node);
* an index on a field that is no array: `[all]` always holds, `[any]` never;
* a column of a record and one of a field of it, `-l p,p.q`: the second is never
  filled, and `Tsv::EndDocument` follows its null pointer (`dumper/tsv.h:140`;
  `TODO.txt:18` knows that this cannot be printed);
* `-l rec.typo` is not refused: in a custom node a name that is not found yields
  what the node stands for (`node/nodebypath.cc:35`);
* `-l` cannot name a field of a record that may be null, `-c` can: `nodeByPath`
  does not go through unions, `schemaPathByIdent` does;
* a type that was defined and is used again by its name, and a member such as
  `namespace`, make the schema reader refuse the file (`schemareader.cc:97`, 128);
* `notNullUnion` (`list.cc:368`) does not come to an end on a union without a branch
  that is not null; Avro's own schemas have none;
* a file cut in its header behind the schema is taken for one without blocks, as the
  zeros behind it pass for the end of the metadata and a marker (`CutBehindSchema`, the
  exception in `CutReported`); one cut within the numbers before a block may die of a bus error (`"lost"`)
  instead of an exception, which `CutReported` allows;
* a block with fewer records than it announces yields one record made of what is
  behind it (`OneTooMany`), as `DeflatedBuffer::eof` is one byte late; or more than one, if
  what is behind it reads as a string of a negative length, for then `skip` takes the
  pointer back. `OneTooMany` excepts that, and the files of `bytes` have it.

## 6. Not modelled

The library parts of parsing: Boost.Spirit (its operators are written out in
`FilterCompiler`), the schema's JSON, the command line (Boost.Program_options) with
the escapes in its separators. The layout of `--jp`, which is rapidjson's
`PrettyWriter`, the spelling of numbers and the escapes in strings of JSON. zlib and
packaging. `FileEmitor::stop` is written in six places and read in none. Fixed
values have no decision in them except for their size. In `BlockReader` blocks are
not compressed and there is one reader after the other; threads are `Pipeline`'s.
A number, string or branch is one item of the stream in `Decoding` and `Dumpers`; its
bytes are `BlockReader`'s.

## 7. Plan

Done, in this order:

1. the queue, what it promises, its runs;
2. the pipeline on top of it, what it promises, sound inputs and faults;
3. the proofs of the queue and of the limit;
4. the compiled loop against the recursive decoder;
5. the schema reader, predicates and filter evaluation; the bytes of blocks;
6. the filter from its text: the grammar, constants of every type, what is refused
   and what aborts;
7. what is printed: the three dumpers, and the rows of `-l` in place of whether
   columns are filled;
8. numbers with their width, the end of "no limit", the clamp of `--jobs`, the bytes
   of the header;
9. proofs of every safety property of the pipeline, and that it implements
   `RecordStream`;
10. proofs of every property of `BlockReader`, and of the arithmetic of its numbers;
11. proofs that the loop for a filter reads as the recursive decoder does, if its list is
   connected, and that the compiler connects the lists of simple schemas.

To do:

12. a filter run with cuts in arrays, and a run of the decoder on blocks with a
   negative count;
13. the escapes in separators and the spelling of numbers, if they are ever more
   than formatting.
