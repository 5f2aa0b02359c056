----------------------------- MODULE BlockReader -----------------------------
(***************************************************************************)
(* A file as bytes.  The emitter reads the header and the blocks from the  *)
(* mapped file (Reader::readHeader, Reader::nextBlock, reader.cc;          *)
(* StringBuffer) until the file ends; a worker reads the records of each   *)
(* block (DeflatedBuffer, zigzag.hpp, typeparser.h), once for the filter,  *)
(* if there is one, and from its start to print it if it passes.  Order,   *)
(* threads and codecs are Pipeline's; here one block is read after the     *)
(* other, uncompressed, and a record is a long and a string.               *)
(*                                                                         *)
(* A byte holds a group of GroupBits bits and the flag that another follows*)
(* and a word WordBits, so that the arithmetic of words, which the code    *)
(* leaves to overflow and conversions, is all there with small numbers.    *)
(*                                                                         *)
(* A file may be cut anywhere.  What is read behind its end is zeros up to *)
(* the end of the last page, and a bus error beyond.                       *)
(*                                                                         *)
(* A definition marked "Variant" is the definition after it with a bug; it *)
(* is no part of the model, and shows that a property sees such a bug.     *)
(***************************************************************************)
EXTENDS Integers, Sequences

CONSTANTS GroupBits,    \* 7
          WordBits,     \* 64
          SyncLength,   \* 16
          PageSize,     \* 4096
          AVRO_MAGICK,  \* the bytes a file begins with
          SchemaKey,    \* the key of the schema in the metadata
          Files         \* records with metadata, the pairs of a key and a value
                        \* that were written; sync, the marker; written, the
                        \* blocks, sequences of records; overcount, by how many
                        \* records the count of each is wrong; and bytes, what
                        \* is left of it all

ASSUME SizesAssumption ==
    /\ GroupBits \in Nat \ {0} /\ WordBits \in Nat \ {0}
    /\ SyncLength \in Nat \ {0} /\ PageSize \in Nat \ {0}

VARIABLES file,         \* the file; never changes
          sync,         \* header.sync
          pointer,      \* the pointer of the emitter's StringBuffer
          block,        \* the block in hand: count, of its records, or how many
                        \* there were when it was given up, and from and size,
                        \* where its data are
          at,           \* the pointer of the worker's DeflatedBuffer
          start,        \* documentStartPointer
          passed,       \* the record at start has passed the filter
          i,            \* records of the block gone through
          blocks,       \* blocks read so far, this one too
          printed,      \* what was printed: block, number and value
          status        \* "opened", "running", "ended", "error", or "lost": undefined

vars == <<file, sync, pointer, block, at, start, passed, i, blocks, printed, status>>

-----------------------------------------------------------------------------
(* Memory and numbers *)

\* 1 << n
Pow2[n \in Nat] == IF n = 0 THEN 1 ELSE 2 * Pow2[n - 1]

Radix == Pow2[GroupBits]
Word  == Pow2[WordBits]

\* What the groups before the nth are worth: shift is GroupBits * n there.
Weight(n) == Pow2[GroupBits * n]

\* The groups a number has at most: shift goes up to 63.
MaxGroups == (WordBits + GroupBits - 1) \div GroupBits

\* A conversion to size_t.
size_t(n) == n % Word

\* What the mapping can be asked for.
Mapped == PageSize * ((Len(file.bytes) + PageSize - 1) \div PageSize)

Byte(p) == IF p \in 0..(Len(file.bytes) - 1) THEN file.bytes[p + 1] ELSE 0

Readable(p, n) == p >= 0 /\ n >= 0 /\ p + n <= Mapped

\* (e >> 1) ^ -(e & 1)
decodeZigzag64(e) == IF e % 2 = 0 THEN e \div 2 ELSE -((e + 1) \div 2)

\* The places, if any, of the byte that ends the number at p.
LastOf(p) ==
    {n \in 0..(MaxGroups - 1) :
        Byte(p + n) < Radix /\ \A j \in 0..(n - 1) : Byte(p + j) >= Radix}

Outcome(how, value, to) == [how |-> how, value |-> value, at |-> to]

\* Both loops over the bytes of a number end alike: at its last byte, or with an
\* exception when it has too many, Eof if that is at the end (eof).
NumberAt(p, value, eof) ==
    LET last == LastOf(p)
        taken == IF last = {} THEN MaxGroups ELSE (CHOOSE n \in last : TRUE) + 1
        failure == IF eof THEN "eof" ELSE "error"
    IN  IF Readable(p, taken)
        THEN Outcome(IF last # {} THEN "ok" ELSE failure,
                     IF last # {} THEN value ELSE 0, p + taken)
        ELSE Outcome("lost", 0, p)

\* "encoded" after each of the groups at p.  What does not fit into a word is
\* shifted out of it.
Encoded(p) ==
    LET encoded[n \in 0..MaxGroups] ==
            IF n = 0 THEN 0
            ELSE encoded[n - 1] + (((Byte(p + n - 1) % Radix) * Weight(n - 1)) % Word)
    IN  encoded

\* readZigZagLong.
readZigZagLong(p, eof) ==
    LET last == LastOf(p)
        value == IF last = {} THEN 0
                 ELSE decodeZigzag64(Encoded(p)[(CHOOSE n \in last : TRUE) + 1])
    IN  NumberAt(p, value, eof)

\* skipZigZagLong.
skipZigZagLong(p, eof) == NumberAt(p, 0, eof)

-----------------------------------------------------------------------------
Init ==
    /\ file \in Files
    /\ pointer = 0
    /\ block = [count |-> 0, from |-> 0, size |-> 0]
    /\ at = 0 /\ start = 0 /\ passed = FALSE
    /\ i = 0 /\ blocks = 0
    /\ printed = <<>>
    /\ sync = <<>>
    /\ status = "opened"

-----------------------------------------------------------------------------
(* The header.  An outcome has the place it was read up to.                  *)

Bytes(p, n) == [j \in 1..n |-> Byte(p + j - 1)]

\* getStdString: there is no string as long as a negative number.
StdString(len) ==
    IF len.how # "ok" THEN Outcome(len.how, <<>>, len.at)
    ELSE IF len.value < 0 THEN Outcome("error", <<>>, len.at)
    ELSE IF ~Readable(len.at, len.value) THEN Outcome("lost", <<>>, len.at)
    ELSE Outcome("ok", Bytes(len.at, len.value), len.at + len.value)

NumberIn(p) == readZigZagLong(p, p + MaxGroups >= Len(file.bytes))

\* The metadata: their number, and for each a key and a value.  The value of the
\* outcome is that of the schema, empty if there is none.
Metadata ==
    LET number == NumberIn(Len(AVRO_MAGICK))
        entries[n \in 0..(IF number.value > 0 THEN number.value ELSE 0)] ==
            IF n = 0 THEN Outcome(number.how, <<>>, number.at)
            ELSE LET before == entries[n - 1]
                     key == StdString(NumberIn(before.at))
                     value == StdString(NumberIn(key.at))
                 IN  IF before.how # "ok" THEN before
                     ELSE IF key.how # "ok" THEN key
                     ELSE IF value.how # "ok" THEN value
                     ELSE [value EXCEPT !.value = IF key.value = SchemaKey THEN @
                                                  ELSE before.value]
    IN  entries[IF number.value > 0 THEN number.value ELSE 0]

\* What ends a reading early: an exception or an assertion, or an access that is
\* undefined.  An Eof, which nobody there catches, ends the process as well.
Fail(how) ==
    /\ status' = IF how = "lost" THEN "lost" ELSE "error"
    /\ UNCHANGED <<file, sync, pointer, block, at, start, passed, i, blocks, printed>>

\* The schema that was written; no other text that a cut leaves is one.
Schema == LET j == CHOOSE j \in DOMAIN file.metadata : file.metadata[j][1] = SchemaKey
          IN  file.metadata[j][2]

\* The marker at a place, and what is behind it.
HeaderEnds(p, metadata) ==
    IF metadata.value # Schema THEN Fail("error")
    ELSE /\ sync' = Bytes(p, SyncLength)
         /\ pointer' = p + SyncLength
         /\ status' = "running"
         /\ UNCHANGED <<file, block, at, start, passed, i, blocks, printed>>

\* Variant: does not read the end of the map.
ReadHeaderUnended ==
    /\ status = "opened"
    /\ LET metadata == Metadata
       IN  IF ~Readable(0, Len(AVRO_MAGICK)) THEN Fail("lost")
           ELSE IF Bytes(0, Len(AVRO_MAGICK)) # AVRO_MAGICK THEN Fail("error")
           ELSE IF metadata.how # "ok" THEN Fail(metadata.how)
           ELSE HeaderEnds(metadata.at, metadata)

\* readHeader, and parseSchema: the magic bytes, the metadata, the end of the map,
\* an assertion, and the marker.
ReadHeader ==
    /\ status = "opened"
    /\ LET metadata == Metadata
       IN  IF ~Readable(0, Len(AVRO_MAGICK)) THEN Fail("lost")
           ELSE IF Bytes(0, Len(AVRO_MAGICK)) # AVRO_MAGICK THEN Fail("error")
           ELSE IF metadata.how # "ok" THEN Fail(metadata.how)
           ELSE IF ~Readable(metadata.at, 1) THEN Fail("lost")
           ELSE IF Byte(metadata.at) # 0 THEN Fail("error")
           ELSE IF ~Readable(metadata.at + 1, SyncLength) THEN Fail("lost")
           ELSE HeaderEnds(metadata.at + 1, metadata)

-----------------------------------------------------------------------------
(* The blocks *)

\* The worker is done with the block in hand.
Between == status = "running" /\ i >= block.count

\* Reader::eof.
EndOfFile ==
    /\ Between
    /\ Len(file.bytes) <= pointer
    /\ status' = "ended"
    /\ UNCHANGED <<file, sync, pointer, block, at, start, passed, i, blocks, printed>>

\* Variant: a block that is not all there is the end of the file.
NextBlockLenient ==
    /\ Between
    /\ pointer < Len(file.bytes)
    /\ LET count == readZigZagLong(pointer, FALSE)
           size == readZigZagLong(count.at, FALSE)
           from == size.at
           behind == size_t(from + size.value)
       IN  IF size_t(size.value + SyncLength) > size_t(Len(file.bytes) - from)
                \/ Bytes(behind, SyncLength) # sync
           THEN status' = "ended" /\ UNCHANGED <<file, sync, pointer, block, at, start, passed, i, blocks, printed>>
           ELSE /\ block' = [count |-> count.value, from |-> from, size |-> size_t(size.value)]
                /\ pointer' = behind + SyncLength
                /\ at' = 0 /\ start' = 0 /\ i' = 0
                /\ blocks' = blocks + 1
                /\ UNCHANGED <<file, sync, passed, printed, status>>

\* nextBlock: the number of records, the size, the data, the marker.  The check
\* of the size is made with unsigned words.
NextBlock ==
    /\ Between
    /\ pointer < Len(file.bytes)
    /\ LET count == NumberIn(pointer)
           size == NumberIn(count.at)
           from == size.at
           behind == size_t(from + size.value)
       IN  IF count.how # "ok" THEN Fail(count.how)
           ELSE IF size.how # "ok" THEN Fail(size.how)
           ELSE IF size_t(size.value + SyncLength) > size_t(Len(file.bytes) - from)
                THEN Fail("error")
           ELSE IF ~Readable(behind, SyncLength) THEN Fail("lost")
           ELSE IF Bytes(behind, SyncLength) # sync THEN Fail("error")
           ELSE /\ block' = [count |-> count.value, from |-> from,
                             size |-> size_t(size.value)]
                /\ pointer' = behind + SyncLength
                /\ at' = 0 /\ start' = 0 /\ i' = 0
                /\ blocks' = blocks + 1
                /\ UNCHANGED <<file, sync, passed, printed, status>>

-----------------------------------------------------------------------------
(* The worker.  An outcome's "at" is a place in the block's buffer here.     *)

\* Variant: looks at the end of the file.
BufferEofFile(p) == Len(file.bytes) < block.from + p

\* DeflatedBuffer::eof, one further than StringBuffer's.
BufferEof(p) == block.size < p

InBuffer(n) == Outcome(n.how, n.value, n.at - block.from)

\* A long: TypeParser<long>::read and skip.
LongAt(p, wanted) ==
    LET eof == BufferEof(p + MaxGroups)
    IN  InBuffer(IF wanted THEN readZigZagLong(block.from + p, eof)
                           ELSE skipZigZagLong(block.from + p, eof))

\* A string: TypeParser<StringBuffer>.  The length is read to be skipped, too;
\* the bytes are not looked at before they are printed.
StringBehind(len) == Outcome(len.how, [from |-> len.at, len |-> size_t(len.value)],
                             size_t(len.at + len.value))

StringAt(p) == StringBehind(LongAt(p, TRUE))

\* A record, read or skipped.
RecordAt(p, wanted) ==
    LET long == LongAt(p, wanted)
        string == StringAt(long.at)
    IN  IF long.how # "ok" THEN Outcome(long.how, <<>>, long.at)
        ELSE Outcome(string.how, <<long.value, string.value>>, string.at)

\* An exception in the worker: after Eof it goes on with the next block, a
\* runtime_error ends the run.
Abandon(how) ==
    /\ block' = IF how = "eof" THEN [block EXCEPT !.count = i] ELSE block
    /\ passed' = FALSE
    /\ status' = IF how = "eof" THEN status ELSE how
    /\ UNCHANGED <<file, sync, pointer, at, start, i, blocks, printed>>

\* Variant: one more.
InBlockInclusive == status = "running" /\ i <= block.count

InBlock == status = "running" /\ i < block.count

EndOfBuffer ==
    /\ InBlock
    /\ ~passed
    /\ BufferEof(at)
    /\ Abandon("eof")

\* startDocument, and the filter goes through the record; of a field it wants the
\* value or not.  If the record does not pass, the next one begins right there.
FilterRecord(wanted, passes) ==
    /\ InBlock /\ ~passed
    /\ ~BufferEof(at)
    /\ LET record == RecordAt(at, wanted)
       IN  IF record.how # "ok" THEN Abandon(record.how)
           ELSE /\ start' = at
                /\ at' = record.at
                /\ passed' = passes
                /\ i' = IF passes THEN i ELSE i + 1
                /\ UNCHANGED <<file, sync, pointer, block, blocks, printed, status>>

\* Without a filter the parse loop is empty: there is no first pass.
StartRecord ==
    /\ InBlock /\ ~passed
    /\ ~BufferEof(at)
    /\ start' = at
    /\ passed' = TRUE
    /\ UNCHANGED <<file, sync, pointer, block, at, i, blocks, printed, status>>

\* Variant: the buffer stays where the filter has left off.
resetNothing == at

\* resetToDocument.
resetToDocument == start

Line(value, s) ==
    [block |-> blocks, number |-> i + 1, value |-> value,
     text |-> [j \in 1..s.len |-> Byte(block.from + s.from + j - 1)]]

\* dumpDocument: the record again, from its start, to print it.
DumpRecord ==
    /\ InBlock /\ passed
    /\ LET record == RecordAt(resetToDocument, TRUE)
           string == record.value[2]
       IN  IF record.how # "ok" THEN Abandon(record.how)
           ELSE IF ~Readable(block.from + string.from, string.len) THEN Abandon("lost")
           ELSE /\ at' = record.at
                /\ passed' = FALSE
                /\ i' = i + 1
                /\ printed' = Append(printed, Line(record.value[1], string))
                /\ UNCHANGED <<file, sync, pointer, block, start, blocks, status>>

Over == status # "running" /\ UNCHANGED vars

Next ==
    \/ ReadHeader \/ EndOfFile \/ NextBlock \/ EndOfBuffer \/ StartRecord \/ Over
    \/ \E wanted, passes \in BOOLEAN : FilterRecord(wanted, passes)
    \/ DumpRecord

Spec == Init /\ [][Next]_vars

-----------------------------------------------------------------------------
(* What was written: a file is whole, or cut.  The encoding is Avro's.      *)

\* Zigzag, then groups from the least to the most significant.
Zigzag(n) == IF n >= 0 THEN 2 * n ELSE -2 * n - 1

Groups(n) ==
    LET e == Zigzag(n)
        last == CHOOSE j \in 1..MaxGroups :
                    e < Weight(j) /\ \A h \in 1..(j - 1) : e >= Weight(h)
    IN  [j \in 1..last |->
           ((e \div Weight(j - 1)) % Radix) + IF j < last THEN Radix ELSE 0]

RecordBytes(r) == Groups(r.value) \o Groups(Len(r.text)) \o r.text

\* The bytes of the first n of a sequence of records, and of a block.
DataBytes(records) ==
    LET bytes[n \in 0..Len(records)] ==
            IF n = 0 THEN <<>> ELSE bytes[n - 1] \o RecordBytes(records[n])
    IN  bytes

BlockBytes(records, overcount, marker) ==
    LET data == DataBytes(records)[Len(records)]
    IN  Groups(Len(records) + overcount) \o Groups(Len(data)) \o data \o marker

StringBytes(string) == Groups(Len(string)) \o string

MetaBytes(entry) == StringBytes(entry[1]) \o StringBytes(entry[2])

\* The bytes of the header up to and with each of the metadata, and all of them.
EntryBytes(metadata) ==
    LET bytes[j \in 0..Len(metadata)] ==
            IF j = 0 THEN AVRO_MAGICK \o Groups(Len(metadata))
            ELSE bytes[j - 1] \o MetaBytes(metadata[j])
    IN  bytes

HeaderBytes(metadata, marker) == EntryBytes(metadata)[Len(metadata)] \o <<0>> \o marker

\* The bytes of the header and of the first n blocks.
FileBytes(f) ==
    LET bytes[j \in 0..Len(f.written)] ==
            IF j = 0 THEN HeaderBytes(f.metadata, f.sync)
            ELSE bytes[j - 1] \o BlockBytes(f.written[j], f.overcount, f.sync)
    IN  bytes

Whole(n) == file.bytes = FileBytes(file)[n]

\* The file was cut in the header, but behind the schema.
CutBehindSchema ==
    \E n \in DOMAIN file.metadata :
        /\ file.metadata[n][1] = SchemaKey
        /\ Len(file.bytes) \in Len(EntryBytes(file.metadata)[n])
                                ..(Len(FileBytes(file)[0]) - 1)

-----------------------------------------------------------------------------
(* What files there are                                                     *)

\* What a byte holds, and what a number of a file may be.
Octet == 0..(2 * Radix - 1)
Fits(n) == n \in -(Word \div 2)..((Word \div 2) - 1)

Strings == Seq(Octet)

\* The numbers that are written into a file.
NumbersOf(f) ==
    {Len(f.metadata)}
    \cup {Len(entry[k]) : entry \in {f.metadata[n] : n \in DOMAIN f.metadata}, k \in {1, 2}}
    \cup UNION {LET records == f.written[n]
               IN  {Len(records) + f.overcount, Len(DataBytes(records)[Len(records)])}
                   \cup {records[m].value : m \in DOMAIN records}
                   \cup {Len(records[m].text) : m \in DOMAIN records} :
               n \in DOMAIN f.written}

\* Words hold them, and all places up to the end of the last page.
Sizes(f) ==
    /\ \A n \in NumbersOf(f) : Fits(n)
    /\ Len(FileBytes(f)[Len(f.written)]) + PageSize <= Word \div 2

\* There is one schema, a text; so it does not end with a zero.
HasSchema(f) ==
    \E n \in DOMAIN f.metadata :
        LET text == f.metadata[n][2]
        IN  /\ \A m \in DOMAIN f.metadata : f.metadata[m][1] = SchemaKey <=> m = n
            /\ Len(text) > 0 /\ text[Len(text)] # 0

\* The marker is random, so not all of it is zero.
HasMarker(f) == Len(f.sync) = SyncLength /\ \E j \in 1..SyncLength : f.sync[j] # 0

Cut(f) == \E n \in 0..Len(FileBytes(f)[Len(f.written)]) :
             f.bytes = SubSeq(FileBytes(f)[Len(f.written)], 1, n)

ASSUME FilesAssumption ==
    /\ AVRO_MAGICK \in Strings
    /\ \A f \in Files :
         /\ f \in [metadata : Seq(Strings \X Strings), sync : Strings,
                   written : Seq(Seq([value : Int, text : Strings])),
                   overcount : Nat, bytes : Strings]
         /\ Sizes(f) /\ HasSchema(f) /\ HasMarker(f) /\ Cut(f)

-----------------------------------------------------------------------------
TypeOK ==
    /\ pointer \in Nat /\ at \in Nat /\ start \in Nat /\ passed \in BOOLEAN
    /\ block \in [count : Int, from : Nat, size : Nat]
    /\ i \in Nat /\ (i > 0 => i <= block.count)
    /\ blocks \in Nat
    /\ printed \in Seq([block : Nat, number : Nat, value : Int, text : Strings])
    /\ status \in {"opened", "running", "ended", "error", "lost"}
    /\ sync = <<>> \/ Len(sync) = SyncLength

\* Whatever is printed was written, in that place of the file, though every
\* record is gone through twice, by code that skips numbers and strings and by
\* code that reads them, and however the file was cut (zigzag.hpp,
\* typeparser.h, reader.cc:90-112).
NothingInvented ==
    file.overcount = 0 =>
        \A p \in {printed[j] : j \in 1..Len(printed)} :
            /\ p.block \in DOMAIN file.written
            /\ p.number \in DOMAIN file.written[p.block]
            /\ file.written[p.block][p.number] = [value |-> p.value, text |-> p.text]

\* A file that ends with a block, or has none, is read to its end, with all the
\* records, and a file that was cut in a block or in the schema is not taken for
\* one that ends there: it ends with an exception (or is lost, as numbers and
\* strings are read without a look at the end of the file).  One that was cut
\* between the schema and the first block may pass for a file without blocks
\* (reader.cc:48-112).
CutReported ==
    file.overcount = 0 =>
        LET ends == {n \in 0..Len(file.written) : Whole(n)}
        IN  /\ ends # {} => status \notin {"error", "lost"}
            /\ status = "ended" => blocks \in ends \/ (blocks = 0 /\ CutBehindSchema)

\* A block with fewer records than it says costs at most one record that is not
\* there: DeflatedBuffer::eof is one byte late (deflatedbuffer.h:31), but not two.
\* Unless what is behind the data reads as a number and a string of a negative
\* length: then skip takes the pointer back, and there may be more of them.
OneTooMany ==
    LET behind == readZigZagLong(block.from + block.size, FALSE)
        length == readZigZagLong(behind.at, FALSE)
    IN  blocks \in DOMAIN file.written /\ length.value >= 0
            => i <= Len(file.written[blocks]) + 1
===============================================================================
