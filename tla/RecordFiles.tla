---------------------------- MODULE RecordFiles -----------------------------
(***************************************************************************)
(* Files of records: record files, and sequence files with their markers.  *)
(***************************************************************************)
EXTENDS Integers, Sequences, Functions, SequencesExt, FiniteSetsExt

(***************************************************************************)
(* toft::RecordWriter, RecordReader (storage/recordio/recordio.{h,cc}) and *)
(* their reverse forms (reverse_recordio.{h,cc}).  A file is a sequence of *)
(* bytes, a record its length in SizeBytes bytes and its data; the reverse *)
(* form has the length behind the data and is read from the end.  The      *)
(* writer may append, and fail in the middle of a record, while a reader   *)
(* is at work.  Bytes are the numbers below Base.                          *)
(***************************************************************************)
CONSTANTS
  Base,        \* 256
  SizeBytes,   \* sizeof(uint32_t)
  Record,      \* the data that is written
  MaxWrites,   \* bound on WriteRecord calls
  MaxNext      \* bound on Next calls of one reader

VARIABLES
  reverse,      \* the form of the file
  file,
  writes,       \* calls of WriteRecord
  failed,       \* a WriteRecord has returned false
  written,      \* history: the records written before the first failure
  reading,      \* a reader was constructed
  read_pos,          \* its position in the file
  m_file_size,
  m_data_size,
  m_buffer,
  result,       \* of the last Next, 2 before the first
  got,          \* history: the records it delivered
  base,         \* history: Len(written) when the reader was reset
  torn          \* history: failed at that time

file_vars   == <<reverse, file, writes, failed, written>>
reader_vars == <<reading, read_pos, m_file_size, m_data_size, m_buffer, result, got, base, torn>>
vars        == <<file_vars, reader_vars>>

Byte    == 0..Base - 1
MaxSize == Base^SizeBytes - 1

\* The memory image of a length, and the length that an image stands for.
SizeField(n) == [i \in 1..SizeBytes |-> (n \div Base^(i - 1)) % Base]
SizeOf(f)    == FoldFunctionOnSet(+, 0, [i \in 1..SizeBytes |-> f[i] * Base^(i - 1)], 1..SizeBytes)

Init ==
  /\ reverse \in BOOLEAN
  /\ file = <<>> /\ writes = 0 /\ failed = FALSE /\ written = <<>>
  /\ reading = FALSE
  /\ read_pos = 0 /\ m_file_size = 0
  /\ m_data_size \in {0, MaxSize}    \* not initialized by the constructor
  /\ m_buffer = [i \in 1..MaxSize |-> Base]   \* nor the buffer: no byte
  /\ result = 2 /\ got = <<>> /\ base = 0 /\ torn = FALSE

Layout(data) == IF reverse THEN data \o SizeField(Len(data)) ELSE SizeField(Len(data)) \o data

WriteRecord(data) ==
  /\ writes < MaxWrites /\ writes' = writes + 1
  /\ file' = file \o Layout(data)
  /\ written' = IF failed THEN written ELSE Append(written, data)
  /\ UNCHANGED <<reverse, failed, reader_vars>>

\* File::Write fails after n bytes of the record.
WriteRecordFails(data, n) ==
  /\ writes < MaxWrites /\ writes' = writes + 1
  /\ file' = file \o SubSeq(Layout(data), 1, n)
  /\ failed' = TRUE
  /\ UNCHANGED <<reverse, written, reader_vars>>

\* The constructor or Reset.
Reset ==
  /\ reading' = TRUE
  /\ m_file_size' = Len(file)
  /\ read_pos' = IF reverse THEN Len(file) ELSE 0
  /\ result' = 2 /\ got' = <<>> /\ base' = Len(written) /\ torn' = failed
  /\ UNCHANGED <<file_vars, m_data_size, m_buffer>>

\* size bytes of the file from the offset on, into the buffer
Read(offset, size) ==
  [i \in 1..MaxSize |-> IF i <= size THEN file[offset + i] ELSE m_buffer[i]]

\* The end of Next: size was read or is the one of the record before; the data
\* is read if the file holds it, and not otherwise.
Deliver(size, readable, from, to) ==
  /\ m_data_size' = size
  /\ m_buffer' = IF readable THEN Read(from, size) ELSE m_buffer
  /\ read_pos' = to
  /\ result' = 1
  /\ got' = Append(got, SubSeq(m_buffer', 1, size))

Fail(size, to) ==
  /\ m_data_size' = size /\ read_pos' = to /\ result' = -1
  /\ UNCHANGED <<m_buffer, got>>

AtEnd ==
  /\ result' = 0
  /\ UNCHANGED <<read_pos, m_data_size, m_buffer, got>>

\* Faulty: the data of the record at the end of the file is taken for missing.
RecordReaderNextShort ==
  LET at   == read_pos + SizeBytes
      size == SizeOf(SubSeq(file, read_pos + 1, at))
      fits == m_file_size - at > size
  IN IF m_file_size - read_pos < SizeBytes THEN AtEnd
     ELSE Deliver(size, fits, at, IF fits THEN at + size ELSE at)

RecordReaderNext ==
  LET sized == m_file_size - read_pos >= SizeBytes
      at    == IF sized THEN read_pos + SizeBytes ELSE read_pos
      size  == IF sized THEN SizeOf(SubSeq(file, read_pos + 1, at)) ELSE m_data_size
      fits  == m_file_size - at >= size
  IN IF read_pos = m_file_size THEN AtEnd
     ELSE IF at >= m_file_size /\ size # 0 THEN Fail(size, at)
     ELSE Deliver(size, fits, at, IF fits THEN at + size ELSE at)

ReverseRecordReaderNext ==
  LET sized == read_pos >= SizeBytes
      at    == IF sized THEN read_pos - SizeBytes ELSE read_pos
      size  == IF sized THEN SizeOf(SubSeq(file, at + 1, read_pos)) ELSE m_data_size
      fits  == at >= size
  IN IF read_pos = 0 THEN AtEnd
     ELSE IF at = 0 /\ size # 0 THEN Fail(size, at)
     ELSE Deliver(size, fits, at - size, IF fits THEN at - size ELSE at)

ReaderNext ==
  /\ reading /\ Len(got) < MaxNext
  /\ IF reverse THEN ReverseRecordReaderNext ELSE RecordReaderNext
  /\ UNCHANGED <<file_vars, reading, m_file_size, base, torn>>

Next ==
  \/ \E data \in Record:
       WriteRecord(data) \/ \E n \in 0..Len(Layout(data)) - 1: WriteRecordFails(data, n)
  \/ Reset \/ ReaderNext

Spec == Init /\ [][Next]_vars
-----------------------------------------------------------------------------
\* A reader gets the records that were complete when it was reset, each of them
\* once and in their order, backwards in the reverse form, whatever is appended
\* meanwhile, and is told of the end behind the last one.  After a write that
\* failed, the forward reader still gets the records in front of it.
RecordsComeBack ==
  /\ ~torn => Len(got) <= base
  /\ ~reverse => \A i \in DOMAIN got: i <= base => got[i] = written[i]
  /\ reverse /\ ~torn => \A i \in DOMAIN got: got[i] = written[base + 1 - i]
  /\ ~torn => result # -1 /\ (result = 0 => Len(got) = base)

-----------------------------------------------------------------------------
(***************************************************************************)
(* toft::LocalSequenceFileWriter and LocalSequenceFileReader with its      *)
(* DataInputBuffer (storage/seqfile).  A file is a header that ends in the *)
(* sync marker, then records (length, key length, key, value), with an     *)
(* escape and the marker in front of a record after every SyncInterval of  *)
(* them.  The reader has a buffer over the file and may seek to a marker,  *)
(* to an offset, or to the last n records, while a writer appends, dies    *)
(* within a record, and is opened again to append.                         *)
(***************************************************************************)
CONSTANTS
  SequenceBase,           \* an int is two digits to this base, a byte is a digit
  SyncInterval,   \* kSyncInterval
  BufferSize,     \* DEFAULT_BUFFER_SIZE
  Step,           \* kStep of SeekToTail
  SequenceRecord,         \* the records, [key, value] of bytes, that are written
  SequenceMaxWrites,      \* bound on the writes
  TornAt,         \* how many bytes of a record may be left when a writer dies
  MaxOps,         \* bound on the calls of the reader
  Tails           \* the arguments of SeekToTail

VARIABLES
  sequence_file,
  writing,                        \* there is a writer
  m_records_written_after_sync,
  sequence_writes,                         \* calls of WriteRecord
  sequence_torn,                           \* a writer died within a record
  records,                        \* history: [start, end, record] of each whole record
  markers,                        \* history: where each marker ends
  input,                          \* the DataInputBuffer and the position of its File
  ops,                            \* calls of the reader
  op                              \* history: the last of them

writer_vars == <<sequence_file, writing, m_records_written_after_sync, sequence_writes, sequence_torn, records, markers>>
sequence_vars        == <<writer_vars, input, ops, op>>

IntSize == 2
Sync    == <<SequenceBase, SequenceBase + 1>>       \* random, and not in the data
Header  == <<SequenceBase + 2>> \o Sync
Escape  == -1

WriteInt(n) == IF n = Escape THEN <<SequenceBase - 1, SequenceBase - 1>> ELSE <<n \div SequenceBase, n % SequenceBase>>
IntOf(c)    == IF c = WriteInt(Escape) THEN Escape ELSE c[1] * SequenceBase + c[2]
-----------------------------------------------------------------------------
(* The writer *)

WriteSyncToBuf == WriteInt(Escape) \o Sync
SyncDue        == m_records_written_after_sync >= SyncInterval

Buffer(r) ==
  (IF SyncDue THEN WriteSyncToBuf ELSE <<>>)
    \o WriteInt(Len(r.key) + Len(r.value)) \o WriteInt(Len(r.key)) \o r.key \o r.value

SequenceWriteRecord(r) ==
  /\ writing /\ sequence_writes < SequenceMaxWrites /\ sequence_writes' = sequence_writes + 1
  /\ sequence_file' = sequence_file \o Buffer(r)
  /\ m_records_written_after_sync' = IF SyncDue THEN 1 ELSE m_records_written_after_sync + 1
  /\ records' = records \union {[start |-> Len(sequence_file), end |-> Len(sequence_file'), record |-> r]}
  /\ markers' = IF SyncDue THEN markers \union {Len(sequence_file) + Len(WriteSyncToBuf)} ELSE markers
  /\ UNCHANGED <<writing, sequence_torn, input, ops, op>>

\* The writer dies, n bytes of the record are in the file.
WriteTorn(r, n) ==
  /\ n < Len(Buffer(r)) /\ writing /\ sequence_writes < SequenceMaxWrites /\ sequence_writes' = sequence_writes + 1
  /\ sequence_file' = sequence_file \o SubSeq(Buffer(r), 1, n)
  /\ writing' = FALSE /\ sequence_torn' = TRUE
  /\ markers' = IF SyncDue /\ n >= Len(WriteSyncToBuf) THEN markers \union {Len(sequence_file) + Len(WriteSyncToBuf)}
                ELSE markers
  /\ UNCHANGED <<m_records_written_after_sync, records, input, ops, op>>

\* A new writer in mode "a" after Close or after the death of the last one:
\* Init loads the header, and counts from 0 on.
InitAppend ==
  /\ ~writing \/ m_records_written_after_sync # 0
  /\ writing' = TRUE
  /\ m_records_written_after_sync' = 0
  /\ UNCHANGED <<sequence_file, sequence_writes, sequence_torn, records, markers, input, ops, op>>
-----------------------------------------------------------------------------
(* The reader: i is the DataInputBuffer, ok and int what a call gives *)

NewInput == [buffer |-> <<>>, offset |-> 0, size |-> BufferSize, pos |-> 0,
             parsed |-> FALSE, ok |-> TRUE, int |-> 0]

Rest(i)   == SubSeq(i.buffer, i.offset + 1, Len(i.buffer))
Tell(i)   == i.pos - Len(Rest(i))
Take(i, n) == SubSeq(i.buffer, i.offset + 1, i.offset + n)

\* Read fills the buffer unless the file ends.
LoadMoreContent(i) ==
  LET n == Min({i.size - Len(Rest(i)), Max({Len(sequence_file) - i.pos, 0})})
  IN [i EXCEPT !.buffer = Rest(i) \o SubSeq(sequence_file, i.pos + 1, i.pos + n), !.offset = 0, !.pos = @ + n]

\* One call of LoadMoreContent gives what the file has.
Enlarged(i, n) ==
  IF i.size < n THEN [i EXCEPT !.size = Max({n, 2 * @}), !.buffer = Rest(i), !.offset = 0] ELSE i
Filled(i, n)      == IF Len(Rest(i)) < n THEN LoadMoreContent(i) ELSE i
Enough(i, n)      == [i EXCEPT !.ok = Len(Rest(i)) >= n]
LoadAtLeast(i, n) == Enough(Filled(Enlarged(i, n), n), n)

\* The steps of a call follow each other through an argument: what was loaded.
Advance(l, n) == IF l.ok THEN [l EXCEPT !.offset = @ + n] ELSE l
Skip(i, n)    == Advance(LoadAtLeast(i, n), n)
TakeInt(l)    == IF l.ok THEN [l EXCEPT !.offset = @ + IntSize, !.int = IntOf(Take(l, IntSize))] ELSE l
ReadInt(i)    == TakeInt(LoadAtLeast(i, IntSize))
TakeSync(l)   == IF l.ok THEN [l EXCEPT !.offset = @ + Len(Sync), !.ok = Take(l, Len(Sync)) = Sync] ELSE l
CheckSync(i)  == TakeSync(LoadAtLeast(i, Len(Sync)))

HeaderLoaded(l)           == [l EXCEPT !.parsed = l.ok]
LoadSequenceFileHeader(i) == HeaderLoaded(Skip(i, Len(Header)))
Parsed(i) == IF i.parsed THEN [i EXCEPT !.ok = TRUE] ELSE LoadSequenceFileHeader(i)

LengthBehindSync(s) == IF s.ok THEN ReadInt(s) ELSE s
LengthOrEscape(l)   == IF l.ok /\ l.int = Escape THEN LengthBehindSync(CheckSync(l)) ELSE l
LoadRecordLen(i)    == LengthOrEscape(ReadInt(i))

\* A length of the key beyond the record, behind a torn one, gives bytes that
\* are not its own.
Garbage == [key |-> <<-1>>, value |-> <<-1>>]
RecordOf(data, key_len) ==
  IF key_len \in 0..Len(data)
  THEN [key |-> SubSeq(data, 1, key_len), value |-> SubSeq(data, key_len + 1, Len(data))]
  ELSE Garbage

\* ReadRecord: the record is in the field record if ok.
Unread(i) == [i |-> i, ok |-> FALSE]
ReadData(l, len, key_len) ==
  IF l.ok THEN [i |-> Advance(l, len), ok |-> TRUE, record |-> RecordOf(Take(l, len), key_len)] ELSE Unread(l)
ReadKeyLen(l, len) == IF l.ok THEN ReadData(LoadAtLeast(l, len), len, l.int) ELSE Unread(l)
ReadLen(l)         == IF l.ok THEN ReadKeyLen(ReadInt(l), l.int) ELSE Unread(l)
ReadParsed(l)      == IF l.ok THEN ReadLen(LoadRecordLen(l)) ELSE Unread(l)
ReadRecord(i)      == ReadParsed(Parsed(i))

SeekFile(i, to) == [i EXCEPT !.pos = to, !.buffer = <<>>, !.offset = 0, !.ok = TRUE]

Seek2(i, to) ==
  LET start == i.pos - Len(i.buffer)
  IN IF start <= to /\ to < i.pos THEN [i EXCEPT !.offset = to - start, !.ok = TRUE] ELSE SeekFile(i, to)

\* Faulty: the bytes at the end of the buffer that may begin a marker are skipped.
FindSyncSkips(i) ==
  LET n  == Len(Sync)
      at == {o \in i.offset..Len(i.buffer) - n: SubSeq(i.buffer, o + 1, o + n) = Sync}
  IN IF at # {} THEN [i EXCEPT !.offset = Min(at) + n, !.ok = TRUE]
     ELSE [i EXCEPT !.offset = Len(i.buffer), !.ok = FALSE]

\* Behind the first marker in the buffer, or as far as there can be none.
FindSync(i) ==
  LET n  == Len(Sync)
      at == {o \in i.offset..Len(i.buffer) - n: SubSeq(i.buffer, o + 1, o + n) = Sync}
  IN IF at # {} THEN [i EXCEPT !.offset = Min(at) + n, !.ok = TRUE]
     ELSE [i EXCEPT !.offset = Max({@, Len(i.buffer) - n + 1}), !.ok = FALSE]

RECURSIVE FindNextSync(_)
FindNextSync(i) ==
  LET Else(f)  == IF f.ok THEN f ELSE FindNextSync(f)
      Among(l) == IF l.ok THEN Else(FindSync(l)) ELSE l
  IN Among(LoadAtLeast(i, Len(Sync)))

SyncFrom(head, to) == IF head.ok THEN FindNextSync(SeekFile(head, to)) ELSE head
SkipToSync(i, to)  == SyncFrom(Parsed(i), to)

\* FindLastNthRecordOffset: the offsets behind the records that are read.
RECURSIVE Offsets(_)
Offsets(i) ==
  LET Behind(r) == IF r.ok THEN Offsets(r.i) ELSE <<>>
  IN <<Tell(i)>> \o Behind(ReadRecord(i))

RECURSIVE SeekToTailFrom(_, _, _)
SeekToTailFrom(i, retry, n) ==
  LET Among(s, try, offs) ==
        IF s.ok /\ (try = 0 \/ Len(offs) >= n + 1) THEN SeekFile(s, offs[Max({Len(offs) - n, 1})])
        ELSE SeekToTailFrom(s, try, n)
      Tried(s, try) == Among(s, try, Offsets(s))
      Try(try)      == Tried(SkipToSync(i, try), try)
  IN Try(Max({retry - Step, 0}))
SeekToTail(i, n) == SeekToTailFrom(i, Len(sequence_file), Max({n, 0}))
-----------------------------------------------------------------------------
Did(name, arg, i, ok) ==
  /\ ops < MaxOps /\ ops' = ops + 1
  /\ op' = [name |-> name, arg |-> arg, before |-> IF input.parsed THEN Tell(input) ELSE Len(Header), ok |-> ok]
  /\ input' = i
  /\ UNCHANGED writer_vars

DoReadRecord == \E r \in {ReadRecord(input)}: Did("read", IF r.ok THEN r.record ELSE <<>>, r.i, r.ok)
DoSeek(to)   == \E i \in {SkipToSync(input, to)}: Did("seek", to, i, i.ok)
\* A caller that follows the file goes back to where the record was to begin.
DoRealSeek   == op.name = "read" /\ ~op.ok /\ Did("real", op.before, Seek2(input, op.before), TRUE)
DoTail(n)    == Did("tail", n, SeekToTail(input, n), TRUE)

SequenceInit ==
  /\ sequence_file = Header /\ writing = TRUE /\ m_records_written_after_sync = 0
  /\ sequence_writes = 0 /\ sequence_torn = FALSE /\ records = {} /\ markers = {Len(Header)}
  /\ input = NewInput /\ ops = 0 /\ op = [name |-> "none"]

SequenceNext ==
  \/ \E r \in SequenceRecord: SequenceWriteRecord(r) \/ \E n \in TornAt: WriteTorn(r, n)
  \/ InitAppend
  \/ DoReadRecord \/ DoRealSeek
  \/ \E to \in 0..Len(sequence_file): DoSeek(to)
  \/ \E n \in Tails: DoTail(n)

SequenceSpec == SequenceInit /\ [][SequenceNext]_sequence_vars
-----------------------------------------------------------------------------
(* Properties *)

\* Where a read gives the record r: at its start, and behind a marker there.
Begins(r) == {r.start} \union {m \in markers: r.start < m /\ m < r.end}

\* Records from the offset o on.
From(o) == {r \in records: Max(Begins(r)) >= o}

ExactRead ==
  /\ \A r \in records: op.before \in Begins(r) => op.ok /\ op.arg = r.record /\ Tell(input) = r.end
  /\ op.before = Len(sequence_file) => ~op.ok

ExactSeek ==
  LET ahead == {m \in markers: m - Len(Sync) >= op.arg}
  IN IF ahead = {} THEN ~op.ok ELSE op.ok /\ Tell(input) = Min(ahead)

ExactTail ==
  ~sequence_torn => /\ Cardinality(From(Tell(input))) = Min({Max({op.arg, 0}), Cardinality(records)})
                    /\ Tell(input) \in {Len(Header)} \union UNION {Begins(r) \union {r.end}: r \in records}

\* Whatever is in the buffer, and whatever was appended since it was filled: a
\* read where a whole record begins gives this record and leaves Tell() at its
\* end, and one at the end of the file fails; after a failed read the caller
\* can go back to where it began; Seek ends behind the first marker at or after
\* the offset and fails if there is none, in front of and behind what a writer
\* left that died; SeekToTail(n) of a whole file leaves its last n records.
CallsAreExact ==
  [][ops' # ops => CASE op'.name = "read" -> ExactRead'
                     [] op'.name = "seek" -> ExactSeek'
                     [] op'.name = "real" -> Tell(input') = op'.arg
                     [] op'.name = "tail" -> ExactTail']_sequence_vars
=============================================================================
