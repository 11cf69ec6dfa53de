----------------------------- MODULE MCStorage -----------------------------
(***************************************************************************)
(* The file formats of storage/ for TLC, RecordIO, LocalSequenceFile and   *)
(* SSTable, and below them paths, file systems, open files and the mocks.  *)
(* They do not share state, so a behaviour runs one of them, chosen at the *)
(* start, and leaves the others as they were constructed.                  *)
(***************************************************************************)
EXTENDS Integers, Sequences, FiniteSets

CONSTANTS TableKey, Value, SeekKeys, BlockSize, BatchSize, ShardNum, MaxItems, MaxMeta,
          SizeBytes, MaxNext, MaxWrites,
          SyncInterval, BufferSize, StepSize, TornAt, MaxOps, Tails,
          PathChars, MaxBase, MaxFile, MaxCreates, ReadSizes, LineSizes, MaxWritten,
          MaxOpened, MaxMocks

\* The paths a program uses: two file systems side by side, two clusters, two users.
UsedPaths ==
  LET P(x, c, u, n) == [prefix |-> x, cluster |-> c, user |-> u, name |-> n]
  IN {{P("other", "c", "none", "m"), P("other", "c", "none", "n"),
       P("hdfs", "c", "none", "m"), P("hdfs", "c", "none", "n")},
      {P("hdfs", "c", "none", "m"), P("hdfs", "d", "none", "n"), P("hdfs", "c", "none", "")},
      {P("afs", "c", "u", "m"), P("afs", "c", "u", "n"), P("afs", "c", "v", "n"),
       P("afs", "c", "none", "m")}}

\* What directories hold.
UsedListings ==
  LET E(n, t) == [name |-> n, type |-> t]
  IN {<<>>, <<E("b", "file"), E("a", "link")>>,
      <<E(".", "dir"), E("a", "file"), E("..", "dir"), E("b", "dir"), E("c", "link"), E("a", "dir")>>}

VARIABLES
  which,
  reverse, record_file, record_writes, failed, written, reading, pos,
    m_file_size, m_data_size, m_buffer, result, got, base, record_torn,
  file, writing, m_records_written_after_sync, writes, torn, records, markers,
    input, ops, op,
  kind, compress, stage, added, meta, d_data, parts, builder, table, stored,
    reader, its, current, sought, seen,
  cwd, path_base, path_file,
  paths, store, fs_map, down, created, ok,
  file_kind, mode, contents, position, m_iseof, m_closed, closes, calls,
    file_sought, last,
  m_opened_files, mocks, files, s_mock, m_old, alive, listing, filter,
    m_current_pos, entries, done

Records == INSTANCE RecordFiles
  WITH Base <- 2, Record <- {<<>>, <<1>>, <<0, 1>>}, file <- record_file, writes <- record_writes,
       read_pos <- pos, torn <- record_torn, SequenceBase <- 4, Step <- StepSize,
       SequenceRecord <- {[key |-> <<>>, value |-> <<>>], [key |-> <<1>>, value |-> <<3, 3>>]},
       SequenceMaxWrites <- MaxWrites, sequence_file <- file, sequence_writes <- writes,
       sequence_torn <- torn
Table == INSTANCE SSTable
  WITH Key <- TableKey
FileSystems == INSTANCE FileSystem
  WITH Chars <- PathChars, Cwds <- {<<"/">>, <<"/", "a", "/", "b">>}, base <- path_base,
       file <- path_file, Clusters <- {"c", "d"}, Names <- {"m", "n"}, PathSets <- UsedPaths,
       Unreliable <- {<<"hdfs", "c">>}, system_paths <- paths
OpenFiles == INSTANCE OpenFile
  WITH Files <- UNION {[1..n -> {"a", "cr", "lf"}]: n \in 0..4}, Sizes <- ReadSizes,
       MaxSizes <- LineSizes, kind <- file_kind, sought <- file_sought, Paths <- {"p", "q"},
       Listings <- UsedListings,
       Filters <- {[include |-> {"file", "dir", "link"}, exclude |-> x, pattern |-> y]:
                     x \in {{}, {"dir"}, {"link"}}, y \in {{"a", "b", "c"}, {"a"}}}

recordio_vars == <<reverse, record_file, record_writes, failed, written,
                   reading, pos, m_file_size, m_data_size, m_buffer, result,
                   got, base, record_torn>>
seqfile_vars == <<file, writing, m_records_written_after_sync, writes, torn,
                  records, markers, input, ops, op>>
sstable_vars == <<kind, compress, stage, added, meta, d_data, parts, builder,
                  table, stored, reader, its, current, sought, seen>>
path_vars == <<cwd, path_base, path_file>>
fs_vars == <<paths, store, fs_map, down, created, ok>>
open_vars == <<file_kind, mode, contents, position, m_iseof, m_closed, closes,
               calls, file_sought, last>>
mock_vars == <<m_opened_files, mocks, files, s_mock, m_old, alive, listing,
               filter, m_current_pos, entries, done>>
suite_vars == <<which, recordio_vars, seqfile_vars, sstable_vars, path_vars,
                fs_vars, open_vars, mock_vars>>

SuiteInit ==
  /\ which \in {"recordio", "seqfile", "sstable", "path", "fs", "open", "mock"}
  /\ Records!Init
  /\ which # "recordio" => ~reverse /\ m_data_size = 0
  /\ Records!SequenceInit
  /\ Table!Init
  /\ which # "sstable" => kind = "single" /\ ~compress
  /\ FileSystems!PathInit
  /\ which # "path" => cwd = <<"/">>
  /\ FileSystems!Init
  /\ which # "fs" => \A p \in paths: p.prefix = "afs"
  /\ OpenFiles!Init
  /\ which # "open" => file_kind = "local" /\ mode = "r" /\ contents = <<>>
  /\ OpenFiles!MockInit
  /\ which # "mock" => listing = <<>> /\ filter.exclude = {} /\ filter.pattern = {"a"}

SuiteNext ==
  /\ UNCHANGED which
  /\ \/ which = "recordio" /\ Records!Next
        /\ UNCHANGED <<seqfile_vars, sstable_vars, path_vars, fs_vars,
                       open_vars, mock_vars>>
     \/ which = "seqfile" /\ Records!SequenceNext
        /\ UNCHANGED <<recordio_vars, sstable_vars, path_vars, fs_vars,
                       open_vars, mock_vars>>
     \/ which = "sstable" /\ Table!Next
        /\ UNCHANGED <<recordio_vars, seqfile_vars, path_vars, fs_vars,
                       open_vars, mock_vars>>
     \/ which = "path" /\ FileSystems!PathNext
        /\ UNCHANGED <<recordio_vars, seqfile_vars, sstable_vars, fs_vars,
                       open_vars, mock_vars>>
     \/ which = "fs" /\ FileSystems!Next
        /\ UNCHANGED <<recordio_vars, seqfile_vars, sstable_vars, path_vars,
                       open_vars, mock_vars>>
     \/ which = "open" /\ OpenFiles!Next
        /\ UNCHANGED <<recordio_vars, seqfile_vars, sstable_vars, path_vars,
                       fs_vars, mock_vars>>
     \/ which = "mock" /\ OpenFiles!MockNext
        /\ UNCHANGED <<recordio_vars, seqfile_vars, sstable_vars, path_vars,
                       fs_vars, open_vars>>

SuiteSpec == SuiteInit /\ [][SuiteNext]_suite_vars

\* RecordIO: both readers deliver the records that were written, and no others.
\* SSTable: Seek, Next, Lookup and GetMetaData deliver what the writers were given.
RecordsComeBack ==
  /\ which = "recordio" => Records!RecordsComeBack
  /\ which = "sstable" => Table!TableReadsBack

\* LocalSequenceFile: every call of the reader finds the record, the marker or the
\* end that it should.
CallsAreExact == Records!CallsAreExact

\* Path: the operations on paths lead to the file their arguments name.
PathsLead ==
  /\ which = "path" => FileSystems!PathsLead

\* FileSystem: an operation changes what it was asked to change, or nothing and says so.
FilesAreKept == FileSystems!FilesAreKept

\* File: reads, seeks and lines give what the file holds.  MockFileSystem: files that
\* are open on a path share its mock, and iterators list what they should.
FilesAreRead ==
  /\ which = "open" => OpenFiles!FilesAreRead
  /\ which = "open" => OpenFiles!LinesComeBack
  /\ which = "mock" => OpenFiles!MocksAreShared
=============================================================================
