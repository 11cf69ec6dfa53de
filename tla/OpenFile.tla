------------------------------ MODULE OpenFile ------------------------------
(***************************************************************************)
(* Files that are open, real ones and mocks.                               *)
(***************************************************************************)
EXTENDS Integers, Sequences, SequencesExt, FiniteSetsExt, FiniteSets

(***************************************************************************)
(* The open files of the local file system, of HDFS and of AFS             *)
(* (storage/file/local_file.cpp, hdfs_file.cpp, dfs_file.cpp), and what    *)
(* FileSystem reads with them (file.cpp).  The file is there before and    *)
(* grows by nothing but what is written to it.  The libraries below read   *)
(* all that is asked for from a local file, and at least something of the  *)
(* others.                                                                 *)
(***************************************************************************)
CONSTANTS
  Files,        \* the contents a file may have
  Sizes,        \* of reads
  MaxSizes,     \* bounds on the length of a line
  MaxWritten    \* bound on what is written

VARIABLES
  kind, mode,   \* the file system, and "r" or "w"
  contents,
  position,     \* of the reader
  m_iseof,
  m_closed,     \* for a local file, that m_fp is null
  closes,       \* how often the handle below was closed
  calls,        \* how often Close was called
  sought,       \* whether a Seek was done
  last          \* the last call: what it was, what it asked for and returned

file_vars == <<kind, mode, contents, position, m_iseof, m_closed, closes, calls, sought, last>>

Size == Len(contents)
Rest == Size - position

-----------------------------------------------------------------------------
(* Lines: fgets stops behind a line feed, or one character before max_size. *)

Fgets(s, from, max_size) ==
  LET end == CHOOSE e \in from..Len(s):
               /\ e = Len(s) \/ e = from + max_size - 2 \/ s[e] = "lf"
               /\ \A i \in from..e - 1: s[i] # "lf" /\ i < from + max_size - 2
  IN SubSeq(s, from, end)

ReadLinesWithLineEnding(s, max_size) ==
  LET Lines[from \in 1..Len(s) + 1] ==
        IF from > Len(s) THEN <<>>
        ELSE <<Fgets(s, from, max_size)>> \o Lines[from + Len(Fgets(s, from, max_size))]
  IN Lines[1]

IsEnding(c) == c \in {"cr", "lf"}
\* Faulty: a line that is nothing but its ending keeps it.
RemoveLineEndingKeepsFirst(line) == SubSeq(line, 1, Max({1} \cup {i \in DOMAIN line: ~IsEnding(line[i])}))
RemoveLineEnding(line) == SubSeq(line, 1, Max({0} \cup {i \in DOMAIN line: ~IsEnding(line[i])}))

ReadLines(s, max_size) == [i \in DOMAIN ReadLinesWithLineEnding(s, max_size) |->
                             RemoveLineEnding(ReadLinesWithLineEnding(s, max_size)[i])]

-----------------------------------------------------------------------------
Usable == ~m_closed
Called(op, asked, got) == last' = [op |-> op, asked |-> asked, got |-> got]

\* How much the library reads: a local file always what there is.
Returned(size) == IF Rest = 0 THEN {0}
                  ELSE IF kind = "local" THEN {Min({size, Rest})} ELSE 1..Min({size, Rest})

\* A writer of AFS has a reader too; Tell is then the writer's.
Tell(pos) == IF kind = "afs" /\ mode = "w" THEN Size ELSE pos

\* feof, or, after a short read, whether the file ends here.
AtEnd(size, n) == IF n = size THEN m_iseof
                  ELSE IF kind = "local" THEN TRUE ELSE Tell(position + n) = Size

Read(size) ==
  /\ Usable /\ (mode = "r" \/ kind = "afs")
  /\ \E n \in Returned(size):
       /\ position' = position + n
       /\ m_iseof' = AtEnd(size, n)
       /\ Called("read", size, n)
  /\ UNCHANGED <<kind, mode, contents, m_closed, closes, calls, sought>>

\* Writing appends, without moving the reader.
Write ==
  /\ Usable /\ mode = "w" /\ Size < MaxWritten
  /\ contents' = Append(contents, "a")
  /\ Called("write", 1, 1)
  /\ UNCHANGED <<kind, mode, position, m_iseof, m_closed, closes, calls, sought>>

\* fseek clears the end of file; the others know SEEK_SET alone, and keep m_iseof.
Seek(offset) ==
  /\ Usable /\ mode = "r"
  /\ position' = offset
  /\ m_iseof' = IF kind = "local" THEN FALSE ELSE m_iseof
  /\ sought' = TRUE
  /\ Called("seek", offset, 0)
  /\ UNCHANGED <<kind, mode, contents, m_closed, closes, calls>>

\* Nothing tells that the file was closed.
CloseOnly ==
  /\ calls < 2 /\ calls' = calls + 1
  /\ closes' = IF kind = "local" /\ m_closed THEN closes ELSE closes + 1
  /\ Called("close", 0, 0)
  /\ UNCHANGED <<kind, mode, contents, position, m_iseof, m_closed, sought>>

\* A local file is closed when it is open; the others are closed at every call.
Close ==
  /\ calls < 2 /\ calls' = calls + 1
  /\ closes' = IF kind = "local" /\ m_closed THEN closes ELSE closes + 1
  /\ m_closed' = TRUE
  /\ Called("close", 0, 0)
  /\ UNCHANGED <<kind, mode, contents, position, m_iseof, sought>>

Destroy ==
  /\ last.op # "destroy"
  /\ closes' = IF m_closed THEN closes ELSE closes + 1
  /\ m_closed' = TRUE
  /\ Called("destroy", 0, 0)
  /\ UNCHANGED <<kind, mode, contents, position, m_iseof, calls, sought>>

\* ReadAll opens the file and reads once.
ReadAll(max_size) ==
  /\ last.op = "open" /\ mode = "r"
  /\ \E n \in Returned(max_size): Called("readall", max_size, n)
  /\ m_closed' = TRUE /\ closes' = 1
  /\ UNCHANGED <<kind, mode, contents, position, m_iseof, calls, sought>>

Init ==
  /\ kind \in {"local", "hdfs", "afs"} /\ mode \in {"r", "w"}
  /\ contents \in IF mode = "w" THEN {<<>>} ELSE Files
  /\ position = 0 /\ m_iseof = FALSE /\ m_closed = FALSE /\ closes = 0 /\ calls = 0 /\ sought = FALSE
  /\ last = [op |-> "open", asked |-> 0, got |-> 0]

Next == /\ last.op \notin {"destroy", "readall"}
        /\ \/ \E size \in Sizes: Read(size) \/ ReadAll(size)
           \/ Write \/ Close \/ Destroy
           \/ \E offset \in 0..Size: Seek(offset)

Spec == Init /\ [][Next]_file_vars
-----------------------------------------------------------------------------
\* What ReadLineWithLineEnding returns is the file, piece by piece: every piece but
\* the last ends a line or is one short of the bound, and none goes on behind a
\* line's end.  ReadLine gives the lines of the file when they fit, without the
\* endings; a line that does not fit comes in pieces, which are the line again,
\* but for a carriage return at the end of a piece.
LinesComeBack ==
  \A max_size \in MaxSizes: \A pieces \in {ReadLinesWithLineEnding(contents, max_size)}:
    /\ FlattenSeq(pieces) = contents
    /\ \A i \in DOMAIN pieces:
         /\ pieces[i] # <<>> /\ Len(pieces[i]) < max_size
         /\ \A j \in 1..Len(pieces[i]) - 1: pieces[i][j] # "lf"
         /\ i < Len(pieces) => pieces[i][Len(pieces[i])] = "lf" \/ Len(pieces[i]) = max_size - 1
    /\ (\A i \in DOMAIN contents: contents[i] # "cr") =>
         FlattenSeq(ReadLines(contents, max_size)) = SelectSeq(contents, LAMBDA c: c # "lf")

\* A read returns less than was asked for at the end of the file alone, or, on HDFS
\* and AFS, before it, and IsEof tells which; it is true at the end alone, unless a
\* file of HDFS or AFS was sought.  The handle is closed once when the file is
\* destroyed, closed before or not, as long as Close was called once.
FilesAreRead ==
  /\ mode = "r" =>
       /\ last.op = "read" /\ last.got < last.asked => (m_iseof <=> Rest = 0)
       /\ m_iseof /\ (~sought \/ kind = "local") => Rest = 0
  /\ last.op \in {"destroy", "readall"} => closes >= 1
  /\ calls <= 1 \/ kind = "local" => closes <= 1

-----------------------------------------------------------------------------
(***************************************************************************)
(* The mock file system (storage/file/mock_file.h, .cpp) and the iterators *)
(* of directories (local_file.cpp, hdfs_file.cpp, dfs_file.cpp).  Files    *)
(* opened on one path share a MockFile, which counts those that use it;    *)
(* while FileSystemMocks exist, the last one made answers instead.         *)
(***************************************************************************)
CONSTANTS
  Paths, MaxOpened,     \* bound on the files that are opened
  MaxMocks,             \* bound on the FileSystemMocks
  Listings, Filters     \* what directories hold, and which types an iterator includes and excludes

VARIABLES
  m_opened_files,       \* the MockFile of a path, 0 when it has none
  mocks,                \* the MockFiles that were made
  files,                \* the open FileMocks: a path and its MockFile
  s_mock, m_old, alive, \* the FileSystemMocks
  listing, filter, m_current_pos, entries, done

mock_vars     == <<m_opened_files, mocks, files, s_mock, m_old, alive>>
iterator_vars == <<listing, filter, m_current_pos, entries, done>>

Null == 0
Uses(mock) == Cardinality({i \in DOMAIN files: files[i].mock = mock})

-----------------------------------------------------------------------------
(* Files. *)

\* Open, unless a FileSystemMock answers.
Open(path) ==
  /\ s_mock = Null /\ Len(files) < MaxOpened
  /\ \E mock \in {IF m_opened_files[path] = Null THEN mocks + 1 ELSE m_opened_files[path]}:
       /\ m_opened_files' = [m_opened_files EXCEPT ![path] = mock]
       /\ mocks' = Max({mocks, mock})
       /\ files' = Append(files, [path |-> path, mock |-> mock])
  /\ mocks < MaxOpened + 1
  /\ UNCHANGED <<s_mock, m_old, alive>>

\* The entry goes with any of its files.
UnregisterAlways(path) == m_opened_files' = [m_opened_files EXCEPT ![path] = Null]

\* The entry goes when nothing but the map uses the MockFile.
Unregister(path) ==
  m_opened_files' = IF m_opened_files[path] # Null /\ Uses(m_opened_files[path]) = 1
                    THEN [m_opened_files EXCEPT ![path] = Null] ELSE m_opened_files

\* The destructor of FileMock lets its MockFile go, then unregisters.
MockDestroy(i) ==
  /\ Unregister(files[i].path)
  /\ files' = RemoveAt(files, i)
  /\ UNCHANGED <<mocks, s_mock, m_old, alive>>

NewFileSystemMock ==
  /\ Cardinality(alive) < MaxMocks
  /\ \E m \in (1..MaxMocks) \ alive:
       /\ alive' = alive \cup {m}
       /\ m_old' = [m_old EXCEPT ![m] = s_mock] /\ s_mock' = m
  /\ UNCHANGED <<m_opened_files, mocks, files>>

\* They are locals of tests: the last one made goes first.
DestroyFileSystemMock ==
  /\ s_mock # Null
  /\ alive' = alive \ {s_mock} /\ s_mock' = m_old[s_mock]
  /\ m_old' = [m_old EXCEPT ![s_mock] = Null]
  /\ UNCHANGED <<m_opened_files, mocks, files>>

-----------------------------------------------------------------------------
(* Iterators. *)

Includes(entry) == /\ entry.name \notin {".", ".."}
                   /\ entry.type \in filter.include /\ entry.type \notin filter.exclude
                   /\ entry.name \in filter.pattern

\* The entries that do not match are passed over; the one that is returned too.
GetNext ==
  /\ ~done
  /\ LET found == {i \in m_current_pos + 1..Len(listing): Includes(listing[i])}
     IN IF found = {} THEN done' = TRUE /\ m_current_pos' = Len(listing) /\ UNCHANGED entries
        ELSE /\ entries' = Append(entries, listing[Min(found)])
             /\ m_current_pos' = Min(found) /\ UNCHANGED done
  /\ UNCHANGED <<listing, filter>>

MockInit ==
  /\ m_opened_files = [p \in Paths |-> Null] /\ mocks = 0 /\ files = <<>>
  /\ s_mock = Null /\ m_old = [m \in 1..MaxMocks |-> Null] /\ alive = {}
  /\ listing \in Listings /\ filter \in Filters
  /\ m_current_pos = 0 /\ entries = <<>> /\ done = FALSE

\* An iterator runs to its end before files are opened: they share nothing.
MockNext == \/ GetNext /\ UNCHANGED mock_vars
            \/ /\ done /\ UNCHANGED iterator_vars
               /\ \/ \E p \in Paths: Open(p)
                  \/ \E i \in DOMAIN files: MockDestroy(i)
                  \/ NewFileSystemMock \/ DestroyFileSystemMock

MockSpec == MockInit /\ [][MockNext]_<<mock_vars, iterator_vars>>
-----------------------------------------------------------------------------
\* File objects that are open on one path share a MockFile, and those of different
\* paths do not, whatever was closed in between; the map keeps a MockFile exactly
\* as long as a file uses it.  A FileSystemMock answers only while it is alive.  An
\* iterator returns the matching entries of its directory, each once and in order.
MocksAreShared ==
  /\ \A i, j \in DOMAIN files: files[i].path = files[j].path <=> files[i].mock = files[j].mock
  /\ \A p \in Paths: m_opened_files[p] # Null <=> \E i \in DOMAIN files: files[i].path = p
  /\ \A i \in DOMAIN files: m_opened_files[files[i].path] = files[i].mock
  /\ s_mock # Null => s_mock \in alive
  /\ \A m \in alive: m_old[m] # Null => m_old[m] \in alive \ {m}
  /\ alive # {} => s_mock # Null
  /\ done => entries = SelectSeq(listing, Includes)
=============================================================================
