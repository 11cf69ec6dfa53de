------------------------------- MODULE SSTable -------------------------------
(***************************************************************************)
(* toft's sorted string tables (storage/sstable): the writers (single,     *)
(* unsorted, composited, sharding), the file they leave (data blocks, file *)
(* info, data index, trailer) and the readers (on disk, in memory, merged).*)
(* Keys and values are small numbers, 0 the empty string.  A file is a     *)
(* sequence of cells; a part of it is written as as many cells as it has   *)
(* bytes, and is understood only if exactly these cells are read back.     *)
(***************************************************************************)
EXTENDS Integers, Sequences, FiniteSets, SequencesExt

CONSTANTS
  Key, Value,
  SeekKeys,     \* the keys that are looked for
  BlockSize,    \* option.block_size()
  BatchSize,    \* batch_write_size_ of a composited writer
  ShardNum,     \* shard_num of a sharding writer
  MaxItems,     \* bound on Add calls
  MaxMeta       \* bound on AddMetaData calls

VARIABLES
  kind,         \* the writer: single, unsorted, composited or sharding
  compress,     \* option.compress_type() is not "none"
  stage,        \* building, flushed, failed, lost or crashed
  added,        \* history: the items given to Add
  meta,         \* history: the values given to AddMetaData, for one key
  d_data,       \* items that wait for a sort, for each shard
  parts,        \* the files of the batches of a composited writer, for each shard
  builder,      \* the unsorted writer
  table,        \* the file at the path of each shard
  stored,       \* history: the items of the writer that left it, in order
  reader,       \* the mode of the reader, "none" before Open
  its,          \* its iterator, or one for each table of a merged reader
  current,      \* the iterator's valid_, key_ and value_
  sought,       \* history: the key of the last Seek
  seen          \* history: the items delivered since

writer_vars == <<kind, compress, stage, added, meta, d_data, parts, builder, table, stored>>
reader_vars == <<reader, its, current, sought, seen>>
vars        == <<writer_vars, reader_vars>>

Shards == 0..ShardNum - 1
Item   == [key: Key, value: Value]
NoFile == <<>>

\* Strings in order of their length; the shard of a key is a hash of it.
Length(s)  == s
Shard(key) == key % ShardNum

Bytes(items) == FoldSeq(LAMBDA i, n: n + Length(i.key) + Length(i.value), 0, items)
-----------------------------------------------------------------------------
(* The file *)

\* DataBlock: a magic in front of the items if there are any, a length for each.
\* AddItem ignores an item without key and value.
AddItem(items, item)    == IF item.key = 0 /\ item.value = 0 THEN items ELSE Append(items, item)
UncompressedSize(items) == IF items = <<>> THEN 0 ELSE 1 + Len(items) + Bytes(items)
CompressedSize(items)   == IF compress THEN 1 + UncompressedSize(items) \div 2
                                       ELSE UncompressedSize(items)

Cells(tag, content, size) == [i \in 1..size |-> <<tag, content, i>>]
Holds(cells, tag)         == cells # <<>> /\ cells[1][1] = tag

EncodeBlock(items) == Cells("data", items, CompressedSize(items))
Decodes(cells)     == /\ Holds(cells, "data") /\ cells[1][2] # <<>>
                      /\ cells = EncodeBlock(cells[1][2])

InfoSize(info)   == 4 + Len(info.metas)
IndexSize(index) == 1 + Len(index)

\* UnsortedSSTableWriter's members; SingleSSTableWriter::Flush runs through the
\* same steps over the sorted items.
NewBuilder ==
  [file |-> <<>>, block |-> <<>>, index |-> <<>>, index_offset |-> 0,
   is_first_key |-> TRUE, first_key |-> 0, last_key |-> 0, entry_count |-> 0]

\* Faulty: the index takes the size of the block before compression.
WriteBlockAndUpdateIndexPlain(b) ==
  [b EXCEPT !.file = @ \o EncodeBlock(b.block),
            !.index = Append(@, [offset |-> b.index_offset, key |-> b.first_key]),
            !.index_offset = @ + UncompressedSize(b.block),
            !.block = <<>>]

WriteBlockAndUpdateIndex(b) ==
  [b EXCEPT !.file = @ \o EncodeBlock(b.block),
            !.index = Append(@, [offset |-> b.index_offset, key |-> b.first_key]),
            !.index_offset = @ + CompressedSize(b.block),
            !.block = <<>>]

BuilderAdd(b, item) ==
  LET first  == IF b.is_first_key THEN [b EXCEPT !.is_first_key = FALSE, !.first_key = item.key] ELSE b
      Cut(c) == IF UncompressedSize(b.block) < BlockSize THEN c
                ELSE [WriteBlockAndUpdateIndex(c) EXCEPT !.first_key = item.key]
  IN [Cut(first) EXCEPT !.block = AddItem(@, item), !.last_key = item.key, !.entry_count = @ + 1]

\* The rest of Flush: the last block, the file info, the index and the trailer.
BuilderFlush(b, metas) ==
  LET info       == [last_key |-> b.last_key, metas |-> metas]
      trailer(w) == [file_info_offset |-> w.index_offset,
                     data_index_offset |-> w.index_offset + InfoSize(info),
                     data_index_count |-> Len(w.index), entry_count |-> w.entry_count]
      whole(w)   == w.file \o Cells("info", info, InfoSize(info))
                      \o Cells("index", w.index, IndexSize(w.index)) \o <<<<"trailer", trailer(w)>>>>
  IN whole(WriteBlockAndUpdateIndex(b))

CompairString(items, i, j) == \/ items[i].key < items[j].key
                              \/ items[i].key = items[j].key /\ i < j
StableSort(items) ==
  LET order == SetToSortSeq(DOMAIN items, LAMBDA i, j: CompairString(items, i, j))
  IN [i \in DOMAIN items |-> items[order[i]]]

SingleFlush(items, metas) ==
  BuilderFlush(FoldLeft(BuilderAdd, NewBuilder, StableSort(items)), metas)
-----------------------------------------------------------------------------
(* Reading it *)

Trailer(file) == file[Len(file)][2]

FileInfoCells(file)  == SubSeq(file, Trailer(file).file_info_offset + 1, Trailer(file).data_index_offset)
DataIndexCells(file) == SubSeq(file, Trailer(file).data_index_offset + 1, Len(file) - 1)

LoadFileInfo(file) ==
  /\ file # NoFile /\ file[Len(file)][1] = "trailer"
  /\ Holds(FileInfoCells(file), "info") /\ Len(FileInfoCells(file)) = InfoSize(FileInfoCells(file)[1][2])
  /\ Holds(DataIndexCells(file), "index")

DataIndex(file)   == DataIndexCells(file)[1][2]
GetMetaData(file) == FileInfoCells(file)[1][2].metas
BlockCount(file)  == Len(DataIndex(file))

\* Impl::LoadDataBlock, blocks numbered from 0: the items, none if it fails.
LoadDataBlock(file, id) ==
  LET to(index)     == IF id + 1 < Len(index) THEN index[id + 2].offset ELSE Trailer(file).file_info_offset
      cells(index)  == SubSeq(file, index[id + 1].offset + 1, to(index))
      items(loaded) == IF Decodes(loaded) THEN loaded[1][2] ELSE <<>>
  IN items(cells(DataIndex(file)))

\* Faulty: the block at the end of the search is taken as it is.
FindMinimalBlockFound(index, key) ==
  LET Search[b \in 0..Len(index), e \in -1..Len(index) - 1] ==
        LET mid == (b + e) \div 2
            m   == IF index[mid + 1].key < key THEN Search[mid + 1, e] ELSE Search[b, mid - 1]
        IN IF b > e THEN -1 ELSE IF m = -1 THEN mid ELSE m
  IN Search[0, Len(index) - 1]

FindMinimalBlock(index, key) ==
  LET Search[b \in 0..Len(index), e \in -1..Len(index) - 1] ==    \* the last mid, -1 without any
        LET mid == (b + e) \div 2
            m   == IF index[mid + 1].key < key THEN Search[mid + 1, e] ELSE Search[b, mid - 1]
        IN IF b > e THEN -1 ELSE IF m = -1 THEN mid ELSE m
      last == Search[0, Len(index) - 1]
  IN IF index[last + 1].key >= key /\ last > 0 THEN last - 1 ELSE last

\* OnDiskIterator: block and data are block_idx_ and data_idx_.
At(file, it)   == LoadDataBlock(file, it.block)[it.data + 1]
Invalid(it)    == [it EXCEPT !.valid = FALSE]
NextItem(file, it) ==
  IF it.data # Len(LoadDataBlock(file, it.block)) - 1 THEN [it EXCEPT !.data = @ + 1]
  ELSE IF it.block = BlockCount(file) - 1 THEN Invalid(it)
  ELSE [block |-> it.block + 1, data |-> 0, valid |-> LoadDataBlock(file, it.block + 1) # <<>>]

RECURSIVE NextUntil(_, _, _)
NextUntil(file, it, key) ==
  IF it.valid /\ At(file, it).key < key THEN NextUntil(file, NextItem(file, it), key) ELSE it

OnDiskSeekKey(file, key) ==
  LET it(block) == [block |-> block, data |-> 0, valid |-> LoadDataBlock(file, block) # <<>>]
  IN NextUntil(file, it(FindMinimalBlock(DataIndex(file), key)), key)

RECURSIVE ItemsFrom(_, _)
ItemsFrom(file, it) ==
  IF it.valid THEN <<At(file, it)>> \o ItemsFrom(file, NextItem(file, it)) ELSE <<>>

\* InMemorySSTableReader::Init: the values of each key, in the order of the
\* file.  Without any item there is an empty key without values.
InMemoryData(file) ==
  LET Group(data, item) ==
        IF data # <<>> /\ Last(data).key = item.key
        THEN [data EXCEPT ![Len(data)].values = Append(@, item.value)]
        ELSE Append(data, [key |-> item.key, values |-> <<item.value>>])
      grouped(items) == IF items = <<>> THEN <<[key |-> 0, values |-> <<>>]>> ELSE FoldLeft(Group, <<>>, items)
  IN grouped(FlattenSeq([b \in 1..BlockCount(file) |-> LoadDataBlock(file, b - 1)]))

\* InMemoryIterator::SeekKey: the binary search ends at its last middle.
InMemorySeekKey(data, key) ==
  LET Search[b \in 0..Len(data), e \in -1..Len(data) - 1] ==
        LET mid == (b + e) \div 2
            m   == IF data[mid + 1].key < key THEN Search[mid + 1, e] ELSE Search[b, mid - 1]
        IN IF b > e THEN -1 ELSE IF m = -1 THEN mid ELSE m
      found == {g \in DOMAIN data: data[g].key = key}
      group == IF found # {} THEN (CHOOSE g \in found: TRUE) - 1
               ELSE IF key < data[1].key THEN 0 ELSE Search[0, Len(data) - 1]
  IN [block |-> group, data |-> 0, valid |-> found # {} \/ key <= Last(data).key]

InMemoryNextItem(data, it) ==
  IF it.data < Len(data[it.block + 1].values) - 1 THEN [it EXCEPT !.data = @ + 1]
  ELSE IF it.block + 1 = Len(data) THEN Invalid(it)
  ELSE [it EXCEPT !.block = @ + 1, !.data = 0]

\* LoadItem; values.at() throws for a key without values.
Throws == [key |-> 0, value |-> -1]
InMemoryAt(data, it) ==
  LET group == data[it.block + 1]
  IN IF group.values = <<>> THEN Throws ELSE [key |-> group.key, value |-> group.values[it.data + 1]]

\* MergedIterator: the least of the items the iterators are at comes next.
IteratorComp(a, b) == a.key < b.key \/ (a.key = b.key /\ a.value <= b.value)

RECURSIVE MergeItems(_)
MergeItems(sequences) ==
  LET left == {s \in DOMAIN sequences: sequences[s] # <<>>}
      s    == CHOOSE l \in left: \A m \in left: IteratorComp(Head(sequences[l]), Head(sequences[m]))
  IN IF left = {} THEN <<>>
     ELSE <<Head(sequences[s])>> \o MergeItems([sequences EXCEPT ![s] = Tail(@)])

\* MergedSSTableReader::LoadSSTableReader
Loadable(file) == LoadFileInfo(file) /\ Trailer(file).entry_count # 0

\* CompositedSSTableWriter::Flush after the last batch
CompositedFlush(files, metas) ==
  LET merged(loaded) == MergeItems([p \in DOMAIN loaded |-> ItemsFrom(loaded[p], OnDiskSeekKey(loaded[p], 0))])
  IN BuilderFlush(FoldLeft(BuilderAdd, NewBuilder, merged(SelectSeq(files, Loadable))), metas)
-----------------------------------------------------------------------------
(* The writers *)

OldItems == <<[key |-> 1, value |-> 1]>>

Init ==
  /\ kind \in {"single", "unsorted", "composited", "sharding"}
  /\ compress \in BOOLEAN
  /\ stage = "building" /\ added = <<>> /\ meta = <<>>
  /\ d_data = [s \in Shards |-> <<>>] /\ parts = [s \in Shards |-> <<>>]
  /\ builder = NewBuilder
  /\ table = [s \in Shards |-> IF s = 0 THEN SingleFlush(OldItems, <<>>) ELSE NoFile]
  /\ stored = [s \in Shards |-> IF s = 0 THEN OldItems ELSE <<>>]
  /\ reader = "none" /\ its = <<>> /\ current = [valid |-> FALSE] /\ sought = 0 /\ seen = <<>>

\* The caller of an unsorted writer keeps the order.
Add(item) ==
  /\ stage = "building" /\ Len(added) < MaxItems
  /\ kind = "unsorted" => builder.last_key <= item.key
  /\ added' = Append(added, item)
  /\ builder' = IF kind = "unsorted" THEN BuilderAdd(builder, item) ELSE builder
  /\ LET s     == IF kind = "sharding" THEN Shard(item.key) ELSE 0
         batch == Append(d_data[s], item)
         full  == kind \in {"composited", "sharding"} /\ Bytes(batch) >= BatchSize
     IN /\ d_data' = IF kind = "unsorted" THEN d_data
                     ELSE [d_data EXCEPT ![s] = IF full THEN <<>> ELSE batch]
        /\ parts' = IF full THEN [parts EXCEPT ![s] = Append(@, SingleFlush(batch, <<>>))] ELSE parts
  /\ UNCHANGED <<kind, compress, stage, meta, table, stored, reader_vars>>

AddMetaData(value) ==
  /\ stage = "building" /\ Len(meta) < MaxMeta
  /\ meta' = Append(meta, value)
  /\ UNCHANGED <<kind, compress, stage, added, d_data, parts, builder, table, stored, reader_vars>>

\* insert keeps the first value, operator[] takes the last.
MetaItems ==
  IF meta = <<>> THEN <<>>
  ELSE IF kind \in {"single", "unsorted"} THEN <<Head(meta)>> ELSE <<Last(meta)>>

\* What a writer leaves at the path of shard s, NoFile if its Flush fails.  A
\* single writer without items fails, hence a composited one does that has an
\* empty batch in the end.
Flushed(s) ==
  CASE kind = "unsorted" -> BuilderFlush(builder, MetaItems)
    [] kind = "single"   -> IF d_data[s] = <<>> THEN NoFile ELSE SingleFlush(d_data[s], MetaItems)
    [] OTHER -> IF d_data[s] = <<>> THEN NoFile
                ELSE CompositedFlush(Append(parts[s], SingleFlush(d_data[s], <<>>)), MetaItems)

\* The items shard s was given, as they are to come back.
Accepted(s) ==
  StableSort(SelectSeq(added, LAMBDA i: (kind = "sharding" => Shard(i.key) = s)
                                          /\ (i.key # 0 \/ i.value # 0)))

\* Flush, where the rename to the path may fail.  A composited writer takes no
\* notice if it does: true is returned, and the items are lost.
Flush(moved) ==
  /\ stage = "building"
  /\ \E files \in {[s \in IF kind = "sharding" THEN Shards ELSE {0} |-> Flushed(s)]}:
       LET done == {s \in DOMAIN files: files[s] # NoFile}
           good == done = DOMAIN files
       IN /\ stage' = CASE good /\ moved -> "flushed"
                         [] good /\ ~moved /\ kind \in {"composited", "sharding"} -> "lost"
                         [] OTHER -> "failed"
          /\ table' = [s \in Shards |-> IF moved /\ s \in done THEN files[s] ELSE table[s]]
          /\ stored' = [s \in Shards |-> IF moved /\ s \in done THEN Accepted(s) ELSE stored[s]]
  /\ UNCHANGED <<kind, compress, added, meta, d_data, parts, builder, reader_vars>>

\* The process ends in front of the rename.
Crash ==
  /\ stage = "building"
  /\ stage' = "crashed"
  /\ UNCHANGED <<kind, compress, added, meta, d_data, parts, builder, table, stored, reader_vars>>
-----------------------------------------------------------------------------
(* The readers *)

Loaded == {s \in Shards: Loadable(table[s])}

Show(item) == [valid |-> TRUE, item |-> item]
Nothing    == [valid |-> FALSE]

Deliver(shown) ==
  /\ current' = shown
  /\ seen' = IF shown.valid THEN Append(seen, shown.item) ELSE seen

\* MergedIterator::LoadItem, the iterators being i: the item is taken from the
\* first of the queue, which moves on.
LoadItem(i) ==
  LET valid == {s \in DOMAIN i: i[s].valid}
      first == CHOOSE s \in valid: \A t \in valid: IteratorComp(At(table[s], i[s]), At(table[t], i[t]))
  IN IF valid = {} THEN its' = i /\ Deliver(Nothing)
     ELSE /\ its' = [i EXCEPT ![first] = NextItem(table[first], @)]
          /\ Deliver(Show(At(table[first], i[first])))

\* A plain reader opens the table of shard 0; a merged one, told to ignore bad
\* files, those of all shards.
Open(mode) ==
  /\ stage # "building" /\ reader = "none"
  /\ IF mode = "merged" THEN Loaded # {} ELSE LoadFileInfo(table[0])
  /\ reader' = mode
  /\ UNCHANGED <<writer_vars, its, current, sought, seen>>

\* A new iterator.
Seek(key) ==
  /\ reader # "none" /\ seen = <<>> /\ its = <<>>
  /\ sought' = key
  /\ CASE reader = "disk" ->
            \E it \in {OnDiskSeekKey(table[0], key)}:
              its' = <<it>> /\ Deliver(IF it.valid THEN Show(At(table[0], it)) ELSE Nothing)
       [] reader = "memory" ->
            \E data \in {InMemoryData(table[0])}: \E it \in {InMemorySeekKey(data, key)}:
              its' = <<it>> /\ Deliver(IF it.valid THEN Show(InMemoryAt(data, it)) ELSE Nothing)
       [] reader = "merged" -> LoadItem([s \in Loaded |-> OnDiskSeekKey(table[s], key)])
  /\ UNCHANGED <<writer_vars, reader>>

IteratorNext ==
  /\ current.valid /\ current.item # Throws
  /\ CASE reader = "disk" ->
            \E it \in {NextItem(table[0], its[1])}:
              its' = <<it>> /\ Deliver(IF it.valid THEN Show(At(table[0], it)) ELSE Nothing)
       [] reader = "memory" ->
            \E data \in {InMemoryData(table[0])}: \E it \in {InMemoryNextItem(data, its[1])}:
              its' = <<it>> /\ Deliver(IF it.valid THEN Show(InMemoryAt(data, it)) ELSE Nothing)
       [] reader = "merged" -> LoadItem(its)
  /\ UNCHANGED <<writer_vars, reader, sought>>

\* SSTableReader::Lookup for an iterator that Seek has just made
LookupFinds(key) == IF current.valid THEN current.item.key = key ELSE key = 0

Next ==
  \/ \E item \in Item: Add(item)
  \/ \E value \in Value: AddMetaData(value)
  \/ \E moved \in BOOLEAN: Flush(moved)
  \/ Crash
  \/ \E mode \in {"disk", "memory", "merged"}: Open(mode)
  \/ \E key \in SeekKeys: Seek(key)
  \/ IteratorNext

Spec == Init /\ [][Next]_vars
-----------------------------------------------------------------------------
(* Properties *)

Count(items, x) == Cardinality({i \in DOMAIN items: items[i] = x})

\* The items the reader is over, those of one table after the other.
Present == FlattenSeq([s \in 1..ShardNum |-> IF s = 1 \/ reader = "merged" THEN stored[s - 1] ELSE <<>>])
Wanted  == SelectSeq(Present, LAMBDA i: i.key >= sought)

\* Where the comment on SSTableReader::Seek holds for the in memory reader too.
SeekIsExact ==
  reader = "memory" => /\ Present # <<>>
                       /\ \/ \E i \in DOMAIN Present: Present[i].key = sought
                          \/ \A i \in DOMAIN Present: Present[i].key > sought
                          \/ \A i \in DOMAIN Present: Present[i].key < sought

\* The file of a writer whose Flush returned true holds the value of its meta
\* data that the writer keeps, in every shard.
MetaDataReadsBack ==
  stage = "flushed" => \A s \in Loaded: kind = "sharding" \/ s = 0 => GetMetaData(table[s]) = MetaItems

\* What an iterator delivers after Seek(key) are the items with this or a
\* greater key that the writer of the table was given, each as often as it was,
\* in the order of their keys, and, with one writer that does not merge, those
\* of one key as they were added; none is passed over.  So it is through every
\* cut into blocks, with and without compression, for the old table when the
\* writer fails or ends before the rename, and over the shards of a merged
\* table.  Lookup finds the keys the table has and no others.  The meta data
\* comes back as well.
TableReadsBack ==
  /\ MetaDataReadsBack
  /\ its # <<>> /\ SeekIsExact =>
      /\ \A i \in 1..Len(seen) - 1: seen[i].key <= seen[i + 1].key
      /\ \A i \in DOMAIN seen: Count(seen, seen[i]) <= Count(Wanted, seen[i])
      /\ \A i \in DOMAIN Wanted: ~current.valid \/ Wanted[i].key < Last(seen).key
                                   => Count(seen, Wanted[i]) = Count(Wanted, Wanted[i])
      /\ kind \in {"single", "unsorted"} /\ reader # "merged" => IsPrefix(seen, Wanted)
  /\ its # <<>> /\ reader # "merged" /\ Present # <<>> /\ Len(seen) = (IF current.valid THEN 1 ELSE 0) =>
       (LookupFinds(sought) <=> \E i \in DOMAIN Present: Present[i].key = sought)

\* Seek gives "a iterator to the key, or the first one after the key if it's
\* not found" in both modes of the reader.
SeekFindsKeyOrNext ==
  seen # <<>> /\ Present # <<>> => seen[1].key >= sought
=============================================================================
