------------------------------- MODULE Memory -------------------------------
(***************************************************************************)
(* Memory handed out in blocks and in pieces of blocks.                    *)
(***************************************************************************)
EXTENDS Integers, Sequences, FiniteSets, FiniteSetsExt, Functions

(***************************************************************************)
(* system/memory/mempool.cpp: an allocator with a cache of free blocks for *)
(* each size class.  m_poolMutex protects the caches and the two size      *)
(* totals, but Allocate and Free take it twice, with operator new and      *)
(* operator delete in between; each locked part is a step.  A request is   *)
(* for a size >= 1 (Allocate(0) returns NULL) that fits the 32 bits of the *)
(* Size field of a block header.                                           *)
(***************************************************************************)
CONSTANTS
  Thread, Block, None,
  s_BlockConfig,  \* a sequence of [size, cache_count], sizes increasing
  MaxSize         \* bound: the largest request

VARIABLES
  m_memPool,                \* class -> sequence of blocks
  m_allocated_memory_size,
  m_pooled_memory_size,
  header,                   \* block -> [Index, Size], None when not allocated
  held,                     \* blocks the threads have been given
  pc, pool_block,                \* where a thread is, and the block it is busy with
  asked                     \* history: block -> the size it was requested for

vars == <<m_memPool, m_allocated_memory_size, m_pooled_memory_size, header, held, pc, pool_block, asked>>

Class == DOMAIN s_BlockConfig
MAX_UNIT_SIZE == s_BlockConfig[Len(s_BlockConfig)].size
Fresh == {b \in Block: header[b] = None}

Init ==
  /\ m_memPool = [c \in Class |-> <<>>]
  /\ m_allocated_memory_size = 0
  /\ m_pooled_memory_size = 0
  /\ header = [b \in Block |-> None]
  /\ held = [t \in Thread |-> {}]
  /\ pc = [t \in Thread |-> "idle"]
  /\ pool_block = [t \in Thread |-> None]
  /\ asked = [b \in Block |-> 0]

\* The first class whose blocks are large enough, or one past the last.
GetUnitIndex(size) ==
  Min({c \in Class: s_BlockConfig[c].size >= size} \cup {Len(s_BlockConfig) + 1})

\* Allocate, to the end of the first locked part and operator new.
Allocate(t, size) ==
  LET c == GetUnitIndex(size)
  IN /\ pc[t] = "idle"
     /\ pc' = [pc EXCEPT ![t] = "count"]
     /\ IF c \in Class /\ m_memPool[c] # <<>>
        THEN /\ m_pooled_memory_size' = m_pooled_memory_size - s_BlockConfig[c].size
             /\ pool_block' = [pool_block EXCEPT ![t] = Head(m_memPool[c])]
             /\ m_memPool' = [m_memPool EXCEPT ![c] = Tail(@)]
             /\ UNCHANGED header
        ELSE /\ Fresh # {}
             /\ LET b == CHOOSE b \in Fresh: TRUE
                IN /\ pool_block' = [pool_block EXCEPT ![t] = b]
                   /\ header' = [header EXCEPT ![b] =
                        IF c \in Class THEN [Index |-> c, Size |-> s_BlockConfig[c].size]
                        ELSE [Index |-> -1, Size |-> size]]
             /\ UNCHANGED <<m_memPool, m_pooled_memory_size>>
     /\ asked' = [asked EXCEPT ![pool_block'[t]] = size]
     /\ UNCHANGED <<m_allocated_memory_size, held>>

\* Allocate: the second locked part; the block goes to the caller.
AllocateCount(t) ==
  /\ pc[t] = "count"
  /\ m_allocated_memory_size' = m_allocated_memory_size + header[pool_block[t]].Size
  /\ held' = [held EXCEPT ![t] = @ \cup {pool_block[t]}]
  /\ pc' = [pc EXCEPT ![t] = "idle"]
  /\ pool_block' = [pool_block EXCEPT ![t] = None]
  /\ UNCHANGED <<m_memPool, m_pooled_memory_size, header, asked>>

\* Free that puts a large or surplus block's size into the pooled total too
FreeCountsAll(t, b) ==
  LET c == header[b].Index
      cached == c # -1 /\ Len(m_memPool[c]) < s_BlockConfig[c].cache_count
  IN /\ pc[t] = "idle" /\ b \in held[t]
     /\ held' = [held EXCEPT ![t] = @ \ {b}]
     /\ pc' = [pc EXCEPT ![t] = "discount"]
     /\ pool_block' = [pool_block EXCEPT ![t] = header[b].Size]
     /\ m_pooled_memory_size' = m_pooled_memory_size + header[b].Size
     /\ m_memPool' = IF cached THEN [m_memPool EXCEPT ![c] = Append(@, b)] ELSE m_memPool
     /\ header' = IF cached THEN header ELSE [header EXCEPT ![b] = None]
     /\ UNCHANGED <<m_allocated_memory_size, asked>>

\* Free: the header is read, and the block goes to its cache, or to operator
\* delete when the cache is full or the block is a large one.  The caller's
\* size is kept in pc's place until the last part.
Free(t, b) ==
  LET c == header[b].Index
      cached == c # -1 /\ Len(m_memPool[c]) < s_BlockConfig[c].cache_count
  IN /\ pc[t] = "idle" /\ b \in held[t]
     /\ held' = [held EXCEPT ![t] = @ \ {b}]
     /\ pc' = [pc EXCEPT ![t] = "discount"]
     /\ pool_block' = [pool_block EXCEPT ![t] = header[b].Size]
     /\ IF cached
        THEN /\ m_memPool' = [m_memPool EXCEPT ![c] = Append(@, b)]
             /\ m_pooled_memory_size' = m_pooled_memory_size + s_BlockConfig[c].size
             /\ UNCHANGED header
        ELSE /\ header' = [header EXCEPT ![b] = None]
             /\ UNCHANGED <<m_memPool, m_pooled_memory_size>>
     /\ UNCHANGED <<m_allocated_memory_size, asked>>

\* Free: the last locked part.
FreeDiscount(t) ==
  /\ pc[t] = "discount"
  /\ m_allocated_memory_size' = m_allocated_memory_size - pool_block[t]
  /\ pc' = [pc EXCEPT ![t] = "idle"]
  /\ pool_block' = [pool_block EXCEPT ![t] = None]
  /\ UNCHANGED <<m_memPool, m_pooled_memory_size, header, held, asked>>

Next ==
  \E t \in Thread:
    \/ \E size \in 1..MaxSize: Allocate(t, size)
    \/ AllocateCount(t)
    \/ \E b \in held[t]: Free(t, b)
    \/ FreeDiscount(t)

Spec == Init /\ [][Next]_vars
-----------------------------------------------------------------------------
Pooled(c) == Range(m_memPool[c])
Held == UNION {held[t]: t \in Thread}

\* The totals that GetAllocatedSize and GetPooledSize return follow the blocks:
\* the allocated size is that of the blocks in the callers' hands and of those
\* whose Free has not come to its last part, the pooled size that of the blocks
\* in the caches; so neither size_t wraps below zero.
SizesAddUp ==
  /\ m_allocated_memory_size =
       MapThenSumSet(LAMBDA b: header[b].Size, Held)
         + MapThenSumSet(LAMBDA t: pool_block[t], {t \in Thread: pc[t] = "discount"})
  /\ m_pooled_memory_size =
       MapThenSumSet(LAMBDA c: Len(m_memPool[c]) * s_BlockConfig[c].size, Class)

\* IsValidMemoryBlock
IsValidMemoryBlock(b) ==
  /\ header[b] # None
  /\ IF header[b].Index = -1 THEN header[b].Size > MAX_UNIT_SIZE
     ELSE header[b].Index \in Class /\ header[b].Size <= MAX_UNIT_SIZE

\* A block in a caller's hands passes Free's assertion, is as large as was asked
\* for, and is in no other caller's hands and in no cache; no cache is longer
\* than its configured count or holds a block of another class.
BlocksAreSound ==
  /\ \A t \in Thread: \A b \in held[t]:
       /\ IsValidMemoryBlock(b) /\ asked[b] <= header[b].Size
       /\ \A u \in Thread \ {t}: b \notin held[u] /\ pool_block[u] # b
       /\ \A c \in Class: b \notin Pooled(c)
  /\ \A c \in Class:
       /\ Len(m_memPool[c]) <= s_BlockConfig[c].cache_count
       /\ IsInjective(m_memPool[c])
       /\ \A b \in Pooled(c): header[b] # None /\ header[b].Index = c

\* MemoryPool as a whole, under threads that call it at the same time: the blocks
\* handed out are sound and the totals follow them.
MemoryAccounted == BlocksAreSound /\ SizesAddUp

-----------------------------------------------------------------------------
(***************************************************************************)
(* Arena (base/arena.cpp, arena.h): memory that is handed out piece by     *)
(* piece from the current block and freed all at once.  An address is a    *)
(* block and an offset; new[] gives aligned memory.                        *)
(***************************************************************************)
CONSTANTS
  kBlockSize,
  Align,              \* sizeof(void*)
  Sizes,              \* the sizes asked for
  MaxBlocks           \* bound on the number of blocks

VARIABLES
  blocks_,            \* the sizes of the blocks
  alloc_ptr_,         \* where the next piece starts; block 0 is the null pointer
  alloc_bytes_remaining_,
  blocks_memory_,
  last,               \* history: the last piece handed out,
  taken               \* and the bytes of those before it

arena_vars == <<blocks_, alloc_ptr_, alloc_bytes_remaining_, blocks_memory_, last, taken>>

Address(block, offset) == [block |-> block, offset |-> offset]
Piece(p, n, aligned) == [at |-> p, size |-> n, aligned |-> aligned]
Bytes(x) == {Address(x.at.block, o): o \in x.at.offset .. x.at.offset + x.size - 1}
Behind(p, n) == [p EXCEPT !.offset = @ + n]

ArenaInit ==
  /\ blocks_ = <<>>
  /\ alloc_ptr_ = Address(0, 0)
  /\ alloc_bytes_remaining_ = 0
  /\ blocks_memory_ = 0
  /\ last = Piece(Address(0, 0), 0, FALSE)
  /\ taken = {}

HandOut(p, n, aligned) == last' = Piece(p, n, aligned) /\ taken' = taken \cup Bytes(last)

AllocateNewBlock(n) == blocks_' = Append(blocks_, n) /\ blocks_memory_' = blocks_memory_ + n
NewBlock == Address(Len(blocks_) + 1, 0)

\* A large piece gets a block of its own, and the current one stays in use.
AllocateFallback(n, aligned) ==
  /\ Len(blocks_) < MaxBlocks
  /\ HandOut(NewBlock, n, aligned)
  /\ IF n > kBlockSize \div 4
     THEN AllocateNewBlock(n) /\ UNCHANGED <<alloc_ptr_, alloc_bytes_remaining_>>
     ELSE /\ AllocateNewBlock(kBlockSize)
          /\ alloc_ptr_' = Behind(NewBlock, n)
          /\ alloc_bytes_remaining_' = kBlockSize - n

\* The current block has room for skip bytes and the piece.
AllocateHere(n, skip, aligned) ==
  /\ HandOut(Behind(alloc_ptr_, skip), n, aligned)
  /\ alloc_ptr_' = Behind(alloc_ptr_, skip + n)
  /\ alloc_bytes_remaining_' = alloc_bytes_remaining_ - skip - n
  /\ UNCHANGED <<blocks_, blocks_memory_>>

ArenaAllocate(n) ==
  IF n <= alloc_bytes_remaining_ THEN AllocateHere(n, 0, FALSE) ELSE AllocateFallback(n, FALSE)

\* Faulty: the bytes that are skipped are not asked for.
SlopForgotten(n) == n
Needed(n) == n + ((0 - alloc_ptr_.offset) % Align)

AllocateAligned(n) ==
  IF Needed(n) <= alloc_bytes_remaining_
  THEN AllocateHere(n, (0 - alloc_ptr_.offset) % Align, TRUE)
  ELSE AllocateFallback(n, TRUE)

ArenaNext == \E n \in Sizes: ArenaAllocate(n) \/ AllocateAligned(n)

ArenaSpec == ArenaInit /\ [][ArenaNext]_arena_vars
-----------------------------------------------------------------------------
Rest == Piece(alloc_ptr_, alloc_bytes_remaining_, FALSE)

\* Every piece lies within a block and shares no byte with those before it, an aligned
\* one is aligned, what is left of the current block is nobody's, and the memory in use
\* is that of the blocks.
PiecesAreApart ==
  last.size > 0 =>
    /\ last.at.block \in DOMAIN blocks_ /\ last.at.offset + last.size <= blocks_[last.at.block]
    /\ last.aligned => last.at.offset % Align = 0
    /\ Bytes(last) \cap taken = {}
    /\ Bytes(Rest) \cap (taken \cup Bytes(last)) = {}
    /\ alloc_ptr_.block # 0 => alloc_ptr_.offset + alloc_bytes_remaining_ = blocks_[alloc_ptr_.block]
    /\ blocks_memory_ >= Cardinality(taken) + last.size + alloc_bytes_remaining_
=============================================================================
