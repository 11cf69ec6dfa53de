--------------------------- MODULE MCContainers ----------------------------
(***************************************************************************)
(* The containers, the pools, the owners of objects and the locks for TLC. *)
(* They do not share state, so a behaviour runs one of them, chosen at the *)
(* start, and leaves the others as they were constructed.                  *)
(***************************************************************************)
EXTENDS Integers, Lists, ObjectPool, Locks, TLC

CONSTANTS Block, MapKey, MaxUpdates, MaxTimers,
          kBitsPerWord, MaxBits, Buffer, Overload,
          MaxClosures, MaxObjects, MaxDepth, MaxAsked, Caller, CharBit,
          kBlockSize, Align, Sizes, MaxBlocks, StlKey, MaxSize, BigLimit

VARIABLES
  which,
  m_memPool, m_allocated_memory_size, m_pooled_memory_size, header,
    blocks_held, mempool_pc, block, asked,
  rate_value, sum_value, stats, map, m_counters, m_timer_id, pending, running,
    timers, tasks, reporter, todo, taken, phase, updates, samples, inserts,
    added, delivered,
  m_words, m_size, bits, shrunk,
  m_bitmap, m_own_bitmap, memory, lent, m_bitmaps, keys, partial_keys, unique,
  closures, owned, calls, wild,
  ptr, made, loose, deletes, dying, reentered,
  s_holder, guard, value, is_alive, first_pc, overload, got, broken, overlap,
    exited,
  unregistered, m_class_map, m_class_names, singletons, returned, aborted,
  blocks_, alloc_ptr_, alloc_bytes_remaining_, blocks_memory_, last_piece,
    taken_bytes,
  maps, pointers, live, twice, values, capacity,
  byte_bitmap, content

Pools == INSTANCE Memory
  WITH s_BlockConfig <- <<[size |-> 1, cache_count |-> 1], [size |-> 2, cache_count |-> 1]>>,
       MaxSize <- 3, held <- blocks_held, pc <- mempool_pc, pool_block <- block,
       last <- last_piece, taken <- taken_bytes
Counters == INSTANCE CounterManager
  WITH Sample <- {-1, 2}
Bits == INSTANCE Bitmaps
  WITH Key <- {"a", "b", "c"}, Hash <- "a" :> <<0, 1>> @@ "b" :> <<1, 1>> @@ "c" :> <<2, 0>>
Owners == INSTANCE Ownership
  WITH BoundLists <- {<<>>, <<1>>}, ArgLists <- {<<2>>}, ScopedPtr <- {"s1", "s2"},
       UniquePtr <- {"u1", "u2"}, PointerMaxDepth <- 2, Key <- StlKey, Obj <- 1 .. 4
Globals == INSTANCE GlobalObjects
  WITH Thread <- Caller, pc <- first_pc,
       Registerer <- {[tag |-> "x", name |-> "a", class |-> 1, singleton |-> TRUE],
                      [tag |-> "x", name |-> "b", class |-> 1, singleton |-> TRUE],
                      [tag |-> "y", name |-> "a", class |-> 1, singleton |-> TRUE],
                      [tag |-> "y", name |-> "b", class |-> 2, singleton |-> FALSE],
                      [tag |-> "x", name |-> "a", class |-> 2, singleton |-> FALSE]},
       Tag <- {"x", "y"}, Name <- {"a", "b"}, pending <- unregistered, asked <- returned

mempool_vars == <<m_memPool, m_allocated_memory_size, m_pooled_memory_size,
                  header, blocks_held, mempool_pc, block, asked>>
counter_vars == <<rate_value, sum_value, stats, map, m_counters, m_timer_id,
                  pending, running, timers, tasks, reporter, todo, taken,
                  phase, updates, samples, inserts, added, delivered>>
bitmap_vars == <<m_words, m_size, bits, shrunk>>
bloom_vars == <<m_bitmap, m_own_bitmap, memory, lent, m_bitmaps, keys,
                partial_keys, unique>>
closure_vars == <<closures, owned, calls, wild>>
pointer_vars == <<ptr, made, loose, deletes, dying, reentered>>
singleton_vars == <<s_holder, guard, value, is_alive, first_pc, overload, got,
                    broken, overlap, exited>>
registry_vars == <<unregistered, m_class_map, m_class_names, singletons,
                   returned, aborted>>
arena_vars == <<blocks_, alloc_ptr_, alloc_bytes_remaining_, blocks_memory_,
                last_piece, taken_bytes>>
stl_vars == <<maps, pointers, live, twice, values, capacity>>
byteset_vars == <<byte_bitmap, content>>
suite_vars == <<which, vars, objects_vars, mempool_vars, counter_vars,
                skip_vars, bitmap_vars, bloom_vars, list_vars, closure_vars,
                pointer_vars, singleton_vars, registry_vars, lock_vars,
                semaphore_vars, arena_vars, stl_vars, byteset_vars>>

SuiteInit ==
  /\ which \in {"lru", "objects", "mempool", "counter", "skip", "bitmap", "bloom", "list", "closure", "pointer", "singleton", "registry", "lock", "semaphore", "arena", "stl", "byteset"}
  /\ Init
  /\ ObjectsInit
  /\ which # "objects" => m_Quota = 0
  /\ Pools!Init
  /\ Counters!Init
  /\ SkipInit
  /\ Bits!Init
  /\ which # "bitmap" => m_size = 1 /\ bits = {}
  /\ Bits!FilterInit
  /\ ListInit
  /\ Owners!Init
  /\ Owners!PointerInit
  /\ Globals!Init
  /\ Globals!RegistryInit
  /\ which # "registry" => unregistered = {}
  /\ LockInit
  /\ SemaphoreInit
  /\ Pools!ArenaInit
  /\ Owners!StlInit
  /\ Bits!ByteSetInit

SuiteNext ==
  /\ UNCHANGED which
  /\ \/ which = "lru" /\ Next
        /\ UNCHANGED <<objects_vars, mempool_vars, counter_vars, skip_vars,
                       bitmap_vars, bloom_vars, list_vars, closure_vars,
                       pointer_vars, singleton_vars, registry_vars, lock_vars,
                       semaphore_vars, arena_vars, stl_vars, byteset_vars>>
     \/ which = "objects" /\ ObjectsNext
        /\ UNCHANGED <<vars, mempool_vars, counter_vars, skip_vars,
                       bitmap_vars, bloom_vars, list_vars, closure_vars,
                       pointer_vars, singleton_vars, registry_vars, lock_vars,
                       semaphore_vars, arena_vars, stl_vars, byteset_vars>>
     \/ which = "mempool" /\ Pools!Next
        /\ UNCHANGED <<vars, objects_vars, counter_vars, skip_vars,
                       bitmap_vars, bloom_vars, list_vars, closure_vars,
                       pointer_vars, singleton_vars, registry_vars, lock_vars,
                       semaphore_vars, arena_vars, stl_vars, byteset_vars>>
     \/ which = "counter" /\ Counters!Next
        /\ UNCHANGED <<vars, objects_vars, mempool_vars, skip_vars,
                       bitmap_vars, bloom_vars, list_vars, closure_vars,
                       pointer_vars, singleton_vars, registry_vars, lock_vars,
                       semaphore_vars, arena_vars, stl_vars, byteset_vars>>
     \/ which = "skip" /\ SkipNext
        /\ UNCHANGED <<vars, objects_vars, mempool_vars, counter_vars,
                       bitmap_vars, bloom_vars, list_vars, closure_vars,
                       pointer_vars, singleton_vars, registry_vars, lock_vars,
                       semaphore_vars, arena_vars, stl_vars, byteset_vars>>
     \/ which = "bitmap" /\ Bits!Next
        /\ UNCHANGED <<vars, objects_vars, mempool_vars, counter_vars,
                       skip_vars, bloom_vars, list_vars, closure_vars,
                       pointer_vars, singleton_vars, registry_vars, lock_vars,
                       semaphore_vars, arena_vars, stl_vars, byteset_vars>>
     \/ which = "bloom" /\ Bits!FilterNext
        /\ UNCHANGED <<vars, objects_vars, mempool_vars, counter_vars,
                       skip_vars, bitmap_vars, list_vars, closure_vars,
                       pointer_vars, singleton_vars, registry_vars, lock_vars,
                       semaphore_vars, arena_vars, stl_vars, byteset_vars>>
     \/ which = "list" /\ ListNext
        /\ UNCHANGED <<vars, objects_vars, mempool_vars, counter_vars,
                       skip_vars, bitmap_vars, bloom_vars, closure_vars,
                       pointer_vars, singleton_vars, registry_vars, lock_vars,
                       semaphore_vars, arena_vars, stl_vars, byteset_vars>>
     \/ which = "closure" /\ Owners!Next
        /\ UNCHANGED <<vars, objects_vars, mempool_vars, counter_vars,
                       skip_vars, bitmap_vars, bloom_vars, list_vars,
                       pointer_vars, singleton_vars, registry_vars, lock_vars,
                       semaphore_vars, arena_vars, stl_vars, byteset_vars>>
     \/ which = "pointer" /\ Owners!PointerNext
        /\ UNCHANGED <<vars, objects_vars, mempool_vars, counter_vars,
                       skip_vars, bitmap_vars, bloom_vars, list_vars,
                       closure_vars, singleton_vars, registry_vars, lock_vars,
                       semaphore_vars, arena_vars, stl_vars, byteset_vars>>
     \/ which = "singleton" /\ Globals!Next
        /\ UNCHANGED <<vars, objects_vars, mempool_vars, counter_vars,
                       skip_vars, bitmap_vars, bloom_vars, list_vars,
                       closure_vars, pointer_vars, registry_vars, lock_vars,
                       semaphore_vars, arena_vars, stl_vars, byteset_vars>>
     \/ which = "registry" /\ Globals!RegistryNext
        /\ UNCHANGED <<vars, objects_vars, mempool_vars, counter_vars,
                       skip_vars, bitmap_vars, bloom_vars, list_vars,
                       closure_vars, pointer_vars, singleton_vars, lock_vars,
                       semaphore_vars, arena_vars, stl_vars, byteset_vars>>
     \/ which = "lock" /\ LockNext
        /\ UNCHANGED <<vars, objects_vars, mempool_vars, counter_vars,
                       skip_vars, bitmap_vars, bloom_vars, list_vars,
                       closure_vars, pointer_vars, singleton_vars,
                       registry_vars, semaphore_vars, arena_vars, stl_vars,
                       byteset_vars>>
     \/ which = "semaphore" /\ SemaphoreNext
        /\ UNCHANGED <<vars, objects_vars, mempool_vars, counter_vars,
                       skip_vars, bitmap_vars, bloom_vars, list_vars,
                       closure_vars, pointer_vars, singleton_vars,
                       registry_vars, lock_vars, arena_vars, stl_vars,
                       byteset_vars>>
     \/ which = "arena" /\ Pools!ArenaNext
        /\ UNCHANGED <<vars, objects_vars, mempool_vars, counter_vars,
                       skip_vars, bitmap_vars, bloom_vars, list_vars,
                       closure_vars, pointer_vars, singleton_vars,
                       registry_vars, lock_vars, semaphore_vars, stl_vars,
                       byteset_vars>>
     \/ which = "stl" /\ Owners!StlNext
        /\ UNCHANGED <<vars, objects_vars, mempool_vars, counter_vars,
                       skip_vars, bitmap_vars, bloom_vars, list_vars,
                       closure_vars, pointer_vars, singleton_vars,
                       registry_vars, lock_vars, semaphore_vars, arena_vars,
                       byteset_vars>>
     \/ which = "byteset" /\ Bits!ByteSetNext
        /\ UNCHANGED <<vars, objects_vars, mempool_vars, counter_vars,
                       skip_vars, bitmap_vars, bloom_vars, list_vars,
                       closure_vars, pointer_vars, singleton_vars,
                       registry_vars, lock_vars, semaphore_vars, arena_vars,
                       stl_vars>>

SuiteSpec == SuiteInit /\ [][SuiteNext]_suite_vars

\* CounterManager: every update is reported once, by one chain of reports that
\* Terminate ends.
ReportsAreExact == Counters!ReportsAreExact

\* Bitmap: the words hold the set that the operations describe, and the queries
\* answer for it.  BloomFilter and PartialBloomFilter: no false negatives, and the
\* bitmaps are freed by their owner.  ByteSet: its words are the set of bytes too.
BitmapIsTheSet ==
  /\ Bits!BitmapIsTheSet
  /\ Bits!FilterIsSound
  /\ which = "byteset" => Bits!BytesAreTheSet

\* Closure, scoped_ptr and unique_ptr: what they own is deleted once, and not while it
\* is in use.  Singleton: one value, built before it is returned.  ClassRegistry: what
\* is registered under a name is what is created for it.  The helpers for STL containers:
\* no object is leaked or deleted twice.  MemoryPool: blocks handed out are valid, large
\* enough and handed out once, and the two totals follow them.  Arena: the pieces share
\* no byte.
OwnersAreClear ==
  /\ which = "closure" => Owners!ClosuresAccounted
  /\ which = "pointer" => Owners!PointersOwn
  /\ which = "singleton" => Globals!SingletonIsOne
  /\ which = "registry" => Globals!RegistryIsExact
  /\ which = "stl" => Owners!ContainersOwn
  /\ Pools!MemoryAccounted
  /\ which = "arena" => Pools!PiecesAreApart
=============================================================================
