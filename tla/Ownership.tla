----------------------------- MODULE Ownership ------------------------------
(***************************************************************************)
(* Objects that own others, and delete them once: closures, owning         *)
(* pointers and containers of pointers.                                    *)
(***************************************************************************)
EXTENDS Integers, Sequences, SequencesExt, FiniteSets, Functions, TLC

(***************************************************************************)
(* Closures (base/closure.h): a function or a method with an object, and   *)
(* the first of its arguments, bound.  A permanent closure is deleted by   *)
(* its owner, even from within its own call; another one deletes itself    *)
(* when its call ends, by a return or by an exception that passes through. *)
(* The generated classes, one for a function and one for a method for each *)
(* number of arguments bound and left, differ in these lists alone, and    *)
(* are one here.  The program runs or deletes what it still owns.          *)
(***************************************************************************)
CONSTANTS
  BoundLists,     \* lists of arguments to bind
  ArgLists,       \* lists of arguments to pass to Run
  MaxClosures,    \* bound on the closures that are made
  MaxDepth        \* bound on the calls within calls

VARIABLES
  closures,       \* every closure that was made
  owned,          \* those that the program may still run or delete
  calls,          \* the calls that are under way, the innermost last
  wild            \* history: members of closures that were read or deleted after their deletion

closure_vars == <<closures, owned, calls, wild>>

Alive == {c \in DOMAIN closures: ~closures[c].deleted}

\* NewClosure, NewPermanentClosure: the arguments that are bound are copied.
New(permanent, bound) ==
  /\ Len(closures) < MaxClosures
  /\ closures' = Append(closures, [permanent |-> permanent, bound |-> bound, deleted |-> FALSE])
  /\ owned' = owned \cup {Len(closures) + 1}
  /\ UNCHANGED <<calls, wild>>

\* Faulty: the arguments of Run come first.
PassedArgsFirst(c, args) == args \o closures[c].bound
Passed(c, args) == closures[c].bound \o args

\* A closure that deletes itself is not the program's any more once it runs.
Run(c, args) ==
  /\ Len(calls) < MaxDepth
  /\ calls' = Append(calls, [closure |-> c, args |-> args, passed |-> Passed(c, args)])
  /\ owned' = IF closures[c].permanent THEN owned ELSE owned \ {c}
  /\ UNCHANGED <<closures, wild>>

\* operator delete, of closures that may be deleted already.
Deletes(cs) == /\ closures' = [c \in DOMAIN closures |->
                                 [closures[c] EXCEPT !.deleted = @ \/ c \in cs]]
               /\ wild' = wild + Cardinality(cs \ Alive)

\* Faulty: what the call belongs to is deleted, whatever it is.
AutoDeletedAlways(frames) == {calls[i].closure: i \in frames}

\* ConditionalAutoDeleter: the destructors of the calls that end.
AutoDeleted(frames) == {c \in {calls[i].closure: i \in frames}: ~closures[c].permanent}

\* The innermost call returns.
Return ==
  /\ calls # <<>>
  /\ calls' = Front(calls)
  /\ Deletes(AutoDeleted({Len(calls)}))
  /\ UNCHANGED owned

\* An exception ends the calls from the i-th on.
Throw(i) ==
  /\ i < Len(calls)
  /\ calls' = SubSeq(calls, 1, i - 1)
  /\ Deletes(AutoDeleted(i..Len(calls)))
  /\ UNCHANGED owned

\* The owner deletes a closure, one that never ran or a permanent one.
Delete(c) == /\ owned' = owned \ {c}
             /\ Deletes({c})
             /\ UNCHANGED calls

Init == closures = <<>> /\ owned = {} /\ calls = <<>> /\ wild = 0

Next == \/ \E permanent \in BOOLEAN, bound \in BoundLists: New(permanent, bound)
        \/ \E c \in owned: Delete(c) \/ \E args \in ArgLists: Run(c, args)
        \/ Return
        \/ \E i \in DOMAIN calls: Throw(i)

Spec == Init /\ [][Next]_closure_vars
-----------------------------------------------------------------------------
\* Every closure is deleted once: one that is permanent, or that never ran, by its
\* owner, another one behind its call, however that ends; while a call of it is
\* under way, its bound arguments are there, which the function may have by
\* reference.  The function is given the bound arguments and those of Run behind.
ClosuresAccounted ==
  /\ wild = 0
  /\ Alive = owned \cup {calls[i].closure: i \in {j \in DOMAIN calls: ~closures[calls[j].closure].permanent}}
  /\ \A i \in DOMAIN calls: \A c \in {calls[i].closure}:
       /\ ~closures[c].permanent => c \in Alive /\ \A j \in DOMAIN calls \ {i}: calls[j].closure # c
       /\ IsPrefix(closures[c].bound, calls[i].passed) /\ IsSuffix(calls[i].args, calls[i].passed)

-----------------------------------------------------------------------------
(***************************************************************************)
(* scoped_ptr, scoped_array (base/scoped_ptr.h) and unique_ptr             *)
(* (base/unique_ptr.h): pointers that own an object.  What a deletion runs *)
(* is the program's, which may use the pointers again: operations happen   *)
(* within the destructor of an object, and a reset or a destructor of a    *)
(* pointer goes on when that has returned.                                 *)
(***************************************************************************)
CONSTANTS
  ScopedPtr, UniquePtr,    \* the pointers
  MaxObjects,              \* bound on the objects that are made
  PointerMaxDepth                 \* bound on the destructors within destructors

VARIABLES
  ptr,            \* ptr_ and m_ptr; 0 is NULL, Dead a pointer that was destroyed
  made,           \* the objects are 1..made
  loose,          \* objects that plain pointers of the program own
  deletes,        \* how often an object was deleted
  dying,          \* the deletions that are under way, with what the pointer does behind them
  reentered       \* history: a scoped_ptr was used while its reset was deleting

pointer_vars == <<ptr, made, loose, deletes, dying, reentered>>

Dead == -1
Pointer == ScopedPtr \cup UniquePtr
Usable(p) == ptr[p] # Dead /\ \A i \in DOMAIN dying: dying[i].pointer = p => ~dying[i].destroys

\* Using p: in a reset that is not finished, the old object is still there.
Uses(ps) == reentered' = (reentered \/ \E i \in DOMAIN dying: dying[i].pointer \in ps /\ dying[i].assigns # <<>>)

\* delete or m_deleter of o, for p; a NULL is not deleted.
PointerDeletes(o, p, assigns, destroys) ==
  /\ Len(dying) < PointerMaxDepth
  /\ deletes' = [deletes EXCEPT ![o] = @ + 1]
  /\ dying' = Append(dying, [object |-> o, pointer |-> p, assigns |-> assigns, destroys |-> destroys])

\* new, with a plain pointer.
NewObject ==
  /\ made < MaxObjects
  /\ made' = made + 1
  /\ loose' = loose \cup {made + 1}
  /\ UNCHANGED <<ptr, deletes, dying, reentered>>

\* scoped_ptr::reset deletes, and assigns when that has returned.
ScopedReset(p, o) ==
  /\ loose' = loose \ {o}
  /\ \/ /\ ptr[p] \in {o, 0}
        /\ ptr' = [ptr EXCEPT ![p] = o]
        /\ UNCHANGED <<deletes, dying>>
     \/ /\ ptr[p] \notin {o, 0}
        /\ PointerDeletes(ptr[p], p, <<o>>, FALSE)
        /\ UNCHANGED ptr

\* Faulty: reset deletes the old object first.
UniqueResetDeletesFirst(p, o) == ScopedReset(p, o)

\* unique_ptr::reset assigns before it deletes; o is not the pointer's own object.
UniqueReset(p, o) ==
  /\ o = 0 \/ o # ptr[p]
  /\ loose' = loose \ {o}
  /\ ptr' = [ptr EXCEPT ![p] = o]
  /\ IF ptr[p] = 0 THEN UNCHANGED <<deletes, dying>> ELSE PointerDeletes(ptr[p], p, <<>>, FALSE)

Reset(p, o) ==
  /\ Usable(p)
  /\ Uses({p} \cap ScopedPtr)
  /\ IF p \in ScopedPtr THEN ScopedReset(p, o) ELSE UniqueReset(p, o)
  /\ UNCHANGED made

\* Faulty: the pointer keeps what it gives away.
ReleaseKeeps(p) ==
  /\ Usable(p)
  /\ Uses({p} \cap ScopedPtr)
  /\ loose' = (loose \cup {ptr[p]}) \ {0}
  /\ UNCHANGED <<ptr, made, deletes, dying>>

Release(p) ==
  /\ Usable(p)
  /\ Uses({p} \cap ScopedPtr)
  /\ loose' = (loose \cup {ptr[p]}) \ {0}
  /\ ptr' = [ptr EXCEPT ![p] = 0]
  /\ UNCHANGED <<made, deletes, dying>>

\* swap, of two pointers of a type.
Swap(p, q) ==
  /\ Usable(p) /\ Usable(q)
  /\ Uses({p, q} \cap ScopedPtr)
  /\ ptr' = [ptr EXCEPT ![p] = ptr[q], ![q] = ptr[p]]
  /\ UNCHANGED <<made, loose, deletes, dying>>

\* The pointer's destructor; it is not used again.
Destroy(p) ==
  /\ Usable(p) /\ \A i \in DOMAIN dying: dying[i].pointer # p
  /\ IF ptr[p] = 0 THEN ptr' = [ptr EXCEPT ![p] = Dead] /\ UNCHANGED <<deletes, dying>>
                   ELSE PointerDeletes(ptr[p], p, <<>>, TRUE) /\ UNCHANGED ptr
  /\ UNCHANGED <<made, loose, reentered>>

\* The innermost deletion returns to the pointer that began it.
Deleted ==
  /\ dying # <<>>
  /\ LET d == dying[Len(dying)]
     IN ptr' = CASE d.destroys -> [ptr EXCEPT ![d.pointer] = Dead]
                 [] d.assigns # <<>> -> [ptr EXCEPT ![d.pointer] = d.assigns[1]]
                 [] OTHER -> ptr
  /\ dying' = SubSeq(dying, 1, Len(dying) - 1)
  /\ UNCHANGED <<made, loose, deletes, reentered>>

PointerInit == /\ ptr = [p \in Pointer |-> 0] /\ made = 0 /\ loose = {}
               /\ deletes = [o \in 1..MaxObjects |-> 0] /\ dying = <<>> /\ reentered = FALSE

PointerNext == /\ ~reentered
               /\ \/ NewObject \/ Deleted
                  \/ \E p \in Pointer: Release(p) \/ Destroy(p) \/ \E o \in loose \cup {0, ptr[p]}: Reset(p, o)
                  \/ \E p, q \in ScopedPtr: Swap(p, q)
                  \/ \E p, q \in UniquePtr: Swap(p, q)

PointerSpec == PointerInit /\ [][PointerNext]_pointer_vars
-----------------------------------------------------------------------------
Owners(o) == {<<"pointer", p>>: p \in {q \in Pointer: ptr[q] = o}}
             \cup {<<"reset", i>>: i \in {j \in DOMAIN dying: dying[j].assigns = <<o>>}}
             \cup {<<"program", 0>>: l \in loose \cap {o}}

\* Every object has one owner until it is deleted, and is deleted once, whatever its
\* destructor does with the pointers: unique_ptr::reset has let go of the object
\* before it deletes it.  scoped_ptr::reset has not: this is claimed for programs
\* that do not use a scoped_ptr from the destructor of the object it resets.
PointersOwn ==
  ~reentered => \A o \in 1..made:
    \/ deletes[o] = 0 /\ Cardinality(Owners(o)) = 1
    \/ deletes[o] = 1 /\ \A w \in Owners(o): \E i \in DOMAIN dying: dying[i].object = o /\ w = <<"pointer", dying[i].pointer>>

-----------------------------------------------------------------------------
(***************************************************************************)
(* The helpers for STL containers (base/stl_util.h): two maps and a vector *)
(* of pointers to objects they own, and a vector of values.  A caller      *)
(* deletes the object that a map did not take and the one it was given     *)
(* back.                                                                   *)
(***************************************************************************)
CONSTANTS
  Key, Obj,
  MaxSize,            \* bound on the vectors
  BigLimit            \* the limit of ClearIfBig

VARIABLES
  maps,               \* two maps from keys to objects
  pointers,           \* the vector of pointers
  live,               \* the objects that are allocated
  twice,              \* history: an object was deleted that was not
  values, capacity    \* a vector of values

stl_vars == <<maps, pointers, live, twice, values, capacity>>

MapName == {"a", "b"}

\* delete of every pointer of a sequence, one behind the other.
DeleteContainerPointers(ps, objs) ==
  FoldLeft(LAMBDA s, p: [live |-> s.live \ {p}, twice |-> s.twice \/ p \notin s.live],
           [live |-> objs, twice |-> FALSE], ps)

StlDeletes(ps) ==
  \E s \in {DeleteContainerPointers(ps, live)}: live' = s.live /\ twice' = (twice \/ s.twice)

DeleteElements ==
  /\ StlDeletes(pointers)
  /\ pointers' = <<>>
  /\ UNCHANGED <<maps, values, capacity>>

\* Faulty: the map keeps the pointers that were deleted.
DeleteValuesKeeps(c) ==
  /\ StlDeletes(SetToSeq(Range(maps[c])))
  /\ UNCHANGED <<maps, pointers, values, capacity>>
DeleteValues(c) ==
  /\ StlDeletes(SetToSeq(Range(maps[c])))
  /\ maps' = [maps EXCEPT ![c] = <<>>]
  /\ UNCHANGED <<pointers, values, capacity>>

HasKey(map, k) == k \in DOMAIN map

\* insert of the STL does not replace.
Insert(map, k, v) == IF HasKey(map, k) THEN map ELSE map @@ (k :> v)

InsertIfNotPresent(map, k, v) == [new |-> ~HasKey(map, k), map |-> Insert(map, k, v)]

InsertOrReplace(map, k, v) ==
  IF HasKey(map, k) THEN [new |-> FALSE, map |-> [map EXCEPT ![k] = v], old |-> {map[k]}]
  ELSE [new |-> TRUE, map |-> Insert(map, k, v), old |-> {}]

FindOrDefault(map, k, default) == IF HasKey(map, k) THEN map[k] ELSE default
FindAndCopyTo(map, k, value) == IF HasKey(map, k) THEN <<TRUE, map[k]>> ELSE <<FALSE, value>>
ContainsKeyValuePair(map, k, v) == HasKey(map, k) /\ map[k] = v

HashSetEquality(s, t) == Cardinality(s) = Cardinality(t) /\ \A x \in s: x \in t
HashMapEquality(m, n) ==
  /\ Cardinality(DOMAIN m) = Cardinality(DOMAIN n)
  /\ \A k \in DOMAIN m: HasKey(n, k) /\ m[k] = n[k]

StlInit ==
  /\ maps = [c \in MapName |-> <<>>]
  /\ pointers = <<>>
  /\ live = {}
  /\ twice = FALSE
  /\ values = <<>> /\ capacity = 0

TryInsert(c, k, v) ==
  \E r \in {InsertIfNotPresent(maps[c], k, v)}:
    /\ maps' = [maps EXCEPT ![c] = r.map]
    /\ live' = IF r.new THEN live \cup {v} ELSE live
    /\ UNCHANGED <<pointers, twice, values, capacity>>

Replace(c, k, v) ==
  \E r \in {InsertOrReplace(maps[c], k, v)}:
    /\ maps' = [maps EXCEPT ![c] = r.map]
    /\ live' = (live \ r.old) \cup {v}
    /\ UNCHANGED <<pointers, twice, values, capacity>>

PushPointer(v) ==
  /\ Len(pointers) < MaxSize
  /\ pointers' = Append(pointers, v)
  /\ live' = live \cup {v}
  /\ UNCHANGED <<maps, twice, values, capacity>>

\* insert at the end grows the capacity at need.
AppendToVector(n) ==
  /\ Len(values) + n <= MaxSize
  /\ values' = values \o [i \in 1 .. n |-> "v"]
  /\ capacity' = IF Len(values) + n > capacity THEN Len(values) + n ELSE capacity
  /\ UNCHANGED <<maps, pointers, live, twice>>

\* What is smaller than asked for grows, and what is longer is cut.
ReserveIfNeeded(n) ==
  /\ IF capacity < n THEN capacity' = n /\ UNCHANGED values
     ELSE /\ values' = IF Len(values) > n THEN SubSeq(values, 1, n) ELSE values
          /\ UNCHANGED capacity
  /\ UNCHANGED <<maps, pointers, live, twice>>

\* clear keeps the memory, swapping with an empty vector does not.
ClearIfBig ==
  /\ values' = <<>>
  /\ capacity' = IF capacity >= BigLimit THEN 0 ELSE capacity
  /\ UNCHANGED <<maps, pointers, live, twice>>

StlNext ==
  \/ DeleteElements
  \/ \E c \in MapName: DeleteValues(c)
  \/ \E v \in Obj \ live:
       \/ PushPointer(v)
       \/ \E c \in MapName, k \in Key: TryInsert(c, k, v) \/ Replace(c, k, v)
  \/ \E n \in 1 .. MaxSize: AppendToVector(n) \/ ReserveIfNeeded(n)
  \/ ClearIfBig

StlSpec == StlInit /\ [][StlNext]_stl_vars
-----------------------------------------------------------------------------
\* An object belongs to one place of one container and lives as long as it is there:
\* none is leaked, deleted twice or left in a container when it is deleted.  Two maps are
\* equal when they hold the same, whatever was inserted first, and the lookups agree.
\* A vector never outgrows its memory.
ContainersOwn ==
  /\ ~twice
  /\ live = UNION {Range(maps[c]): c \in MapName} \cup ToSet(pointers)
  /\ Cardinality(live) = Len(pointers) + Cardinality(DOMAIN maps["a"]) + Cardinality(DOMAIN maps["b"])
  /\ HashMapEquality(maps["a"], maps["b"]) = (maps["a"] = maps["b"])
  /\ HashSetEquality(DOMAIN maps["a"], DOMAIN maps["b"]) = (DOMAIN maps["a"] = DOMAIN maps["b"])
  /\ \A c \in MapName, k \in Key, v \in Obj:
       /\ ContainsKeyValuePair(maps[c], k, v) = (FindAndCopyTo(maps[c], k, "none") = <<TRUE, v>>)
       /\ FindOrDefault(maps[c], k, v) = v => ContainsKeyValuePair(maps[c], k, v) \/ ~HasKey(maps[c], k)
  /\ Len(values) <= capacity
=============================================================================
