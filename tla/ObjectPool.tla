----------------------------- MODULE ObjectPool -----------------------------
(***************************************************************************)
(* base/object_pool.h: ObjectPool, a stack of spare objects shared by      *)
(* threads.  m_Lock protects the stack; what the code does outside the     *)
(* lock is a step of its own: Acquire's NewObject, Release's Delete, and   *)
(* Reserve's look at m_Quota.                                              *)
(***************************************************************************)
EXTENDS Naturals, Sequences, Functions, FiniteSets

CONSTANTS Thread, Object, AutoCreate, MaxQuota

\* The quota is a size_t.
ASSUME QuotaAssumption == MaxQuota \in Nat

VARIABLES
  m_PooledObjects,  \* a sequence of objects, the last one is on top
  m_Quota,
  held,             \* objects the threads have acquired
  pc,               \* "idle", "new", "delete" or "reserve"
  obj,              \* the object a Release deletes, or the size of a Reserve
  deleted,          \* objects given back to the allocator
  overshot          \* history: a Reserve has filled the pool past the quota

objects_vars == <<m_PooledObjects, m_Quota, held, pc, obj, deleted, overshot>>

Pooled == Range(m_PooledObjects)
InDelete == {obj[t]: t \in {t \in Thread: pc[t] = "delete"}}
Live == Pooled \cup InDelete \cup UNION {held[t]: t \in Thread}
Fresh == Object \ (Live \cup deleted)

\* The constructor with initial_size 0.
ObjectsInit ==
  /\ m_PooledObjects = <<>>
  /\ m_Quota \in 0..MaxQuota
  /\ held = [t \in Thread |-> {}]
  /\ pc = [t \in Thread |-> "idle"]
  /\ obj = [t \in Thread |-> 0]
  /\ deleted = {}
  /\ overshot = FALSE

\* Acquire forgets to take the object off the stack.
AcquireWithoutPop(t) ==
  /\ pc[t] = "idle"
  /\ IF m_PooledObjects = <<>>
     THEN /\ AutoCreate
          /\ pc' = [pc EXCEPT ![t] = "new"]
          /\ UNCHANGED held
     ELSE /\ held' = [held EXCEPT ![t] = @ \cup {m_PooledObjects[Len(m_PooledObjects)]}]
          /\ UNCHANGED pc
  /\ UNCHANGED <<m_PooledObjects, m_Quota, obj, deleted, overshot>>

\* Acquire: the part under the lock.  Without AutoCreate an empty pool gives
\* NULL and nothing changes.
Acquire(t) ==
  /\ pc[t] = "idle"
  /\ IF m_PooledObjects = <<>>
     THEN /\ AutoCreate
          /\ pc' = [pc EXCEPT ![t] = "new"]
          /\ UNCHANGED <<m_PooledObjects, held>>
     ELSE /\ held' = [held EXCEPT ![t] = @ \cup {m_PooledObjects[Len(m_PooledObjects)]}]
          /\ m_PooledObjects' = SubSeq(m_PooledObjects, 1, Len(m_PooledObjects) - 1)
          /\ UNCHANGED pc
  /\ UNCHANGED <<m_Quota, obj, deleted, overshot>>

\* Acquire: NewObject after the lock is released.
AcquireNew(t) ==
  /\ pc[t] = "new" /\ Fresh # {}
  /\ held' = [held EXCEPT ![t] = @ \cup {CHOOSE o \in Fresh: TRUE}]
  /\ pc' = [pc EXCEPT ![t] = "idle"]
  /\ UNCHANGED <<m_PooledObjects, m_Quota, obj, deleted, overshot>>

\* Release: Clear of the object, then the part under the lock.
Release(t, o) ==
  /\ pc[t] = "idle" /\ o \in held[t]
  /\ held' = [held EXCEPT ![t] = @ \ {o}]
  /\ IF Len(m_PooledObjects) < m_Quota
     THEN m_PooledObjects' = Append(m_PooledObjects, o) /\ UNCHANGED <<pc, obj>>
     ELSE /\ pc' = [pc EXCEPT ![t] = "delete"]
          /\ obj' = [obj EXCEPT ![t] = o]
          /\ UNCHANGED m_PooledObjects
  /\ UNCHANGED <<m_Quota, deleted, overshot>>

\* Release: m_Allocator.Delete after the lock is released.
ReleaseDelete(t) ==
  /\ pc[t] = "delete"
  /\ deleted' = deleted \cup {obj[t]}
  /\ pc' = [pc EXCEPT ![t] = "idle"]
  /\ obj' = [obj EXCEPT ![t] = 0]
  /\ UNCHANGED <<m_PooledObjects, m_Quota, held, overshot>>

\* UnlockedShrink: the objects on top go first.
UnlockedShrink(size) ==
  IF Len(m_PooledObjects) > size
  THEN /\ m_PooledObjects' = SubSeq(m_PooledObjects, 1, size)
       /\ deleted' = deleted \cup {m_PooledObjects[i]: i \in size + 1..Len(m_PooledObjects)}
  ELSE UNCHANGED <<m_PooledObjects, deleted>>

SetQuota(t, size) ==
  /\ pc[t] = "idle"
  /\ m_Quota' = size
  /\ UnlockedShrink(size)
  /\ UNCHANGED <<held, pc, obj, overshot>>

Shrink(t, size) ==
  /\ pc[t] = "idle"
  /\ UnlockedShrink(size)
  /\ UNCHANGED <<m_Quota, held, pc, obj, overshot>>

\* Reserve clips the size to the quota before it takes the lock.
Reserve(t, size) ==
  /\ pc[t] = "idle"
  /\ pc' = [pc EXCEPT ![t] = "reserve"]
  /\ obj' = [obj EXCEPT ![t] = IF size > m_Quota THEN m_Quota ELSE size]
  /\ UNCHANGED <<m_PooledObjects, m_Quota, held, deleted, overshot>>

\* Reserve: the loop under the lock.
ReserveFill(t) ==
  /\ pc[t] = "reserve"
  /\ LET missing == obj[t] - Len(m_PooledObjects)
     IN IF missing <= 0
        THEN UNCHANGED m_PooledObjects
        ELSE \E new \in [1..missing -> Fresh]:
               /\ IsInjective(new)
               /\ m_PooledObjects' = m_PooledObjects \o new
  /\ overshot' = (overshot \/ Len(m_PooledObjects') > m_Quota)
  /\ pc' = [pc EXCEPT ![t] = "idle"]
  /\ obj' = [obj EXCEPT ![t] = 0]
  /\ UNCHANGED <<m_Quota, held, deleted>>

ObjectsNext ==
  \E t \in Thread:
    \/ Acquire(t) \/ AcquireNew(t) \/ ReleaseDelete(t) \/ ReserveFill(t)
    \/ \E o \in held[t]: Release(t, o)
    \/ \E size \in 0..MaxQuota: SetQuota(t, size) \/ Shrink(t, size) \/ Reserve(t, size)

ObjectsSpec == ObjectsInit /\ [][ObjectsNext]_objects_vars
-----------------------------------------------------------------------------
\* An object has one owner: a thread that acquired it, the pool, or a Release
\* that is about to delete it; none of them has an object that was deleted.
OneOwner ==
  /\ IsInjective(m_PooledObjects)
  /\ \A t \in Thread: held[t] \cap (Pooled \cup InDelete) = {}
  /\ \A t, u \in Thread: t # u => held[t] \cap held[u] = {}
  /\ \A t, u \in Thread: t # u /\ pc[t] = "delete" /\ pc[u] = "delete" => obj[t] # obj[u]
  /\ InDelete \cap Pooled = {}
  /\ Live \cap deleted = {}

\* Acquire, Release, Shrink and SetQuota keep the pool within m_Quota, whatever
\* the threads do; only a Reserve that read the quota before a SetQuota lowered
\* it can fill the pool past it.
PoolWithinQuota == Len(m_PooledObjects) > m_Quota => overshot

\* ObjectPool as a whole, under threads that call it at the same time: objects
\* have one owner, and the pool keeps to its quota.
ObjectsAccounted == OneOwner /\ PoolWithinQuota
=============================================================================
