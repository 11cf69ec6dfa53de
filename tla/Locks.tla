------------------------------- MODULE Locks --------------------------------
(***************************************************************************)
(* Locks in scoped lockers, and semaphores.                                *)
(***************************************************************************)
EXTENDS Integers, Sequences, FiniteSets

Last(s)        == s[Len(s)]
Front(s)       == SubSeq(s, 1, Len(s) - 1)
RemoveAt(s, i) == SubSeq(s, 1, i - 1) \o SubSeq(s, i + 1, Len(s))

(***************************************************************************)
(* The locks of system/threading (Mutex, RecursiveMutex, SpinLock, RwLock) *)
(* as threads use them: through the scoped lockers, which lock when they   *)
(* are constructed and unlock when their block is left.  The locks of      *)
(* pthreads are external, one step each; SpinLock also keeps its owner,    *)
(* behind locking and before unlocking.  A thread does not wait for itself.*)
(***************************************************************************)
CONSTANTS
  LockUser,       \* the threads: numbers, not 0
  MaxLockers      \* bound on the lockers of a thread, one within the other

VARIABLES
  holds,          \* of each lock, who holds it: a sequence of <<thread, mode>>
  m_owner,        \* of the SpinLock
  lockers,        \* of each thread, the innermost last
  lock_pc,        \* of each thread: "run", or within SpinLock "locked" or "unlocking"
  failed          \* a lock was given back by one that did not hold it, or an error was fatal

lock_vars == <<holds, m_owner, lockers, lock_pc, failed>>

Modes == [l \in {"mutex", "recursive", "spin", "rw"} |->
            IF l = "rw" THEN {"reader", "writer"} ELSE {"writer"}]
Lock == DOMAIN Modes
Holds(t, l) == \E i \in DOMAIN holds[l]: holds[l][i][1] = t

\* pthreads: whether t gets the lock now.
Grants(l, t, mode) ==
  \A i \in DOMAIN holds[l]: \/ l = "recursive" /\ holds[l][i][1] = t
                            \/ l = "rw" /\ mode = "reader" /\ holds[l][i][2] = "reader"

\* CheckPthreadTryLockError: TRUE and FALSE are the answer, other errors are fatal.
CheckPthreadTryLockError(error) == error = "none"
Fatal(error) == error \notin {"none", "EBUSY", "EAGAIN"}
TryLock(l, t, mode) == IF Grants(l, t, mode) THEN "none" ELSE "EBUSY"

Takes(t, l, mode) == /\ holds' = [holds EXCEPT ![l] = Append(@, <<t, mode>>)]
                     /\ lock_pc' = [lock_pc EXCEPT ![t] = IF l = "spin" THEN "locked" ELSE "run"]

\* The constructors of ScopedLocker, ScopedReaderLocker and ScopedWriterLocker.
ScopedLocker(t, l, mode) ==
  /\ lock_pc[t] = "run" /\ Len(lockers[t]) < MaxLockers
  /\ Grants(l, t, mode)
  /\ Takes(t, l, mode)
  /\ lockers' = [lockers EXCEPT ![t] = Append(@, [lock |-> l, mode |-> mode, m_locked |-> TRUE])]
  /\ UNCHANGED <<m_owner, failed>>

\* The constructors of ScopedTryLocker, ScopedTryReaderLocker and ScopedTryWriterLocker.
ScopedTryLocker(t, l, mode) ==
  /\ lock_pc[t] = "run" /\ Len(lockers[t]) < MaxLockers
  /\ \E error \in {TryLock(l, t, mode)}:
       /\ IF CheckPthreadTryLockError(error) THEN Takes(t, l, mode) ELSE UNCHANGED <<holds, lock_pc>>
       /\ lockers' = [lockers EXCEPT ![t] = Append(@, [lock |-> l, mode |-> mode, m_locked |-> CheckPthreadTryLockError(error)])]
       /\ failed' = (failed \/ Fatal(error))
  /\ UNCHANGED m_owner

\* The rest of SpinLock::Lock and TryLock.
SpinLockLocked(t) ==
  /\ lock_pc[t] = "locked"
  /\ m_owner' = t
  /\ lock_pc' = [lock_pc EXCEPT ![t] = "run"]
  /\ UNCHANGED <<holds, lockers, failed>>

\* pthread's unlock, by one of the holders.
Unlock(t, l) ==
  LET mine == {i \in DOMAIN holds[l]: holds[l][i][1] = t}
  IN IF mine = {} THEN failed' = TRUE /\ UNCHANGED holds
     ELSE /\ \E i \in mine: holds' = [holds EXCEPT ![l] = RemoveAt(@, i)]
          /\ UNCHANGED failed

\* Faulty: the destructor unlocks what it did not lock.
UnscopeAlways(t) ==
  /\ lock_pc[t] = "run" /\ lockers[t] # <<>>
  /\ Unlock(t, Last(lockers[t]).lock)
  /\ lockers' = [lockers EXCEPT ![t] = Front(@)]
  /\ UNCHANGED <<m_owner, lock_pc>>

\* A block is left: the destructor of the innermost locker.
Unscope(t) ==
  /\ lock_pc[t] = "run" /\ lockers[t] # <<>>
  /\ \E locker \in {Last(lockers[t])}:
       CASE ~locker.m_locked -> UNCHANGED <<holds, m_owner, lock_pc, failed>>
         [] locker.m_locked /\ locker.lock # "spin" -> Unlock(t, locker.lock) /\ UNCHANGED <<m_owner, lock_pc>>
         [] locker.m_locked /\ locker.lock = "spin" ->    \* SpinLock::Unlock
              m_owner' = 0 /\ lock_pc' = [lock_pc EXCEPT ![t] = "unlocking"] /\ UNCHANGED <<holds, failed>>
  /\ lockers' = [lockers EXCEPT ![t] = Front(@)]

\* Faulty: the owner is cleared when the lock is given back already.
SpinLockUnlocksLate(t) ==
  /\ lock_pc[t] = "unlocking"
  /\ \/ Holds(t, "spin") /\ Unlock(t, "spin") /\ UNCHANGED <<m_owner, lock_pc>>
     \/ /\ ~Holds(t, "spin") /\ m_owner' = 0 /\ lock_pc' = [lock_pc EXCEPT ![t] = "run"]
        /\ UNCHANGED <<holds, failed>>
  /\ UNCHANGED lockers

\* The rest of SpinLock::Unlock.
SpinLockUnlocks(t) ==
  /\ lock_pc[t] = "unlocking"
  /\ Unlock(t, "spin")
  /\ lock_pc' = [lock_pc EXCEPT ![t] = "run"]
  /\ UNCHANGED <<m_owner, lockers>>

LockInit == /\ holds = [l \in Lock |-> <<>>] /\ m_owner = 0 /\ lockers = [t \in LockUser |-> <<>>]
            /\ lock_pc = [t \in LockUser |-> "run"] /\ failed = FALSE

LockNext == \E t \in LockUser:
              \/ \E l \in Lock: \E mode \in Modes[l]: ScopedLocker(t, l, mode) \/ ScopedTryLocker(t, l, mode)
              \/ SpinLockLocked(t) \/ Unscope(t) \/ SpinLockUnlocks(t)

LockSpec == LockInit /\ [][LockNext]_lock_vars
-----------------------------------------------------------------------------
Mine(t, l, mode) == Cardinality({i \in DOMAIN lockers[t]: lockers[t][i].m_locked /\ lockers[t][i].lock = l /\ lockers[t][i].mode = mode})

\* What is locked is what lockers that say IsLocked stand for: a TryLocker that was
\* refused gives nothing back, a block that was left holds nothing, no thread shares
\* a lock with a writer.  m_owner of the SpinLock is the thread that holds it, for as
\* long as that is in its block, and nobody otherwise.
LockersHold ==
  /\ ~failed
  /\ \A l \in Lock, t \in LockUser: \A mode \in Modes[l]:
       Cardinality({i \in DOMAIN holds[l]: holds[l][i] = <<t, mode>>})
         = Mine(t, l, mode) + (IF l = "spin" /\ lock_pc[t] = "unlocking" THEN 1 ELSE 0)
  /\ \A l \in Lock, t, u \in LockUser: t # u /\ Mine(t, l, "writer") > 0 => Mine(u, l, "writer") = 0 /\ Mine(u, l, "reader") = 0
  /\ \A t \in LockUser: Mine(t, "spin", "writer") > 0 /\ lock_pc[t] = "run" => m_owner = t
  /\ holds["spin"] = <<>> => m_owner = 0

-----------------------------------------------------------------------------
(***************************************************************************)
(* Semaphore and NamedSemaphore (system/threading/semaphore).  A handle is *)
(* an object of a process or thread of its own; named semaphores, which    *)
(* sem_open finds or makes, are shared by the handles.  A wait may be      *)
(* interrupted by a signal, and a timed one may end as a token arrives.    *)
(***************************************************************************)
CONSTANTS
  Handle, SemName,
  Tokens,         \* the numbers of tokens that a semaphore is made with
  MaxSemaphores,  \* bound on the semaphores that are made
  MaxValue        \* bound on the tokens, far below SEM_VALUE_MAX

ASSUME TokensAssumption == Tokens \subseteq Nat

VARIABLES
  m_sem,          \* of each handle: 0 or the semaphore
  sems,           \* the semaphores of the system, with what was done with them
  names,          \* the semaphores that have a name; 0 where there is none
  waiting,        \* of each handle: "no", "acquire" or "timed"
  opened,         \* history: of each open handle, the name and the number of its unlinks
  unlinks,        \* history: of each name
  sem_aborted

semaphore_vars == <<m_sem, sems, names, waiting, opened, unlinks, sem_aborted>>

SemOpens(h, n, s) ==
  /\ m_sem' = [m_sem EXCEPT ![h] = s]
  /\ names' = [names EXCEPT ![n] = s]
  /\ opened' = [opened EXCEPT ![h] = <<n, unlinks[n]>>]

\* sem_open makes one, with the number of tokens asked for.
SemMakes(h, n, value, by) ==
  /\ Len(sems) < MaxSemaphores
  /\ sems' = Append(sems, [value |-> value, made |-> value, acquired |-> 0, released |-> 0, by |-> by])
  /\ SemOpens(h, n, Len(sems) + 1)

Refused == UNCHANGED <<m_sem, sems, names, opened>>

\* CheckNull: an object that is open must not be opened again.
Opening(h) == waiting[h] = "no" /\ m_sem[h] = 0 /\ UNCHANGED <<waiting, unlinks, sem_aborted>>

Open(h, n) ==
  /\ Opening(h)
  /\ IF names[n] = 0 THEN Refused ELSE SemOpens(h, n, names[n]) /\ UNCHANGED sems

\* Faulty: what is there already is taken for new.
CreateShares(h, n, value) ==
  /\ Opening(h)
  /\ IF names[n] # 0 THEN SemOpens(h, n, names[n]) /\ sems' = [sems EXCEPT ![names[n]].by = @ \cup {h}]
                     ELSE SemMakes(h, n, value, {h})

\* O_CREAT | O_EXCL
Create(h, n, value) ==
  /\ Opening(h)
  /\ IF names[n] # 0 THEN Refused ELSE SemMakes(h, n, value, {h})

\* O_CREAT
OpenOrCreate(h, n, value) ==
  /\ Opening(h)
  /\ IF names[n] # 0 THEN SemOpens(h, n, names[n]) /\ UNCHANGED sems ELSE SemMakes(h, n, value, {})

Close(h) ==
  /\ waiting[h] = "no" /\ m_sem[h] # 0
  /\ m_sem' = [m_sem EXCEPT ![h] = 0]
  /\ UNCHANGED <<sems, names, waiting, opened, unlinks, sem_aborted>>

\* The semaphore lives on in the handles that have it open.
SemaphoreUnlink(n) ==
  /\ names[n] # 0
  /\ names' = [names EXCEPT ![n] = 0]
  /\ unlinks' = [unlinks EXCEPT ![n] = @ + 1]
  /\ UNCHANGED <<m_sem, sems, waiting, opened, sem_aborted>>

\* What the callers are told: an error other than the expected one is fatal.
Report(s, answer) == IF answer THEN sems' = [sems EXCEPT ![s].acquired = @ + 1, ![s].value = IF @ > 0 THEN @ - 1 ELSE @]
                               ELSE UNCHANGED sems

TryAcquire(h) ==
  /\ waiting[h] = "no" /\ m_sem[h] # 0
  /\ Report(m_sem[h], sems[m_sem[h]].value > 0)
  /\ UNCHANGED <<m_sem, names, waiting, opened, unlinks, sem_aborted>>

\* Acquire, TimedAcquire: sem_wait, sem_timedwait until the time that is fixed now.
SemaphoreAcquire(h, how) ==
  /\ waiting[h] = "no" /\ m_sem[h] # 0
  /\ waiting' = [waiting EXCEPT ![h] = how]
  /\ UNCHANGED <<m_sem, sems, names, opened, unlinks, sem_aborted>>

Acquired(h) ==
  /\ waiting[h] # "no" /\ sems[m_sem[h]].value > 0
  /\ Report(m_sem[h], TRUE)
  /\ waiting' = [waiting EXCEPT ![h] = "no"]
  /\ UNCHANGED <<m_sem, names, opened, unlinks, sem_aborted>>

\* Faulty: a signal ends the wait with an error.
InterruptedFails(h) ==
  /\ waiting[h] # "no"
  /\ sem_aborted' = TRUE
  /\ UNCHANGED <<m_sem, sems, names, waiting, opened, unlinks>>

\* TOFT_EINTR_IGNORED: a signal makes it wait again.
Interrupted(h) ==
  /\ waiting[h] # "no"
  /\ UNCHANGED semaphore_vars

\* Faulty: a timeout is taken for a success.
TimesOutTrue(h) ==
  /\ waiting[h] = "timed"
  /\ Report(m_sem[h], TRUE)
  /\ waiting' = [waiting EXCEPT ![h] = "no"]
  /\ UNCHANGED <<m_sem, names, opened, unlinks, sem_aborted>>

\* CheckPosixTimedError: ETIMEDOUT is FALSE.
TimesOut(h) ==
  /\ waiting[h] = "timed"
  /\ Report(m_sem[h], FALSE)
  /\ waiting' = [waiting EXCEPT ![h] = "no"]
  /\ UNCHANGED <<m_sem, names, opened, unlinks, sem_aborted>>

SemaphoreRelease(h) ==
  /\ waiting[h] = "no" /\ m_sem[h] # 0
  /\ sems[m_sem[h]].made + sems[m_sem[h]].released < MaxValue
  /\ sems' = [sems EXCEPT ![m_sem[h]].value = @ + 1, ![m_sem[h]].released = @ + 1]
  /\ UNCHANGED <<m_sem, names, waiting, opened, unlinks, sem_aborted>>

SemaphoreInit == /\ m_sem = [h \in Handle |-> 0] /\ sems = <<>> /\ names = [n \in SemName |-> 0]
                 /\ waiting = [h \in Handle |-> "no"] /\ opened = [h \in Handle |-> <<>>]
                 /\ unlinks = [n \in SemName |-> 0] /\ sem_aborted = FALSE

SemaphoreNext ==
  \/ \E h \in Handle:
       \/ \E n \in SemName: Open(h, n) \/ \E value \in Tokens: Create(h, n, value) \/ OpenOrCreate(h, n, value)
       \/ Close(h) \/ TryAcquire(h) \/ SemaphoreRelease(h)
       \/ \E how \in {"acquire", "timed"}: SemaphoreAcquire(h, how)
       \/ Acquired(h) \/ Interrupted(h) \/ TimesOut(h)
  \/ \E n \in SemName: SemaphoreUnlink(n)

SemaphoreSpec == SemaphoreInit /\ [][SemaphoreNext]_semaphore_vars
-----------------------------------------------------------------------------
\* Tokens are neither lost nor made: an acquisition that reports success has taken
\* one, one that reports a timeout or was interrupted has not.  Handles share a
\* semaphore exactly if they opened the same name with no Unlink between, and of
\* those at most one is told that it created it.
TokensConserved ==
  /\ ~sem_aborted
  /\ \A i \in DOMAIN sems: /\ sems[i].value = sems[i].made + sems[i].released - sems[i].acquired
                           /\ sems[i].value >= 0
                           /\ Cardinality(sems[i].by) <= 1
  /\ \A g, h \in {k \in Handle: m_sem[k] # 0}: (m_sem[g] = m_sem[h]) = (opened[g] = opened[h])

\* Mutex, SpinLock, RwLock and their lockers: what a scope has locked it unlocks, and
\* nothing else.  Semaphore: no token is made or lost, whatever interrupts a wait.
LocksAreScoped == LockersHold /\ TokensConserved
=============================================================================
