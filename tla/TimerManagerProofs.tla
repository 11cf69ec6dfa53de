------------------------- MODULE TimerManagerProofs -------------------------
(***************************************************************************)
(* Proofs about TimerManager, for every set of closures, all intervals and *)
(* every bound: the types, what each operation does to the map and to the  *)
(* queue, which ids exist, and that a timer removed synchronously does not *)
(* run; that every closure has one owner, no enabled timer is lost or late *)
(* and, as long as the revision does not wrap, outdated timeouts are       *)
(* discarded.                                                              *)
(***************************************************************************)
EXTENDS TimerManager, TLAPS

\* SetNextTimeout queues a well-formed timeout.
LEMMA PushType ==
  ASSUME TypeOK, NEW id \in TimerId, NEW interval \in Nat, NEW revision \in 0 .. RevisionMod - 1,
         NEW self, SetNextTimeout(self, id, interval, revision)
  PROVE  /\ DOMAIN m_timeouts' \subseteq Timeout
         /\ m_timeouts' \in [DOMAIN m_timeouts' -> Nat \ {0}]
         /\ signaled' \in BOOLEAN
<1> DEFINE t == [time |-> now + interval, timer_id |-> id, revision |-> revision]
<1>1. t \in Timeout
  BY DEF TypeOK, Timeout
<1>2. m_timeouts' = QueuePush(m_timeouts, t)
  BY DEF SetNextTimeout, PushNextTimeout
<1>3. signaled' \in BOOLEAN
  BY Zenon DEF SetNextTimeout, Signal, TypeOK
<1> QED
  BY <1>1, <1>2, <1>3 DEF TypeOK, QueuePush

\* pop_heap and pop_back leave a bag of timeouts.
LEMMA PopType ==
  ASSUME TypeOK, NEW t \in DOMAIN m_timeouts, m_timeouts' = QueuePop(m_timeouts, t)
  PROVE  /\ DOMAIN m_timeouts' \subseteq DOMAIN m_timeouts
         /\ m_timeouts' \in [DOMAIN m_timeouts' -> Nat \ {0}]
BY DEF TypeOK, QueuePop

\* Deleting a closure keeps the deletion counts natural numbers.
LEMMA DeletedType ==
  ASSUME TypeOK, NEW c \in Closure \cup {None}
  PROVE  Deleted(c) \in [Closure -> Nat]
BY DEF TypeOK, Deleted

\* Clear leaves an empty map and an empty queue.
LEMMA ClearType ==
  ASSUME TypeOK, ClearAll
  PROVE  /\ DOMAIN m_timeouts' \subseteq Timeout
         /\ m_timeouts' \in [DOMAIN m_timeouts' -> Nat \ {0}]
         /\ m_timers' \in [TimerId -> TimerEntry \cup {None}]
         /\ deletes' \in [Closure -> Nat]
<1>1. DOMAIN m_timeouts' = {}
  BY DEF ClearAll
<1>2. m_timeouts' \in [{} -> Nat \ {0}]
  BY DEF ClearAll
<1>3. deletes' \in [Closure -> Nat]
  BY DEF ClearAll, TypeOK
<1> QED
  BY <1>1, <1>2, <1>3 DEF ClearAll

\* The constructor leaves every member with its type.
LEMMA TypeInit == Init => TypeOK
<1> SUFFICES ASSUME Init PROVE TypeOK
  OBVIOUS
<1>1. DOMAIN m_timeouts = {} /\ m_timeouts \in [{} -> Nat \ {0}]
  BY DEF Init
<1>2. DOMAIN m_timeouts \subseteq Timeout /\ m_timeouts \in [DOMAIN m_timeouts -> Nat \ {0}]
  BY <1>1, Zenon
<1>3. /\ timer_id \in 0 .. MaxTimers
      /\ m_running_timer \in 0 .. MaxTimers
      /\ ops \in 0 .. MaxOps
      /\ now \in Nat
  BY BoundAssumption DEF Init
<1>4. deletes \in [Closure -> Nat] /\ modified_at \in [TimerId -> Nat]
  BY DEF Init
<1> QED
  BY <1>2, <1>3, <1>4, Zenon DEF Init, TypeOK

\* No operation and no critical section of the timer thread breaks the types.
LEMMA TypeStep == TypeOK /\ [Next]_vars => TypeOK'
<1> SUFFICES ASSUME TypeOK, [Next]_vars PROVE TypeOK'
  OBVIOUS
<1> USE BoundAssumption
<1>1. ASSUME NEW self, NEW interval \in Interval, NEW is_period \in BOOLEAN, NEW c \in Closure,
             AddTimer(self, interval, is_period, c)
      PROVE  TypeOK'
  <2>1. interval \in Nat
    BY IntervalAssumption
  <2>2. timer_id + 1 \in TimerId /\ 0 \in 0 .. RevisionMod - 1
    BY <1>1 DEF AddTimer
  <2>3. /\ DOMAIN m_timeouts' \subseteq Timeout
        /\ m_timeouts' \in [DOMAIN m_timeouts' -> Nat \ {0}]
        /\ signaled' \in BOOLEAN
    BY <1>1, <2>1, <2>2, PushType DEF AddTimer
  <2>4. m_timers' \in [TimerId -> TimerEntry \cup {None}]
    BY <1>1, <2>1, <2>2 DEF AddTimer, TypeOK, TimerEntry
  <2>5. ops' \in 0 .. MaxOps
    BY <1>1 DEF AddTimer, Call, TypeOK
  <2>6. timer_id' \in 0 .. MaxTimers /\ modified_at' \in [TimerId -> Nat]
    BY <1>1, <2>2 DEF AddTimer, TypeOK, TimerId
  <2> QED
    BY <1>1, <2>3, <2>4, <2>5, <2>6 DEF AddTimer, Call, TypeOK
<1>2. ASSUME NEW self, NEW id, NEW interval \in Interval, NEW c \in Closure \cup {None},
             ModifyTimer(self, id, interval, c)
      PROVE  TypeOK'
  <2> DEFINE revision == NextRevision(m_timers[id].revision)
  <2>1. interval \in Nat
    BY IntervalAssumption
  <2>2. id \in TimerId /\ m_timers[id] \in TimerEntry
    BY <1>2 DEF ModifyTimer, Exists, TypeOK
  <2>3. revision \in 0 .. RevisionMod - 1
    BY <2>2 DEF NextRevision, TimerEntry
  <2>4. /\ DOMAIN m_timeouts' \subseteq Timeout
        /\ m_timeouts' \in [DOMAIN m_timeouts' -> Nat \ {0}]
        /\ signaled' \in BOOLEAN
    <3>1. CASE m_timers[id].is_enabled
      <4>1. SetNextTimeout(self, id, interval, revision)
        BY <1>2, <3>1 DEF ModifyTimer
      <4> QED
        BY <4>1, <2>1, <2>2, <2>3, PushType
    <3>2. CASE ~m_timers[id].is_enabled
      BY <1>2, <3>2 DEF ModifyTimer, TypeOK
    <3> QED
      BY <3>1, <3>2
  <2>5. m_timers' \in [TimerId -> TimerEntry \cup {None}]
    BY <1>2, <2>1, <2>2, <2>3, Zenon DEF ModifyTimer, TypeOK, TimerEntry
  <2>6. ops' \in 0 .. MaxOps
    BY <1>2 DEF ModifyTimer, Call, TypeOK
  <2>7. given' \subseteq Closure /\ deletes' \in [Closure -> Nat]
    <3>1. Deleted(m_timers[id].closure) \in [Closure -> Nat]
      BY <2>2, DeletedType DEF TimerEntry
    <3> QED
      BY <1>2, <3>1 DEF ModifyTimer, TypeOK
  <2> QED
    BY <1>2, <2>2, <2>4, <2>5, <2>6, <2>7 DEF ModifyTimer, Call, TypeOK
<1>3. ASSUME NEW self, NEW id, DisableTimer(self, id)
      PROVE  TypeOK'
  <2>1. id \in TimerId /\ m_timers[id] \in TimerEntry
    BY <1>3 DEF DisableTimer, Exists, TypeOK
  <2>2. NextRevision(m_timers[id].revision) \in 0 .. RevisionMod - 1
    BY <2>1 DEF NextRevision, TimerEntry
  <2>3. m_timers' \in [TimerId -> TimerEntry \cup {None}]
    BY <1>3, <2>1, <2>2, Zenon DEF DisableTimer, TypeOK, TimerEntry
  <2>4. ops' \in 0 .. MaxOps /\ modified_at' \in [TimerId -> Nat]
    BY <1>3, <2>1 DEF DisableTimer, Call, TypeOK
  <2> QED
    BY <1>3, <2>3, <2>4, Zenon DEF DisableTimer, Call, TypeOK
<1>4. ASSUME NEW self, NEW id, EnableTimer(self, id)
      PROVE  TypeOK'
  <2>1. id \in TimerId /\ m_timers[id] \in TimerEntry
    BY <1>4 DEF EnableTimer, Exists, TypeOK
  <2>2. m_timers' \in [TimerId -> TimerEntry \cup {None}]
    BY <1>4, <2>1, Zenon DEF EnableTimer, TypeOK, TimerEntry
  <2>3. /\ DOMAIN m_timeouts' \subseteq Timeout
        /\ m_timeouts' \in [DOMAIN m_timeouts' -> Nat \ {0}]
        /\ signaled' \in BOOLEAN
    BY <1>4, <2>1, PushType DEF EnableTimer, TimerEntry
  <2> QED
    BY <1>4, <2>2, <2>3 DEF EnableTimer, Call, TypeOK
<1>5. ASSUME NEW id, AsyncRemoveTimerNoLock(id)
      PROVE  m_timers' \in [TimerId -> TimerEntry \cup {None}] /\ deletes' \in [Closure -> Nat]
  <2>1. CASE Exists(id)
    <3>1. m_timers[id].closure \in Closure \cup {None}
      BY <2>1 DEF Exists, TypeOK, TimerEntry
    <3> QED
      BY <1>5, <2>1, <3>1, DeletedType DEF AsyncRemoveTimerNoLock, TypeOK, Exists
  <2>2. CASE ~Exists(id)
    BY <1>5, <2>2 DEF AsyncRemoveTimerNoLock, TypeOK
  <2> QED
    BY <2>1, <2>2
<1>6. ASSUME NEW self, NEW id, AsyncRemoveTimer(self, id)
      PROVE  TypeOK'
  BY <1>5, <1>6 DEF AsyncRemoveTimer, Call, TypeOK
<1>7. ASSUME NEW id \in KnownId, RemoveTimer(id)
      PROVE  TypeOK'
  <2>1. sync_removed' \subseteq TimerId
    BY <1>7 DEF RemoveTimer, KnownId, TimerId, TypeOK
  <2> QED
    BY <1>5, <1>7, <2>1 DEF RemoveTimer, Call, TypeOK
<1>8. ASSUME NEW self, Clear(self)
      PROVE  TypeOK'
  BY <1>8, ClearType DEF Clear, Call, TypeOK
<1>9. CASE StopRequest
  <2>1. signaled' \in BOOLEAN
    BY <1>9, Zenon DEF StopRequest, Signal, TypeOK
  <2> QED
    BY <1>9, <2>1 DEF StopRequest, TypeOK, manager, history
<1>10. CASE StopJoin
  BY <1>10, ClearType DEF StopJoin, TypeOK, thread
<1>11. CASE EntryWait
  <2>1. deadline' \in Nat \cup {None}
    BY <1>11 DEF EntryWait, TypeOK, Timeout
  <2> QED
    BY <1>11, <2>1, Zenon DEF EntryWait, TypeOK, manager, history
<1>12. CASE EntryBreak
  BY <1>12 DEF EntryBreak, TypeOK, manager, history
<1>13. CASE Wake
  BY <1>13, Zenon DEF Wake, TypeOK, manager, history
<1>14. CASE DispatchDone
  BY <1>14 DEF DispatchDone, TypeOK, manager, history
<1>15. ASSUME NEW t \in DOMAIN m_timeouts, DequeueOutdated(t)
       PROVE  TypeOK'
  BY <1>15, PopType DEF DequeueOutdated, TypeOK, thread, history
<1>16. ASSUME NEW t \in DOMAIN m_timeouts, DequeueTimeoutEntry(t)
       PROVE  TypeOK'
  <2>1. t.timer_id \in TimerId /\ m_timers[t.timer_id] \in TimerEntry
    BY <1>16 DEF DequeueTimeoutEntry, Live, Exists, TypeOK
  <2>2. m_timers' \in [TimerId -> TimerEntry \cup {None}]
    BY <1>16, <2>1 DEF DequeueTimeoutEntry, TypeOK, TimerEntry
  <2>3. /\ DOMAIN m_timeouts' \subseteq Timeout
        /\ m_timeouts' \in [DOMAIN m_timeouts' -> Nat \ {0}]
    BY <1>16, PopType DEF DequeueTimeoutEntry, TypeOK
  <2>4. m_running_timer' \in 0 .. MaxTimers
    BY <1>16, <2>1 DEF DequeueTimeoutEntry, TimerId
  <2>5. entry' \in TimerEntry /\ entry' # None /\ m_running_timer' # 0
    BY <1>16, <2>1, NoneAssumption DEF DequeueTimeoutEntry, TimerId
  <2> QED
    BY <1>16, <2>5, <2>2, <2>3, <2>4 DEF DequeueTimeoutEntry, TypeOK, history
<1>17. CASE DispatchFinish
  <2> DEFINE id == m_running_timer
  <2>1. entry \in TimerEntry /\ id \in TimerId
    BY <1>17 DEF DispatchFinish, TypeOK, TimerId
  <2>2. Deleted(entry.closure) \in [Closure -> Nat]
    BY <2>1, DeletedType DEF TimerEntry
  <2>3. CASE entry.is_period /\ Exists(id)
    <3>1. m_timers[id] \in TimerEntry
      BY <2>1, <2>3 DEF Exists, TypeOK
    <3>2. /\ DOMAIN m_timeouts' \subseteq Timeout
          /\ m_timeouts' \in [DOMAIN m_timeouts' -> Nat \ {0}]
          /\ signaled' \in BOOLEAN
      <4>1. CASE m_timers[id].is_enabled
        <5>1. SetNextTimeout("timer", id, m_timers[id].interval, m_timers[id].revision)
          BY <1>17, <2>3, <4>1 DEF DispatchFinish
        <5> QED
          BY <5>1, <2>1, <3>1, PushType DEF TimerEntry
      <4>2. CASE ~m_timers[id].is_enabled
        BY <1>17, <2>3, <4>2 DEF DispatchFinish, TypeOK
      <4> QED
        BY <4>1, <4>2
    <3>3. m_timers' \in [TimerId -> TimerEntry \cup {None}] /\ deletes' \in [Closure -> Nat]
      BY <1>17, <2>1, <2>2, <2>3, <3>1 DEF DispatchFinish, TypeOK, TimerEntry
    <3> QED
      BY <1>17, <3>2, <3>3 DEF DispatchFinish, TypeOK
  <2>4. CASE ~(entry.is_period /\ Exists(id))
    BY <1>17, <2>2, <2>4 DEF DispatchFinish, TypeOK
  <2> QED
    BY <2>3, <2>4
<1>18. CASE Tick
  BY <1>18 DEF Tick, TypeOK, manager, thread, history
<1>19. CASE UNCHANGED vars
  BY <1>19 DEF vars, TypeOK, manager, thread, history
<1> QED
  BY <1>1, <1>2, <1>3, <1>4, <1>6, <1>7, <1>8, <1>9, <1>10, <1>11, <1>12, <1>13, <1>14, <1>15,
     <1>16, <1>17, <1>18, <1>19
     DEF Next, Operation, TimerThread, WaitReturns, SpuriousWake

\* The members of TimerManager keep their types whatever clients and closures
\* call and however the calls interleave with the timer thread.
THEOREM TypeCorrect == Spec => []TypeOK
BY TypeInit, TypeStep, PTL DEF Spec

-----------------------------------------------------------------------------
(* What the operations do to the queue and to the map.                     *)

\* One timeout is added to those in the queue.
Pushed(id, interval, revision) ==
  /\ DOMAIN m_timeouts \subseteq DOMAIN m_timeouts'
  /\ \E t \in DOMAIN m_timeouts' :
       t.time = now + interval /\ t.timer_id = id /\ t.revision = revision
  /\ \A t \in DOMAIN m_timeouts' :
       \/ t \in DOMAIN m_timeouts
       \/ t.time = now + interval /\ t.timer_id = id /\ t.revision = revision

\* SetNextTimeout adds one timeout to those in the queue.
LEMMA PushDomain ==
  ASSUME NEW self, NEW id, NEW interval, NEW revision, SetNextTimeout(self, id, interval, revision)
  PROVE  Pushed(id, interval, revision)
<1> DEFINE t == [time |-> now + interval, timer_id |-> id, revision |-> revision]
<1>1. t.time = now + interval /\ t.timer_id = id /\ t.revision = revision
  OBVIOUS
<1>2. m_timeouts' = QueuePush(m_timeouts, t)
  BY DEF SetNextTimeout, PushNextTimeout
<1> HIDE DEF t
<1>3. DOMAIN m_timeouts' = DOMAIN m_timeouts \cup {t}
  BY <1>2 DEF QueuePush
<1> QED
  BY <1>1, <1>3 DEF Pushed

\* Dequeuing takes no timeout but the one that is dequeued.
LEMMA PopDomain ==
  ASSUME NEW t \in DOMAIN m_timeouts, m_timeouts' = QueuePop(m_timeouts, t)
  PROVE  /\ DOMAIN m_timeouts' \subseteq DOMAIN m_timeouts
         /\ DOMAIN m_timeouts \ {t} \subseteq DOMAIN m_timeouts'
BY DEF QueuePop

\* Every timer but id stays as it is.
OthersKept(id) ==
  \A i \in TimerId \ {id} : m_timers'[i] = m_timers[i] /\ modified_at'[i] = modified_at[i]

\* AddTimer creates the entry of the next id.
LEMMA AddEffect ==
  ASSUME TypeOK, NEW self, NEW interval \in Interval, NEW is_period \in BOOLEAN, NEW c \in Closure,
         AddTimer(self, interval, is_period, c)
  PROVE  \E id \in TimerId :
           /\ id = timer_id + 1
           /\ m_timers'[id] = [closure |-> c, interval |-> interval, is_enabled |-> TRUE,
                               is_period |-> is_period, revision |-> 0]
           /\ m_timers'[id] # None
           /\ modified_at'[id] = now
           /\ OthersKept(id)
           /\ Pushed(id, interval, 0)
<1>1. PICK id \in TimerId : id = timer_id + 1
  BY DEF AddTimer
<1> DEFINE e == [closure |-> c, interval |-> interval, is_enabled |-> TRUE,
                 is_period |-> is_period, revision |-> 0]
<1>2. e \in TimerEntry
  BY IntervalAssumption, BoundAssumption DEF TimerEntry
<1>3. e # None
  BY <1>2, NoneAssumption, Zenon
<1>4. m_timers' = [m_timers EXCEPT ![id] = e] /\ modified_at' = [modified_at EXCEPT ![id] = now]
  BY <1>1 DEF AddTimer
<1> HIDE DEF e
<1>5. m_timers'[id] = e /\ \A i \in TimerId \ {id} : m_timers'[i] = m_timers[i]
  BY <1>4 DEF TypeOK
<1>6. modified_at'[id] = now /\ \A i \in TimerId \ {id} : modified_at'[i] = modified_at[i]
  BY <1>4 DEF TypeOK
<1>7. Pushed(id, interval, 0)
  BY <1>1, PushDomain DEF AddTimer
<1> QED
  BY <1>1, <1>3, <1>5, <1>6, <1>7 DEF e, OthersKept

\* ModifyTimer changes the interval, the revision and perhaps the closure of an
\* existing timer.
LEMMA ModifyEffect ==
  ASSUME TypeOK, NEW self, NEW id, NEW interval \in Interval, NEW c \in Closure \cup {None},
         ModifyTimer(self, id, interval, c)
  PROVE  /\ id \in TimerId /\ m_timers[id] \in TimerEntry /\ m_timers[id] # None
         /\ m_timers'[id] \in TimerEntry /\ m_timers'[id] # None
         /\ m_timers'[id].interval = interval
         /\ m_timers'[id].is_enabled = m_timers[id].is_enabled
         /\ m_timers'[id].is_period = m_timers[id].is_period
         /\ m_timers'[id].revision = NextRevision(m_timers[id].revision)
         /\ m_timers'[id].closure = IF c = None THEN m_timers[id].closure ELSE c
         /\ modified_at'[id] = now
         /\ OthersKept(id)
         /\ IF m_timers[id].is_enabled
              THEN Pushed(id, interval, NextRevision(m_timers[id].revision))
              ELSE UNCHANGED m_timeouts
<1> DEFINE e == [m_timers[id] EXCEPT !.interval = interval,
                                     !.revision = NextRevision(m_timers[id].revision),
                                     !.closure = IF c = None THEN @ ELSE c]
<1>1. id \in TimerId /\ m_timers[id] \in TimerEntry /\ m_timers[id] # None
  BY DEF ModifyTimer, Exists, TypeOK
<1>2. NextRevision(m_timers[id].revision) \in 0 .. RevisionMod - 1 /\ interval \in Nat
  BY <1>1, BoundAssumption, IntervalAssumption DEF NextRevision, TimerEntry
<1>3. m_timers'[id] = e /\ \A i \in TimerId \ {id} : m_timers'[i] = m_timers[i]
  BY <1>1 DEF ModifyTimer, TypeOK, TimerEntry
<1>4. modified_at'[id] = now /\ \A i \in TimerId \ {id} : modified_at'[i] = modified_at[i]
  BY <1>1 DEF ModifyTimer, TypeOK
<1>5. e \in TimerEntry
  BY <1>1, <1>2, Zenon DEF TimerEntry
<1>6. /\ e.interval = interval
      /\ e.is_enabled = m_timers[id].is_enabled
      /\ e.is_period = m_timers[id].is_period
      /\ e.revision = NextRevision(m_timers[id].revision)
      /\ e.closure = IF c = None THEN m_timers[id].closure ELSE c
  BY <1>1 DEF TimerEntry
<1> HIDE DEF e
<1>7. e # None
  BY <1>5, NoneAssumption
<1>8. CASE m_timers[id].is_enabled
  <2>1. SetNextTimeout(self, id, interval, NextRevision(m_timers[id].revision))
    BY <1>8 DEF ModifyTimer
  <2>2. Pushed(id, interval, NextRevision(m_timers[id].revision))
    BY <2>1, PushDomain
  <2> QED
    BY <1>1, <1>3, <1>4, <1>5, <1>6, <1>7, <1>8, <2>2 DEF OthersKept
<1>9. CASE ~m_timers[id].is_enabled
  <2>1. UNCHANGED m_timeouts
    BY <1>9 DEF ModifyTimer
  <2> QED
    BY <1>1, <1>3, <1>4, <1>5, <1>6, <1>7, <1>9, <2>1 DEF OthersKept
<1> QED
  BY <1>8, <1>9

\* What of it the revisions of a timer depend on.
Modifies(id, interval) ==
  /\ id \in TimerId /\ m_timers[id] \in TimerEntry /\ m_timers[id] # None
  /\ m_timers'[id].interval = interval
  /\ m_timers'[id].revision = NextRevision(m_timers[id].revision)
  /\ modified_at'[id] = now
  /\ OthersKept(id)
  /\ IF m_timers[id].is_enabled
       THEN Pushed(id, interval, NextRevision(m_timers[id].revision))
       ELSE UNCHANGED m_timeouts

\* ModifyTimer gives a timer its next revision.
LEMMA ModifyRevision ==
  ASSUME TypeOK, NEW self, NEW id, NEW interval \in Interval, NEW c \in Closure \cup {None},
         ModifyTimer(self, id, interval, c)
  PROVE  Modifies(id, interval)
BY ModifyEffect DEF Modifies

\* DisableTimer clears is_enabled and advances the revision.
LEMMA DisableEffect ==
  ASSUME TypeOK, NEW self, NEW id, DisableTimer(self, id)
  PROVE  /\ id \in TimerId /\ m_timers[id] \in TimerEntry /\ m_timers[id] # None
         /\ m_timers'[id] \in TimerEntry /\ m_timers'[id] # None
         /\ m_timers'[id].interval = m_timers[id].interval
         /\ ~m_timers'[id].is_enabled
         /\ m_timers'[id].is_period = m_timers[id].is_period
         /\ m_timers'[id].revision = NextRevision(m_timers[id].revision)
         /\ m_timers'[id].closure = m_timers[id].closure
         /\ modified_at'[id] = now
         /\ OthersKept(id)
<1> DEFINE e == [m_timers[id] EXCEPT !.is_enabled = FALSE,
                                     !.revision = NextRevision(m_timers[id].revision)]
<1>1. id \in TimerId /\ m_timers[id] \in TimerEntry /\ m_timers[id] # None
  BY DEF DisableTimer, Exists, TypeOK
<1>2. NextRevision(m_timers[id].revision) \in 0 .. RevisionMod - 1
  BY <1>1, BoundAssumption DEF NextRevision, TimerEntry
<1>3. m_timers'[id] = e /\ \A i \in TimerId \ {id} : m_timers'[i] = m_timers[i]
  BY <1>1 DEF DisableTimer, TypeOK, TimerEntry
<1>4. modified_at'[id] = now /\ \A i \in TimerId \ {id} : modified_at'[i] = modified_at[i]
  BY <1>1 DEF DisableTimer, TypeOK
<1>5. e \in TimerEntry
  BY <1>1, <1>2, Zenon DEF TimerEntry
<1>6. /\ e.interval = m_timers[id].interval
      /\ ~e.is_enabled
      /\ e.is_period = m_timers[id].is_period
      /\ e.revision = NextRevision(m_timers[id].revision)
      /\ e.closure = m_timers[id].closure
  BY <1>1 DEF TimerEntry
<1> HIDE DEF e
<1>7. e # None
  BY <1>5, NoneAssumption
<1> QED
  BY <1>1, <1>3, <1>4, <1>5, <1>6, <1>7 DEF OthersKept

\* EnableTimer sets is_enabled.
LEMMA EnableEffect ==
  ASSUME TypeOK, NEW self, NEW id, EnableTimer(self, id)
  PROVE  /\ id \in TimerId /\ m_timers[id] \in TimerEntry /\ m_timers[id] # None
         /\ m_timers'[id] \in TimerEntry /\ m_timers'[id] # None
         /\ m_timers'[id].interval = m_timers[id].interval
         /\ m_timers'[id].is_period = m_timers[id].is_period
         /\ m_timers'[id].revision = m_timers[id].revision
         /\ m_timers'[id].closure = m_timers[id].closure
         /\ OthersKept(id) /\ UNCHANGED modified_at
         /\ Pushed(id, m_timers[id].interval, m_timers[id].revision)
<1> DEFINE e == [m_timers[id] EXCEPT !.is_enabled = TRUE]
<1>1. id \in TimerId /\ m_timers[id] \in TimerEntry /\ m_timers[id] # None
  BY DEF EnableTimer, Exists, TypeOK
<1>2. m_timers'[id] = e /\ \A i \in TimerId \ {id} : m_timers'[i] = m_timers[i]
  BY <1>1 DEF EnableTimer, TypeOK, TimerEntry
<1>3. e \in TimerEntry
  BY <1>1, Zenon DEF TimerEntry
<1>4. /\ e.interval = m_timers[id].interval
      /\ e.is_period = m_timers[id].is_period
      /\ e.revision = m_timers[id].revision
      /\ e.closure = m_timers[id].closure
  BY <1>1 DEF TimerEntry
<1> HIDE DEF e
<1>5. e # None
  BY <1>3, NoneAssumption
<1>6. UNCHANGED modified_at
  BY DEF EnableTimer
<1>7. Pushed(id, m_timers[id].interval, m_timers[id].revision)
  BY PushDomain DEF EnableTimer
<1> QED
  BY <1>1, <1>2, <1>3, <1>4, <1>5, <1>6, <1>7 DEF OthersKept

\* Removing a timer leaves the others.
LEMMA RemoveEffect ==
  ASSUME TypeOK, NEW id, AsyncRemoveTimerNoLock(id)
  PROVE  /\ \A i \in TimerId \ {id} : m_timers'[i] = m_timers[i]
         /\ id \in TimerId => m_timers'[id] = None
         /\ ~Exists(id) => UNCHANGED <<m_timers, deletes>>
         /\ Exists(id) => /\ id \in TimerId /\ m_timers[id] \in TimerEntry
                          /\ deletes' = Deleted(m_timers[id].closure)
BY DEF AsyncRemoveTimerNoLock, Exists, TypeOK

\* Dispatch takes the entry's closure; a period timer keeps the rest of its entry,
\* a oneshot timer leaves the map.
LEMMA DequeueEffect ==
  ASSUME TypeOK, NEW t \in DOMAIN m_timeouts, DequeueTimeoutEntry(t), NEW id, id = t.timer_id
  PROVE  /\ id \in TimerId /\ m_timers[id] \in TimerEntry /\ m_timers[id] # None
         /\ entry' = m_timers[id]
         /\ m_timers[id].is_period =>
              /\ m_timers'[id] \in TimerEntry /\ m_timers'[id] # None
              /\ m_timers'[id].interval = m_timers[id].interval
              /\ m_timers'[id].is_enabled = m_timers[id].is_enabled
              /\ m_timers'[id].revision = m_timers[id].revision
              /\ m_timers'[id].closure = None
         /\ ~m_timers[id].is_period => m_timers'[id] = None
         /\ OthersKept(id) /\ UNCHANGED modified_at
<1> DEFINE e == [m_timers[id] EXCEPT !.closure = None]
<1>1. id \in TimerId /\ m_timers[id] \in TimerEntry /\ m_timers[id] # None
  BY DEF DequeueTimeoutEntry, Live, Exists, TypeOK
<1>2. e \in TimerEntry
  BY <1>1 DEF TimerEntry
<1>3. /\ e.interval = m_timers[id].interval
      /\ e.is_enabled = m_timers[id].is_enabled
      /\ e.revision = m_timers[id].revision
      /\ e.closure = None
  BY <1>1 DEF TimerEntry
<1>4. /\ m_timers' = [m_timers EXCEPT ![id] = IF m_timers[id].is_period THEN e ELSE None]
      /\ entry' = m_timers[id]
      /\ UNCHANGED modified_at
  BY DEF DequeueTimeoutEntry, history
<1> HIDE DEF e
<1>5. e # None
  BY <1>2, NoneAssumption
<1>6. /\ m_timers'[id] = IF m_timers[id].is_period THEN e ELSE None
      /\ \A i \in TimerId \ {id} : m_timers'[i] = m_timers[i]
  BY <1>1, <1>4 DEF TypeOK
<1> QED
  BY <1>1, <1>2, <1>3, <1>4, <1>5, <1>6 DEF OthersKept

\* A period timer that still exists gets its closure back, unless it has a new one.
LEMMA FinishEffect ==
  ASSUME TypeOK, DispatchFinish, NEW id, id = m_running_timer, entry.is_period, Exists(id)
  PROVE  /\ id \in TimerId /\ m_timers[id] \in TimerEntry /\ m_timers[id] # None
         /\ m_timers'[id] \in TimerEntry /\ m_timers'[id] # None
         /\ m_timers'[id].interval = m_timers[id].interval
         /\ m_timers'[id].is_enabled = m_timers[id].is_enabled
         /\ m_timers'[id].revision = m_timers[id].revision
         /\ IF m_timers[id].closure = None
              THEN m_timers'[id].closure = entry.closure /\ UNCHANGED deletes
              ELSE m_timers'[id] = m_timers[id] /\ deletes' = Deleted(entry.closure)
         /\ OthersKept(id) /\ UNCHANGED modified_at
         /\ IF m_timers[id].is_enabled
              THEN Pushed(id, m_timers[id].interval, m_timers[id].revision)
              ELSE UNCHANGED m_timeouts
<1> DEFINE e == [m_timers[id] EXCEPT !.closure = entry.closure]
<1>1. id \in TimerId /\ m_timers[id] \in TimerEntry /\ m_timers[id] # None
  BY DEF Exists, TypeOK
<1>2. e \in TimerEntry
  BY <1>1 DEF TimerEntry, TypeOK, DispatchFinish
<1>3. /\ e.interval = m_timers[id].interval
      /\ e.is_enabled = m_timers[id].is_enabled
      /\ e.revision = m_timers[id].revision
      /\ e.closure = entry.closure
  BY <1>1 DEF TimerEntry
<1>4. e # None
  BY <1>2, NoneAssumption
<1>5. UNCHANGED modified_at
  BY DEF DispatchFinish
<1>6. IF m_timers[id].is_enabled
        THEN Pushed(id, m_timers[id].interval, m_timers[id].revision)
        ELSE UNCHANGED m_timeouts
  <2>1. CASE m_timers[id].is_enabled
    <3>1. SetNextTimeout("timer", id, m_timers[id].interval, m_timers[id].revision)
      BY <2>1 DEF DispatchFinish
    <3> QED
      BY <2>1, <3>1, PushDomain
  <2>2. CASE ~m_timers[id].is_enabled
    BY <2>2 DEF DispatchFinish
  <2> QED
    BY <2>1, <2>2
<1>7. CASE m_timers[id].closure = None
  <2>1. m_timers' = [m_timers EXCEPT ![id] = e] /\ UNCHANGED deletes
    BY <1>1, <1>7 DEF DispatchFinish, TypeOK
  <2> HIDE DEF e
  <2>2. m_timers'[id] = e /\ \A i \in TimerId \ {id} : m_timers'[i] = m_timers[i]
    BY <1>1, <2>1 DEF TypeOK
  <2> QED
    BY <1>1, <1>2, <1>3, <1>4, <1>5, <1>6, <1>7, <2>1, <2>2 DEF OthersKept
<1>8. CASE m_timers[id].closure # None
  BY <1>1, <1>5, <1>6, <1>8 DEF DispatchFinish, OthersKept
<1> QED
  BY <1>7, <1>8

-----------------------------------------------------------------------------
(* Ids and the running timer.                                              *)

\* No state names a timer id that AddTimer has not returned yet.
IdsIssued ==
  /\ \A id \in TimerId : Exists(id) => id <= timer_id
  /\ \A t \in DOMAIN m_timeouts : t.timer_id <= timer_id
  /\ m_running_timer <= timer_id
  /\ \A id \in sync_removed : id <= timer_id

\* m_running_timer is set exactly while a closure runs; a running timer that is
\* in the map is a period timer.
RunningIsPeriod ==
  /\ pc = "running" <=> m_running_timer # 0
  /\ \A id \in TimerId : id = m_running_timer /\ Exists(id) => entry.is_period

\* The ids are issued one by one, whatever is called.
LEMMA IdsStep == TypeOK /\ IdsIssued /\ [Next]_vars => IdsIssued'
<1> SUFFICES ASSUME TypeOK, IdsIssued, [Next]_vars PROVE IdsIssued'
  OBVIOUS
<1>0. timer_id \in Nat /\ m_running_timer \in Nat /\ TimerId \subseteq Nat /\ sync_removed \subseteq Nat
  BY DEF TypeOK, TimerId
<1>a. \A t \in DOMAIN m_timeouts : t.timer_id \in Nat
  BY <1>0 DEF TypeOK, Timeout
<1>1. ASSUME NEW self, NEW interval \in Interval, NEW is_period \in BOOLEAN, NEW c \in Closure,
             AddTimer(self, interval, is_period, c)
      PROVE  IdsIssued'
  <2>1. PICK id \in TimerId : id = timer_id + 1 /\ OthersKept(id) /\ Pushed(id, interval, 0)
    BY <1>1, AddEffect, Zenon
  <2>2. timer_id' = id /\ UNCHANGED <<m_running_timer, sync_removed>>
    BY <1>1, <2>1 DEF AddTimer, Call
  <2>3. \A i \in TimerId : Exists(i)' => i <= timer_id'
    BY <1>0, <2>1, <2>2 DEF IdsIssued, Exists, OthersKept
  <2>4. \A t \in DOMAIN m_timeouts' : t.timer_id <= timer_id'
    BY <1>0, <1>a, <2>1, <2>2 DEF IdsIssued, Pushed
  <2> QED
    BY <1>0, <2>1, <2>2, <2>3, <2>4 DEF IdsIssued
<1>2. ASSUME NEW self, NEW id, NEW interval \in Interval, NEW c \in Closure \cup {None},
             ModifyTimer(self, id, interval, c)
      PROVE  IdsIssued'
  <2>1. UNCHANGED <<timer_id, m_running_timer, sync_removed>>
    BY <1>2 DEF ModifyTimer, Call
  <2>2. Exists(id) /\ id \in TimerId /\ OthersKept(id)
    BY <1>2, ModifyEffect DEF Exists
  <2>3. \A i \in TimerId : Exists(i)' => Exists(i)
    BY <2>2 DEF Exists, OthersKept
  <2>4. \A t \in DOMAIN m_timeouts' : t \in DOMAIN m_timeouts \/ t.timer_id = id
    BY <1>2, ModifyEffect DEF Pushed
  <2> QED
    BY <2>1, <2>2, <2>3, <2>4 DEF IdsIssued
<1>3. ASSUME NEW self, NEW id, DisableTimer(self, id)
      PROVE  IdsIssued'
  <2>1. UNCHANGED <<timer_id, m_running_timer, sync_removed, m_timeouts>>
    BY <1>3 DEF DisableTimer, Call
  <2>2. \A i \in TimerId : Exists(i)' => Exists(i)
    BY <1>3, DisableEffect DEF Exists, OthersKept
  <2> QED
    BY <2>1, <2>2 DEF IdsIssued
<1>4. ASSUME NEW self, NEW id, EnableTimer(self, id)
      PROVE  IdsIssued'
  <2>1. UNCHANGED <<timer_id, m_running_timer, sync_removed>>
    BY <1>4 DEF EnableTimer, Call
  <2>2. Exists(id) /\ id \in TimerId /\ OthersKept(id)
    BY <1>4, EnableEffect DEF Exists
  <2>3. \A i \in TimerId : Exists(i)' => Exists(i)
    BY <2>2 DEF Exists, OthersKept
  <2>4. \A t \in DOMAIN m_timeouts' : t \in DOMAIN m_timeouts \/ t.timer_id = id
    BY <1>4, EnableEffect DEF Pushed
  <2> QED
    BY <2>1, <2>2, <2>3, <2>4 DEF IdsIssued
<1>5. ASSUME NEW id, AsyncRemoveTimerNoLock(id)
      PROVE  \A i \in TimerId : Exists(i)' => Exists(i)
  BY <1>5, RemoveEffect DEF Exists
<1>6. ASSUME NEW self, NEW id, AsyncRemoveTimer(self, id)
      PROVE  IdsIssued'
  BY <1>5, <1>6 DEF AsyncRemoveTimer, Call, IdsIssued
<1>7. ASSUME NEW id \in KnownId, RemoveTimer(id)
      PROVE  IdsIssued'
  <2>1. \A i \in sync_removed' : i <= timer_id
    BY <1>0, <1>7 DEF RemoveTimer, KnownId, IdsIssued
  <2> QED
    BY <1>5, <1>7, <2>1 DEF RemoveTimer, Call, IdsIssued
<1>8. ASSUME ClearAll, UNCHANGED <<timer_id, m_running_timer, sync_removed>>
      PROVE  IdsIssued'
  BY <1>8 DEF ClearAll, IdsIssued, Exists
<1>9. ASSUME NEW self, Clear(self)
      PROVE  IdsIssued'
  BY <1>8, <1>9 DEF Clear, Call
<1>10. CASE StopJoin
  BY <1>8, <1>10 DEF StopJoin
<1>11. ASSUME NEW t \in DOMAIN m_timeouts, DequeueOutdated(t)
       PROVE  IdsIssued'
  BY <1>11, PopDomain DEF DequeueOutdated, IdsIssued, Exists, history
<1>12. ASSUME NEW t \in DOMAIN m_timeouts, DequeueTimeoutEntry(t)
       PROVE  IdsIssued'
  <2>1. \A i \in TimerId : Exists(i)' => Exists(i)
    BY <1>12, DequeueEffect DEF Exists, OthersKept
  <2>2. DOMAIN m_timeouts' \subseteq DOMAIN m_timeouts
    BY <1>12, PopDomain DEF DequeueTimeoutEntry
  <2> QED
    BY <1>12, <2>1, <2>2 DEF DequeueTimeoutEntry, IdsIssued, history
<1>13. CASE DispatchFinish
  <2>1. UNCHANGED <<timer_id, sync_removed>> /\ m_running_timer' <= timer_id
    BY <1>0, <1>13 DEF DispatchFinish
  <2>2. CASE entry.is_period /\ Exists(m_running_timer)
    <3>1. \A i \in TimerId : Exists(i)' => Exists(i)
      BY <1>13, <2>2, FinishEffect DEF Exists, OthersKept
    <3>2. \A t \in DOMAIN m_timeouts' : t \in DOMAIN m_timeouts \/ t.timer_id = m_running_timer
      BY <1>13, <2>2, FinishEffect DEF Pushed
    <3> QED
      BY <2>1, <3>1, <3>2 DEF IdsIssued
  <2>3. CASE ~(entry.is_period /\ Exists(m_running_timer))
    BY <1>13, <2>1, <2>3 DEF DispatchFinish, IdsIssued, Exists
  <2> QED
    BY <2>2, <2>3
<1>14. CASE UNCHANGED <<timer_id, m_timers, m_timeouts, m_running_timer, sync_removed>>
  BY <1>14 DEF IdsIssued, Exists
<1> QED
  BY <1>1, <1>2, <1>3, <1>4, <1>6, <1>7, <1>9, <1>10, <1>11, <1>12, <1>13, <1>14
     DEF Next, Operation, TimerThread, WaitReturns, SpuriousWake, StopRequest, EntryWait, EntryBreak,
         Wake, DispatchDone, Tick, manager, history, vars

\* The running timer stays a period timer of the map or none, and a timer that
\* was removed stays out of the map and of the timer thread.
LEMMA RunningStep ==
  TypeOK /\ IdsIssued /\ RunningIsPeriod /\ RemovedNotRunning /\ [Next]_vars
    => RunningIsPeriod' /\ RemovedNotRunning'
<1> SUFFICES ASSUME TypeOK, IdsIssued, RunningIsPeriod, RemovedNotRunning, [Next]_vars
             PROVE  RunningIsPeriod' /\ RemovedNotRunning'
  OBVIOUS
<1>1. ASSUME NEW self, NEW interval \in Interval, NEW is_period \in BOOLEAN, NEW c \in Closure,
             AddTimer(self, interval, is_period, c)
      PROVE  RunningIsPeriod' /\ RemovedNotRunning'
  <2>1. PICK id \in TimerId : id = timer_id + 1 /\ OthersKept(id)
    BY <1>1, AddEffect, Zenon
  <2>2. UNCHANGED <<pc, entry, m_running_timer, sync_removed>>
    BY <1>1 DEF AddTimer, Call
  <2>3. m_running_timer # id /\ id \notin sync_removed
    BY <2>1 DEF IdsIssued, TypeOK, TimerId
  <2>4. \A i \in TimerId : i # id => (Exists(i)' <=> Exists(i))
    BY <2>1 DEF OthersKept, Exists
  <2>5. sync_removed \subseteq TimerId
    BY DEF TypeOK
  <2> QED
    BY <2>2, <2>3, <2>4, <2>5 DEF RunningIsPeriod, RemovedNotRunning
<1>2. ASSUME \A i \in TimerId : Exists(i)' => Exists(i),
             UNCHANGED <<pc, entry, m_running_timer, sync_removed>>
      PROVE  RunningIsPeriod' /\ RemovedNotRunning'
  BY <1>2 DEF RunningIsPeriod, RemovedNotRunning, TypeOK
<1>3. ASSUME NEW self, NEW id, NEW interval \in Interval, NEW c \in Closure \cup {None},
             ModifyTimer(self, id, interval, c)
      PROVE  RunningIsPeriod' /\ RemovedNotRunning'
  <2>1. \A i \in TimerId : Exists(i)' => Exists(i)
    BY <1>3, ModifyEffect DEF Exists, OthersKept
  <2> QED
    BY <1>2, <1>3, <2>1 DEF ModifyTimer, Call
<1>4. ASSUME NEW self, NEW id, DisableTimer(self, id)
      PROVE  RunningIsPeriod' /\ RemovedNotRunning'
  <2>1. \A i \in TimerId : Exists(i)' => Exists(i)
    BY <1>4, DisableEffect DEF Exists, OthersKept
  <2> QED
    BY <1>2, <1>4, <2>1 DEF DisableTimer, Call
<1>5. ASSUME NEW self, NEW id, EnableTimer(self, id)
      PROVE  RunningIsPeriod' /\ RemovedNotRunning'
  <2>1. \A i \in TimerId : Exists(i)' => Exists(i)
    BY <1>5, EnableEffect DEF Exists, OthersKept
  <2> QED
    BY <1>2, <1>5, <2>1 DEF EnableTimer, Call
<1>6. ASSUME NEW id, AsyncRemoveTimerNoLock(id)
      PROVE  /\ \A i \in TimerId : Exists(i)' => Exists(i)
             /\ ~Exists(id)'
  BY <1>6, RemoveEffect DEF Exists
<1>7. ASSUME NEW self, NEW id, AsyncRemoveTimer(self, id)
      PROVE  RunningIsPeriod' /\ RemovedNotRunning'
  BY <1>2, <1>6, <1>7 DEF AsyncRemoveTimer, Call
<1>8. ASSUME NEW id, RemoveTimer(id)
      PROVE  RunningIsPeriod' /\ RemovedNotRunning'
  <2>1. /\ UNCHANGED <<pc, entry, m_running_timer>>
        /\ \A i \in sync_removed' : i \in sync_removed \/ (i = id /\ id # m_running_timer)
    BY <1>8 DEF RemoveTimer, Call
  <2>2. /\ \A i \in TimerId : Exists(i)' => Exists(i)
        /\ ~Exists(id)'
    BY <1>6, <1>8 DEF RemoveTimer
  <2>3. \A i \in sync_removed : ~Exists(i)'
    BY <2>2 DEF RemovedNotRunning, TypeOK
  <2> QED
    BY <2>1, <2>2, <2>3 DEF RunningIsPeriod, RemovedNotRunning
<1>9. ASSUME ClearAll
      PROVE  \A i \in TimerId : Exists(i)' => Exists(i)
  BY <1>9 DEF ClearAll, Exists
<1>10. ASSUME NEW self, Clear(self)
       PROVE  RunningIsPeriod' /\ RemovedNotRunning'
  BY <1>2, <1>9, <1>10 DEF Clear, Call
<1>11. CASE StopJoin
  BY <1>2, <1>9, <1>11 DEF StopJoin, thread
<1>12. ASSUME NEW t \in DOMAIN m_timeouts, DequeueTimeoutEntry(t)
       PROVE  RunningIsPeriod' /\ RemovedNotRunning'
  <2>1. PICK id \in TimerId : id = t.timer_id /\ Exists(id)
    BY <1>12 DEF DequeueTimeoutEntry, Live, Exists
  <2>2. pc' = "running" /\ m_running_timer' = id /\ sync_removed' = sync_removed
    BY <1>12, <2>1 DEF DequeueTimeoutEntry, history
  <2>3. /\ \A i \in TimerId : Exists(i)' => Exists(i)
        /\ Exists(id)' => entry'.is_period
    BY <1>12, <2>1, DequeueEffect DEF Exists, OthersKept
  <2>4. id # 0
    BY DEF TimerId
  <2> QED
    BY <2>1, <2>2, <2>3, <2>4 DEF RunningIsPeriod, RemovedNotRunning, TypeOK
<1>13. CASE DispatchFinish
  <2>1. \A i \in TimerId : Exists(i)' => Exists(i)
    <3>1. CASE entry.is_period /\ Exists(m_running_timer)
      BY <1>13, <3>1, FinishEffect DEF Exists, OthersKept
    <3>2. CASE ~(entry.is_period /\ Exists(m_running_timer))
      BY <1>13, <3>2 DEF DispatchFinish, Exists
    <3> QED
      BY <3>1, <3>2
  <2>2. pc' # "running" /\ m_running_timer' = 0 /\ sync_removed' = sync_removed
    BY <1>13 DEF DispatchFinish
  <2>3. 0 \notin TimerId
    BY DEF TimerId
  <2> QED
    BY <2>1, <2>2, <2>3 DEF RunningIsPeriod, RemovedNotRunning, TypeOK
<1>14. CASE UNCHANGED <<m_timers, entry, m_running_timer, sync_removed>>
            /\ (pc' = "running" <=> pc = "running")
  BY <1>14 DEF RunningIsPeriod, RemovedNotRunning, Exists
<1>15. ASSUME \/ \E t \in DOMAIN m_timeouts : DequeueOutdated(t)
              \/ StopRequest \/ EntryWait \/ EntryBreak \/ Wake \/ DispatchDone \/ Tick
              \/ UNCHANGED vars
       PROVE  RunningIsPeriod' /\ RemovedNotRunning'
  BY <1>14, <1>15
     DEF DequeueOutdated, StopRequest, EntryWait, EntryBreak, Wake, DispatchDone, Tick,
         manager, thread, history, vars
<1> QED
  BY <1>1, <1>3, <1>4, <1>5, <1>7, <1>8, <1>10, <1>11, <1>12, <1>13, <1>15
     DEF Next, Operation, TimerThread, WaitReturns, SpuriousWake

\* Types, issued ids and the running timer: the facts the others rest on.
ManagerInv == TypeOK /\ IdsIssued /\ RunningIsPeriod /\ RemovedNotRunning

\* The constructor establishes them.
LEMMA ManagerInit == Init => ManagerInv
<1> SUFFICES ASSUME Init PROVE ManagerInv
  OBVIOUS
<1>1. \A id \in TimerId : ~Exists(id)
  BY DEF Init, Exists
<1>2. DOMAIN m_timeouts = {} /\ 0 \notin TimerId
  BY DEF Init, TimerId
<1>3. IdsIssued /\ RunningIsPeriod /\ RemovedNotRunning
  BY <1>1, <1>2 DEF Init, IdsIssued, RunningIsPeriod, RemovedNotRunning
<1> QED
  BY <1>3, TypeInit DEF ManagerInv

\* Every step keeps the facts the others rest on.
LEMMA ManagerStep == ManagerInv /\ [Next]_vars => ManagerInv'
BY TypeStep, IdsStep, RunningStep DEF ManagerInv

\* RemoveTimer is synchronous: once it has returned to another thread, the timer
\* is gone and its closure does not run, however calls and dispatches interleave.
THEOREM RemoveIsSynchronous == Spec => []RemovedNotRunning
<1>1. ManagerInv => RemovedNotRunning
  BY DEF ManagerInv
<1> QED
  BY <1>1, ManagerInit, ManagerStep, PTL DEF Spec

-----------------------------------------------------------------------------
(* Ownership of closures.                                                  *)

Held(c) == (\E id \in TimerId : HeldInMap(c, id)) \/ HeldRunning(c)

\* ClosureOwnership for one closure, by cases.
OwnedOnce(c) ==
  /\ c \in given /\ ~Held(c) => deletes[c] = 1
  /\ c \notin given => deletes[c] = 0
  /\ Held(c) => c \in given /\ deletes[c] = 0
  /\ \A i, j \in TimerId : HeldInMap(c, i) /\ HeldInMap(c, j) => i = j
  /\ \A i \in TimerId : ~(HeldInMap(c, i) /\ HeldRunning(c))

\* The two forms say the same.
LEMMA OwnedOnceIsOwnership == ClosureOwnership <=> \A c \in Closure : OwnedOnce(c)
BY DEF ClosureOwnership, OwnedOnce, Held

\* A step that neither moves nor deletes the closure.
LEMMA Untouched ==
  ASSUME NEW c \in Closure, OwnedOnce(c),
         c \in given' <=> c \in given,
         deletes'[c] = deletes[c],
         \A id \in TimerId : HeldInMap(c, id)' <=> HeldInMap(c, id),
         HeldRunning(c)' <=> HeldRunning(c)
  PROVE  OwnedOnce(c)'
BY DEF OwnedOnce, Held

\* Deleting a closure, or the null pointer, counts for that closure only.
LEMMA DeletedCount ==
  ASSUME TypeOK, NEW c \in Closure, NEW d \in Closure \cup {None}
  PROVE  Deleted(d)[c] = IF c = d THEN deletes[c] + 1 ELSE deletes[c]
BY NoneAssumption DEF Deleted, TypeOK

\* A step that deletes a closure the manager holds, wherever that is.
LEMMA Dropped ==
  ASSUME TypeOK, NEW c \in Closure, OwnedOnce(c), Held(c),
         given' = given,
         deletes'[c] = deletes[c] + 1,
         \A id \in TimerId : ~HeldInMap(c, id)',
         ~HeldRunning(c)'
  PROVE  OwnedOnce(c)'
BY DEF OwnedOnce, Held, TypeOK

\* A step that takes a new closure into the map.
LEMMA Taken ==
  ASSUME NEW c \in Closure, OwnedOnce(c), c \notin given, NEW id \in TimerId,
         c \in given',
         deletes'[c] = deletes[c],
         \A i \in TimerId : HeldInMap(c, i)' <=> i = id,
         ~HeldRunning(c)'
  PROVE  OwnedOnce(c)'
BY DEF OwnedOnce, Held

\* Removing a timer deletes its closure and no other.
LEMMA RemoveOwnership ==
  ASSUME TypeOK, NEW c \in Closure, OwnedOnce(c), NEW id, AsyncRemoveTimerNoLock(id),
         UNCHANGED <<given, pc, entry>>
  PROVE  OwnedOnce(c)'
<1>1. HeldRunning(c)' <=> HeldRunning(c)
  BY DEF HeldRunning
<1>2. CASE HeldInMap(c, id)
  <2>1. Exists(id) /\ id \in TimerId /\ m_timers[id].closure = c
    BY <1>2 DEF HeldInMap, Exists
  <2>2. \A i \in TimerId : ~HeldInMap(c, i)'
    BY <1>2, <2>1, RemoveEffect DEF HeldInMap, Exists, OwnedOnce
  <2>3. deletes'[c] = deletes[c] + 1
    BY <2>1, RemoveEffect, DeletedCount
  <2>4. Held(c) /\ ~HeldRunning(c)'
    BY <1>1, <1>2, <2>1 DEF Held, OwnedOnce
  <2> QED
    BY <2>2, <2>3, <2>4, Dropped
<1>3. CASE ~HeldInMap(c, id)
  <2>1. \A i \in TimerId : HeldInMap(c, i)' <=> HeldInMap(c, i)
    BY <1>3, RemoveEffect DEF HeldInMap, Exists
  <2>2. deletes'[c] = deletes[c]
    <3>1. CASE Exists(id)
      <4>1. m_timers[id].closure \in Closure \cup {None} /\ m_timers[id].closure # c
        BY <1>3, <3>1 DEF HeldInMap, Exists, TypeOK, TimerEntry
      <4> QED
        BY <3>1, <4>1, RemoveEffect, DeletedCount
    <3>2. CASE ~Exists(id)
      BY <3>2, RemoveEffect
    <3> QED
      BY <3>1, <3>2
  <2> QED
    BY <1>1, <2>1, <2>2, Untouched
<1> QED
  BY <1>2, <1>3

\* Clear deletes the closures in the map and no other.
LEMMA ClearOwnership ==
  ASSUME TypeOK, NEW c \in Closure, OwnedOnce(c), ClearAll,
         UNCHANGED <<given, pc, entry>>
  PROVE  OwnedOnce(c)'
<1>1. \A i \in TimerId : ~HeldInMap(c, i)'
  BY DEF ClearAll, HeldInMap, Exists
<1>2. HeldRunning(c)' <=> HeldRunning(c)
  BY DEF HeldRunning
<1>3. CASE \E i \in TimerId : HeldInMap(c, i)
  <2>1. deletes'[c] = deletes[c] + 1
    BY <1>3 DEF ClearAll, HeldInMap
  <2>2. Held(c) /\ ~HeldRunning(c)
    BY <1>3 DEF Held, OwnedOnce
  <2> QED
    BY <1>1, <1>2, <2>1, <2>2, Dropped
<1>4. CASE \A i \in TimerId : ~HeldInMap(c, i)
  <2>1. deletes'[c] = deletes[c]
    BY <1>4 DEF ClearAll, HeldInMap
  <2> QED
    BY <1>1, <1>2, <1>4, <2>1, Untouched
<1> QED
  BY <1>3, <1>4

\* AddTimer takes over a new closure.
LEMMA AddOwnership ==
  ASSUME TypeOK, IdsIssued, NEW c \in Closure, OwnedOnce(c),
         NEW self, NEW interval \in Interval, NEW is_period \in BOOLEAN, NEW k \in Closure,
         AddTimer(self, interval, is_period, k)
  PROVE  OwnedOnce(c)'
<1>1. k \notin given /\ given' = given \cup {k} /\ UNCHANGED <<deletes, pc, entry>>
  BY DEF AddTimer, Call
<1>2. HeldRunning(c)' <=> HeldRunning(c)
  BY <1>1 DEF HeldRunning
<1>3. PICK id \in TimerId :
        /\ id = timer_id + 1
        /\ m_timers'[id] = [closure |-> k, interval |-> interval, is_enabled |-> TRUE,
                            is_period |-> is_period, revision |-> 0]
        /\ m_timers'[id] # None
        /\ OthersKept(id)
  BY AddEffect
<1>4. \A i \in TimerId : i # id => (HeldInMap(c, i)' <=> HeldInMap(c, i))
  BY <1>3 DEF HeldInMap, Exists, OthersKept
<1>5. HeldInMap(c, id)' <=> c = k
  BY <1>3 DEF HeldInMap, Exists
<1>6. CASE c = k
  <2>1. ~Held(c)
    BY <1>1, <1>6 DEF OwnedOnce
  <2>2. \A i \in TimerId : HeldInMap(c, i)' <=> i = id
    BY <1>4, <1>5, <1>6, <2>1 DEF Held
  <2>3. ~HeldRunning(c)'
    BY <1>2, <2>1 DEF Held
  <2> QED
    BY <1>1, <1>6, <2>2, <2>3, Taken
<1>7. CASE c # k
  <2>1. ~HeldInMap(c, id)
    BY <1>3 DEF HeldInMap, IdsIssued, TypeOK
  <2> QED
    BY <1>1, <1>2, <1>4, <1>5, <1>7, <2>1, Untouched
<1> QED
  BY <1>6, <1>7

\* ModifyTimer takes over the new closure, if there is one, and deletes the old.
LEMMA ModifyOwnership ==
  ASSUME TypeOK, NEW c \in Closure, OwnedOnce(c),
         NEW self, NEW id, NEW interval \in Interval, NEW k \in Closure \cup {None},
         ModifyTimer(self, id, interval, k)
  PROVE  OwnedOnce(c)'
<1> DEFINE old == m_timers[id].closure
<1>1. /\ id \in TimerId /\ m_timers[id] # None /\ m_timers'[id] # None
      /\ m_timers'[id].closure = IF k = None THEN old ELSE k
      /\ OthersKept(id)
      /\ old \in Closure \cup {None}
  BY ModifyEffect DEF TimerEntry
<1>2. UNCHANGED <<pc, entry>> /\ k \notin given
  BY DEF ModifyTimer, Call
<1>3. HeldRunning(c)' <=> HeldRunning(c)
  BY <1>2 DEF HeldRunning
<1>4. \A i \in TimerId : i # id => (HeldInMap(c, i)' <=> HeldInMap(c, i))
  BY <1>1 DEF HeldInMap, Exists, OthersKept
<1>5. HeldInMap(c, id) <=> c = old
  BY <1>1 DEF HeldInMap, Exists
<1>6. HeldInMap(c, id)' <=> c = (IF k = None THEN old ELSE k)
  BY <1>1 DEF HeldInMap, Exists
<1>7. CASE k = None
  <2>1. UNCHANGED <<given, deletes>>
    BY <1>7 DEF ModifyTimer
  <2> QED
    BY <1>3, <1>4, <1>5, <1>6, <1>7, <2>1, Untouched
<1>8. CASE k # None
  <2>1. given' = given \cup {k} /\ deletes' = Deleted(old)
    BY <1>8 DEF ModifyTimer
  <2>2. deletes'[c] = IF c = old THEN deletes[c] + 1 ELSE deletes[c]
    BY <1>1, <2>1, DeletedCount
  <2>3. CASE c = k
    <3>1. ~Held(c)
      BY <1>2, <2>3 DEF OwnedOnce
    <3>2. c # old /\ ~HeldRunning(c)'
      BY <1>1, <1>3, <1>5, <3>1 DEF Held
    <3>3. \A i \in TimerId : HeldInMap(c, i)' <=> i = id
      BY <1>1, <1>4, <1>6, <1>8, <2>3, <3>1 DEF Held
    <3> QED
      BY <1>1, <1>2, <2>1, <2>2, <2>3, <3>2, <3>3, Taken
  <2>4. CASE c # k /\ c = old
    <3>1. HeldInMap(c, id) /\ ~HeldInMap(c, id)'
      BY <1>5, <1>6, <1>8, <2>4
    <3>2. \A i \in TimerId : ~HeldInMap(c, i)'
      BY <1>1, <1>4, <3>1 DEF OwnedOnce
    <3>3. Held(c) /\ ~HeldRunning(c)'
      BY <1>1, <1>3, <3>1 DEF Held, OwnedOnce
    <3>4. c \in given /\ deletes[c] = 0 /\ ~Held(c)' /\ deletes'[c] = 1 /\ c \in given'
      BY <2>1, <2>2, <2>4, <3>2, <3>3 DEF OwnedOnce, Held
    <3> QED
      BY <3>2, <3>3, <3>4 DEF OwnedOnce
  <2>5. CASE c # k /\ c # old
    BY <1>3, <1>4, <1>5, <1>6, <1>8, <2>1, <2>2, <2>5, Untouched
  <2> QED
    BY <2>3, <2>4, <2>5
<1> QED
  BY <1>7, <1>8

\* Dispatch moves the closure from the map to the timer thread.
LEMMA DequeueOwnership ==
  ASSUME TypeOK, NEW c \in Closure, OwnedOnce(c), NEW t \in DOMAIN m_timeouts,
         DequeueTimeoutEntry(t)
  PROVE  OwnedOnce(c)'
<1>1. PICK id \in TimerId : id = t.timer_id /\ m_timers[id] # None
  BY DequeueEffect
<1> DEFINE k == m_timers[id].closure
<1>2. UNCHANGED <<given, deletes>> /\ pc = "dispatch" /\ pc' = "running" /\ entry' = m_timers[id]
  BY <1>1 DEF DequeueTimeoutEntry, history
<1>3. ~HeldRunning(c) /\ (HeldRunning(c)' <=> c = k)
  BY <1>2 DEF HeldRunning
<1>4. HeldInMap(c, id) <=> c = k
  BY <1>1 DEF HeldInMap, Exists
<1>5. ~HeldInMap(c, id)'
  BY <1>1, DequeueEffect, NoneAssumption DEF HeldInMap, Exists
<1>6. \A i \in TimerId : i # id => (HeldInMap(c, i)' <=> HeldInMap(c, i))
  BY <1>1, DequeueEffect DEF HeldInMap, Exists, OthersKept
<1>7. CASE c = k
  <2>1. \A i \in TimerId : ~HeldInMap(c, i)'
    BY <1>4, <1>5, <1>6, <1>7 DEF OwnedOnce
  <2>2. c \in given /\ deletes[c] = 0
    BY <1>4, <1>7 DEF OwnedOnce, Held
  <2> QED
    BY <1>2, <1>3, <1>7, <2>1, <2>2 DEF OwnedOnce, Held
<1>8. CASE c # k
  BY <1>2, <1>3, <1>4, <1>5, <1>6, <1>8, Untouched
<1> QED
  BY <1>7, <1>8

\* After the closure has run it goes back to the map or is deleted.
LEMMA FinishOwnership ==
  ASSUME TypeOK, NEW c \in Closure, OwnedOnce(c), DispatchFinish
  PROVE  OwnedOnce(c)'
<1>1. UNCHANGED given /\ pc = "running" /\ pc' = "dispatch" /\ entry.closure \in Closure \cup {None}
  BY DEF DispatchFinish, TypeOK, TimerEntry
<1>2. ~HeldRunning(c)' /\ (HeldRunning(c) <=> c = entry.closure)
  BY <1>1 DEF HeldRunning
<1>3. ASSUME UNCHANGED m_timers, deletes' = Deleted(entry.closure)
      PROVE  OwnedOnce(c)'
  <2>1. deletes'[c] = IF c = entry.closure THEN deletes[c] + 1 ELSE deletes[c]
    BY <1>1, <1>3, DeletedCount
  <2>2. \A i \in TimerId : HeldInMap(c, i)' <=> HeldInMap(c, i)
    BY <1>3 DEF HeldInMap, Exists
  <2>3. CASE c = entry.closure
    <3>1. \A i \in TimerId : ~HeldInMap(c, i)'
      BY <1>2, <2>2, <2>3 DEF OwnedOnce
    <3> QED
      BY <1>1, <1>2, <2>1, <2>3, <3>1, Dropped DEF Held
  <2>4. CASE c # entry.closure
    BY <1>1, <1>2, <2>1, <2>2, <2>4, Untouched
  <2> QED
    BY <2>3, <2>4
<1>4. CASE entry.is_period /\ Exists(m_running_timer)
  <2>1. PICK id \in TimerId : id = m_running_timer
    BY <1>4 DEF Exists
  <2>2. CASE m_timers[id].closure = None
    <3>1. /\ UNCHANGED deletes /\ m_timers'[id] # None
          /\ m_timers'[id].closure = entry.closure /\ OthersKept(id)
      BY <1>4, <2>1, <2>2, FinishEffect
    <3>2. ~HeldInMap(c, id) /\ (HeldInMap(c, id)' <=> c = entry.closure)
      BY <2>2, <3>1, NoneAssumption DEF HeldInMap, Exists
    <3>3. \A i \in TimerId : i # id => (HeldInMap(c, i)' <=> HeldInMap(c, i))
      BY <3>1 DEF HeldInMap, Exists, OthersKept
    <3>4. CASE c = entry.closure
      <4>1. c \in given /\ deletes[c] = 0 /\ \A i \in TimerId : ~HeldInMap(c, i)
        BY <1>2, <3>4 DEF OwnedOnce, Held
      <4>2. \A i \in TimerId : HeldInMap(c, i)' <=> i = id
        BY <3>2, <3>3, <3>4, <4>1
      <4> QED
        BY <1>1, <1>2, <3>1, <4>1, <4>2 DEF OwnedOnce, Held
    <3>5. CASE c # entry.closure
      BY <1>1, <1>2, <3>1, <3>2, <3>3, <3>5, Untouched
    <3> QED
      BY <3>4, <3>5
  <2>3. CASE m_timers[id].closure # None
    BY <1>3, <1>4, <2>1, <2>3 DEF DispatchFinish
  <2> QED
    BY <2>2, <2>3
<1>5. CASE ~(entry.is_period /\ Exists(m_running_timer))
  BY <1>3, <1>5 DEF DispatchFinish
<1> QED
  BY <1>4, <1>5

\* Every step keeps one owner for each closure.
LEMMA OwnershipStep == TypeOK /\ IdsIssued /\ ClosureOwnership /\ [Next]_vars => ClosureOwnership'
<1> SUFFICES ASSUME TypeOK, IdsIssued, ClosureOwnership, [Next]_vars, NEW c \in Closure
             PROVE  OwnedOnce(c)'
  BY DEF ClosureOwnership, OwnedOnce, Held
<1>1. OwnedOnce(c)
  BY OwnedOnceIsOwnership
<1>2. ASSUME UNCHANGED <<m_timers, given, deletes, entry>>, pc' = "running" <=> pc = "running"
      PROVE  OwnedOnce(c)'
  BY <1>1, <1>2, Untouched DEF HeldInMap, HeldRunning, Exists
<1>3. ASSUME NEW self, NEW id, DisableTimer(self, id)
      PROVE  OwnedOnce(c)'
  <2>1. UNCHANGED <<given, deletes, pc, entry>>
    BY <1>3 DEF DisableTimer, Call
  <2>2. \A i \in TimerId : HeldInMap(c, i)' <=> HeldInMap(c, i)
    BY <1>3, DisableEffect DEF HeldInMap, Exists, OthersKept
  <2> QED
    BY <1>1, <2>1, <2>2, Untouched DEF HeldRunning
<1>4. ASSUME NEW self, NEW id, EnableTimer(self, id)
      PROVE  OwnedOnce(c)'
  <2>1. UNCHANGED <<given, deletes, pc, entry>>
    BY <1>4 DEF EnableTimer, Call
  <2>2. \A i \in TimerId : HeldInMap(c, i)' <=> HeldInMap(c, i)
    BY <1>4, EnableEffect DEF HeldInMap, Exists, OthersKept
  <2> QED
    BY <1>1, <2>1, <2>2, Untouched DEF HeldRunning
<1>5. ASSUME NEW id, RemoveTimer(id) \/ \E self : AsyncRemoveTimer(self, id)
      PROVE  OwnedOnce(c)'
  BY <1>1, <1>5, RemoveOwnership DEF RemoveTimer, AsyncRemoveTimer, Call
<1>6. ASSUME StopJoin \/ \E self : Clear(self)
      PROVE  OwnedOnce(c)'
  BY <1>1, <1>6, ClearOwnership DEF StopJoin, Clear, Call, thread
<1>7. ASSUME \/ \E t \in DOMAIN m_timeouts : DequeueOutdated(t)
             \/ StopRequest \/ EntryWait \/ EntryBreak \/ Wake \/ DispatchDone \/ Tick
             \/ UNCHANGED vars
      PROVE  OwnedOnce(c)'
  BY <1>2, <1>7
     DEF DequeueOutdated, StopRequest, EntryWait, EntryBreak, Wake, DispatchDone, Tick,
         manager, thread, history, vars
<1> QED
  BY <1>1, <1>3, <1>4, <1>5, <1>6, <1>7, AddOwnership, ModifyOwnership, DequeueOwnership,
     FinishOwnership
     DEF Next, Operation, TimerThread, WaitReturns, SpuriousWake

-----------------------------------------------------------------------------
(* No timer is lost and none is late.                                      *)

\* EnabledIsScheduled for one timer.
Scheduled(i) ==
  Exists(i) /\ m_timers[i].is_enabled =>
    \/ m_running_timer = i
    \/ \E t \in DOMAIN m_timeouts : t.timer_id = i /\ t.revision = m_timers[i].revision

\* A step that keeps the entry of a timer and its timeouts.
LEMMA ScheduleKept ==
  ASSUME NEW i \in TimerId, Scheduled(i),
         m_timers'[i] = m_timers[i],
         \A t \in DOMAIN m_timeouts :
           t.timer_id = i /\ Exists(i) /\ m_timers[i].is_enabled /\ t.revision = m_timers[i].revision
             => t \in DOMAIN m_timeouts',
         m_running_timer = i => m_running_timer' = i
  PROVE  Scheduled(i)'
BY DEF Scheduled, Exists

\* Every step leaves an enabled timer running or in the queue.
LEMMA ScheduleStep ==
  TypeOK /\ RunningIsPeriod /\ EnabledIsScheduled /\ [Next]_vars => EnabledIsScheduled'
<1> SUFFICES ASSUME TypeOK, RunningIsPeriod, EnabledIsScheduled, [Next]_vars, NEW i \in TimerId
             PROVE  Scheduled(i)'
  BY DEF EnabledIsScheduled, Scheduled, Live
<1>0. Scheduled(i)
  BY DEF EnabledIsScheduled, Scheduled, Live
<1>1. ASSUME NEW self, NEW interval \in Interval, NEW is_period \in BOOLEAN, NEW c \in Closure,
             AddTimer(self, interval, is_period, c)
      PROVE  Scheduled(i)'
  <2>1. PICK id \in TimerId :
          /\ m_timers'[id] = [closure |-> c, interval |-> interval, is_enabled |-> TRUE,
                              is_period |-> is_period, revision |-> 0]
          /\ OthersKept(id)
          /\ Pushed(id, interval, 0)
    BY <1>1, AddEffect
  <2>2. CASE i = id
    BY <2>1, <2>2 DEF Scheduled, Pushed
  <2>3. CASE i # id
    <3>1. m_timers'[i] = m_timers[i] /\ DOMAIN m_timeouts \subseteq DOMAIN m_timeouts'
      BY <2>1, <2>3 DEF OthersKept, Pushed
    <3>2. UNCHANGED m_running_timer
      BY <1>1 DEF AddTimer, Call
    <3> QED
      BY <1>0, <3>1, <3>2, ScheduleKept
  <2> QED
    BY <2>2, <2>3
<1>2. ASSUME NEW self, NEW id, NEW interval \in Interval, NEW c \in Closure \cup {None},
             ModifyTimer(self, id, interval, c)
      PROVE  Scheduled(i)'
  <2>0. /\ m_timers'[id].is_enabled = m_timers[id].is_enabled
        /\ m_timers'[id].revision = NextRevision(m_timers[id].revision)
        /\ OthersKept(id)
        /\ IF m_timers[id].is_enabled
             THEN Pushed(id, interval, NextRevision(m_timers[id].revision))
             ELSE UNCHANGED m_timeouts
    BY <1>2, ModifyEffect
  <2>1. CASE i = id
    BY <2>0, <2>1 DEF Scheduled, Pushed
  <2>2. CASE i # id
    <3>1. DOMAIN m_timeouts \subseteq DOMAIN m_timeouts' /\ m_timers'[i] = m_timers[i]
      BY <2>0, <2>2 DEF Pushed, OthersKept
    <3> QED
      <4>1. UNCHANGED m_running_timer
        BY <1>2 DEF ModifyTimer, Call
      <4> QED BY <1>0, <3>1, <4>1, ScheduleKept
  <2> QED
    BY <2>1, <2>2
<1>3. ASSUME NEW self, NEW id, DisableTimer(self, id)
      PROVE  Scheduled(i)'
  <2>1. CASE i = id
    BY <1>3, <2>1, DisableEffect DEF Scheduled
  <2>2. CASE i # id
    <3>1. m_timers'[i] = m_timers[i]
      BY <1>3, <2>2, DisableEffect DEF OthersKept
    <3>2. UNCHANGED <<m_timeouts, m_running_timer>>
      BY <1>3 DEF DisableTimer, Call
    <3> QED
      BY <1>0, <3>1, <3>2, ScheduleKept
  <2> QED
    BY <2>1, <2>2
<1>4. ASSUME NEW self, NEW id, EnableTimer(self, id)
      PROVE  Scheduled(i)'
  <2>0. /\ m_timers'[id].revision = m_timers[id].revision /\ OthersKept(id)
        /\ Pushed(id, m_timers[id].interval, m_timers[id].revision)
    BY <1>4, EnableEffect
  <2>1. CASE i = id
    BY <2>0, <2>1 DEF Scheduled, Pushed
  <2>2. CASE i # id
    <3>1. DOMAIN m_timeouts \subseteq DOMAIN m_timeouts' /\ m_timers'[i] = m_timers[i]
      BY <2>0, <2>2 DEF Pushed, OthersKept
    <3>2. UNCHANGED m_running_timer
      BY <1>4 DEF EnableTimer, Call
    <3> QED
      BY <1>0, <3>1, <3>2, ScheduleKept
  <2> QED
    BY <2>1, <2>2
<1>5. ASSUME NEW id, AsyncRemoveTimerNoLock(id), UNCHANGED <<m_timeouts, m_running_timer>>
      PROVE  Scheduled(i)'
  <2>1. CASE i = id
    BY <1>5, <2>1, RemoveEffect DEF Scheduled, Exists
  <2>2. CASE i # id
    BY <1>0, <1>5, <2>2, RemoveEffect, ScheduleKept
  <2> QED
    BY <2>1, <2>2
<1>6. ASSUME NEW id, RemoveTimer(id) \/ \E self : AsyncRemoveTimer(self, id)
      PROVE  Scheduled(i)'
  BY <1>5, <1>6 DEF RemoveTimer, AsyncRemoveTimer, Call
<1>7. ASSUME StopJoin \/ \E self : Clear(self)
      PROVE  Scheduled(i)'
  BY <1>7 DEF StopJoin, Clear, ClearAll, Scheduled, Exists
<1>8. ASSUME NEW t \in DOMAIN m_timeouts, DequeueOutdated(t)
      PROVE  Scheduled(i)'
  <2>1. UNCHANGED <<m_timers, m_running_timer>> /\ ~Live(t)
    BY <1>8 DEF DequeueOutdated
  <2>2. DOMAIN m_timeouts \ {t} \subseteq DOMAIN m_timeouts'
    BY <1>8, PopDomain DEF DequeueOutdated
  <2> QED
    BY <1>0, <2>1, <2>2, ScheduleKept DEF Live
<1>9. ASSUME NEW t \in DOMAIN m_timeouts, DequeueTimeoutEntry(t)
      PROVE  Scheduled(i)'
  <2>1. pc = "dispatch" /\ m_running_timer' = t.timer_id
    BY <1>9 DEF DequeueTimeoutEntry
  <2>2. m_running_timer # i
    BY <2>1 DEF RunningIsPeriod, TimerId
  <2>3. DOMAIN m_timeouts \ {t} \subseteq DOMAIN m_timeouts'
    BY <1>9, PopDomain DEF DequeueTimeoutEntry
  <2>4. CASE i = t.timer_id
    BY <2>1, <2>4 DEF Scheduled
  <2>5. CASE i # t.timer_id
    <3>1. OthersKept(t.timer_id)
      BY <1>9, DequeueEffect
    <3>2. m_timers'[i] = m_timers[i]
      BY <2>5, <3>1 DEF OthersKept
    <3> QED BY <1>0, <2>2, <2>3, <2>5, <3>2, ScheduleKept
  <2> QED
    BY <2>4, <2>5
<1>10. CASE DispatchFinish
  <2>1. CASE entry.is_period /\ Exists(m_running_timer)
    <3>1. CASE i = m_running_timer
      BY <1>10, <2>1, <3>1, FinishEffect DEF Scheduled, Pushed
    <3>2. CASE i # m_running_timer
      <4>1. DOMAIN m_timeouts \subseteq DOMAIN m_timeouts' /\ m_timers'[i] = m_timers[i]
        BY <1>10, <2>1, <3>2, FinishEffect DEF Pushed, OthersKept
      <4> QED
        BY <1>0, <3>2, <4>1, ScheduleKept
    <3> QED
      BY <3>1, <3>2
  <2>2. CASE ~(entry.is_period /\ Exists(m_running_timer))
    <3>1. UNCHANGED <<m_timers, m_timeouts>>
      BY <1>10, <2>2 DEF DispatchFinish
    <3>2. i = m_running_timer => ~Exists(i)
      BY <2>2 DEF RunningIsPeriod
    <3> QED
      BY <1>0, <3>1, <3>2 DEF Scheduled, Exists
  <2> QED
    BY <2>1, <2>2
<1>11. ASSUME \/ StopRequest \/ EntryWait \/ EntryBreak \/ Wake \/ DispatchDone \/ Tick
              \/ UNCHANGED vars
       PROVE  Scheduled(i)'
  BY <1>0, <1>11, ScheduleKept
     DEF StopRequest, EntryWait, EntryBreak, Wake, DispatchDone, Tick, manager, thread, history, vars
<1> QED
  BY <1>1, <1>2, <1>3, <1>4, <1>6, <1>7, <1>8, <1>9, <1>10, <1>11
     DEF Next, Operation, TimerThread, WaitReturns, SpuriousWake

\* A new timeout wakes the timer thread when it has to.
LEMMA WakesPush ==
  ASSUME TypeOK, WakesInTime, NEW self, NEW id, NEW interval \in Nat, NEW revision,
         SetNextTimeout(self, id, interval, revision),
         self = "timer" => pc = "running", UNCHANGED <<pc, deadline, now>>
  PROVE  WakesInTime'
<1> SUFFICES ASSUME pc = "waiting", ~signaled', NEW t \in DOMAIN m_timeouts'
             PROVE  deadline # None /\ (deadline <= t.time \/ deadline <= now)
  BY DEF WakesInTime
<1>1. self # "timer" /\ ~signaled
  BY Zenon DEF SetNextTimeout, Signal
<1>2. \E u \in DOMAIN m_timeouts : ~(u.time > now + interval)
  BY <1>1, Zenon DEF SetNextTimeout, Signal
<1>3. PICK u \in DOMAIN m_timeouts : u.time <= now + interval
  BY <1>2 DEF TypeOK, Timeout
<1>4. deadline # None /\ (deadline <= u.time \/ deadline <= now)
  BY <1>1, <1>3 DEF WakesInTime
<1>5. deadline \in Nat /\ u.time \in Nat /\ now \in Nat
  BY <1>4 DEF TypeOK, Timeout
<1>6. CASE t \in DOMAIN m_timeouts
  BY <1>1, <1>6 DEF WakesInTime
<1>7. CASE t.time = now + interval
  BY <1>3, <1>4, <1>5, <1>7
<1> QED
  BY <1>6, <1>7, PushDomain DEF Pushed

\* The timer thread never waits past a timeout.
LEMMA WakesStep == TypeOK /\ WakesInTime /\ [Next]_vars => WakesInTime'
<1> SUFFICES ASSUME TypeOK, WakesInTime, [Next]_vars PROVE WakesInTime'
  OBVIOUS
<1>1. ASSUME NEW self, NEW interval \in Interval, NEW is_period \in BOOLEAN, NEW c \in Closure,
             AddTimer(self, interval, is_period, c)
      PROVE  WakesInTime'
  <2>1. SetNextTimeout(self, timer_id + 1, interval, 0) /\ interval \in Nat
    BY <1>1, IntervalAssumption DEF AddTimer
  <2> QED
    BY <1>1, <2>1, WakesPush DEF AddTimer, Call
<1>2. ASSUME UNCHANGED <<pc, deadline, now, signaled>>, DOMAIN m_timeouts' \subseteq DOMAIN m_timeouts
      PROVE  WakesInTime'
  BY <1>2 DEF WakesInTime
<1>3. ASSUME NEW self, NEW id, NEW interval \in Interval, NEW c \in Closure \cup {None},
             ModifyTimer(self, id, interval, c)
      PROVE  WakesInTime'
  <2>1. (self = "timer" => pc = "running") /\ UNCHANGED <<pc, deadline, now>> /\ interval \in Nat
    BY <1>3, IntervalAssumption DEF ModifyTimer, Call
  <2>2. CASE m_timers[id].is_enabled
    <3>1. SetNextTimeout(self, id, interval, NextRevision(m_timers[id].revision))
      BY <1>3, <2>2 DEF ModifyTimer
    <3> QED
      BY <2>1, <3>1, WakesPush
  <2>3. CASE ~m_timers[id].is_enabled
    <3>1. UNCHANGED <<m_timeouts, signaled>>
      BY <1>3, <2>3 DEF ModifyTimer
    <3> QED
      BY <1>2, <2>1, <3>1
  <2> QED
    BY <2>2, <2>3
<1>4. ASSUME NEW self, NEW id, EnableTimer(self, id)
      PROVE  WakesInTime'
  <2>1. m_timers[id].interval \in Nat
    BY <1>4, EnableEffect DEF TimerEntry
  <2> QED
    BY <1>4, <2>1, WakesPush DEF EnableTimer, Call
<1>5. ASSUME NEW self, NEW id, DisableTimer(self, id) \/ AsyncRemoveTimer(self, id) \/ RemoveTimer(id)
      PROVE  WakesInTime'
  BY <1>2, <1>5 DEF DisableTimer, AsyncRemoveTimer, RemoveTimer, Call
<1>6. ASSUME StopJoin \/ \E self : Clear(self)
      PROVE  WakesInTime'
  BY <1>2, <1>6 DEF StopJoin, Clear, Call, ClearAll, thread
<1>7. CASE StopRequest
  <2>1. ~signaled' => pc # "waiting"
    BY <1>7, Zenon DEF StopRequest, Signal
  <2> QED
    BY <1>7, <2>1 DEF StopRequest, WakesInTime
<1>8. CASE EntryWait
  <2>1. CASE DOMAIN m_timeouts = {}
    BY <1>8, <2>1 DEF EntryWait, WakesInTime, manager
  <2>2. CASE DOMAIN m_timeouts # {}
    <3>1. PICK top \in DOMAIN m_timeouts :
            /\ \A t \in DOMAIN m_timeouts : top.time <= t.time
            /\ deadline' = IF now < top.time THEN top.time ELSE now
      BY <1>8, <2>2 DEF EntryWait, Earliest
    <3>2. deadline' \in Nat /\ (deadline' = top.time \/ deadline' = now) /\ now \in Nat
      BY <3>1 DEF TypeOK, Timeout
    <3>3. UNCHANGED <<m_timeouts, now>>
      BY <1>8 DEF EntryWait, manager
    <3> QED
      BY <3>1, <3>2, <3>3, NoneAssumption DEF WakesInTime
  <2> QED
    BY <2>1, <2>2
<1>9. ASSUME EntryBreak \/ Wake \/ DispatchDone \/ DispatchFinish
                \/ \E t \in DOMAIN m_timeouts : DequeueTimeoutEntry(t)
      PROVE  WakesInTime'
  BY <1>9 DEF EntryBreak, Wake, DispatchDone, DispatchFinish, DequeueTimeoutEntry, WakesInTime
<1>10. ASSUME NEW t \in DOMAIN m_timeouts, DequeueOutdated(t)
       PROVE  WakesInTime'
  BY <1>10, PopDomain DEF DequeueOutdated, WakesInTime, thread
<1>11. CASE Tick
  BY <1>11 DEF Tick, WakesInTime, TypeOK, manager, thread
<1>12. CASE UNCHANGED vars
  BY <1>2, <1>12 DEF vars, manager, thread
<1> QED
  BY <1>1, <1>3, <1>4, <1>5, <1>6, <1>7, <1>8, <1>9, <1>10, <1>11, <1>12
     DEF Next, Operation, TimerThread, WaitReturns, SpuriousWake

-----------------------------------------------------------------------------
(* Outdated timeouts.                                                      *)

\* What revisions are for: a timeout of the timer's current revision is a full
\* interval later than the last modification, the others have older revisions.
RevisionsGrow(i) ==
  Exists(i) =>
    /\ m_timers[i].revision <= ops
    /\ modified_at[i] <= now
    /\ \A t \in DOMAIN m_timeouts : t.timer_id = i =>
         /\ t.revision <= m_timers[i].revision
         /\ t.revision = m_timers[i].revision => t.time >= modified_at[i] + m_timers[i].interval

\* A step that keeps the revision, the interval and the date of a timer, or
\* removes it, and may queue one more timeout for it, an interval from now.
TimerKept(i) ==
  Exists(i)' => /\ Exists(i)
                /\ m_timers'[i].revision = m_timers[i].revision
                /\ m_timers'[i].interval = m_timers[i].interval
                /\ modified_at'[i] = modified_at[i]

TimeoutsKept(i) ==
  \A t \in DOMAIN m_timeouts' :
    t.timer_id = i /\ Exists(i) =>
      \/ t \in DOMAIN m_timeouts
      \/ t.time = now + m_timers[i].interval /\ t.revision = m_timers[i].revision

\* Such a step leaves the revisions of the timer as they must be.
LEMMA RevisionsKept ==
  ASSUME TypeOK, NEW i \in TimerId, RevisionsGrow(i), ops' \in Nat, ops <= ops', now' \in Nat,
         now <= now', TimerKept(i), TimeoutsKept(i)
  PROVE  RevisionsGrow(i)'
<1> SUFFICES ASSUME Exists(i)' PROVE RevisionsGrow(i)'
  BY DEF RevisionsGrow
<1> DEFINE r == m_timers[i].revision
           d == m_timers[i].interval
<1>1. r \in Nat /\ d \in Nat /\ ops \in Nat /\ now \in Nat /\ modified_at[i] \in Nat
  BY BoundAssumption DEF TypeOK, Exists, TimerEntry, TimerKept
<1>2. Exists(i) /\ r <= ops /\ modified_at[i] <= now
  BY DEF RevisionsGrow, TimerKept
<1>3. ASSUME NEW t \in DOMAIN m_timeouts', t.timer_id = i
      PROVE  t.revision <= r /\ (t.revision = r => t.time >= modified_at[i] + d)
  BY <1>1, <1>2, <1>3 DEF RevisionsGrow, TimeoutsKept
<1>4. m_timers'[i].revision = r /\ m_timers'[i].interval = d /\ modified_at'[i] = modified_at[i]
  BY DEF TimerKept
<1> HIDE DEF r, d
<1>5. r <= ops' /\ modified_at[i] <= now'
  BY <1>1, <1>2
<1> QED
  BY <1>3, <1>4, <1>5, Zenon DEF RevisionsGrow

\* With fewer operations than revisions no revision comes back, and a new one is
\* above all the old ones.
LEMMA RevisionsStep ==
  ASSUME MaxOps < RevisionMod, TypeOK, IdsIssued, [Next]_vars, NEW i \in TimerId, RevisionsGrow(i)
  PROVE  RevisionsGrow(i)'
<1>0. TypeOK'
  BY TypeStep
<1>a. ops \in Nat /\ now \in Nat /\ ops' \in Nat /\ now' \in Nat
  BY <1>0 DEF TypeOK
<1>b. ASSUME NEW self, Call(self)
      PROVE  ops' = ops + 1 /\ ops' <= MaxOps /\ ops <= ops' /\ now' = now /\ now <= now'
  BY <1>a, <1>b, BoundAssumption DEF Call
<1>c. ASSUME NEW r \in Nat, r <= ops, ops' = ops + 1, ops' <= MaxOps
      PROVE  NextRevision(r) = r + 1
  BY <1>a, <1>c, BoundAssumption DEF NextRevision
<1>1. ASSUME NEW self, NEW interval \in Interval, NEW is_period \in BOOLEAN, NEW c \in Closure,
             AddTimer(self, interval, is_period, c)
      PROVE  RevisionsGrow(i)'
  <2>1. PICK id \in TimerId :
          /\ id = timer_id + 1
          /\ m_timers'[id] = [closure |-> c, interval |-> interval, is_enabled |-> TRUE,
                              is_period |-> is_period, revision |-> 0]
          /\ modified_at'[id] = now
          /\ OthersKept(id)
          /\ Pushed(id, interval, 0)
    BY <1>1, AddEffect
  <2>2. ops <= ops' /\ now' = now /\ now <= now'
    BY <1>1, <1>b DEF AddTimer
  <2>3. CASE i = id
    <3>1. m_timers'[i].revision = 0 /\ m_timers'[i].interval = interval /\ interval \in Nat
      BY <2>1, <2>3, IntervalAssumption
    <3>2. \A t \in DOMAIN m_timeouts : t.timer_id # i
      BY <2>1, <2>3 DEF IdsIssued, TypeOK, TimerId, Timeout
    <3> QED
      BY <1>a, <2>1, <2>2, <2>3, <3>1, <3>2 DEF RevisionsGrow, Pushed
  <2>4. CASE i # id
    <3>1. TimerKept(i) /\ TimeoutsKept(i)
      BY <2>1, <2>4 DEF OthersKept, Pushed, Exists, TimerKept, TimeoutsKept
    <3> QED
      BY <1>a, <2>2, <3>1, RevisionsKept
  <2> QED
    BY <2>3, <2>4
<1>2. ASSUME NEW self, NEW id, NEW interval \in Interval, NEW c \in Closure \cup {None},
             ModifyTimer(self, id, interval, c)
      PROVE  RevisionsGrow(i)'
  <2>1. ops' = ops + 1 /\ ops' <= MaxOps /\ ops <= ops' /\ now' = now /\ now <= now'
    BY <1>2, <1>b DEF ModifyTimer
  <2>0. /\ id \in TimerId /\ m_timers[id] \in TimerEntry /\ m_timers[id] # None
        /\ m_timers'[id].interval = interval
        /\ m_timers'[id].revision = NextRevision(m_timers[id].revision)
        /\ modified_at'[id] = now
        /\ OthersKept(id)
        /\ IF m_timers[id].is_enabled
             THEN Pushed(id, interval, NextRevision(m_timers[id].revision))
             ELSE UNCHANGED m_timeouts
    <3>1. Modifies(id, interval)
      BY <1>2, ModifyRevision, Zenon
    <3> QED
      BY ONLY <3>1 DEF Modifies
  <2>2. CASE i = id
    <3> DEFINE r == m_timers[i].revision
    <3>0. m_timers[i] \in TimerEntry /\ Exists(i)
      BY <2>0, <2>2, Zenon DEF Exists
    <3>1. Exists(i) /\ r \in Nat /\ interval \in Nat
      <4>1. m_timers[i].revision \in 0 .. RevisionMod - 1
        BY <3>0 DEF TimerEntry
      <4>2. interval \in Nat
        BY IntervalAssumption
      <4> QED BY <3>0, <4>1, <4>2
    <3>2. r <= ops /\ \A t \in DOMAIN m_timeouts : t.timer_id = i => t.revision <= r
      BY <3>1 DEF RevisionsGrow
    <3>3. NextRevision(r) = r + 1
      BY <1>c, <2>1, <3>1, <3>2
    <3>4. m_timers'[i].revision = r + 1 /\ m_timers'[i].interval = interval /\ modified_at'[i] = now
      BY <2>0, <2>2, <3>3
    <3>5. \A t \in DOMAIN m_timeouts' :
            t \in DOMAIN m_timeouts \/ (t.time = now + interval /\ t.revision = r + 1)
      BY <2>0, <2>2, <3>3 DEF Pushed
    <3>6. \A t \in DOMAIN m_timeouts : t.revision \in Nat
      BY DEF TypeOK, Timeout
    <3> HIDE DEF r
    <3>7. \A t \in DOMAIN m_timeouts' : t.timer_id = i =>
            t.revision <= r + 1 /\ (t.revision = r + 1 => t.time >= now + interval)
      BY <1>a, <3>1, <3>2, <3>5, <3>6
    <3>8. r + 1 <= ops' /\ now <= now'
      BY <1>a, <2>1, <3>1, <3>2
    <3> QED
      BY <3>4, <3>7, <3>8, Zenon DEF RevisionsGrow
  <2>3. CASE i # id
    <3>1. TimerKept(i)
      BY <2>0, <2>3 DEF OthersKept, Exists, TimerKept
    <3>2. TimeoutsKept(i)
      BY <2>0, <2>3 DEF Pushed, TimeoutsKept
    <3> QED
      BY <1>a, <2>1, <3>1, <3>2, RevisionsKept
  <2> QED
    BY <2>2, <2>3
<1>3. ASSUME NEW self, NEW id, DisableTimer(self, id)
      PROVE  RevisionsGrow(i)'
  <2>1. ops' = ops + 1 /\ ops' <= MaxOps /\ ops <= ops' /\ now' = now /\ now <= now' /\ UNCHANGED m_timeouts
    BY <1>3, <1>b DEF DisableTimer
  <2>0. /\ id \in TimerId /\ m_timers[id] \in TimerEntry /\ m_timers[id] # None
        /\ m_timers'[id].revision = NextRevision(m_timers[id].revision)
        /\ modified_at'[id] = now
        /\ OthersKept(id)
    BY <1>3, DisableEffect
  <2>2. CASE i = id
    <3> DEFINE r == m_timers[i].revision
    <3>1. Exists(i) /\ r \in Nat
      BY <2>0, <2>2 DEF Exists, TimerEntry
    <3>2. r <= ops /\ \A t \in DOMAIN m_timeouts : t.timer_id = i => t.revision <= r
      BY <3>1 DEF RevisionsGrow
    <3>3. NextRevision(r) = r + 1
      BY <1>c, <2>1, <3>1, <3>2
    <3>4. m_timers'[i].revision = r + 1 /\ modified_at'[i] = now
      BY <2>0, <2>2, <3>3
    <3>5. \A t \in DOMAIN m_timeouts : t.revision \in Nat
      BY DEF TypeOK, Timeout
    <3> HIDE DEF r
    <3>6. \A t \in DOMAIN m_timeouts' : t.timer_id = i => t.revision <= r + 1 /\ t.revision # r + 1
      BY <2>1, <3>1, <3>2, <3>5
    <3>7. r + 1 <= ops' /\ now <= now'
      BY <1>a, <2>1, <3>1, <3>2
    <3> QED
      BY <3>4, <3>6, <3>7 DEF RevisionsGrow
  <2>3. CASE i # id
    <3>1. TimerKept(i) /\ TimeoutsKept(i)
      BY <2>0, <2>1, <2>3 DEF OthersKept, Exists, TimerKept, TimeoutsKept
    <3> QED
      BY <1>a, <2>1, <3>1, RevisionsKept
  <2> QED
    BY <2>2, <2>3
<1>4. ASSUME NEW self, NEW id, EnableTimer(self, id)
      PROVE  RevisionsGrow(i)'
  <2>1. ops <= ops' /\ now <= now'
    BY <1>4, <1>b DEF EnableTimer
  <2>0. /\ m_timers[id] # None /\ id \in TimerId
        /\ m_timers'[id].interval = m_timers[id].interval
        /\ m_timers'[id].revision = m_timers[id].revision
        /\ OthersKept(id) /\ UNCHANGED modified_at
        /\ Pushed(id, m_timers[id].interval, m_timers[id].revision)
    BY <1>4, EnableEffect
  <2>2. TimerKept(i)
    BY <2>0 DEF Exists, OthersKept, TimerKept
  <2>3. TimeoutsKept(i)
    BY <2>0 DEF Pushed, TimeoutsKept
  <2> QED
    BY <1>a, <2>1, <2>2, <2>3, RevisionsKept
<1>5. ASSUME NEW id, RemoveTimer(id) \/ \E self : AsyncRemoveTimer(self, id)
      PROVE  RevisionsGrow(i)'
  <2>1. ops <= ops' /\ now <= now' /\ UNCHANGED <<m_timeouts, modified_at>> /\ AsyncRemoveTimerNoLock(id)
    BY <1>5, <1>b DEF RemoveTimer, AsyncRemoveTimer
  <2>2. TimerKept(i) /\ TimeoutsKept(i)
    BY <2>1, RemoveEffect DEF Exists, TimerKept, TimeoutsKept
  <2> QED
    BY <1>a, <2>1, <2>2, RevisionsKept
<1>6. ASSUME StopJoin \/ \E self : Clear(self)
      PROVE  RevisionsGrow(i)'
  BY <1>6 DEF StopJoin, Clear, ClearAll, RevisionsGrow, Exists
<1>7. ASSUME NEW t \in DOMAIN m_timeouts, DequeueTimeoutEntry(t)
      PROVE  RevisionsGrow(i)'
  <2>1. ops <= ops' /\ now <= now'
    BY <1>a, <1>7 DEF DequeueTimeoutEntry, history
  <2>2. DOMAIN m_timeouts' \subseteq DOMAIN m_timeouts
    BY <1>7, PopDomain DEF DequeueTimeoutEntry
  <2>3. TimerKept(i)
    BY <1>7, DequeueEffect DEF Exists, OthersKept, TimerKept
  <2> QED
    BY <1>a, <2>1, <2>2, <2>3, RevisionsKept DEF TimeoutsKept
<1>8. CASE DispatchFinish
  <2>1. ops <= ops' /\ now <= now'
    BY <1>a, <1>8 DEF DispatchFinish
  <2>2. CASE entry.is_period /\ Exists(m_running_timer)
    <3>1. TimerKept(i)
      BY <1>8, <2>2, FinishEffect DEF Exists, OthersKept, TimerKept
    <3>2. TimeoutsKept(i)
      <4>1. PICK id: id = m_running_timer
        OBVIOUS
      <4>2. \/ Pushed(id, m_timers[id].interval, m_timers[id].revision)
            \/ UNCHANGED m_timeouts
        BY <1>8, <2>2, <4>1, FinishEffect, Zenon
      <4> QED BY <4>2 DEF Pushed, TimeoutsKept
    <3> QED
      BY <1>a, <2>1, <3>1, <3>2, RevisionsKept
  <2>3. CASE ~(entry.is_period /\ Exists(m_running_timer))
    <3>1. TimerKept(i) /\ TimeoutsKept(i)
      BY <1>8, <2>3 DEF DispatchFinish, Exists, TimerKept, TimeoutsKept
    <3> QED
      BY <1>a, <2>1, <3>1, RevisionsKept
  <2> QED
    BY <2>2, <2>3
<1>9. ASSUME NEW t \in DOMAIN m_timeouts, DequeueOutdated(t)
      PROVE  RevisionsGrow(i)'
  <2>1. ops <= ops' /\ now <= now' /\ UNCHANGED <<m_timers, modified_at>>
    BY <1>a, <1>9 DEF DequeueOutdated, history
  <2>2. DOMAIN m_timeouts' \subseteq DOMAIN m_timeouts
    BY <1>9, PopDomain DEF DequeueOutdated
  <2> QED
    BY <1>a, <2>1, <2>2, RevisionsKept DEF Exists, TimerKept, TimeoutsKept
<1>10. ASSUME \/ StopRequest \/ EntryWait \/ EntryBreak \/ Wake \/ DispatchDone \/ Tick
              \/ UNCHANGED vars
       PROVE  RevisionsGrow(i)'
  <2>1. UNCHANGED <<m_timers, m_timeouts, modified_at, ops>> /\ (now' = now \/ now' = now + 1)
    BY <1>10
       DEF StopRequest, EntryWait, EntryBreak, Wake, DispatchDone, Tick, manager, thread, history, vars
  <2>2. TimerKept(i) /\ TimeoutsKept(i)
    BY <2>1 DEF Exists, TimerKept, TimeoutsKept
  <2>3. ops <= ops' /\ now <= now'
    BY <1>a, <2>1
  <2> QED
    BY <1>a, <2>2, <2>3, RevisionsKept
<1> QED
  BY <1>1, <1>2, <1>3, <1>4, <1>5, <1>6, <1>7, <1>8, <1>9, <1>10
     DEF Next, Operation, TimerThread, WaitReturns, SpuriousWake

-----------------------------------------------------------------------------
(* The theorems.                                                           *)

\* The constructor establishes the invariants.
LEMMA InvInit ==
  Init => /\ ManagerInv /\ ClosureOwnership /\ EnabledIsScheduled /\ WakesInTime
          /\ \A i \in TimerId : RevisionsGrow(i)
<1> SUFFICES ASSUME Init
             PROVE  /\ ManagerInv /\ ClosureOwnership /\ EnabledIsScheduled /\ WakesInTime
                    /\ \A i \in TimerId : RevisionsGrow(i)
  OBVIOUS
<1>1. \A id \in TimerId : ~Exists(id)
  BY DEF Init, Exists
<1>2. DOMAIN m_timeouts = {}
  BY DEF Init
<1>3. ClosureOwnership
  BY <1>1, Zenon DEF Init, ClosureOwnership, HeldInMap, HeldRunning
<1>4. EnabledIsScheduled /\ WakesInTime /\ \A i \in TimerId : RevisionsGrow(i)
  BY <1>1, <1>2 DEF Init, EnabledIsScheduled, WakesInTime, RevisionsGrow
<1> QED
  BY <1>3, <1>4, ManagerInit

\* Every closure given to the manager is deleted exactly once: whether its timer
\* is modified, removed, cleared or stopped, while it waits or while it runs.
THEOREM ClosuresOwned == Spec => []ClosureOwnership
<1> DEFINE Inv == ManagerInv /\ ClosureOwnership
<1>1. Init => Inv
  BY InvInit
<1>2. Inv /\ [Next]_vars => Inv'
  BY ManagerStep, OwnershipStep DEF ManagerInv
<1> QED
  BY <1>1, <1>2, PTL DEF Spec

\* An enabled timer is running or queued with its current revision, and the timer
\* thread is due to wake up, or signalled, before any timeout passes.
THEOREM NoTimerLost == Spec => []TimersWillFire
<1> DEFINE Inv == ManagerInv /\ EnabledIsScheduled /\ WakesInTime
<1>1. Init => Inv
  BY InvInit
<1>2. Inv /\ [Next]_vars => Inv'
  BY ManagerStep, ScheduleStep, WakesStep DEF ManagerInv
<1>3. Inv => TimersWillFire
  BY DEF TimersWillFire
<1> QED
  BY <1>1, <1>2, <1>3, PTL DEF Spec

\* As long as fewer operations are called than the revision has values, Dispatch
\* honours no timeout set before the timer's last modification.  The hypothesis
\* is needed: with RevisionMod modifications the revision comes round.
THEOREM OutdatedDiscarded ==
  ASSUME MaxOps < RevisionMod
  PROVE  Spec => []OutdatedNeverLive
<1> DEFINE Inv == ManagerInv /\ \A i \in TimerId : RevisionsGrow(i)
<1>1. Init => Inv
  BY InvInit
<1>2. Inv /\ [Next]_vars => Inv'
  <2>1. ASSUME ManagerInv, [Next]_vars, NEW i \in TimerId, RevisionsGrow(i)
        PROVE  RevisionsGrow(i)'
    BY <2>1, RevisionsStep DEF ManagerInv
  <2> QED
    BY <2>1, ManagerStep
<1>3. Inv => OutdatedNeverLive
  BY DEF OutdatedNeverLive, RevisionsGrow, Live, Exists
<1> QED
  BY <1>1, <1>2, <1>3, PTL DEF Spec

=============================================================================
