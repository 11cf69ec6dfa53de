------------------------------- MODULE Waiting ------------------------------
(***************************************************************************)
(* The objects that threads wait on: the two events of                     *)
(* system/threading/event and the blocking queue.                          *)
(***************************************************************************)
EXTENDS Naturals, Sequences, FiniteSets

(***************************************************************************)
(* toft::AutoResetEvent (system/threading/event.{h,cpp}) with the          *)
(* ConditionVariable under it.  An action is one critical section of       *)
(* m_mutex: a call up to the point where it returns or blocks in m_cond,   *)
(* or what a thread does once m_cond has let it go and it has the mutex    *)
(* again.  A wait in m_cond ends by a signal, spuriously, or, for          *)
(* TimedWait, when its time is up.                                         *)
(***************************************************************************)
CONSTANTS
  Thread,     \* threads that wait for the event
  InitState,  \* the constructor's argument
  MaxSets     \* bound on the number of calls of Set

ASSUME InitAssumption  == InitState \in BOOLEAN
ASSUME BoundAssumption == MaxSets \in Nat

VARIABLES
  m_signaled,
  pc,         \* "idle", or in a wait: "blocked" in m_cond, or "awake" again
  timed,      \* the wait is a TimedWait
  expired     \* and its timeout has passed

\* History, read by the properties only.
VARIABLES
  sets, released,  \* calls of Set, and waits that ended with the signal
  early            \* a TimedWait returned false before its timeout

auto_vars == <<m_signaled, pc, timed, expired, sets, released, early>>

Blocked == {t \in Thread : pc[t] = "blocked"}

Take(t) ==
  /\ m_signaled
  /\ m_signaled' = FALSE
  /\ pc' = [pc EXCEPT ![t] = "idle"]
  /\ released' = released + 1
  /\ UNCHANGED <<sets, early>>

Block(t) ==
  /\ ~m_signaled
  /\ pc' = [pc EXCEPT ![t] = "blocked"]
  /\ UNCHANGED <<m_signaled, sets, released, early>>

Call(t, with_timeout) ==
  /\ pc[t] = "idle"
  /\ timed' = [timed EXCEPT ![t] = with_timeout]
  /\ expired' = [expired EXCEPT ![t] = FALSE]
  /\ Take(t) \/ Block(t)

Wait(t) == Call(t, FALSE)

\* TryWait is TimedWait(0).
TimedWait(t) == Call(t, TRUE)

\* Faulty: if (!m_signaled) in place of while.
WaitAwakeOnce(t) ==
  /\ pc[t] = "awake"
  /\ ~timed[t]
  /\ m_signaled' = FALSE
  /\ pc' = [pc EXCEPT ![t] = "idle"]
  /\ released' = released + 1
  /\ UNCHANGED <<timed, expired, sets, early>>

\* Wait tests m_signaled again.
WaitAwake(t) ==
  /\ pc[t] = "awake"
  /\ ~timed[t]
  /\ Take(t) \/ Block(t)
  /\ UNCHANGED <<timed, expired>>

\* TimedWait does not go back to m_cond.
TimedWaitAwake(t) ==
  /\ pc[t] = "awake"
  /\ timed[t]
  /\ \/ Take(t)
     \/ /\ ~m_signaled
        /\ pc' = [pc EXCEPT ![t] = "idle"]
        /\ early' = (early \/ ~expired[t])
        /\ UNCHANGED <<m_signaled, sets, released>>
  /\ UNCHANGED <<timed, expired>>

\* Faulty: no m_cond.Signal().
SetSilently ==
  /\ sets < MaxSets
  /\ sets' = sets + 1
  /\ m_signaled' = TRUE
  /\ UNCHANGED <<pc, timed, expired, released, early>>

\* m_cond.Signal() wakes one of the threads blocked, if there is one.
Set ==
  /\ sets < MaxSets
  /\ sets' = sets + 1
  /\ m_signaled' = TRUE
  /\ \/ Blocked = {} /\ UNCHANGED pc
     \/ \E t \in Blocked : pc' = [pc EXCEPT ![t] = "awake"]
  /\ UNCHANGED <<timed, expired, released, early>>

Reset ==
  /\ m_signaled' = FALSE
  /\ UNCHANGED <<pc, timed, expired, sets, released, early>>

SpuriousWakeup(t) ==
  /\ pc[t] = "blocked"
  /\ pc' = [pc EXCEPT ![t] = "awake"]
  /\ UNCHANGED <<m_signaled, timed, expired, sets, released, early>>

Timeout(t) ==
  /\ pc[t] = "blocked"
  /\ timed[t]
  /\ pc' = [pc EXCEPT ![t] = "awake"]
  /\ expired' = [expired EXCEPT ![t] = TRUE]
  /\ UNCHANGED <<m_signaled, timed, sets, released, early>>

-----------------------------------------------------------------------------
AutoInit ==
  /\ m_signaled = InitState
  /\ pc = [t \in Thread |-> "idle"]
  /\ timed = [t \in Thread |-> FALSE]
  /\ expired = [t \in Thread |-> FALSE]
  /\ sets = 0
  /\ released = 0
  /\ early = FALSE

AutoNext ==
  \/ Set
  \/ Reset
  \/ \E t \in Thread :
       \/ Wait(t)
       \/ TimedWait(t)
       \/ WaitAwake(t)
       \/ TimedWaitAwake(t)
       \/ SpuriousWakeup(t)
       \/ Timeout(t)

AutoSpec == AutoInit /\ [][AutoNext]_auto_vars

\* A thread that m_cond has let go gets the mutex, and timeouts pass.
AutoFairness ==
  \A t \in Thread : WF_auto_vars(WaitAwake(t) \/ TimedWaitAwake(t)) /\ WF_auto_vars(Timeout(t))

-----------------------------------------------------------------------------
AutoTypeOK ==
  /\ m_signaled \in BOOLEAN
  /\ pc \in [Thread -> {"idle", "blocked", "awake"}]
  /\ timed \in [Thread -> BOOLEAN]
  /\ expired \in [Thread -> BOOLEAN]
  /\ sets \in 0 .. MaxSets
  /\ released \in Nat
  /\ early \in BOOLEAN

\* A Set lets at most one wait through, whether its signal or a spurious
\* wakeup ended the wait.
OneReleasePerSet ==
  released + (IF m_signaled THEN 1 ELSE 0) <= sets + (IF InitState THEN 1 ELSE 0)

\* Set wakes a thread or meets none: as long as the event stays signaled with
\* threads blocked in Wait, one of the waiting threads is about to look at it.
NoLostWakeup == m_signaled => Blocked = {} \/ \E t \in Thread : pc[t] = "awake"

\* A signaled event does not stay so with threads waiting for it.
SignalIsTaken == []<>~(m_signaled /\ \E t \in Thread : pc[t] # "idle")

-----------------------------------------------------------------------------
(***************************************************************************)
(* toft::ManualResetEvent (system/threading/event.{h,cpp}), modelled like  *)
(* AutoResetEvent: an action is one critical section of m_mutex.           *)
(***************************************************************************)
VARIABLES
  manual_signaled,
  manual_pc,         \* "idle", or in a wait: "blocked" in m_cond, or "awake" again
  manual_timed       \* the wait is a TimedWait

manual_vars == <<manual_signaled, manual_pc, manual_timed>>

\* The call or the woken thread blocks, or returns.
Go(t, where) ==
  /\ manual_pc' = [manual_pc EXCEPT ![t] = where]
  /\ UNCHANGED manual_signaled

ManualCall(t, with_timeout) ==
  /\ manual_pc[t] = "idle"
  /\ manual_timed' = [manual_timed EXCEPT ![t] = with_timeout]
  /\ Go(t, IF manual_signaled THEN "idle" ELSE "blocked")

ManualWait(t) == ManualCall(t, FALSE)

\* TryWait is TimedWait(0).
ManualTimedWait(t) == ManualCall(t, TRUE)

\* Wait tests m_signaled again.
ManualWaitAwake(t) ==
  /\ manual_pc[t] = "awake"
  /\ ~manual_timed[t]
  /\ UNCHANGED manual_timed
  /\ Go(t, IF manual_signaled THEN "idle" ELSE "blocked")

\* TimedWait returns m_signaled.
ManualTimedWaitAwake(t) ==
  /\ manual_pc[t] = "awake"
  /\ manual_timed[t]
  /\ UNCHANGED manual_timed
  /\ Go(t, "idle")

\* Faulty: m_cond.Signal() in place of Broadcast().
SetWakesOne ==
  /\ manual_signaled' = TRUE
  /\ \/ \A t \in Thread : manual_pc[t] # "blocked" /\ UNCHANGED manual_pc
     \/ \E t \in Thread : manual_pc[t] = "blocked" /\ manual_pc' = [manual_pc EXCEPT ![t] = "awake"]
  /\ UNCHANGED manual_timed

\* m_cond.Broadcast() wakes all threads blocked.
ManualSet ==
  /\ manual_signaled' = TRUE
  /\ manual_pc' = [t \in Thread |-> IF manual_pc[t] = "blocked" THEN "awake" ELSE manual_pc[t]]
  /\ UNCHANGED manual_timed

ManualReset ==
  /\ manual_signaled' = FALSE
  /\ UNCHANGED <<manual_pc, manual_timed>>

\* A spurious wakeup, or the timeout of a TimedWait.
Wakeup(t) ==
  /\ manual_pc[t] = "blocked"
  /\ manual_pc' = [manual_pc EXCEPT ![t] = "awake"]
  /\ UNCHANGED <<manual_signaled, manual_timed>>

-----------------------------------------------------------------------------
ManualInit ==
  /\ manual_signaled = InitState
  /\ manual_pc = [t \in Thread |-> "idle"]
  /\ manual_timed = [t \in Thread |-> FALSE]

ManualNext ==
  \/ ManualSet
  \/ ManualReset
  \/ \E t \in Thread : ManualWait(t) \/ ManualTimedWait(t) \/ ManualWaitAwake(t) \/ ManualTimedWaitAwake(t) \/ Wakeup(t)

ManualSpec == ManualInit /\ [][ManualNext]_manual_vars

\* A thread that m_cond has let go gets the mutex.
ManualFairness == \A t \in Thread : WF_manual_vars(ManualWaitAwake(t) \/ ManualTimedWaitAwake(t))

-----------------------------------------------------------------------------
ManualTypeOK ==
  /\ manual_signaled \in BOOLEAN
  /\ manual_pc \in [Thread -> {"idle", "blocked", "awake"}]
  /\ manual_timed \in [Thread -> BOOLEAN]

\* A waiting thread is released unless the event is reset before it has looked.
WaitersReleased == \A t \in Thread : []<>~(manual_signaled /\ manual_pc[t] # "idle")

-----------------------------------------------------------------------------
(***************************************************************************)
(* toft::BlockingQueue (container/blocking_queue.hpp).  An action is one   *)
(* critical section of m_mutex; Push broadcasts after it has released the  *)
(* mutex.  Size, Front and Back change nothing and are left out.  The      *)
(* elements are numbered in the order in which they are pushed.            *)
(***************************************************************************)
CONSTANTS
  Producer, Consumer,   \* threads that push, threads that pop
  MaxPush               \* bound on the number of elements pushed

VARIABLES
  m_queue,
  producer,    \* per producer: "idle", or "broadcast" after the push
  consumer,    \* per consumer: "idle", or in Pop: "blocked" in m_cond, or "awake"
  queue_timed  \* the Pop has a timeout

\* History, read by the properties only.
VARIABLES pushed, popped     \* number of pushes; the elements popped, in order

queue_vars == <<m_queue, producer, consumer, queue_timed, pushed, popped>>

\* Faulty: elements are pushed in front.
PushFront(p) ==
  /\ pushed < MaxPush
  /\ producer[p] = "idle"
  /\ m_queue' = <<pushed + 1>> \o m_queue
  /\ pushed' = pushed + 1
  /\ producer' = [producer EXCEPT ![p] = "broadcast"]
  /\ UNCHANGED <<consumer, queue_timed, popped>>

Push(p) ==
  /\ pushed < MaxPush
  /\ producer[p] = "idle"
  /\ m_queue' = Append(m_queue, pushed + 1)
  /\ pushed' = pushed + 1
  /\ producer' = [producer EXCEPT ![p] = "broadcast"]
  /\ UNCHANGED <<consumer, queue_timed, popped>>

\* Faulty: Signal in place of Broadcast, to a consumer that may be gone.
PushSignals(p) ==
  /\ producer[p] = "broadcast"
  /\ producer' = [producer EXCEPT ![p] = "idle"]
  /\ UNCHANGED <<m_queue, consumer, queue_timed, pushed, popped>>

PushBroadcasts(p) ==
  /\ producer[p] = "broadcast"
  /\ producer' = [producer EXCEPT ![p] = "idle"]
  /\ consumer' = [c \in Consumer |-> IF consumer[c] = "blocked" THEN "awake" ELSE consumer[c]]
  /\ UNCHANGED <<m_queue, queue_timed, pushed, popped>>

QueueTake(c) ==
  /\ m_queue # << >>
  /\ m_queue' = Tail(m_queue)
  /\ popped' = Append(popped, Head(m_queue))
  /\ consumer' = [consumer EXCEPT ![c] = "idle"]
  /\ UNCHANGED <<producer, pushed>>

QueueBlock(c) ==
  /\ m_queue = << >>
  /\ consumer' = [consumer EXCEPT ![c] = "blocked"]
  /\ UNCHANGED <<m_queue, producer, pushed, popped>>

\* Pop with and without a timeout.
Pop(c, with_timeout) ==
  /\ consumer[c] = "idle"
  /\ queue_timed' = [queue_timed EXCEPT ![c] = with_timeout]
  /\ QueueTake(c) \/ QueueBlock(c)

\* The loop of Pop without a timeout tests the queue again.
PopAwake(c) ==
  /\ consumer[c] = "awake"
  /\ ~queue_timed[c]
  /\ QueueTake(c) \/ QueueBlock(c)
  /\ UNCHANGED queue_timed

\* Pop with a timeout takes an element or returns false.
TimedPopAwake(c) ==
  /\ consumer[c] = "awake"
  /\ queue_timed[c]
  /\ \/ QueueTake(c)
     \/ /\ m_queue = << >>
        /\ consumer' = [consumer EXCEPT ![c] = "idle"]
        /\ UNCHANGED <<m_queue, producer, pushed, popped>>
  /\ UNCHANGED queue_timed

\* A spurious wakeup, or the timeout.
QueueWakeup(c) ==
  /\ consumer[c] = "blocked"
  /\ consumer' = [consumer EXCEPT ![c] = "awake"]
  /\ UNCHANGED <<m_queue, producer, queue_timed, pushed, popped>>

-----------------------------------------------------------------------------
QueueInit ==
  /\ m_queue = << >>
  /\ producer = [p \in Producer |-> "idle"]
  /\ consumer = [c \in Consumer |-> "idle"]
  /\ queue_timed = [c \in Consumer |-> FALSE]
  /\ pushed = 0
  /\ popped = << >>

QueueNext ==
  \/ \E p \in Producer : Push(p) \/ PushBroadcasts(p)
  \/ \E c \in Consumer :
       \/ \E with_timeout \in BOOLEAN : Pop(c, with_timeout)
       \/ PopAwake(c)
       \/ TimedPopAwake(c)
       \/ QueueWakeup(c)

QueueSpec == QueueInit /\ [][QueueNext]_queue_vars

\* A producer finishes Push, and a consumer that m_cond has let go gets the mutex.
QueueFairness ==
  /\ \A p \in Producer : WF_queue_vars(PushBroadcasts(p))
  /\ \A c \in Consumer : WF_queue_vars(PopAwake(c) \/ TimedPopAwake(c))

-----------------------------------------------------------------------------
QueueTypeOK ==
  /\ m_queue \in Seq(Nat)
  /\ producer \in [Producer -> {"idle", "broadcast"}]
  /\ consumer \in [Consumer -> {"idle", "blocked", "awake"}]
  /\ queue_timed \in [Consumer -> BOOLEAN]
  /\ pushed \in 0 .. MaxPush
  /\ popped \in Seq(Nat)

\* Every element is popped once, and in the order of the pushes, whichever
\* consumers take part.
FifoOnce == popped \o m_queue = [k \in 1 .. pushed |-> k]

\* A consumer in Pop does not stay there while the queue has elements.
ElementIsTaken == \A c \in Consumer : []<>~(m_queue # << >> /\ consumer[c] # "idle")
=============================================================================
