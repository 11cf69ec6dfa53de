---------------------------- MODULE TimerManager ----------------------------
(***************************************************************************)
(* toft::TimerManager (system/timer/timer_manager.{h,cpp}): a map of       *)
(* timers, a priority queue of timeouts, and one thread that waits for the *)
(* earliest timeout and runs the closure of its timer without holding the  *)
(* mutex.                                                                  *)
(*                                                                         *)
(* One action is one critical section of m_mutex.  Operations are called   *)
(* by threads of the program (self = "client") or by the closure that the  *)
(* timer thread is running (self = "timer"); the code tells them apart by  *)
(* comparing thread ids.  Callers keep the contract the code asserts: no   *)
(* operation once Stop has joined the thread, and every closure handed in  *)
(* is a new one ("new closure should be different").                       *)
(***************************************************************************)
EXTENDS Integers, TLC

CONSTANTS
  Closure,      \* closures the callers can hand to the manager
  Interval,     \* intervals, in milliseconds
  RevisionMod,  \* number of values of TimerEntry::revision, 256 for uint8_t
  MaxTimers,    \* bound: timers added
  MaxOps,       \* bound: operations called
  MaxTime,      \* bound: the clock
  None          \* "absent": no entry, a null closure, an infinite wait

ASSUME IntervalAssumption == Interval \subseteq Nat
ASSUME BoundAssumption ==
  /\ MaxTimers \in Nat /\ MaxOps \in Nat /\ MaxTime \in Nat
  /\ RevisionMod \in Nat \ {0}

TimerId == 1 .. MaxTimers

\* TimerManager::TimerEntry and TimerManager::Timeout
TimerEntry == [closure : Closure \cup {None}, interval : Nat, is_enabled : BOOLEAN,
               is_period : BOOLEAN, revision : 0 .. RevisionMod - 1]
Timeout == [time : Nat, timer_id : TimerId, revision : 0 .. RevisionMod - 1]

ASSUME NoneAssumption == None \notin Closure /\ None \notin TimerEntry /\ None \notin Nat

VARIABLES
  now,              \* GetTimestampInMs()
  timer_id,         \* the static counter of NewTimerId
  m_timers,         \* TimerId -> TimerEntry, or None where the map has no key
  m_timeouts,       \* the priority queue: a bag, equal timeouts may repeat
  m_running_timer,  \* id of the timer whose closure runs, 0 for none
  pc,               \* where the timer thread is
  entry,            \* Dispatch's local copy of the entry it runs
  deadline,         \* when the timer thread's TimedWait ends, None for Wait
  signaled,         \* m_cond was signalled while the timer thread waits
  stop              \* "no", "requested" by Stop, or "joined" and cleared

\* History: what callers did and when, read by the properties only.
VARIABLES
  ops,              \* operations called so far
  given,            \* closures handed to the manager
  deletes,          \* how often each closure was deleted
  modified_at,      \* when the timer was added, modified or disabled last
  sync_removed      \* timers for which a client's RemoveTimer has returned

manager == <<timer_id, m_timers, m_timeouts, m_running_timer, entry>>
thread  == <<pc, deadline, signaled>>
history == <<ops, given, deletes, modified_at, sync_removed>>
vars    == <<now, manager, thread, stop, history>>

-----------------------------------------------------------------------------
(* Helpers of the manager.                                                 *)

Exists(id) == id \in TimerId /\ m_timers[id] # None

\* A closure of None is the null pointer: deleting it does nothing.
Deleted(c) == IF c = None THEN deletes ELSE [deletes EXCEPT ![c] = @ + 1]

Earliest(time) == \A t \in DOMAIN m_timeouts : time <= t.time

\* The priority queue holds each timeout a number of times: push, and pop of t.
QueuePush(queue, t) ==
  IF t \in DOMAIN queue THEN [queue EXCEPT ![t] = @ + 1]
  ELSE [u \in DOMAIN queue \cup {t} |-> IF u = t THEN 1 ELSE queue[u]]

QueuePop(queue, t) ==
  IF queue[t] = 1 THEN [u \in DOMAIN queue \ {t} |-> queue[u]] ELSE [queue EXCEPT ![t] = @ - 1]

PushNextTimeout(id, interval, revision) ==
  QueuePush(m_timeouts, [time |-> now + interval, timer_id |-> id, revision |-> revision])

\* m_cond.Signal() reaches the timer thread only while it waits.
Signal == signaled' = (signaled \/ pc = "waiting")

\* Faulty: the first timeout does not signal.
SetNextTimeoutSilent(self, id, interval, revision) ==
  /\ m_timeouts' = PushNextTimeout(id, interval, revision)
  /\ IF /\ self # "timer"
        /\ DOMAIN m_timeouts # {}
        /\ \A u \in DOMAIN m_timeouts : u.time > now + interval
       THEN Signal
       ELSE UNCHANGED signaled

\* The timer thread itself never signals; others only when the new timeout is
\* the earliest one or the first one.
SetNextTimeout(self, id, interval, revision) ==
  /\ m_timeouts' = PushNextTimeout(id, interval, revision)
  /\ IF self # "timer" /\ \A u \in DOMAIN m_timeouts : u.time > now + interval
       THEN Signal
       ELSE UNCHANGED signaled

\* Faulty: the revision is not advanced.
SameRevision(revision) == revision

NextRevision(revision) == (revision + 1) % RevisionMod

-----------------------------------------------------------------------------
(* Operations.                                                             *)

\* The caller: a client at any time before Join, or the running closure.
Call(self) ==
  /\ ops < MaxOps
  /\ ops' = ops + 1
  /\ stop # "joined"
  /\ self = "timer" => pc = "running"
  /\ UNCHANGED <<now, m_running_timer, entry, pc, deadline, stop>>

AddTimer(self, interval, is_period, c) ==
  LET id == timer_id + 1 IN
  /\ Call(self)
  /\ id \in TimerId
  /\ c \notin given
  /\ timer_id' = id
  /\ m_timers' = [m_timers EXCEPT ![id] =
                    [closure |-> c, interval |-> interval, is_enabled |-> TRUE,
                     is_period |-> is_period, revision |-> 0]]
  /\ SetNextTimeout(self, id, interval, 0)
  /\ given' = given \cup {c}
  /\ modified_at' = [modified_at EXCEPT ![id] = now]
  /\ UNCHANGED <<deletes, sync_removed>>

\* ModifyTimer(id, interval, closure), and with c = None ModifyTimer(id, interval),
\* which keeps the closure.
ModifyTimer(self, id, interval, c) ==
  LET revision == NextRevision(m_timers[id].revision) IN
  /\ Call(self)
  /\ Exists(id)
  /\ c \notin given
  /\ m_timers' = [m_timers EXCEPT
                    ![id].interval = interval,
                    ![id].revision = revision,
                    ![id].closure  = IF c = None THEN @ ELSE c]
  /\ IF c = None
       THEN UNCHANGED <<given, deletes>>
       ELSE given' = given \cup {c} /\ deletes' = Deleted(m_timers[id].closure)
  /\ IF m_timers[id].is_enabled
       THEN SetNextTimeout(self, id, interval, revision)
       ELSE UNCHANGED <<m_timeouts, signaled>>
  /\ modified_at' = [modified_at EXCEPT ![id] = now]
  /\ UNCHANGED <<timer_id, sync_removed>>

DisableTimer(self, id) ==
  /\ Call(self)
  /\ Exists(id)
  /\ m_timers' = [m_timers EXCEPT ![id].is_enabled = FALSE,
                                  ![id].revision = NextRevision(@)]
  /\ modified_at' = [modified_at EXCEPT ![id] = now]
  /\ UNCHANGED <<timer_id, m_timeouts, signaled, given, deletes, sync_removed>>

EnableTimer(self, id) ==
  /\ Call(self)
  /\ Exists(id)
  /\ m_timers' = [m_timers EXCEPT ![id].is_enabled = TRUE]
  /\ SetNextTimeout(self, id, m_timers[id].interval, m_timers[id].revision)
  /\ UNCHANGED <<timer_id, given, deletes, modified_at, sync_removed>>

\* Faulty: the closure is not deleted.
AsyncRemoveTimerLeaks(id) ==
  /\ UNCHANGED deletes
  /\ IF Exists(id) THEN m_timers' = [m_timers EXCEPT ![id] = None] ELSE UNCHANGED m_timers

\* Erases the timer if the map has it; its timeouts stay in the queue.
AsyncRemoveTimerNoLock(id) ==
  IF Exists(id)
    THEN m_timers' = [m_timers EXCEPT ![id] = None] /\ deletes' = Deleted(m_timers[id].closure)
    ELSE UNCHANGED <<m_timers, deletes>>

AsyncRemoveTimer(self, id) ==
  /\ Call(self)
  /\ AsyncRemoveTimerNoLock(id)
  /\ UNCHANGED <<timer_id, m_timeouts, signaled, given, modified_at, sync_removed>>

\* Faulty: the running timer is removed at once.
RemoveTimerUnsynchronised(id) ==
  /\ Call("client")
  /\ AsyncRemoveTimerNoLock(id)
  /\ sync_removed' = sync_removed \cup ({id} \ {0})
  /\ UNCHANGED <<timer_id, m_timeouts, signaled, given, modified_at>>

\* A closure that calls RemoveTimer is on the timer thread and gets
\* AsyncRemoveTimer.  Any other thread polls until the timer does not run: the
\* guard is the poll that succeeds.  The invalid id 0, which is m_running_timer
\* when nothing runs, returns before the poll.
RemoveTimer(id) ==
  /\ Call("client")
  /\ id = 0 \/ id # m_running_timer
  /\ AsyncRemoveTimerNoLock(id)
  /\ sync_removed' = sync_removed \cup ({id} \ {0})
  /\ UNCHANGED <<timer_id, m_timeouts, signaled, given, modified_at>>

\* Every timer and every timeout goes; a running closure is not in the map.
ClearAll ==
  /\ m_timeouts' = [t \in {} |-> 0]
  /\ m_timers' = [id \in TimerId |-> None]
  /\ deletes' = [c \in Closure |->
                   IF \E id \in TimerId : Exists(id) /\ m_timers[id].closure = c
                     THEN deletes[c] + 1 ELSE deletes[c]]

Clear(self) ==
  /\ Call(self)
  /\ ClearAll
  /\ UNCHANGED <<timer_id, signaled, given, modified_at, sync_removed>>

\* Faulty: the timer thread is not woken.
StopRequestSilently ==
  /\ stop = "no"
  /\ stop' = "requested"
  /\ UNCHANGED <<now, manager, pc, deadline, signaled, history>>

\* Stop is called by a client, once: it requests, joins and clears.
StopRequest ==
  /\ stop = "no"
  /\ stop' = "requested"
  /\ Signal
  /\ UNCHANGED <<now, manager, pc, deadline, history>>

StopJoin ==
  /\ stop = "requested"
  /\ pc = "exited"
  /\ stop' = "joined"
  /\ ClearAll
  /\ UNCHANGED <<now, timer_id, m_running_timer, entry, thread, ops, given, modified_at,
                 sync_removed>>

-----------------------------------------------------------------------------
(* The timer thread: Entry, and Dispatch with DequeueTimeoutEntry.          *)

\* Entry's critical section up to the wait; TimedWait(0) is the wait whose
\* deadline has come.
EntryWait ==
  /\ pc = "entry"
  /\ stop = "no"
  /\ pc' = "waiting"
  /\ signaled' = FALSE
  /\ IF DOMAIN m_timeouts = {}
       THEN deadline' = None
       ELSE \E top \in DOMAIN m_timeouts :
              /\ Earliest(top.time)
              /\ deadline' = IF now < top.time THEN top.time ELSE now
  /\ UNCHANGED <<now, manager, stop, history>>

EntryBreak ==
  /\ pc = "entry"
  /\ stop # "no"
  /\ pc' = "exited"
  /\ UNCHANGED <<now, manager, deadline, signaled, stop, history>>

Wake ==
  /\ pc = "waiting"
  /\ pc' = "dispatch"
  /\ signaled' = FALSE
  /\ deadline' = None
  /\ UNCHANGED <<now, manager, stop, history>>

\* The wakeups the condition variable owes the thread, and one it may add.
WaitReturns  == (signaled \/ (deadline # None /\ deadline <= now)) /\ Wake
SpuriousWake == ~signaled /\ Wake

\* DequeueTimeoutEntry returns false: nothing is due.
DispatchDone ==
  /\ pc = "dispatch"
  /\ \A t \in DOMAIN m_timeouts : t.time > now
  /\ pc' = "entry"
  /\ UNCHANGED <<now, manager, deadline, signaled, stop, history>>

\* The earliest timeout, one of several when they are equally early.
Top(t) ==
  /\ t \in DOMAIN m_timeouts
  /\ Earliest(t.time)
  /\ t.time <= now

Live(t) ==
  /\ Exists(t.timer_id)
  /\ m_timers[t.timer_id].is_enabled
  /\ t.revision = m_timers[t.timer_id].revision

DequeueOutdated(t) ==
  /\ pc = "dispatch"
  /\ Top(t)
  /\ ~Live(t)
  /\ m_timeouts' = QueuePop(m_timeouts, t)
  /\ UNCHANGED <<now, timer_id, m_timers, m_running_timer, entry, thread, stop, history>>

\* A period timer stays in the map without its closure, a oneshot leaves it.
DequeueTimeoutEntry(t) ==
  LET id == t.timer_id IN
  /\ pc = "dispatch"
  /\ Top(t)
  /\ Live(t)
  /\ m_timeouts' = QueuePop(m_timeouts, t)
  /\ entry' = m_timers[id]
  /\ m_timers' = [m_timers EXCEPT ![id] =
                    IF m_timers[id].is_period THEN [m_timers[id] EXCEPT !.closure = None] ELSE None]
  /\ m_running_timer' = id
  /\ pc' = "running"
  /\ UNCHANGED <<now, timer_id, deadline, signaled, stop, history>>

\* The closure has returned; a oneshot's has deleted itself.
DispatchFinish ==
  LET id == m_running_timer IN
  /\ pc = "running"
  /\ pc' = "dispatch"
  /\ m_running_timer' = 0
  /\ entry' = None
  /\ IF entry.is_period /\ Exists(id)
       THEN /\ IF m_timers[id].closure = None
                 THEN /\ m_timers' = [m_timers EXCEPT ![id].closure = entry.closure]
                      /\ UNCHANGED deletes
                 ELSE /\ deletes' = Deleted(entry.closure)
                      /\ UNCHANGED m_timers
            /\ IF m_timers[id].is_enabled
                 THEN SetNextTimeout("timer", id, m_timers[id].interval, m_timers[id].revision)
                 ELSE UNCHANGED <<m_timeouts, signaled>>
       ELSE /\ deletes' = Deleted(entry.closure)
            /\ UNCHANGED <<m_timers, m_timeouts, signaled>>
  /\ UNCHANGED <<now, timer_id, deadline, stop, ops, given, modified_at, sync_removed>>

Tick ==
  /\ now < MaxTime
  /\ now' = now + 1
  /\ UNCHANGED <<manager, thread, stop, history>>

-----------------------------------------------------------------------------
Init ==
  /\ now = 0
  /\ timer_id = 0
  /\ m_timers = [id \in TimerId |-> None]
  /\ m_timeouts = [t \in {} |-> 0]
  /\ m_running_timer = 0
  /\ pc = "entry"
  /\ entry = None
  /\ deadline = None
  /\ signaled = FALSE
  /\ stop = "no"
  /\ ops = 0
  /\ given = {}
  /\ deletes = [c \in Closure |-> 0]
  /\ modified_at = [id \in TimerId |-> 0]
  /\ sync_removed = {}

\* Ids the callers can hold: those returned so far, and the invalid 0.
KnownId == 0 .. timer_id

Operation ==
  \E self \in {"client", "timer"} :
    \/ \E interval \in Interval, is_period \in BOOLEAN, c \in Closure :
         AddTimer(self, interval, is_period, c)
    \/ \E id \in KnownId, interval \in Interval, c \in Closure \cup {None} :
         ModifyTimer(self, id, interval, c)
    \/ \E id \in KnownId : DisableTimer(self, id)
    \/ \E id \in KnownId : EnableTimer(self, id)
    \/ \E id \in KnownId : AsyncRemoveTimer(self, id)
    \/ Clear(self)

TimerThread ==
  \/ EntryWait
  \/ EntryBreak
  \/ WaitReturns
  \/ DispatchDone
  \/ \E t \in DOMAIN m_timeouts : DequeueOutdated(t)
  \/ \E t \in DOMAIN m_timeouts : DequeueTimeoutEntry(t)
  \/ DispatchFinish

Next ==
  \/ Operation
  \/ \E id \in KnownId : RemoveTimer(id)
  \/ StopRequest
  \/ StopJoin
  \/ TimerThread
  \/ SpuriousWake
  \/ Tick

Spec == Init /\ [][Next]_vars

-----------------------------------------------------------------------------
(* Properties.                                                             *)

TypeOK ==
  /\ now \in Nat
  /\ timer_id \in 0 .. MaxTimers
  /\ m_timers \in [TimerId -> TimerEntry \cup {None}]
  /\ DOMAIN m_timeouts \subseteq Timeout
  /\ m_timeouts \in [DOMAIN m_timeouts -> Nat \ {0}]
  /\ m_running_timer \in 0 .. MaxTimers
  /\ pc \in {"entry", "waiting", "dispatch", "running", "exited"}
  /\ entry \in TimerEntry \cup {None}
  /\ pc = "running" => entry # None /\ m_running_timer # 0
  /\ deadline \in Nat \cup {None}
  /\ signaled \in BOOLEAN
  /\ stop \in {"no", "requested", "joined"}
  /\ ops \in 0 .. MaxOps
  /\ given \subseteq Closure
  /\ deletes \in [Closure -> Nat]
  /\ modified_at \in [TimerId -> Nat]
  /\ sync_removed \subseteq TimerId

\* Where the manager holds a closure: in the map, or in Dispatch's copy.
HeldInMap(c, id) == Exists(id) /\ m_timers[id].closure = c
HeldRunning(c)   == pc = "running" /\ entry.closure = c

\* Ownership of closures.  The manager deletes every closure handed to it
\* exactly once: one that it still holds, in one place only, was not deleted,
\* and one that it does not hold any more was deleted once.  Modify, remove,
\* clear and stop, while the closure waits or runs, neither leak nor delete twice.
ClosureOwnership ==
  \A c \in Closure :
    LET held == (\E id \in TimerId : HeldInMap(c, id)) \/ HeldRunning(c) IN
    /\ deletes[c] = IF c \in given /\ ~held THEN 1 ELSE 0
    /\ held => c \in given
    /\ \A i, j \in TimerId : HeldInMap(c, i) /\ HeldInMap(c, j) => i = j
    /\ \A i \in TimerId : ~(HeldInMap(c, i) /\ HeldRunning(c))

\* RemoveTimer is synchronous: once it has returned to a thread other than the
\* timer thread, the closure of that timer does not run, and the timer is gone,
\* so that it never will.
RemovedNotRunning ==
  \A id \in sync_removed : m_running_timer # id /\ ~Exists(id)

\* No timer is lost: an enabled timer is running, and is rescheduled when its
\* closure returns, or has a timeout of its current revision in the queue.
EnabledIsScheduled ==
  \A id \in TimerId :
    Exists(id) /\ m_timers[id].is_enabled =>
      m_running_timer = id \/ \E t \in DOMAIN m_timeouts : t.timer_id = id /\ Live(t)

\* The timer thread does not oversleep: while it waits and no signal is on its
\* way, its wait ends no later than the earliest timeout is due.
WakesInTime ==
  pc = "waiting" /\ ~signaled =>
    \A t \in DOMAIN m_timeouts :
      deadline # None /\ (deadline <= t.time \/ deadline <= now)

\* No timer is lost and none is late: an enabled timer is scheduled, and the
\* thread wakes up for it.
TimersWillFire == EnabledIsScheduled /\ WakesInTime

\* Old timeouts are discarded: a timeout that Dispatch would honour was set
\* after the timer was last modified or disabled, a full interval ahead.
OutdatedNeverLive ==
  \A t \in DOMAIN m_timeouts :
    Live(t) => t.time >= modified_at[t.timer_id] + m_timers[t.timer_id].interval

Due(id) == \E t \in DOMAIN m_timeouts : t.timer_id = id /\ Live(t) /\ t.time <= now

\* A due timeout of an enabled timer gets its closure run, unless the timer is
\* changed or removed first or the manager is stopped.
DueTimerRuns == \A id \in TimerId : []<>(Due(id) => m_running_timer = id)

\* Stop returns, wherever the request meets the timer thread: waiting for the next
\* timeout, forever because there is none, or dispatching, where it looks at the
\* request only when nothing is due any more.  A period timer with an interval of
\* 0 is always due, so Interval has no 0 here.
StopEnds == []<>(stop # "requested")

-----------------------------------------------------------------------------
(* For TLC.  WrapSpec is the part of the behaviours in which one client    *)
(* adds one timer and keeps modifying its interval before the timer thread *)
(* gets to run: with the real RevisionMod of 256 the whole specification   *)
(* is out of reach at that depth.                                          *)

Symmetry == Permutations(Closure)

WrapNext ==
  \/ \E interval \in Interval, c \in Closure : AddTimer("client", interval, TRUE, c)
  \/ \E interval \in Interval : ModifyTimer("client", 1, interval, None)
  \/ Tick

WrapSpec == Init /\ [][WrapNext]_vars
=============================================================================
