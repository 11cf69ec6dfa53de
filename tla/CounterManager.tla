--------------------------- MODULE CounterManager ---------------------------
(***************************************************************************)
(* container/counter.h and counter.cc: counters that threads update, and a *)
(* manager that reports them once per interval.  The report is a chain: a  *)
(* one-shot timer adds a task to the thread pool, the task reports and     *)
(* sets the next timer.  Terminate breaks the chain.  The timer manager    *)
(* and the thread pool are the ones of the modules TimerManager and        *)
(* ThreadPool, reduced to what this code uses: pending timers, the timer   *)
(* whose callback runs, and tasks that wait for a worker.                  *)
(*                                                                         *)
(* ReportCounter holds the manager's m_mutex but takes each counter's      *)
(* mutex in turn, so updates of other threads fall between its steps.      *)
(* FLAGS_toft_counter_enabled is on: without it no timer is ever set.      *)
(***************************************************************************)
EXTENDS Integers, Sequences, FiniteSets, FiniteSetsExt, Functions

CONSTANTS Sample, MapKey, None, MaxUpdates, MaxTimers

VARIABLES
  rate_value, sum_value,  \* m_value of a RateCounter and of a SumCounter
  stats,                  \* a ValueCounter: [count, sum, max, min]
  map,                    \* a MapCounter: m_map, None where it has no entry
  m_counters,             \* the registered counters, by kind
  m_timer_id,
  pending, running,       \* timer manager: timers to come, the one that runs
  timers,                 \* timer ids given out
  tasks,                  \* thread pool: ReportCounter tasks not yet begun
  reporter, todo, taken,  \* who is in ReportCounter, counters left, rate taken
  phase,                  \* of the owner, see Terminate
  updates, samples, inserts, added, delivered  \* history of updates, reports

counters == <<rate_value, sum_value, stats, map, updates, samples, inserts, added>>
manager  == <<m_counters, m_timer_id, phase>>
timer    == <<pending, running, timers, tasks>>
report   == <<reporter, todo, taken, delivered>>
vars     == <<counters, manager, timer, report>>

Declared == <<"rate", "value", "map", "sum">>  \* DEFINE_COUNTERs in a file
NoStats == [count |-> 0, sum |-> 0, max |-> None, min |-> None]
NoMap == [k \in MapKey |-> None]

Init ==
  /\ rate_value = 0 /\ sum_value = 0 /\ stats = NoStats /\ map = NoMap
  /\ updates = 0 /\ samples = <<>> /\ inserts = <<>> /\ added = 0
  /\ m_counters = <<>> /\ m_timer_id = 0 /\ phase = "new"
  /\ pending = {} /\ running = 0 /\ timers = 0 /\ tasks = 0
  /\ reporter = "nobody" /\ todo = <<>> /\ taken = 0 /\ delivered = 0

-----------------------------------------------------------------------------
(* Updates, by any thread at any time.                                     *)

\* RateCounter::AddCount and SumCounter::AddCount
AddCount ==
  /\ updates < MaxUpdates /\ updates' = updates + 1
  /\ rate_value' = rate_value + 1
  /\ sum_value' = sum_value + 1
  /\ added' = added + 1
  /\ UNCHANGED <<stats, map, samples, inserts, manager, timer, report>>

\* ValueCounter::SetValue
SetValue(v) ==
  /\ updates < MaxUpdates /\ updates' = updates + 1
  /\ stats' = [count |-> stats.count + 1, sum |-> stats.sum + v,
               max |-> IF stats.max # None /\ stats.max > v THEN stats.max ELSE v,
               min |-> IF stats.min # None /\ stats.min < v THEN stats.min ELSE v]
  /\ samples' = Append(samples, v)
  /\ UNCHANGED <<rate_value, sum_value, map, inserts, added, manager, timer, report>>

\* MapCounter::Insert
Insert(k, v) ==
  /\ updates < MaxUpdates /\ updates' = updates + 1
  /\ map' = [map EXCEPT ![k] = v]
  /\ inserts' = Append(inserts, <<k, v>>)
  /\ UNCHANGED <<rate_value, sum_value, stats, samples, added, manager, timer, report>>

\* RegisterCounter, from the static initializers
RegisterCounter ==
  /\ reporter = "nobody" /\ phase = "new" /\ Len(m_counters) < Len(Declared)
  /\ m_counters' = Append(m_counters, Declared[Len(m_counters) + 1])
  /\ UNCHANGED <<m_timer_id, phase, counters, timer, report>>

-----------------------------------------------------------------------------
(* The report.                                                             *)

\* TimerManager::AddOneshotTimer
AddOneshotTimer ==
  /\ timers < MaxTimers
  /\ timers' = timers + 1
  /\ pending' = pending \cup {timers + 1}
  /\ m_timer_id' = timers + 1

\* CounterManager::Init
Start ==
  /\ phase = "new" /\ reporter = "nobody"
  /\ phase' = "started"
  /\ AddOneshotTimer
  /\ UNCHANGED <<m_counters, running, tasks, counters, report>>

\* TimerManager::Dispatch takes a timer whose time has come ...
Fire(id) ==
  /\ running = 0
  /\ pending' = pending \ {id} /\ running' = id
  /\ UNCHANGED <<timers, tasks, counters, manager, report>>

\* ... and runs its closure.
ReportCounterWrapper ==
  /\ running # 0
  /\ tasks' = tasks + 1 /\ running' = 0
  /\ UNCHANGED <<pending, timers, counters, manager, report>>

\* ReportCounter: a worker, or Terminate, takes m_mutex.
ReportBegins(who) ==
  /\ reporter = "nobody"
  /\ reporter' = who /\ todo' = m_counters
  /\ UNCHANGED <<taken, delivered, counters>>

WorkerReports ==
  /\ tasks > 0 /\ tasks' = tasks - 1
  /\ ReportBegins("worker")
  /\ UNCHANGED <<pending, running, timers, manager>>

\* GetAndReset without the reset
GetAndResetKeeps ==
  /\ reporter # "nobody" /\ todo # <<>>
  /\ todo' = Tail(todo)
  /\ taken' = IF Head(todo) = "rate" THEN rate_value ELSE taken
  /\ UNCHANGED <<counters, reporter, delivered, manager, timer>>

\* One turn of the loop over m_counters: GetAndReset, or GetValue of a
\* SumCounter, which keeps its value.
GetAndReset ==
  /\ reporter # "nobody" /\ todo # <<>>
  /\ todo' = Tail(todo)
  /\ IF Head(todo) = "rate"
     THEN taken' = rate_value /\ rate_value' = 0
     ELSE UNCHANGED <<taken, rate_value>>
  /\ IF Head(todo) = "value"
     THEN stats' = NoStats /\ samples' = <<>>
     ELSE UNCHANGED <<stats, samples>>
  /\ IF Head(todo) = "map"
     THEN map' = NoMap /\ inserts' = <<>>
     ELSE UNCHANGED <<map, inserts>>
  /\ UNCHANGED <<sum_value, updates, added, reporter, delivered, manager, timer>>

\* The handlers and callbacks run, the next timer is set, m_mutex is released.
ReportEnds ==
  /\ reporter # "nobody" /\ todo = <<>>
  /\ delivered' = delivered + taken /\ taken' = 0
  /\ AddOneshotTimer
  /\ reporter' = "nobody"
  /\ phase' = IF reporter = "owner" THEN "reported" ELSE phase
  /\ UNCHANGED <<todo, m_counters, running, tasks, counters>>

-----------------------------------------------------------------------------
(* Terminate.                                                              *)

\* RemoveTimer(m_timer_id) under m_mutex.  It waits for the callback of that
\* timer and fails when the timer has run already.
Terminate ==
  /\ phase = "started" /\ reporter = "nobody" /\ running # m_timer_id
  /\ phase' = IF m_timer_id \in pending THEN "removed" ELSE "not removed"
  /\ pending' = pending \ {m_timer_id}
  /\ UNCHANGED <<m_counters, m_timer_id, running, timers, tasks, counters, report>>

\* "Report counter for the last time."
TerminateReports ==
  /\ phase = "removed"
  /\ phase' = "reporting"
  /\ ReportBegins("owner")
  /\ UNCHANGED <<m_counters, m_timer_id, timer>>

\* CHECK(RemoveTimer(m_timer_id)): the process ends when the timer of the last
\* report has run already.
TerminateChecks ==
  /\ phase = "reported" /\ running # m_timer_id
  /\ phase' = IF m_timer_id \in pending THEN "stopped" ELSE "aborted"
  /\ pending' = pending \ {m_timer_id}
  /\ UNCHANGED <<m_counters, m_timer_id, running, timers, tasks, counters, report>>

Next ==
  /\ phase # "aborted"
  /\ \/ AddCount \/ RegisterCounter \/ Start
     \/ \E v \in Sample: SetValue(v) \/ \E k \in MapKey: Insert(k, v)
     \/ \E id \in pending: Fire(id)
     \/ ReportCounterWrapper \/ WorkerReports \/ GetAndReset \/ ReportEnds
     \/ Terminate \/ TerminateReports \/ TerminateChecks

Spec == Init /\ [][Next]_vars
-----------------------------------------------------------------------------
\* What a report takes out of a counter is what was put in since the last one,
\* no matter when the updates come: every AddCount is in m_value, in the report
\* under way or in one delivered report, and the statistics and the map are
\* those of the updates made since they were last taken.
CountsReportedOnce ==
  /\ added = rate_value + taken + delivered
  /\ sum_value = added
  /\ stats.count = Len(samples)
  /\ stats.sum = FoldFunction(LAMBDA a, b: a + b, 0, samples)
  /\ samples # <<>> =>
       stats.max = Max(Range(samples)) /\ stats.min = Min(Range(samples))
  /\ \A k \in MapKey:
       LET of_k == {i \in DOMAIN inserts: inserts[i][1] = k}
       IN map[k] = IF of_k = {} THEN None ELSE inserts[Max(of_k)][2]

\* There is one chain of reports: one timer to come, one callback, one waiting
\* task or one report under way, and never two of them.  Once Terminate has
\* removed the timer of its last report there is none.
Links == Cardinality(pending) + (IF running # 0 THEN 1 ELSE 0) + tasks
           + (IF reporter # "nobody" THEN 1 ELSE 0)
OneUploadChain == Links <= 1 /\ (phase = "stopped" => Links = 0)

\* CounterManager as a whole: updates reach one report each, and the reports form
\* one chain that Terminate ends.
ReportsAreExact == CountsReportedOnce /\ OneUploadChain
=============================================================================
