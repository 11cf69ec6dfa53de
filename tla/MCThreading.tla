---------------------------- MODULE MCThreading -----------------------------
(***************************************************************************)
(* Threads and processes for TLC: AutoResetEvent, ManualResetEvent,        *)
(* BlockingQueue, Thread, ThreadGroup, SubProcess, ProcessLocalConst and,  *)
(* for their liveness, TimerManager and a ThreadPool of fixed size.  They  *)
(* do not share state here, so a behaviour runs one of them, chosen at the *)
(* start, and leaves the others as they were constructed.                  *)
(***************************************************************************)
EXTENDS Waiting, Thread, Processes

CONSTANTS Closure, Interval, RevisionMod, MaxTimers, MaxOps, MaxTime, None,
          PoolAdder, PoolNode, PoolTask, PoolThreads

VARIABLES
  which,
  now, timer_id, m_timers, m_timeouts, m_running_timer, timer_pc, entry, deadline,
    signaled, stop, ops, given, closure_deletes, modified_at, sync_removed,
  m_pending_tasks, m_completed_tasks, m_cur_thread_num, m_cur_busy_thread_num, m_exited,
    m_event_new_task, m_event_relase_all_task, adder, worker, term, is_wait, pool_sets,
    added, ran, dropped, nodes, idle_exits

Timers == INSTANCE TimerManager
  WITH pc <- timer_pc, deletes <- closure_deletes
Pool == INSTANCE ThreadPool
  WITH Adder <- PoolAdder, Node <- PoolNode, Task <- PoolTask, MinThreadNum <- PoolThreads,
       MaxThreadNum <- PoolThreads, sets <- pool_sets

timer_vars ==
  <<now, timer_id, m_timers, m_timeouts, m_running_timer, timer_pc, entry, deadline,
    signaled, stop, ops, given, closure_deletes, modified_at, sync_removed>>
pool_vars ==
  <<m_pending_tasks, m_completed_tasks, m_cur_thread_num, m_cur_busy_thread_num, m_exited,
    m_event_new_task, m_event_relase_all_task, adder, worker, term, is_wait, pool_sets,
    added, ran, dropped, nodes, idle_exits>>
wait_vars   == <<auto_vars, manual_vars, queue_vars>>
system_vars == <<pool_vars, process_vars, local_vars>>
suite_vars  == <<which, wait_vars, thread_vars, timer_vars, system_vars>>

SuiteInit ==
  /\ which \in {"auto", "manual", "queue", "thread", "group", "timer", "pool", "process", "local"}
  /\ AutoInit
  /\ ManualInit
  /\ QueueInit
  /\ GroupInit
  /\ Timers!Init
  /\ Pool!Init
  /\ ProcessInit
  /\ LocalInit

Waits ==
  /\ \/ which = "auto" /\ AutoNext /\ UNCHANGED <<manual_vars, queue_vars>>
     \/ which = "manual" /\ ManualNext /\ UNCHANGED <<auto_vars, queue_vars>>
     \/ which = "queue" /\ QueueNext /\ UNCHANGED <<auto_vars, manual_vars>>
  /\ UNCHANGED <<thread_vars, timer_vars, system_vars>>

System ==
  /\ \/ which = "pool" /\ Pool!Next /\ UNCHANGED <<process_vars, local_vars>>
     \/ which = "process" /\ ProcessNext /\ UNCHANGED <<pool_vars, local_vars>>
     \/ which = "local" /\ LocalNext /\ UNCHANGED <<pool_vars, process_vars>>
  /\ UNCHANGED <<wait_vars, thread_vars, timer_vars>>

SuiteNext ==
  /\ UNCHANGED which
  /\ \/ Waits
     \/ /\ which = "thread" /\ \E o \in Object \ Member: Step(o)
        /\ UNCHANGED <<group_vars, wait_vars, timer_vars, system_vars>>
     \/ which = "group" /\ GroupNext /\ UNCHANGED <<wait_vars, timer_vars, system_vars>>
     \/ which = "timer" /\ Timers!Next /\ UNCHANGED <<wait_vars, thread_vars, system_vars>>
     \/ System

\* The scheduler runs every thread and process that can go on.  For the timer
\* manager: its thread runs, closures return, and Stop goes on once the thread has
\* exited.  For the pool: waits have timeouts and tasks return.  For processes:
\* SIGKILL kills; a child need not end by itself.
SuiteSpec ==
  /\ SuiteInit /\ [][SuiteNext]_suite_vars
  /\ AutoFairness /\ ManualFairness /\ QueueFairness /\ Fairness /\ GroupFairness
  /\ WF_timer_vars(which = "timer" /\ Timers!TimerThread)
  /\ WF_timer_vars(which = "timer" /\ Timers!StopJoin)
  /\ \A a \in PoolAdder: WF_pool_vars(which = "pool" /\ Pool!AdderStep(a))
  /\ \A n \in PoolNode: WF_pool_vars(which = "pool" /\ Pool!WorkerStep(n))
  /\ WF_pool_vars(which = "pool" /\ Pool!TerminateStep)
  /\ \A o \in Parents: WF_process_vars(which = "process" /\ ProcessStep(o))
  /\ \A n \in Numbers: WF_process_vars(which = "process" /\ Kernel(n))

\* AutoResetEvent: a signaled event does not stay so with threads waiting.
\* ManualResetEvent releases a waiting thread unless it is reset first.
\* BlockingQueue's Pop returns when there are elements.
WaitersWake == SignalIsTaken /\ WaitersReleased /\ ElementIsTaken

\* StopAndWaitForExit returns if the function heeds the request, even one made
\* before the thread has started; GetId also behind a start that failed;
\* ThreadGroup's Join and destructor if the callbacks return; TimerManager's Stop
\* wherever it meets the timer thread, if no timer has an interval of 0.
\* SubProcess's Create returns unless a process of another thread holds its pipe,
\* and Terminate whatever the child does about SIGTERM.
CallsReturn ==
  /\ StopReturns /\ GroupReturns /\ GetIdReturns
  /\ Timers!StopEnds
  /\ ProcessCallsReturn

\* In a pool of fixed size that one thread feeds, every task is run or dropped by
\* Terminate, which returns.  TimerManager runs a timer that is due, if no timer has
\* an interval of 0.
WorkIsDone == Pool!TasksSettle /\ Pool!TerminateReturns /\ Timers!DueTimerRuns
=============================================================================
