----------------------------- MODULE ThreadPool -----------------------------
(***************************************************************************)
(* toft::ThreadPool (system/threading/thread_pool.{h,cpp}).                *)
(*                                                                         *)
(* Adders call AddTask and AddPriorityTask; workers run ThreadRuntine; the *)
(* owner calls Terminate once, when no AddTask is under way and none will  *)
(* follow (the code CHECKs it).  One action is one critical section of     *)
(* m_mutex_task or m_mutex_thread, one access to an atomic counter, or the *)
(* evaluation of one condition on the counters.                            *)
(*                                                                         *)
(* m_event_new_task and m_event_relase_all_task are AutoResetEvents, only  *)
(* ever waited for with a timeout: TimedWait returns at any moment, with   *)
(* m_signaled as its result, and resets it.  m_pending_task_num is the     *)
(* length of m_pending_tasks, the two change in the same critical section. *)
(***************************************************************************)
EXTENDS Integers, Sequences, FiniteSets, TLC

CONSTANTS
  Adder,           \* threads that add tasks
  Node,            \* ThreadNodes the pool can allocate
  Task,            \* tasks, each added at most once
  MinThreadNum,    \* m_min_thread_num, after the constructor's adjustment
  MaxThreadNum,    \* m_max_thread_num, after the constructor's adjustment
  None

\* ThreadPool::ThreadPool: a negative maximum means one more than the minimum,
\* and the maximum is at least the minimum.
AdjustedMax(min, max) ==
  LET m == IF max < 0 THEN min + 1 ELSE max IN IF m < min THEN min ELSE m

ASSUME SizeAssumption ==
  /\ MinThreadNum \in Nat
  /\ MaxThreadNum \in Nat
  /\ MaxThreadNum = AdjustedMax(MinThreadNum, MaxThreadNum)
ASSUME AdderAssumption == IsFiniteSet(Adder) /\ Adder # {}
ASSUME NodeAssumption == IsFiniteSet(Node)
ASSUME NoneAssumption  == None \notin Task

VARIABLES
  m_pending_tasks,          \* sequence of tasks
  m_completed_tasks,        \* number of TaskNodes kept for reuse
  m_cur_thread_num, m_cur_busy_thread_num,
  m_exited,
  m_event_new_task, m_event_relase_all_task,   \* the events' m_signaled
  adder,                    \* per adder: where it is in AddTaskInternal, and its task
  worker,                   \* per node: where it is in ThreadRuntine, and its task;
                            \* "idle" is in m_idle_threads, "none" not allocated
  term,                     \* where Terminate is
  is_wait,                  \* Terminate's argument
  sets                      \* Terminate's loop variable i

\* History, read by the properties only.
VARIABLES
  added, ran, dropped,      \* tasks passed in, run, deleted without being run
  nodes,                    \* TaskNodes allocated and not deleted
  idle_exits                \* workers that left on an idle timeout

tasks    == <<m_pending_tasks, m_completed_tasks>>
counts   == <<m_cur_thread_num, m_cur_busy_thread_num>>
events   == <<m_event_new_task, m_event_relase_all_task>>
shutdown == <<m_exited, term, is_wait, sets>>
history  == <<added, ran, dropped, nodes, idle_exits>>
vars     == <<tasks, counts, events, adder, worker, shutdown, history>>

Working(n) == worker[n].pc \notin {"none", "idle"}

AdderGoes(a, from, to) == adder[a].pc = from /\ adder' = [adder EXCEPT ![a].pc = to]
WorkerGoes(n, from, to) == worker[n].pc = from /\ worker' = [worker EXCEPT ![n].pc = to]

-----------------------------------------------------------------------------
(* AddTaskInternal, called by AddTask and AddPriorityTask.                 *)

\* CHECK(!m_exited) and PickCompleteTask(true): a TaskNode is reused or new.
AddTask(a, t) ==
  /\ term = "no"
  /\ adder[a].pc = "idle"
  /\ t \notin added
  /\ adder' = [adder EXCEPT ![a] = [pc |-> "push", task |-> t]]
  /\ added' = added \cup {t}
  /\ IF m_completed_tasks > 0
       THEN m_completed_tasks' = m_completed_tasks - 1 /\ UNCHANGED nodes
       ELSE nodes' = nodes + 1 /\ UNCHANGED m_completed_tasks
  /\ UNCHANGED <<m_pending_tasks, counts, events, worker, shutdown, ran, dropped, idle_exits>>

AddPendingTask(a, is_priority) ==
  /\ adder[a].pc = "push"
  /\ adder' = [adder EXCEPT ![a] = [pc |-> "need_max", task |-> None]]
  /\ m_pending_tasks' = IF is_priority THEN <<adder[a].task>> \o m_pending_tasks
                                       ELSE Append(m_pending_tasks, adder[a].task)
  /\ UNCHANGED <<m_completed_tasks, counts, events, worker, shutdown, history>>

\* Faulty: one thread too many.
NeedNewThreadOffByOne(a) ==
  /\ AdderGoes(a, "need_max", IF m_cur_thread_num > MaxThreadNum THEN "set" ELSE "need_busy")
  /\ UNCHANGED <<tasks, counts, events, worker, shutdown, history>>

\* NeedNewThread reads the counters without a lock, first against the maximum.
NeedNewThreadMax(a) ==
  /\ AdderGoes(a, "need_max", IF m_cur_thread_num >= MaxThreadNum THEN "set" ELSE "need_busy")
  /\ UNCHANGED <<tasks, counts, events, worker, shutdown, history>>

\* Faulty: waits for more busy threads than there are.
NeedNewThreadNever(a) ==
  /\ AdderGoes(a, "need_busy",
       IF m_cur_thread_num < MinThreadNum \/ m_cur_busy_thread_num > m_cur_thread_num
         THEN "spawn" ELSE "set")
  /\ UNCHANGED <<tasks, counts, events, worker, shutdown, history>>

NeedNewThreadBusy(a) ==
  /\ AdderGoes(a, "need_busy",
       IF m_cur_thread_num < MinThreadNum \/ m_cur_busy_thread_num = m_cur_thread_num
         THEN "spawn" ELSE "set")
  /\ UNCHANGED <<tasks, counts, events, worker, shutdown, history>>

\* An idle node is joined and reused before a new one is allocated.
AddThreadNodeToList(a, n) ==
  /\ AdderGoes(a, "spawn", "set")
  /\ worker[n].pc = IF \E i \in Node : worker[i].pc = "idle" THEN "idle" ELSE "none"
  /\ worker' = [worker EXCEPT ![n].pc = "start"]
  /\ m_cur_thread_num' = m_cur_thread_num + 1
  /\ UNCHANGED <<tasks, m_cur_busy_thread_num, events, shutdown, history>>

SetNewTask(a) ==
  /\ AdderGoes(a, "set", "idle")
  /\ m_event_new_task' = TRUE
  /\ UNCHANGED <<tasks, counts, m_event_relase_all_task, worker, shutdown, history>>

-----------------------------------------------------------------------------
(* ThreadRunner and ThreadRuntine.                                         *)

\* m_cur_busy_thread_num++, on entry and after a wait.
Busy(n) ==
  /\ \E from \in {"start", "rebusy"} : WorkerGoes(n, from, "loop")
  /\ m_cur_busy_thread_num' = m_cur_busy_thread_num + 1
  /\ UNCHANGED <<tasks, m_cur_thread_num, events, adder, shutdown, history>>

LoopTest(n) ==
  /\ WorkerGoes(n, "loop", IF m_exited THEN "exit" ELSE "pick")
  /\ UNCHANGED <<tasks, counts, events, adder, shutdown, history>>

\* Faulty: the task stays in the list.
PickPendingTaskKeeps(n) ==
  /\ worker[n].pc = "pick"
  /\ worker' = [worker EXCEPT ![n] =
                  IF m_pending_tasks # << >> THEN [pc |-> "run", task |-> Head(m_pending_tasks)]
                                             ELSE [pc |-> "unbusy", task |-> None]]
  /\ UNCHANGED <<tasks, counts, events, adder, shutdown, history>>

\* Faulty: takes the youngest task.
PickPendingTaskLast(n) ==
  /\ worker[n].pc = "pick"
  /\ IF m_pending_tasks # << >>
       THEN /\ worker' = [worker EXCEPT ![n] =
                            [pc |-> "run", task |-> m_pending_tasks[Len(m_pending_tasks)]]]
            /\ m_pending_tasks' = SubSeq(m_pending_tasks, 1, Len(m_pending_tasks) - 1)
       ELSE /\ worker' = [worker EXCEPT ![n].pc = "unbusy"]
            /\ UNCHANGED m_pending_tasks
  /\ UNCHANGED <<m_completed_tasks, counts, events, adder, shutdown, history>>

PickPendingTask(n) ==
  /\ worker[n].pc = "pick"
  /\ IF m_pending_tasks # << >>
       THEN /\ worker' = [worker EXCEPT ![n] = [pc |-> "run", task |-> Head(m_pending_tasks)]]
            /\ m_pending_tasks' = Tail(m_pending_tasks)
       ELSE /\ worker' = [worker EXCEPT ![n].pc = "unbusy"]
            /\ UNCHANGED m_pending_tasks
  /\ UNCHANGED <<m_completed_tasks, counts, events, adder, shutdown, history>>

\* The task has run; its node goes to m_completed_tasks.
AddCompleteTask(n) ==
  /\ worker[n].pc = "run"
  /\ worker' = [worker EXCEPT ![n] = [pc |-> "loop", task |-> None]]
  /\ m_completed_tasks' = m_completed_tasks + 1
  /\ ran' = ran \cup {worker[n].task}
  /\ UNCHANGED <<m_pending_tasks, counts, events, adder, shutdown, added, dropped, nodes, idle_exits>>

\* Faulty: still counted as busy.
UnbusyForgets(n) ==
  /\ WorkerGoes(n, "unbusy", "wait")
  /\ UNCHANGED <<tasks, counts, events, adder, shutdown, history>>

Unbusy(n) ==
  /\ WorkerGoes(n, "unbusy", "wait")
  /\ m_cur_busy_thread_num' = m_cur_busy_thread_num - 1
  /\ UNCHANGED <<tasks, m_cur_thread_num, events, adder, shutdown, history>>

\* m_event_new_task.TimedWait(m_idle_timeout)
WaitNewTask(n) ==
  /\ WorkerGoes(n, "wait", IF m_event_new_task THEN "rebusy" ELSE "test_pending")
  /\ m_event_new_task' = FALSE
  /\ UNCHANGED <<tasks, counts, m_event_relase_all_task, adder, shutdown, history>>

\* The wait timed out: m_pending_tasks.empty(), then the number of threads.
TestPending(n) ==
  /\ WorkerGoes(n, "test_pending", IF m_pending_tasks = << >> THEN "test_num" ELSE "rebusy")
  /\ UNCHANGED <<tasks, counts, events, adder, shutdown, history>>

TestThreadNum(n) ==
  LET leave == m_cur_thread_num > MinThreadNum IN
  /\ WorkerGoes(n, "test_num", IF leave THEN "exit" ELSE "rebusy")
  /\ idle_exits' = IF leave THEN idle_exits + 1 ELSE idle_exits
  /\ UNCHANGED <<tasks, counts, events, adder, shutdown, added, ran, dropped, nodes>>

\* The end of ThreadRuntine, in m_mutex_thread.
ThreadExit(n) ==
  /\ WorkerGoes(n, "exit", "idle")
  /\ m_cur_busy_thread_num' = m_cur_busy_thread_num - 1
  /\ m_cur_thread_num' = m_cur_thread_num - 1
  /\ m_event_relase_all_task' = (m_event_relase_all_task \/ m_cur_thread_num' = 0)
  /\ UNCHANGED <<tasks, m_event_new_task, adder, shutdown, history>>

-----------------------------------------------------------------------------
(* Terminate.                                                              *)

Terminate(wait) ==
  /\ term = "no"
  /\ \A a \in Adder : adder[a].pc = "idle"
  /\ is_wait' = wait
  /\ term' = IF wait THEN "wait_pending" ELSE "exit"
  /\ UNCHANGED <<tasks, counts, events, adder, worker, m_exited, sets, history>>

\* Faulty: does not wait.
WaitPendingSkipped ==
  /\ term = "wait_pending"
  /\ term' = "exit"
  /\ UNCHANGED <<tasks, counts, events, adder, worker, m_exited, is_wait, sets, history>>

\* The poll of m_pending_task_num that finds none left.
WaitPending ==
  /\ term = "wait_pending"
  /\ m_pending_tasks = << >>
  /\ term' = "exit"
  /\ UNCHANGED <<tasks, counts, events, adder, worker, m_exited, is_wait, sets, history>>

\* Faulty: the workers are not told.
SetExitedForgets ==
  /\ term = "exit"
  /\ term' = "drain"
  /\ UNCHANGED <<tasks, counts, events, adder, worker, m_exited, is_wait, sets, history>>

SetExited ==
  /\ term = "exit"
  /\ term' = "drain"
  /\ m_exited' = TRUE
  /\ UNCHANGED <<tasks, counts, events, adder, worker, is_wait, sets, history>>

\* while (m_cur_thread_num > 0): Set the event for every thread, then wait.
DrainSet ==
  /\ term = "drain"
  /\ m_cur_thread_num > 0
  /\ sets < m_cur_thread_num
  /\ sets' = sets + 1
  /\ m_event_new_task' = TRUE
  /\ UNCHANGED <<tasks, counts, m_event_relase_all_task, adder, worker, m_exited, term, is_wait, history>>

DrainWait ==
  /\ term = "drain"
  /\ sets > 0
  /\ sets >= m_cur_thread_num
  /\ sets' = 0
  /\ m_event_relase_all_task' = FALSE
  /\ UNCHANGED <<tasks, counts, m_event_new_task, adder, worker, m_exited, term, is_wait, history>>

\* No thread is left: delete the tasks of both lists, join and delete the threads.
Release ==
  /\ term = "drain"
  /\ sets = 0
  /\ m_cur_thread_num <= 0
  /\ term' = "done"
  /\ nodes' = nodes - m_completed_tasks - Len(m_pending_tasks)
  /\ m_completed_tasks' = 0
  /\ dropped' = dropped \cup {m_pending_tasks[i] : i \in DOMAIN m_pending_tasks}
  /\ m_pending_tasks' = << >>
  /\ worker' = [n \in Node |-> IF worker[n].pc = "idle" THEN [pc |-> "none", task |-> None]
                                                        ELSE worker[n]]
  /\ UNCHANGED <<counts, events, adder, m_exited, is_wait, sets, added, ran, idle_exits>>

-----------------------------------------------------------------------------
Init ==
  /\ m_pending_tasks = << >>
  /\ m_completed_tasks = 0
  /\ m_cur_thread_num = 0
  /\ m_cur_busy_thread_num = 0
  /\ m_exited = FALSE
  /\ m_event_new_task = FALSE
  /\ m_event_relase_all_task = FALSE
  /\ adder = [a \in Adder |-> [pc |-> "idle", task |-> None]]
  /\ worker = [n \in Node |-> [pc |-> "none", task |-> None]]
  /\ term = "no"
  /\ is_wait = FALSE
  /\ sets = 0
  /\ added = {}
  /\ ran = {}
  /\ dropped = {}
  /\ nodes = 0
  /\ idle_exits = 0

\* The rest of AddTaskInternal once it was called.
AdderStep(a) ==
  \/ \E is_priority \in BOOLEAN : AddPendingTask(a, is_priority)
  \/ NeedNewThreadMax(a)
  \/ NeedNewThreadBusy(a)
  \/ \E n \in Node : AddThreadNodeToList(a, n)
  \/ SetNewTask(a)

WorkerStep(n) ==
  \/ Busy(n)
  \/ LoopTest(n)
  \/ PickPendingTask(n)
  \/ AddCompleteTask(n)
  \/ Unbusy(n)
  \/ WaitNewTask(n)
  \/ TestPending(n)
  \/ TestThreadNum(n)
  \/ ThreadExit(n)

TerminateStep == WaitPending \/ SetExited \/ DrainSet \/ DrainWait \/ Release

Finished == term = "done" /\ UNCHANGED vars

Next ==
  \/ \E a \in Adder, t \in Task : AddTask(a, t)
  \/ \E a \in Adder : AdderStep(a)
  \/ \E n \in Node : WorkerStep(n)
  \/ \E wait \in BOOLEAN : Terminate(wait)
  \/ TerminateStep
  \/ Finished

Spec == Init /\ [][Next]_vars

-----------------------------------------------------------------------------
(* Properties.                                                             *)

TypeOK ==
  /\ m_pending_tasks \in Seq(Task)
  /\ m_completed_tasks \in Nat
  /\ m_cur_thread_num \in Int
  /\ m_cur_busy_thread_num \in Int
  /\ m_exited \in BOOLEAN
  /\ m_event_new_task \in BOOLEAN
  /\ m_event_relase_all_task \in BOOLEAN
  /\ adder \in [Adder -> [pc : {"idle", "push", "need_max", "need_busy", "spawn", "set"},
                          task : Task \cup {None}]]
  /\ worker \in [Node -> [pc : {"none", "start", "loop", "pick", "run", "unbusy", "wait",
                                "test_pending", "test_num", "rebusy", "exit", "idle"},
                          task : Task \cup {None}]]
  /\ \A a \in Adder : adder[a].pc = "push" => adder[a].task \in Task
  /\ \A n \in Node : worker[n].pc = "run" => worker[n].task \in Task
  /\ term \in {"no", "wait_pending", "exit", "drain", "done"}
  /\ is_wait \in BOOLEAN
  /\ sets \in Nat
  /\ added \subseteq Task /\ ran \subseteq Task /\ dropped \subseteq Task
  /\ nodes \in Int
  /\ idle_exits \in Nat

One(b) == IF b THEN 1 ELSE 0

\* No task is lost, run twice, or run and dropped: a task passed to AddTask is
\* in exactly one place, held by its adder, pending, with one worker, run, or
\* deleted by Terminate.
TaskInOnePlace ==
  \A t \in Task :
    Cardinality({a \in Adder : adder[a].task = t})
      + Cardinality({i \in DOMAIN m_pending_tasks : m_pending_tasks[i] = t})
      + Cardinality({n \in Node : worker[n].task = t})
      + One(t \in ran) + One(t \in dropped) = One(t \in added)

\* Terminate(true) waits for the tasks: what it deletes without running it is
\* only ever deleted by Terminate(false).
WaitDropsNothing == is_wait => dropped = {}

\* Every TaskNode is pending, kept for reuse, or in the hands of one thread, so
\* none is left when Terminate returns.
TaskNodesAccounted ==
  /\ nodes = m_completed_tasks + Len(m_pending_tasks)
               + Cardinality({a \in Adder : adder[a].pc = "push"})
               + Cardinality({n \in Node : worker[n].pc = "run"})
  /\ term = "done" => nodes = 0 /\ \A n \in Node : worker[n].pc = "none"

\* Tasks and their nodes are accounted for at every step of adders, workers and
\* Terminate.
TasksAccounted == TaskInOnePlace /\ TaskNodesAccounted

BusyPc == {"loop", "pick", "run", "unbusy", "exit"}

\* m_cur_thread_num is the number of working threads.  m_cur_busy_thread_num
\* is the number of those that are not waiting, less one for every thread
\* that ever left on an idle timeout: such a thread decrements the counter
\* twice, before its wait and again when it exits.
CountsDrift ==
  /\ m_cur_thread_num = Cardinality({n \in Node : Working(n)})
  /\ m_cur_busy_thread_num = Cardinality({n \in Node : worker[n].pc \in BusyPc}) - idle_exits

\* NeedNewThread and AddThreadNodeToList are not atomic: each adder but one can
\* push the pool one thread beyond its maximum, and no more than that.  With one
\* adder the maximum is exact.
ThreadBound == m_cur_thread_num <= MaxThreadNum + Cardinality(Adder) - 1

\* What the pool does with tasks is what TaskQueue says: adders and workers in
\* any order begin the tasks in the order of the queue and each one once, and
\* Terminate drops tasks only when no thread is running one.
Running == {worker[n].task : n \in {m \in Node : worker[m].pc = "run"}}

Queue == INSTANCE TaskQueue WITH
  queue <- m_pending_tasks, running <- Running, done <- ran, closed <- (term = "done")

\* The pool implements TaskQueue.
ImplementsTaskQueue == Queue!Spec

Settled(t) == t \in ran \cup dropped

FixedPool == MinThreadNum = MaxThreadNum /\ Cardinality(Adder) = 1

\* In a pool of fixed size that one thread feeds, every task that was added
\* runs, or is dropped by Terminate.  Where workers leave on an idle timeout the
\* busy counter drifts, and the last task may find no worker.
TasksSettle == FixedPool => \A t \in Task : []<>(t \in added => Settled(t))

\* In such a pool Terminate returns.
TerminateReturns == FixedPool => []<>(term \in {"no", "done"})

\* For TLC: adders and nodes are interchangeable.
Symmetry == Permutations(Adder) \cup Permutations(Node)
=============================================================================
