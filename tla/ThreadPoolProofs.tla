-------------------------- MODULE ThreadPoolProofs --------------------------
(***************************************************************************)
(* What ThreadPool keeps for every number of threads, adders and tasks.    *)
(***************************************************************************)
EXTENDS ThreadPool, FiniteSetTheorems, SequenceTheorems, TLAPS

(***************************************************************************)
(* The counters of ThreadPool, for every set of adders, nodes and tasks.   *)
(***************************************************************************)
\* The constructor leaves every member with its type.
LEMMA TypeInit == Init => TypeOK
<1> SUFFICES ASSUME Init PROVE TypeOK
  OBVIOUS
<1>1. m_pending_tasks \in Seq(Task)
  BY DEF Init
<1>2. /\ m_exited \in BOOLEAN
      /\ m_event_new_task \in BOOLEAN
      /\ m_event_relase_all_task \in BOOLEAN
      /\ is_wait \in BOOLEAN
  BY Zenon DEF Init
<1> QED
  BY <1>1, <1>2 DEF Init, TypeOK

\* No critical section of AddTask, ThreadRuntine or Terminate breaks the types.
LEMMA TypeStep == TypeOK /\ [Next]_vars => TypeOK'
<1> SUFFICES ASSUME TypeOK, [Next]_vars PROVE TypeOK'
  OBVIOUS
<1> USE DEF TypeOK, tasks, counts, events, shutdown, history
<1>1. ASSUME NEW a \in Adder, NEW t \in Task, AddTask(a, t) PROVE TypeOK'
  BY <1>1 DEF AddTask
<1>2. ASSUME NEW a \in Adder, NEW is_priority \in BOOLEAN, AddPendingTask(a, is_priority)
      PROVE  TypeOK'
  <2>1. m_pending_tasks' \in Seq(Task)
    BY <1>2 DEF AddPendingTask
  <2> QED
    BY <1>2, <2>1 DEF AddPendingTask
<1>3. ASSUME NEW a \in Adder, NeedNewThreadMax(a) PROVE TypeOK'
  BY <1>3 DEF NeedNewThreadMax, AdderGoes
<1>4. ASSUME NEW a \in Adder, NeedNewThreadBusy(a) PROVE TypeOK'
  BY <1>4 DEF NeedNewThreadBusy, AdderGoes
<1>5. ASSUME NEW a \in Adder, NEW n \in Node, AddThreadNodeToList(a, n) PROVE TypeOK'
  BY <1>5 DEF AddThreadNodeToList, AdderGoes
<1>6. ASSUME NEW a \in Adder, SetNewTask(a) PROVE TypeOK'
  BY <1>6 DEF SetNewTask, AdderGoes
<1>7. ASSUME NEW n \in Node, Busy(n) PROVE TypeOK'
  BY <1>7 DEF Busy, WorkerGoes
<1>8. ASSUME NEW n \in Node, LoopTest(n) PROVE TypeOK'
  BY <1>8 DEF LoopTest, WorkerGoes
<1>9. ASSUME NEW n \in Node, PickPendingTask(n) PROVE TypeOK'
  <2>1. m_pending_tasks # << >> => Head(m_pending_tasks) \in Task /\ Tail(m_pending_tasks) \in Seq(Task)
    BY HeadTailProperties
  <2>2. CASE m_pending_tasks # << >>
    <3>1. worker' = [worker EXCEPT ![n] = [pc |-> "run", task |-> Head(m_pending_tasks)]]
      BY <1>9, <2>2 DEF PickPendingTask
    <3>2. m_pending_tasks' \in Seq(Task) /\ Head(m_pending_tasks) \in Task
      BY <1>9, <2>1, <2>2, Zenon DEF PickPendingTask
    <3> QED
      BY <1>9, <3>1, <3>2 DEF PickPendingTask
  <2>3. CASE m_pending_tasks = << >>
    BY <1>9, <2>3 DEF PickPendingTask
  <2> QED
    BY <2>2, <2>3
<1>10. ASSUME NEW n \in Node, AddCompleteTask(n) PROVE TypeOK'
  BY <1>10 DEF AddCompleteTask
<1>11. ASSUME NEW n \in Node, Unbusy(n) PROVE TypeOK'
  BY <1>11 DEF Unbusy, WorkerGoes
<1>12. ASSUME NEW n \in Node, WaitNewTask(n) PROVE TypeOK'
  BY <1>12, Zenon DEF WaitNewTask, WorkerGoes
<1>13. ASSUME NEW n \in Node, TestPending(n) PROVE TypeOK'
  BY <1>13 DEF TestPending, WorkerGoes
<1>14. ASSUME NEW n \in Node, TestThreadNum(n) PROVE TypeOK'
  BY <1>14 DEF TestThreadNum, WorkerGoes
<1>15. ASSUME NEW n \in Node, ThreadExit(n) PROVE TypeOK'
  BY <1>15 DEF ThreadExit, WorkerGoes
<1>16. ASSUME NEW wait \in BOOLEAN, Terminate(wait) PROVE TypeOK'
  BY <1>16 DEF Terminate
<1>17. CASE WaitPending
  BY <1>17 DEF WaitPending
<1>18. CASE SetExited
  BY <1>18 DEF SetExited
<1>19. CASE DrainSet
  BY <1>19 DEF DrainSet
<1>20. CASE DrainWait
  BY <1>20, Zenon DEF DrainWait
<1>21. CASE Release
  <2>1. /\ m_pending_tasks' \in Seq(Task)
        /\ {m_pending_tasks[i] : i \in DOMAIN m_pending_tasks} \subseteq Task
    BY <1>21 DEF Release
  <2>2. nodes' \in Int
    BY <1>21 DEF Release
  <2>3. worker' \in [Node -> [pc : {"none", "start", "loop", "pick", "run", "unbusy", "wait",
                                "test_pending", "test_num", "rebusy", "exit", "idle"},
                             task : Task \cup {None}]]
    BY <1>21 DEF Release
  <2> QED
    BY <1>21, <2>1, <2>2, <2>3 DEF Release
<1>22. CASE UNCHANGED vars
  BY <1>22 DEF vars
<1> QED
  BY <1>1, <1>2, <1>3, <1>4, <1>5, <1>6, <1>7, <1>8, <1>9, <1>10, <1>11, <1>12, <1>13, <1>14,
     <1>15, <1>16, <1>17, <1>18, <1>19, <1>20, <1>21, <1>22, Zenon
     DEF Next, AdderStep, WorkerStep, TerminateStep, Finished

(***************************************************************************)
(* The sets that the counters count.                                       *)
(***************************************************************************)
Alive     == {n \in Node : Working(n)}
BusyNodes == {n \in Node : worker[n].pc \in BusyPc}

\* Adders that found the pool below its maximum and have not acted on it.
Deciding == {a \in Adder : adder[a].pc \in {"need_busy", "spawn"}}

\* The sets that are counted are finite, before and after a step.
LEMMA FiniteSets ==
  /\ IsFiniteSet(Alive) /\ IsFiniteSet(BusyNodes) /\ IsFiniteSet(Deciding)
  /\ IsFiniteSet(Alive') /\ IsFiniteSet(BusyNodes') /\ IsFiniteSet(Deciding')
  /\ Cardinality(Alive) \in Nat /\ Cardinality(BusyNodes) \in Nat /\ Cardinality(Deciding) \in Nat
  /\ Cardinality(Deciding') <= Cardinality(Adder)
  /\ Cardinality(Adder) \in Nat /\ Cardinality(Adder) >= 1
<1>1. /\ Alive \in SUBSET Node /\ BusyNodes \in SUBSET Node /\ Deciding \in SUBSET Adder
      /\ Alive' \in SUBSET Node /\ BusyNodes' \in SUBSET Node /\ Deciding' \in SUBSET Adder
  BY DEF Alive, BusyNodes, Deciding
<1>2. Cardinality(Adder) \in Nat /\ Cardinality(Adder) # 0
  BY AdderAssumption, FS_CardinalityType, FS_EmptySet
<1> QED
  BY <1>1, <1>2, AdderAssumption, NodeAssumption, FS_Subset, FS_CardinalityType

\* How a worker's move, with a new task, changes the sets of live and busy threads.
LEMMA WorkerStepSets ==
  ASSUME TypeOK, NEW n \in Node, NEW pc, NEW task,
         worker' = [worker EXCEPT ![n] = [pc |-> pc, task |-> task]]
  PROVE  /\ Alive' = IF pc \in {"none", "idle"} THEN Alive \ {n} ELSE Alive \cup {n}
         /\ BusyNodes' = IF pc \in BusyPc THEN BusyNodes \cup {n} ELSE BusyNodes \ {n}
<1>1. worker'[n].pc = pc /\ \A i \in Node \ {n} : worker'[i] = worker[i]
  BY DEF TypeOK
<1> QED
  BY <1>1 DEF Alive, BusyNodes, Working

\* How an adder's move, with a new task, changes the set of deciding adders.
LEMMA AdderStepSets ==
  ASSUME TypeOK, NEW a \in Adder, NEW pc, NEW task,
         adder' = [adder EXCEPT ![a] = [pc |-> pc, task |-> task]]
  PROVE  Deciding' = IF pc \in {"need_busy", "spawn"} THEN Deciding \cup {a} ELSE Deciding \ {a}
<1>1. adder'[a].pc = pc /\ \A i \in Adder \ {a} : adder'[i] = adder[i]
  BY DEF TypeOK
<1> QED
  BY <1>1 DEF Deciding

\* The same for a worker that keeps its task.
LEMMA WorkerPcSets ==
  ASSUME TypeOK, NEW n \in Node, NEW pc, worker' = [worker EXCEPT ![n].pc = pc]
  PROVE  /\ Alive' = IF pc \in {"none", "idle"} THEN Alive \ {n} ELSE Alive \cup {n}
         /\ BusyNodes' = IF pc \in BusyPc THEN BusyNodes \cup {n} ELSE BusyNodes \ {n}
<1>1. worker'[n].pc = pc /\ \A i \in Node \ {n} : worker'[i] = worker[i]
  BY DEF TypeOK
<1> QED
  BY <1>1 DEF Alive, BusyNodes, Working

\* The same for an adder that keeps its task.
LEMMA AdderPcSets ==
  ASSUME TypeOK, NEW a \in Adder, NEW pc, adder' = [adder EXCEPT ![a].pc = pc]
  PROVE  Deciding' = IF pc \in {"need_busy", "spawn"} THEN Deciding \cup {a} ELSE Deciding \ {a}
<1>1. adder'[a].pc = pc /\ \A i \in Adder \ {a} : adder'[i] = adder[i]
  BY DEF TypeOK
<1> QED
  BY <1>1 DEF Deciding

\* The inductive invariant: an adder that passed the test of the maximum may
\* still add a thread, so it counts as one.
CountInv ==
  /\ TypeOK
  /\ m_cur_thread_num = Cardinality(Alive)
  /\ m_cur_busy_thread_num = Cardinality(BusyNodes) - idle_exits
  /\ m_cur_thread_num + Cardinality(Deciding) <= MaxThreadNum - 1 + Cardinality(Adder)

\* A new pool has no threads and no adder has decided anything.
LEMMA CountInit == Init => CountInv
<1> SUFFICES ASSUME Init PROVE CountInv
  OBVIOUS
<1>1. Alive = {} /\ BusyNodes = {} /\ Deciding = {}
  BY DEF Init, Alive, BusyNodes, Deciding, Working, BusyPc
<1>2. m_cur_thread_num = 0 /\ m_cur_busy_thread_num = 0 /\ idle_exits = 0
  BY DEF Init
<1> QED
  BY <1>1, <1>2, TypeInit, FS_EmptySet, FiniteSets, SizeAssumption DEF CountInv

\* Every step keeps the counters in line with the threads: AddThreadNodeToList
\* turns a deciding adder into a thread, ThreadExit takes one away.
LEMMA CountStep == CountInv /\ [Next]_vars => CountInv'
<1> SUFFICES ASSUME CountInv, [Next]_vars PROVE CountInv'
  OBVIOUS
<1> USE SizeAssumption DEF tasks, counts, events, shutdown, history
<1> TypeOK /\ TypeOK'
  BY TypeStep DEF CountInv
<1>a. m_cur_thread_num \in Int /\ m_cur_busy_thread_num \in Int /\ idle_exits \in Nat
  BY DEF TypeOK
<1>b. ASSUME UNCHANGED worker PROVE Alive' = Alive /\ BusyNodes' = BusyNodes
  BY <1>b DEF Alive, BusyNodes, Working
<1>c. ASSUME UNCHANGED adder PROVE Deciding' = Deciding
  BY <1>c DEF Deciding
<1>1. ASSUME NEW a \in Adder, NEW t \in Task, AddTask(a, t) PROVE CountInv'
  <2>1. Deciding' = Deciding
    BY <1>1, AdderStepSets DEF AddTask, Deciding
  <2> QED
    BY <1>1, <1>b, <2>1 DEF AddTask, CountInv
<1>2. ASSUME NEW a \in Adder, NEW is_priority \in BOOLEAN, AddPendingTask(a, is_priority)
      PROVE  CountInv'
  <2>1. Deciding' = Deciding
    BY <1>2, AdderStepSets DEF AddPendingTask, Deciding
  <2> QED
    BY <1>2, <1>b, <2>1 DEF AddPendingTask, CountInv
<1>3. ASSUME NEW a \in Adder, NeedNewThreadMax(a) PROVE CountInv'
  <2>1. CASE m_cur_thread_num >= MaxThreadNum
    <3>1. Deciding' = Deciding
      BY <1>3, <2>1, AdderPcSets DEF NeedNewThreadMax, AdderGoes, Deciding
    <3> QED
      BY <1>3, <1>b, <3>1 DEF NeedNewThreadMax, CountInv
  <2>2. CASE ~(m_cur_thread_num >= MaxThreadNum)
    <3>1. m_cur_thread_num + Cardinality(Deciding') <= MaxThreadNum - 1 + Cardinality(Adder)
      BY <1>a, <2>2, FiniteSets, FS_CardinalityType
    <3> QED
      BY <1>3, <1>b, <3>1 DEF NeedNewThreadMax, CountInv
  <2> QED
    BY <2>1, <2>2
<1>4. ASSUME NEW a \in Adder, NeedNewThreadBusy(a) PROVE CountInv'
  <2>1. Deciding' = Deciding \/ Deciding' = Deciding \ {a}
    BY <1>4, AdderPcSets DEF NeedNewThreadBusy, AdderGoes, Deciding
  <2>2. Cardinality(Deciding') <= Cardinality(Deciding) /\ Cardinality(Deciding') \in Nat
    <3>1. CASE Deciding' = Deciding
      BY <3>1, FiniteSets
    <3>2. CASE Deciding' = Deciding \ {a}
      <4>1. Cardinality(Deciding \ {a}) = IF a \in Deciding THEN Cardinality(Deciding) - 1
                                                            ELSE Cardinality(Deciding)
        BY FiniteSets, FS_RemoveElement, Zenon
      <4>2. Cardinality(Deciding') \in Nat
        BY FiniteSets, FS_CardinalityType
      <4> QED
        BY <3>2, <4>1, <4>2, FiniteSets
    <3> QED
      BY <2>1, <3>1, <3>2
  <2>3. m_cur_thread_num + Cardinality(Deciding') <= MaxThreadNum - 1 + Cardinality(Adder)
    BY <1>a, <2>2, FiniteSets DEF CountInv
  <2> QED
    BY <1>4, <1>b, <2>3 DEF NeedNewThreadBusy, CountInv
<1>5. ASSUME NEW a \in Adder, NEW n \in Node, AddThreadNodeToList(a, n) PROVE CountInv'
  <2>1. Deciding' = Deciding \ {a} /\ a \in Deciding
    BY <1>5, AdderPcSets, Zenon DEF AddThreadNodeToList, AdderGoes, Deciding
  <2>2. Alive' = Alive \cup {n} /\ n \notin Alive /\ BusyNodes' = BusyNodes \ {n} /\ n \notin BusyNodes
    BY <1>5, WorkerPcSets, Zenon DEF AddThreadNodeToList, Alive, Working, BusyNodes, BusyPc
  <2>3. /\ Cardinality(Deciding') = Cardinality(Deciding) - 1
        /\ Cardinality(Alive') = Cardinality(Alive) + 1
        /\ BusyNodes' = BusyNodes
    <3>1. Cardinality(Deciding') = Cardinality(Deciding) - 1
      BY <2>1, FiniteSets, FS_RemoveElement
    <3>2. Cardinality(Alive') = Cardinality(Alive) + 1
      BY <2>2, FiniteSets, FS_AddElement
    <3> QED
      BY <2>2, <3>1, <3>2
  <2> QED
    BY <1>5, <1>a, <2>3, FiniteSets DEF AddThreadNodeToList, CountInv
<1>6. ASSUME NEW a \in Adder, SetNewTask(a) PROVE CountInv'
  <2>1. Deciding' = Deciding
    BY <1>6, AdderPcSets DEF SetNewTask, AdderGoes, Deciding
  <2> QED
    BY <1>6, <1>b, <2>1 DEF SetNewTask, CountInv
<1>7. ASSUME NEW n \in Node, Busy(n) PROVE CountInv'
  <2>1. Alive' = Alive /\ BusyNodes' = BusyNodes \cup {n} /\ n \notin BusyNodes
    BY <1>7, WorkerPcSets, Zenon DEF Busy, WorkerGoes, Alive, Working, BusyNodes, BusyPc
  <2>2. Cardinality(BusyNodes') = Cardinality(BusyNodes) + 1
    BY <2>1, FiniteSets, FS_RemoveElement, FS_AddElement
  <2> QED
    BY <1>7, <1>a, <1>c, <2>1, <2>2, FiniteSets DEF Busy, CountInv
<1>8. ASSUME NEW n \in Node, LoopTest(n) PROVE CountInv'
  <2>1. Alive' = Alive /\ BusyNodes' = BusyNodes
    BY <1>8, WorkerPcSets DEF LoopTest, WorkerGoes, Alive, Working, BusyNodes, BusyPc
  <2> QED
    BY <1>8, <1>c, <2>1 DEF LoopTest, CountInv
<1>9. ASSUME NEW n \in Node, PickPendingTask(n) PROVE CountInv'
  <2>1. Alive' = Alive /\ BusyNodes' = BusyNodes
    <3>1. n \in Alive /\ n \in BusyNodes
      BY <1>9 DEF PickPendingTask, Alive, Working, BusyNodes, BusyPc
    <3>2. CASE m_pending_tasks # << >>
      <4>1. worker' = [worker EXCEPT ![n] = [pc |-> "run", task |-> Head(m_pending_tasks)]]
        BY <1>9, <3>2 DEF PickPendingTask
      <4>2. Alive' = Alive \cup {n} /\ BusyNodes' = BusyNodes \cup {n}
        BY <4>1, <1>a, WorkerStepSets, Zenon DEF BusyPc
      <4> QED
        BY <3>1, <4>2
    <3>3. CASE m_pending_tasks = << >>
      <4>1. worker' = [worker EXCEPT ![n].pc = "unbusy"]
        BY <1>9, <3>3 DEF PickPendingTask
      <4>2. Alive' = Alive \cup {n} /\ BusyNodes' = BusyNodes \cup {n}
        BY <4>1, <1>a, WorkerPcSets, Zenon DEF BusyPc
      <4> QED
        BY <3>1, <4>2
    <3> QED
      BY <3>2, <3>3
  <2> QED
    BY <1>9, <1>c, <2>1 DEF PickPendingTask, CountInv
<1>10. ASSUME NEW n \in Node, AddCompleteTask(n) PROVE CountInv'
  <2>1. Alive' = Alive /\ BusyNodes' = BusyNodes
    BY <1>10, WorkerStepSets, WorkerPcSets DEF AddCompleteTask, WorkerGoes, Alive, Working, BusyNodes, BusyPc
  <2> QED
    BY <1>10, <1>c, <2>1 DEF AddCompleteTask, CountInv
<1>11. ASSUME NEW n \in Node, Unbusy(n) PROVE CountInv'
  <2>1. Alive' = Alive /\ BusyNodes' = BusyNodes \ {n} /\ n \in BusyNodes
    <3>1. worker[n].pc = "unbusy" /\ worker' = [worker EXCEPT ![n].pc = "wait"]
      BY <1>11 DEF Unbusy, WorkerGoes
    <3>2. n \in Alive /\ n \in BusyNodes
      BY <3>1 DEF Alive, Working, BusyNodes, BusyPc
    <3>4. worker'[n].pc = "wait" /\ \A i \in Node \ {n} : worker'[i] = worker[i]
      BY <3>1 DEF TypeOK
    <3>3. Alive' = Alive \cup {n} /\ BusyNodes' = BusyNodes \ {n}
      BY <3>4 DEF Alive, Working, BusyNodes, BusyPc
    <3> QED
      BY <3>2, <3>3
  <2>2. Cardinality(BusyNodes') = Cardinality(BusyNodes) - 1
    BY <2>1, FiniteSets, FS_RemoveElement, FS_AddElement
  <2> QED
    BY <1>11, <1>a, <1>c, <2>1, <2>2, FiniteSets DEF Unbusy, CountInv
<1>12. ASSUME NEW n \in Node, WaitNewTask(n) PROVE CountInv'
  <2>1. Alive' = Alive /\ BusyNodes' = BusyNodes
    BY <1>12, WorkerPcSets DEF WaitNewTask, WorkerGoes, Alive, Working, BusyNodes, BusyPc
  <2> QED
    BY <1>12, <1>c, <2>1 DEF WaitNewTask, CountInv
<1>13. ASSUME NEW n \in Node, TestPending(n) PROVE CountInv'
  <2>1. Alive' = Alive /\ BusyNodes' = BusyNodes
    BY <1>13, WorkerPcSets DEF TestPending, WorkerGoes, Alive, Working, BusyNodes, BusyPc
  <2> QED
    BY <1>13, <1>c, <2>1 DEF TestPending, CountInv
<1>14. ASSUME NEW n \in Node, TestThreadNum(n) PROVE CountInv'
  <2>1. CASE m_cur_thread_num > MinThreadNum
    <3>1. Alive' = Alive /\ BusyNodes' = BusyNodes \cup {n} /\ n \notin BusyNodes
      BY <1>14, <2>1, WorkerPcSets, Zenon DEF TestThreadNum, WorkerGoes, Alive, Working, BusyNodes, BusyPc
    <3>2. Cardinality(BusyNodes') = Cardinality(BusyNodes) + 1
      BY <3>1, FiniteSets, FS_AddElement
    <3> QED
      BY <1>14, <1>a, <1>c, <2>1, <3>1, <3>2, FiniteSets DEF TestThreadNum, CountInv
  <2>2. CASE ~(m_cur_thread_num > MinThreadNum)
    <3>1. Alive' = Alive /\ BusyNodes' = BusyNodes
      BY <1>14, <2>2, WorkerPcSets DEF TestThreadNum, WorkerGoes, Alive, Working, BusyNodes, BusyPc
    <3> QED
      BY <1>14, <1>c, <2>2, <3>1 DEF TestThreadNum, CountInv
  <2> QED
    BY <2>1, <2>2
<1>15. ASSUME NEW n \in Node, ThreadExit(n) PROVE CountInv'
  <2>1. Alive' = Alive \ {n} /\ n \in Alive /\ BusyNodes' = BusyNodes \ {n} /\ n \in BusyNodes
    BY <1>15, WorkerPcSets, Zenon DEF ThreadExit, WorkerGoes, Alive, Working, BusyNodes, BusyPc
  <2>2. /\ Cardinality(Alive') = Cardinality(Alive) - 1
        /\ Cardinality(BusyNodes') = Cardinality(BusyNodes) - 1
    BY <2>1, FiniteSets, FS_RemoveElement, FS_AddElement
  <2> QED
    BY <1>15, <1>a, <1>c, <2>1, <2>2, FiniteSets DEF ThreadExit, CountInv
<1>16. ASSUME NEW wait \in BOOLEAN, Terminate(wait) PROVE CountInv'
  BY <1>16, <1>b, <1>c DEF Terminate, CountInv
<1>17. CASE WaitPending
  BY <1>17, <1>b, <1>c DEF WaitPending, CountInv
<1>18. CASE SetExited
  BY <1>18, <1>b, <1>c DEF SetExited, CountInv
<1>19. CASE DrainSet
  BY <1>19, <1>b, <1>c DEF DrainSet, CountInv
<1>20. CASE DrainWait
  BY <1>20, <1>b, <1>c DEF DrainWait, CountInv
<1>21. CASE Release
  <2>1. Alive' = Alive /\ BusyNodes' = BusyNodes
    BY <1>21 DEF Release, Alive, Working, BusyNodes, BusyPc
  <2> QED
    BY <1>21, <1>c, <2>1 DEF Release, CountInv
<1>22. CASE UNCHANGED vars
  BY <1>22, <1>b, <1>c DEF vars, CountInv
<1> QED
  BY <1>1, <1>2, <1>3, <1>4, <1>5, <1>6, <1>7, <1>8, <1>9, <1>10, <1>11, <1>12, <1>13, <1>14, <1>15, <1>16, <1>17, <1>18, <1>19, <1>20, <1>21, <1>22
     DEF Next, AdderStep, WorkerStep, TerminateStep, Finished

\* The variables keep their types, for pools of every size and any number of
\* adders and tasks.
THEOREM TypeCorrect == Spec => []TypeOK
BY TypeInit, TypeStep, PTL DEF Spec

\* The inductive invariant holds throughout.
LEMMA CountCorrect == Spec => []CountInv
BY CountInit, CountStep, PTL DEF Spec

\* The two thread counters: m_cur_thread_num counts the threads between
\* AddThreadNodeToList and the end of ThreadRuntine, and m_cur_busy_thread_num
\* is too small by one for every thread that left on an idle timeout.
THEOREM CountsDriftCorrect == Spec => []CountsDrift
<1>1. CountInv => CountsDrift
  BY DEF CountInv, CountsDrift, Alive, BusyNodes
<1> QED
  BY <1>1, CountCorrect, PTL

\* However NeedNewThread and AddThreadNodeToList of several adders interleave,
\* the pool exceeds m_max_thread_num by less than the number of adders.
THEOREM ThreadBoundCorrect == Spec => []ThreadBound
<1>1. CountInv => ThreadBound
  BY FiniteSets, SizeAssumption DEF CountInv, ThreadBound, TypeOK
<1> QED
  BY <1>1, CountCorrect, PTL

-----------------------------------------------------------------------------
(***************************************************************************)
(* ThreadPool implements TaskQueue, and Terminate(true) drops no task, for *)
(* every set of adders, nodes and tasks.                                   *)
(***************************************************************************)
Pending == {m_pending_tasks[i] : i \in DOMAIN m_pending_tasks}
Pushing(a) == adder[a].pc = "push"
Runs(n) == worker[n].pc = "run"

\* The inductive invariant: no task is in two places.  Terminate starts when no
\* adder holds a task, and none takes one afterwards.
HeldInv ==
  /\ \A a \in Adder : Pushing(a) =>
       adder[a].task \in added \ (Pending \cup Running \cup ran \cup dropped)
  /\ \A a, b \in Adder : Pushing(a) /\ Pushing(b) /\ adder[a].task = adder[b].task => a = b
  /\ term # "no" => \A a \in Adder : ~Pushing(a)

PendingInv ==
  /\ \A i, j \in DOMAIN m_pending_tasks : m_pending_tasks[i] = m_pending_tasks[j] => i = j
  /\ Pending \subseteq added \ (Running \cup ran \cup dropped)

RunInv ==
  /\ \A n, m \in Node : Runs(n) /\ Runs(m) /\ worker[n].task = worker[m].task => n = m
  /\ Running \subseteq added \ (ran \cup dropped)
  /\ ran \cup dropped \subseteq added
  /\ ran \cap dropped = {}

PlaceInv == TypeOK /\ HeldInv /\ PendingInv /\ RunInv

\* Tasks are dropped by Release only; with is_wait nothing is pending by then.
WaitInv ==
  /\ term # "done" => dropped = {}
  /\ is_wait => dropped = {} /\ term # "no"
  /\ is_wait /\ term # "wait_pending" => m_pending_tasks = << >>

\* A new pool holds no task.
LEMMA PlaceInit == Init => PlaceInv /\ WaitInv
<1> SUFFICES ASSUME Init PROVE PlaceInv /\ WaitInv
  OBVIOUS
<1>1. Pending = {} /\ Running = {}
  BY DEF Init, Pending, Running
<1>2. WaitInv
  BY Zenon DEF Init, WaitInv
<1>3. HeldInv
  BY DEF Init, HeldInv, Pushing
<1>4. PendingInv /\ RunInv
  BY <1>1 DEF Init, PendingInv, RunInv, Runs
<1> QED
  BY <1>2, <1>3, <1>4, TypeInit DEF PlaceInv

\* Steps that touch no task: no adder takes one, the same workers run the same
\* ones, and the queue and the history stay.
Quiet ==
  /\ \A a \in Adder : Pushing(a)' => Pushing(a) /\ adder'[a].task = adder[a].task
  /\ \A n \in Node : Runs(n)' => Runs(n)
  /\ \A n \in Node : Runs(n) => Runs(n)' /\ worker'[n].task = worker[n].task
  /\ UNCHANGED <<m_pending_tasks, added, ran, dropped>>
  /\ term' # "no" => term # "no" \/ \A a \in Adder : ~Pushing(a)'

\* Such steps keep every task where it is.
LEMMA QuietStep == ASSUME PlaceInv, TypeOK', Quiet PROVE PlaceInv' /\ Running' = Running
<1>1. \A t : t \in Running' <=> t \in Running
  BY DEF Quiet, Running, Runs
<1> Running' = Running
  BY <1>1
<1>2. Pending' = Pending
  BY DEF Quiet, Pending
<1>3. HeldInv'
  BY <1>1, <1>2 DEF Quiet, PlaceInv, HeldInv
<1>4. PendingInv'
  BY <1>1, <1>2 DEF Quiet, PlaceInv, PendingInv
<1>5. RunInv'
  BY <1>1 DEF Quiet, PlaceInv, RunInv
<1> QED
  BY <1>1, <1>3, <1>4, <1>5 DEF PlaceInv

\* The worker that moves on without a task, or the adder, is the only one to change.
LEMMA QuietWorker ==
  ASSUME TypeOK, NEW n \in Node, NEW pc, pc # "run", ~Runs(n),
         worker' = [worker EXCEPT ![n].pc = pc],
         UNCHANGED <<m_pending_tasks, added, ran, dropped, adder, term>>
  PROVE  Quiet
BY DEF Quiet, TypeOK, Pushing, Runs

\* The same for an adder that has no task to hand over.
LEMMA QuietAdder ==
  ASSUME TypeOK, NEW a \in Adder, NEW pc, pc # "push",
         adder' = [adder EXCEPT ![a].pc = pc],
         UNCHANGED <<m_pending_tasks, added, ran, dropped, worker, term>>
  PROVE  Quiet
BY DEF Quiet, TypeOK, Pushing, Runs

\* AddTask: the task was never added, so it is nowhere else.
LEMMA AddTaskStep ==
  ASSUME PlaceInv, TypeOK', NEW a \in Adder, NEW t \in Task, AddTask(a, t)
  PROVE  PlaceInv' /\ Running' = Running
<1> USE DEF tasks, counts, events, shutdown, history
<1>1. UNCHANGED <<m_pending_tasks, worker, ran, dropped, term>> /\ added' = added \cup {t}
  BY DEF AddTask
<1>2. Running' = Running /\ Pending' = Pending
  BY <1>1 DEF Running, Pending
<1>3. /\ adder'[a] = [pc |-> "push", task |-> t]
      /\ \A b \in Adder \ {a} : adder'[b] = adder[b]
      /\ t \notin added /\ term = "no"
  BY DEF AddTask, PlaceInv, TypeOK
<1>4. HeldInv'
  BY <1>1, <1>2, <1>3 DEF PlaceInv, HeldInv, PendingInv, RunInv, Pushing
<1>5. PendingInv' /\ RunInv'
  BY <1>1, <1>2 DEF PlaceInv, PendingInv, RunInv, Runs
<1> QED
  BY <1>2, <1>4, <1>5 DEF PlaceInv

\* AddPendingTask: the task leaves its adder for one end of the queue.
LEMMA AddPendingTaskStep ==
  ASSUME PlaceInv, TypeOK', NEW a \in Adder, NEW is_priority \in BOOLEAN,
         AddPendingTask(a, is_priority)
  PROVE  PlaceInv' /\ Running' = Running /\ Pending' = Pending \cup {adder[a].task}
<1> USE DEF tasks, counts, events, shutdown, history
<1> DEFINE t == adder[a].task
           q == m_pending_tasks
<1>1. UNCHANGED <<worker, added, ran, dropped, term>>
  BY DEF AddPendingTask
<1>2. Running' = Running
  BY <1>1 DEF Running
<1>3. /\ Pushing(a) /\ ~Pushing(a)'
      /\ \A b \in Adder \ {a} : adder'[b] = adder[b]
  BY DEF AddPendingTask, PlaceInv, TypeOK, Pushing
<1>4. t \in Task /\ q \in Seq(Task) /\ t \in added \ (Pending \cup Running \cup ran \cup dropped)
  BY <1>3 DEF PlaceInv, TypeOK, HeldInv, Pushing
<1>5. /\ Pending' = Pending \cup {t}
      /\ \A i, j \in DOMAIN m_pending_tasks' : m_pending_tasks'[i] = m_pending_tasks'[j] => i = j
  <2>1. CASE is_priority
    <3>1. m_pending_tasks' = <<t>> \o q
      BY <2>1 DEF AddPendingTask
    <3>2. /\ DOMAIN m_pending_tasks' = 1 .. Len(q) + 1
          /\ m_pending_tasks'[1] = t
          /\ \A i \in 2 .. Len(q) + 1 : i - 1 \in DOMAIN q /\ m_pending_tasks'[i] = q[i - 1]
          /\ \A i \in DOMAIN q : i + 1 \in 1 .. Len(q) + 1 /\ m_pending_tasks'[i + 1] = q[i]
      BY <1>4, <3>1
    <3>3. Pending' = Pending \cup {t}
      BY <1>4, <3>2 DEF Pending
    <3>4. \A i, j \in 1 .. Len(q) + 1 : m_pending_tasks'[i] = m_pending_tasks'[j] => i = j
      <4>1. \A i \in 2 .. Len(q) + 1 : m_pending_tasks'[i] # t
        BY <1>4, <3>2 DEF Pending
      <4>2. \A i, j \in 2 .. Len(q) + 1 : q[i - 1] = q[j - 1] => i = j
        BY <1>4, <3>2 DEF PlaceInv, PendingInv
      <4>3. \A i \in 1 .. Len(q) + 1 : i = 1 \/ i \in 2 .. Len(q) + 1
        BY <1>4
      <4>4. m_pending_tasks'[1] = t /\ \A i \in 2 .. Len(q) + 1 : m_pending_tasks'[i] = q[i - 1]
        BY <3>2
      <4> QED
        BY <4>1, <4>2, <4>3, <4>4
    <3> QED
      BY <3>2, <3>3, <3>4
  <2>2. CASE ~is_priority
    <3>1. m_pending_tasks' = Append(q, t)
      BY <2>2 DEF AddPendingTask
    <3>2. /\ Len(m_pending_tasks') = Len(q) + 1
          /\ m_pending_tasks'[Len(q) + 1] = t
          /\ \A i \in 1 .. Len(q) : m_pending_tasks'[i] = q[i]
      BY <1>4, <3>1
    <3> QED
      BY <1>4, <3>1, <3>2 DEF Pending, PlaceInv, PendingInv
  <2> QED
    BY <2>1, <2>2
<1>6. HeldInv'
  BY <1>1, <1>2, <1>3, <1>5 DEF PlaceInv, HeldInv, Pushing
<1>7. PendingInv' /\ RunInv'
  BY <1>1, <1>2, <1>4, <1>5 DEF PlaceInv, PendingInv, RunInv, Runs
<1> QED
  BY <1>2, <1>5, <1>6, <1>7 DEF PlaceInv

\* PickPendingTask: the head of the queue goes to the worker.
LEMMA PickPendingTaskStep ==
  ASSUME PlaceInv, TypeOK', NEW n \in Node, PickPendingTask(n), m_pending_tasks # << >>
  PROVE  /\ PlaceInv'
         /\ Running' = Running \cup {Head(m_pending_tasks)}
         /\ Pending \subseteq Pending' \cup {Head(m_pending_tasks)}
<1> USE DEF tasks, counts, events, shutdown, history
<1> DEFINE q == m_pending_tasks
           t == Head(q)
<1>1. UNCHANGED <<adder, added, ran, dropped, term>>
  BY DEF PickPendingTask
<1>2. /\ ~Runs(n)
      /\ worker'[n] = [pc |-> "run", task |-> t]
      /\ \A m \in Node \ {n} : worker'[m] = worker[m]
  BY DEF PickPendingTask, PlaceInv, TypeOK, Runs
<1>3. Running' = Running \cup {t}
  BY <1>2 DEF Running, Runs
<1>4. m_pending_tasks' = Tail(q) /\ q \in Seq(Task) /\ Len(q) \in Nat \ {0}
  BY DEF PickPendingTask, PlaceInv, TypeOK
<1>5. /\ DOMAIN m_pending_tasks' = 1 .. Len(q) - 1
      /\ \A i \in 1 .. Len(q) - 1 : i + 1 \in DOMAIN q /\ m_pending_tasks'[i] = q[i + 1]
      /\ 1 \in DOMAIN q /\ q[1] = t
  BY <1>4
<1>6. Pending' \subseteq Pending /\ t \in Pending /\ t \notin Pending'
  <2>1. Pending' \subseteq Pending /\ t \in Pending
    BY <1>5 DEF Pending
  <2>2. \A i \in 1 .. Len(q) - 1 : m_pending_tasks'[i] # t
    BY <1>4, <1>5 DEF PlaceInv, PendingInv
  <2> QED
    BY <1>5, <2>1, <2>2 DEF Pending
<1>7. HeldInv'
  BY <1>1, <1>3, <1>6 DEF PlaceInv, HeldInv, Pushing
<1>8. PendingInv'
  <2>1. \A i, j \in 1 .. Len(q) - 1 : q[i + 1] = q[j + 1] => i = j
    BY <1>4, <1>5 DEF PlaceInv, PendingInv
  <2>2. Pending' \subseteq added' \ (Running' \cup ran' \cup dropped')
    BY <1>1, <1>3, <1>6 DEF PlaceInv, PendingInv
  <2> QED
    BY <1>5, <2>1, <2>2, Zenon DEF PendingInv
<1>9. RunInv'
  <2>1. t \in added \ (Running \cup ran \cup dropped)
    BY <1>6 DEF PlaceInv, PendingInv
  <2>2. \A m \in Node : Runs(m) => worker[m].task \in Running
    BY DEF Running, Runs
  <2> QED
    BY <1>1, <1>2, <1>3, <2>1, <2>2 DEF PlaceInv, RunInv, Runs
<1>10. Pending \subseteq Pending' \cup {t}
  <2>1. ASSUME NEW i \in DOMAIN q, q[i] # t PROVE q[i] \in Pending'
    <3>1. i - 1 \in 1 .. Len(q) - 1
      BY <1>4, <1>5, <2>1
    <3>2. m_pending_tasks'[i - 1] = q[i]
      BY <1>4, <1>5, <3>1
    <3> QED
      BY <1>5, <3>1, <3>2 DEF Pending
  <2> QED
    BY <2>1 DEF Pending
<1> QED
  BY <1>3, <1>7, <1>8, <1>9, <1>10 DEF PlaceInv

\* AddCompleteTask: the task that has run leaves its worker, the only one to run it.
LEMMA AddCompleteTaskStep ==
  ASSUME PlaceInv, TypeOK', NEW n \in Node, AddCompleteTask(n)
  PROVE  /\ PlaceInv'
         /\ worker[n].task \in Running
         /\ Running' = Running \ {worker[n].task}
<1> USE DEF tasks, counts, events, shutdown, history
<1> DEFINE t == worker[n].task
<1>1. UNCHANGED <<m_pending_tasks, adder, added, dropped, term>> /\ ran' = ran \cup {t}
  BY DEF AddCompleteTask
<1>2. /\ Runs(n) /\ ~Runs(n)'
      /\ \A m \in Node \ {n} : worker'[m] = worker[m]
  BY DEF AddCompleteTask, PlaceInv, TypeOK, Runs
<1>3. t \in Running
  BY <1>2 DEF Running, Runs
<1>4. Running' = Running \ {t}
  BY <1>2 DEF Running, Runs, PlaceInv, RunInv
<1>5. Pending' = Pending
  BY <1>1 DEF Pending
<1>6. HeldInv'
  BY <1>1, <1>3, <1>4, <1>5 DEF PlaceInv, HeldInv, Pushing
<1>7. PendingInv'
  BY <1>1, <1>3, <1>4, <1>5 DEF PlaceInv, PendingInv
<1>8. RunInv'
  BY <1>1, <1>2, <1>3, <1>4 DEF PlaceInv, RunInv, Runs
<1> QED
  BY <1>3, <1>4, <1>6, <1>7, <1>8 DEF PlaceInv

\* Release: no thread is left, so none runs a task; the pending ones are dropped.
LEMMA ReleaseStep ==
  ASSUME PlaceInv, CountInv, TypeOK', Release
  PROVE  PlaceInv' /\ Running = {} /\ Running' = {}
<1> USE DEF tasks, counts, events, shutdown, history
<1>1. Alive = {}
  <2>1. Cardinality(Alive) = 0
    BY FiniteSets DEF Release, CountInv
  <2> QED
    BY <2>1, FiniteSets, FS_EmptySet
<1>2. \A n \in Node : ~Runs(n) /\ ~Runs(n)'
  BY <1>1 DEF Release, Alive, Working, Runs
<1>3. Running = {} /\ Running' = {}
  BY <1>2 DEF Running, Runs
<1>4. /\ UNCHANGED <<adder, added, ran>>
      /\ dropped' = dropped \cup Pending
      /\ m_pending_tasks' = << >>
      /\ term = "drain" /\ term' = "done"
  BY DEF Release, Pending
<1>5. Pending' = {}
  BY <1>4 DEF Pending
<1>6. HeldInv'
  BY <1>4 DEF PlaceInv, HeldInv, Pushing
<1>7. PendingInv'
  BY <1>4, <1>5 DEF PendingInv
<1>8. RunInv'
  BY <1>2, <1>3, <1>4 DEF PlaceInv, RunInv, PendingInv
<1> QED
  BY <1>3, <1>6, <1>7, <1>8 DEF PlaceInv

\* Every step of the pool keeps tasks in one place and is a step of TaskQueue,
\* or changes nothing that TaskQueue sees.
LEMMA QueueStep ==
  ASSUME PlaceInv, CountInv, [Next]_vars
  PROVE  PlaceInv' /\ [Queue!Next]_(Queue!vars)
<1> USE DEF tasks, counts, events, shutdown, history
<1> TypeOK /\ TypeOK'
  BY TypeStep DEF PlaceInv
<1>q. ASSUME Quiet, (term = "done")' = (term = "done")
      PROVE  PlaceInv' /\ [Queue!Next]_(Queue!vars)
  <2>1. PlaceInv' /\ Running' = Running
    BY <1>q, QuietStep
  <2> QED
    BY <1>q, <2>1, Zenon DEF Quiet, Queue!vars
<1>1. ASSUME NEW a \in Adder, NEW t \in Task, AddTask(a, t)
      PROVE  PlaceInv' /\ [Queue!Next]_(Queue!vars)
  <2>1. PlaceInv' /\ Running' = Running
    BY <1>1, AddTaskStep
  <2> QED
    BY <1>1, <2>1 DEF AddTask, Queue!vars
<1>2. ASSUME NEW a \in Adder, NEW is_priority \in BOOLEAN, AddPendingTask(a, is_priority)
      PROVE  PlaceInv' /\ [Queue!Next]_(Queue!vars)
  <2>1. PlaceInv' /\ Running' = Running
    BY <1>2, AddPendingTaskStep
  <2>2. /\ adder[a].task \in Task
        /\ adder[a].task \notin Pending \cup Running \cup ran \cup dropped
        /\ term = "no"
    BY <1>2 DEF AddPendingTask, PlaceInv, HeldInv, Pushing, TypeOK
  <2>3. Queue!Submit(adder[a].task, is_priority)
    BY <1>2, <2>1, <2>2 DEF AddPendingTask, Queue!Submit, Queue!Queued, Pending
  <2> QED
    BY <2>1, <2>2, <2>3 DEF Queue!Next
<1>3. ASSUME NEW n \in Node, PickPendingTask(n)
      PROVE  PlaceInv' /\ [Queue!Next]_(Queue!vars)
  <2>1. CASE m_pending_tasks # << >>
    <3>1. PlaceInv' /\ Running' = Running \cup {Head(m_pending_tasks)}
      BY <1>3, <2>1, PickPendingTaskStep
    <3>2. Queue!Begin
      BY <1>3, <2>1, <3>1 DEF PickPendingTask, Queue!Begin
    <3> QED
      BY <3>1, <3>2 DEF Queue!Next
  <2>2. CASE m_pending_tasks = << >>
    BY <1>3, <2>2, <1>q, QuietWorker, Zenon DEF PickPendingTask, Runs
  <2> QED
    BY <2>1, <2>2
<1>4. ASSUME NEW n \in Node, AddCompleteTask(n)
      PROVE  PlaceInv' /\ [Queue!Next]_(Queue!vars)
  <2>1. /\ PlaceInv'
        /\ worker[n].task \in Running
        /\ Running' = Running \ {worker[n].task}
    BY <1>4, AddCompleteTaskStep
  <2>2. Queue!Finish(worker[n].task)
    BY <1>4, <2>1 DEF AddCompleteTask, Queue!Finish
  <2>3. worker[n].task \in Task
    BY <1>4 DEF AddCompleteTask, TypeOK
  <2> QED
    BY <2>1, <2>2, <2>3 DEF Queue!Next
<1>5. CASE Release
  <2>1. PlaceInv' /\ Running = {} /\ Running' = {}
    BY <1>5, ReleaseStep
  <2>2. Queue!Close
    BY <1>5, <2>1 DEF Release, Queue!Close, Queue!Queued
  <2> QED
    BY <2>1, <2>2 DEF Queue!Next
<1>6. ASSUME NEW a \in Adder,
             \/ NeedNewThreadMax(a)
             \/ NeedNewThreadBusy(a)
             \/ SetNewTask(a)
      PROVE  PlaceInv' /\ [Queue!Next]_(Queue!vars)
  BY <1>6, <1>q, QuietAdder DEF NeedNewThreadMax, NeedNewThreadBusy, SetNewTask, AdderGoes
<1>7. ASSUME NEW a \in Adder, NEW n \in Node, AddThreadNodeToList(a, n)
      PROVE  PlaceInv' /\ [Queue!Next]_(Queue!vars)
  <2>1. /\ ~Pushing(a)' /\ \A b \in Adder \ {a} : adder'[b] = adder[b]
        /\ ~Runs(n) /\ ~Runs(n)' /\ \A m \in Node \ {n} : worker'[m] = worker[m]
    BY <1>7 DEF AddThreadNodeToList, AdderGoes, TypeOK, Pushing, Runs
  <2>2. Quiet
    BY <1>7, <2>1 DEF AddThreadNodeToList, Quiet, Pushing, Runs
  <2> QED
    BY <1>7, <1>q, <2>2 DEF AddThreadNodeToList
<1>8. ASSUME NEW n \in Node,
             \/ Busy(n)
             \/ LoopTest(n)
             \/ Unbusy(n)
             \/ WaitNewTask(n)
             \/ TestPending(n)
             \/ TestThreadNum(n)
             \/ ThreadExit(n)
      PROVE  PlaceInv' /\ [Queue!Next]_(Queue!vars)
  <2>1. /\ ~Runs(n)
        /\ \E pc : pc # "run" /\ worker' = [worker EXCEPT ![n].pc = pc]
        /\ UNCHANGED <<m_pending_tasks, added, ran, dropped, adder, term>>
    BY <1>8, Zenon DEF Busy, LoopTest, Unbusy, WaitNewTask, TestPending, TestThreadNum, ThreadExit,
                WorkerGoes, Runs
  <2> QED
    BY <1>q, <2>1, QuietWorker, Zenon
<1>9. CASE \/ \E wait \in BOOLEAN : Terminate(wait)
           \/ WaitPending
           \/ SetExited
           \/ DrainSet
           \/ DrainWait
           \/ UNCHANGED vars
  <2>1. /\ UNCHANGED <<adder, worker, m_pending_tasks, added, ran, dropped>>
        /\ (term = "done")' = (term = "done")
        /\ term' # "no" => term # "no" \/ \A a \in Adder : ~Pushing(a)
    BY <1>9 DEF Terminate, WaitPending, SetExited, DrainSet, DrainWait, vars, Pushing
  <2>2. Quiet
    BY <2>1 DEF Quiet, Pushing, Runs
  <2> QED
    BY <1>q, <2>1, <2>2
<1> QED
  BY <1>1, <1>2, <1>3, <1>4, <1>5, <1>6, <1>7, <1>8, <1>9
     DEF Next, AdderStep, WorkerStep, TerminateStep, Finished

\* A task is in one place throughout.
LEMMA PlaceCorrect == Spec => []PlaceInv
BY PlaceInit, QueueStep, CountCorrect, PTL DEF Spec

\* The pool implements TaskQueue: however adders, workers and Terminate
\* interleave, tasks begin in the order of the queue, each runs once, and those
\* dropped by Terminate are dropped when no task runs.
THEOREM ImplementsTaskQueueCorrect == Spec => ImplementsTaskQueue
<1>1. Init => Queue!Init
  BY DEF Init, Queue!Init, Running
<1> QED
  BY <1>1, QueueStep, PlaceCorrect, CountCorrect, PTL DEF Spec, Queue!Spec, ImplementsTaskQueue

\* With is_wait the queue is empty from the end of the poll on: no adder is
\* left that could fill it again.
LEMMA WaitStep == ASSUME PlaceInv, WaitInv, [Next]_vars PROVE WaitInv'
<1> USE DEF tasks, counts, events, shutdown, history
<1>1. ASSUME NEW a \in Adder, NEW t \in Task, AddTask(a, t) PROVE WaitInv'
  BY <1>1 DEF AddTask, WaitInv
<1>2. ASSUME NEW a \in Adder, AdderStep(a) PROVE WaitInv'
  <2>1. ASSUME NEW is_priority \in BOOLEAN, AddPendingTask(a, is_priority) PROVE WaitInv'
    <3>1. term = "no"
      BY <2>1 DEF AddPendingTask, PlaceInv, HeldInv, Pushing
    <3> QED
      BY <2>1, <3>1 DEF AddPendingTask, WaitInv
  <2>2. CASE ~\E is_priority \in BOOLEAN : AddPendingTask(a, is_priority)
    <3>1. UNCHANGED <<m_pending_tasks, term, is_wait, dropped>>
      BY <1>2, <2>2 DEF AdderStep, NeedNewThreadMax, NeedNewThreadBusy, AddThreadNodeToList, SetNewTask
    <3> QED
      BY <3>1 DEF WaitInv
  <2> QED
    BY <2>1, <2>2
<1>3. ASSUME NEW n \in Node, WorkerStep(n) PROVE WaitInv'
  <2>1. UNCHANGED <<term, is_wait, dropped>>
    BY <1>3 DEF WorkerStep, Busy, LoopTest, PickPendingTask, AddCompleteTask, Unbusy, WaitNewTask,
                TestPending, TestThreadNum, ThreadExit
  <2>2. m_pending_tasks = << >> => m_pending_tasks' = << >>
    BY <1>3 DEF WorkerStep, Busy, LoopTest, PickPendingTask, AddCompleteTask, Unbusy, WaitNewTask,
                TestPending, TestThreadNum, ThreadExit
  <2> QED
    BY <2>1, <2>2 DEF WaitInv
<1>4. ASSUME NEW wait \in BOOLEAN, Terminate(wait) PROVE WaitInv'
  BY <1>4 DEF Terminate, WaitInv
<1>5. CASE WaitPending \/ SetExited \/ DrainSet \/ DrainWait
  <2>1. CASE WaitPending
    BY <2>1 DEF WaitPending, WaitInv
  <2>2. CASE SetExited
    BY <2>2 DEF SetExited, WaitInv
  <2>3. CASE DrainSet
    BY <2>3 DEF DrainSet, WaitInv
  <2>4. CASE DrainWait
    BY <2>4 DEF DrainWait, WaitInv
  <2> QED
    BY <1>5, <2>1, <2>2, <2>3, <2>4
<1>6. CASE Release
  BY <1>6 DEF Release, WaitInv
<1>7. CASE UNCHANGED vars
  BY <1>7 DEF vars, WaitInv
<1> QED
  BY <1>1, <1>2, <1>3, <1>4, <1>5, <1>6, <1>7 DEF Next, TerminateStep, Finished

\* Terminate(true) deletes no task that has not run: it polls until none is
\* pending before it sets m_exited, and nobody adds one in the meantime.
THEOREM WaitDropsNothingCorrect == Spec => []WaitDropsNothing
<1>1. WaitInv => WaitDropsNothing
  BY DEF WaitInv, WaitDropsNothing
<1> QED
  BY <1>1, PlaceInit, WaitStep, PlaceCorrect, PTL DEF Spec

-----------------------------------------------------------------------------
(***************************************************************************)
(* Tasks and their nodes are accounted for.                                *)
(***************************************************************************)
Pushers   == {a \in Adder : Pushing(a)}
Runners   == {n \in Node : Runs(n)}
HeldTasks == {adder[a].task : a \in Pushers}

\* Only an adder that is to push, and a worker that runs, has a task.
NoStray ==
  /\ \A a \in Adder : ~Pushing(a) => adder[a].task = None
  /\ \A n \in Node : ~Runs(n) => worker[n].task = None

\* A task that was added is somewhere.
NoneLost == added \subseteq HeldTasks \cup Pending \cup Running \cup ran \cup dropped

\* Every TaskNode is in one of the two lists or with a thread that uses it.
NodeCount ==
  nodes = m_completed_tasks + Len(m_pending_tasks) + Cardinality(Pushers) + Cardinality(Runners)

\* Terminate finds no adder under way and leaves no thread and no node.
Over ==
  /\ term # "no" => \A a \in Adder : adder[a].pc = "idle"
  /\ term = "done" => nodes = 0 /\ \A n \in Node : worker[n].pc = "none"

AccountInv == NoStray /\ NoneLost /\ NodeCount /\ Over

\* The threads that hold a task are finitely many.
LEMMA FiniteHolders ==
  /\ IsFiniteSet(Pushers) /\ IsFiniteSet(Runners)
  /\ Cardinality(Pushers) \in Nat /\ Cardinality(Runners) \in Nat
<1>1. Pushers \in SUBSET Adder /\ Runners \in SUBSET Node
  BY DEF Pushers, Runners
<1> QED
  BY <1>1, AdderAssumption, NodeAssumption, FS_Subset, FS_CardinalityType

\* A new pool has nothing to account for.
LEMMA AccountInit == Init => AccountInv
<1> SUFFICES ASSUME Init PROVE AccountInv
  OBVIOUS
<1>1. Pushers = {} /\ Runners = {}
  BY DEF Init, Pushers, Pushing, Runners, Runs
<1>2. Cardinality(Pushers) = 0 /\ Cardinality(Runners) = 0 /\ Len(m_pending_tasks) = 0
  BY <1>1, FS_EmptySet DEF Init
<1>3. NodeCount
  BY <1>2 DEF Init, NodeCount
<1>4. NoStray /\ Over /\ NoneLost
  BY DEF Init, NoStray, Over, NoneLost
<1> QED
  BY <1>3, <1>4 DEF AccountInv

\* Steps in which no thread takes or gives a task.
Idle ==
  /\ \A a \in Adder : (Pushing(a)' <=> Pushing(a)) /\ adder'[a].task = adder[a].task
  /\ \A n \in Node : (Runs(n)' <=> Runs(n)) /\ worker'[n].task = worker[n].task
  /\ UNCHANGED <<m_pending_tasks, m_completed_tasks, added, ran, dropped, nodes>>

\* Such steps leave the account as it is.
LEMMA IdleStep == ASSUME AccountInv, Idle PROVE NoStray' /\ NoneLost' /\ NodeCount'
<1>1. Pushers' = Pushers /\ Runners' = Runners
  BY DEF Idle, Pushers, Runners
<1>2. HeldTasks' = HeldTasks
  BY <1>1 DEF Idle, HeldTasks, Pushers
<1>3. Pending' = Pending
  BY DEF Idle, Pending
<1>4. Running' = Running
  <2>1. \A t : t \in Running' <=> t \in Running
    BY DEF Idle, Running, Runs
  <2> QED
    BY <2>1
<1>5. NoStray'
  BY DEF AccountInv, NoStray, Idle
<1>6. NoneLost'
  BY <1>2, <1>3, <1>4 DEF AccountInv, NoneLost, Idle
<1>7. NodeCount'
  BY <1>1 DEF AccountInv, NodeCount, Idle
<1> QED
  BY <1>5, <1>6, <1>7

\* A worker that moves on without a task is such a step.
LEMMA IdleWorker ==
  ASSUME TypeOK, NEW n \in Node, NEW pc, pc # "run", ~Runs(n),
         worker' = [worker EXCEPT ![n].pc = pc],
         UNCHANGED <<m_pending_tasks, m_completed_tasks, added, ran, dropped, nodes, adder>>
  PROVE  Idle
BY DEF Idle, TypeOK, Pushing, Runs

\* So is an adder that has no task any more.
LEMMA IdleAdder ==
  ASSUME TypeOK, NEW a \in Adder, NEW pc, pc # "push", ~Pushing(a),
         adder' = [adder EXCEPT ![a].pc = pc],
         UNCHANGED <<m_pending_tasks, m_completed_tasks, added, ran, dropped, nodes, worker>>
  PROVE  Idle
BY DEF Idle, TypeOK, Pushing, Runs

\* AddTask takes a node for the new task.
LEMMA AddTaskAccount ==
  ASSUME PlaceInv, AccountInv, NEW a \in Adder, NEW t \in Task, AddTask(a, t)
  PROVE  AccountInv'
<1> USE DEF tasks, counts, events, shutdown, history
<1>1. /\ adder'[a] = [pc |-> "push", task |-> t]
      /\ \A b \in Adder \ {a} : adder'[b] = adder[b]
      /\ ~Pushing(a) /\ UNCHANGED <<worker, m_pending_tasks, ran, dropped, term>>
      /\ added' = added \cup {t} /\ term = "no"
  BY DEF AddTask, PlaceInv, TypeOK, Pushing
<1>2. Pushing(a)' /\ adder'[a].task = t
  BY <1>1 DEF Pushing
<1>3. \A b \in Adder \ {a} : (Pushing(b)' <=> Pushing(b)) /\ adder'[b].task = adder[b].task
  BY <1>1 DEF Pushing
<1>4. Pushers' = Pushers \cup {a} /\ a \notin Pushers /\ Runners' = Runners
  BY <1>1, <1>2, <1>3 DEF Pushers, Runners, Runs
<1>5. Cardinality(Pushers') = Cardinality(Pushers) + 1
  BY <1>4, FiniteHolders, FS_AddElement, Zenon
<1>6. NodeCount'
  <2>1. m_completed_tasks \in Nat /\ Len(m_pending_tasks) \in Nat /\ nodes \in Int
    BY DEF PlaceInv, TypeOK
  <2>2. nodes = m_completed_tasks + Len(m_pending_tasks) + Cardinality(Pushers) + Cardinality(Runners)
    BY DEF AccountInv, NodeCount
  <2>3. nodes' = m_completed_tasks' + Len(m_pending_tasks) + (Cardinality(Pushers) + 1) + Cardinality(Runners)
    <3>1. CASE m_completed_tasks > 0
      <4>1. nodes' = nodes /\ m_completed_tasks' = m_completed_tasks - 1
        BY <3>1 DEF AddTask
      <4> QED
        BY <2>1, <2>2, <4>1, FiniteHolders
    <3>2. CASE ~(m_completed_tasks > 0)
      <4>1. nodes' = nodes + 1 /\ m_completed_tasks' = m_completed_tasks
        BY <3>2 DEF AddTask
      <4> QED
        BY <2>1, <2>2, <4>1, FiniteHolders
    <3> QED
      BY <3>1, <3>2
  <2> QED
    BY <1>1, <1>4, <1>5, <2>3 DEF NodeCount
<1>7. NoneLost'
  <2>1. HeldTasks \subseteq HeldTasks' /\ t \in HeldTasks'
    BY <1>2, <1>3, <1>4 DEF HeldTasks, Pushers
  <2>2. Running' = Running /\ Pending' = Pending
    BY <1>1 DEF Running, Pending
  <2> QED
    BY <1>1, <2>1, <2>2 DEF AccountInv, NoneLost
<1>8. NoStray' /\ Over'
  BY <1>1, <1>2, <1>3, Zenon DEF AccountInv, NoStray, Over, Runs
<1> QED
  BY <1>6, <1>7, <1>8 DEF AccountInv

\* AddPendingTask moves the task and its node to the queue.
LEMMA AddPendingAccount ==
  ASSUME PlaceInv, TypeOK', AccountInv, NEW a \in Adder, NEW is_priority \in BOOLEAN,
         AddPendingTask(a, is_priority)
  PROVE  AccountInv'
<1> USE DEF tasks, counts, events, shutdown, history
<1> DEFINE t == adder[a].task
<1>1. /\ adder'[a] = [pc |-> "need_max", task |-> None]
      /\ \A b \in Adder \ {a} : adder'[b] = adder[b]
      /\ Pushing(a) /\ UNCHANGED <<worker, m_completed_tasks, added, ran, dropped, nodes, term>>
  BY DEF AddPendingTask, PlaceInv, TypeOK, Pushing
<1>2. ~Pushing(a)' /\ adder'[a].task = None
  BY <1>1 DEF Pushing
<1>3. \A b \in Adder \ {a} : (Pushing(b)' <=> Pushing(b)) /\ adder'[b].task = adder[b].task
  BY <1>1 DEF Pushing
<1>4. Pushers' = Pushers \ {a} /\ a \in Pushers /\ Runners' = Runners
  BY <1>1, <1>2, <1>3, Zenon DEF Pushers, Runners, Runs
<1>5. Cardinality(Pushers') = Cardinality(Pushers) - 1
  BY <1>4, FiniteHolders, FS_RemoveElement, Zenon
<1>6. Pending' = Pending \cup {t} /\ Running' = Running
  BY AddPendingTaskStep
<1>7. Len(m_pending_tasks') = Len(m_pending_tasks) + 1 /\ Len(m_pending_tasks) \in Nat
  <2>1. m_pending_tasks \in Seq(Task) /\ t \in Task
    BY <1>1 DEF PlaceInv, TypeOK, Pushing
  <2>2. \/ m_pending_tasks' = <<t>> \o m_pending_tasks
        \/ m_pending_tasks' = Append(m_pending_tasks, t)
    BY DEF AddPendingTask
  <2> HIDE DEF t
  <2>3. CASE m_pending_tasks' = <<t>> \o m_pending_tasks
    <3>1. Len(m_pending_tasks') = Len(<<t>>) + Len(m_pending_tasks)
      BY ONLY <2>1, <2>3
    <3>2. Len(<<t>>) = 1 /\ Len(m_pending_tasks) \in Nat
      BY ONLY <2>1
    <3> QED
      BY ONLY <3>1, <3>2
  <2>4. CASE m_pending_tasks' = Append(m_pending_tasks, t)
    BY ONLY <2>1, <2>4
  <2> QED
    BY ONLY <2>2, <2>3, <2>4
<1>8. NodeCount'
  <2>1. m_completed_tasks \in Nat /\ nodes \in Int
    BY DEF PlaceInv, TypeOK
  <2>2. nodes = m_completed_tasks + Len(m_pending_tasks) + Cardinality(Pushers) + Cardinality(Runners)
    BY DEF AccountInv, NodeCount
  <2>3. nodes = m_completed_tasks + (Len(m_pending_tasks) + 1) + (Cardinality(Pushers) - 1)
                  + Cardinality(Runners)
    BY <1>7, <2>1, <2>2, FiniteHolders
  <2> QED
    BY <1>1, <1>4, <1>5, <1>7, <2>3 DEF NodeCount
<1>9. NoneLost'
  <2>1. HeldTasks \subseteq HeldTasks' \cup {t}
    BY <1>3, <1>4 DEF HeldTasks, Pushers
  <2> QED
    BY <1>1, <1>6, <2>1 DEF AccountInv, NoneLost
<1>10. NoStray' /\ Over'
  BY <1>1, <1>2, <1>3 DEF AccountInv, NoStray, Over, Runs, Pushing
<1> QED
  BY <1>8, <1>9, <1>10 DEF AccountInv

\* PickPendingTask moves the task and its node to the worker.
LEMMA PickAccount ==
  ASSUME PlaceInv, TypeOK', AccountInv, NEW n \in Node, PickPendingTask(n), m_pending_tasks # << >>
  PROVE  AccountInv'
<1> USE DEF tasks, counts, events, shutdown, history
<1> DEFINE t == Head(m_pending_tasks)
<1>1. /\ worker'[n] = [pc |-> "run", task |-> t]
      /\ \A m \in Node \ {n} : worker'[m] = worker[m]
      /\ worker[n].pc = "pick" /\ UNCHANGED <<adder, m_completed_tasks, added, ran, dropped, nodes, term>>
  BY DEF PickPendingTask, PlaceInv, TypeOK
<1>2. ~Runs(n) /\ Runs(n)'
  BY <1>1 DEF Runs
<1>3. \A m \in Node \ {n} : (Runs(m)' <=> Runs(m)) /\ worker'[m].task = worker[m].task
  BY <1>1 DEF Runs
<1>4. Runners' = Runners \cup {n} /\ n \notin Runners /\ Pushers' = Pushers
  BY <1>1, <1>2, <1>3, Zenon DEF Pushers, Runners, Pushing
<1>5. Cardinality(Runners') = Cardinality(Runners) + 1
  BY <1>4, FiniteHolders, FS_AddElement, Zenon
<1>6. Running' = Running \cup {t} /\ Pending \subseteq Pending' \cup {t}
  BY PickPendingTaskStep
<1>7. Len(m_pending_tasks') = Len(m_pending_tasks) - 1 /\ Len(m_pending_tasks) \in Nat
  BY DEF PickPendingTask, PlaceInv, TypeOK
<1>8. NodeCount'
  <2>1. m_completed_tasks \in Nat /\ nodes \in Int
    BY DEF PlaceInv, TypeOK
  <2>2. nodes = m_completed_tasks + Len(m_pending_tasks) + Cardinality(Pushers) + Cardinality(Runners)
    BY DEF AccountInv, NodeCount
  <2>3. nodes = m_completed_tasks + (Len(m_pending_tasks) - 1) + Cardinality(Pushers)
                  + (Cardinality(Runners) + 1)
    BY <1>7, <2>1, <2>2, FiniteHolders
  <2> QED
    BY <1>1, <1>4, <1>5, <1>7, <2>3 DEF NodeCount
<1>9. NoneLost'
  <2>1. HeldTasks' = HeldTasks
    BY <1>1, <1>4 DEF HeldTasks
  <2> QED
    BY <1>1, <1>6, <2>1 DEF AccountInv, NoneLost
<1>10. NoStray' /\ Over'
  BY <1>1, <1>2, <1>3, Zenon DEF AccountInv, NoStray, Over, Pushing
<1> QED
  BY <1>8, <1>9, <1>10 DEF AccountInv

\* AddCompleteTask puts the node of the task that has run aside.
LEMMA CompleteAccount ==
  ASSUME PlaceInv, TypeOK', AccountInv, NEW n \in Node, AddCompleteTask(n)
  PROVE  AccountInv'
<1> USE DEF tasks, counts, events, shutdown, history
<1> DEFINE t == worker[n].task
<1>1. /\ worker'[n] = [pc |-> "loop", task |-> None]
      /\ \A m \in Node \ {n} : worker'[m] = worker[m]
      /\ worker[n].pc = "run" /\ m_completed_tasks' = m_completed_tasks + 1
      /\ ran' = ran \cup {t}
      /\ UNCHANGED <<adder, m_pending_tasks, added, dropped, nodes, term>>
  BY DEF AddCompleteTask, PlaceInv, TypeOK
<1>2. Runs(n) /\ ~Runs(n)' /\ worker'[n].task = None
  <2>1. worker'[n].pc = "loop" /\ worker'[n].task = None
    BY <1>1
  <2> QED
    BY <1>1, <2>1, Zenon DEF Runs
<1>3. \A m \in Node \ {n} : (Runs(m)' <=> Runs(m)) /\ worker'[m].task = worker[m].task
  BY <1>1 DEF Runs
<1>4. Runners' = Runners \ {n} /\ n \in Runners /\ Pushers' = Pushers
  BY <1>1, <1>2, <1>3, Zenon DEF Pushers, Runners, Pushing
<1>5. Cardinality(Runners') = Cardinality(Runners) - 1
  BY <1>4, FiniteHolders, FS_RemoveElement, Zenon
<1>6. Running' = Running \ {t}
  BY AddCompleteTaskStep
<1>7. NodeCount'
  <2>1. m_completed_tasks \in Nat /\ nodes \in Int /\ Len(m_pending_tasks) \in Nat
    BY DEF PlaceInv, TypeOK
  <2>2. nodes = m_completed_tasks + Len(m_pending_tasks) + Cardinality(Pushers) + Cardinality(Runners)
    BY DEF AccountInv, NodeCount
  <2>3. nodes = (m_completed_tasks + 1) + Len(m_pending_tasks) + Cardinality(Pushers)
                  + (Cardinality(Runners) - 1)
    BY <2>1, <2>2, FiniteHolders
  <2> QED
    BY <1>1, <1>4, <1>5, <2>3 DEF NodeCount
<1>8. NoneLost'
  <2>1. HeldTasks' = HeldTasks /\ Pending' = Pending
    BY <1>1, <1>4 DEF HeldTasks, Pending
  <2> QED
    BY <1>1, <1>6, <2>1 DEF AccountInv, NoneLost
<1>9. NoStray' /\ Over'
  BY <1>1, <1>2, <1>3, Zenon DEF AccountInv, NoStray, Over, Pushing
<1> QED
  BY <1>7, <1>8, <1>9 DEF AccountInv

\* Release deletes the nodes of both lists; there are no others.
LEMMA ReleaseAccount ==
  ASSUME PlaceInv, CountInv, TypeOK', AccountInv, Release
  PROVE  AccountInv'
<1> USE DEF tasks, counts, events, shutdown, history
<1>1. /\ term = "drain" /\ term' = "done" /\ UNCHANGED <<adder, added, ran>>
      /\ dropped' = dropped \cup Pending /\ m_pending_tasks' = << >> /\ m_completed_tasks' = 0
      /\ nodes' = nodes - m_completed_tasks - Len(m_pending_tasks)
  BY Zenon DEF Release, Pending
<1>2. Alive = {}
  <2>1. Cardinality(Alive) = 0
    BY FiniteSets DEF Release, CountInv
  <2> QED
    BY <2>1, FiniteSets, FS_EmptySet
<1>3. \A n \in Node : worker'[n].pc = "none" /\ worker[n].pc \in {"none", "idle"}
                        /\ worker'[n].task \in {None, worker[n].task}
  BY <1>2, Zenon DEF Release, Alive, Working, PlaceInv, TypeOK
<1>4. \A a \in Adder : adder[a].pc = "idle"
  BY <1>1 DEF AccountInv, Over
<1>5. Pushers = {} /\ Runners = {} /\ Pushers' = {} /\ Runners' = {}
  BY <1>1, <1>3, <1>4 DEF Pushers, Pushing, Runners, Runs
<1>6. Cardinality(Pushers) = 0 /\ Cardinality(Runners) = 0
      /\ Cardinality(Pushers') = 0 /\ Cardinality(Runners') = 0
  BY <1>5, FS_EmptySet
<1>7. nodes' = 0 /\ NodeCount'
  <2>1. m_completed_tasks \in Nat /\ nodes \in Int /\ Len(m_pending_tasks) \in Nat
    BY DEF PlaceInv, TypeOK
  <2>2. nodes = m_completed_tasks + Len(m_pending_tasks) + 0 + 0
    BY <1>6 DEF AccountInv, NodeCount
  <2>3. nodes' = 0
    BY <1>1, <2>1, <2>2
  <2>4. Len(m_pending_tasks') = 0
    BY <1>1
  <2> QED
    BY <1>1, <1>6, <2>3, <2>4 DEF NodeCount
<1>8. NoneLost'
  <2>1. Running = {}
    BY <1>3 DEF Running
  <2>2. HeldTasks = {}
    BY <1>5 DEF HeldTasks
  <2>3. added \subseteq Pending \cup ran \cup dropped
    BY <2>1, <2>2 DEF AccountInv, NoneLost
  <2> QED
    BY <1>1, <2>3 DEF NoneLost
<1>9. NoStray' /\ Over'
  <2>1. \A n \in Node : worker[n].task = None
    BY <1>3 DEF AccountInv, NoStray, Runs
  <2> QED
    BY <1>1, <1>3, <1>4, <1>7, <2>1, Zenon DEF AccountInv, NoStray, Over, Pushing
<1> QED
  BY <1>7, <1>8, <1>9 DEF AccountInv

\* Every step keeps the account.
LEMMA AccountStep == PlaceInv /\ CountInv /\ AccountInv /\ [Next]_vars => AccountInv'
<1> SUFFICES ASSUME PlaceInv, CountInv, AccountInv, [Next]_vars PROVE AccountInv'
  OBVIOUS
<1> USE DEF tasks, counts, events, shutdown, history
<1> TypeOK /\ TypeOK'
  BY TypeStep DEF PlaceInv
<1>i. ASSUME Idle, Over' PROVE AccountInv'
  BY <1>i, IdleStep DEF AccountInv
<1>o. Over
  BY DEF AccountInv
<1>1. ASSUME NEW a \in Adder, NEW t \in Task, AddTask(a, t) PROVE AccountInv'
  BY <1>1, AddTaskAccount
<1>2. ASSUME NEW a \in Adder, NEW is_priority \in BOOLEAN, AddPendingTask(a, is_priority)
      PROVE  AccountInv'
  BY <1>2, AddPendingAccount
<1>3. ASSUME NEW n \in Node, PickPendingTask(n) PROVE AccountInv'
  <2>1. CASE m_pending_tasks # << >>
    BY <1>3, <2>1, PickAccount
  <2>2. CASE m_pending_tasks = << >>
    <3>1. /\ worker[n].pc = "pick" /\ worker' = [worker EXCEPT ![n].pc = "unbusy"]
          /\ UNCHANGED <<m_pending_tasks, m_completed_tasks, added, ran, dropped, nodes, adder, term>>
      BY <1>3, <2>2 DEF PickPendingTask
    <3>2. Idle
      BY <3>1, IdleWorker, Zenon DEF Runs
    <3>3. Over'
      BY <1>o, <3>1 DEF Over
    <3> QED
      BY <1>i, <3>2, <3>3
  <2> QED
    BY <2>1, <2>2
<1>4. ASSUME NEW n \in Node, AddCompleteTask(n) PROVE AccountInv'
  BY <1>4, CompleteAccount
<1>5. CASE Release
  BY <1>5, ReleaseAccount
<1>6. ASSUME NEW a \in Adder,
             \/ NeedNewThreadMax(a)
             \/ NeedNewThreadBusy(a)
             \/ SetNewTask(a)
      PROVE  AccountInv'
  <2>1. /\ adder[a].pc \notin {"idle", "push"}
        /\ \E pc : pc # "push" /\ adder' = [adder EXCEPT ![a].pc = pc]
        /\ UNCHANGED <<m_pending_tasks, m_completed_tasks, added, ran, dropped, nodes, worker, term>>
    BY <1>6 DEF NeedNewThreadMax, NeedNewThreadBusy, SetNewTask, AdderGoes
  <2>2. Idle
    BY <2>1, IdleAdder, Zenon DEF Pushing
  <2>3. Over'
    BY <1>o, <2>1 DEF Over
  <2> QED
    BY <1>i, <2>2, <2>3
<1>7. ASSUME NEW a \in Adder, NEW n \in Node, AddThreadNodeToList(a, n)
      PROVE  AccountInv'
  <2>1. /\ adder[a].pc = "spawn" /\ adder'[a].pc = "set" /\ adder'[a].task = adder[a].task
        /\ \A b \in Adder \ {a} : adder'[b] = adder[b]
        /\ worker[n].pc # "run" /\ worker'[n].pc = "start" /\ worker'[n].task = worker[n].task
        /\ \A m \in Node \ {n} : worker'[m] = worker[m]
        /\ UNCHANGED <<m_pending_tasks, m_completed_tasks, added, ran, dropped, nodes, term>>
    BY <1>7 DEF AddThreadNodeToList, AdderGoes, TypeOK
  <2>2. Idle
    BY <2>1 DEF Idle, Pushing, Runs
  <2>3. Over'
    BY <1>o, <2>1, Zenon DEF Over
  <2> QED
    BY <1>i, <2>2, <2>3
<1>8. ASSUME NEW n \in Node,
             \/ Busy(n)
             \/ LoopTest(n)
             \/ Unbusy(n)
             \/ WaitNewTask(n)
             \/ TestPending(n)
             \/ TestThreadNum(n)
             \/ ThreadExit(n)
      PROVE  AccountInv'
  <2>1. /\ worker[n].pc \notin {"none", "run"}
        /\ \E pc : pc # "run" /\ worker' = [worker EXCEPT ![n].pc = pc]
        /\ UNCHANGED <<m_pending_tasks, m_completed_tasks, added, ran, dropped, nodes, adder, term>>
    BY <1>8, Zenon DEF Busy, LoopTest, Unbusy, WaitNewTask, TestPending, TestThreadNum, ThreadExit, WorkerGoes
  <2>2. Idle
    BY <2>1, IdleWorker, Zenon DEF Runs
  <2>3. Over'
    BY <1>o, <2>1 DEF Over
  <2> QED
    BY <1>i, <2>2, <2>3
<1>9. CASE \/ \E wait \in BOOLEAN : Terminate(wait)
           \/ WaitPending
           \/ SetExited
           \/ DrainSet
           \/ DrainWait
           \/ UNCHANGED vars
  <2>1. /\ UNCHANGED <<adder, worker, m_pending_tasks, m_completed_tasks, added, ran, dropped, nodes>>
        /\ term' = "done" => term = "done"
        /\ term' # "no" => term # "no" \/ \A a \in Adder : adder[a].pc = "idle"
    BY <1>9, Zenon DEF Terminate, WaitPending, SetExited, DrainSet, DrainWait, vars
  <2>2. Idle
    BY <2>1, Zenon DEF Idle, Pushing, Runs
  <2>3. Over'
    BY <1>o, <2>1 DEF Over
  <2> QED
    BY <1>i, <2>2, <2>3
<1> QED
  BY <1>1, <1>2, <1>3, <1>4, <1>5, <1>6, <1>7, <1>8, <1>9
     DEF Next, AdderStep, WorkerStep, TerminateStep, Finished

\* A set with at most one element has the cardinality its emptiness says.
LEMMA AtMostOne ==
  ASSUME NEW S, \A x, y \in S : x = y
  PROVE  Cardinality(S) = One(S # {})
<1>1. CASE S = {}
  BY <1>1, FS_EmptySet DEF One
<1>2. CASE S # {}
  <2>1. PICK x : x \in S
    BY <1>2
  <2>2. S = {x}
    BY <2>1
  <2> QED
    BY <1>2, <2>2, FS_Singleton DEF One
<1> QED
  BY <1>1, <1>2

\* A task in at most one place, of those that were added in some place, is the
\* count that TaskInOnePlace makes.
LEMMA PlaceIsCount == PlaceInv /\ AccountInv => TaskInOnePlace
<1> SUFFICES ASSUME PlaceInv, AccountInv, NEW t \in Task
             PROVE  Cardinality({a \in Adder : adder[a].task = t})
                      + Cardinality({i \in DOMAIN m_pending_tasks : m_pending_tasks[i] = t})
                      + Cardinality({n \in Node : worker[n].task = t})
                      + One(t \in ran) + One(t \in dropped) = One(t \in added)
  BY Zenon DEF TaskInOnePlace
<1> DEFINE A == {a \in Adder : adder[a].task = t}
           I == {i \in DOMAIN m_pending_tasks : m_pending_tasks[i] = t}
           N == {n \in Node : worker[n].task = t}
<1>1. t # None
  BY NoneAssumption
<1>2. \A a \in A : Pushing(a)
  BY <1>1 DEF AccountInv, NoStray
<1>3. \A n \in N : Runs(n)
  BY <1>1 DEF AccountInv, NoStray
<1>4. Cardinality(A) = One(A # {})
  BY <1>2, AtMostOne DEF PlaceInv, HeldInv
<1>5. Cardinality(I) = One(I # {})
  BY AtMostOne DEF PlaceInv, PendingInv
<1>6. Cardinality(N) = One(N # {})
  BY <1>3, AtMostOne DEF PlaceInv, RunInv
<1>7. A # {} <=> t \in HeldTasks
  BY <1>2 DEF HeldTasks, Pushers, PlaceInv
<1>8. I # {} <=> t \in Pending
  BY DEF Pending
<1>9. N # {} <=> t \in Running
  BY <1>3 DEF Running, Runs
<1> HIDE DEF A, I, N
<1>10. /\ t \in HeldTasks => t \in added \ (Pending \cup Running \cup ran \cup dropped)
       /\ t \in Pending => t \in added \ (Running \cup ran \cup dropped)
       /\ t \in Running => t \in added \ (ran \cup dropped)
       /\ t \in ran \cup dropped => t \in added
       /\ ~(t \in ran /\ t \in dropped)
  <2>1. t \in HeldTasks => t \in added \ (Pending \cup Running \cup ran \cup dropped)
    BY DEF PlaceInv, HeldInv, HeldTasks, Pushers
  <2>2. t \in Pending => t \in added \ (Running \cup ran \cup dropped)
    BY DEF PlaceInv, PendingInv
  <2>3. t \in Running => t \in added \ (ran \cup dropped)
    BY DEF PlaceInv, RunInv
  <2>4. /\ t \in ran \cup dropped => t \in added
        /\ ~(t \in ran /\ t \in dropped)
    BY DEF PlaceInv, RunInv
  <2> QED
    BY <2>1, <2>2, <2>3, <2>4
<1>11. t \in added => t \in HeldTasks \cup Pending \cup Running \cup ran \cup dropped
  BY DEF AccountInv, NoneLost
<1>12. One(t \in HeldTasks) + One(t \in Pending) + One(t \in Running) + One(t \in ran)
         + One(t \in dropped) = One(t \in added)
  BY <1>10, <1>11 DEF One
<1>13. /\ Cardinality(A) = One(t \in HeldTasks)
       /\ Cardinality(I) = One(t \in Pending)
       /\ Cardinality(N) = One(t \in Running)
  BY <1>4, <1>5, <1>6, <1>7, <1>8, <1>9 DEF One
<1> QED
  BY <1>12, <1>13 DEF A, I, N

\* No task is lost, run twice, or run and dropped, and no node is leaked: for
\* every set of adders, nodes and tasks, and with every timing of Terminate.
THEOREM TasksAccountedCorrect == Spec => []TasksAccounted
<1>1. PlaceInv /\ AccountInv => TasksAccounted
  <2>1. AccountInv => TaskNodesAccounted
    BY DEF AccountInv, NodeCount, Over, TaskNodesAccounted, Pushers, Pushing, Runners, Runs
  <2> QED
    BY <2>1, PlaceIsCount DEF TasksAccounted
<1> QED
  BY <1>1, AccountInit, AccountStep, PlaceCorrect, CountCorrect, PTL DEF Spec

=============================================================================
