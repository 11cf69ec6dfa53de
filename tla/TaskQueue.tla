------------------------------ MODULE TaskQueue ------------------------------
(***************************************************************************)
(* What toft::ThreadPool promises of its tasks, without threads, counters  *)
(* and events: tasks wait in a queue, begin in its order, run once, and    *)
(* are dropped only by closing, which waits for those that are running.    *)
(***************************************************************************)
EXTENDS Sequences

CONSTANT Task

VARIABLES
  queue,      \* tasks that wait, in the order in which they will begin
  running,    \* tasks that have begun
  done,       \* tasks that have run
  dropped,    \* tasks deleted without being run
  closed      \* no task is taken any more

vars == <<queue, running, done, dropped, closed>>

Queued == {queue[i] : i \in DOMAIN queue}

Init == queue = << >> /\ running = {} /\ done = {} /\ dropped = {} /\ closed = FALSE

\* AddTask puts a new task behind the others, AddPriorityTask in front of them.
Submit(t, is_priority) ==
  /\ ~closed
  /\ t \notin Queued \cup running \cup done \cup dropped
  /\ queue' = IF is_priority THEN <<t>> \o queue ELSE Append(queue, t)
  /\ UNCHANGED <<running, done, dropped, closed>>

Begin ==
  /\ queue # << >>
  /\ running' = running \cup {Head(queue)}
  /\ queue' = Tail(queue)
  /\ UNCHANGED <<done, dropped, closed>>

Finish(t) ==
  /\ t \in running
  /\ running' = running \ {t}
  /\ done' = done \cup {t}
  /\ UNCHANGED <<queue, dropped, closed>>

Close ==
  /\ ~closed
  /\ running = {}
  /\ closed' = TRUE
  /\ dropped' = dropped \cup Queued
  /\ queue' = << >>
  /\ UNCHANGED <<running, done>>

Next ==
  \/ \E t \in Task, is_priority \in BOOLEAN : Submit(t, is_priority)
  \/ Begin
  \/ \E t \in Task : Finish(t)
  \/ Close

Spec == Init /\ [][Next]_vars
=============================================================================
