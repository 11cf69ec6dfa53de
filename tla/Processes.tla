----------------------------- MODULE Processes ------------------------------
(***************************************************************************)
(* Child processes, and constants of the process.                          *)
(***************************************************************************)
EXTENDS Integers, FiniteSets

(***************************************************************************)
(* SubProcess (system/process/sub_process.cpp): objects that each start a  *)
(* child process and wait for it, used by several threads of one process,  *)
(* one object a thread.  A child tells its parent that it could not exec   *)
(* through a pipe that an exec closes; the n-th Create of all makes pipe n *)
(* and process n.  Pipes are the only open files.                          *)
(***************************************************************************)
CONSTANTS
  Parents,      \* the objects
  MaxCreates    \* bound on the calls of Create

ASSUME CreatesAssumption == MaxCreates \in Nat

VARIABLES
  m_pid,        \* of each object: 0, or a process, negative when it was waited for
  m_exit_code,
  parent_pc,    \* where the thread of an object is
  number,       \* the number of its last Create
  m_close_fds,  \* the option of that Create
  listed,       \* the open files that Create has listed
  created,      \* the number of Creates
  open,         \* the write ends open in the parent
  cloexec,      \* and those of them that an exec closes
  process,      \* the state of each process
  status,       \* how it ended
  holds,        \* the write ends open in each process
  keeps,        \* and those of them that stay open in an exec
  errors,       \* the pipes that hold an error of exec
  signals,      \* the signals sent to each process
  returned,     \* "created" when the last call on an object was a Create that returned true
  lost          \* processes nobody will wait for, and those that an object without one waited for

process_vars == <<m_pid, m_exit_code, parent_pc, number, m_close_fds, listed, created, open, cloexec,
                  process, status, holds, keeps, errors, signals, returned, lost>>

Numbers == 1..MaxCreates
SIGTERM == 15
SIGKILL == 9

ProcessInit ==
  /\ m_pid = [o \in Parents |-> 0] /\ m_exit_code = [o \in Parents |-> 0]
  /\ parent_pc = [o \in Parents |-> "idle"] /\ number = [o \in Parents |-> 0]
  /\ m_close_fds = [o \in Parents |-> FALSE] /\ listed = [o \in Parents |-> {}]
  /\ created = 0 /\ open = {} /\ cloexec = {}
  /\ process = [n \in Numbers |-> "none"] /\ status = [n \in Numbers |-> 0]
  /\ holds = [n \in Numbers |-> {}] /\ keeps = [n \in Numbers |-> {}]
  /\ errors = {} /\ signals = [n \in Numbers |-> {}]
  /\ returned = [o \in Parents |-> "none"] /\ lost = {}

Goto(o, where)   == parent_pc' = [parent_pc EXCEPT ![o] = where]
Return(o, value) == Goto(o, "idle") /\ returned' = [returned EXCEPT ![o] = value]
Begin(o, where)  == parent_pc[o] = "idle" /\ Goto(o, where) /\ returned' = [returned EXCEPT ![o] = "none"]

child_vars == <<process, status, holds, keeps, errors, signals>>
pipe_vars  == <<number, m_close_fds, listed, created, open, cloexec>>

-----------------------------------------------------------------------------
(* Create. *)

Pipe(o) ==
  /\ m_pid[o] <= 0 /\ created < MaxCreates
  /\ Begin(o, "cloexec")
  /\ created' = created + 1
  /\ number' = [number EXCEPT ![o] = created + 1]
  /\ open' = open \cup {created + 1}
  /\ \E close \in BOOLEAN: m_close_fds' = [m_close_fds EXCEPT ![o] = close]
  /\ UNCHANGED <<m_pid, m_exit_code, listed, cloexec, child_vars, lost>>

SetCloexec(o) ==
  /\ parent_pc[o] = "cloexec"
  /\ cloexec' = cloexec \cup {number[o]}
  /\ Goto(o, "list")
  /\ UNCHANGED <<m_pid, m_exit_code, number, m_close_fds, listed, created, open, child_vars, returned, lost>>

GetOpenFds(o) ==
  /\ parent_pc[o] = "list"
  /\ listed' = [listed EXCEPT ![o] = open]
  /\ Goto(o, "fork")
  /\ UNCHANGED <<m_pid, m_exit_code, number, m_close_fds, created, open, cloexec, child_vars, returned, lost>>

\* The child closes the files that were listed, but for its own pipe.
Inherited(o) == open \ (IF m_close_fds[o] THEN listed[o] \ {number[o]} ELSE {})

Fork(o) ==
  /\ parent_pc[o] = "fork"
  /\ process' = [process EXCEPT ![number[o]] = "forked"]
  /\ holds' = [holds EXCEPT ![number[o]] = Inherited(o)]
  /\ keeps' = [keeps EXCEPT ![number[o]] = Inherited(o) \ cloexec]
  /\ open' = open \ {number[o]} /\ cloexec' = cloexec \ {number[o]}
  /\ listed' = [listed EXCEPT ![o] = {}] /\ m_close_fds' = [m_close_fds EXCEPT ![o] = FALSE]
  /\ Goto(o, "read")
  /\ UNCHANGED <<m_pid, m_exit_code, number, created, status, errors, signals, returned, lost>>

Closed(n) == n \notin open /\ \A p \in Numbers: n \notin holds[p]

\* The error of an exec, or the end of the file, which means that there was none.
ReadError(o) ==
  /\ parent_pc[o] = "read" /\ number[o] \in errors
  /\ Goto(o, "reap")
  /\ UNCHANGED <<m_pid, m_exit_code, pipe_vars, child_vars, returned, lost>>

ReadEnd(o) ==
  /\ parent_pc[o] = "read" /\ number[o] \notin errors /\ Closed(number[o])
  /\ m_pid' = [m_pid EXCEPT ![o] = number[o]]
  /\ m_exit_code' = [m_exit_code EXCEPT ![o] = 0]
  /\ Return(o, "created")
  /\ UNCHANGED <<pipe_vars, child_vars, lost>>

\* The read is not repeated when a signal interrupts it.
ReadInterrupted(o) ==
  /\ parent_pc[o] = "read" /\ number[o] \notin errors /\ ~Closed(number[o])
  /\ lost' = lost \cup {number[o]}
  /\ Return(o, "none")
  /\ UNCHANGED <<m_pid, m_exit_code, pipe_vars, child_vars>>

Reap(o) ==
  /\ parent_pc[o] = "reap" /\ process[number[o]] \in {"zombie", "reaped"}
  /\ process' = [process EXCEPT ![number[o]] = "reaped"]
  /\ Return(o, "none")
  /\ UNCHANGED <<m_pid, m_exit_code, pipe_vars, status, holds, keeps, errors, signals, lost>>

-----------------------------------------------------------------------------
(* The child. *)

Exec(n) ==
  /\ process[n] = "forked"
  /\ process' = [process EXCEPT ![n] = "running"]
  /\ holds' = [holds EXCEPT ![n] = keeps[n]]
  /\ UNCHANGED <<m_pid, m_exit_code, parent_pc, pipe_vars, status, keeps, errors, signals, returned, lost>>

ExecFails(n) ==
  /\ process[n] = "forked"
  /\ process' = [process EXCEPT ![n] = "failed"]
  /\ errors' = errors \cup {n}
  /\ UNCHANGED <<m_pid, m_exit_code, parent_pc, pipe_vars, status, holds, keeps, signals, returned, lost>>

Ends(n, how) ==
  /\ process' = [process EXCEPT ![n] = "zombie"]
  /\ status' = [status EXCEPT ![n] = how]
  /\ holds' = [holds EXCEPT ![n] = {}] /\ keeps' = [keeps EXCEPT ![n] = {}]
  /\ signals' = [signals EXCEPT ![n] = {}]
  /\ UNCHANGED <<m_pid, m_exit_code, parent_pc, pipe_vars, errors, returned, lost>>

ExitFailed(n)  == process[n] = "failed" /\ Ends(n, 127)
\* Each child has an exit code of its own.
Exit(n)        == process[n] = "running" /\ Ends(n, n)
Terminated(n)  == process[n] = "running" /\ SIGTERM \in signals[n] /\ Ends(n, -SIGTERM)
Killed(n)      == process[n] = "running" /\ SIGKILL \in signals[n] /\ Ends(n, -SIGKILL)

-----------------------------------------------------------------------------
(* Waiting and signals. *)

\* The children that waitpid of an object's m_pid waits for: of 0, any child.
Awaited(o)  == {n \in Numbers: /\ process[n] \notin {"none", "reaped"}
                               /\ m_pid[o] \in {0, n}}
Zombies(o)  == {n \in Awaited(o): process[n] = "zombie"}

\* The object still has its child.
UpdateExitStatusKeepsPid(o, n) ==
  /\ m_exit_code' = [m_exit_code EXCEPT ![o] = status[n]]
  /\ process' = [process EXCEPT ![n] = "reaped"]
  /\ UNCHANGED <<m_pid, pipe_vars, status, holds, keeps, errors, signals, lost>>

\* UpdateExitStatus negates m_pid, whoever the child was.
UpdateExitStatus(o, n) ==
  /\ m_pid' = [m_pid EXCEPT ![o] = -m_pid[o]]
  /\ m_exit_code' = [m_exit_code EXCEPT ![o] = status[n]]
  /\ process' = [process EXCEPT ![n] = "reaped"]
  /\ lost' = IF m_pid[o] = 0 THEN lost \cup {n} ELSE lost
  /\ UNCHANGED <<pipe_vars, status, holds, keeps, errors, signals>>

Unchanged == UNCHANGED <<m_pid, m_exit_code, pipe_vars, child_vars, lost>>

ProcessWaitForExit(o) ==
  /\ parent_pc[o] = "idle"
  /\ IF m_pid[o] < 0 THEN Return(o, "none") ELSE Begin(o, "wait")
  /\ Unchanged

Waited(o) ==
  /\ parent_pc[o] \in {"wait", "timed", "term"}
  /\ \E n \in Zombies(o): UpdateExitStatus(o, n)
  /\ Return(o, "none")

WaitFails(o) ==
  /\ parent_pc[o] \in {"wait", "timed", "term"} /\ Awaited(o) = {}
  /\ IF parent_pc[o] = "term" THEN Goto(o, "kill") /\ UNCHANGED returned ELSE Return(o, "none")
  /\ Unchanged

TimedWaitForExit(o) == /\ parent_pc[o] = "idle"
                       /\ IF m_pid[o] < 0 THEN Return(o, "none") ELSE Begin(o, "timed")
                       /\ Unchanged

WaitTimesOut(o) ==
  /\ parent_pc[o] \in {"timed", "term"} /\ Awaited(o) # {} /\ Zombies(o) = {}
  /\ IF parent_pc[o] = "term" THEN Goto(o, "kill") /\ UNCHANGED returned ELSE Return(o, "none")
  /\ Unchanged

\* A zombie takes a signal; a process that was waited for does not.
Kill(o, signal) ==
  /\ process[m_pid[o]] # "reaped"
  /\ signals' = IF process[m_pid[o]] = "running" THEN [signals EXCEPT ![m_pid[o]] = @ \cup {signal}] ELSE signals
  /\ UNCHANGED <<m_pid, m_exit_code, pipe_vars, process, status, holds, keeps, errors, lost>>

\* SIGTERM, a minute for the child to end, and SIGKILL.
Terminate(o) ==
  /\ m_pid[o] > 0 /\ parent_pc[o] = "idle"
  /\ \/ Begin(o, "term") /\ Kill(o, SIGTERM)
     \/ process[m_pid[o]] = "reaped" /\ Return(o, "none") /\ Unchanged

\* The second signal is the first one again.
KillPolitely(o) ==
  /\ parent_pc[o] = "kill"
  /\ \/ Goto(o, "wait") /\ Kill(o, SIGTERM) /\ UNCHANGED returned
     \/ process[m_pid[o]] = "reaped" /\ Return(o, "none") /\ Unchanged

KillRudely(o) ==
  /\ parent_pc[o] = "kill"
  /\ \/ Goto(o, "wait") /\ Kill(o, SIGKILL) /\ UNCHANGED returned
     \/ process[m_pid[o]] = "reaped" /\ Return(o, "none") /\ Unchanged

\* kill(m_pid, 0): a zombie is there.
IsAlive(o) == m_pid[o] > 0 /\ process[m_pid[o]] # "reaped"
IsValid(o) == m_pid[o] > 0

\* The destructor, once its wait is over, and a new object in its place.
ProcessDestroy(o) ==
  /\ parent_pc[o] = "idle" /\ m_pid[o] # 0
  /\ IsValid(o) => process[m_pid[o]] \in {"zombie", "reaped"}
  /\ process' = IF IsValid(o) THEN [process EXCEPT ![m_pid[o]] = "reaped"] ELSE process
  /\ m_pid' = [m_pid EXCEPT ![o] = 0]
  /\ m_exit_code' = [m_exit_code EXCEPT ![o] = 0]
  /\ returned' = [returned EXCEPT ![o] = "none"]
  /\ UNCHANGED <<parent_pc, pipe_vars, status, holds, keeps, errors, signals, lost>>

-----------------------------------------------------------------------------
ProcessStep(o) ==
  \/ SetCloexec(o) \/ GetOpenFds(o) \/ Fork(o) \/ ReadError(o) \/ ReadEnd(o) \/ Reap(o)
  \/ Waited(o) \/ WaitFails(o) \/ WaitTimesOut(o) \/ KillRudely(o)
Calls(o) == Pipe(o) \/ ProcessWaitForExit(o) \/ TimedWaitForExit(o) \/ Terminate(o) \/ ProcessDestroy(o)
Kernel(n) == Exec(n) \/ ExecFails(n) \/ ExitFailed(n) \/ Killed(n)

ProcessNext ==
  \/ \E o \in Parents: ProcessStep(o) \/ Calls(o) \/ ReadInterrupted(o)
  \/ \E n \in Numbers: Kernel(n) \/ Exit(n) \/ Terminated(n)

\* Threads and children run, and SIGKILL kills; a child need not end by itself.
ProcessSpec ==
  /\ ProcessInit /\ [][ProcessNext]_process_vars
  /\ \A o \in Parents: WF_process_vars(ProcessStep(o))
  /\ \A n \in Numbers: WF_process_vars(Kernel(n))
-----------------------------------------------------------------------------
\* Create reports a child exactly when its exec succeeded; an object has the exit
\* code of its own child once that was waited for; every child that was not waited
\* for belongs to one object or to a Create that is under way.  Left out are the
\* children of a Create that a signal interrupted, and those that an object without
\* a child has waited for.
ProcessesAccounted ==
  /\ \A o \in Parents:
       /\ returned[o] = "created" => process[number[o]] \in {"running", "zombie", "reaped"} /\ number[o] \notin errors
       /\ m_pid[o] > 0 => process[m_pid[o]] \in {"running", "zombie"} \/ m_pid[o] \in lost
       /\ m_pid[o] < 0 => process[-m_pid[o]] = "reaped" /\ m_exit_code[o] = status[-m_pid[o]]
  /\ \A n \in Numbers: process[n] \notin {"none", "reaped"} /\ n \notin lost =>
       Cardinality({o \in Parents: m_pid[o] = n \/ (parent_pc[o] \in {"read", "reap"} /\ number[o] = n)}) = 1

\* The pipe of an object's Create is kept open by a process of another one, which
\* was forked between the pipe and its FD_CLOEXEC.
HeldByAnother(o) == \E n \in Numbers \ {number[o]}: number[o] \in keeps[n]

\* Terminate has not returned; its last wait is one for a child that was sent a signal.
Terminating(o) ==
  parent_pc[o] \in {"term", "kill"} \/ (parent_pc[o] = "wait" /\ IsValid(o) /\ signals[m_pid[o]] # {})

\* Create returns, whatever its child does after the exec, unless a process that
\* another thread started holds its pipe.  Terminate returns, even if the child
\* does not care about SIGTERM, and leaves no child behind.
ProcessCallsReturn ==
  \A o \in Parents: []<>(parent_pc[o] = "read" => HeldByAnother(o)) /\ []<>~Terminating(o)

-----------------------------------------------------------------------------
(***************************************************************************)
(* ProcessLocalConst (system/process/process_local_const.h): a value that  *)
(* is constant in a process, cached, and looked up again in a process that *)
(* was forked.  Callers ask for it at any time; one of them may fork, with *)
(* the others in the middle of Value, and only it lives on in the child.   *)
(* The model follows the child.  The value of a process is its pid.        *)
(***************************************************************************)
CONSTANTS Callers, MaxForks

ASSUME ForksAssumption == MaxForks \in Nat

VARIABLES
  getpid,       \* the process
  const_pid, m_value,
  at,           \* where each thread is in Value
  pid,          \* its local
  local_value         \* what its last Value has returned

local_vars == <<getpid, const_pid, m_value, at, pid, local_value>>

m_get == getpid

LocalInit == /\ getpid = 1 /\ const_pid = 1 /\ m_value = 1
             /\ at = [t \in Callers |-> "out"] /\ pid = [t \in Callers |-> 0] /\ local_value = [t \in Callers |-> 0]

Value(t) ==
  /\ at[t] = "out"
  /\ pid' = [pid EXCEPT ![t] = getpid]
  /\ at' = [at EXCEPT ![t] = IF getpid # const_pid THEN "get" ELSE "return"]
  /\ local_value' = [local_value EXCEPT ![t] = 0]
  /\ UNCHANGED <<getpid, const_pid, m_value>>

\* The process is recorded first.
RecordPid(t) ==
  \/ /\ at[t] = "get" /\ const_pid' = pid[t] /\ UNCHANGED m_value
     /\ at' = [at EXCEPT ![t] = "barrier"]
     /\ UNCHANGED <<getpid, pid, local_value>>
  \/ /\ at[t] = "barrier" /\ m_value' = m_get /\ UNCHANGED const_pid
     /\ at' = [at EXCEPT ![t] = "return"]
     /\ UNCHANGED <<getpid, pid, local_value>>

\* The value, a barrier, and the process it is of.
Get(t) ==
  \/ /\ at[t] = "get" /\ m_value' = m_get /\ UNCHANGED const_pid
     /\ at' = [at EXCEPT ![t] = "barrier"]
     /\ UNCHANGED <<getpid, pid, local_value>>
  \/ /\ at[t] = "barrier" /\ const_pid' = pid[t] /\ UNCHANGED m_value
     /\ at' = [at EXCEPT ![t] = "return"]
     /\ UNCHANGED <<getpid, pid, local_value>>

LocalReturn(t) ==
  /\ at[t] = "return"
  /\ local_value' = [local_value EXCEPT ![t] = m_value]
  /\ at' = [at EXCEPT ![t] = "out"] /\ pid' = [pid EXCEPT ![t] = 0]
  /\ UNCHANGED <<getpid, const_pid, m_value>>

\* The other threads of the child are new ones.
LocalFork(t) ==
  /\ at[t] = "out" /\ getpid <= MaxForks
  /\ getpid' = getpid + 1
  /\ at' = [u \in Callers |-> "out"] /\ pid' = [u \in Callers |-> 0] /\ local_value' = [u \in Callers |-> 0]
  /\ UNCHANGED <<const_pid, m_value>>

LocalNext == \E t \in Callers: Value(t) \/ Get(t) \/ LocalReturn(t) \/ LocalFork(t)
LocalSpec == LocalInit /\ [][LocalNext]_local_vars
-----------------------------------------------------------------------------
\* Value never returns what is constant in another process than the caller's, for
\* every thread and after every fork, in whatever state fork found the cache.
ValueIsOwn == \A t \in Callers: local_value[t] \in {0, getpid}
=============================================================================
