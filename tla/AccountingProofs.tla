-------------------------- MODULE AccountingProofs --------------------------
(***************************************************************************)
(* What threads create and share is accounted for, under any number of     *)
(* threads.  ProcessLocalConst gives no thread the value of another        *)
(* process; SubProcess knows every child and how it ended; ObjectPool      *)
(* loses no object and gives none to two threads.                          *)
(***************************************************************************)
EXTENDS Processes, ObjectPool, FiniteSetTheorems, SequenceTheorems, TLAPS

-----------------------------------------------------------------------------
(***************************************************************************)
(* ProcessLocalConst.                                                      *)
(***************************************************************************)

\* Value reads the cache when const_pid is the process: what const_pid says of
\* m_value has to be true before a thread looks, and a process that was forked is
\* newer than any that const_pid can name.
CacheIsOfItsProcess ==
  /\ getpid \in Nat \ {0} /\ const_pid \in 0 .. getpid
  /\ const_pid = getpid => m_value = getpid

\* A thread in Value knows its process; once it is past Get the value is its own.
CallersKnow ==
  /\ at \in [Callers -> {"out", "get", "barrier", "return"}]
  /\ pid \in [Callers -> Nat] /\ local_value \in [Callers -> Nat]
  /\ \A t \in Callers :
       /\ at[t] # "out" => pid[t] = getpid
       /\ at[t] \in {"barrier", "return"} => m_value = getpid

LocalInv == CacheIsOfItsProcess /\ CallersKnow /\ m_value \in Nat /\ ValueIsOwn

\* Before the first fork the cache is that of the only process.
LEMMA LocalInitInv == LocalInit => LocalInv
  BY DEF LocalInit, LocalInv, CacheIsOfItsProcess, CallersKnow, ValueIsOwn

\* Every step of every thread keeps the cache right, a fork included.
LEMMA LocalStep ==
  ASSUME MaxForks \in Nat, LocalInv, [LocalNext]_local_vars
  PROVE  LocalInv'
<1> USE DEF LocalInv, CacheIsOfItsProcess, CallersKnow, ValueIsOwn
<1>1. ASSUME NEW t \in Callers, Value(t) PROVE LocalInv'
  BY <1>1 DEF Value
<1>2. ASSUME NEW t \in Callers, Get(t) PROVE LocalInv'
  BY <1>2 DEF Get, m_get
<1>3. ASSUME NEW t \in Callers, LocalReturn(t) PROVE LocalInv'
  BY <1>3 DEF LocalReturn
<1>4. ASSUME NEW t \in Callers, LocalFork(t) PROVE LocalInv'
  BY <1>4 DEF LocalFork
<1>5. CASE UNCHANGED local_vars
  BY <1>5 DEF local_vars
<1> QED
  BY <1>1, <1>2, <1>3, <1>4, <1>5 DEF LocalNext

\* Value returns what is constant in the process of its caller, for any number
\* of threads and forks and in whatever state fork found the cache.
THEOREM ValueIsOwnCorrect == LocalSpec => []ValueIsOwn
<1>1. LocalInv => ValueIsOwn
  BY DEF LocalInv
<1>2. LocalInv /\ [LocalNext]_local_vars => LocalInv'
  BY ForksAssumption, LocalStep
<1> QED
  BY <1>1, <1>2, LocalInitInv, PTL DEF LocalSpec

-----------------------------------------------------------------------------
(***************************************************************************)
(* SubProcess.                                                             *)
(***************************************************************************)
Preparing == {"cloexec", "list", "fork"}    \* before the fork of a Create
Reading   == {"read", "reap"}               \* behind it

ProcessTypes ==
  /\ m_pid \in [Parents -> Int] /\ m_exit_code \in [Parents -> Int]
  /\ parent_pc \in [Parents -> Preparing \cup Reading \cup {"idle", "wait", "timed", "term", "kill"}]
  /\ number \in [Parents -> 0 .. created] /\ created \in 0 .. MaxCreates
  /\ open \subseteq Numbers
  /\ process \in [Numbers -> {"none", "forked", "failed", "running", "zombie", "reaped"}]
  /\ status \in [Numbers -> Int]
  /\ holds \in [Numbers -> SUBSET Numbers] /\ keeps \in [Numbers -> SUBSET Numbers]
  /\ errors \subseteq Numbers /\ lost \subseteq Numbers
  /\ returned \in [Parents -> {"none", "created"}]

\* Each Create has a number of its own, and no process before its fork.
NumbersAreOwn ==
  /\ \A o, q \in Parents : number[o] = number[q] /\ number[o] # 0 => o = q
  /\ \A o \in Parents : parent_pc[o] \in Preparing \cup Reading => number[o] # 0
  /\ \A n \in Numbers : n > created => process[n] = "none"

\* The write end stays open until the fork, and in the child until its exec: so
\* the end of the file tells the parent that the exec has succeeded.
PipesTell ==
  /\ \A o \in Parents : parent_pc[o] \in Preparing => process[number[o]] = "none" /\ number[o] \in open
  /\ \A o \in Parents : parent_pc[o] \in Reading => process[number[o]] # "none"
  /\ \A n \in Numbers : process[n] \in {"forked", "failed"} => n \in holds[n]

\* Create has returned true.
CreatedRuns ==
  \A o \in Parents : returned[o] = "created" =>
    parent_pc[o] = "idle" /\ number[o] # 0 /\ process[number[o]] \in {"running", "zombie", "reaped"}
      /\ number[o] \notin errors

\* A valid object has the process of its last Create, and does not create
\* another; nobody takes it away but an object that waits without a process.
PidsAreOwn ==
  /\ \A o \in Parents : m_pid[o] > 0 =>
       /\ m_pid[o] = number[o] /\ parent_pc[o] \notin Preparing \cup Reading
       /\ process[m_pid[o]] \in {"running", "zombie"} \/ m_pid[o] \in lost
  /\ \A o \in Parents : m_pid[o] < 0 =>
       -m_pid[o] \in Numbers /\ process[-m_pid[o]] = "reaped" /\ m_exit_code[o] = status[-m_pid[o]]
  /\ \A o \in Parents : parent_pc[o] \in Reading /\ process[number[o]] = "reaped" => number[o] \in lost

Has(o, n) == m_pid[o] = n \/ (parent_pc[o] \in Reading /\ number[o] = n)

\* A process that was not waited for has an object that will.
NoneForgotten ==
  \A n \in Numbers : process[n] \notin {"none", "reaped"} /\ n \notin lost => \E o \in Parents : Has(o, n)

ProcessInv ==
  ProcessTypes /\ NumbersAreOwn /\ PipesTell /\ CreatedRuns /\ PidsAreOwn /\ NoneForgotten

\* No object has a process at the start.
LEMMA ProcessStarts == ASSUME MaxCreates \in Nat, ProcessInit PROVE ProcessInv
<1>1. ProcessTypes
  BY DEF ProcessInit, ProcessTypes, Numbers, Preparing, Reading
<1> QED
  BY <1>1 DEF ProcessInit, ProcessInv, NumbersAreOwn, PipesTell, CreatedRuns, PidsAreOwn, NoneForgotten,
              Preparing, Reading

\* Whatever names a process is the number of one.
LEMMA NumbersInRange ==
  ASSUME MaxCreates \in Nat, ProcessInv
  PROVE  \A o \in Parents :
           /\ number[o] # 0 => number[o] \in Numbers
           /\ parent_pc[o] \in Preparing \cup Reading => number[o] \in Numbers
           /\ m_pid[o] > 0 => m_pid[o] \in Numbers
  BY DEF ProcessInv, ProcessTypes, NumbersAreOwn, PidsAreOwn, Numbers

\* The thread of an object goes on without a process being made or waited for.
Moves(o) ==
  /\ parent_pc' \in [Parents -> Preparing \cup Reading \cup {"idle", "wait", "timed", "term", "kill"}]
  /\ returned' \in [Parents -> {"none", "created"}]
  /\ parent_pc'[o] \in Preparing <=> parent_pc[o] \in Preparing
  /\ parent_pc'[o] \in Reading <=> parent_pc[o] \in Reading
  /\ returned'[o] = "none"
  /\ \A q \in Parents \ {o} : parent_pc'[q] = parent_pc[q] /\ returned'[q] = returned[q]
  /\ UNCHANGED <<m_pid, m_exit_code, number, created, open, process, status, holds, keeps, errors, lost>>

\* Such a step changes nothing that the invariant is about.
LEMMA MovesKeep == ASSUME MaxCreates \in Nat, ProcessInv, NEW o \in Parents, Moves(o) PROVE ProcessInv'
<1>1. ProcessTypes'
  BY DEF ProcessInv, ProcessTypes, Moves, Numbers
<1>2. NumbersAreOwn'
  BY DEF ProcessInv, NumbersAreOwn, Moves
<1>3. PipesTell'
  BY DEF ProcessInv, PipesTell, Moves
<1>4. CreatedRuns'
  BY DEF ProcessInv, CreatedRuns, Moves
<1>5. PidsAreOwn'
  BY DEF ProcessInv, PidsAreOwn, Moves
<1>6. NoneForgotten'
  BY DEF ProcessInv, NoneForgotten, Has, Moves
<1> QED
  BY <1>1, <1>2, <1>3, <1>4, <1>5, <1>6 DEF ProcessInv

\* The calls that wait or send signals, and the steps of Create but for the
\* fork and the end of the read.
LEMMA MoveSteps ==
  ASSUME MaxCreates \in Nat, ProcessInv, NEW o \in Parents,
         \/ SetCloexec(o) \/ GetOpenFds(o) \/ ReadError(o) \/ ProcessWaitForExit(o) \/ TimedWaitForExit(o)
         \/ WaitFails(o) \/ WaitTimesOut(o) \/ Terminate(o) \/ KillRudely(o)
  PROVE  ProcessInv'
<1> USE DEF child_vars, pipe_vars, Goto, Return, Begin, Unchanged, Kill, Preparing, Reading
<1>1. parent_pc[o] # "idle" => returned[o] = "none"
  BY DEF ProcessInv, CreatedRuns, ProcessTypes
<1>2. /\ parent_pc \in [Parents -> Preparing \cup Reading \cup {"idle", "wait", "timed", "term", "kill"}]
      /\ returned \in [Parents -> {"none", "created"}]
  BY DEF ProcessInv, ProcessTypes
<1>3. CASE SetCloexec(o) \/ GetOpenFds(o) \/ ReadError(o)
  <2>1. Moves(o)
    BY <1>1, <1>2, <1>3 DEF SetCloexec, GetOpenFds, ReadError, Moves
  <2> QED
    BY <2>1, MovesKeep
<1>4. CASE ProcessWaitForExit(o) \/ TimedWaitForExit(o)
  <2>1. Moves(o)
    BY <1>1, <1>2, <1>4 DEF ProcessWaitForExit, TimedWaitForExit, Moves
  <2> QED
    BY <2>1, MovesKeep
<1>5. CASE WaitFails(o) \/ WaitTimesOut(o)
  <2>1. Moves(o)
    BY <1>1, <1>2, <1>5 DEF WaitFails, WaitTimesOut, Moves
  <2> QED
    BY <2>1, MovesKeep
<1>6. CASE Terminate(o) \/ KillRudely(o)
  <2>1. Moves(o)
    BY <1>1, <1>2, <1>6 DEF Terminate, KillRudely, Moves
  <2> QED
    BY <2>1, MovesKeep
<1> QED
  BY <1>3, <1>4, <1>5, <1>6

\* A step of a child: it execs or fails to, or ends.
ChildGoes(n) ==
  /\ process[n] \in {"forked", "failed", "running"}
  /\ process'[n] \in {"failed", "running", "zombie"}
  /\ process[n] = "running" => process'[n] = "zombie"
  /\ process'[n] = "failed" => n \in holds'[n]
  /\ \A p \in Numbers \ {n} : process'[p] = process[p] /\ status'[p] = status[p] /\ holds'[p] = holds[p]
  /\ errors' \subseteq errors \cup {n} /\ (process[n] = "running" => errors' = errors)
  /\ process' \in [Numbers -> {"none", "forked", "failed", "running", "zombie", "reaped"}]
  /\ status' \in [Numbers -> Int]
  /\ holds' \in [Numbers -> SUBSET Numbers] /\ keeps' \in [Numbers -> SUBSET Numbers]
  /\ UNCHANGED <<m_pid, m_exit_code, parent_pc, number, created, open, returned, lost>>

\* The child belongs to the object it did belong to.
LEMMA ChildKeeps == ASSUME MaxCreates \in Nat, ProcessInv, NEW n \in Numbers, ChildGoes(n) PROVE ProcessInv'
<1>1. ProcessTypes'
  BY DEF ProcessInv, ProcessTypes, ChildGoes, Numbers
<1>2. NumbersAreOwn'
  BY DEF ProcessInv, NumbersAreOwn, ChildGoes
<1>3. PipesTell'
  BY NumbersInRange DEF ProcessInv, PipesTell, ChildGoes
<1>4. CreatedRuns'
  BY NumbersInRange DEF ProcessInv, CreatedRuns, ChildGoes
<1>5. PidsAreOwn'
  BY NumbersInRange DEF ProcessInv, PidsAreOwn, ChildGoes
<1>6. NoneForgotten'
  BY DEF ProcessInv, NoneForgotten, Has, ChildGoes
<1> QED
  BY <1>1, <1>2, <1>3, <1>4, <1>5, <1>6 DEF ProcessInv

\* The steps of a child, whatever makes it end.
LEMMA ChildSteps ==
  ASSUME MaxCreates \in Nat, ProcessInv, NEW n \in Numbers,
         Exec(n) \/ ExecFails(n) \/ ExitFailed(n) \/ Exit(n) \/ Terminated(n) \/ Killed(n)
  PROVE  ProcessInv'
<1> USE DEF pipe_vars
<1>1. /\ process \in [Numbers -> {"none", "forked", "failed", "running", "zombie", "reaped"}]
      /\ status \in [Numbers -> Int] /\ n \in Int
      /\ holds \in [Numbers -> SUBSET Numbers] /\ keeps \in [Numbers -> SUBSET Numbers]
  BY DEF ProcessInv, ProcessTypes, Numbers
<1>2. CASE Exec(n)
  <2>1. ChildGoes(n)
    BY <1>1, <1>2 DEF Exec, ChildGoes
  <2> QED
    BY <2>1, ChildKeeps
<1>3. CASE ExecFails(n)
  <2>1. n \in holds[n]
    BY <1>3 DEF ExecFails, ProcessInv, PipesTell
  <2>2. ChildGoes(n)
    BY <1>1, <1>3, <2>1 DEF ExecFails, ChildGoes
  <2> QED
    BY <2>2, ChildKeeps
<1>4. CASE ExitFailed(n) \/ Exit(n) \/ Terminated(n) \/ Killed(n)
  <2>1. PICK how \in Int : Ends(n, how)
    BY <1>1, <1>4 DEF ExitFailed, Exit, Terminated, Killed, SIGTERM, SIGKILL
  <2>2. process[n] \in {"failed", "running"}
    BY <1>4 DEF ExitFailed, Exit, Terminated, Killed
  <2>3. ChildGoes(n)
    BY <1>1, <2>1, <2>2 DEF Ends, ChildGoes
  <2> QED
    BY <2>3, ChildKeeps
<1> QED
  BY <1>2, <1>3, <1>4

\* The other objects do not notice.
Others(o) ==
  \A q \in Parents \ {o} :
    /\ m_pid'[q] = m_pid[q] /\ m_exit_code'[q] = m_exit_code[q] /\ parent_pc'[q] = parent_pc[q]
    /\ number'[q] = number[q] /\ returned'[q] = returned[q]

\* Create gets a number that no process has.
LEMMA PipeKeeps ==
  ASSUME MaxCreates \in Nat, ProcessInv, NEW o \in Parents, Pipe(o)
  PROVE  ProcessInv'
<1> USE DEF child_vars, pipe_vars, Goto, Return, Begin
<1>1. ProcessTypes'
  <2>1. created' \in 0 .. MaxCreates /\ 0 .. created \subseteq 0 .. created'
    BY DEF ProcessInv, ProcessTypes, Pipe
  <2>2. number' \in [Parents -> 0 .. created']
    BY <2>1 DEF ProcessInv, ProcessTypes, Pipe
  <2>3. open' \subseteq Numbers
    BY DEF ProcessInv, ProcessTypes, Pipe, Numbers
  <2>4. parent_pc' \in [Parents -> Preparing \cup Reading \cup {"idle", "wait", "timed", "term", "kill"}]
    BY DEF ProcessInv, ProcessTypes, Pipe, Preparing
  <2>5. returned' \in [Parents -> {"none", "created"}]
    BY DEF ProcessInv, ProcessTypes, Pipe
  <2> QED
    BY <2>1, <2>2, <2>3, <2>4, <2>5 DEF ProcessInv, ProcessTypes, Pipe
<1>2. /\ parent_pc'[o] = "cloexec" /\ number'[o] = created + 1 /\ created' = created + 1 /\ m_pid'[o] <= 0
      /\ returned'[o] = "none" /\ m_pid' = m_pid /\ m_pid[o] \in Int /\ parent_pc[o] = "idle"
      /\ m_exit_code' = m_exit_code
      /\ open' = open \cup {created + 1} /\ created + 1 \in Numbers
      /\ UNCHANGED <<process, status, holds, keeps, errors, lost>>
      /\ Others(o)
  BY DEF Pipe, ProcessInv, ProcessTypes, Numbers, Others
<1>3. created \in Nat /\ \A q \in Parents : number[q] \in 0 .. created
  BY DEF ProcessInv, ProcessTypes
<1>4. NumbersAreOwn'
  <2>1. \A q, r \in Parents : number'[q] = number'[r] /\ number'[q] # 0 => q = r
    BY <1>2, <1>3 DEF ProcessInv, NumbersAreOwn, Others
  <2>2. \A n \in Numbers : n > created' => process'[n] = "none"
    BY <1>2, <1>3 DEF ProcessInv, NumbersAreOwn, Numbers
  <2>3. \A q \in Parents : parent_pc'[q] \in Preparing \cup Reading => number'[q] # 0
    BY <1>2, <1>3 DEF ProcessInv, NumbersAreOwn, Others
  <2> QED
    BY <2>1, <2>2, <2>3 DEF NumbersAreOwn
<1>5. process[created + 1] = "none"
  BY <1>2, <1>3 DEF ProcessInv, NumbersAreOwn
<1>6. PipesTell'
  BY <1>2, <1>5 DEF ProcessInv, PipesTell, Others, Reading
<1>7. CreatedRuns'
  BY <1>2 DEF ProcessInv, CreatedRuns, Others
<1>8. PidsAreOwn'
  BY <1>2 DEF ProcessInv, PidsAreOwn, Others, Reading
<1>9. NoneForgotten'
  BY <1>2, <1>5 DEF ProcessInv, NoneForgotten, Has, Others, Reading
<1> QED
  BY <1>1, <1>4, <1>6, <1>7, <1>8, <1>9 DEF ProcessInv

\* The fork makes the process that the Create waits for, with its pipe open.
LEMMA ForkKeeps ==
  ASSUME MaxCreates \in Nat, ProcessInv, NEW o \in Parents, Fork(o)
  PROVE  ProcessInv'
<1> USE DEF child_vars, pipe_vars, Goto
<1> DEFINE n == number[o]
<1>1. n \in Numbers /\ process[n] = "none" /\ n \in open
  BY NumbersInRange DEF Fork, ProcessInv, PipesTell, Preparing
<1>2. Inherited(o) \subseteq Numbers /\ n \in Inherited(o)
  BY <1>1 DEF Inherited, ProcessInv, ProcessTypes
<1>3. ProcessTypes'
  BY <1>1, <1>2 DEF ProcessInv, ProcessTypes, Fork, Reading
<1>4. /\ process'[n] = "forked" /\ holds'[n] = Inherited(o) /\ parent_pc[o] = "fork" /\ parent_pc'[o] = "read"
      /\ open' = open \ {n}
      /\ \A p \in Numbers \ {n} : process'[p] = process[p] /\ holds'[p] = holds[p]
      /\ UNCHANGED <<m_pid, m_exit_code, number, created, status, errors, returned, lost>>
      /\ Others(o)
  BY <1>1 DEF Fork, ProcessInv, ProcessTypes, Others
<1> HIDE DEF n
<1>5. n = number[o] /\ \A q \in Parents \ {o} : number[q] # n
  BY <1>1 DEF n, ProcessInv, NumbersAreOwn, Numbers
<1>6. m_pid[o] <= 0 /\ returned[o] # "created" /\ m_pid[o] \in Int
  BY <1>4 DEF ProcessInv, PidsAreOwn, CreatedRuns, Preparing, ProcessTypes
<1>7. NumbersAreOwn'
  <2>1. created \in Nat /\ n \in Nat /\ n <= created
    BY <1>5 DEF ProcessInv, ProcessTypes
  <2>2. \A p \in Numbers : p > created' => process'[p] = "none"
    BY <1>4, <2>1 DEF ProcessInv, NumbersAreOwn, Numbers
  <2> QED
    BY <1>4, <1>5, <2>2 DEF ProcessInv, NumbersAreOwn, Others, Reading, Preparing
<1>8. PipesTell'
  BY <1>1, <1>2, <1>4, <1>5, NumbersInRange DEF ProcessInv, PipesTell, Others, Reading, Preparing
<1>9. CreatedRuns'
  BY <1>1, <1>4, <1>5, <1>6, NumbersInRange DEF ProcessInv, CreatedRuns, Others
<1>10. PidsAreOwn'
  BY <1>1, <1>4, <1>5, <1>6, NumbersInRange DEF ProcessInv, PidsAreOwn, Others, Reading, Preparing
<1>11. NoneForgotten'
  BY <1>1, <1>4, <1>5, <1>6 DEF ProcessInv, NoneForgotten, Has, Others, Reading
<1> QED
  BY <1>3, <1>7, <1>8, <1>9, <1>10, <1>11 DEF ProcessInv

\* At the end of the file the exec has succeeded, and the object has the process.
LEMMA ReadEndKeeps ==
  ASSUME MaxCreates \in Nat, ProcessInv, NEW o \in Parents, ReadEnd(o)
  PROVE  ProcessInv'
<1> USE DEF child_vars, pipe_vars, Goto, Return
<1> DEFINE n == number[o]
<1>1. n \in Numbers /\ process[n] # "none" /\ n \in Nat /\ n > 0
  BY NumbersInRange DEF ReadEnd, ProcessInv, PipesTell, Reading, Numbers
<1>2. process[n] \in {"running", "zombie", "reaped"} /\ n \notin errors
  BY <1>1 DEF ReadEnd, Closed, ProcessInv, PipesTell, ProcessTypes
<1>3. ProcessTypes'
  BY <1>1 DEF ProcessInv, ProcessTypes, ReadEnd
<1>4. /\ parent_pc[o] = "read" /\ parent_pc'[o] = "idle" /\ m_pid'[o] = n /\ returned'[o] = "created"
      /\ UNCHANGED <<number, created, open, process, status, holds, keeps, errors, lost>>
      /\ Others(o)
  BY <1>1 DEF ReadEnd, ProcessInv, ProcessTypes, Others
<1> HIDE DEF n
<1>5. n = number[o]
  BY DEF n
<1>6. NumbersAreOwn' /\ PipesTell'
  BY <1>4 DEF ProcessInv, NumbersAreOwn, PipesTell, Others, Reading, Preparing
<1>7. CreatedRuns'
  BY <1>1, <1>2, <1>4, <1>5 DEF ProcessInv, CreatedRuns, Others
<1>8. PidsAreOwn'
  BY <1>1, <1>2, <1>4, <1>5 DEF ProcessInv, PidsAreOwn, Others, Reading, Preparing
<1>9. NoneForgotten'
  <2>1. m_pid[o] <= 0 /\ m_pid[o] \in Int
    BY <1>4 DEF ProcessInv, PidsAreOwn, Reading, ProcessTypes
  <2>2. \A p \in Numbers : m_pid[o] # p
    BY <2>1 DEF Numbers
  <2>3. \A q \in Parents, p \in Numbers : Has(q, p) => Has(q, p)'
    BY <1>4, <1>5, <2>2 DEF Has, Others, Reading
  <2> QED
    BY <1>4, <2>3 DEF ProcessInv, NoneForgotten
<1> QED
  BY <1>3, <1>6, <1>7, <1>8, <1>9 DEF ProcessInv

\* A read that is interrupted gives its process up.
LEMMA ReadInterruptedKeeps ==
  ASSUME MaxCreates \in Nat, ProcessInv, NEW o \in Parents, ReadInterrupted(o)
  PROVE  ProcessInv'
<1> USE DEF child_vars, pipe_vars, Goto, Return
<1>1. number[o] \in Numbers
  BY NumbersInRange DEF ReadInterrupted, Reading
<1>2. ProcessTypes'
  BY <1>1 DEF ProcessInv, ProcessTypes, ReadInterrupted
<1>3. /\ parent_pc[o] = "read" /\ parent_pc'[o] = "idle" /\ returned'[o] = "none" /\ lost' = lost \cup {number[o]}
      /\ UNCHANGED <<m_pid, m_exit_code, number, created, open, process, status, holds, keeps, errors>>
      /\ Others(o)
  BY <1>1 DEF ReadInterrupted, ProcessInv, ProcessTypes, Others
<1>4. NumbersAreOwn' /\ PipesTell' /\ CreatedRuns'
  <2>1. \A q \in Parents : (parent_pc'[q] \in Preparing \cup Reading => q # o) /\ (returned'[q] = "created" => q # o)
    BY <1>3 DEF Reading, Preparing
  <2>2. NumbersAreOwn'
    BY <1>3, <2>1 DEF ProcessInv, NumbersAreOwn, Others
  <2>3. PipesTell'
    BY <1>3, <2>1 DEF ProcessInv, PipesTell, Others
  <2>4. CreatedRuns'
    BY <1>3, <2>1 DEF ProcessInv, CreatedRuns, Others
  <2> QED
    BY <2>2, <2>3, <2>4
<1>5. PidsAreOwn'
  BY <1>3 DEF ProcessInv, PidsAreOwn, Others, Reading, Preparing
<1>6. NoneForgotten'
  BY <1>3, Zenon DEF ProcessInv, NoneForgotten, Has, Others, Reading
<1> QED
  BY <1>2, <1>4, <1>5, <1>6 DEF ProcessInv

\* Process n is waited for, by a Create, an object or a destructor; only an
\* object without a process takes one that others may want.
Reaps(o, n) ==
  /\ n \in Numbers /\ process'[n] = "reaped" /\ process[n] # "none"
  /\ \A p \in Numbers \ {n} : process'[p] = process[p]
  /\ process' \in [Numbers -> {"none", "forked", "failed", "running", "zombie", "reaped"}]
  /\ parent_pc'[o] = "idle" /\ returned'[o] = "none"
  /\ lost \subseteq lost' /\ lost' \subseteq Numbers /\ (n \in lost' \/ number[o] = n)
  /\ UNCHANGED <<number, created, open, status, holds, keeps, errors>>
  /\ Others(o)

\* Waiting takes no process from an object that has one, unless it counts as lost.
LEMMA ReapsKeeps ==
  ASSUME MaxCreates \in Nat, ProcessInv, NEW o \in Parents, NEW n, Reaps(o, n), ProcessTypes',
         m_pid'[o] <= 0,
         m_pid'[o] < 0 => \/ -m_pid'[o] = n /\ m_exit_code'[o] = status[n]
                          \/ m_pid'[o] = m_pid[o] /\ m_exit_code'[o] = m_exit_code[o],
         m_pid[o] > 0 => m_pid[o] = n, parent_pc[o] \in Reading => number[o] = n
  PROVE  ProcessInv'
<1>1. n \in Numbers /\ n \in Nat /\ n > 0
  <2>1. n \in Numbers
    BY Zenon DEF Reaps
  <2> QED
    BY <2>1 DEF Numbers
<1>2. NumbersAreOwn'
  <2>1. created \in Nat /\ ~(n > created)
    BY DEF Reaps, ProcessInv, NumbersAreOwn, ProcessTypes
  <2> QED
    BY <2>1, Zenon DEF Reaps, ProcessInv, NumbersAreOwn, Others, Preparing, Reading
<1>3. PipesTell'
  BY NumbersInRange DEF Reaps, ProcessInv, PipesTell, Others, Preparing, Reading
<1>4. CreatedRuns'
  <2> SUFFICES ASSUME NEW q \in Parents, returned'[q] = "created"
               PROVE  /\ parent_pc'[q] = "idle" /\ number'[q] # 0
                      /\ process'[number'[q]] \in {"running", "zombie", "reaped"} /\ number'[q] \notin errors'
    BY DEF CreatedRuns
  <2>1. q # o /\ returned[q] = "created" /\ parent_pc'[q] = parent_pc[q] /\ number'[q] = number[q] /\ errors' = errors
    BY DEF Reaps, Others
  <2>2. number[q] \in Numbers /\ process'[number[q]] \in {process[number[q]], "reaped"}
    BY <2>1, NumbersInRange DEF Reaps, ProcessInv, CreatedRuns
  <2> QED
    BY <2>1, <2>2 DEF ProcessInv, CreatedRuns
<1>5. \A q \in Parents \ {o} : number[q] = n => n \in lost'
  BY <1>1 DEF Reaps, ProcessInv, NumbersAreOwn
<1>6. PidsAreOwn'
  <2>1. ASSUME NEW q \in Parents, m_pid'[q] > 0
        PROVE  /\ m_pid'[q] = number'[q] /\ parent_pc'[q] \notin Preparing \cup Reading
               /\ process'[m_pid'[q]] \in {"running", "zombie"} \/ m_pid'[q] \in lost'
    <3>1. q # o
      BY <2>1 DEF ProcessTypes
    <3>2. m_pid[q] > 0 /\ m_pid'[q] = m_pid[q] /\ number'[q] = number[q] /\ parent_pc'[q] = parent_pc[q]
      BY <2>1, <3>1 DEF Reaps, Others
    <3>3. /\ m_pid[q] = number[q] /\ parent_pc[q] \notin Preparing \cup Reading
          /\ process[m_pid[q]] \in {"running", "zombie"} \/ m_pid[q] \in lost
      BY <3>2 DEF ProcessInv, PidsAreOwn
    <3>4. m_pid[q] \in Numbers
      BY <3>2, <3>3, NumbersInRange
    <3>5. process'[m_pid[q]] = process[m_pid[q]] \/ m_pid[q] = n
      BY <3>4 DEF Reaps
    <3>6. lost \subseteq lost'
      BY DEF Reaps
    <3> QED
      BY <1>5, <3>1, <3>2, <3>3, <3>5, <3>6
  <2>2. ASSUME NEW q \in Parents, m_pid'[q] < 0
        PROVE  /\ -m_pid'[q] \in Numbers /\ process'[-m_pid'[q]] = "reaped"
               /\ m_exit_code'[q] = status'[-m_pid'[q]]
    <3>1. CASE q = o
      <4>1. CASE -m_pid'[o] = n /\ m_exit_code'[o] = status[n]
        BY <1>1, <3>1, <4>1 DEF Reaps
      <4>2. CASE m_pid'[o] = m_pid[o] /\ m_exit_code'[o] = m_exit_code[o]
        BY <2>2, <3>1, <4>2, Zenon DEF Reaps, ProcessInv, PidsAreOwn
      <4> QED
        BY <2>2, <3>1, <4>1, <4>2
    <3>2. CASE q # o
      BY <2>2, <3>2 DEF Reaps, Others, ProcessInv, PidsAreOwn
    <3> QED
      BY <3>1, <3>2
  <2>3. ASSUME NEW q \in Parents, parent_pc'[q] \in Reading, process'[number'[q]] = "reaped"
        PROVE  number'[q] \in lost'
    <3>1. q # o
      BY <2>3 DEF Reaps, Reading
    <3>2. parent_pc'[q] = parent_pc[q] /\ number'[q] = number[q] /\ number[q] \in Numbers
      BY <2>3, <3>1, NumbersInRange DEF Reaps, Others
    <3> QED
      BY <1>5, <2>3, <3>1, <3>2 DEF ProcessInv, PidsAreOwn, Reaps
  <2> QED
    BY <2>1, <2>2, <2>3 DEF PidsAreOwn
<1>7. NoneForgotten'
  <2> SUFFICES ASSUME NEW p \in Numbers, process'[p] \notin {"none", "reaped"}, p \notin lost'
               PROVE  \E q \in Parents : Has(q, p)'
    BY DEF NoneForgotten
  <2>1. p # n /\ process[p] \notin {"none", "reaped"} /\ p \notin lost
    BY Zenon DEF Reaps
  <2>2. PICK q \in Parents : Has(q, p)
    BY <2>1 DEF ProcessInv, NoneForgotten
  <2>3. q # o
    <3>1. p \in Int /\ p > 0
      BY DEF Numbers
    <3>2. CASE m_pid[o] = p
      BY <2>1, <3>1, <3>2
    <3>3. CASE parent_pc[o] \in Reading /\ number[o] = p
      BY <2>1, <3>3
    <3> QED
      BY <2>2, <3>2, <3>3 DEF Has
  <2> QED
    BY <2>2, <2>3 DEF Has, Reaps, Others
<1> QED
  BY <1>2, <1>3, <1>4, <1>6, <1>7, Zenon DEF ProcessInv

\* The three ways to wait for a process.
LEMMA ReapSteps ==
  ASSUME MaxCreates \in Nat, ProcessInv, NEW o \in Parents, Reap(o) \/ Waited(o)
  PROVE  ProcessInv'
<1> USE DEF child_vars, pipe_vars, Goto, Return
<1>t. /\ process \in [Numbers -> {"none", "forked", "failed", "running", "zombie", "reaped"}]
      /\ parent_pc \in [Parents -> Preparing \cup Reading \cup {"idle", "wait", "timed", "term", "kill"}]
      /\ returned \in [Parents -> {"none", "created"}] /\ lost \subseteq Numbers
      /\ m_pid \in [Parents -> Int] /\ m_exit_code \in [Parents -> Int]
      /\ status \in [Numbers -> Int] /\ ProcessTypes
  BY DEF ProcessInv, ProcessTypes
<1>1. CASE Reap(o)
  <2> DEFINE n == number[o]
  <2>1. /\ n \in Numbers /\ process[n] \in {"zombie", "reaped"}
        /\ m_pid[o] \in Int /\ m_pid[o] <= 0
    <3>1. parent_pc[o] \in Reading /\ process[n] \in {"zombie", "reaped"}
      BY <1>1 DEF Reap, Reading
    <3>2. ~(m_pid[o] > 0) /\ m_pid[o] \in Int
      BY <1>t, <3>1 DEF ProcessInv, PidsAreOwn
    <3> QED
      BY <3>1, <3>2, NumbersInRange
  <2>2. Reaps(o, n)
    BY <1>1, <1>t, <2>1 DEF Reap, Reaps, Others
  <2>3. ProcessTypes'
    <3>1. /\ parent_pc' \in [Parents -> Preparing \cup Reading \cup {"idle", "wait", "timed", "term", "kill"}]
          /\ returned' \in [Parents -> {"none", "created"}]
      BY <1>1, <1>t DEF Reap
    <3>2. process' \in [Numbers -> {"none", "forked", "failed", "running", "zombie", "reaped"}]
      BY <1>1, <1>t, Zenon DEF Reap, ProcessTypes
    <3>3. /\ UNCHANGED <<m_pid, m_exit_code, number, created, open, status, holds, keeps, errors>>
          /\ lost' \subseteq Numbers
      BY <1>1, <1>t, <2>1 DEF Reap
    <3> QED
      BY <1>t, <3>1, <3>2, <3>3 DEF ProcessTypes, Numbers
  <2>4. m_pid' = m_pid /\ m_exit_code' = m_exit_code
    BY <1>1 DEF Reap
  <2>5. m_pid'[o] <= 0 /\ (m_pid[o] > 0 => m_pid[o] = n)
        /\ (m_pid'[o] < 0 => m_pid'[o] = m_pid[o] /\ m_exit_code'[o] = m_exit_code[o])
    BY ONLY <2>1, <2>4
  <2> HIDE DEF n
  <2> QED
    BY <2>2, <2>3, <2>5, ReapsKeeps DEF n
<1>2. CASE Waited(o)
  <2>1. PICK n \in Zombies(o) : UpdateExitStatus(o, n)
    BY <1>2 DEF Waited
  <2>2. n \in Numbers /\ process[n] = "zombie" /\ m_pid[o] \in {0, n} /\ n \in Nat /\ n > 0
    BY <2>1 DEF Zombies, Awaited, Numbers
  <2>3. m_pid[o] = n => number[o] = n
    BY <2>2 DEF ProcessInv, PidsAreOwn
  <2>4. Reaps(o, n)
    <3>1. /\ process' = [process EXCEPT ![n] = "reaped"]
          /\ process' \in [Numbers -> {"none", "forked", "failed", "running", "zombie", "reaped"}]
      BY <1>t, <2>1, Zenon DEF UpdateExitStatus, ProcessTypes
    <3>2. n \in Numbers /\ process'[n] = "reaped" /\ process[n] # "none"
          /\ \A p \in Numbers \ {n} : process'[p] = process[p]
      BY <1>t, <2>2, <3>1 DEF ProcessTypes
    <3>3. lost \subseteq lost' /\ lost' \subseteq Numbers /\ (n \in lost' \/ number[o] = n)
      BY <1>t, <2>1, <2>2, <2>3 DEF UpdateExitStatus
    <3>4. parent_pc'[o] = "idle" /\ returned'[o] = "none" /\ UNCHANGED <<number, created, open, status, holds, keeps, errors>>
      BY <1>2, <1>t, <2>1 DEF Waited, UpdateExitStatus
    <3>5. Others(o)
      BY <1>2, <1>t, <2>1 DEF Waited, UpdateExitStatus, Others
    <3> QED
      BY <3>1, <3>2, <3>3, <3>4, <3>5 DEF Reaps
  <2>5. /\ m_pid'[o] = -m_pid[o] /\ m_exit_code'[o] = status[n] /\ parent_pc[o] \notin Reading
        /\ m_pid' \in [Parents -> Int] /\ m_exit_code' \in [Parents -> Int]
    BY <1>2, <1>t, <2>1, <2>2 DEF Waited, UpdateExitStatus, Reading
  <2>6. ProcessTypes'
    <3>1. /\ parent_pc' \in [Parents -> Preparing \cup Reading \cup {"idle", "wait", "timed", "term", "kill"}]
          /\ returned' \in [Parents -> {"none", "created"}]
      BY <1>2, <1>t DEF Waited
    <3>2. UNCHANGED <<number, created, open, status, holds, keeps, errors>>
      BY <2>1 DEF UpdateExitStatus
    <3>3. process' \in [Numbers -> {"none", "forked", "failed", "running", "zombie", "reaped"}]
      BY <1>t, <2>1, Zenon DEF UpdateExitStatus, ProcessTypes
    <3>4. lost' \subseteq Numbers
      BY <1>t, <2>1, <2>2 DEF UpdateExitStatus
    <3> QED
      BY <1>t, <2>5, <3>1, <3>2, <3>3, <3>4 DEF ProcessTypes, Numbers
  <2>7. m_pid'[o] <= 0 /\ (m_pid'[o] < 0 => -m_pid'[o] = n) /\ (m_pid[o] > 0 => m_pid[o] = n)
    BY <2>2, <2>5
  <2> QED
    BY <2>4, <2>5, <2>6, <2>7, ReapsKeeps
<1> QED
  BY <1>1, <1>2

\* The destructor waits for its process, if there is one to wait for.
LEMMA DestroyKeeps ==
  ASSUME MaxCreates \in Nat, ProcessInv, NEW o \in Parents, ProcessDestroy(o)
  PROVE  ProcessInv'
<1> USE DEF child_vars, pipe_vars
<1>1. ProcessTypes'
  <2>1. process' \in [Numbers -> {"none", "forked", "failed", "running", "zombie", "reaped"}]
    <3>1. process' = process \/ process' = [process EXCEPT ![m_pid[o]] = "reaped"]
      BY DEF ProcessDestroy
    <3>2. process \in [Numbers -> {"none", "forked", "failed", "running", "zombie", "reaped"}]
      BY DEF ProcessInv, ProcessTypes
    <3> QED
      BY ONLY <3>1, <3>2
  <2>2. /\ m_pid' \in [Parents -> Int] /\ m_exit_code' \in [Parents -> Int]
        /\ returned' \in [Parents -> {"none", "created"}]
    BY DEF ProcessInv, ProcessTypes, ProcessDestroy
  <2>3. UNCHANGED <<parent_pc, number, created, open, status, holds, keeps, errors, lost>>
    BY DEF ProcessDestroy
  <2> QED
    BY <2>1, <2>2, <2>3 DEF ProcessInv, ProcessTypes, Numbers
<1>2. /\ m_pid'[o] = 0 /\ m_exit_code'[o] = 0 /\ returned'[o] = "none" /\ parent_pc[o] = "idle" /\ Others(o)
      /\ UNCHANGED <<parent_pc, number, created, open, status, holds, keeps, errors, lost>>
  BY DEF ProcessDestroy, ProcessInv, ProcessTypes, Others
<1>3. CASE IsValid(o)
  <2>1. m_pid[o] > 0 /\ m_pid[o] \in Numbers /\ m_pid[o] = number[o]
    BY <1>3, NumbersInRange, Zenon DEF IsValid, ProcessInv, PidsAreOwn
  <2>2. Reaps(o, m_pid[o])
    BY <1>2, <1>3, <2>1 DEF ProcessDestroy, Reaps, ProcessInv, ProcessTypes
  <2>3. parent_pc[o] = "idle" /\ m_pid'[o] = 0
    BY ONLY <1>2, Zenon
  <2>4. parent_pc[o] \notin Reading /\ m_pid'[o] <= 0 /\ ~(m_pid'[o] < 0)
    BY ONLY <2>3 DEF Reading
  <2> QED
    BY <1>1, <2>1, <2>2, <2>4, ReapsKeeps
<1>4. CASE ~IsValid(o)
  <2>1. process' = process /\ m_pid[o] \in Int /\ m_pid[o] <= 0
    BY <1>4 DEF ProcessDestroy, IsValid, ProcessInv, ProcessTypes
  <2>2. NumbersAreOwn' /\ PipesTell'
    BY <1>2, <2>1, Zenon DEF ProcessInv, NumbersAreOwn, PipesTell
  <2>3. CreatedRuns'
    BY <1>2, <2>1 DEF ProcessInv, CreatedRuns, Others
  <2>4. PidsAreOwn'
    <3>1. ~(m_pid'[o] > 0) /\ ~(m_pid'[o] < 0)
      BY <1>2
    <3>2. \A q \in Parents \ {o} : m_pid'[q] = m_pid[q] /\ m_exit_code'[q] = m_exit_code[q]
      BY <1>2, Zenon DEF Others
    <3> QED
      BY <1>2, <2>1, <3>1, <3>2, Zenon DEF ProcessInv, PidsAreOwn
  <2>5. \A n \in Numbers : ~Has(o, n)
    BY <1>2, <2>1 DEF Has, Reading, Numbers
  <2>6. \A q \in Parents, n \in Numbers : Has(q, n) => Has(q, n)'
    BY <1>2, <2>5 DEF Has, Others
  <2>7. NoneForgotten'
    BY <1>2, <2>1, <2>6 DEF ProcessInv, NoneForgotten
  <2> QED
    BY <1>1, <2>2, <2>3, <2>4, <2>7 DEF ProcessInv
<1> QED
  BY <1>3, <1>4

\* Every step of every object and every child keeps the accounts.
LEMMA ProcessStepKeeps == ASSUME MaxCreates \in Nat, ProcessInv, [ProcessNext]_process_vars PROVE ProcessInv'
<1>1. ASSUME NEW o \in Parents, ProcessStep(o) \/ Calls(o) \/ ReadInterrupted(o) PROVE ProcessInv'
  BY <1>1, MoveSteps, PipeKeeps, ForkKeeps, ReadEndKeeps, ReadInterruptedKeeps, ReapSteps, DestroyKeeps
     DEF ProcessStep, Calls
<1>2. ASSUME NEW n \in Numbers, Kernel(n) \/ Exit(n) \/ Terminated(n) PROVE ProcessInv'
  BY <1>2, ChildSteps DEF Kernel
<1>3. CASE UNCHANGED process_vars
  <2>1. ProcessTypes' /\ NumbersAreOwn' /\ PipesTell'
    BY <1>3 DEF process_vars, ProcessInv, ProcessTypes, NumbersAreOwn, PipesTell, Numbers
  <2>2. CreatedRuns' /\ PidsAreOwn' /\ NoneForgotten'
    BY <1>3 DEF process_vars, ProcessInv, CreatedRuns, PidsAreOwn, NoneForgotten, Has
  <2> QED
    BY <2>1, <2>2 DEF ProcessInv
<1> QED
  BY <1>1, <1>2, <1>3 DEF ProcessNext

\* The object that has a process is the only one.
LEMMA AccountsAgree == ASSUME MaxCreates \in Nat, ProcessInv PROVE ProcessesAccounted
<1>1. ASSUME NEW n \in Numbers, process[n] \notin {"none", "reaped"}, n \notin lost
      PROVE  Cardinality({o \in Parents : m_pid[o] = n \/ (parent_pc[o] \in {"read", "reap"} /\ number[o] = n)}) = 1
  <2> DEFINE S == {o \in Parents : Has(o, n)}
  <2>1. n \in Nat /\ n > 0
    BY DEF Numbers
  <2>2. PICK o \in Parents : Has(o, n)
    BY <1>1 DEF ProcessInv, NoneForgotten
  <2>3. \A q \in Parents : Has(q, n) => number[q] = n
    BY <2>1 DEF Has, ProcessInv, PidsAreOwn
  <2>4. S = {o}
    BY <2>1, <2>2, <2>3 DEF ProcessInv, NumbersAreOwn
  <2>5. Cardinality(S) = 1
    BY <2>4, FS_Singleton, Zenon
  <2> QED
    BY <2>5, Zenon DEF Has, Reading
<1> QED
  BY <1>1, Zenon DEF ProcessesAccounted, ProcessInv, CreatedRuns, PidsAreOwn

\* SubProcess: Create reports a child exactly when its exec succeeded, an object has the
\* exit code of its own child once that was waited for, and every child that was not
\* belongs to one object, for any number of objects and processes.
THEOREM ProcessesAccountedCorrect == ProcessSpec => []ProcessesAccounted
<1>1. ProcessInit => ProcessInv
  BY CreatesAssumption, ProcessStarts
<1>2. ProcessInv /\ [ProcessNext]_process_vars => ProcessInv'
  BY CreatesAssumption, ProcessStepKeeps
<1>3. ProcessInv => ProcessesAccounted
  BY CreatesAssumption, AccountsAgree
<1> QED
  BY <1>1, <1>2, <1>3, PTL DEF ProcessSpec

-----------------------------------------------------------------------------
(***************************************************************************)
(* ObjectPool.                                                             *)
(***************************************************************************)

\* What obj holds depends on where its thread is.
PoolTypes ==
  /\ m_PooledObjects \in Seq(Object)
  /\ m_Quota \in Nat
  /\ held \in [Thread -> SUBSET Object]
  /\ pc \in [Thread -> {"idle", "new", "delete", "reserve"}]
  /\ obj \in [Thread -> Object \cup Nat]
  /\ \A t \in Thread : pc[t] = "reserve" => obj[t] \in Nat
  /\ deleted \subseteq Object
  /\ overshot \in BOOLEAN

\* OneOwner without the stack: the pool is only the set Pooled.
Apart ==
  /\ \A t \in Thread : held[t] \cap Pooled = {}
  /\ \A t \in Thread : held[t] \cap deleted = {}
  /\ \A t, u \in Thread : t # u => held[t] \cap held[u] = {}
  /\ \A t \in Thread : pc[t] = "delete" =>
       /\ obj[t] \in Object
       /\ obj[t] \notin Pooled \cup deleted
       /\ \A u \in Thread : obj[t] \notin held[u]
       /\ \A u \in Thread : u # t /\ pc[u] = "delete" => obj[u] # obj[t]
  /\ Pooled \cap deleted = {}

PoolInv ==
  /\ PoolTypes
  /\ IsInjective(m_PooledObjects)
  /\ Apart
  /\ PoolWithinQuota

-----------------------------------------------------------------------------
\* Acquire and UnlockedShrink keep the bottom of the stack: what they take off
\* is no longer on it.
LEMMA BottomOfStack ==
  ASSUME NEW S, NEW s \in Seq(S), IsInjective(s), NEW n \in 0 .. Len(s)
  PROVE  /\ SubSeq(s, 1, n) \in Seq(S)
         /\ Len(SubSeq(s, 1, n)) = n
         /\ IsInjective(SubSeq(s, 1, n))
         /\ Range(SubSeq(s, 1, n)) \subseteq Range(s)
         /\ \A i \in n + 1 .. Len(s) : s[i] \in S /\ s[i] \in Range(s) /\ s[i] \notin Range(SubSeq(s, 1, n))
<1> DEFINE b == SubSeq(s, 1, n)
<1>1. Len(s) \in Nat /\ DOMAIN s = 1 .. Len(s) /\ \A i \in 1 .. Len(s) : s[i] \in S
  BY LenProperties, ElementOfSeq
<1>2. /\ b \in Seq(S)
      /\ Len(b) = n
      /\ \A i \in 1 .. n : b[i] = s[i]
  <2>1. n \in Int /\ 1 \in Int /\ \A i \in 1 .. n : s[i] \in S
    BY <1>1, SMT
  <2>2. /\ b \in Seq(S)
        /\ Len(b) = IF 1 <= n THEN n - 1 + 1 ELSE 0
        /\ \A i \in 1 .. n - 1 + 1 : b[i] = s[1 + i - 1]
    BY <2>1, SubSeqProperties
  <2> QED
    BY <1>1, <2>2, SMT
<1>3. DOMAIN b = 1 .. n
  BY <1>2, LenProperties
<1> HIDE DEF b
<1>4. IsInjective(b)
  BY <1>1, <1>2, <1>3, SMT DEF IsInjective
<1>5. Range(b) \subseteq Range(s)
  BY <1>1, <1>2, <1>3, SMT DEF Range
<1>6. ASSUME NEW i \in n + 1 .. Len(s)
      PROVE  s[i] \in S /\ s[i] \in Range(s) /\ s[i] \notin Range(b)
  BY <1>1, <1>2, <1>3, SMT DEF Range, IsInjective
<1> QED
  BY <1>2, <1>4, <1>5, <1>6 DEF b

\* Release and Reserve put objects on the stack that were not there.
LEMMA TopOfStack ==
  ASSUME NEW S, NEW s \in Seq(S), NEW t \in Seq(S),
         IsInjective(s), IsInjective(t), Range(s) \cap Range(t) = {}
  PROVE  /\ s \o t \in Seq(S)
         /\ Len(s \o t) = Len(s) + Len(t)
         /\ IsInjective(s \o t)
         /\ Range(s \o t) = Range(s) \cup Range(t)
<1> DEFINE c == s \o t
<1>1. /\ Len(s) \in Nat /\ DOMAIN s = 1 .. Len(s)
      /\ Len(t) \in Nat /\ DOMAIN t = 1 .. Len(t)
  BY LenProperties
<1>2. /\ c \in Seq(S)
      /\ Len(c) = Len(s) + Len(t)
      /\ \A i \in 1 .. Len(s) + Len(t) : c[i] = IF i <= Len(s) THEN s[i] ELSE t[i - Len(s)]
  BY ConcatProperties
<1>3. DOMAIN c = 1 .. Len(s) + Len(t)
  BY <1>2, LenProperties
<1> HIDE DEF c
<1>4. \A i \in 1 .. Len(s) : s[i] \in Range(s) /\ s[i] \notin Range(t)
  BY <1>1 DEF Range
<1>5. \A i \in 1 .. Len(t) : t[i] \in Range(t) /\ t[i] \notin Range(s)
  BY <1>1 DEF Range
<1>6. IsInjective(c)
  <2> SUFFICES ASSUME NEW i \in 1 .. Len(s) + Len(t), NEW j \in 1 .. Len(s) + Len(t), c[i] = c[j]
               PROVE  i = j
    BY <1>3 DEF IsInjective
  <2>1. CASE i <= Len(s) /\ j <= Len(s)
    BY <1>1, <1>2, <2>1, SMT DEF IsInjective
  <2>2. CASE i > Len(s) /\ j > Len(s)
    <3>1. i - Len(s) \in 1 .. Len(t) /\ j - Len(s) \in 1 .. Len(t)
      BY <1>1, <2>2, SMT
    <3>2. t[i - Len(s)] = t[j - Len(s)]
      BY <1>1, <1>2, <2>2, SMT
    <3>3. i - Len(s) = j - Len(s)
      BY <1>1, <3>1, <3>2 DEF IsInjective
    <3> QED
      BY <1>1, <3>3, SMT
  <2>3. CASE i <= Len(s) /\ j > Len(s)
    BY <1>1, <1>2, <1>4, <1>5, <2>3, SMT
  <2>4. CASE i > Len(s) /\ j <= Len(s)
    BY <1>1, <1>2, <1>4, <1>5, <2>4, SMT
  <2> QED
    BY <1>1, <2>1, <2>2, <2>3, <2>4, SMT
<1>7. Range(c) \subseteq Range(s) \cup Range(t)
  <2> SUFFICES ASSUME NEW i \in 1 .. Len(s) + Len(t) PROVE c[i] \in Range(s) \cup Range(t)
    BY <1>3 DEF Range
  <2>1. CASE i <= Len(s)
    BY <1>1, <1>2, <1>4, <2>1, SMT
  <2>2. CASE i > Len(s)
    <3>1. i - Len(s) \in 1 .. Len(t) /\ c[i] = t[i - Len(s)]
      BY <1>1, <1>2, <2>2, SMT
    <3> QED
      BY <1>5, <3>1
  <2> QED
    BY <1>1, <2>1, <2>2, SMT
<1>8. Range(s) \subseteq Range(c)
  BY <1>1, <1>2, <1>3, SMT DEF Range
<1>9. Range(t) \subseteq Range(c)
  <2> SUFFICES ASSUME NEW j \in 1 .. Len(t) PROVE t[j] \in Range(c)
    BY <1>1 DEF Range
  <2>1. j + Len(s) \in 1 .. Len(s) + Len(t) /\ c[j + Len(s)] = t[j]
    BY <1>1, <1>2, SMT
  <2> QED
    BY <1>3, <2>1 DEF Range
<1> QED
  BY <1>2, <1>6, <1>7, <1>8, <1>9 DEF c

-----------------------------------------------------------------------------
\* The disjoint owners of Apart are those of OneOwner.
LEMMA ApartIsOneOwner == PoolInv => ObjectsAccounted
<1> SUFFICES ASSUME PoolInv PROVE ObjectsAccounted
  OBVIOUS
<1>1. \A o \in InDelete :
        /\ o \notin Pooled \cup deleted
        /\ \A t \in Thread : o \notin held[t]
  BY DEF PoolInv, Apart, InDelete
<1>2. \A t \in Thread : held[t] \cap (Pooled \cup InDelete) = {}
  BY <1>1 DEF PoolInv, Apart
<1>3. InDelete \cap Pooled = {}
  BY <1>1
<1>4. (UNION {held[t] : t \in Thread}) \cap deleted = {}
  BY DEF PoolInv, Apart
<1>5. Live \cap deleted = {}
  BY <1>1, <1>4 DEF PoolInv, Apart, Live
<1>6. /\ IsInjective(m_PooledObjects)
      /\ \A t, u \in Thread : t # u => held[t] \cap held[u] = {}
      /\ \A t, u \in Thread : t # u /\ pc[t] = "delete" /\ pc[u] = "delete" => obj[t] # obj[u]
      /\ PoolWithinQuota
  BY DEF PoolInv, Apart
<1> QED
  BY <1>2, <1>3, <1>5, <1>6 DEF ObjectsAccounted, OneOwner

\* A fresh object belongs to nobody.
LEMMA FreshIsFree ==
  ASSUME NEW o \in Fresh
  PROVE  /\ o \in Object
         /\ o \notin Pooled \cup deleted
         /\ \A t \in Thread : o \notin held[t]
         /\ \A t \in Thread : pc[t] = "delete" => obj[t] # o
<1>1. o \in Object /\ o \notin Live /\ o \notin deleted
  BY DEF Fresh
<1>2. o \notin Pooled /\ o \notin UNION {held[t] : t \in Thread} /\ o \notin InDelete
  BY <1>1 DEF Live
<1>3. \A t \in Thread : o \notin held[t]
  BY <1>2
<1>4. \A t \in Thread : pc[t] = "delete" => obj[t] # o
  BY <1>2 DEF InDelete
<1> QED
  BY <1>1, <1>2, <1>3, <1>4

\* The constructor: no object belongs to anyone yet.
LEMMA InitPoolInv == ASSUME ObjectsInit PROVE PoolInv
<1>1. PoolTypes
  <2>1. m_PooledObjects \in Seq(Object)
    BY EmptySeq DEF ObjectsInit
  <2>2. m_Quota \in Nat
    BY QuotaAssumption, SMT DEF ObjectsInit
  <2> QED
    BY <2>1, <2>2, Zenon DEF ObjectsInit, PoolTypes
<1>2. DOMAIN m_PooledObjects = {} /\ Len(m_PooledObjects) = 0
  BY EmptySeq DEF ObjectsInit
<1>3. Pooled = {} /\ IsInjective(m_PooledObjects)
  BY <1>2 DEF Pooled, Range, IsInjective
<1>4. Apart
  BY <1>3 DEF ObjectsInit, Apart
<1>5. PoolWithinQuota
  BY <1>1, <1>2 DEF PoolWithinQuota, PoolTypes
<1> QED
  BY <1>1, <1>3, <1>4, <1>5 DEF PoolInv

\* Acquire: the object on top passes from the pool to the thread.
LEMMA AcquirePoolInv == ASSUME PoolInv, NEW t \in Thread, Acquire(t) PROVE PoolInv'
<1>1. CASE m_PooledObjects = << >>
  <2>1. pc' = [pc EXCEPT ![t] = "new"] /\ UNCHANGED <<m_PooledObjects, held, m_Quota, obj, deleted, overshot>>
    BY <1>1 DEF Acquire
  <2>2. PoolTypes'
    BY <2>1 DEF PoolInv, PoolTypes
  <2>3. Apart'
    BY <2>1 DEF PoolInv, PoolTypes, Apart, Pooled
  <2> QED
    BY <2>1, <2>2, <2>3 DEF PoolInv, PoolWithinQuota
<1>2. CASE m_PooledObjects # << >>
  <2> DEFINE n == Len(m_PooledObjects)
             top == m_PooledObjects[n]
  <2>1. /\ held' = [held EXCEPT ![t] = @ \cup {top}]
        /\ m_PooledObjects' = SubSeq(m_PooledObjects, 1, n - 1)
        /\ UNCHANGED <<pc, m_Quota, obj, deleted, overshot>>
    BY <1>2 DEF Acquire
  <2>2. n \in Nat /\ n > 0 /\ n - 1 \in 0 .. n /\ n \in n - 1 + 1 .. n
    BY <1>2, EmptySeq, SMT DEF PoolInv, PoolTypes
  <2> DEFINE b == SubSeq(m_PooledObjects, 1, n - 1)
  <2>9. /\ b \in Seq(Object)
        /\ Len(b) = n - 1
        /\ IsInjective(b)
        /\ Range(b) \subseteq Range(m_PooledObjects)
        /\ \A i \in n - 1 + 1 .. n :
             /\ m_PooledObjects[i] \in Object
             /\ m_PooledObjects[i] \in Range(m_PooledObjects)
             /\ m_PooledObjects[i] \notin Range(b)
    BY <2>2, BottomOfStack, Zenon DEF PoolInv, PoolTypes
  <2>3. /\ m_PooledObjects' \in Seq(Object)
        /\ Len(m_PooledObjects') = n - 1
        /\ IsInjective(m_PooledObjects')
        /\ Pooled' \subseteq Pooled
        /\ top \in Object /\ top \in Pooled /\ top \notin Pooled'
    BY <2>1, <2>2, <2>9 DEF Pooled
  <2> HIDE DEF n, top
  <2>4. PoolTypes'
    BY <2>1, <2>3 DEF PoolInv, PoolTypes
  <2>5. Apart'
    BY <2>1, <2>3 DEF PoolInv, PoolTypes, Apart
  <2>6. PoolWithinQuota'
    BY <2>1, <2>2, <2>3, SMT DEF PoolInv, PoolTypes, PoolWithinQuota, n
  <2> QED
    BY <2>3, <2>4, <2>5, <2>6 DEF PoolInv
<1> QED
  BY <1>1, <1>2

\* NewObject, outside m_Lock: the object was nobody's.
LEMMA AcquireNewPoolInv == ASSUME PoolInv, NEW t \in Thread, AcquireNew(t) PROVE PoolInv'
<1> DEFINE o == CHOOSE x \in Fresh : TRUE
<1>1. /\ o \in Fresh
      /\ held' = [held EXCEPT ![t] = @ \cup {o}]
      /\ pc' = [pc EXCEPT ![t] = "idle"]
      /\ UNCHANGED <<m_PooledObjects, m_Quota, obj, deleted, overshot>>
  BY DEF AcquireNew
<1> HIDE DEF o
<1>2. /\ o \in Object
      /\ o \notin Pooled \cup deleted
      /\ \A u \in Thread : o \notin held[u]
      /\ \A u \in Thread : pc[u] = "delete" => obj[u] # o
  BY <1>1, FreshIsFree
<1>3. PoolTypes'
  BY <1>1, <1>2 DEF PoolInv, PoolTypes
<1>4. Apart'
  BY <1>1, <1>2 DEF PoolInv, PoolTypes, Apart, Pooled
<1> QED
  BY <1>1, <1>3, <1>4 DEF PoolInv, PoolWithinQuota

\* Release: the object goes back to the pool, or is kept for Delete.
LEMMA ReleasePoolInv == ASSUME PoolInv, NEW t \in Thread, NEW o \in held[t], Release(t, o) PROVE PoolInv'
<1>1. /\ o \in Object
      /\ o \notin Pooled \cup deleted
      /\ \A u \in Thread : u # t => o \notin held[u]
      /\ \A u \in Thread : pc[u] = "delete" => obj[u] # o
  BY DEF PoolInv, PoolTypes, Apart
<1>2. pc[t] = "idle" /\ held' = [held EXCEPT ![t] = @ \ {o}] /\ UNCHANGED <<m_Quota, deleted, overshot>>
  BY DEF Release
<1>3. CASE Len(m_PooledObjects) < m_Quota
  <2>1. m_PooledObjects' = Append(m_PooledObjects, o) /\ UNCHANGED <<pc, obj>>
    BY <1>3 DEF Release
  <2> DEFINE one == <<o>>
             c == m_PooledObjects \o one
  <2>2. one \in Seq(Object) /\ Len(one) = 1 /\ IsInjective(one) /\ Range(one) = {o}
    <3>1. one \in Seq(Object) /\ Len(one) = 1 /\ DOMAIN one = {1} /\ one[1] = o
      BY <1>1, SMT
    <3> QED
      BY <3>1 DEF IsInjective, Range
  <2>3. m_PooledObjects' = c
    BY <1>1, <2>1, AppendIsConcat DEF PoolInv, PoolTypes
  <2> HIDE DEF one
  <2>4. /\ c \in Seq(Object)
        /\ Len(c) = Len(m_PooledObjects) + Len(one)
        /\ IsInjective(c)
        /\ Range(c) = Range(m_PooledObjects) \cup Range(one)
    <3>1. Range(m_PooledObjects) \cap Range(one) = {}
      BY <1>1, <2>2 DEF Pooled
    <3>2. m_PooledObjects \in Seq(Object) /\ IsInjective(m_PooledObjects)
      BY DEF PoolInv, PoolTypes
    <3>3. /\ m_PooledObjects \o one \in Seq(Object)
          /\ IsInjective(m_PooledObjects \o one)
          /\ Range(m_PooledObjects \o one) = Range(m_PooledObjects) \cup Range(one)
      BY <2>2, <3>1, <3>2, TopOfStack
    <3>4. Len(m_PooledObjects \o one) = Len(m_PooledObjects) + Len(one)
      BY ONLY <2>2, <3>2, ConcatProperties, Zenon
    <3> QED
      BY ONLY <3>3, <3>4, Zenon
  <2> HIDE DEF c
  <2>5. /\ m_PooledObjects' \in Seq(Object)
        /\ Len(m_PooledObjects') = Len(m_PooledObjects) + 1
        /\ IsInjective(m_PooledObjects')
        /\ Pooled' = Pooled \cup {o}
    BY <2>2, <2>3, <2>4 DEF Pooled
  <2>6. PoolTypes'
    BY <1>2, <2>1, <2>5 DEF PoolInv, PoolTypes
  <2>7. Apart'
    BY <1>1, <1>2, <2>1, <2>5 DEF PoolInv, PoolTypes, Apart
  <2>8. PoolWithinQuota'
    <3>1. Len(m_PooledObjects) \in Nat
      BY LenProperties DEF PoolInv, PoolTypes
    <3>2. ~(Len(m_PooledObjects') > m_Quota')
      BY <1>2, <1>3, <2>5, <3>1, SMT DEF PoolInv, PoolTypes
    <3> QED
      BY <3>2 DEF PoolWithinQuota
  <2> QED
    BY <2>5, <2>6, <2>7, <2>8 DEF PoolInv
<1>4. CASE ~(Len(m_PooledObjects) < m_Quota)
  <2>1. /\ pc' = [pc EXCEPT ![t] = "delete"]
        /\ obj' = [obj EXCEPT ![t] = o]
        /\ UNCHANGED m_PooledObjects
    BY <1>4 DEF Release
  <2>2. PoolTypes'
    BY <1>1, <1>2, <2>1 DEF PoolInv, PoolTypes
  <2>3. Apart'
    BY <1>1, <1>2, <2>1 DEF PoolInv, PoolTypes, Apart, Pooled
  <2> QED
    BY <1>2, <2>1, <2>2, <2>3 DEF PoolInv, PoolWithinQuota
<1> QED
  BY <1>3, <1>4

\* Delete, outside m_Lock: the object was this Release's alone.
LEMMA ReleaseDeletePoolInv == ASSUME PoolInv, NEW t \in Thread, ReleaseDelete(t) PROVE PoolInv'
<1>1. /\ pc[t] = "delete"
      /\ deleted' = deleted \cup {obj[t]}
      /\ pc' = [pc EXCEPT ![t] = "idle"]
      /\ obj' = [obj EXCEPT ![t] = 0]
      /\ UNCHANGED <<m_PooledObjects, m_Quota, held, overshot>>
  BY DEF ReleaseDelete
<1>2. PoolTypes'
  BY <1>1 DEF PoolInv, PoolTypes, Apart
<1>3. Apart'
  BY <1>1 DEF PoolInv, PoolTypes, Apart, Pooled
<1> QED
  BY <1>1, <1>2, <1>3 DEF PoolInv, PoolWithinQuota

\* What is left of the stack, and what UnlockedShrink deletes of it.
LEMMA UnlockedShrinkKeeps ==
  ASSUME PoolInv, NEW size \in Nat, UnlockedShrink(size)
  PROVE  /\ m_PooledObjects' \in Seq(Object)
         /\ Len(m_PooledObjects') <= size /\ Len(m_PooledObjects') <= Len(m_PooledObjects)
         /\ IsInjective(m_PooledObjects')
         /\ Pooled' \subseteq Pooled
         /\ deleted' \subseteq deleted \cup Pooled
         /\ deleted' \subseteq Object
         /\ deleted' \cap Pooled' = {}
<1> DEFINE n == Len(m_PooledObjects)
<1>1. n \in Nat
  BY LenProperties DEF PoolInv, PoolTypes
<1>2. CASE n > size
  <2> DEFINE b == SubSeq(m_PooledObjects, 1, size)
             gone == {m_PooledObjects[i] : i \in size + 1 .. n}
  <2>1. m_PooledObjects' = b /\ deleted' = deleted \cup gone
    BY <1>2 DEF UnlockedShrink
  <2>2. size \in 0 .. n
    BY <1>1, <1>2, SMT
  <2>3. /\ b \in Seq(Object)
        /\ Len(b) = size
        /\ IsInjective(b)
        /\ Range(b) \subseteq Range(m_PooledObjects)
        /\ \A i \in size + 1 .. n :
             /\ m_PooledObjects[i] \in Object
             /\ m_PooledObjects[i] \in Range(m_PooledObjects)
             /\ m_PooledObjects[i] \notin Range(b)
    BY <2>2, BottomOfStack DEF PoolInv, PoolTypes
  <2>4. gone \subseteq Object /\ gone \subseteq Pooled /\ gone \cap Range(b) = {}
    BY <2>3 DEF Pooled
  <2> HIDE DEF b, gone
  <2>5. Pooled' = Range(b)
    BY <2>1 DEF Pooled
  <2>6. Len(m_PooledObjects') <= size /\ Len(m_PooledObjects') <= n
    BY <1>1, <1>2, <2>1, <2>3, SMT
  <2> QED
    BY <2>1, <2>3, <2>4, <2>5, <2>6 DEF PoolInv, PoolTypes, Apart, Pooled
<1>3. CASE ~(n > size)
  <2>1. UNCHANGED <<m_PooledObjects, deleted>>
    BY <1>3 DEF UnlockedShrink
  <2>2. n <= size /\ n <= n
    BY <1>1, <1>3, SMT
  <2> QED
    BY <2>1, <2>2 DEF PoolInv, PoolTypes, Apart, Pooled
<1> QED
  BY <1>2, <1>3

\* SetQuota and Shrink: both end with the pool within the quota, or where it was.
LEMMA ShrinkPoolInv ==
  ASSUME PoolInv, NEW t \in Thread, NEW size \in Nat, SetQuota(t, size) \/ Shrink(t, size)
  PROVE  PoolInv'
<1>1. UnlockedShrink(size) /\ UNCHANGED <<held, pc, obj, overshot>> /\ m_Quota' \in {size, m_Quota}
  BY DEF SetQuota, Shrink
<1>2. /\ m_PooledObjects' \in Seq(Object)
      /\ Len(m_PooledObjects') <= size /\ Len(m_PooledObjects') <= Len(m_PooledObjects)
      /\ IsInjective(m_PooledObjects')
      /\ Pooled' \subseteq Pooled
      /\ deleted' \subseteq deleted \cup Pooled
      /\ deleted' \subseteq Object
      /\ deleted' \cap Pooled' = {}
  BY <1>1, UnlockedShrinkKeeps
<1>3. PoolTypes'
  BY <1>1, <1>2 DEF PoolInv, PoolTypes
<1>4. Apart'
  BY <1>1, <1>2 DEF PoolInv, PoolTypes, Apart
<1>5. PoolWithinQuota'
  <2>1. Len(m_PooledObjects) \in Nat /\ Len(m_PooledObjects') \in Nat
    BY <1>2, LenProperties DEF PoolInv, PoolTypes
  <2>2. Len(m_PooledObjects') > m_Quota' => Len(m_PooledObjects) > m_Quota
    BY <1>1, <1>2, <2>1, SMT DEF PoolInv, PoolTypes
  <2> QED
    BY <1>1, <2>2 DEF PoolInv, PoolWithinQuota
<1> QED
  BY <1>2, <1>3, <1>4, <1>5 DEF PoolInv

\* Reserve, before m_Lock: only the clipped size is noted.
LEMMA ReservePoolInv == ASSUME PoolInv, NEW t \in Thread, NEW size \in Nat, Reserve(t, size) PROVE PoolInv'
<1>1. /\ pc[t] = "idle"
      /\ pc' = [pc EXCEPT ![t] = "reserve"]
      /\ obj' = [obj EXCEPT ![t] = IF size > m_Quota THEN m_Quota ELSE size]
      /\ UNCHANGED <<m_PooledObjects, m_Quota, held, deleted, overshot>>
  BY DEF Reserve
<1>2. PoolTypes'
  BY <1>1 DEF PoolInv, PoolTypes
<1>3. Apart'
  BY <1>1 DEF PoolInv, PoolTypes, Apart, Pooled
<1> QED
  BY <1>1, <1>2, <1>3 DEF PoolInv, PoolWithinQuota

\* Reserve, under m_Lock: the new objects were nobody's.
LEMMA ReserveFillPoolInv == ASSUME PoolInv, NEW t \in Thread, ReserveFill(t) PROVE PoolInv'
<1> DEFINE n == Len(m_PooledObjects)
           missing == obj[t] - n
<1>1. /\ pc[t] = "reserve"
      /\ overshot' = (overshot \/ Len(m_PooledObjects') > m_Quota)
      /\ pc' = [pc EXCEPT ![t] = "idle"]
      /\ obj' = [obj EXCEPT ![t] = 0]
      /\ UNCHANGED <<m_Quota, held, deleted>>
  BY DEF ReserveFill
<1>2. /\ m_PooledObjects' \in Seq(Object)
      /\ IsInjective(m_PooledObjects')
      /\ \A o \in Pooled' : o \in Pooled \/ o \in Fresh
  <2>1. CASE missing <= 0
    <3>1. UNCHANGED m_PooledObjects
      BY <2>1 DEF ReserveFill
    <3> QED
      BY <3>1 DEF PoolInv, PoolTypes, Pooled
  <2>2. CASE ~(missing <= 0)
    <3>1. PICK new \in [1 .. missing -> Fresh] :
            IsInjective(new) /\ m_PooledObjects' = m_PooledObjects \o new
      BY <2>2 DEF ReserveFill
    <3>2. missing \in Nat
      BY <1>1, <2>2, LenProperties, SMT DEF PoolInv, PoolTypes
    <3> HIDE DEF missing
    <3>3. new \in Seq(Object) /\ Range(new) \subseteq Fresh
      BY <3>1, <3>2, FreshIsFree DEF Range
    <3>4. Range(m_PooledObjects) \cap Range(new) = {}
      BY <3>3, FreshIsFree DEF Pooled
    <3>5. /\ m_PooledObjects \o new \in Seq(Object)
          /\ IsInjective(m_PooledObjects \o new)
          /\ Range(m_PooledObjects \o new) = Range(m_PooledObjects) \cup Range(new)
      BY <3>1, <3>3, <3>4, TopOfStack DEF PoolInv, PoolTypes
    <3> QED
      BY <3>1, <3>3, <3>5 DEF Pooled
  <2> QED
    BY <2>1, <2>2
<1>3. \A o \in Pooled' :
        /\ o \notin deleted
        /\ \A u \in Thread : o \notin held[u]
        /\ \A u \in Thread : pc[u] = "delete" => obj[u] # o
  BY <1>2, FreshIsFree, Zenon DEF PoolInv, Apart
<1>4. PoolTypes'
  BY <1>1, <1>2 DEF PoolInv, PoolTypes
<1>5. Apart'
  BY <1>1, <1>3 DEF PoolInv, PoolTypes, Apart
<1>6. PoolWithinQuota'
  BY <1>1, Zenon DEF PoolWithinQuota
<1> QED
  BY <1>2, <1>4, <1>5, <1>6 DEF PoolInv

-----------------------------------------------------------------------------
\* ObjectPool, for every number of threads and objects: an object is owned by one
\* thread, by the pool or by the Release that deletes it, though NewObject, Delete
\* and the clipping of Reserve happen outside m_Lock; and only a Reserve that has
\* clipped with an old quota leaves more than m_Quota objects in the pool.
THEOREM ObjectsAccountedCorrect == ObjectsSpec => []ObjectsAccounted
<1>1. ObjectsInit => PoolInv
  BY InitPoolInv
<1>2. PoolInv /\ [ObjectsNext]_objects_vars => PoolInv'
  <2> SUFFICES ASSUME PoolInv, [ObjectsNext]_objects_vars PROVE PoolInv'
    OBVIOUS
  <2>1. CASE UNCHANGED objects_vars
    BY <2>1, Zenon DEF objects_vars, PoolInv, PoolTypes, Apart, Pooled, PoolWithinQuota
  <2>2. ASSUME NEW size \in 0 .. MaxQuota PROVE size \in Nat
    BY QuotaAssumption, SMT
  <2>3. CASE ObjectsNext
    BY <2>2, <2>3, AcquirePoolInv, AcquireNewPoolInv, ReleasePoolInv, ReleaseDeletePoolInv, ShrinkPoolInv,
       ReservePoolInv, ReserveFillPoolInv DEF ObjectsNext
  <2> QED
    BY <2>1, <2>3
<1>3. PoolInv => ObjectsAccounted
  BY ApartIsOneOwner
<1> QED
  BY <1>1, <1>2, <1>3, PTL DEF ObjectsSpec
=============================================================================
