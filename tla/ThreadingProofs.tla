--------------------------- MODULE ThreadingProofs --------------------------
(***************************************************************************)
(* Threads and what they wait on, for any number of threads, calls, Thread *)
(* objects and members of a group.  AutoResetEvent and BlockingQueue; then *)
(* Thread and ThreadGroup: a function that was started has been run once   *)
(* when Join has returned, and an Impl is deleted at most once.            *)
(***************************************************************************)
EXTENDS Waiting, Thread, SequenceTheorems, TLAPS

-----------------------------------------------------------------------------
(***************************************************************************)
(* AutoResetEvent lets at most one wait through per Set and loses no       *)
(* wakeup.                                                                 *)
(***************************************************************************)
AutoInv == AutoTypeOK /\ OneReleasePerSet /\ NoLostWakeup

\* A new event has no waiting threads.
LEMMA AutoInvInit == AutoInit => AutoInv
<1> SUFFICES ASSUME AutoInit PROVE AutoInv
  OBVIOUS
<1>1. m_signaled \in BOOLEAN /\ early \in BOOLEAN
  BY InitAssumption, Zenon DEF AutoInit
<1>2. sets \in 0 .. MaxSets /\ released \in Nat
  BY BoundAssumption DEF AutoInit
<1>3. /\ pc \in [Thread -> {"idle", "blocked", "awake"}]
      /\ timed \in [Thread -> BOOLEAN]
      /\ expired \in [Thread -> BOOLEAN]
  BY DEF AutoInit
<1>4. OneReleasePerSet
  BY InitAssumption DEF AutoInit, OneReleasePerSet
<1>5. NoLostWakeup
  BY DEF AutoInit, NoLostWakeup, Blocked
<1> QED
  BY <1>1, <1>2, <1>3, <1>4, <1>5 DEF AutoInv, AutoTypeOK

\* The wait that takes the signal leaves none.
LEMMA TakeStep ==
  ASSUME AutoInv, NEW t \in Thread, Take(t)
  PROVE  /\ m_signaled' \in BOOLEAN /\ early' \in BOOLEAN
         /\ pc' \in [Thread -> {"idle", "blocked", "awake"}]
         /\ sets' \in 0 .. MaxSets /\ released' \in Nat
         /\ OneReleasePerSet' /\ NoLostWakeup'
<1>1. OneReleasePerSet'
  BY BoundAssumption DEF Take, AutoInv, AutoTypeOK, OneReleasePerSet
<1>2. m_signaled' \in BOOLEAN /\ early' \in BOOLEAN
  BY Zenon DEF Take, AutoInv, AutoTypeOK
<1>3. NoLostWakeup'
  BY Zenon DEF Take, NoLostWakeup
<1> QED
  BY <1>1, <1>2, <1>3, BoundAssumption DEF Take, AutoInv, AutoTypeOK

\* A thread blocks only while the event is not signaled.
LEMMA BlockStep ==
  ASSUME AutoInv, NEW t \in Thread, Block(t)
  PROVE  /\ m_signaled' \in BOOLEAN /\ early' \in BOOLEAN
         /\ pc' \in [Thread -> {"idle", "blocked", "awake"}]
         /\ sets' \in 0 .. MaxSets /\ released' \in Nat
         /\ OneReleasePerSet' /\ NoLostWakeup'
<1>1. OneReleasePerSet'
  BY BoundAssumption DEF Block, AutoInv, AutoTypeOK, OneReleasePerSet
<1> QED
  BY <1>1, BoundAssumption DEF Block, AutoInv, AutoTypeOK, NoLostWakeup

\* A woken thread replaces the blocked one it was.
LEMMA WakeStep ==
  ASSUME AutoInv, NEW t \in Blocked, pc' = [pc EXCEPT ![t] = "awake"]
  PROVE  /\ pc' \in [Thread -> {"idle", "blocked", "awake"}]
         /\ \E u \in Thread : pc'[u] = "awake"
BY DEF AutoInv, AutoTypeOK, Blocked

\* No critical section breaks the invariant.
LEMMA AutoInvStep == AutoInv /\ [AutoNext]_auto_vars => AutoInv'
<1> SUFFICES ASSUME AutoInv, [AutoNext]_auto_vars PROVE AutoInv'
  OBVIOUS
<1> USE BoundAssumption
<1>1. ASSUME NEW t \in Thread, NEW with_timeout \in BOOLEAN, Call(t, with_timeout) PROVE AutoInv'
  <2>1. timed' \in [Thread -> BOOLEAN] /\ expired' \in [Thread -> BOOLEAN]
    BY <1>1 DEF Call, AutoInv, AutoTypeOK
  <2> QED
    BY <1>1, <2>1, TakeStep, BlockStep DEF Call, AutoInv, AutoTypeOK
<1>2. ASSUME NEW t \in Thread, WaitAwake(t) PROVE AutoInv'
  <2>1. timed' \in [Thread -> BOOLEAN] /\ expired' \in [Thread -> BOOLEAN]
    BY <1>2 DEF WaitAwake, AutoInv, AutoTypeOK
  <2> QED
    BY <1>2, <2>1, TakeStep, BlockStep DEF WaitAwake, AutoInv, AutoTypeOK
<1>3. ASSUME NEW t \in Thread, TimedWaitAwake(t) PROVE AutoInv'
  <2>1. timed' \in [Thread -> BOOLEAN] /\ expired' \in [Thread -> BOOLEAN]
    BY <1>3 DEF TimedWaitAwake, AutoInv, AutoTypeOK
  <2>2. CASE Take(t)
    BY <2>1, <2>2, TakeStep DEF AutoInv, AutoTypeOK
  <2>3. CASE ~Take(t)
    <3>1. early' \in BOOLEAN
      BY <1>3, <2>3, Zenon DEF TimedWaitAwake
    <3> QED
      BY <1>3, <2>1, <2>3, <3>1 DEF TimedWaitAwake, AutoInv, AutoTypeOK, OneReleasePerSet, NoLostWakeup
  <2> QED
    BY <2>2, <2>3
<1>4. CASE Set
  <2>1. /\ pc' \in [Thread -> {"idle", "blocked", "awake"}]
        /\ Blocked' = {} \/ \E t \in Thread : pc'[t] = "awake"
    <3>1. CASE Blocked = {} /\ UNCHANGED pc
      BY <3>1 DEF Blocked, AutoInv, AutoTypeOK
    <3>2. ASSUME NEW t \in Blocked, pc' = [pc EXCEPT ![t] = "awake"]
          PROVE  <2>1!1 /\ <2>1!2
      BY <3>2, WakeStep, Zenon
    <3> QED
      BY <1>4, <3>1, <3>2 DEF Set
  <2>2. OneReleasePerSet'
    BY <1>4, InitAssumption DEF Set, AutoInv, AutoTypeOK, OneReleasePerSet
  <2> QED
    BY <1>4, <2>1, <2>2 DEF Set, AutoInv, AutoTypeOK, NoLostWakeup
<1>5. CASE Reset
  <2>1. m_signaled' \in BOOLEAN /\ NoLostWakeup'
    BY <1>5, Zenon DEF Reset, NoLostWakeup
  <2> QED
    BY <1>5, <2>1, InitAssumption DEF Reset, AutoInv, AutoTypeOK, OneReleasePerSet
<1>6. ASSUME NEW t \in Thread, SpuriousWakeup(t) PROVE AutoInv'
  <2>1. t \in Blocked
    BY <1>6 DEF SpuriousWakeup, Blocked
  <2> QED
    BY <1>6, <2>1, WakeStep DEF SpuriousWakeup, AutoInv, AutoTypeOK, OneReleasePerSet, NoLostWakeup
<1>7. ASSUME NEW t \in Thread, Timeout(t) PROVE AutoInv'
  <2>1. t \in Blocked /\ expired' \in [Thread -> BOOLEAN]
    BY <1>7 DEF Timeout, Blocked, AutoInv, AutoTypeOK
  <2> QED
    BY <1>7, <2>1, WakeStep DEF Timeout, AutoInv, AutoTypeOK, OneReleasePerSet, NoLostWakeup
<1>8. CASE UNCHANGED auto_vars
  BY <1>8 DEF auto_vars, AutoInv, AutoTypeOK, OneReleasePerSet, NoLostWakeup, Blocked
<1> QED
  BY <1>1, <1>2, <1>3, <1>4, <1>5, <1>6, <1>7, <1>8, Zenon DEF AutoNext, Wait, TimedWait

\* The invariant of every behaviour.
LEMMA AutoInvCorrect == AutoSpec => []AutoInv
BY AutoInvInit, AutoInvStep, PTL DEF AutoSpec

\* However Set, Reset, waits, timeouts and spurious wakeups interleave, each
\* call of Set ends at most one wait.
THEOREM OneReleasePerSetCorrect == AutoSpec => []OneReleasePerSet
BY AutoInvCorrect, PTL DEF AutoInv

\* Set never leaves a signaled event with all its waiting threads blocked.
THEOREM NoLostWakeupCorrect == AutoSpec => []NoLostWakeup
BY AutoInvCorrect, PTL DEF AutoInv

-----------------------------------------------------------------------------
(***************************************************************************)
(* What BlockingQueue promises its consumers.                              *)
(***************************************************************************)
\* FifoOnce says nothing of the type of the two sequences it joins; a step of
\* Push or Take only keeps it when both are sequences of numbers.
QueueInv ==
  /\ m_queue \in Seq(Nat)
  /\ popped \in Seq(Nat)
  /\ pushed \in Nat
  /\ FifoOnce

\* The sequence 1, ..., n followed by n + 1.
LEMMA CountOneMore ==
  ASSUME NEW n \in Nat
  PROVE  /\ [k \in 1 .. n |-> k] \in Seq(Nat)
         /\ Append([k \in 1 .. n |-> k], n + 1) = [k \in 1 .. n + 1 |-> k]
<1> DEFINE s == [k \in 1 .. n |-> k]
           t == [k \in 1 .. n + 1 |-> k]
<1>1. s \in Seq(Nat) /\ Len(s) = n
  BY SMT
<1>2. t \in Seq(Nat) /\ Len(t) = n + 1
  BY SMT
<1>3. /\ Append(s, n + 1) \in Seq(Nat)
      /\ Len(Append(s, n + 1)) = n + 1
      /\ \A j \in 1 .. n : Append(s, n + 1)[j] = s[j]
      /\ Append(s, n + 1)[n + 1] = n + 1
  BY <1>1, AppendProperties
<1>4. \A j \in 1 .. n + 1 : Append(s, n + 1)[j] = t[j]
  BY <1>3, SMT
<1>5. Append(s, n + 1) = t
  BY <1>2, <1>3, <1>4, SeqEqual
<1> QED
  BY <1>1, <1>5

\* Push: an element added at the end of the second part is at the end of the whole.
LEMMA AppendRight ==
  ASSUME NEW S, NEW s \in Seq(S), NEW t \in Seq(S), NEW e \in S
  PROVE  s \o Append(t, e) = Append(s \o t, e)
<1>1. <<e>> \in Seq(S) /\ s \o t \in Seq(S)
  BY ConcatProperties
<1>2. Append(t, e) = t \o <<e>> /\ Append(s \o t, e) = (s \o t) \o <<e>>
  BY <1>1, AppendIsConcat
<1> QED
  BY <1>1, <1>2, ConcatAssociative

\* Pop: moving the first element of the second part to the first leaves the whole.
LEMMA MoveHead ==
  ASSUME NEW S, NEW s \in Seq(S), NEW t \in Seq(S), t # << >>
  PROVE  /\ Append(s, Head(t)) \in Seq(S)
         /\ Tail(t) \in Seq(S)
         /\ Append(s, Head(t)) \o Tail(t) = s \o t
<1>1. /\ Head(t) \in S /\ Tail(t) \in Seq(S) /\ <<Head(t)>> \in Seq(S)
      /\ t = <<Head(t)>> \o Tail(t)
  <2>1. Head(t) \in S /\ Tail(t) \in Seq(S) /\ Len(Tail(t)) = Len(t) - 1
        /\ \A j \in 1 .. Len(Tail(t)) : Tail(t)[j] = t[j + 1]
    BY HeadTailProperties
  <2>2. <<Head(t)>> \in Seq(S) /\ Len(<<Head(t)>>) = 1 /\ <<Head(t)>>[1] = Head(t)
    BY <2>1
  <2>3. Head(t) = t[1] /\ Len(t) \in Nat \ {0}
    BY EmptySeq, SMT
  <2> DEFINE u == <<Head(t)>> \o Tail(t)
  <2>4. /\ u \in Seq(S)
        /\ Len(u) = Len(t)
        /\ \A j \in 1 .. Len(t) : u[j] = IF j <= 1 THEN <<Head(t)>>[j] ELSE Tail(t)[j - 1]
    BY <2>1, <2>2, <2>3, ConcatProperties
  <2>5. \A j \in 1 .. Len(t) : u[j] = t[j]
    BY <2>1, <2>2, <2>3, <2>4, SMT
  <2> QED
    BY <2>1, <2>2, <2>4, <2>5, SeqEqual
<1>2. Append(s, Head(t)) \in Seq(S) /\ Append(s, Head(t)) = s \o <<Head(t)>>
  BY <1>1, AppendProperties, AppendIsConcat
<1>3. (s \o <<Head(t)>>) \o Tail(t) = s \o (<<Head(t)>> \o Tail(t))
  BY <1>1, ConcatAssociative
<1> QED
  BY <1>1, <1>2, <1>3

\* Whichever Pop it is part of, taking an element keeps the invariant.
LEMMA TakeKeepsQueue ==
  ASSUME QueueInv, NEW c \in Consumer, QueueTake(c)
  PROVE  QueueInv'
<1>1. m_queue' = Tail(m_queue) /\ popped' = Append(popped, Head(m_queue)) /\ pushed' = pushed
  BY DEF QueueTake
<1>2. /\ Append(popped, Head(m_queue)) \in Seq(Nat)
      /\ Tail(m_queue) \in Seq(Nat)
      /\ Append(popped, Head(m_queue)) \o Tail(m_queue) = popped \o m_queue
  BY MoveHead, Zenon DEF QueueInv, QueueTake
<1> QED
  BY <1>1, <1>2 DEF QueueInv, FifoOnce

\* BlockingQueue: every element that was pushed is popped once, in the order of
\* the pushes, whichever producers and consumers take part, with and without
\* timeouts and spurious wakeups.
THEOREM FifoOnceCorrect == QueueSpec => []FifoOnce
<1>1. QueueInit => QueueInv
  <2> SUFFICES ASSUME QueueInit PROVE QueueInv
    OBVIOUS
  <2>1. m_queue = << >> /\ popped = << >> /\ pushed = 0
    BY DEF QueueInit
  <2>2. << >> \in Seq(Nat) /\ << >> \o << >> = << >>
    BY EmptySeq, ConcatEmptySeq
  <2>3. [k \in 1 .. 0 |-> k] = << >>
    BY SMT
  <2> QED
    BY <2>1, <2>2, <2>3 DEF QueueInv, FifoOnce
<1>2. QueueInv /\ [QueueNext]_queue_vars => QueueInv'
  <2> SUFFICES ASSUME QueueInv, [QueueNext]_queue_vars PROVE QueueInv'
    OBVIOUS
  <2>1. ASSUME NEW p \in Producer, Push(p) PROVE QueueInv'
    <3>1. m_queue' = Append(m_queue, pushed + 1) /\ pushed' = pushed + 1 /\ popped' = popped
      BY <2>1 DEF Push
    <3>2. pushed + 1 \in Nat /\ Append(m_queue, pushed + 1) \in Seq(Nat)
      BY AppendProperties DEF QueueInv
    <3>3. popped \o Append(m_queue, pushed + 1) = Append(popped \o m_queue, pushed + 1)
      BY <3>2, AppendRight DEF QueueInv
    <3>4. Append([k \in 1 .. pushed |-> k], pushed + 1) = [k \in 1 .. pushed + 1 |-> k]
      BY CountOneMore DEF QueueInv
    <3> QED
      BY <3>1, <3>2, <3>3, <3>4, Zenon DEF QueueInv, FifoOnce
  <2>2. ASSUME UNCHANGED <<m_queue, pushed, popped>> PROVE QueueInv'
    BY <2>2 DEF QueueInv, FifoOnce
  <2>3. ASSUME NEW p \in Producer, PushBroadcasts(p) PROVE QueueInv'
    BY <2>2, <2>3 DEF PushBroadcasts
  <2>4. ASSUME NEW c \in Consumer, NEW with_timeout \in BOOLEAN, Pop(c, with_timeout) PROVE QueueInv'
    BY <2>2, <2>4, TakeKeepsQueue DEF Pop, QueueBlock
  <2>5. ASSUME NEW c \in Consumer, PopAwake(c) PROVE QueueInv'
    BY <2>2, <2>5, TakeKeepsQueue DEF PopAwake, QueueBlock
  <2>6. ASSUME NEW c \in Consumer, TimedPopAwake(c) PROVE QueueInv'
    BY <2>2, <2>6, TakeKeepsQueue DEF TimedPopAwake
  <2>7. ASSUME NEW c \in Consumer, QueueWakeup(c) PROVE QueueInv'
    BY <2>2, <2>7 DEF QueueWakeup
  <2>8. CASE UNCHANGED queue_vars
    BY <2>2, <2>8 DEF queue_vars
  <2> QED
    BY <2>1, <2>3, <2>4, <2>5, <2>6, <2>7, <2>8 DEF QueueNext
<1>3. QueueInv => FifoOnce
  BY DEF QueueInv
<1> QED
  BY <1>1, <1>2, <1>3, PTL DEF QueueSpec
-----------------------------------------------------------------------------
(***************************************************************************)
(* One Thread object.                                                      *)
(***************************************************************************)
Controls ==
  /\ owner \in [Object -> {"none", "idle", "stopping", "detach", "detach id", "destroy", "gone"}]
  /\ m_pimpl \in [Object -> BOOLEAN]
  /\ impl \in [Object -> {"none", "live", "base", "deleted"}]
  /\ m_handle \in [Object -> BOOLEAN]
  /\ sys \in [Object -> {"none", "created", "alive", "entry", "running", "returned", "cleanup", "ended"}]

Counts == starts \in [Object -> Nat] /\ runs \in [Object -> Nat] /\ deletes \in [Object -> Nat]

Marks ==
  broken \in [Object -> SUBSET {"join of no thread", "write after delete", "function destroyed",
                                   "pure virtual call"}]

Types == Controls /\ Counts /\ Marks

\* The function of the last start is still to be run.
ToRun(o) == sys[o] \in {"created", "alive", "entry", "running"}

\* While the owner has the Impl it is there, and a thread that is not joinable
\* does not exist: it is OnExit that deletes the Impl, but only behind Detach.
ImplInv(o) ==
  /\ owner[o] = "none" => impl[o] = "none" /\ ~m_handle[o] /\ sys[o] = "none"
  /\ owner[o] \in {"stopping", "detach"} => m_pimpl[o] /\ m_handle[o]
  /\ owner[o] \in {"idle", "stopping", "detach"} /\ m_pimpl[o] =>
       impl[o] = "live" /\ (~m_handle[o] => sys[o] = "none")
  /\ owner[o] = "destroy" => impl[o] = "base"
  /\ deletes[o] = IF impl[o] = "deleted" THEN 1 ELSE 0

\* Every start has been run but for the one that is under way.
RunInv(o) == broken[o] = {} => starts[o] = runs[o] + (IF ToRun(o) THEN 1 ELSE 0)

ThreadInv == Types /\ \A o \in Object : ImplInv(o) /\ RunInv(o)

\* No object exists at the start.
LEMMA ThreadInit == Init => ThreadInv
  BY DEF Init, ThreadInv, Types, Controls, Counts, Marks, ImplInv, RunInv, ToRun

\* A step of an object or of its thread leaves the other objects alone.
OthersKept(o) ==
  \A q \in Object \ {o} :
    /\ owner'[q] = owner[q] /\ m_pimpl'[q] = m_pimpl[q] /\ impl'[q] = impl[q]
    /\ m_handle'[q] = m_handle[q] /\ sys'[q] = sys[q]
    /\ starts'[q] = starts[q] /\ runs'[q] = runs[q] /\ deletes'[q] = deletes[q]
    /\ broken'[q] = broken[q]

\* A step that touches no object.
LEMMA NoObject == ASSUME ThreadInv, UNCHANGED vars PROVE ThreadInv'
<1>1. Types'
  BY Zenon DEF ThreadInv, Types, Controls, Counts, Marks, vars, members, history
<1>2. ASSUME NEW o \in Object PROVE ImplInv(o)' /\ RunInv(o)'
  BY DEF ThreadInv, ImplInv, RunInv, ToRun, vars, members, history
<1> QED
  BY <1>1, <1>2 DEF ThreadInv

\* So what has to be shown is what becomes of the object itself.
LEMMA OneObject ==
  ASSUME ThreadInv, NEW o \in Object, Types', OthersKept(o), ImplInv(o)', RunInv(o)'
  PROVE  ThreadInv'
<1>1. ASSUME NEW q \in Object \ {o} PROVE ImplInv(q)' /\ RunInv(q)'
  BY DEF ThreadInv, OthersKept, ImplInv, RunInv, ToRun
<1> QED
  BY <1>1 DEF ThreadInv

\* A step keeps the types and leaves the other objects alone.
LEMMA StepKeeps ==
  ASSUME Types, NEW o \in Object, Step(o)
  PROVE  Types' /\ OthersKept(o)
<1> USE DEF Types, members, history, Goes, Breaks, Joined
<1>1. CASE Construct(o)
  BY <1>1, Zenon DEF Controls, Counts, Marks, OthersKept, Construct
<1>2. CASE Start(o)
  <2>1. Controls'
    BY <1>2, Zenon DEF Controls, Start
  <2>2. Counts'
    BY <1>2 DEF Counts, Start
  <2>3. Marks'
    BY <1>2, Zenon DEF Marks, Start
  <2>4. OthersKept(o)
    BY <1>2, Zenon DEF Controls, Counts, Marks, OthersKept, Start
  <2> QED
    BY <2>1, <2>2, <2>3, <2>4
<1>3. CASE TryStartFails(o)
  <2>1. Controls'
    BY <1>3, Zenon DEF Controls, TryStartFails
  <2>2. Counts'
    BY <1>3 DEF Counts, TryStartFails
  <2>3. Marks'
    BY <1>3, Zenon DEF Marks, TryStartFails
  <2>4. OthersKept(o)
    BY <1>3, Zenon DEF Controls, Counts, Marks, OthersKept, TryStartFails
  <2> QED
    BY <2>1, <2>2, <2>3, <2>4
<1>4. CASE SendStopRequest(o)
  BY <1>4, Zenon DEF Controls, Counts, Marks, OthersKept, SendStopRequest
<1>5. CASE Stop(o)
  BY <1>5, Zenon DEF Controls, Counts, Marks, OthersKept, Stop
<1>6. CASE Detach(o)
  BY <1>6, Zenon DEF Controls, Counts, Marks, OthersKept, Detach
<1>7. CASE DetachHandle(o)
  BY <1>7, Zenon DEF Controls, Counts, Marks, OthersKept, DetachHandle
<1>8. CASE DetachId(o)
  BY <1>8, Zenon DEF Controls, Counts, Marks, OthersKept, DetachId
<1>9. CASE Join(o)
  BY <1>9, Zenon DEF Controls, Counts, Marks, OthersKept, Join
<1>10. CASE WaitForExit(o)
  BY <1>10, Zenon DEF Controls, Counts, Marks, OthersKept, WaitForExit
<1>11. CASE Destroy(o)
  <2>1. Controls'
    BY <1>11, Zenon DEF Controls, Destroy
  <2>2. Counts'
    BY <1>11, Zenon DEF Counts, Destroy
  <2>3. Marks'
    BY <1>11, Zenon DEF Marks, Destroy
  <2>4. OthersKept(o)
    BY <1>11, Zenon DEF Controls, Counts, Marks, OthersKept, Destroy
  <2> QED
    BY <2>1, <2>2, <2>3, <2>4
<1>12. CASE DestroyBase(o)
  <2>1. Controls'
    BY <1>12, Zenon DEF Controls, DestroyBase
  <2>2. Counts'
    <3>1. starts' = starts /\ runs' = runs /\ deletes' = [deletes EXCEPT ![o] = @ + 1]
      BY <1>12, Zenon DEF DestroyBase
    <3> QED
      BY <3>1 DEF Counts
  <2>3. Marks'
    BY <1>12, Zenon DEF Marks, DestroyBase
  <2>4. OthersKept(o)
    <3>1. CASE m_handle[o]
      BY <1>12, <3>1, Zenon DEF Controls, Counts, Marks, OthersKept, DestroyBase
    <3>2. CASE ~m_handle[o]
      BY <1>12, <3>2, Zenon DEF Controls, Counts, Marks, OthersKept, DestroyBase
    <3> QED
      BY <3>1, <3>2
  <2> QED
    BY <2>1, <2>2, <2>3, <2>4
<1>13. CASE SetAlive(o)
  BY <1>13, Zenon DEF Controls, Counts, Marks, OthersKept, SetAlive
<1>14. CASE SetId(o)
  BY <1>14, Zenon DEF Controls, Counts, Marks, OthersKept, SetId
<1>15. CASE CallEntry(o)
  BY <1>15, Zenon DEF Controls, Counts, Marks, OthersKept, CallEntry
<1>16. CASE ClearAlive(o)
  BY <1>16, Zenon DEF Controls, Counts, Marks, OthersKept, ClearAlive
<1>17. CASE OnExit(o)
  <2>1. Controls'
    BY <1>17, Zenon DEF Controls, OnExit
  <2>2. Counts'
    BY <1>17 DEF Counts, OnExit
  <2>3. Marks'
    BY <1>17, Zenon DEF Marks, OnExit
  <2>4. OthersKept(o)
    BY <1>17, Zenon DEF Controls, Counts, Marks, OthersKept, OnExit
  <2> QED
    BY <2>1, <2>2, <2>3, <2>4
<1>18. CASE EntryReturns(o)
  <2>1. Controls'
    BY <1>18, Zenon DEF Controls, EntryReturns
  <2>2. Counts'
    BY <1>18 DEF Counts, EntryReturns
  <2>3. Marks'
    BY <1>18, Zenon DEF Marks, EntryReturns
  <2>4. OthersKept(o)
    BY <1>18, Zenon DEF Controls, Counts, Marks, OthersKept, EntryReturns
  <2> QED
    BY <2>1, <2>2, <2>3, <2>4
<1>19. CASE EntryExits(o)
  <2>1. Controls'
    BY <1>19, Zenon DEF Controls, EntryExits
  <2>2. Counts'
    BY <1>19 DEF Counts, EntryExits
  <2>3. Marks'
    BY <1>19, Zenon DEF Marks, EntryExits
  <2>4. OthersKept(o)
    BY <1>19, Zenon DEF Controls, Counts, Marks, OthersKept, EntryExits
  <2> QED
    BY <2>1, <2>2, <2>3, <2>4
<1> QED
  BY <1>1, <1>2, <1>3, <1>4, <1>5, <1>6, <1>7, <1>8, <1>9, <1>10, <1>11, <1>12, <1>13, <1>14,
     <1>15, <1>16, <1>17, <1>18, <1>19 DEF Step, OwnerCalls, OwnerGoesOn, StaticEntry, EntryEnds

\* And it keeps the invariant of the object that takes it.
LEMMA StepInv ==
  ASSUME Types, NEW o \in Object, ImplInv(o), RunInv(o), Step(o)
  PROVE  ImplInv(o)' /\ RunInv(o)'
<1> USE DEF Types, members, history, Goes, Idle, Breaks, Joined
<1>1. CASE Construct(o)
  BY <1>1, Zenon DEF Controls, Counts, Marks, ImplInv, RunInv, ToRun, Construct
<1>2. CASE Start(o)
  <2>1. ImplInv(o)'
    BY <1>2, Zenon DEF Controls, Counts, ImplInv, Start
  <2>2. RunInv(o)'
    <3>1. /\ starts'[o] = starts[o] + 1 /\ runs'[o] = runs[o] /\ broken'[o] = broken[o]
          /\ ~ToRun(o) /\ ToRun(o)'
      BY <1>2, Zenon DEF Controls, Counts, ImplInv, ToRun, Start
    <3> QED
      BY <3>1 DEF Counts, RunInv
  <2> QED
    BY <2>1, <2>2
<1>3. CASE TryStartFails(o)
  BY <1>3, Zenon DEF Controls, Counts, Marks, ImplInv, RunInv, ToRun, TryStartFails
<1>4. CASE SendStopRequest(o)
  BY <1>4, Zenon DEF Controls, Counts, Marks, ImplInv, RunInv, ToRun, SendStopRequest
<1>5. CASE Stop(o)
  BY <1>5, Zenon DEF Controls, Counts, Marks, ImplInv, RunInv, ToRun, Stop
<1>6. CASE Detach(o)
  BY <1>6, Zenon DEF Controls, Counts, Marks, ImplInv, RunInv, ToRun, Detach
<1>7. CASE DetachHandle(o)
  BY <1>7, Zenon DEF Controls, Counts, Marks, ImplInv, RunInv, ToRun, DetachHandle
<1>8. CASE DetachId(o)
  BY <1>8, Zenon DEF Controls, Counts, Marks, ImplInv, RunInv, ToRun, DetachId
<1>9. CASE Join(o)
  BY <1>9, Zenon DEF Controls, Counts, Marks, ImplInv, RunInv, ToRun, Join
<1>10. CASE WaitForExit(o)
  BY <1>10, Zenon DEF Controls, Counts, Marks, ImplInv, RunInv, ToRun, WaitForExit
<1>11. CASE Destroy(o)
  <2>1. ImplInv(o)'
    BY <1>11, Zenon DEF Controls, Counts, ImplInv, Destroy
  <2>2. RunInv(o)'
    <3>1. starts' = starts /\ runs' = runs
      BY <1>11, Zenon DEF Destroy
    <3>2. broken[o] \subseteq broken'[o]
      BY <1>11, Zenon DEF Marks, Destroy
    <3>3. ToRun(o)' <=> ToRun(o)
      BY <1>11, Zenon DEF Controls, ToRun, Destroy
    <3> QED
      BY <3>1, <3>2, <3>3 DEF RunInv
  <2> QED
    BY <2>1, <2>2
<1>12. CASE DestroyBase(o)
  <2>1. ImplInv(o)'
    <3>1. owner'[o] = "gone" /\ impl'[o] = "deleted" /\ impl[o] = "base"
      BY <1>12, Zenon DEF Controls, ImplInv, DestroyBase
    <3>2. deletes'[o] = deletes[o] + 1 /\ deletes[o] = 0
      BY <1>12, <3>1, Zenon DEF Counts, ImplInv, DestroyBase
    <3> QED
      BY <3>1, <3>2 DEF ImplInv
  <2>2. RunInv(o)'
    <3>1. starts' = starts /\ runs' = runs
      BY <1>12, Zenon DEF DestroyBase
    <3>2. broken[o] \subseteq broken'[o]
      BY <1>12, Zenon DEF Marks, DestroyBase
    <3>3. ToRun(o)' <=> ToRun(o)
      BY <1>12, Zenon DEF Controls, ToRun, DestroyBase
    <3> QED
      BY <3>1, <3>2, <3>3 DEF RunInv
  <2> QED
    BY <2>1, <2>2
<1>13. CASE SetAlive(o)
  BY <1>13, Zenon DEF Controls, Counts, Marks, ImplInv, RunInv, ToRun, SetAlive
<1>14. CASE SetId(o)
  BY <1>14, Zenon DEF Controls, Counts, Marks, ImplInv, RunInv, ToRun, SetId
<1>15. CASE CallEntry(o)
  BY <1>15, Zenon DEF Controls, Counts, Marks, ImplInv, RunInv, ToRun, CallEntry
<1>16. CASE ClearAlive(o)
  BY <1>16, Zenon DEF Controls, Counts, Marks, ImplInv, RunInv, ToRun, ClearAlive
<1>17. CASE OnExit(o)
  <2>1. ImplInv(o)'
    <3>1. CASE m_handle[o] \/ impl[o] # "live"
      BY <1>17, <3>1, Zenon DEF Controls, Counts, ImplInv, OnExit
    <3>2. CASE ~(m_handle[o] \/ impl[o] # "live")
      <4>1. owner'[o] = owner[o] /\ m_pimpl'[o] = m_pimpl[o] /\ impl'[o] = "deleted"
        BY <1>17, <3>2, Zenon DEF Controls, OnExit
      <4>2. deletes'[o] = deletes[o] + 1 /\ deletes[o] = 0
        BY <1>17, <3>2 DEF Counts, ImplInv, OnExit
      <4>3. owner[o] \notin {"none", "stopping", "detach", "destroy"} /\ ~Idle(o)
        BY <1>17, <3>2, Zenon DEF Controls, ImplInv, OnExit
      <4>4. /\ owner'[o] \notin {"none", "stopping", "detach", "destroy"}
            /\ ~(owner'[o] = "idle" /\ m_pimpl'[o])
            /\ deletes'[o] = 1
        BY <4>1, <4>2, <4>3
      <4> QED
        BY <4>1, <4>4, Zenon DEF ImplInv
    <3> QED
      BY <3>1, <3>2
  <2>2. RunInv(o)'
    BY <1>17, Zenon DEF Controls, Counts, Marks, ImplInv, RunInv, ToRun, OnExit
  <2> QED
    BY <2>1, <2>2
<1>18. CASE EntryReturns(o)
  <2>1. ImplInv(o)'
    BY <1>18, Zenon DEF Controls, Counts, ImplInv, EntryReturns
  <2>2. RunInv(o)'
    <3>1. /\ starts'[o] = starts[o] /\ runs'[o] = runs[o] + 1 /\ broken'[o] = broken[o]
          /\ ToRun(o) /\ ~ToRun(o)'
      BY <1>18, Zenon DEF Controls, Counts, ToRun, EntryReturns
    <3> QED
      BY <3>1 DEF Counts, RunInv
  <2> QED
    BY <2>1, <2>2
<1>19. CASE EntryExits(o)
  <2>1. ImplInv(o)'
    BY <1>19, Zenon DEF Controls, Counts, ImplInv, EntryExits
  <2>2. RunInv(o)'
    <3>1. /\ starts'[o] = starts[o] /\ runs'[o] = runs[o] + 1 /\ broken'[o] = broken[o]
          /\ ToRun(o) /\ ~ToRun(o)'
      BY <1>19, Zenon DEF Controls, Counts, ToRun, EntryExits
    <3> QED
      BY <3>1 DEF Counts, RunInv
  <2> QED
    BY <2>1, <2>2
<1> QED
  BY <1>1, <1>2, <1>3, <1>4, <1>5, <1>6, <1>7, <1>8, <1>9, <1>10, <1>11, <1>12, <1>13, <1>14,
     <1>15, <1>16, <1>17, <1>18, <1>19 DEF Step, OwnerCalls, OwnerGoesOn, StaticEntry, EntryEnds

\* Every step of an object and of its thread.
LEMMA ThreadStepInv == ASSUME ThreadInv, NEW o \in Object, Step(o) PROVE ThreadInv'
  BY StepKeeps, StepInv, OneObject DEF ThreadInv

\* What the invariant says of the properties.
LEMMA ThreadInvSafe == ThreadInv => JoinCompletes /\ NoDoubleDelete
<1>1. ASSUME ThreadInv, NEW o \in Object PROVE deletes[o] <= 1
  BY <1>1 DEF ThreadInv, ImplInv
<1>2. ASSUME ThreadInv, NEW o \in Object, broken[o] = {}, Joinless(o) PROVE runs[o] = starts[o]
  <2>1. ~ToRun(o) /\ RunInv(o) /\ Counts
    BY <1>2 DEF ThreadInv, Types, ImplInv, ToRun, Joinless, Idle
  <2> QED
    BY <1>2, <2>1 DEF RunInv, Counts
<1> QED
  BY <1>1, <1>2 DEF JoinCompletes, NoDoubleDelete

\* Thread: when an object can be started again its functions have been run to their
\* ends, and the Impl is deleted once at most, by its owner or by OnExit.
THEOREM ThreadCorrect == Spec => [](JoinCompletes /\ NoDoubleDelete)
<1>1. ThreadInv /\ [Next]_vars => ThreadInv'
  BY NoObject, ThreadStepInv DEF Next
<1> QED
  BY <1>1, ThreadInit, ThreadInvSafe, PTL DEF Spec

-----------------------------------------------------------------------------
(***************************************************************************)
(* The group and the threads it owns.                                      *)
(***************************************************************************)
GroupTypes ==
  /\ m_threads \in 0 .. GroupSize
  /\ group \in {"idle", "join", "destroy", "gone"}
  /\ i \in 1 .. m_threads + 1

\* A place of the vector that is not used yet.
Unused(o) == owner[o] = "none" /\ starts[o] = 0 /\ runs[o] = 0

\* A thread of the group has been started once and can be joined as long as it
\* exists, and the Impl is deleted behind the join.
Used(o) ==
  /\ starts[o] = 1
  /\ owner[o] \in {"idle", "destroy", "gone"}
  /\ m_handle[o] => owner[o] = "idle" /\ sys[o] # "none"
  /\ ~m_handle[o] => sys[o] = "none"
  /\ owner[o] = "idle" => m_pimpl[o]
  /\ owner[o] = "gone" => impl[o] = "deleted"

Unbroken == \A o \in Member : broken[o] = {}

MembersInv ==
  /\ \A o \in m_threads + 1 .. GroupSize : Unused(o)
  /\ \A o \in 1 .. m_threads : Used(o)

\* How far the loops of Join and of the destructor are.
LoopInv ==
  /\ group \in {"idle", "join"} => /\ \A o \in 1 .. m_threads : owner[o] = "idle"
                                   /\ \A o \in 1 .. i - 1 : ~m_handle[o]
  /\ group = "join" => \A o \in i .. m_threads : m_handle[o]
  /\ group \in {"destroy", "gone"} => \A o \in 1 .. i - 1 : owner[o] = "gone"
  /\ group = "destroy" => \A o \in i + 1 .. m_threads : owner[o] = "idle"
  /\ group = "destroy" /\ i <= m_threads => owner[i] \in {"idle", "destroy"}
  /\ group = "gone" => i = m_threads + 1

GroupInv == GroupTypes /\ Unbroken /\ MembersInv /\ LoopInv

\* The group is empty at the start.
LEMMA GroupInitInv == ASSUME GroupSize \in Nat, Member \subseteq Object PROVE GroupInit => GroupInv
<1>1. GroupInit => GroupTypes /\ Unbroken /\ LoopInv
  BY DEF GroupInit, Init, Member, GroupTypes, Unbroken, LoopInv
<1>2. GroupInit => MembersInv
  BY DEF GroupInit, Init, Member, MembersInv, Unused
<1> QED
  BY <1>1, <1>2 DEF GroupInv

\* A step of one thread of the group concerns that thread only.
LEMMA OneMember ==
  ASSUME GroupSize \in Nat, Member \subseteq Object, GroupInv, NEW o \in Member, OthersKept(o),
         o <= m_threads, m_threads' = m_threads, Used(o)', broken'[o] = {}
  PROVE  Unbroken' /\ MembersInv'
<1>1. Unbroken'
  BY DEF GroupInv, Unbroken, OthersKept
<1>2. ASSUME NEW q \in m_threads' + 1 .. GroupSize PROVE Unused(q)'
  <2>1. q \in Object \ {o} /\ Unused(q)
    BY <1>2 DEF GroupInv, GroupTypes, MembersInv, Member
  <2> QED
    BY <2>1 DEF Unused, OthersKept
<1>3. ASSUME NEW q \in 1 .. m_threads' PROVE Used(q)'
  <2>1. q \in Object /\ Used(q)
    BY <1>3 DEF GroupInv, GroupTypes, MembersInv, Member
  <2> QED
    BY <2>1 DEF Used, OthersKept
<1> QED
  BY <1>1, <1>2, <1>3 DEF MembersInv

\* A step of a system thread of the group.
LEMMA MemberRuns ==
  ASSUME GroupSize \in Nat, Member \subseteq Object, ThreadInv, GroupInv, NEW o \in Member,
         ThreadStep(o)
  PROVE  GroupInv'
<1>1. o \in Object /\ Step(o) /\ UNCHANGED group_vars
  BY DEF ThreadStep, Step
<1>2. OthersKept(o)
  BY <1>1, StepKeeps DEF ThreadInv
<1>3. UNCHANGED <<owner, m_pimpl, m_handle, starts>> /\ sys[o] # "none" /\ sys'[o] # "none"
  BY <1>1, Zenon DEF ThreadInv, Types, Controls, ThreadStep, StaticEntry, EntryEnds, SetAlive, SetId,
              CallEntry, ClearAlive, OnExit, EntryReturns, EntryExits, Goes, members, history
<1>4. o <= m_threads
  <2>1. ~Unused(o)
    BY <1>1, <1>3, Zenon DEF ThreadInv, ImplInv, Unused
  <2> QED
    BY <2>1 DEF GroupInv, GroupTypes, MembersInv, Member
<1>5. Used(o) /\ m_handle[o] /\ owner[o] = "idle" /\ impl[o] = "live"
  <2>1. Used(o)
    BY <1>4 DEF GroupInv, GroupTypes, MembersInv, Member
  <2> QED
    BY <1>1, <1>3, <2>1 DEF ThreadInv, ImplInv, Used
<1>6. broken' = broken /\ impl' = impl
  BY <1>5 DEF ThreadStep, StaticEntry, EntryEnds, SetAlive, SetId,
              CallEntry, ClearAlive, OnExit, EntryReturns, EntryExits, Breaks, history
<1>7. Used(o)' /\ broken'[o] = {}
  BY <1>3, <1>5, <1>6, Zenon DEF Used, GroupInv, Unbroken
<1>8. GroupTypes' /\ LoopInv'
  BY <1>1, <1>3 DEF GroupInv, GroupTypes, LoopInv, group_vars
<1> QED
  BY <1>1, <1>2, <1>4, <1>7, <1>8, OneMember DEF GroupInv, group_vars

\* The loop of Join.
LEMMA JoinLoop ==
  ASSUME GroupSize \in Nat, Member \subseteq Object, ThreadInv, GroupInv, JoinNext
  PROVE  GroupInv'
<1>1. CASE i > m_threads
  <2>1. group' = "idle" /\ UNCHANGED <<vars, m_threads, i>> /\ group = "join"
    BY <1>1 DEF JoinNext, GroupInv, GroupTypes
  <2>2. GroupTypes' /\ LoopInv'
    BY <2>1 DEF GroupInv, GroupTypes, LoopInv, vars, members
  <2>3. Unbroken' /\ MembersInv'
    BY <2>1 DEF GroupInv, Unbroken, MembersInv, Used, Unused, vars, members, history
  <2> QED
    BY <2>2, <2>3 DEF GroupInv
<1>2. ASSUME NEW k \in Member, k = i, k <= m_threads PROVE GroupInv'
  <2>1. Join(k) /\ i' = k + 1 /\ UNCHANGED <<m_threads, group>> /\ group = "join"
    BY <1>2 DEF JoinNext
  <2>2. k \in Object /\ k \in 1 .. m_threads /\ m_threads \in Nat
    BY <1>2 DEF GroupInv, GroupTypes, Member
  <2>3. OthersKept(k)
    BY <2>1, <2>2, StepKeeps DEF Step, OwnerCalls, ThreadInv
  <2>4. Used(k) /\ m_handle[k] /\ owner[k] = "idle" /\ broken[k] = {}
    BY <2>1, <2>2, Zenon DEF GroupInv, MembersInv, Unbroken, Join, Idle, Joined
  <2>5. /\ UNCHANGED <<owner, m_pimpl, impl, starts, broken>> /\ sys'[k] = "none"
        /\ m_handle' = [m_handle EXCEPT ![k] = FALSE] /\ ~m_handle'[k]
    BY <2>1, <2>2, <2>4, Zenon DEF Join, Joined, Breaks, Used, ThreadInv, Types, Controls
  <2>6. Used(k)' /\ broken'[k] = {}
    BY <2>4, <2>5, Zenon DEF Used
  <2>7. GroupTypes'
    BY <1>2, <2>1 DEF GroupInv, GroupTypes
  <2>8. LoopInv'
    <3>1. \A o \in 1 .. m_threads : owner[o] = "idle"
      BY <2>1 DEF GroupInv, LoopInv
    <3>2. ASSUME NEW o \in 1 .. k PROVE ~m_handle'[o]
      <4>1. o # k => ~m_handle[o] /\ o \in Object
        BY <1>2, <2>1, <2>2 DEF GroupInv, LoopInv, Member
      <4> QED
        BY <2>5, <4>1, Zenon DEF ThreadInv, Types, Controls
    <3>3. ASSUME NEW o \in k + 1 .. m_threads PROVE m_handle'[o]
      <4>1. o # k /\ m_handle[o] /\ o \in Object
        BY <1>2, <2>1, <2>2 DEF GroupInv, GroupTypes, LoopInv, Member
      <4> QED
        BY <2>5, <4>1, Zenon DEF ThreadInv, Types, Controls
    <3> QED
      BY <2>1, <2>2, <2>5, <3>1, <3>2, <3>3 DEF LoopInv
  <2>9. Unbroken' /\ MembersInv'
    BY <1>2, <2>1, <2>3, <2>6, OneMember
  <2> QED
    BY <2>7, <2>8, <2>9 DEF GroupInv
<1>3. i > m_threads \/ (i \in Member /\ i <= m_threads)
  BY DEF GroupInv, GroupTypes, Member
<1> QED
  BY <1>1, <1>2, <1>3

\* The loop of the destructor.
LEMMA DestroyLoop ==
  ASSUME GroupSize \in Nat, Member \subseteq Object, ThreadInv, GroupInv, DestroyNext
  PROVE  GroupInv'
<1>1. CASE i > m_threads
  <2>1. group' = "gone" /\ UNCHANGED <<vars, m_threads, i>> /\ group = "destroy" /\ i = m_threads + 1
    BY <1>1 DEF DestroyNext, GroupInv, GroupTypes
  <2>2. GroupTypes' /\ LoopInv'
    BY <2>1 DEF GroupInv, GroupTypes, LoopInv, vars, members
  <2>3. Unbroken' /\ MembersInv'
    BY <2>1 DEF GroupInv, Unbroken, MembersInv, Used, Unused, vars, members, history
  <2> QED
    BY <2>2, <2>3 DEF GroupInv
<1>2. ASSUME NEW k \in Member, k = i, k <= m_threads PROVE GroupInv'
  <2>1. /\ k \in Object /\ k \in 1 .. m_threads /\ m_threads \in Nat /\ group = "destroy"
        /\ UNCHANGED <<m_threads, group>>
    BY <1>2 DEF DestroyNext, GroupInv, GroupTypes, Member, group_vars
  <2>2. Used(k) /\ broken[k] = {}
    BY <2>1 DEF GroupInv, MembersInv, Unbroken
  <2>3. \A o \in 1 .. k - 1 : o \in Object /\ owner[o] = "gone"
    BY <1>2, <2>1 DEF GroupInv, LoopInv, Member
  <2>4. \A o \in k + 1 .. m_threads : o \in Object /\ owner[o] = "idle"
    BY <1>2, <2>1 DEF GroupInv, GroupTypes, LoopInv, Member
  <2>5. CASE m_handle[k] /\ Join(k) /\ UNCHANGED group_vars
    <3>1. OthersKept(k)
      BY <2>1, <2>5, StepKeeps DEF Step, OwnerCalls, ThreadInv
    <3>2. /\ UNCHANGED <<owner, m_pimpl, impl, starts, broken>> /\ sys'[k] = "none" /\ ~m_handle'[k]
      BY <2>1, <2>2, <2>5, Zenon DEF Join, Joined, Breaks, Used, ThreadInv, Types, Controls
    <3>3. Used(k)' /\ broken'[k] = {}
      BY <2>2, <2>5, <3>2, Zenon DEF Used
    <3>4. GroupTypes' /\ LoopInv'
      BY <2>1, <2>5, <3>2 DEF GroupInv, GroupTypes, LoopInv, group_vars
    <3>5. Unbroken' /\ MembersInv'
      BY <1>2, <2>1, <3>1, <3>3, OneMember
    <3> QED
      BY <3>4, <3>5 DEF GroupInv
  <2>6. CASE ~m_handle[k] /\ Destroy(k) /\ UNCHANGED group_vars
    <3>1. OthersKept(k)
      BY <2>1, <2>6, StepKeeps DEF Step, OwnerCalls, ThreadInv
    <3>2. /\ UNCHANGED <<m_pimpl, m_handle, sys, starts, broken>>
          /\ owner' = [owner EXCEPT ![k] = "destroy"] /\ owner'[k] = "destroy"
      BY <2>1, <2>2, <2>6, Zenon DEF Destroy, Breaks, Used, members, ThreadInv, Types, Controls
    <3>3. Used(k)' /\ broken'[k] = {}
      BY <2>2, <2>6, <3>2, Zenon DEF Used
    <3>4. GroupTypes'
      BY <2>1, <2>6 DEF GroupInv, GroupTypes, group_vars
    <3>5. LoopInv'
      <4>1. i' = k
        BY <1>2, <2>6 DEF group_vars
      <4>2. \A o \in 1 .. k - 1 : owner'[o] = "gone"
        BY <2>1, <2>3, <3>1 DEF OthersKept
      <4>3. \A o \in k + 1 .. m_threads : owner'[o] = "idle"
        BY <2>1, <2>4, <3>1 DEF OthersKept
      <4> QED
        BY <2>1, <3>2, <4>1, <4>2, <4>3 DEF LoopInv
    <3>6. Unbroken' /\ MembersInv'
      BY <1>2, <2>1, <3>1, <3>3, OneMember
    <3> QED
      BY <3>4, <3>5, <3>6 DEF GroupInv
  <2>7. CASE DestroyBase(k) /\ i' = k + 1
    <3>1. OthersKept(k)
      BY <2>1, <2>7, StepKeeps DEF Step, OwnerGoesOn, ThreadInv
    <3>2. owner[k] = "destroy" /\ ~m_handle[k]
      BY <2>2, <2>7, Zenon DEF DestroyBase, Goes, Used
    <3>3. /\ UNCHANGED <<m_handle, sys, starts, broken>>
          /\ owner'[k] = "gone" /\ impl'[k] = "deleted"
      BY <2>1, <2>7, <3>2, Zenon DEF DestroyBase, Goes, ThreadInv, Types, Controls
    <3>4. Used(k)' /\ broken'[k] = {}
      BY <2>2, <3>2, <3>3, Zenon DEF Used
    <3>5. GroupTypes'
      BY <1>2, <2>1, <2>7 DEF GroupInv, GroupTypes
    <3>6. LoopInv'
      <4>1. \A o \in 1 .. k : owner'[o] = "gone"
        BY <2>1, <2>3, <3>1, <3>3 DEF OthersKept
      <4>2. \A o \in k + 1 .. m_threads : owner'[o] = "idle"
        BY <2>1, <2>4, <3>1 DEF OthersKept
      <4> QED
        BY <2>1, <2>7, <4>1, <4>2 DEF LoopInv
    <3>7. Unbroken' /\ MembersInv'
      BY <1>2, <2>1, <3>1, <3>4, OneMember
    <3> QED
      BY <3>5, <3>6, <3>7 DEF GroupInv
  <2> QED
    BY <1>2, <2>5, <2>6, <2>7 DEF DestroyNext
<1>3. i > m_threads \/ (i \in Member /\ i <= m_threads)
  BY DEF GroupInv, GroupTypes, Member
<1> QED
  BY <1>1, <1>2, <1>3

\* Add takes the next place of the vector.
LEMMA AddKeeps ==
  ASSUME GroupSize \in Nat, Member \subseteq Object, ThreadInv, GroupInv, Add
  PROVE  ThreadInv' /\ GroupInv'
<1> PICK n \in Member : n = m_threads + 1
  BY DEF Add
<1>1. n \in Object /\ m_threads \in Nat /\ m_threads' = n /\ group = "idle" /\ UNCHANGED <<group, i>>
  BY DEF Add, Member, GroupInv, GroupTypes
<1>2. Unused(n) /\ broken[n] = {} /\ impl[n] = "none" /\ deletes[n] = 0
  <2>1. Unused(n) /\ broken[n] = {}
    BY DEF GroupInv, GroupTypes, MembersInv, Member, Unbroken
  <2> QED
    BY <1>1, <2>1 DEF Unused, ThreadInv, ImplInv
<1>3. /\ owner' = [owner EXCEPT ![n] = "idle"] /\ m_pimpl' = [m_pimpl EXCEPT ![n] = TRUE]
      /\ impl' = [impl EXCEPT ![n] = "live"] /\ m_handle' = [m_handle EXCEPT ![n] = TRUE]
      /\ sys' = [sys EXCEPT ![n] = "created"] /\ starts' = [starts EXCEPT ![n] = @ + 1]
      /\ UNCHANGED <<runs, deletes, broken>>
  BY DEF Add
<1>4. /\ owner'[n] = "idle" /\ m_pimpl'[n] /\ impl'[n] = "live" /\ m_handle'[n]
      /\ sys'[n] = "created" /\ starts'[n] = 1
  <2>1. /\ owner'[n] = "idle" /\ m_pimpl'[n] /\ impl'[n] = "live" /\ m_handle'[n]
        /\ sys'[n] = "created"
    BY <1>1, <1>3, Zenon DEF ThreadInv, Types, Controls
  <2>2. starts'[n] = 1
    BY <1>1, <1>2, <1>3 DEF ThreadInv, Types, Counts, Unused
  <2> QED
    BY <2>1, <2>2
<1>5. OthersKept(n)
  BY <1>1, <1>3, Zenon DEF OthersKept, ThreadInv, Types, Controls, Counts
<1>6. ThreadInv'
  <2>1. Controls'
    BY <1>1, <1>3, Zenon DEF ThreadInv, Types, Controls
  <2>2. Counts'
    BY <1>1, <1>3 DEF ThreadInv, Types, Counts
  <2>3. Marks'
    BY <1>3, Zenon DEF ThreadInv, Types, Marks
  <2>4. ImplInv(n)' /\ RunInv(n)'
    BY <1>2, <1>3, <1>4 DEF ImplInv, RunInv, ToRun, Unused
  <2> QED
    BY <1>1, <1>5, <2>1, <2>2, <2>3, <2>4, OneObject DEF Types
<1>7. GroupTypes'
  BY <1>1 DEF GroupInv, GroupTypes, Member
<1>8. Unbroken'
  BY <1>3 DEF GroupInv, Unbroken
<1>9. MembersInv'
  <2>1. ASSUME NEW q \in m_threads' + 1 .. GroupSize PROVE Unused(q)'
    <3>1. q \in Object \ {n} /\ Unused(q)
      BY <1>1 DEF GroupInv, MembersInv, Member
    <3> QED
      BY <1>5, <3>1 DEF Unused, OthersKept
  <2>2. ASSUME NEW q \in 1 .. m_threads' PROVE Used(q)'
    <3>1. CASE q = n
      BY <1>4, <3>1 DEF Used
    <3>2. CASE q # n
      <4>1. q \in Object \ {n} /\ Used(q)
        BY <1>1, <3>2 DEF GroupInv, MembersInv, Member
      <4> QED
        BY <1>5, <4>1 DEF Used, OthersKept
    <3> QED
      BY <3>1, <3>2
  <2> QED
    BY <2>1, <2>2 DEF MembersInv
<1>10. LoopInv'
  <2>1. \A o \in 1 .. m_threads' : owner'[o] = "idle"
    <3>1. \A o \in 1 .. m_threads : owner[o] = "idle" /\ o \in Object /\ o # n
      BY <1>1 DEF GroupInv, LoopInv, Member
    <3> QED
      BY <1>1, <1>4, <1>5, <3>1 DEF OthersKept
  <2>2. \A o \in 1 .. i - 1 : ~m_handle'[o]
    <3>1. \A o \in 1 .. i - 1 : ~m_handle[o] /\ o \in Object /\ o # n
      BY <1>1 DEF GroupInv, GroupTypes, LoopInv, Member
    <3> QED
      BY <1>5, <3>1 DEF OthersKept
  <2> QED
    BY <1>1, <2>1, <2>2 DEF LoopInv
<1> QED
  BY <1>6, <1>7, <1>8, <1>9, <1>10 DEF GroupInv

\* The calls of Join and of the destructor.
LEMMA LoopsBegin ==
  ASSUME GroupSize \in Nat, GroupInv, GroupJoin \/ GroupDestroy
  PROVE  GroupInv'
<1>1. /\ UNCHANGED <<vars, m_threads>> /\ i' = 1 /\ group = "idle" /\ group' \in {"join", "destroy"}
      /\ group' = "join" => \A o \in 1 .. m_threads : m_handle[o]
  BY DEF GroupJoin, GroupDestroy
<1>2. GroupTypes'
  BY <1>1 DEF GroupInv, GroupTypes
<1>3. LoopInv'
  BY <1>1 DEF GroupInv, GroupTypes, LoopInv, vars, members
<1>4. Unbroken' /\ MembersInv'
  BY <1>1 DEF GroupInv, Unbroken, MembersInv, Used, Unused, vars, members, history
<1> QED
  BY <1>2, <1>3, <1>4 DEF GroupInv

\* A group and threads of their own beside it.
AnyNext ==
  \/ GroupNext
  \/ \E o \in Object \ Member : Step(o) /\ UNCHANGED group_vars

\* Every step of a group and of threads beside it.
LEMMA AnyStepInv ==
  ASSUME GroupSize \in Nat, Member \subseteq Object, ThreadInv, GroupInv, [AnyNext]_thread_vars
  PROVE  ThreadInv' /\ GroupInv'
<1>1. CASE UNCHANGED thread_vars
  <2>1. ThreadInv'
    BY <1>1, NoObject DEF thread_vars
  <2>2. GroupInv'
    BY <1>1 DEF GroupInv, GroupTypes, Unbroken, MembersInv, Used, Unused, LoopInv, thread_vars, vars,
                members, history, group_vars
  <2> QED
    BY <2>1, <2>2
<1>2. CASE Add
  BY <1>2, AddKeeps
<1>3. CASE GroupJoin \/ GroupDestroy
  <2>1. ThreadInv'
    BY <1>3, NoObject DEF GroupJoin, GroupDestroy
  <2> QED
    BY <1>3, <2>1, LoopsBegin
<1>4. ASSUME JoinNext \/ DestroyNext PROVE ThreadInv' /\ GroupInv'
  <2>1. ASSUME UNCHANGED vars PROVE ThreadInv'
    BY <2>1, NoObject
  <2>2. ASSUME i <= m_threads PROVE ThreadInv'
    <3> PICK k \in Object : k = i
      BY <2>2 DEF GroupInv, GroupTypes, Member
    <3>1. Step(k)
      BY <1>4, <2>2 DEF JoinNext, DestroyNext, Step, OwnerCalls, OwnerGoesOn
    <3> QED
      BY <3>1, ThreadStepInv
  <2>3. ThreadInv'
    BY <1>4, <2>1, <2>2 DEF JoinNext, DestroyNext
  <2> QED
    BY <1>4, <2>3, JoinLoop, DestroyLoop
<1>5. ASSUME NEW o \in Member, ThreadStep(o) PROVE ThreadInv' /\ GroupInv'
  <2>1. ThreadInv'
    BY <1>5, ThreadStepInv DEF ThreadStep, Step
  <2> QED
    BY <1>5, <2>1, MemberRuns
<1>6. ASSUME NEW o \in Object \ Member, Step(o), UNCHANGED group_vars PROVE ThreadInv' /\ GroupInv'
  <2>1. ThreadInv' /\ OthersKept(o)
    BY <1>6, ThreadStepInv, StepKeeps DEF ThreadInv
  <2>2. ASSUME NEW q \in Member PROVE q \in Object \ {o}
    BY <1>6, <2>2
  <2>3. UNCHANGED <<m_threads, group, i>> /\ 1 .. m_threads \subseteq Member
        /\ m_threads + 1 .. GroupSize \subseteq Member
    BY <1>6 DEF group_vars, GroupInv, GroupTypes, Member
  <2>4. GroupTypes' /\ Unbroken'
    BY <2>1, <2>2, <2>3 DEF GroupInv, GroupTypes, Unbroken, OthersKept
  <2>5. ASSUME NEW q \in m_threads + 1 .. GroupSize PROVE Unused(q)'
    BY <2>1, <2>2, <2>3 DEF GroupInv, MembersInv, Unused, OthersKept
  <2>6. ASSUME NEW q \in 1 .. m_threads PROVE Used(q)'
    BY <2>1, <2>2, <2>3 DEF GroupInv, MembersInv, Used, OthersKept
  <2>7. \A q \in 1 .. m_threads : owner'[q] = owner[q] /\ m_handle'[q] = m_handle[q]
    BY <2>1, <2>2, <2>3 DEF OthersKept
  <2>8. LoopInv'
    BY <2>3, <2>7 DEF GroupInv, GroupTypes, LoopInv
  <2> QED
    BY <2>1, <2>3, <2>4, <2>5, <2>6, <2>8 DEF GroupInv, MembersInv
<1> QED
  BY <1>1, <1>2, <1>3, <1>4, <1>5, <1>6 DEF AnyNext, GroupNext

\* What the invariant says of the group.
LEMMA GroupInvSafe ==
  ASSUME GroupSize \in Nat, Member \subseteq Object, ThreadInv, GroupInv
  PROVE  GroupCompletes
<1>1. ASSUME NEW o \in 1 .. m_threads, ~m_handle[o] PROVE runs[o] = 1
  <2>1. o \in Object /\ broken[o] = {} /\ Used(o)
    BY DEF GroupInv, GroupTypes, MembersInv, Unbroken, Member
  <2>2. ~ToRun(o) /\ starts[o] = 1
    BY <1>1, <2>1 DEF Used, ToRun
  <2> QED
    BY <2>1, <2>2 DEF ThreadInv, Types, Counts, RunInv
<1>2. group = "idle" /\ i > 1 => \A o \in 1 .. i - 1 : runs[o] = 1
  BY <1>1 DEF GroupInv, GroupTypes, LoopInv
<1>3. ASSUME group = "gone", NEW o \in 1 .. m_threads PROVE runs[o] = 1 /\ impl[o] = "deleted"
  <2>1. owner[o] = "gone" /\ Used(o)
    BY <1>3 DEF GroupInv, GroupTypes, LoopInv, MembersInv
  <2>2. ~m_handle[o] /\ impl[o] = "deleted"
    BY <2>1 DEF Used
  <2> QED
    BY <1>1, <2>2
<1> QED
  BY <1>2, <1>3 DEF GroupCompletes, GroupSafe, GroupInv, Unbroken

\* ThreadGroup with threads of their own beside it: no callback of the group is
\* destroyed before or while it is run, each has been run once when Join or the
\* destructor has returned, and the properties of Thread hold of all the objects.
THEOREM ThreadsCompleteCorrect == GroupInit /\ [][AnyNext]_thread_vars => []ThreadsComplete
<1>1. GroupSize \in Nat /\ Member \subseteq Object
  BY GroupAssumption DEF Member
<1>2. GroupInit => ThreadInv /\ GroupInv
  BY <1>1, ThreadInit, GroupInitInv DEF GroupInit
<1>3. ThreadInv /\ GroupInv /\ [AnyNext]_thread_vars => (ThreadInv /\ GroupInv)'
  BY <1>1, AnyStepInv
<1>4. ThreadInv /\ GroupInv => ThreadsComplete
  BY <1>1, ThreadInvSafe, GroupInvSafe DEF ThreadsComplete
<1> QED
  BY <1>2, <1>3, <1>4, PTL
=============================================================================
