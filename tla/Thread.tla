------------------------------- MODULE Thread -------------------------------
(***************************************************************************)
(* toft::Thread and Thread::Impl (system/threading/thread.cpp) on top of   *)
(* BaseThread (base_thread.{h,cpp}): the life of the object and of the     *)
(* system threads it starts.                                               *)
(*                                                                         *)
(* Each object has one owner, which calls its methods one after the other; *)
(* the system thread runs StaticEntry concurrently.  A call that waits     *)
(* (Join) is one action, enabled when the wait is over.  Thread(function)  *)
(* is Construct followed by Start.  Calling a method of a detached object, *)
(* Start of a joinable one and Join of one that is not joinable are        *)
(* excluded: the code asserts or dereferences NULL.                        *)
(***************************************************************************)
EXTENDS Integers, FiniteSets

CONSTANTS
  Object,     \* Thread objects
  MaxStarts   \* bound on the calls of Start and TryStart per object

VARIABLES
  owner,             \* where the owner of the object is: "none" before the constructor,
                     \* "idle" between calls, "gone" after the destructor
  m_pimpl,           \* Thread::m_pimpl # NULL
  impl,              \* the Impl: "none", "live", "base" (~Impl done), "deleted"
  m_handle,          \* m_handle # pthread_t()
  m_id,              \* -1, 0, or 1 for the id of a system thread
  m_stop_requested,
  m_is_alive,
  sys                \* where the system thread is in StaticEntry

\* History, read by the properties only.
VARIABLES
  starts, runs,      \* system threads created, functions that were run to their end
  deletes,           \* how often the Impl was deleted
  broken             \* undefined behaviour met

members == <<m_handle, m_id, m_stop_requested, m_is_alive>>
history == <<starts, runs, deletes, broken>>
vars    == <<owner, m_pimpl, impl, members, sys, history>>

Goes(f, o, from, to) == f[o] = from /\ f' = [f EXCEPT ![o] = to]
Idle(o)     == owner[o] = "idle" /\ m_pimpl[o]
Breaks(o, how, what) == broken' = IF how THEN [broken EXCEPT ![o] = @ \cup {what}] ELSE broken

-----------------------------------------------------------------------------
(* The owner.                                                              *)

Construct(o) ==
  /\ Goes(owner, o, "none", "idle")
  /\ m_pimpl' = [m_pimpl EXCEPT ![o] = TRUE]
  /\ impl' = [impl EXCEPT ![o] = "live"]
  /\ UNCHANGED <<members, sys, history>>

\* DoStart; pthread_create has stored the handle when the new thread runs.
Start(o) ==
  /\ Idle(o)
  /\ ~m_handle[o]
  /\ starts[o] < MaxStarts
  /\ m_handle' = [m_handle EXCEPT ![o] = TRUE]
  /\ m_id' = [m_id EXCEPT ![o] = 0]
  /\ m_stop_requested' = [m_stop_requested EXCEPT ![o] = FALSE]
  /\ sys' = [sys EXCEPT ![o] = "created"]
  /\ starts' = [starts EXCEPT ![o] = @ + 1]
  /\ UNCHANGED <<owner, m_pimpl, impl, m_is_alive, runs, deletes, broken>>

\* Faulty: m_id is left at 0 when pthread_create fails.
TryStartFailsAtZero(o) ==
  /\ Idle(o)
  /\ ~m_handle[o]
  /\ \E handle \in BOOLEAN : m_handle' = [m_handle EXCEPT ![o] = handle]
  /\ m_id' = [m_id EXCEPT ![o] = 0]
  /\ m_stop_requested' = [m_stop_requested EXCEPT ![o] = FALSE]
  /\ UNCHANGED <<owner, m_pimpl, impl, m_is_alive, sys, history>>

\* TryStart when pthread_create fails: the handle it was to store is undefined.
TryStartFails(o) ==
  /\ Idle(o)
  /\ ~m_handle[o]
  /\ \E handle \in BOOLEAN : m_handle' = [m_handle EXCEPT ![o] = handle]
  /\ m_id' = [m_id EXCEPT ![o] = -1]
  /\ m_stop_requested' = [m_stop_requested EXCEPT ![o] = FALSE]
  /\ UNCHANGED <<owner, m_pimpl, impl, m_is_alive, sys, history>>

\* Faulty: pthread_detach in place of pthread_join.
JoinedDetaches(o) ==
  /\ m_handle[o]
  /\ m_handle' = [m_handle EXCEPT ![o] = FALSE]
  /\ m_id' = [m_id EXCEPT ![o] = -1]
  /\ UNCHANGED sys

\* pthread_join returns when the thread has ended.
Joined(o) ==
  /\ m_handle[o]
  /\ sys[o] \in {"ended", "none"}
  /\ m_handle' = [m_handle EXCEPT ![o] = FALSE]
  /\ m_id' = [m_id EXCEPT ![o] = -1]
  /\ sys' = [sys EXCEPT ![o] = "none"]

Join(o) ==
  /\ Idle(o)
  /\ Joined(o)
  /\ Breaks(o, sys[o] = "none", "join of no thread")
  /\ UNCHANGED <<owner, m_pimpl, impl, m_stop_requested, m_is_alive, starts, runs, deletes>>

SendStopRequest(o) ==
  /\ Idle(o)
  /\ m_stop_requested' = [m_stop_requested EXCEPT ![o] = TRUE]
  /\ UNCHANGED <<owner, m_pimpl, impl, m_handle, m_id, m_is_alive, sys, history>>

\* Faulty: the thread is not asked to stop.
StopWithoutRequest(o) ==
  /\ Idle(o)
  /\ m_handle[o]
  /\ owner' = [owner EXCEPT ![o] = "stopping"]
  /\ UNCHANGED <<m_pimpl, impl, members, sys, history>>

\* StopAndWaitForExit; it returns false at once if there is nothing to join.
Stop(o) ==
  /\ Idle(o)
  /\ m_handle[o]
  /\ m_stop_requested' = [m_stop_requested EXCEPT ![o] = TRUE]
  /\ owner' = [owner EXCEPT ![o] = "stopping"]
  /\ UNCHANGED <<m_pimpl, impl, m_handle, m_id, m_is_alive, sys, history>>

WaitForExit(o) ==
  /\ Goes(owner, o, "stopping", "idle")
  /\ Joined(o)
  /\ Breaks(o, sys[o] = "none", "join of no thread")
  /\ UNCHANGED <<m_pimpl, impl, m_stop_requested, m_is_alive, starts, runs, deletes>>

\* Detach: pthread_detach, then the handle, the id and m_pimpl are cleared.
Detach(o) ==
  /\ Idle(o)
  /\ m_handle[o]
  /\ owner' = [owner EXCEPT ![o] = "detach"]
  /\ UNCHANGED <<m_pimpl, impl, members, sys, history>>

DetachHandle(o) ==
  /\ Goes(owner, o, "detach", "detach id")
  /\ m_handle' = [m_handle EXCEPT ![o] = FALSE]
  /\ UNCHANGED <<m_pimpl, impl, m_id, m_stop_requested, m_is_alive, sys, history>>

DetachId(o) ==
  /\ Goes(owner, o, "detach id", "idle")
  /\ m_id' = [m_id EXCEPT ![o] = -1]
  /\ m_pimpl' = [m_pimpl EXCEPT ![o] = FALSE]
  /\ Breaks(o, impl[o] = "deleted", "write after delete")
  /\ UNCHANGED <<impl, m_handle, m_stop_requested, m_is_alive, sys, starts, runs, deletes>>

\* ~Thread: ~Impl destroys m_function, whether or not it is being run.
Destroy(o) ==
  /\ owner[o] = "idle"
  /\ IF m_pimpl[o]
       THEN /\ owner' = [owner EXCEPT ![o] = "destroy"]
            /\ impl' = [impl EXCEPT ![o] = "base"]
            /\ Breaks(o, sys[o] = "running", "function destroyed")
       ELSE /\ owner' = [owner EXCEPT ![o] = "gone"]
            /\ UNCHANGED <<impl, broken>>
  /\ UNCHANGED <<m_pimpl, members, sys, starts, runs, deletes>>

\* ~BaseThread, and the memory is freed.
DestroyBase(o) ==
  /\ Goes(owner, o, "destroy", "gone")
  /\ IF m_handle[o]
       THEN /\ Joined(o)
            /\ Breaks(o, sys[o] = "none", "join of no thread")
       ELSE UNCHANGED <<m_handle, m_id, sys, broken>>
  /\ impl' = [impl EXCEPT ![o] = "deleted"]
  /\ deletes' = [deletes EXCEPT ![o] = @ + 1]
  /\ m_pimpl' = [m_pimpl EXCEPT ![o] = FALSE]
  /\ UNCHANGED <<m_stop_requested, m_is_alive, starts, runs>>

-----------------------------------------------------------------------------
(* StaticEntry, in the system thread.                                      *)

SetAlive(o) ==
  /\ Goes(sys, o, "created", "alive")
  /\ m_is_alive' = [m_is_alive EXCEPT ![o] = TRUE]
  /\ UNCHANGED <<owner, m_pimpl, impl, m_handle, m_id, m_stop_requested, history>>

SetId(o) ==
  /\ Goes(sys, o, "alive", "entry")
  /\ m_id' = [m_id EXCEPT ![o] = 1]
  /\ UNCHANGED <<owner, m_pimpl, impl, m_handle, m_stop_requested, m_is_alive, history>>

\* The virtual call of Entry; in ~BaseThread it is pure.
CallEntry(o) ==
  /\ Goes(sys, o, "entry", IF impl[o] = "live" THEN "running" ELSE "ended")
  /\ Breaks(o, impl[o] # "live", "pure virtual call")
  /\ UNCHANGED <<owner, m_pimpl, impl, members, starts, runs, deletes>>

EntryReturns(o) ==
  /\ Goes(sys, o, "running", "returned")
  /\ runs' = [runs EXCEPT ![o] = @ + 1]
  /\ UNCHANGED <<owner, m_pimpl, impl, members, starts, deletes, broken>>

\* The function calls ThisThread::Exit; Cleanup is run from pthread_exit.
EntryExits(o) ==
  /\ Goes(sys, o, "running", "cleanup")
  /\ runs' = [runs EXCEPT ![o] = @ + 1]
  /\ UNCHANGED <<owner, m_pimpl, impl, members, starts, deletes, broken>>

ClearAlive(o) ==
  /\ Goes(sys, o, "returned", "cleanup")
  /\ m_is_alive' = [m_is_alive EXCEPT ![o] = FALSE]
  /\ UNCHANGED <<owner, m_pimpl, impl, m_handle, m_id, m_stop_requested, history>>

\* Faulty: the Impl deletes itself in every case.
OnExitDeletes(o) ==
  /\ Goes(sys, o, "cleanup", "ended")
  /\ impl' = [impl EXCEPT ![o] = "deleted"]
  /\ deletes' = [deletes EXCEPT ![o] = @ + 1]
  /\ UNCHANGED <<owner, m_pimpl, members, starts, runs, broken>>

\* Cleanup and Thread::Impl::OnExit: a detached Impl deletes itself.
OnExit(o) ==
  /\ Goes(sys, o, "cleanup", "ended")
  /\ IF m_handle[o] \/ impl[o] # "live"
       THEN UNCHANGED <<impl, deletes>>
       ELSE /\ impl' = [impl EXCEPT ![o] = "deleted"]
            /\ deletes' = [deletes EXCEPT ![o] = @ + 1]
  /\ UNCHANGED <<owner, m_pimpl, members, starts, runs, broken>>

-----------------------------------------------------------------------------
Init ==
  /\ owner = [o \in Object |-> "none"]
  /\ m_pimpl = [o \in Object |-> FALSE]
  /\ impl = [o \in Object |-> "none"]
  /\ m_handle = [o \in Object |-> FALSE]
  /\ m_id = [o \in Object |-> -1]
  /\ m_stop_requested = [o \in Object |-> FALSE]
  /\ m_is_alive = [o \in Object |-> FALSE]
  /\ sys = [o \in Object |-> "none"]
  /\ starts = [o \in Object |-> 0]
  /\ runs = [o \in Object |-> 0]
  /\ deletes = [o \in Object |-> 0]
  /\ broken = [o \in Object |-> {}]

\* The steps of the system thread, but for the end of the user's function.
StaticEntry(o) ==
  SetAlive(o) \/ SetId(o) \/ CallEntry(o) \/ ClearAlive(o) \/ OnExit(o)

EntryEnds(o) == EntryReturns(o) \/ EntryExits(o)

\* Calls that cannot return before something happened, and those under way.
OwnerGoesOn(o) == WaitForExit(o) \/ DetachHandle(o) \/ DetachId(o) \/ DestroyBase(o)

OwnerCalls(o) ==
  \/ Construct(o) \/ Start(o) \/ TryStartFails(o) \/ Join(o)
  \/ SendStopRequest(o) \/ Stop(o) \/ Detach(o) \/ Destroy(o)

Step(o) == OwnerCalls(o) \/ OwnerGoesOn(o) \/ StaticEntry(o) \/ EntryEnds(o)

Next == \E o \in Object : Step(o)

Spec == Init /\ [][Next]_vars

\* Threads are scheduled, and a function that is asked to stop returns.
Fairness ==
  \A o \in Object :
    /\ WF_vars(StaticEntry(o))
    /\ WF_vars(m_stop_requested[o] /\ EntryEnds(o))
    /\ WF_vars(OwnerGoesOn(o))

-----------------------------------------------------------------------------
TypeOK ==
  /\ owner \in [Object -> {"none", "idle", "stopping", "detach", "detach id", "destroy", "gone"}]
  /\ m_pimpl \in [Object -> BOOLEAN]
  /\ impl \in [Object -> {"none", "live", "base", "deleted"}]
  /\ m_handle \in [Object -> BOOLEAN]
  /\ m_id \in [Object -> -1 .. 1]
  /\ m_stop_requested \in [Object -> BOOLEAN]
  /\ m_is_alive \in [Object -> BOOLEAN]
  /\ sys \in [Object -> {"none", "created", "alive", "entry", "running", "returned", "cleanup", "ended"}]
  /\ starts \in [Object -> 0 .. MaxStarts]
  /\ runs \in [Object -> Nat]
  /\ deletes \in [Object -> Nat]

Joinless(o) == Idle(o) /\ ~m_handle[o]

\* Join, StopAndWaitForExit and a restart after them: the function given to
\* Start has been run to its end, once, when the object can be started again.
JoinCompletes == \A o \in Object : broken[o] = {} /\ Joinless(o) => runs[o] = starts[o]

\* The Impl is deleted by ~Thread or, once detached, by OnExit, never by both,
\* whenever the thread ends relative to Detach and ~Thread.
NoDoubleDelete == \A o \in Object : deletes[o] <= 1

\* StopAndWaitForExit returns if the function honours IsStopRequested: the
\* request is not lost to the start of the thread.
StopReturns == \A o \in Object : []<>(owner[o] # "stopping")

\* GetId waits while m_id is 0, from DoStart until StaticEntry has set it.  It
\* returns in the end: the thread runs, or pthread_create has failed and m_id is -1.
GetIdReturns == \A o \in Object : []<>(m_id[o] # 0)

\* "allow the thread we want to delete to complete running" (base_thread.cpp,
\* ~BaseThread): the function is not destroyed before or while it is run.
DestructorWaits ==
  \A o \in Object : broken[o] \cap {"function destroyed", "pure virtual call"} = {}

\* "After detached, the m_pimpl will be deleted in Thread::Impl::OnExit"
\* (thread.cpp, Detach)
DetachedImplDeleted ==
  \A o \in Object : owner[o] \in {"idle", "gone"} /\ ~m_pimpl[o] /\ sys[o] = "ended"
                      => impl[o] = "deleted"

-----------------------------------------------------------------------------
(***************************************************************************)
(* toft::ThreadGroup (system/threading/thread_group.cpp) composed with the *)
(* Thread objects it owns, whose calls the owner of the group makes.       *)
(***************************************************************************)
CONSTANT GroupSize   \* bound on the number of threads added, objects 1 to GroupSize

ASSUME GroupAssumption == GroupSize \in Nat /\ 1 .. GroupSize \subseteq Object

Member == 1 .. GroupSize

VARIABLES
  m_threads,   \* number of threads; thread i of the vector is object i
  group,       \* "idle", in "join" or "destroy", or "gone"
  i            \* the loop variable of Join and of the destructor

group_vars  == <<m_threads, group, i>>
thread_vars == <<vars, group_vars>>

\* new Thread(callback) and push_back; Add(callback, n) is n of these, and no
\* other call comes between.
Add ==
  LET n == m_threads + 1 IN
  /\ group = "idle"
  /\ n \in Member
  /\ m_threads' = n
  /\ owner' = [owner EXCEPT ![n] = "idle"]
  /\ m_pimpl' = [m_pimpl EXCEPT ![n] = TRUE]
  /\ impl' = [impl EXCEPT ![n] = "live"]
  /\ m_handle' = [m_handle EXCEPT ![n] = TRUE]
  /\ m_id' = [m_id EXCEPT ![n] = 0]
  /\ sys' = [sys EXCEPT ![n] = "created"]
  /\ starts' = [starts EXCEPT ![n] = @ + 1]
  /\ UNCHANGED <<m_stop_requested, m_is_alive, runs, deletes, broken, group, i>>

\* Join may be called once: BaseThread::Join asserts that the thread is joinable.
GroupJoin ==
  /\ group = "idle"
  /\ \A o \in 1 .. m_threads : m_handle[o]
  /\ group' = "join"
  /\ i' = 1
  /\ UNCHANGED <<vars, m_threads>>

\* Faulty: the loop variable stays.
JoinNextStays ==
  /\ group = "join"
  /\ IF i <= m_threads
       THEN Join(i) /\ UNCHANGED group_vars
       ELSE group' = "idle" /\ UNCHANGED <<vars, m_threads, i>>

JoinNext ==
  /\ group = "join"
  /\ IF i <= m_threads
       THEN Join(i) /\ i' = i + 1 /\ UNCHANGED <<m_threads, group>>
       ELSE group' = "idle" /\ UNCHANGED <<vars, m_threads, i>>

GroupDestroy ==
  /\ group = "idle"
  /\ group' = "destroy"
  /\ i' = 1
  /\ UNCHANGED <<vars, m_threads>>

\* Faulty: only joinable threads are deleted.
DestroyNextSkips ==
  /\ group = "destroy"
  /\ IF i <= m_threads
       THEN \/ m_handle[i] /\ Join(i) /\ i' = i + 1 /\ UNCHANGED <<m_threads, group>>
            \/ ~m_handle[i] /\ i' = i + 1 /\ UNCHANGED <<vars, m_threads, group>>
       ELSE /\ group' = "gone"
            /\ UNCHANGED <<vars, m_threads, i>>

\* The destructor: join if joinable, then delete.
DestroyNext ==
  /\ group = "destroy"
  /\ IF i <= m_threads
       THEN \/ m_handle[i] /\ Join(i) /\ UNCHANGED group_vars
            \/ ~m_handle[i] /\ Destroy(i) /\ UNCHANGED group_vars
            \/ DestroyBase(i) /\ i' = i + 1 /\ UNCHANGED <<m_threads, group>>
       ELSE /\ group' = "gone"
            /\ UNCHANGED <<vars, m_threads, i>>

ThreadStep(o) == (StaticEntry(o) \/ EntryEnds(o)) /\ UNCHANGED group_vars

GroupInit == Init /\ m_threads = 0 /\ group = "idle" /\ i = 1

GroupNext ==
  \/ Add \/ GroupJoin \/ JoinNext \/ GroupDestroy \/ DestroyNext
  \/ \E o \in Member : ThreadStep(o)

GroupSpec == GroupInit /\ [][GroupNext]_thread_vars

\* Threads that are in no group.
SingleSpec == GroupInit /\ [][Next /\ UNCHANGED group_vars]_thread_vars

\* Threads are scheduled and the callbacks of the group return.
GroupFairness ==
  /\ \A o \in Member : WF_thread_vars(ThreadStep(o))
  /\ WF_thread_vars(JoinNext \/ DestroyNext)

-----------------------------------------------------------------------------
\* Unlike a single Thread's, the group's destructor joins before it deletes:
\* no callback is destroyed before or while it is run.
GroupSafe == \A o \in Member : broken[o] = {}

\* No callback is destroyed before or while it is run.  When Join has returned,
\* and when the destructor has, every thread added has
\* run its callback once; the destructor leaves no Impl behind.
GroupCompletes ==
  /\ GroupSafe
  /\ group = "idle" /\ i > 1 => \A o \in 1 .. i - 1 : runs[o] = 1
  /\ group = "gone" => \A o \in 1 .. m_threads : runs[o] = 1 /\ impl[o] = "deleted"

\* Join and the destructor return if the callbacks do.
GroupReturns == []<>(group \notin {"join", "destroy"})

\* When Thread's Join has returned, the function of every start has been run; the
\* Impl is deleted at most once, by the owner or by OnExit.  ThreadGroup: every
\* thread has run once behind Join and the destructor, which use no dead callback.
ThreadsComplete == JoinCompletes /\ NoDoubleDelete /\ GroupCompletes
=============================================================================
