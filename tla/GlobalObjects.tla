--------------------------- MODULE GlobalObjects ----------------------------
(***************************************************************************)
(* Objects that a program has one of: singletons, and the registry of      *)
(* classes by name.                                                        *)
(***************************************************************************)
EXTENDS Integers, Sequences, SequencesExt, FiniteSets

(***************************************************************************)
(* SingletonBase (base/singleton.h): Instance of several threads, and the  *)
(* destruction at exit.  Every overload of Instance has a holder of its    *)
(* own, a static local variable whose construction the compiler guards;    *)
(* the pointer s_holder they share is read without a lock.  Threads have   *)
(* ended when the program exits; destructors of other statics still call.  *)
(***************************************************************************)
CONSTANTS Thread, Overload, None

VARIABLES
  s_holder,       \* None or the overload whose holder it points to
  guard,          \* of each holder: "free", "busy" or "done"
  value,          \* of each holder: "raw", "built" or "destroyed"
  is_alive,
  pc, overload,   \* where each thread is, and in which overload
  got,            \* the holders whose value a call has returned
  broken,         \* history: a call returned a value that was not there
  overlap,        \* history: the first calls of two overloads overlapped
  exited

singleton_vars == <<s_holder, guard, value, is_alive, pc, overload, got, broken, overlap, exited>>

Goto(t, label) == pc' = [pc EXCEPT ![t] = label]
Inside(t) == pc[t] \in {"guard", "build", "publish"}

\* if (!s_holder)
Instance(t, o) ==
  /\ pc[t] = "idle"
  /\ overload' = [overload EXCEPT ![t] = o]
  /\ Goto(t, IF s_holder = None THEN "guard" ELSE "alive")
  /\ overlap' = (overlap \/ (s_holder = None /\ \E u \in Thread: Inside(u) /\ overload[u] # o))
  /\ UNCHANGED <<s_holder, guard, value, is_alive, got, broken, exited>>

\* The guard of the static variable: one thread constructs, others wait for it.
EnterGuard(t) ==
  /\ pc[t] = "guard"
  /\ \/ /\ guard[overload[t]] = "free"
        /\ guard' = [guard EXCEPT ![overload[t]] = "busy"]
        /\ Goto(t, "build")
     \/ /\ guard[overload[t]] = "done"
        /\ Goto(t, "alive")
        /\ UNCHANGED guard
  /\ UNCHANGED <<s_holder, value, is_alive, overload, got, broken, overlap, exited>>

\* Faulty: the holder is published before its value is built.
BuildPublishes(t) ==
  /\ pc[t] = "build"
  /\ is_alive' = [is_alive EXCEPT ![overload[t]] = TRUE]
  /\ s_holder' = overload[t]
  /\ Goto(t, "publish")
  /\ UNCHANGED <<guard, value, overload, got, broken, overlap, exited>>

\* Holder's constructor, the value and is_alive.
Build(t) ==
  /\ pc[t] = "build"
  /\ value' = [value EXCEPT ![overload[t]] = "built"]
  /\ is_alive' = [is_alive EXCEPT ![overload[t]] = TRUE]
  /\ Goto(t, "publish")
  /\ UNCHANGED <<s_holder, guard, overload, got, broken, overlap, exited>>

\* The constructor of the value throws: a later call tries again.
BuildThrows(t) ==
  /\ pc[t] = "build"
  /\ guard' = [guard EXCEPT ![overload[t]] = "free"]
  /\ Goto(t, "idle")
  /\ UNCHANGED <<s_holder, value, is_alive, overload, got, broken, overlap, exited>>

\* *holder = this, and the guard lets the others go on.
Publish(t) ==
  /\ pc[t] = "publish"
  /\ s_holder' = overload[t]
  /\ guard' = [guard EXCEPT ![overload[t]] = "done"]
  /\ Goto(t, "alive")
  /\ UNCHANGED <<value, is_alive, overload, got, broken, overlap, exited>>

\* Faulty: the holder is not asked whether it is alive.
ReturnInstanceAlways(t) ==
  /\ pc[t] = "alive"
  /\ got' = got \cup {s_holder}
  /\ broken' = (broken \/ value[s_holder] # "built")
  /\ Goto(t, "idle")
  /\ UNCHANGED <<s_holder, guard, value, is_alive, overload, overlap, exited>>

\* NULL when the holder is not alive any more, else the value.
ReturnInstance(t) ==
  /\ pc[t] = "alive"
  /\ got' = IF is_alive[s_holder] THEN got \cup {s_holder} ELSE got
  /\ broken' = (broken \/ (is_alive[s_holder] /\ value[s_holder] # "built"))
  /\ Goto(t, "idle")
  /\ UNCHANGED <<s_holder, guard, value, is_alive, overload, overlap, exited>>

\* exit: ~Holder, which runs before the destructor of the value.
DestroyHolder(o) ==
  /\ \A t \in Thread: pc[t] = "idle"
  /\ guard[o] = "done" /\ is_alive[o]
  /\ is_alive' = [is_alive EXCEPT ![o] = FALSE]
  /\ exited' = TRUE
  /\ UNCHANGED <<s_holder, guard, value, pc, overload, got, broken, overlap>>

DestroyValue(o) ==
  /\ ~is_alive[o] /\ value[o] = "built"
  /\ value' = [value EXCEPT ![o] = "destroyed"]
  /\ UNCHANGED <<s_holder, guard, is_alive, pc, overload, got, broken, overlap, exited>>

IsAlive == s_holder # None /\ is_alive[s_holder]

Init ==
  /\ s_holder = None /\ guard = [o \in Overload |-> "free"] /\ value = [o \in Overload |-> "raw"]
  /\ is_alive = [o \in Overload |-> FALSE] /\ pc = [t \in Thread |-> "idle"]
  /\ overload \in [Thread -> {CHOOSE o \in Overload: TRUE}]
  /\ got = {} /\ broken = FALSE /\ overlap = FALSE /\ exited = FALSE

\* After exit one thread, the one that exits, still calls.
Next ==
  \/ \E t \in Thread: /\ exited => t = CHOOSE u \in Thread: TRUE
                      /\ \/ \E o \in Overload: Instance(t, o)
                         \/ EnterGuard(t) \/ Build(t) \/ BuildThrows(t) \/ Publish(t) \/ ReturnInstance(t)
  \/ \E o \in Overload: DestroyHolder(o) \/ DestroyValue(o)

Spec == Init /\ [][Next]_singleton_vars
-----------------------------------------------------------------------------
\* No call returns a value before it is built or after its destruction began, though
\* s_holder is read without the guard; while the singleton is alive every call gets
\* the same one.  The overloads do not share a guard: that there is one singleton
\* is claimed unless the first calls of two of them overlapped.
SingletonIsOne ==
  /\ ~broken
  /\ IsAlive => value[s_holder] = "built"
  /\ ~overlap => /\ \A o, p \in got: o = p
                 /\ \A o, p \in Overload: guard[o] = "done" /\ guard[p] = "done" => o = p

-----------------------------------------------------------------------------
(***************************************************************************)
(* Class registries (base/class_registry and base/class_register.h):       *)
(* static objects register classes by name before main, in the order of    *)
(* the link, and anyone, another static's constructor included, asks by    *)
(* name for a new object or for the class's singleton.  A registry is      *)
(* named by its tag; it is made by whoever is first to use it.             *)
(***************************************************************************)
CONSTANTS
  Registerer,     \* the static objects: records of tag, name, class and singleton
  Tag, Name,
  MaxAsked        \* bound on the objects that are asked for

VARIABLES
  pending,        \* the static objects that are not constructed yet
  m_class_map,    \* of each registry, the entries by name
  m_class_names,  \* of each registry, in the order of registration
  singletons,     \* the static singletons that exist: <<class, tag, object>>
  asked,          \* history: the objects that were returned, with the question
  aborted

registry_vars == <<pending, m_class_map, m_class_names, singletons, asked, aborted>>

Null == 0
Objects == {asked[i].object: i \in DOMAIN asked}
Fresh == Cardinality(Objects \ {Null}) + 1

\* Faulty: the last registration of a name is the one that counts.
AddClassReplaces(r) ==
  /\ m_class_map' = [m_class_map EXCEPT ![r.tag] = [n \in DOMAIN @ \cup {r.name} |-> IF n = r.name THEN r ELSE @[n]]]
  /\ m_class_names' = [m_class_names EXCEPT ![r.tag] = Append(@, r.name)]
  /\ UNCHANGED aborted

\* DoAddClass, AddCreator: a name that is there aborts the program.
AddClass(r) ==
  IF r.name \in DOMAIN m_class_map[r.tag]
  THEN aborted' = TRUE /\ UNCHANGED <<m_class_map, m_class_names>>
  ELSE /\ m_class_map' = [m_class_map EXCEPT ![r.tag] = [n \in DOMAIN @ \cup {r.name} |-> IF n = r.name THEN r ELSE @[n]]]
       /\ m_class_names' = [m_class_names EXCEPT ![r.tag] = Append(@, r.name)]
       /\ UNCHANGED aborted

\* The constructor of a ClassRegisterer.
Register(r) ==
  /\ pending' = pending \ {r}
  /\ AddClass(r)
  /\ UNCHANGED <<singletons, asked>>

\* Faulty: a singleton of the class, whatever the registry is.
SingletonsOfClass(class, tag) == {s[3]: s \in {u \in singletons: u[1] = class}}

\* ClassRegistry_GetSingleton's static variable: one for each class and tag.
SingletonsOf(class, tag) == {s[3]: s \in {u \in singletons: u[1] = class /\ u[2] = tag}}

Returns(tag, name, object) ==
  asked' = Append(asked, [tag |-> tag, name |-> name, object |-> object, registered |-> m_class_names[tag]])

\* DoGetObject, CreateObject and GetSingleton: the entry's function is called.
GetObject(tag, name) ==
  /\ Len(asked) < MaxAsked
  /\ \/ /\ name \notin DOMAIN m_class_map[tag]
        /\ Returns(tag, name, Null)
        /\ UNCHANGED singletons
     \/ /\ name \in DOMAIN m_class_map[tag]
        /\ \E r \in {m_class_map[tag][name]}:
             IF r.singleton /\ SingletonsOf(r.class, tag) # {}
             THEN /\ \E object \in SingletonsOf(r.class, tag): Returns(tag, name, object)
                  /\ UNCHANGED singletons
             ELSE /\ Returns(tag, name, Fresh)
                  /\ singletons' = IF r.singleton THEN singletons \cup {<<r.class, tag, Fresh>>} ELSE singletons
  /\ UNCHANGED <<pending, m_class_map, m_class_names, aborted>>

ClassCount(tag) == Len(m_class_names[tag])
ClassName(tag, i) == m_class_names[tag][i + 1]

RegistryInit == /\ pending \in SUBSET Registerer
                /\ m_class_map = [t \in Tag |-> <<>>] /\ m_class_names = [t \in Tag |-> <<>>]
                /\ singletons = {} /\ asked = <<>> /\ aborted = FALSE

RegistryNext == /\ ~aborted
                /\ \/ \E r \in pending: Register(r)
                   \/ \E tag \in Tag, name \in Name: GetObject(tag, name)

RegistrySpec == RegistryInit /\ [][RegistryNext]_registry_vars
-----------------------------------------------------------------------------
\* In whatever order the statics of the program are constructed, a registry lists
\* every name once, as the names that it finds; a name means the same class from its
\* registration on, and nothing before; new objects are new each time, and a
\* singleton is one object for its class and registry and no other's.
RegistryIsExact ==
  /\ \A t \in Tag: /\ DOMAIN m_class_map[t] = {ClassName(t, i): i \in 0..(ClassCount(t) - 1)}
                   /\ Cardinality(DOMAIN m_class_map[t]) = ClassCount(t)
  /\ \A i \in DOMAIN asked: \A a \in {asked[i]}:
       /\ (a.object = Null) = ~Contains(a.registered, a.name)
       /\ a.object # Null =>
            \A j \in DOMAIN asked: \A b \in {asked[j]}: b.object # Null =>
              \A r \in {m_class_map[a.tag][a.name]}, s \in {m_class_map[b.tag][b.name]}:
                (a.object = b.object) = (i = j \/ (r.singleton /\ s.singleton /\ r.class = s.class /\ a.tag = b.tag))
=============================================================================
