---------------------------- MODULE LocksProofs -----------------------------
(***************************************************************************)
(* The locks in scoped lockers and the semaphores, under any number of     *)
(* threads, lockers and tokens.                                            *)
(***************************************************************************)
EXTENDS Locks, FiniteSetTheorems, TLAPS

-----------------------------------------------------------------------------
(* Counting in sequences. *)

Count(s, x) == Cardinality({i \in DOMAIN s : s[i] = x})

\* What is counted is finite, and there is some exactly if the count is not 0.
LEMMA CountIsNat ==
  ASSUME NEW S, NEW s \in Seq(S), NEW x
  PROVE  /\ Count(s, x) \in Nat
         /\ IsFiniteSet({i \in DOMAIN s : s[i] = x})
         /\ Count(s, x) = 0 <=> \A i \in DOMAIN s : s[i] # x
<1>1. Len(s) \in Nat /\ DOMAIN s = 1 .. Len(s)
  OBVIOUS
<1>2. IsFiniteSet(1 .. Len(s))
  BY <1>1, FS_Interval
<1> DEFINE A == {i \in DOMAIN s : s[i] = x}
<1>3. IsFiniteSet(A)
  BY <1>1, <1>2, FS_Subset
<1>4. Cardinality(A) \in Nat /\ (Cardinality(A) = 0 <=> A = {})
  BY <1>3, FS_CardinalityType, FS_EmptySet
<1> QED
  BY <1>3, <1>4 DEF Count

\* Append adds one of its element.
LEMMA CountAppend ==
  ASSUME NEW S, NEW s \in Seq(S), NEW e \in S, NEW x
  PROVE  /\ Count(s, x) \in Nat
         /\ Count(Append(s, e), x) = IF e = x THEN Count(s, x) + 1 ELSE Count(s, x)
<1> DEFINE A == {i \in DOMAIN s : s[i] = x}
           B == {i \in DOMAIN Append(s, e) : Append(s, e)[i] = x}
<1>1. /\ Len(s) \in Nat /\ DOMAIN s = 1 .. Len(s)
      /\ DOMAIN Append(s, e) = 1 .. Len(s) + 1
      /\ \A i \in 1 .. Len(s) : Append(s, e)[i] = s[i]
      /\ Append(s, e)[Len(s) + 1] = e
  OBVIOUS
<1>2. IsFiniteSet(A) /\ Count(s, x) \in Nat
  BY CountIsNat
<1>3. Len(s) + 1 \notin A
  BY <1>1
<1>4. CASE e = x
  <2>1. B = A \cup {Len(s) + 1}
    BY <1>1, <1>4
  <2>2. Cardinality(B) = Cardinality(A) + 1
    BY <1>2, <1>3, <2>1, FS_AddElement, Zenon
  <2> QED
    BY <1>2, <1>4, <2>2, Zenon DEF Count
<1>5. CASE e # x
  <2>1. B = A
    BY <1>1, <1>5
  <2> QED
    BY <1>2, <1>5, <2>1, Zenon DEF Count
<1> QED
  BY <1>4, <1>5

\* Front takes one of the last element off.
LEMMA CountFront ==
  ASSUME NEW S, NEW s \in Seq(S), s # <<>>, NEW x
  PROVE  /\ Front(s) \in Seq(S) /\ Last(s) \in S
         /\ Count(Front(s), x) \in Nat
         /\ Count(s, x) = IF Last(s) = x THEN Count(Front(s), x) + 1 ELSE Count(Front(s), x)
<1>1. Len(s) \in Nat /\ Len(s) > 0 /\ DOMAIN s = 1 .. Len(s)
  OBVIOUS
<1>2. Front(s) \in Seq(S) /\ Len(Front(s)) = Len(s) - 1 /\ \A i \in 1 .. Len(s) - 1 : Front(s)[i] = s[i]
  BY <1>1 DEF Front
<1>3. Last(s) \in S
  BY <1>1 DEF Last
<1> DEFINE a == Front(s)
           e == Last(s)
           c == Append(a, e)
<1>4. e = s[Len(s)]
  BY DEF Last
<1> HIDE DEF a, e
<1>5. c \in Seq(S) /\ Len(c) = Len(a) + 1 /\ (\A i \in 1 .. Len(a) : c[i] = a[i]) /\ c[Len(a) + 1] = e
  BY <1>2, <1>3 DEF a, e
<1> HIDE DEF c
<1>6. s = c
  <2>1. Len(c) = Len(s) /\ Len(a) = Len(s) - 1
    BY <1>1, <1>2, <1>5 DEF a
  <2>2. c[Len(s)] = s[Len(s)]
    BY <1>1, <1>4, <1>5, <2>1
  <2>3. \A i \in 1 .. Len(s) - 1 : c[i] = a[i] /\ a[i] = s[i]
    BY <1>2, <1>5, <2>1 DEF a
  <2>4. \A i \in 1 .. Len(s) : i = Len(s) \/ i \in 1 .. Len(s) - 1
    <3>1. Len(s) \in Nat
      OBVIOUS
    <3> QED
      BY ONLY <3>1
  <2>5. \A i \in 1 .. Len(s) : c[i] = s[i]
    BY <2>2, <2>3, <2>4
  <2> QED
    BY <1>1, <1>5, <2>1, <2>5
<1>7. /\ Count(a, x) \in Nat
      /\ Count(c, x) = IF e = x THEN Count(a, x) + 1 ELSE Count(a, x)
  BY <1>2, <1>3, CountAppend DEF a, e, c
<1> QED
  BY <1>2, <1>3, <1>6, <1>7 DEF a, e

\* One sequence behind another.
LEMMA Joined ==
  ASSUME NEW S, NEW a \in Seq(S), NEW b \in Seq(S)
  PROVE  /\ a \o b \in Seq(S) /\ Len(a \o b) = Len(a) + Len(b)
         /\ \A i \in 1 .. Len(a) + Len(b) : (a \o b)[i] = IF i <= Len(a) THEN a[i] ELSE b[i - Len(a)]
OBVIOUS

\* RemoveAt takes the element at a place out, and what is behind moves up.
LEMMA RemovedAt ==
  ASSUME NEW S, NEW s \in Seq(S), NEW k \in DOMAIN s
  PROVE  /\ Len(s) \in Nat /\ DOMAIN s = 1 .. Len(s) /\ k \in 1 .. Len(s)
         /\ RemoveAt(s, k) \in Seq(S)
         /\ Len(RemoveAt(s, k)) = Len(s) - 1
         /\ DOMAIN RemoveAt(s, k) = 1 .. Len(s) - 1
         /\ \A i \in 1 .. Len(s) - 1 : RemoveAt(s, k)[i] = IF i < k THEN s[i] ELSE s[i + 1]
<1> DEFINE a == SubSeq(s, 1, k - 1)
           b == SubSeq(s, k + 1, Len(s))
           r == RemoveAt(s, k)
<1>1. Len(s) \in Nat /\ DOMAIN s = 1 .. Len(s) /\ k \in 1 .. Len(s)
  OBVIOUS
<1>2. a \in Seq(S) /\ Len(a) = k - 1 /\ \A i \in 1..k - 1: a[i] = s[i]
  BY <1>1
<1>3. b \in Seq(S) /\ Len(b) = Len(s) - k /\ \A i \in 1..Len(s) - k: b[i] = s[k + i]
  BY <1>1
<1>4. r = a \o b
  BY DEF RemoveAt
<1> HIDE DEF a, b, r
<1>5. /\ r \in Seq(S) /\ Len(r) = Len(a) + Len(b)
      /\ \A i \in 1..Len(a) + Len(b): r[i] = IF i <= Len(a) THEN a[i] ELSE b[i - Len(a)]
  <2>1. a \in Seq(S) /\ b \in Seq(S)
    BY <1>2, <1>3
  <2>2. /\ a \o b \in Seq(S) /\ Len(a \o b) = Len(a) + Len(b)
        /\ \A i \in 1 .. Len(a) + Len(b) : (a \o b)[i] = IF i <= Len(a) THEN a[i] ELSE b[i - Len(a)]
    BY ONLY <2>1, Joined, Zenon
  <2> QED
    BY ONLY <1>4, <2>2
<1>6. Len(r) = Len(s) - 1 /\ DOMAIN r = 1 .. Len(s) - 1
  BY <1>1, <1>2, <1>3, <1>5
<1>7. \A i \in 1 .. Len(s) - 1 : r[i] = IF i < k THEN s[i] ELSE s[i + 1]
  <2> SUFFICES ASSUME NEW i \in 1 .. Len(s) - 1 PROVE r[i] = IF i < k THEN s[i] ELSE s[i + 1]
    OBVIOUS
  <2>1. CASE i < k
    BY <1>1, <1>2, <1>3, <1>5, <2>1
  <2>2. CASE i >= k
    <3>1. r[i] = b[i - (k - 1)] /\ i - (k - 1) \in 1 .. Len(s) - k
      BY <1>1, <1>2, <1>3, <1>5, <2>2
    <3>2. k + (i - (k - 1)) = i + 1
      BY <1>1
    <3> QED
      BY <1>1, <1>3, <2>2, <3>1, <3>2
  <2> QED
    BY <1>1, <2>1, <2>2
<1> QED
  BY <1>1, <1>5, <1>6, <1>7, Zenon DEF r

\* RemoveAt takes one of the element at its place out.
LEMMA CountRemoveAt ==
  ASSUME NEW S, NEW s \in Seq(S), NEW k \in DOMAIN s, NEW x
  PROVE  /\ RemoveAt(s, k) \in Seq(S)
         /\ Len(RemoveAt(s, k)) = Len(s) - 1
         /\ Count(RemoveAt(s, k), x) \in Nat
         /\ Count(s, x) = IF s[k] = x THEN Count(RemoveAt(s, k), x) + 1 ELSE Count(RemoveAt(s, k), x)
<1> DEFINE r == RemoveAt(s, k)
           A == {i \in DOMAIN s \ {k} : s[i] = x}
           B == {i \in DOMAIN r : r[i] = x}
           f == [i \in A |-> IF i < k THEN i ELSE i - 1]
<1>1. Len(s) \in Nat /\ DOMAIN s = 1 .. Len(s) /\ k \in 1 .. Len(s)
  OBVIOUS
<1>5. r \in Seq(S)
  BY RemovedAt
<1>6. Len(r) = Len(s) - 1 /\ DOMAIN r = 1 .. Len(s) - 1
  BY RemovedAt
<1>7. \A i \in 1 .. Len(s) - 1 : r[i] = IF i < k THEN s[i] ELSE s[i + 1]
  BY RemovedAt
<1> HIDE DEF r
<1>8. f \in Bijection(A, B)
  <2>1. f \in [A -> B]
    <3> SUFFICES ASSUME NEW i \in A PROVE (IF i < k THEN i ELSE i - 1) \in B
      OBVIOUS
    <3>1. i \in 1 .. Len(s) /\ i # k /\ s[i] = x
      BY <1>1
    <3>2. CASE i < k
      BY <1>1, <1>6, <1>7, <3>1, <3>2
    <3>3. CASE i > k
      <4>1. i - 1 \in 1 .. Len(s) - 1 /\ ~(i - 1 < k) /\ (i - 1) + 1 = i
        BY <1>1, <3>1, <3>3
      <4> QED
        BY <1>1, <1>6, <1>7, <3>1, <3>3, <4>1
    <3> QED
      BY <1>1, <3>1, <3>2, <3>3
  <2>2. \A i, j \in A : f[i] = f[j] => i = j
    BY <1>1
  <2>3. ASSUME NEW j \in B PROVE \E i \in A : f[i] = j
    <3>1. j \in 1 .. Len(s) - 1 /\ r[j] = x
      BY <1>6
    <3>2. CASE j < k
      BY <1>1, <1>7, <3>1, <3>2
    <3>3. CASE j >= k
      <4>1. j + 1 \in 1 .. Len(s) /\ j + 1 # k /\ s[j + 1] = x
        BY <1>1, <1>7, <3>1, <3>3
      <4>2. j + 1 \in A
        BY <1>1, <4>1
      <4>3. f[j + 1] = IF j + 1 < k THEN j + 1 ELSE (j + 1) - 1
        BY <4>2
      <4>4. f[j + 1] = j
        BY <1>1, <3>1, <3>3, <4>3
      <4> QED
        BY <4>2, <4>4
    <3>4. j < k \/ j >= k
      BY <1>1, <3>1
    <3> QED
      BY <3>2, <3>3, <3>4, Zenon
  <2> QED
    <3> HIDE DEF f, A, B
    <3>1. DOMAIN f = A
      BY <2>1
    <3>2. IsInjective(f)
      BY <2>2, <3>1 DEF IsInjective
    <3>3. f \in Injection(A, B)
      BY <2>1, <3>2 DEF Injection
    <3>4. f \in Surjection(A, B)
      BY <2>1, <2>3 DEF Surjection
    <3> QED
      BY <3>3, <3>4 DEF Bijection
<1>9. IsFiniteSet(A)
  <2>1. A \subseteq 1 .. Len(s)
    BY <1>1
  <2>2. IsFiniteSet(1 .. Len(s))
    BY <1>1, FS_Interval
  <2> HIDE DEF A
  <2> QED
    BY <2>1, <2>2, FS_Subset, Zenon
<1>10. Cardinality(A) = Cardinality(B) /\ Cardinality(B) = Count(r, x) /\ Cardinality(B) \in Nat
  <2> HIDE DEF f, A, B
  <2>1. ExistsBijection(A, B)
    BY <1>8 DEF ExistsBijection
  <2>2. IsFiniteSet(B) /\ Cardinality(A) = Cardinality(B) /\ Cardinality(B) \in Nat
    BY <1>9, <2>1, FS_Bijection, FS_CardinalityType
  <2> QED
    BY <2>2 DEF Count, B
<1>11. CASE s[k] = x
  <2>1. {i \in DOMAIN s : s[i] = x} = A \cup {k} /\ k \notin A
    BY <1>11
  <2> QED
    BY <1>5, <1>6, <1>9, <1>10, <1>11, <2>1, FS_AddElement, Zenon DEF Count, r
<1>12. CASE s[k] # x
  <2>1. {i \in DOMAIN s : s[i] = x} = A
    BY <1>12
  <2> QED
    BY <1>5, <1>6, <1>10, <1>12, <2>1, Zenon DEF Count, r
<1> QED
  BY <1>11, <1>12
-----------------------------------------------------------------------------
(* Locks. *)

Access == LockUser \X {"reader", "writer"}
Scoped == {r \in [lock : Lock, mode : {"reader", "writer"}, m_locked : BOOLEAN] : r.mode \in Modes[r.lock]}
Locked(l, mode) == [lock |-> l, mode |-> mode, m_locked |-> TRUE]

LockTypes ==
  /\ holds \in [Lock -> Seq(Access)]
  /\ \A l \in Lock : \A i \in DOMAIN holds[l] : holds[l][i][2] \in Modes[l]
  /\ lockers \in [LockUser -> Seq(Scoped)]
  /\ lock_pc \in [LockUser -> {"run", "locked", "unlocking"}]

\* Two holds of a lock that pthreads grants side by side.
Fits(l, x, y) ==
  \/ l = "recursive" /\ x[1] = y[1]
  \/ l = "rw" /\ x[2] = "reader" /\ y[2] = "reader"

Compatible == \A l \in Lock : \A i, j \in DOMAIN holds[l] : i # j => Fits(l, holds[l][i], holds[l][j])

Unlocking(t, l) == IF l = "spin" /\ lock_pc[t] = "unlocking" THEN 1 ELSE 0

Counted ==
  \A l \in Lock, t \in LockUser : \A mode \in Modes[l] :
    Count(holds[l], <<t, mode>>) = Count(lockers[t], Locked(l, mode)) + Unlocking(t, l)

SpinOwner ==
  /\ holds["spin"] = <<>> => m_owner = 0
  /\ \A t \in LockUser : /\ lock_pc[t] # "run" => Holds(t, "spin")
                         /\ Holds(t, "spin") => m_owner = IF lock_pc[t] = "run" THEN t ELSE 0

LockIInv == LockTypes /\ failed = FALSE /\ Compatible /\ Counted /\ SpinOwner

\* A sequence that has no place is the empty one.
LEMMA NoPlaces == ASSUME NEW S, NEW s \in Seq(S), DOMAIN s = {} PROVE s = <<>>
<1>1. Len(s) \in Nat /\ DOMAIN s = 1 .. Len(s)
  OBVIOUS
<1>2. 1 \notin 1 .. Len(s)
  BY <1>1
<1>3. Len(s) = 0
  BY <1>1, <1>2
<1> QED
  BY <1>3

\* The locks and their modes.
LEMMA ModesAre ==
  /\ Lock = {"mutex", "recursive", "spin", "rw"}
  /\ \A l \in Lock : Modes[l] = IF l = "rw" THEN {"reader", "writer"} ELSE {"writer"}
  /\ "spin" \in Lock /\ Modes["spin"] = {"writer"}
  /\ \A l \in Lock : \A mode \in Modes[l] :
       /\ mode \in {"reader", "writer"}
       /\ Locked(l, mode) \in Scoped
BY DEF Lock, Modes, Locked, Scoped

\* A locker that is counted has its lock, and counts as Mine says.
LEMMA MineIsCount ==
  ASSUME LockTypes, NEW t \in LockUser, NEW l \in Lock, NEW mode \in {"reader", "writer"}
  PROVE  Mine(t, l, mode) = Count(lockers[t], Locked(l, mode))
<1>1. lockers[t] \in Seq(Scoped)
  BY DEF LockTypes
<1>2. \A i \in DOMAIN lockers[t] : lockers[t][i] \in Scoped
  BY <1>1
<1>3. \A r \in Scoped : (r.m_locked /\ r.lock = l /\ r.mode = mode) <=> r = Locked(l, mode)
  BY DEF Scoped, Locked
<1> QED
  BY <1>2, <1>3 DEF Mine, Count

\* At most one thread holds the SpinLock, once.
LEMMA SpinHeldOnce ==
  ASSUME LockTypes, Compatible
  PROVE  \A i, j \in DOMAIN holds["spin"] : i = j
BY ModesAre DEF Compatible, Fits

\* At first nothing is locked.
LEMMA LockInitIInv == LockInit => LockIInv
<1> SUFFICES ASSUME LockInit PROVE LockIInv
  OBVIOUS
<1>1. LockTypes
  BY DEF LockInit, LockTypes
<1>2. \A x : Count(<<>>, x) = 0
  <2>1. <<>> \in Seq({}) /\ DOMAIN <<>> = {}
    OBVIOUS
  <2> QED
    BY <2>1, CountIsNat, Zenon
<1>3. Counted
  BY <1>2, ModesAre DEF LockInit, Counted, Unlocking
<1>4. Compatible /\ SpinOwner
  BY ModesAre DEF LockInit, Compatible, SpinOwner, Holds
<1> QED
  BY <1>1, <1>3, <1>4 DEF LockInit, LockIInv

\* A lock is taken: pthreads has granted it, and a locker that says IsLocked
\* stands for it.
LEMMA TakesIInv ==
  ASSUME LockIInv, NEW t \in LockUser, NEW l \in Lock, NEW mode \in Modes[l],
         lock_pc[t] = "run", Grants(l, t, mode), Takes(t, l, mode),
         lockers' = [lockers EXCEPT ![t] = Append(@, Locked(l, mode))],
         UNCHANGED <<m_owner, failed>>
  PROVE  LockIInv'
<1> DEFINE x == <<t, mode>>
<1>1. x \in Access /\ mode \in {"reader", "writer"} /\ Locked(l, mode) \in Scoped
  BY ModesAre DEF Access
<1>2. /\ holds \in [Lock -> Seq(Access)] /\ lockers \in [LockUser -> Seq(Scoped)]
      /\ lock_pc \in [LockUser -> {"run", "locked", "unlocking"}]
  BY DEF LockIInv, LockTypes
<1>3. /\ holds'[l] = Append(holds[l], x)
      /\ \A k \in Lock \ {l} : holds'[k] = holds[k]
      /\ holds' \in [Lock -> Seq(Access)]
  BY <1>1, <1>2 DEF Takes
<1>4. /\ lockers'[t] = Append(lockers[t], Locked(l, mode))
      /\ \A u \in LockUser \ {t} : lockers'[u] = lockers[u]
      /\ lockers' \in [LockUser -> Seq(Scoped)]
  BY <1>1, <1>2
<1>5. /\ lock_pc'[t] = IF l = "spin" THEN "locked" ELSE "run"
      /\ \A u \in LockUser \ {t} : lock_pc'[u] = lock_pc[u]
      /\ lock_pc' \in [LockUser -> {"run", "locked", "unlocking"}]
  BY <1>2 DEF Takes
<1>6. /\ Len(holds[l]) \in Nat /\ DOMAIN holds[l] = 1 .. Len(holds[l])
      /\ DOMAIN holds'[l] = 1 .. Len(holds[l]) + 1
      /\ \A i \in 1 .. Len(holds[l]) : holds'[l][i] = holds[l][i]
      /\ holds'[l][Len(holds[l]) + 1] = x
  <2>1. holds[l] \in Seq(Access)
    BY <1>2
  <2> HIDE DEF x
  <2> QED
    BY <1>1, <1>3, <2>1
<1> HIDE DEF x
<1>7. x[1] = t /\ x[2] = mode
  BY DEF x
<1>8. LockTypes'
  <2>1. ASSUME NEW k \in Lock, NEW i \in DOMAIN holds'[k] PROVE holds'[k][i][2] \in Modes[k]
    <3>1. CASE k # l
      BY <1>3, <3>1 DEF LockIInv, LockTypes
    <3>2. CASE k = l
      <4>1. i \in 1 .. Len(holds[l]) \/ i = Len(holds[l]) + 1
        BY <1>6, <3>2
      <4> QED
        BY <1>6, <1>7, <3>2, <4>1 DEF LockIInv, LockTypes
    <3> QED
      BY <3>1, <3>2
  <2> QED
    BY <1>3, <1>4, <1>5, <2>1 DEF LockTypes
<1>9. Compatible'
  <2> SUFFICES ASSUME NEW k \in Lock, NEW i \in DOMAIN holds'[k], NEW j \in DOMAIN holds'[k], i # j
               PROVE  Fits(k, holds'[k][i], holds'[k][j])
    BY DEF Compatible, Fits
  <2>1. CASE k # l
    BY <1>3, <2>1 DEF LockIInv, Compatible
  <2>2. CASE k = l
    <3>1. \A m \in 1 .. Len(holds[l]) : Fits(l, holds[l][m], x) /\ Fits(l, x, holds[l][m])
      BY <1>6, <1>7 DEF Grants, Fits
    <3>2. \A m \in DOMAIN holds'[l] : m \in 1 .. Len(holds[l]) \/ m = Len(holds[l]) + 1
      BY <1>6
    <3>3. CASE i \in 1 .. Len(holds[l]) /\ j \in 1 .. Len(holds[l])
      BY <1>6, <2>2, <3>3 DEF LockIInv, Compatible
    <3>4. CASE i = Len(holds[l]) + 1 \/ j = Len(holds[l]) + 1
      BY <1>6, <2>2, <3>1, <3>2, <3>4
    <3> QED
      BY <2>2, <3>2, <3>3, <3>4
  <2> QED
    BY <2>1, <2>2
<1>10. Counted'
  <2> SUFFICES ASSUME NEW k \in Lock, NEW u \in LockUser, NEW m \in Modes[k]
               PROVE  Count(holds'[k], <<u, m>>) = Count(lockers'[u], Locked(k, m)) + Unlocking(u, k)'
    BY Zenon DEF Counted, Unlocking
  <2>1. Count(holds[k], <<u, m>>) = Count(lockers[u], Locked(k, m)) + Unlocking(u, k)
    BY DEF LockIInv, Counted
  <2>2. Unlocking(u, k)' = Unlocking(u, k) /\ Unlocking(u, k) \in Nat
    BY <1>5 DEF Unlocking
  <2>3. Count(holds'[k], <<u, m>>) = IF k = l /\ x = <<u, m>> THEN Count(holds[k], <<u, m>>) + 1
                                     ELSE Count(holds[k], <<u, m>>)
    <3>1. holds[l] \in Seq(Access)
      BY <1>2
    <3>2. Count(Append(holds[l], x), <<u, m>>) = IF x = <<u, m>> THEN Count(holds[l], <<u, m>>) + 1
                                                 ELSE Count(holds[l], <<u, m>>)
      BY <1>1, <3>1, CountAppend
    <3> QED
      BY <1>3, <3>2, Zenon
  <2>4. /\ Count(lockers[u], Locked(k, m)) \in Nat
        /\ Count(lockers'[u], Locked(k, m)) =
             IF u = t /\ Locked(l, mode) = Locked(k, m) THEN Count(lockers[u], Locked(k, m)) + 1
             ELSE Count(lockers[u], Locked(k, m))
    <3>1. lockers[u] \in Seq(Scoped)
      BY <1>2
    <3> QED
      BY <1>1, <1>4, <3>1, CountAppend, CountIsNat
  <2>5. (k = l /\ x = <<u, m>>) <=> (u = t /\ Locked(l, mode) = Locked(k, m))
    BY <1>7, Zenon DEF x, Locked
  <2> HIDE DEF Locked
  <2> QED
    BY <2>1, <2>2, <2>3, <2>4, <2>5
<1>11. SpinOwner'
  <2>1. CASE l # "spin"
    <3>1. lock_pc' = lock_pc /\ holds'["spin"] = holds["spin"]
      BY <1>2, <1>3, <1>5, <2>1, ModesAre
    <3> QED
      BY <3>1 DEF LockIInv, SpinOwner, Holds
  <2>2. CASE l = "spin"
    <3>1. DOMAIN holds["spin"] = {} /\ holds["spin"] = <<>>
      <4>1. DOMAIN holds["spin"] = {}
        BY <2>2 DEF Grants
      <4>2. holds["spin"] \in Seq(Access)
        BY <1>2, ModesAre
      <4> QED
        BY <4>1, <4>2, NoPlaces, Zenon
    <3>2. m_owner' = 0 /\ \A u \in LockUser : lock_pc[u] = "run"
      BY <3>1 DEF LockIInv, SpinOwner, Holds
    <3>3. DOMAIN holds'["spin"] = {1} /\ holds'["spin"][1] = x
      <4>1. Len(holds[l]) = 0
        <5>1. holds[l] = <<>>
          BY <2>2, <3>1
        <5> QED
          BY ONLY <5>1
      <4>2. DOMAIN holds'[l] = 1 .. Len(holds[l]) + 1 /\ holds'[l][Len(holds[l]) + 1] = x
        BY <1>6
      <4>3. DOMAIN holds'[l] = {1} /\ holds'[l][1] = x
        BY ONLY <4>1, <4>2
      <4> QED
        BY <2>2, <4>3
    <3>4. holds'["spin"] # <<>>
      BY <3>3
    <3> QED
      BY <1>5, <1>7, <2>2, <3>2, <3>3, <3>4 DEF SpinOwner, Holds
  <2> QED
    BY <2>1, <2>2
<1> QED
  BY <1>8, <1>9, <1>10, <1>11 DEF LockIInv

\* A TryLocker that is refused holds nothing.
LEMMA RefusedIInv ==
  ASSUME LockIInv, NEW t \in LockUser, NEW l \in Lock, NEW mode \in Modes[l],
         lockers' = [lockers EXCEPT ![t] = Append(@, [lock |-> l, mode |-> mode, m_locked |-> FALSE])],
         failed' = FALSE, UNCHANGED <<holds, lock_pc, m_owner>>
  PROVE  LockIInv'
<1> DEFINE r == [lock |-> l, mode |-> mode, m_locked |-> FALSE]
<1>1. r \in Scoped /\ \A k \in Lock : \A m \in Modes[k] : r # Locked(k, m)
  BY ModesAre DEF Scoped, Locked
<1> HIDE DEF r
<1>2. lockers \in [LockUser -> Seq(Scoped)]
  BY DEF LockIInv, LockTypes
<1>3. /\ lockers'[t] = Append(lockers[t], r)
      /\ \A u \in LockUser \ {t} : lockers'[u] = lockers[u]
      /\ lockers' \in [LockUser -> Seq(Scoped)]
  BY <1>1, <1>2 DEF r
<1>4. LockTypes'
  BY <1>3 DEF LockIInv, LockTypes
<1>5. Compatible' /\ SpinOwner'
  BY DEF LockIInv, Compatible, SpinOwner, Holds, Fits
<1>6. Counted'
  <2> SUFFICES ASSUME NEW k \in Lock, NEW u \in LockUser, NEW m \in Modes[k]
               PROVE  Count(holds'[k], <<u, m>>) = Count(lockers'[u], Locked(k, m)) + Unlocking(u, k)'
    BY Zenon DEF Counted, Unlocking
  <2>1. Count(holds[k], <<u, m>>) = Count(lockers[u], Locked(k, m)) + Unlocking(u, k)
    BY DEF LockIInv, Counted
  <2>2. lockers[t] \in Seq(Scoped)
    BY <1>2
  <2>3. Count(Append(lockers[t], r), Locked(k, m)) = Count(lockers[t], Locked(k, m))
    BY <1>1, <2>2, CountAppend
  <2>4. Count(lockers'[u], Locked(k, m)) = Count(lockers[u], Locked(k, m))
    BY <1>3, <2>3, Zenon
  <2> QED
    BY <2>1, <2>4 DEF Unlocking
<1> QED
  BY <1>4, <1>5, <1>6 DEF LockIInv

\* The rest of SpinLock::Lock: the holder becomes the owner.
LEMMA SpinLockLockedIInv ==
  ASSUME LockIInv, NEW t \in LockUser, SpinLockLocked(t)
  PROVE  LockIInv'
<1>1. lock_pc \in [LockUser -> {"run", "locked", "unlocking"}]
  BY DEF LockIInv, LockTypes
<1>2. /\ lock_pc[t] = "locked" /\ lock_pc'[t] = "run" /\ m_owner' = t
      /\ \A u \in LockUser \ {t} : lock_pc'[u] = lock_pc[u]
      /\ lock_pc' \in [LockUser -> {"run", "locked", "unlocking"}]
      /\ UNCHANGED <<holds, lockers, failed>>
  BY <1>1 DEF SpinLockLocked
<1>3. LockTypes' /\ Compatible'
  BY <1>2 DEF LockIInv, LockTypes, Compatible, Fits
<1>4. \A u \in LockUser, l \in Lock : Unlocking(u, l)' = Unlocking(u, l)
  BY <1>2 DEF Unlocking
<1>5. Counted'
  BY <1>2, <1>4, Zenon DEF LockIInv, Counted
<1>6. PICK i \in DOMAIN holds["spin"] : holds["spin"][i][1] = t
  BY <1>2 DEF LockIInv, SpinOwner, Holds
<1>7. \A u \in LockUser : Holds(u, "spin") => u = t
  BY <1>6, SpinHeldOnce DEF LockIInv, Holds
<1>8. holds["spin"] # <<>>
  BY <1>6
<1>9. SpinOwner'
  BY <1>2, <1>7, <1>8 DEF LockIInv, SpinOwner, Holds
<1> QED
  BY <1>2, <1>3, <1>5, <1>9 DEF LockIInv

\* What is counted is somewhere.
LEMMA Counts ==
  ASSUME NEW S, NEW s \in Seq(S), NEW x, Count(s, x) > 0
  PROVE  \E i \in DOMAIN s : s[i] = x
<1>1. Count(s, x) \in Nat /\ (Count(s, x) = 0 <=> \A i \in DOMAIN s : s[i] # x)
  BY CountIsNat, Zenon
<1> QED
  BY <1>1

\* One of the holds of a lock is taken away.
Removes(l, i) == holds' = [holds EXCEPT ![l] = RemoveAt(@, i)]

\* What is left of the holds of a lock when one is taken away.
LEMMA RemoveHold ==
  ASSUME LockIInv, NEW l \in Lock, NEW i \in DOMAIN holds[l],
         Removes(l, i)
  PROVE  /\ holds' \in [Lock -> Seq(Access)]
         /\ \A k \in Lock : \A j \in DOMAIN holds'[k] : holds'[k][j][2] \in Modes[k]
         /\ Compatible'
         /\ \A k \in Lock : \A x :
              /\ Count(holds'[k], x) \in Nat
              /\ Count(holds[k], x) = IF k = l /\ holds[l][i] = x THEN Count(holds'[k], x) + 1
                                      ELSE Count(holds'[k], x)
<1>1. holds \in [Lock -> Seq(Access)] /\ holds[l] \in Seq(Access)
  BY DEF LockIInv, LockTypes
<1>2. RemoveAt(holds[l], i) \in Seq(Access)
  BY <1>1, CountRemoveAt
<1>3. /\ holds'[l] = RemoveAt(holds[l], i)
      /\ \A k \in Lock \ {l} : holds'[k] = holds[k]
      /\ holds' \in [Lock -> Seq(Access)]
  BY <1>1, <1>2 DEF Removes
<1>4. ASSUME NEW j \in DOMAIN holds'[l]
      PROVE  \E m \in DOMAIN holds[l] : holds'[l][j] = holds[l][m] /\ m = IF j < i THEN j ELSE j + 1
  BY <1>1, <1>3, RemovedAt
<1>5. ASSUME NEW k \in Lock, NEW j \in DOMAIN holds'[k] PROVE holds'[k][j][2] \in Modes[k]
  <2>1. \A n \in Lock : \A m \in DOMAIN holds[n] : holds[n][m][2] \in Modes[n]
    BY DEF LockIInv, LockTypes
  <2>2. CASE k = l
    <3>1. PICK m \in DOMAIN holds[l] : holds'[l][j] = holds[l][m]
      BY <1>4, <2>2
    <3> QED
      BY <2>1, <2>2, <3>1
  <2>3. CASE k # l
    BY <1>3, <2>1, <2>3
  <2> QED
    BY <2>2, <2>3
<1>6. Compatible'
  <2> SUFFICES ASSUME NEW k \in Lock, NEW a \in DOMAIN holds'[k], NEW b \in DOMAIN holds'[k], a # b
               PROVE  Fits(k, holds'[k][a], holds'[k][b])
    BY DEF Compatible, Fits
  <2>1. CASE k # l
    BY <1>3, <2>1 DEF LockIInv, Compatible
  <2>2. CASE k = l
    <3>1. PICK m \in DOMAIN holds[l] : holds'[l][a] = holds[l][m] /\ m = IF a < i THEN a ELSE a + 1
      BY <1>4, <2>2
    <3>2. PICK n \in DOMAIN holds[l] : holds'[l][b] = holds[l][n] /\ n = IF b < i THEN b ELSE b + 1
      BY <1>4, <2>2
    <3>3. a \in Int /\ b \in Int /\ i \in Int
      BY <1>1, <1>3, <2>2
    <3>4. m # n
      BY ONLY <3>1, <3>2, <3>3, a # b
    <3> QED
      BY <2>2, <3>1, <3>2, <3>4 DEF LockIInv, Compatible
  <2> QED
    BY <2>1, <2>2
<1>7. ASSUME NEW k \in Lock, NEW x
      PROVE  /\ Count(holds'[k], x) \in Nat
             /\ Count(holds[k], x) = IF k = l /\ holds[l][i] = x THEN Count(holds'[k], x) + 1
                                                       ELSE Count(holds'[k], x)
  <2>1. CASE k = l
    BY <1>1, <1>3, <2>1, CountRemoveAt
  <2>2. CASE k # l
    <3>1. holds[k] \in Seq(Access)
      BY <1>1
    <3> QED
      BY <1>3, <2>2, <3>1, CountIsNat, Zenon
  <2> QED
    BY <2>1, <2>2
<1> QED
  BY <1>3, <1>5, <1>6, <1>7

\* Unlock, by a thread that holds the lock with a mode, takes one such hold away.
LEMMA UnlockIs ==
  ASSUME LockIInv, NEW t \in LockUser, NEW l \in Lock, NEW mode \in Modes[l],
         Count(holds[l], <<t, mode>>) > 0, Unlock(t, l)
  PROVE  /\ failed' = FALSE
         /\ \E i \in DOMAIN holds[l] :
              holds[l][i] = <<t, mode>> /\ Removes(l, i)
<1>1. holds[l] \in Seq(Access) /\ \A i \in DOMAIN holds[l] : holds[l][i] \in Access
  BY DEF LockIInv, LockTypes
<1>2. PICK j \in DOMAIN holds[l] : holds[l][j] = <<t, mode>>
  BY <1>1, Counts
<1>3. \A i \in DOMAIN holds[l] : holds[l][i][1] = t => holds[l][i] = <<t, mode>>
  <2> SUFFICES ASSUME NEW i \in DOMAIN holds[l], holds[l][i][1] = t
               PROVE  holds[l][i] = <<t, mode>>
    OBVIOUS
  <2>1. holds[l][i] = <<t, holds[l][i][2]>> /\ holds[l][i][2] \in Modes[l]
    BY <1>1 DEF Access, LockIInv, LockTypes
  <2>2. CASE i = j
    BY <1>2, <2>2
  <2>3. CASE i # j
    <3>1. Fits(l, holds[l][i], holds[l][j])
      BY <2>3 DEF LockIInv, Compatible
    <3>2. holds[l][i][2] = mode
      BY <1>2, <2>1, <3>1, ModesAre DEF Fits
    <3> QED
      BY <2>1, <3>2
  <2> QED
    BY <2>2, <2>3
<1>4. failed = FALSE
  BY DEF LockIInv
<1>5. {i \in DOMAIN holds[l] : holds[l][i][1] = t} # {}
  BY <1>2
<1> QED
  BY <1>3, <1>4, <1>5 DEF Unlock, Removes

\* A block is left: what its locker says it holds is given back, or, of the
\* SpinLock, is about to be.
LEMMA UnscopeIInv ==
  ASSUME LockIInv, NEW t \in LockUser, Unscope(t)
  PROVE  LockIInv'
<1> DEFINE r == Last(lockers[t])
<1>1. /\ holds \in [Lock -> Seq(Access)] /\ lockers \in [LockUser -> Seq(Scoped)]
      /\ lock_pc \in [LockUser -> {"run", "locked", "unlocking"}]
  BY DEF LockIInv, LockTypes
<1>2. lockers[t] \in Seq(Scoped) /\ lockers[t] # <<>> /\ lock_pc[t] = "run"
  BY <1>1 DEF Unscope
<1>3. Front(lockers[t]) \in Seq(Scoped) /\ r \in Scoped
  BY <1>2, CountFront, Zenon
<1>4. /\ lockers'[t] = Front(lockers[t])
      /\ \A u \in LockUser \ {t} : lockers'[u] = lockers[u]
      /\ lockers' \in [LockUser -> Seq(Scoped)]
  BY <1>1, <1>3 DEF Unscope
<1>5. \/ ~r.m_locked /\ UNCHANGED <<holds, m_owner, lock_pc, failed>>
      \/ r.m_locked /\ r.lock # "spin" /\ Unlock(t, r.lock) /\ UNCHANGED <<m_owner, lock_pc>>
      \/ /\ r.m_locked /\ r.lock = "spin"
         /\ m_owner' = 0 /\ lock_pc' = [lock_pc EXCEPT ![t] = "unlocking"] /\ UNCHANGED <<holds, failed>>
  BY <1>3, Zenon DEF Unscope, Scoped
<1>6. \A x : /\ Count(Front(lockers[t]), x) \in Nat
             /\ Count(lockers[t], x) = IF r = x THEN Count(Front(lockers[t]), x) + 1
                                       ELSE Count(Front(lockers[t]), x)
  BY <1>2, CountFront
<1>7. r.lock \in Lock /\ r.mode \in Modes[r.lock] /\ (r.m_locked => r = Locked(r.lock, r.mode))
  BY <1>3, Zenon DEF Scoped, Locked
<1> HIDE DEF r
<1>8. CASE ~r.m_locked /\ UNCHANGED <<holds, m_owner, lock_pc, failed>>
  <2>1. LockTypes' /\ Compatible' /\ SpinOwner'
    BY <1>4, <1>8 DEF LockIInv, LockTypes, Compatible, SpinOwner, Holds, Fits
  <2>2. \A k \in Lock : \A m \in Modes[k] : r # Locked(k, m)
    BY <1>8 DEF Locked
  <2>3. \A u \in LockUser, k \in Lock : \A m \in Modes[k] :
          Count(lockers'[u], Locked(k, m)) = Count(lockers[u], Locked(k, m))
    BY <1>4, <1>6, <2>2
  <2>4. \A u \in LockUser, k \in Lock : Unlocking(u, k)' = Unlocking(u, k)
    BY <1>8 DEF Unlocking
  <2>5. Counted'
    BY <1>8, <2>3, <2>4, Zenon DEF LockIInv, Counted
  <2> QED
    BY <1>8, <2>1, <2>5 DEF LockIInv
<1>9. ASSUME r.m_locked
      PROVE  /\ Count(holds[r.lock], <<t, r.mode>>) > 0
             /\ \A u \in LockUser, k \in Lock : \A m \in Modes[k] :
                  Count(holds[k], <<u, m>>) =
                    IF u = t /\ k = r.lock /\ m = r.mode
                    THEN Count(lockers'[u], Locked(k, m)) + 1
                    ELSE Count(lockers'[u], Locked(k, m)) + Unlocking(u, k)
  <2>1. \A u \in LockUser, k \in Lock : \A m \in Modes[k] :
          Count(holds[k], <<u, m>>) = Count(lockers[u], Locked(k, m)) + Unlocking(u, k)
    BY DEF LockIInv, Counted
  <2>2. \A k \in Lock : Unlocking(t, k) = 0
    BY <1>2 DEF Unlocking
  <2>3. \A k \in Lock : \A m \in Modes[k] : r = Locked(k, m) <=> k = r.lock /\ m = r.mode
    BY <1>7, <1>9 DEF Locked
  <2>4. \A k \in Lock : \A m \in Modes[k] :
          /\ Count(lockers'[t], Locked(k, m)) \in Nat
          /\ Count(holds[k], <<t, m>>) = IF k = r.lock /\ m = r.mode
                                         THEN Count(lockers'[t], Locked(k, m)) + 1
                                         ELSE Count(lockers'[t], Locked(k, m))
    BY <1>4, <1>6, <2>1, <2>2, <2>3
  <2>5. Count(holds[r.lock], <<t, r.mode>>) > 0
    BY <1>7, <2>4
  <2>6. ASSUME NEW u \in LockUser, NEW k \in Lock, NEW m \in Modes[k]
        PROVE  Count(holds[k], <<u, m>>) =
                    IF u = t /\ k = r.lock /\ m = r.mode
                    THEN Count(lockers'[u], Locked(k, m)) + 1
                    ELSE Count(lockers'[u], Locked(k, m)) + Unlocking(u, k)
    <3>1. CASE u = t
      BY <2>2, <2>4, <3>1
    <3>2. CASE u # t
      BY <1>4, <2>1, <3>2
    <3> QED
      BY <3>1, <3>2
  <2> QED
    BY <2>5, <2>6
<1>10. CASE r.m_locked /\ r.lock # "spin" /\ Unlock(t, r.lock) /\ UNCHANGED <<m_owner, lock_pc>>
  <2>1. PICK i \in DOMAIN holds[r.lock] :
          holds[r.lock][i] = <<t, r.mode>> /\ Removes(r.lock, i)
    <3>1. r.lock \in Lock /\ r.mode \in Modes[r.lock] /\ Unlock(t, r.lock) /\ Count(holds[r.lock], <<t, r.mode>>) > 0
      BY <1>7, <1>9, <1>10
    <3> QED
      BY <3>1, UnlockIs, Zenon
  <2>2. failed' = FALSE
    BY <1>7, <1>9, <1>10, UnlockIs, Zenon
  <2>3. LockTypes' /\ Compatible'
    <3>1. /\ holds' \in [Lock -> Seq(Access)]
          /\ \A k \in Lock : \A j \in DOMAIN holds'[k] : holds'[k][j][2] \in Modes[k]
          /\ Compatible'
      BY <1>7, <2>1, RemoveHold
    <3> QED
      BY <1>1, <1>4, <1>10, <3>1 DEF LockTypes
  <2>4. holds'["spin"] = holds["spin"]
    BY <1>1, <1>10, <2>1, ModesAre DEF Removes
  <2>5. SpinOwner'
    BY <1>10, <2>4 DEF LockIInv, SpinOwner, Holds
  <2>6. Counted'
    <3> SUFFICES ASSUME NEW k \in Lock, NEW u \in LockUser, NEW m \in Modes[k]
                 PROVE  Count(holds'[k], <<u, m>>) = Count(lockers'[u], Locked(k, m)) + Unlocking(u, k)'
      BY Zenon DEF Counted, Unlocking
    <3>1. /\ Count(holds'[k], <<u, m>>) \in Nat
          /\ Count(holds[k], <<u, m>>) = IF k = r.lock /\ <<t, r.mode>> = <<u, m>>
                                         THEN Count(holds'[k], <<u, m>>) + 1
                                         ELSE Count(holds'[k], <<u, m>>)
      <4>1. /\ Count(holds'[k], <<u, m>>) \in Nat
            /\ Count(holds[k], <<u, m>>) = IF k = r.lock /\ holds[r.lock][i] = <<u, m>>
                                           THEN Count(holds'[k], <<u, m>>) + 1
                                           ELSE Count(holds'[k], <<u, m>>)
        <5>1. \A x : /\ Count(holds'[k], x) \in Nat
                     /\ Count(holds[k], x) = IF k = r.lock /\ holds[r.lock][i] = x
                                             THEN Count(holds'[k], x) + 1 ELSE Count(holds'[k], x)
          BY <1>7, <2>1, RemoveHold, Zenon
        <5> QED
          BY <5>1
      <4> QED
        BY <2>1, <4>1
    <3>2. Count(lockers'[u], Locked(k, m)) \in Nat
      BY <1>4, CountIsNat, Zenon
    <3>3. Unlocking(u, k)' = Unlocking(u, k) /\ (u = t => Unlocking(u, k) = 0)
      BY <1>2, <1>10 DEF Unlocking
    <3>4. Count(holds[k], <<u, m>>) = IF u = t /\ k = r.lock /\ m = r.mode
                                      THEN Count(lockers'[u], Locked(k, m)) + 1
                                      ELSE Count(lockers'[u], Locked(k, m)) + Unlocking(u, k)
      BY <1>9, <1>10, Zenon
    <3> QED
      BY <3>1, <3>2, <3>3, <3>4
  <2> QED
    BY <2>2, <2>3, <2>5, <2>6 DEF LockIInv
<1>11. CASE /\ r.m_locked /\ r.lock = "spin"
            /\ m_owner' = 0 /\ lock_pc' = [lock_pc EXCEPT ![t] = "unlocking"] /\ UNCHANGED <<holds, failed>>
  <2>1. /\ lock_pc'[t] = "unlocking"
        /\ \A u \in LockUser \ {t} : lock_pc'[u] = lock_pc[u]
        /\ lock_pc' \in [LockUser -> {"run", "locked", "unlocking"}]
    BY <1>1, <1>11
  <2>2. LockTypes' /\ Compatible'
    BY <1>4, <1>11, <2>1 DEF LockIInv, LockTypes, Compatible, Fits
  <2>3. r.mode = "writer"
    BY <1>7, <1>11, ModesAre
  <2>4. PICK i \in DOMAIN holds["spin"] : holds["spin"][i] = <<t, "writer">>
    <3>1. Count(holds["spin"], <<t, "writer">>) > 0 /\ holds["spin"] \in Seq(Access)
      BY <1>1, <1>9, <1>11, <2>3, ModesAre
    <3> QED
      BY <3>1, Counts
  <2>5. \A u \in LockUser : Holds(u, "spin") => u = t
    BY <2>4, SpinHeldOnce DEF LockIInv, Holds
  <2>6. Holds(t, "spin")
    BY <2>4 DEF Holds
  <2>7. \A u \in LockUser \ {t} : lock_pc[u] = "run"
    BY <2>5 DEF LockIInv, SpinOwner
  <2>8. SpinOwner'
    BY <1>11, <2>1, <2>5, <2>6, <2>7, Zenon DEF SpinOwner, Holds
  <2>9. Counted'
    <3> SUFFICES ASSUME NEW k \in Lock, NEW u \in LockUser, NEW m \in Modes[k]
                 PROVE  Count(holds'[k], <<u, m>>) = Count(lockers'[u], Locked(k, m)) + Unlocking(u, k)'
      BY Zenon DEF Counted, Unlocking
    <3>1. Count(holds'[k], <<u, m>>) = IF u = t /\ k = r.lock /\ m = r.mode
                                      THEN Count(lockers'[u], Locked(k, m)) + 1
                                      ELSE Count(lockers'[u], Locked(k, m)) + Unlocking(u, k)
      BY <1>9, <1>11
    <3>2. Unlocking(u, k)' = IF u = t /\ k = r.lock /\ m = r.mode THEN 1 ELSE Unlocking(u, k)
      BY <1>2, <1>11, <2>1, <2>3, ModesAre DEF Unlocking
    <3> QED
      BY <3>1, <3>2
  <2> QED
    BY <1>11, <2>2, <2>8, <2>9 DEF LockIInv
<1> QED
  BY <1>5, <1>8, <1>10, <1>11

\* The rest of SpinLock::Unlock: the lock is given back, and nobody owns it.
LEMMA SpinLockUnlocksIInv ==
  ASSUME LockIInv, NEW t \in LockUser, SpinLockUnlocks(t)
  PROVE  LockIInv'
<1>1. /\ holds \in [Lock -> Seq(Access)] /\ holds["spin"] \in Seq(Access)
      /\ lockers \in [LockUser -> Seq(Scoped)]
      /\ lock_pc \in [LockUser -> {"run", "locked", "unlocking"}]
  BY ModesAre DEF LockIInv, LockTypes
<1>2. /\ lock_pc[t] = "unlocking" /\ lock_pc'[t] = "run"
      /\ \A u \in LockUser \ {t} : lock_pc'[u] = lock_pc[u]
      /\ lock_pc' \in [LockUser -> {"run", "locked", "unlocking"}]
      /\ UNCHANGED <<m_owner, lockers>>
      /\ Unlock(t, "spin")
  BY <1>1 DEF SpinLockUnlocks
<1>3. "spin" \in Lock /\ "writer" \in Modes["spin"]
  BY ModesAre
<1>4. Count(holds["spin"], <<t, "writer">>) > 0
  <2>1. Count(holds["spin"], <<t, "writer">>) = Count(lockers[t], Locked("spin", "writer")) + 1
    BY <1>2, <1>3 DEF LockIInv, Counted, Unlocking
  <2>2. Count(lockers[t], Locked("spin", "writer")) \in Nat
    BY <1>1, CountIsNat, Zenon
  <2> QED
    BY <2>1, <2>2
<1>5. failed' = FALSE
  BY <1>2, <1>3, <1>4, UnlockIs, Zenon
<1>6. PICK i \in DOMAIN holds["spin"] :
        holds["spin"][i] = <<t, "writer">> /\ Removes("spin", i)
  BY <1>2, <1>3, <1>4, UnlockIs, Zenon
<1>7. /\ holds' \in [Lock -> Seq(Access)]
      /\ \A k \in Lock : \A j \in DOMAIN holds'[k] : holds'[k][j][2] \in Modes[k]
      /\ Compatible'
  BY <1>3, <1>6, RemoveHold
<1>8. LockTypes'
  BY <1>1, <1>2, <1>7 DEF LockTypes
<1>9. /\ DOMAIN holds'["spin"] = {}
      /\ holds'["spin"] = <<>>
  <2>1. holds'["spin"] = RemoveAt(holds["spin"], i)
    BY <1>1, <1>3, <1>6 DEF Removes
  <2>2. /\ Len(holds["spin"]) \in Nat /\ DOMAIN holds["spin"] = 1 .. Len(holds["spin"])
        /\ DOMAIN holds'["spin"] = 1 .. Len(holds["spin"]) - 1
    BY <1>1, <2>1, RemovedAt
  <2>3. Len(holds["spin"]) = 1
    <3>1. \A j, k \in 1 .. Len(holds["spin"]) : j = k
      BY <2>2, SpinHeldOnce DEF LockIInv
    <3>2. i \in 1 .. Len(holds["spin"])
      BY <2>2
    <3>3. Len(holds["spin"]) \in Nat
      BY <2>2
    <3>4. 1 \in 1 .. Len(holds["spin"]) /\ Len(holds["spin"]) \in 1 .. Len(holds["spin"])
      BY ONLY <3>2, <3>3
    <3> QED
      BY <3>1, <3>4, Zenon
  <2>4. DOMAIN holds'["spin"] = {}
    BY <2>2, <2>3
  <2>5. holds'["spin"] \in Seq(Access)
    BY <1>3, <1>7
  <2> QED
    BY <2>4, <2>5, NoPlaces, Zenon
<1>10. \A u \in LockUser : Holds(u, "spin") => u = t
  BY <1>6, SpinHeldOnce DEF LockIInv, Holds
<1>11. m_owner = 0 /\ \A u \in LockUser \ {t} : lock_pc[u] = "run"
  BY <1>2, <1>10 DEF LockIInv, SpinOwner
<1>12. SpinOwner'
  BY <1>2, <1>9, <1>11 DEF SpinOwner, Holds
<1>13. Counted'
  <2> SUFFICES ASSUME NEW k \in Lock, NEW u \in LockUser, NEW m \in Modes[k]
               PROVE  Count(holds'[k], <<u, m>>) = Count(lockers'[u], Locked(k, m)) + Unlocking(u, k)'
    BY Zenon DEF Counted, Unlocking
  <2>1. /\ Count(holds'[k], <<u, m>>) \in Nat
        /\ Count(holds[k], <<u, m>>) = IF k = "spin" /\ holds["spin"][i] = <<u, m>>
                                       THEN Count(holds'[k], <<u, m>>) + 1
                                       ELSE Count(holds'[k], <<u, m>>)
    <3>1. \A x : /\ Count(holds'[k], x) \in Nat
                 /\ Count(holds[k], x) = IF k = "spin" /\ holds["spin"][i] = x
                                         THEN Count(holds'[k], x) + 1 ELSE Count(holds'[k], x)
      BY <1>3, <1>6, RemoveHold, Zenon
    <3> QED
      BY <3>1
  <2>2. Count(lockers[u], Locked(k, m)) \in Nat
    BY <1>1, CountIsNat, Zenon
  <2>3. Count(holds[k], <<u, m>>) = Count(lockers[u], Locked(k, m)) + Unlocking(u, k)
    BY DEF LockIInv, Counted
  <2>4. CASE k = "spin" /\ u = t
    <3>1. m = "writer" /\ Unlocking(u, k) = 1 /\ Unlocking(u, k)' = 0
      BY <1>2, <2>4, ModesAre DEF Unlocking
    <3> QED
      BY <1>2, <1>6, <2>1, <2>2, <2>3, <2>4, <3>1
  <2>5. CASE ~(k = "spin" /\ u = t)
    <3>1. Unlocking(u, k)' = Unlocking(u, k) /\ ~(k = "spin" /\ <<t, "writer">> = <<u, m>>)
      BY <1>2, <2>5 DEF Unlocking
    <3> QED
      BY <1>2, <1>6, <2>1, <2>2, <2>3, <3>1, Zenon
  <2> QED
    BY <2>4, <2>5
<1> QED
  BY <1>5, <1>7, <1>8, <1>12, <1>13 DEF LockIInv

\* Each step keeps the invariant.
LEMMA LockNextIInv ==
  ASSUME LockIInv, [LockNext]_lock_vars
  PROVE  LockIInv'
<1>1. CASE LockNext
  <2>1. PICK t \in LockUser :
          \/ \E l \in Lock: \E mode \in Modes[l]: ScopedLocker(t, l, mode) \/ ScopedTryLocker(t, l, mode)
          \/ SpinLockLocked(t) \/ Unscope(t) \/ SpinLockUnlocks(t)
    BY <1>1 DEF LockNext
  <2>2. ASSUME NEW l \in Lock, NEW mode \in Modes[l], ScopedLocker(t, l, mode)
        PROVE  LockIInv'
    BY <2>2, TakesIInv, Zenon DEF ScopedLocker, Locked
  <2>3. ASSUME NEW l \in Lock, NEW mode \in Modes[l], ScopedTryLocker(t, l, mode)
        PROVE  LockIInv'
    <3>1. CASE Grants(l, t, mode)
      <4>1. /\ lock_pc[t] = "run" /\ Takes(t, l, mode)
            /\ lockers' = [lockers EXCEPT ![t] = Append(@, Locked(l, mode))]
            /\ UNCHANGED <<m_owner, failed>>
        BY <2>3, <3>1, Zenon DEF ScopedTryLocker, TryLock, CheckPthreadTryLockError, Fatal, Locked, LockIInv
      <4> QED
        BY <3>1, <4>1, TakesIInv, Zenon
    <3>2. CASE ~Grants(l, t, mode)
      <4>1. /\ lockers' = [lockers EXCEPT ![t] = Append(@, [lock |-> l, mode |-> mode, m_locked |-> FALSE])]
            /\ failed' = FALSE /\ UNCHANGED <<holds, lock_pc, m_owner>>
        BY <2>3, <3>2, Zenon DEF ScopedTryLocker, TryLock, CheckPthreadTryLockError, Fatal, LockIInv
      <4> QED
        BY <4>1, RefusedIInv, Zenon
    <3> QED
      BY <3>1, <3>2
  <2> QED
    BY <2>1, <2>2, <2>3, SpinLockLockedIInv, UnscopeIInv, SpinLockUnlocksIInv
<1>2. CASE UNCHANGED lock_vars
  <2>1. LockTypes' /\ failed' = FALSE /\ Compatible' /\ Counted'
    BY <1>2 DEF lock_vars, LockIInv, LockTypes, Compatible, Fits, Counted, Unlocking
  <2>2. SpinOwner'
    BY <1>2 DEF lock_vars, LockIInv, SpinOwner, Holds
  <2> QED
    BY <2>1, <2>2 DEF LockIInv
<1> QED
  BY <1>1, <1>2

\* The invariant says what LockersHold says.
LEMMA IInvLockersHold == ASSUME LockIInv PROVE LockersHold
<1>1. LockTypes /\ Compatible /\ Counted /\ SpinOwner /\ ~failed
  BY DEF LockIInv
<1>2. holds \in [Lock -> Seq(Access)] /\ lockers \in [LockUser -> Seq(Scoped)]
  BY <1>1 DEF LockTypes
<1>3. \A l \in Lock, t \in LockUser : \A mode \in {"reader", "writer"} :
        /\ Mine(t, l, mode) = Count(lockers[t], Locked(l, mode))
        /\ Mine(t, l, mode) \in Nat
  <2> SUFFICES ASSUME NEW l \in Lock, NEW t \in LockUser, NEW mode \in {"reader", "writer"}
               PROVE  /\ Mine(t, l, mode) = Count(lockers[t], Locked(l, mode))
                      /\ Mine(t, l, mode) \in Nat
    OBVIOUS
  <2>1. Mine(t, l, mode) = Count(lockers[t], Locked(l, mode))
    BY <1>1, MineIsCount
  <2>2. lockers[t] \in Seq(Scoped)
    BY <1>2
  <2> QED
    BY <2>1, <2>2, CountIsNat, Zenon
<1>4. \A l \in Lock, t \in LockUser: \A mode \in Modes[l]:
        Cardinality({i \in DOMAIN holds[l]: holds[l][i] = <<t, mode>>})
          = Mine(t, l, mode) + (IF l = "spin" /\ lock_pc[t] = "unlocking" THEN 1 ELSE 0)
  BY <1>1, <1>3, ModesAre, Zenon DEF Counted, Count, Unlocking
<1>5. ASSUME NEW l \in Lock, NEW t \in LockUser, NEW mode \in {"reader", "writer"}, Mine(t, l, mode) > 0
      PROVE  mode \in Modes[l] /\ \E i \in DOMAIN holds[l] : holds[l][i] = <<t, mode>>
  <2>1. lockers[t] \in Seq(Scoped) /\ Count(lockers[t], Locked(l, mode)) > 0
    BY <1>2, <1>3, <1>5
  <2>2. PICK j \in DOMAIN lockers[t] : lockers[t][j] = Locked(l, mode)
    BY <2>1, Counts
  <2>3. Locked(l, mode) \in Scoped
    BY <2>1, <2>2
  <2>4. mode \in Modes[l]
    BY <2>3 DEF Locked, Scoped
  <2>5. Count(holds[l], <<t, mode>>) = Mine(t, l, mode) + Unlocking(t, l)
    BY <1>1, <1>3, <2>4 DEF Counted
  <2>6. Count(holds[l], <<t, mode>>) > 0
    BY <1>3, <1>5, <2>5 DEF Unlocking
  <2>7. holds[l] \in Seq(Access)
    BY <1>2
  <2> QED
    BY <2>4, <2>6, <2>7, Counts
<1>6. ASSUME NEW l \in Lock, NEW t \in LockUser, NEW u \in LockUser, t # u, Mine(t, l, "writer") > 0
      PROVE  Mine(u, l, "writer") = 0 /\ Mine(u, l, "reader") = 0
  <2>1. PICK i \in DOMAIN holds[l] : holds[l][i] = <<t, "writer">>
    BY <1>5, <1>6
  <2>2. ASSUME NEW mode \in {"reader", "writer"}, Mine(u, l, mode) > 0
        PROVE  FALSE
    <3>1. PICK j \in DOMAIN holds[l] : holds[l][j] = <<u, mode>>
      BY <1>5, <2>2, Zenon
    <3>2. i # j
      BY <1>6, <2>1, <3>1
    <3> QED
      BY <1>1, <1>6, <2>1, <3>1, <3>2 DEF Compatible, Fits
  <2> QED
    BY <1>3, <2>2
<1>7. ASSUME NEW t \in LockUser, Mine(t, "spin", "writer") > 0, lock_pc[t] = "run"
      PROVE  m_owner = t
  <2>1. Holds(t, "spin")
    BY <1>5, <1>7, ModesAre DEF Holds
  <2> QED
    BY <1>1, <1>7, <2>1 DEF SpinOwner
<1>8. holds["spin"] = <<>> => m_owner = 0
  BY <1>1 DEF SpinOwner
<1> QED
  BY <1>1, <1>4, <1>6, <1>7, <1>8, Zenon DEF LockersHold

\* LockersHold in every reachable state.
THEOREM LockersHoldCorrect == LockSpec => []LockersHold
<1>1. LockIInv /\ [LockNext]_lock_vars => LockIInv'
  BY LockNextIInv
<1> QED
  BY LockInitIInv, <1>1, IInvLockersHold, PTL DEF LockSpec
-----------------------------------------------------------------------------
(* Semaphores. *)

\* One that opened a semaphore was told that it made it, or nobody was.
Makers == {{}} \cup {{h} : h \in Handle}
Semaphore == [value : Nat, made : Nat, acquired : Nat, released : Nat, by : Makers]

\* Of each semaphore, the tokens there are and what was done with them.
Tallies ==
  /\ sems \in Seq(Semaphore)
  /\ \A i \in DOMAIN sems : sems[i].value = sems[i].made + sems[i].released - sems[i].acquired

SemTypes ==
  /\ m_sem \in [Handle -> Nat] /\ names \in [SemName -> Nat] /\ unlinks \in [SemName -> Nat]
  /\ waiting \in [Handle -> {"no", "acquire", "timed"}]
  /\ \A h \in Handle : m_sem[h] <= Len(sems)
  /\ \A n \in SemName : names[n] <= Len(sems)
  /\ \A h \in Handle : waiting[h] # "no" => m_sem[h] # 0
  /\ sem_aborted = FALSE

\* A handle that is open was opened under a name, not later than now; it has what
\* bears the name now exactly if the name was not unlinked since.
Openings ==
  /\ opened \in [Handle -> {<<>>} \cup (SemName \X Nat)]
  /\ \A h \in Handle : m_sem[h] # 0 => /\ opened[h] \in SemName \X Nat
                                       /\ opened[h][2] <= unlinks[opened[h][1]]
  /\ \A h \in Handle, n \in SemName : m_sem[h] # 0 => (opened[h] = <<n, unlinks[n]>> <=> names[n] = m_sem[h])

\* No semaphore has two names.
NamesApart == \A n, k \in SemName : names[n] # 0 /\ names[n] = names[k] => n = k

Sharing == \A g, h \in Handle : m_sem[g] # 0 /\ m_sem[h] # 0 => (m_sem[g] = m_sem[h] <=> opened[g] = opened[h])

SemIInv == Tallies /\ SemTypes /\ Openings /\ NamesApart /\ Sharing

\* At first no semaphore is made.
LEMMA SemaphoreInitIInv == SemaphoreInit => SemIInv
<1> SUFFICES ASSUME SemaphoreInit PROVE SemIInv
  OBVIOUS
<1>1. sems = <<>> /\ Len(sems) = 0 /\ DOMAIN sems = {}
  BY DEF SemaphoreInit
<1>2. Tallies
  BY <1>1 DEF Tallies
<1> QED
  BY <1>1, <1>2 DEF SemaphoreInit, SemIInv, SemTypes, Openings, NamesApart, Sharing

\* Semaphores are the same if their fields are.
LEMMA SameFields ==
  ASSUME NEW a \in Semaphore, NEW b \in Semaphore, a.value = b.value, a.made = b.made,
         a.acquired = b.acquired, a.released = b.released, a.by = b.by
  PROVE  a = b
BY DEF Semaphore

\* An acquisition that is reported takes a token that is there.
LEMMA ReportTallies ==
  ASSUME Tallies, NEW s \in DOMAIN sems, sems[s].value > 0, Report(s, TRUE)
  PROVE  Tallies' /\ Len(sems') = Len(sems)
<1> DEFINE r == [value |-> sems[s].value - 1, made |-> sems[s].made, acquired |-> sems[s].acquired + 1,
                 released |-> sems[s].released, by |-> sems[s].by]
<1>1. sems[s] \in Semaphore /\ sems[s].value = sems[s].made + sems[s].released - sems[s].acquired
  BY DEF Tallies
<1>2. sems' = [sems EXCEPT ![s] = r]
  <2> DEFINE q == [sems[s] EXCEPT !.acquired = @ + 1]
             t == [sems EXCEPT ![s] = q]
  <2>1. sems' = [t EXCEPT ![s] = [t[s] EXCEPT !.value = IF sems[s].value > 0 THEN sems[s].value - 1 ELSE sems[s].value]]
    BY DEF Report
  <2>2. t[s] = q /\ q.value = sems[s].value
    BY <1>1 DEF Semaphore, Tallies
  <2>3. sems' = [t EXCEPT ![s] = [q EXCEPT !.value = q.value - 1]]
    BY <2>1, <2>2, Zenon
  <2> DEFINE w == [q EXCEPT !.value = q.value - 1]
  <2>4. q \in Semaphore /\ r \in Semaphore
    BY <1>1 DEF Semaphore
  <2>5. w \in Semaphore
    <3> HIDE DEF q
    <3> QED
      BY <1>1, <2>2, <2>4 DEF Semaphore
  <2>6. w.value = r.value /\ w.made = r.made /\ w.acquired = r.acquired /\ w.released = r.released /\ w.by = r.by
    BY <1>1, <2>2 DEF Semaphore
  <2> HIDE DEF q, r, w
  <2>7. w = r
    BY <2>4, <2>5, <2>6, SameFields
  <2> USE DEF w
  <2> QED
    BY <2>3, <2>7, Zenon
<1>3. r \in Semaphore /\ r.value = r.made + r.released - r.acquired
  BY <1>1 DEF Semaphore
<1> HIDE DEF r
<1>4. sems' \in Seq(Semaphore) /\ Len(sems') = Len(sems) /\ DOMAIN sems' = DOMAIN sems
  BY <1>2, <1>3 DEF Tallies
<1>5. \A i \in DOMAIN sems : sems'[i] = IF i = s THEN r ELSE sems[i]
  BY <1>2 DEF Tallies
<1> QED
  BY <1>3, <1>4, <1>5 DEF Tallies

\* Release adds a token.
LEMMA ReleaseTallies ==
  ASSUME Tallies, NEW h \in Handle, m_sem[h] \in DOMAIN sems, SemaphoreRelease(h)
  PROVE  Tallies' /\ Len(sems') = Len(sems)
<1> DEFINE s == m_sem[h]
           r == [value |-> sems[s].value + 1, made |-> sems[s].made, acquired |-> sems[s].acquired,
                 released |-> sems[s].released + 1, by |-> sems[s].by]
<1>1. sems[s] \in Semaphore /\ sems[s].value = sems[s].made + sems[s].released - sems[s].acquired
  BY DEF Tallies
<1>2. sems' = [sems EXCEPT ![s] = r]
  <2> DEFINE q == [sems[s] EXCEPT !.value = @ + 1]
             t == [sems EXCEPT ![s] = q]
  <2>1. sems' = [t EXCEPT ![s].released = @ + 1]
    BY Zenon DEF SemaphoreRelease
  <2>2. t[s] = q /\ q.released = sems[s].released
    BY <1>1 DEF Semaphore, Tallies
  <2>3. sems' = [t EXCEPT ![s] = [q EXCEPT !.released = q.released + 1]]
    BY <2>1, <2>2, Zenon
  <2> DEFINE w == [q EXCEPT !.released = q.released + 1]
  <2>4. q \in Semaphore /\ r \in Semaphore
    BY <1>1 DEF Semaphore
  <2>5. w \in Semaphore
    <3> HIDE DEF q
    <3> QED
      BY <1>1, <2>2, <2>4 DEF Semaphore
  <2>6. w.value = r.value /\ w.made = r.made /\ w.acquired = r.acquired /\ w.released = r.released /\ w.by = r.by
    BY <1>1, <2>2 DEF Semaphore
  <2> HIDE DEF q, r, w
  <2>7. w = r
    BY <2>4, <2>5, <2>6, SameFields
  <2> USE DEF w
  <2> QED
    BY <2>3, <2>7, Zenon
<1>3. r \in Semaphore /\ r.value = r.made + r.released - r.acquired
  BY <1>1 DEF Semaphore
<1>4. s \in DOMAIN sems
  OBVIOUS
<1> HIDE DEF r, s
<1>5. sems' \in Seq(Semaphore) /\ Len(sems') = Len(sems) /\ DOMAIN sems' = DOMAIN sems
  BY <1>2, <1>3, <1>4 DEF Tallies
<1>6. \A i \in DOMAIN sems : sems'[i] = IF i = s THEN r ELSE sems[i]
  BY <1>2, <1>4 DEF Tallies
<1> QED
  BY <1>3, <1>5, <1>6 DEF Tallies

\* What is made has the tokens it was asked for.
LEMMA MakesTallies ==
  ASSUME Tallies, NEW value \in Tokens, NEW by \in Makers,
         sems' = Append(sems, [value |-> value, made |-> value, acquired |-> 0, released |-> 0, by |-> by])
  PROVE  Tallies' /\ Len(sems) \in Nat /\ Len(sems') = Len(sems) + 1
<1> DEFINE r == [value |-> value, made |-> value, acquired |-> 0, released |-> 0, by |-> by]
<1>1. r \in Semaphore /\ r.value = r.made + r.released - r.acquired
  BY TokensAssumption DEF Semaphore
<1>2. sems' = Append(sems, r)
  OBVIOUS
<1> HIDE DEF r
<1>3. /\ sems' \in Seq(Semaphore) /\ Len(sems) \in Nat /\ Len(sems') = Len(sems) + 1
      /\ DOMAIN sems = 1 .. Len(sems) /\ DOMAIN sems' = 1 .. Len(sems) + 1
      /\ \A i \in 1 .. Len(sems) : sems'[i] = sems[i]
      /\ sems'[Len(sems) + 1] = r
  BY <1>1, <1>2 DEF Tallies
<1>4. \A i \in 1 .. Len(sems) + 1 : i = Len(sems) + 1 \/ i \in 1 .. Len(sems)
  BY <1>3
<1> QED
  BY <1>1, <1>3, <1>4, Zenon DEF Tallies

\* A handle that is open has one of the semaphores.
LEMMA OpenHasOne ==
  ASSUME SemIInv, NEW h \in Handle, m_sem[h] # 0
  PROVE  m_sem[h] \in DOMAIN sems
<1>1. sems \in Seq(Semaphore) /\ m_sem[h] \in Nat /\ m_sem[h] <= Len(sems)
  BY DEF SemIInv, Tallies, SemTypes
<1> QED
  BY <1>1

\* Tokens change hands and waits begin and end while no handle is opened or closed.
LEMMA SameHandlesIInv ==
  ASSUME SemIInv, Tallies', Len(sems') = Len(sems), UNCHANGED <<m_sem, names, opened, unlinks, sem_aborted>>,
         waiting' \in [Handle -> {"no", "acquire", "timed"}],
         \A h \in Handle : waiting'[h] # "no" => m_sem[h] # 0
  PROVE  SemIInv'
<1>1. SemTypes'
  BY DEF SemIInv, SemTypes
<1>2. Openings' /\ NamesApart' /\ Sharing'
  BY DEF SemIInv, Openings, NamesApart, Sharing
<1> QED
  BY <1>1, <1>2 DEF SemIInv

\* A handle is opened with what bears the name.
LEMMA SemOpensIInv ==
  ASSUME SemIInv, NEW h \in Handle, NEW n \in SemName, Opening(h), names[n] # 0,
         SemOpens(h, n, names[n]), UNCHANGED sems
  PROVE  SemIInv'
<1>1. /\ m_sem \in [Handle -> Nat] /\ names \in [SemName -> Nat] /\ unlinks \in [SemName -> Nat]
      /\ opened \in [Handle -> {<<>>} \cup (SemName \X Nat)]
      /\ m_sem[h] = 0 /\ waiting[h] = "no" /\ UNCHANGED <<waiting, unlinks, sem_aborted>>
  BY DEF SemIInv, SemTypes, Openings, Opening
<1>2. /\ m_sem' = [m_sem EXCEPT ![h] = names[n]]
      /\ opened' = [opened EXCEPT ![h] = <<n, unlinks[n]>>]
      /\ names' = [names EXCEPT ![n] = names[n]]
  BY DEF SemOpens
<1>3. names' = names
  BY <1>1, <1>2
<1>4. Tallies' /\ Len(sems') = Len(sems)
  BY DEF SemIInv, Tallies
<1>5. SemTypes'
  BY <1>1, <1>2, <1>3, <1>4 DEF SemIInv, SemTypes
<1>6. NamesApart'
  BY <1>3 DEF SemIInv, NamesApart
<1>7. m_sem'[h] = names[n] /\ opened'[h] = <<n, unlinks[n]>>
  BY <1>1, <1>2
<1>8. \A g \in Handle : g # h => m_sem'[g] = m_sem[g] /\ opened'[g] = opened[g]
  BY <1>1, <1>2
<1>9. Openings'
  <2>1. opened' \in [Handle -> {<<>>} \cup (SemName \X Nat)]
    BY <1>1, <1>2
  <2>2. ASSUME NEW g \in Handle, m_sem'[g] # 0
        PROVE  opened'[g] \in SemName \X Nat /\ opened'[g][2] <= unlinks'[opened'[g][1]]
    <3>1. CASE g = h
      <4>1. unlinks[n] \in Nat /\ unlinks'[n] = unlinks[n] /\ opened'[g] = <<n, unlinks[n]>>
        BY <1>1, <1>7, <3>1
      <4>2. opened'[g] \in SemName \X Nat /\ opened'[g][1] = n /\ opened'[g][2] = unlinks[n]
        BY <4>1
      <4> QED
        BY <4>1, <4>2
    <3>2. CASE g # h
      BY <1>1, <1>8, <2>2, <3>2 DEF SemIInv, Openings
    <3> QED
      BY <3>1, <3>2, Zenon
  <2>3. ASSUME NEW g \in Handle, NEW k \in SemName, m_sem'[g] # 0
        PROVE  opened'[g] = <<k, unlinks'[k]>> <=> names'[k] = m_sem'[g]
    <3>1. CASE g = h
      <4>1. names[k] = names[n] <=> k = n
        BY DEF SemIInv, NamesApart
      <4> QED
        BY <1>1, <1>3, <1>7, <3>1, <4>1
    <3>2. CASE g # h
      BY <1>1, <1>3, <1>8, <2>3, <3>2 DEF SemIInv, Openings
    <3> QED
      BY <3>1, <3>2, Zenon
  <2> QED
    BY <2>1, <2>2, <2>3 DEF Openings
<1>10. Sharing'
  <2>1. \A g \in Handle : g # h /\ m_sem[g] # 0 => (m_sem[g] = names[n] <=> opened[g] = <<n, unlinks[n]>>)
    BY DEF SemIInv, Openings
  <2> SUFFICES ASSUME NEW f \in Handle, NEW g \in Handle, m_sem'[f] # 0, m_sem'[g] # 0
               PROVE  m_sem'[f] = m_sem'[g] <=> opened'[f] = opened'[g]
    BY DEF Sharing
  <2>2. CASE f # h /\ g # h
    BY <1>8, <2>2 DEF SemIInv, Sharing
  <2>3. CASE f = h /\ g # h
    BY <1>7, <1>8, <2>1, <2>3
  <2>4. CASE f # h /\ g = h
    BY <1>7, <1>8, <2>1, <2>4
  <2>5. CASE f = h /\ g = h
    BY <2>5
  <2> QED
    BY <2>2, <2>3, <2>4, <2>5
<1> QED
  BY <1>4, <1>5, <1>6, <1>9, <1>10 DEF SemIInv

\* A handle is opened with a semaphore that is new, under a name that bears none.
LEMMA SemMakesIInv ==
  ASSUME SemIInv, NEW h \in Handle, NEW n \in SemName, NEW value \in Tokens, NEW by \in Makers,
         Opening(h), names[n] = 0, SemMakes(h, n, value, by)
  PROVE  SemIInv'
<1> DEFINE s == Len(sems) + 1
<1>1. /\ m_sem \in [Handle -> Nat] /\ names \in [SemName -> Nat] /\ unlinks \in [SemName -> Nat]
      /\ opened \in [Handle -> {<<>>} \cup (SemName \X Nat)]
      /\ m_sem[h] = 0 /\ waiting[h] = "no" /\ UNCHANGED <<waiting, unlinks, sem_aborted>>
  BY DEF SemIInv, SemTypes, Openings, Opening
<1>2. /\ m_sem' = [m_sem EXCEPT ![h] = s]
      /\ opened' = [opened EXCEPT ![h] = <<n, unlinks[n]>>]
      /\ names' = [names EXCEPT ![n] = s]
      /\ sems' = Append(sems, [value |-> value, made |-> value, acquired |-> 0, released |-> 0, by |-> by])
  BY DEF SemOpens, SemMakes
<1>3. Tallies' /\ Len(sems) \in Nat /\ Len(sems') = s
  BY <1>2, MakesTallies DEF SemIInv
<1>4. /\ \A g \in Handle : m_sem[g] \in Nat /\ m_sem[g] <= Len(sems)
      /\ \A k \in SemName : names[k] \in Nat /\ names[k] <= Len(sems)
  BY DEF SemIInv, SemTypes
<1>5. /\ s \in Nat /\ s # 0
      /\ \A g \in Handle : m_sem[g] <= s /\ m_sem[g] # s
      /\ \A k \in SemName : names[k] <= s /\ names[k] # s
  BY <1>3, <1>4
<1> HIDE DEF s
<1>6. m_sem'[h] = s /\ opened'[h] = <<n, unlinks[n]>> /\ names'[n] = s
  BY <1>1, <1>2
<1>7. /\ \A g \in Handle : g # h => m_sem'[g] = m_sem[g] /\ opened'[g] = opened[g]
      /\ \A k \in SemName : k # n => names'[k] = names[k]
  BY <1>1, <1>2
<1>8. SemTypes'
  <2>1. m_sem' \in [Handle -> Nat] /\ names' \in [SemName -> Nat]
    BY <1>1, <1>2, <1>5
  <2>2. (\A g \in Handle : m_sem'[g] <= s) /\ (\A k \in SemName : names'[k] <= s)
    BY <1>5, <1>6, <1>7
  <2>3. \A g \in Handle : waiting'[g] # "no" => m_sem'[g] # 0
    BY <1>1, <1>7, Zenon DEF SemIInv, SemTypes
  <2> QED
    BY <1>1, <1>3, <2>1, <2>2, <2>3 DEF SemIInv, SemTypes
<1>9. NamesApart'
  BY <1>5, <1>6, <1>7 DEF SemIInv, NamesApart
<1>10. Openings'
  <2>1. opened' \in [Handle -> {<<>>} \cup (SemName \X Nat)]
    BY <1>1, <1>2
  <2>2. ASSUME NEW g \in Handle, m_sem'[g] # 0
        PROVE  opened'[g] \in SemName \X Nat /\ opened'[g][2] <= unlinks'[opened'[g][1]]
    <3>1. CASE g = h
      <4>1. unlinks[n] \in Nat /\ unlinks'[n] = unlinks[n] /\ opened'[g] = <<n, unlinks[n]>>
        BY <1>1, <1>6, <3>1
      <4>2. opened'[g] \in SemName \X Nat /\ opened'[g][1] = n /\ opened'[g][2] = unlinks[n]
        BY <4>1
      <4> QED
        BY <4>1, <4>2
    <3>2. CASE g # h
      BY <1>1, <1>7, <2>2, <3>2, Zenon DEF SemIInv, Openings
    <3> QED
      BY <3>1, <3>2, Zenon
  <2>3. ASSUME NEW g \in Handle, NEW k \in SemName, m_sem'[g] # 0
        PROVE  opened'[g] = <<k, unlinks'[k]>> <=> names'[k] = m_sem'[g]
    <3>1. CASE g = h
      BY <1>1, <1>5, <1>6, <1>7, <3>1
    <3>2. CASE g # h
      <4>1. m_sem[g] # 0 /\ m_sem'[g] = m_sem[g] /\ opened'[g] = opened[g]
        BY <1>7, <2>3, <3>2, Zenon
      <4>2. opened[g] = <<k, unlinks[k]>> <=> names[k] = m_sem[g]
        BY <4>1, Zenon DEF SemIInv, Openings
      <4>3. CASE k = n
        BY <1>1, <1>5, <1>6, <4>1, <4>2, <4>3, Zenon
      <4>4. CASE k # n
        BY <1>1, <1>7, <4>1, <4>2, <4>4, Zenon
      <4> QED
        BY <4>3, <4>4, Zenon
    <3> QED
      BY <3>1, <3>2, Zenon
  <2> QED
    BY <2>1, <2>2, <2>3 DEF Openings
<1>11. Sharing'
  <2>1. ASSUME NEW g \in Handle, m_sem[g] # 0
        PROVE  opened[g] # <<n, unlinks[n]>>
    <3>1. opened[g] = <<n, unlinks[n]>> <=> names[n] = m_sem[g]
      BY <2>1, Zenon DEF SemIInv, Openings
    <3> QED
      BY <2>1, <3>1, Zenon
  <2> SUFFICES ASSUME NEW f \in Handle, NEW g \in Handle, m_sem'[f] # 0, m_sem'[g] # 0
               PROVE  m_sem'[f] = m_sem'[g] <=> opened'[f] = opened'[g]
    BY DEF Sharing
  <2>2. CASE f # h /\ g # h
    BY <1>7, <2>2 DEF SemIInv, Sharing
  <2>3. ASSUME NEW k \in Handle, k # h, m_sem'[k] # 0
        PROVE  m_sem'[h] # m_sem'[k] /\ opened'[h] # opened'[k]
    <3>1. m_sem'[k] = m_sem[k] /\ opened'[k] = opened[k]
      BY <1>7, <2>3, Zenon
    <3>2. m_sem'[h] # m_sem'[k]
      BY <1>5, <1>6, <2>3, <3>1
    <3>3. opened'[h] # opened'[k]
      BY <1>6, <2>1, <2>3, <3>1, Zenon
    <3> QED
      BY <3>2, <3>3
  <2>4. CASE f = h /\ g # h
    BY <2>3, <2>4, Zenon
  <2>6. CASE f # h /\ g = h
    BY <2>3, <2>6, Zenon
  <2>5. CASE f = h /\ g = h
    BY <2>5
  <2> QED
    BY <2>2, <2>4, <2>5, <2>6, Zenon
<1> QED
  BY <1>3, <1>8, <1>9, <1>10, <1>11 DEF SemIInv

\* What others have open stays as it is when a handle is closed.
LEMMA CloseIInv ==
  ASSUME SemIInv, NEW h \in Handle, Close(h)
  PROVE  SemIInv'
<1>1. /\ m_sem \in [Handle -> Nat] /\ waiting[h] = "no" /\ m_sem' = [m_sem EXCEPT ![h] = 0]
      /\ UNCHANGED <<sems, names, waiting, opened, unlinks, sem_aborted>>
  BY DEF SemIInv, SemTypes, Close
<1>2. m_sem'[h] = 0 /\ \A g \in Handle : g # h => m_sem'[g] = m_sem[g]
  BY <1>1
<1>3. Tallies'
  BY <1>1 DEF SemIInv, Tallies
<1>4. SemTypes'
  <2>1. \A g \in Handle : m_sem'[g] <= Len(sems)
    BY <1>1, <1>2 DEF SemIInv, SemTypes, Tallies
  <2> QED
    BY <1>1, <1>2, <2>1 DEF SemIInv, SemTypes
<1>5. Openings' /\ NamesApart'
  BY <1>1, <1>2 DEF SemIInv, Openings, NamesApart
<1>6. Sharing'
  BY <1>1, <1>2 DEF SemIInv, Sharing
<1> QED
  BY <1>3, <1>4, <1>5, <1>6 DEF SemIInv

\* What is unlinked is opened by nobody any more, and stays with those that have it.
LEMMA SemaphoreUnlinkIInv ==
  ASSUME SemIInv, NEW n \in SemName, SemaphoreUnlink(n)
  PROVE  SemIInv'
<1>1. /\ names \in [SemName -> Nat] /\ unlinks \in [SemName -> Nat]
      /\ names' = [names EXCEPT ![n] = 0] /\ unlinks' = [unlinks EXCEPT ![n] = @ + 1]
      /\ UNCHANGED <<m_sem, sems, waiting, opened, sem_aborted>>
  BY DEF SemIInv, SemTypes, SemaphoreUnlink
<1>2. /\ names'[n] = 0 /\ unlinks'[n] = unlinks[n] + 1
      /\ \A k \in SemName : k # n => names'[k] = names[k] /\ unlinks'[k] = unlinks[k]
      /\ \A k \in SemName : unlinks[k] \in Nat /\ unlinks[k] <= unlinks'[k]
  BY <1>1
<1>3. Tallies' /\ Sharing'
  BY <1>1 DEF SemIInv, Tallies, Sharing
<1>4. SemTypes'
  <2>1. \A k \in SemName : names'[k] <= Len(sems)
    BY <1>1, <1>2 DEF SemIInv, SemTypes, Tallies
  <2>2. names' \in [SemName -> Nat] /\ unlinks' \in [SemName -> Nat]
    BY <1>1
  <2> QED
    BY <1>1, <2>1, <2>2 DEF SemIInv, SemTypes
<1>5. NamesApart'
  BY <1>2 DEF SemIInv, NamesApart
<1>6. Openings'
  <2> SUFFICES ASSUME NEW h \in Handle, m_sem[h] # 0
               PROVE  /\ opened[h] \in SemName \X Nat
                      /\ opened[h][2] <= unlinks'[opened[h][1]]
                      /\ \A k \in SemName : opened[h] = <<k, unlinks'[k]>> <=> names'[k] = m_sem[h]
    BY <1>1 DEF SemIInv, Openings
  <2>1. /\ opened[h] \in SemName \X Nat /\ opened[h][2] <= unlinks[opened[h][1]]
        /\ \A k \in SemName : opened[h] = <<k, unlinks[k]>> <=> names[k] = m_sem[h]
    BY DEF SemIInv, Openings
  <2>2. opened[h][1] \in SemName /\ opened[h][2] \in Nat
    BY <2>1
  <2>3. unlinks[opened[h][1]] \in Nat /\ unlinks'[opened[h][1]] \in Nat /\ unlinks[opened[h][1]] <= unlinks'[opened[h][1]]
    BY <1>1, <1>2, <2>2
  <2>4. opened[h][2] <= unlinks'[opened[h][1]]
    BY ONLY <2>1, <2>2, <2>3
  <2>5. opened[h] # <<n, unlinks'[n]>>
    <3> SUFFICES ASSUME opened[h] = <<n, unlinks'[n]>> PROVE FALSE
      OBVIOUS
    <3>1. unlinks[n] + 1 <= unlinks[n]
      BY <1>2, <2>1
    <3> QED
      BY <1>2, <3>1
  <2> QED
    BY <1>2, <2>1, <2>4, <2>5
<1> QED
  BY <1>3, <1>4, <1>5, <1>6 DEF SemIInv

\* Every step of a handle, and Unlink, keeps the invariant.
LEMMA SemaphoreNextIInv == SemIInv /\ [SemaphoreNext]_semaphore_vars => SemIInv'
<1> SUFFICES ASSUME SemIInv, [SemaphoreNext]_semaphore_vars PROVE SemIInv'
  OBVIOUS
<1>1. SemTypes
  BY DEF SemIInv
<1>2. ASSUME NEW h \in Handle, NEW n \in SemName, Open(h, n) PROVE SemIInv'
  <2>1. CASE names[n] = 0
    <3>1. UNCHANGED semaphore_vars
      BY <1>2, <2>1, Zenon DEF Open, Opening, Refused, semaphore_vars
    <3> QED
      BY <3>1 DEF semaphore_vars, SemIInv, Tallies, SemTypes, Openings, NamesApart, Sharing
  <2>2. CASE names[n] # 0
    <3>1. Opening(h) /\ SemOpens(h, n, names[n]) /\ UNCHANGED sems
      BY <1>2, <2>2 DEF Open
    <3> QED
      BY <2>2, <3>1, SemOpensIInv
  <2> QED
    BY <2>1, <2>2
<1>3. ASSUME NEW h \in Handle, NEW n \in SemName, NEW value \in Tokens, Create(h, n, value) PROVE SemIInv'
  <2>1. CASE names[n] # 0
    <3>1. UNCHANGED semaphore_vars
      BY <1>3, <2>1, Zenon DEF Create, Opening, Refused, semaphore_vars
    <3> QED
      BY <3>1, Zenon DEF semaphore_vars, SemIInv, Tallies, SemTypes, Openings, NamesApart, Sharing
  <2>2. CASE names[n] = 0
    <3>1. Opening(h) /\ SemMakes(h, n, value, {h})
      BY <1>3, <2>2 DEF Create
    <3>2. {h} \in Makers
      BY DEF Makers
    <3> QED
      BY <2>2, <3>1, <3>2, SemMakesIInv
  <2> QED
    BY <2>1, <2>2
<1>4. ASSUME NEW h \in Handle, NEW n \in SemName, NEW value \in Tokens, OpenOrCreate(h, n, value) PROVE SemIInv'
  <2>1. CASE names[n] # 0
    <3>1. Opening(h) /\ SemOpens(h, n, names[n]) /\ UNCHANGED sems
      BY <1>4, <2>1 DEF OpenOrCreate
    <3> QED
      BY <2>1, <3>1, SemOpensIInv
  <2>2. CASE names[n] = 0
    <3>1. Opening(h) /\ SemMakes(h, n, value, {})
      BY <1>4, <2>2 DEF OpenOrCreate
    <3>2. {} \in Makers
      BY DEF Makers
    <3> QED
      BY <2>2, <3>1, <3>2, SemMakesIInv
  <2> QED
    BY <2>1, <2>2
<1>5. ASSUME NEW h \in Handle, TryAcquire(h) PROVE SemIInv'
  <2>1. m_sem[h] \in DOMAIN sems /\ UNCHANGED <<m_sem, names, waiting, opened, unlinks, sem_aborted>>
    BY <1>5, OpenHasOne DEF TryAcquire
  <2>2. Tallies' /\ Len(sems') = Len(sems)
    <3>1. CASE sems[m_sem[h]].value > 0
      <4>1. Report(m_sem[h], TRUE)
        BY <1>5, <3>1 DEF TryAcquire, Report
      <4> QED
        BY <2>1, <3>1, <4>1, ReportTallies, Zenon DEF SemIInv
    <3>2. CASE ~(sems[m_sem[h]].value > 0)
      <4>1. sems' = sems
        BY <1>5, <3>2 DEF TryAcquire, Report
      <4> QED
        BY <4>1 DEF SemIInv, Tallies
    <3> QED
      BY <3>1, <3>2
  <2> QED
    BY <1>1, <2>1, <2>2, SameHandlesIInv DEF SemTypes
<1>6. ASSUME NEW h \in Handle, SemaphoreRelease(h) PROVE SemIInv'
  <2>1. m_sem[h] \in DOMAIN sems /\ UNCHANGED <<m_sem, names, waiting, opened, unlinks, sem_aborted>>
    BY <1>6, OpenHasOne DEF SemaphoreRelease
  <2>2. Tallies' /\ Len(sems') = Len(sems)
    BY <1>6, <2>1, ReleaseTallies DEF SemIInv
  <2> QED
    BY <1>1, <2>1, <2>2, SameHandlesIInv DEF SemTypes
<1>7. ASSUME NEW h \in Handle, NEW how \in {"acquire", "timed"}, SemaphoreAcquire(h, how) PROVE SemIInv'
  <2>1. /\ m_sem[h] # 0 /\ waiting' = [waiting EXCEPT ![h] = how]
        /\ UNCHANGED <<m_sem, sems, names, opened, unlinks, sem_aborted>>
    BY <1>7 DEF SemaphoreAcquire
  <2>2. Tallies' /\ Len(sems') = Len(sems)
    BY <2>1 DEF SemIInv, Tallies
  <2>3. waiting' \in [Handle -> {"no", "acquire", "timed"}] /\ \A g \in Handle : waiting'[g] # "no" => m_sem[g] # 0
    BY <1>1, <2>1 DEF SemTypes
  <2> QED
    BY <2>1, <2>2, <2>3, SameHandlesIInv
<1>8. ASSUME NEW h \in Handle, Acquired(h) PROVE SemIInv'
  <2>1. /\ waiting[h] # "no" /\ sems[m_sem[h]].value > 0 /\ Report(m_sem[h], TRUE)
        /\ waiting' = [waiting EXCEPT ![h] = "no"] /\ UNCHANGED <<m_sem, names, opened, unlinks, sem_aborted>>
    BY <1>8, Zenon DEF Acquired
  <2>2. m_sem[h] \in DOMAIN sems
    BY <1>1, <2>1, OpenHasOne DEF SemTypes
  <2>3. Tallies' /\ Len(sems') = Len(sems)
    BY <2>1, <2>2, ReportTallies, Zenon DEF SemIInv
  <2>4. waiting' \in [Handle -> {"no", "acquire", "timed"}] /\ \A g \in Handle : waiting'[g] # "no" => m_sem[g] # 0
    BY <1>1, <2>1 DEF SemTypes
  <2> QED
    BY <2>1, <2>3, <2>4, SameHandlesIInv
<1>9. ASSUME NEW h \in Handle, TimesOut(h) PROVE SemIInv'
  <2>1. /\ UNCHANGED <<m_sem, sems, names, opened, unlinks, sem_aborted>>
        /\ waiting' = [waiting EXCEPT ![h] = "no"]
    BY <1>9 DEF TimesOut, Report
  <2>2. Tallies' /\ Len(sems') = Len(sems)
    BY <2>1 DEF SemIInv, Tallies
  <2>3. waiting' \in [Handle -> {"no", "acquire", "timed"}] /\ \A g \in Handle : waiting'[g] # "no" => m_sem[g] # 0
    BY <1>1, <2>1 DEF SemTypes
  <2> QED
    BY <2>1, <2>2, <2>3, SameHandlesIInv
<1>10. ASSUME UNCHANGED semaphore_vars PROVE SemIInv'
  BY <1>10, Zenon DEF semaphore_vars, SemIInv, Tallies, SemTypes, Openings, NamesApart, Sharing
<1>11. ASSUME NEW h \in Handle, Interrupted(h) PROVE SemIInv'
  BY <1>10, <1>11 DEF Interrupted
<1> QED
  BY <1>2, <1>3, <1>4, <1>5, <1>6, <1>7, <1>8, <1>9, <1>10, <1>11, CloseIInv, SemaphoreUnlinkIInv, Zenon DEF SemaphoreNext

\* The invariant contains what is said of tokens and of sharing.
LEMMA IInvTokensConserved == SemIInv => TokensConserved
<1> SUFFICES ASSUME SemIInv PROVE TokensConserved
  OBVIOUS
<1>1. ASSUME NEW i \in DOMAIN sems
      PROVE  /\ sems[i].value = sems[i].made + sems[i].released - sems[i].acquired
             /\ sems[i].value >= 0 /\ sems[i].by \in Makers
  <2>1. sems[i] \in Semaphore /\ sems[i].value = sems[i].made + sems[i].released - sems[i].acquired
    BY DEF SemIInv, Tallies
  <2>2. sems[i].value \in Nat /\ sems[i].by \in Makers
    BY <2>1 DEF Semaphore
  <2> QED
    BY <2>1, <2>2
<1>2. ASSUME NEW by \in Makers PROVE Cardinality(by) <= 1
  <2>1. CASE by = {}
    BY <2>1, FS_EmptySet
  <2>2. CASE by # {}
    <3>1. PICK h \in Handle : by = {h}
      BY <2>2 DEF Makers
    <3> QED
      BY <3>1, FS_Singleton
  <2> QED
    BY <2>1, <2>2
<1>3. \A g, h \in {k \in Handle : m_sem[k] # 0} : (m_sem[g] = m_sem[h]) = (opened[g] = opened[h])
  <2> SUFFICES ASSUME NEW g \in Handle, NEW h \in Handle, m_sem[g] # 0, m_sem[h] # 0
               PROVE  (m_sem[g] = m_sem[h]) = (opened[g] = opened[h])
    BY Zenon
  <2>1. m_sem[g] = m_sem[h] <=> opened[g] = opened[h]
    BY DEF SemIInv, Sharing
  <2> QED
    BY ONLY <2>1, Zenon
<1>4. ~sem_aborted
  BY DEF SemIInv, SemTypes
<1> QED
  BY <1>1, <1>2, <1>3, <1>4, Zenon DEF TokensConserved

\* NamedSemaphore: tokens are neither lost nor made, and handles share exactly what they opened alike.
THEOREM TokensConservedCorrect == SemaphoreSpec => []TokensConserved
<1>1. SemaphoreInit => SemIInv
  BY SemaphoreInitIInv
<1>2. SemIInv /\ [SemaphoreNext]_semaphore_vars => SemIInv'
  BY SemaphoreNextIInv
<1>3. SemIInv => TokensConserved
  BY IInvTokensConserved
<1> QED
  BY <1>1, <1>2, <1>3, PTL DEF SemaphoreSpec

\* Locks and semaphores, at the same time: what a scope has locked it unlocks and
\* nothing else, and no token is made or lost, whatever interrupts a wait.
THEOREM LocksAreScopedCorrect == LockSpec /\ SemaphoreSpec => []LocksAreScoped
<1>1. LockersHold /\ TokensConserved => LocksAreScoped
  BY DEF LocksAreScoped
<1> QED
  BY <1>1, LockersHoldCorrect, TokensConservedCorrect, PTL
=============================================================================
