---------------------------- MODULE ListsProofs -----------------------------
(***************************************************************************)
(* The links of an intrusive list are the list, and LruCache gives up its  *)
(* least recently used entry only: for every set of elements and heads,    *)
(* every capacity and every set of keys.                                   *)
(***************************************************************************)
EXTENDS Lists, FiniteSetTheorems, TLAPS

-----------------------------------------------------------------------------
(* Sequences. *)

\* One list behind another.
LEMMA Joined ==
  ASSUME NEW S, NEW a \in Seq(S), NEW b \in Seq(S)
  PROVE /\ a \o b \in Seq(S) /\ Len(a \o b) = Len(a) + Len(b)
        /\ \A i \in 1..Len(a) + Len(b): (a \o b)[i] = IF i <= Len(a) THEN a[i] ELSE b[i - Len(a)]
OBVIOUS

\* A list without its element at a place: what was behind it moves up.
LEMMA DroppedIs ==
  ASSUME NEW S, NEW s \in Seq(S), NEW k \in 1..Len(s)
  PROVE /\ Dropped(s, k) \in Seq(S) /\ Len(s) \in Nat /\ Len(Dropped(s, k)) = Len(s) - 1
        /\ \A i \in 1..Len(s) - 1: Dropped(s, k)[i] = IF i < k THEN s[i] ELSE s[i + 1]
<1> DEFINE a == SubSeq(s, 1, k - 1)
           b == SubSeq(s, k + 1, Len(s))
<1>1. Len(s) \in Nat
  OBVIOUS
<1>2. a \in Seq(S) /\ Len(a) = k - 1 /\ \A i \in 1..k - 1: a[i] = s[i]
  BY <1>1
<1>3. b \in Seq(S) /\ Len(b) = Len(s) - k /\ \A i \in 1..Len(s) - k: b[i] = s[k + i]
  BY <1>1
<1> HIDE DEF a, b
<1>4. /\ a \o b \in Seq(S) /\ Len(a \o b) = Len(a) + Len(b)
      /\ \A i \in 1..Len(a) + Len(b): (a \o b)[i] = IF i <= Len(a) THEN a[i] ELSE b[i - Len(a)]
  <2>1. a \in Seq(S) /\ b \in Seq(S)
    BY <1>2, <1>3
  <2> QED BY ONLY <2>1, Joined, Zenon
<1>5. ASSUME NEW i \in 1..Len(s) - 1
      PROVE (a \o b)[i] = IF i < k THEN s[i] ELSE s[i + 1]
  <2>1. CASE i < k
    BY <1>1, <1>2, <1>3, <1>4, <2>1
  <2>2. CASE ~(i < k)
    <3>1. (a \o b)[i] = b[i - (k - 1)] /\ i - (k - 1) \in 1..Len(s) - k
      BY <1>1, <1>2, <1>3, <1>4, <2>2
    <3>2. b[i - (k - 1)] = s[k + (i - (k - 1))]
      BY <1>3, <3>1
    <3>3. k + (i - (k - 1)) = i + 1
      OBVIOUS
    <3> QED BY <2>2, <3>1, <3>2, <3>3
  <2> QED BY <2>1, <2>2
<1>6. Dropped(s, k) = a \o b
  BY DEF Dropped, a, b
<1> QED BY ONLY <1>1, <1>2, <1>3, <1>4, <1>5, <1>6

-----------------------------------------------------------------------------
(* The intrusive list.  At(h, i) is the i-th stop of a walk from the head: *)
(* the head, the elements, and the head again.                             *)

Size(h) == Len(order[h])
At(h, i) == IF i \in 1..Size(h) THEN order[h][i] ELSE h

LinkTypes ==
  /\ prev \in [LinkNode -> LinkNode] /\ next \in [LinkNode -> LinkNode]
  /\ order \in [List -> Seq(Element)]

\* No element is in two places.
Apart ==
  \A g, h \in List: \A i \in 1..Size(g), j \in 1..Size(h):
    order[g][i] = order[h][j] => g = h /\ i = j

Linking ==
  \A h \in List: \A i \in 0..Size(h): next[At(h, i)] = At(h, i + 1) /\ prev[At(h, i + 1)] = At(h, i)

In(e, h) == \E i \in 1..Size(h): order[h][i] = e

Loose == \A e \in Element: (\A h \in List: ~In(e, h)) => prev[e] = e /\ next[e] = e

LinksInv == LinkTypes /\ Apart /\ Linking /\ Loose

\* What clear erases next is the first element, or the head.
ClearInv == /\ clearing \in List \cup {None}
            /\ clearing # None => iter = next[clearing]

\* Sizes, and the stops of a walk.
LEMMA Stops ==
  ASSUME LinkTypes, NEW h \in List
  PROVE /\ Size(h) \in Nat /\ order[h] \in Seq(Element) /\ Len(order[h]) = Size(h)
        /\ \A i \in 1..Size(h): order[h][i] \in Element /\ At(h, i) = order[h][i]
        /\ \A i: i \notin 1..Size(h) => At(h, i) = h
        /\ \A i: At(h, i) \in LinkNode
        /\ DOMAIN order[h] = 1..Size(h)
<1>1. order[h] \in Seq(Element)
  BY DEF LinkTypes
<1> QED BY <1>1 DEF Size, At, LinkNode

\* Different stops are different nodes, in one list and in two.
LEMMA StopsApart ==
  ASSUME LinkTypes, Apart, NEW g \in List, NEW h \in List, NEW i \in 0..Size(g), NEW j \in 0..Size(h),
         At(g, i) = At(h, j)
  PROVE g = h /\ i = j
<1>1. /\ Size(g) \in Nat /\ (i \in 1..Size(g) => At(g, i) \in Element /\ At(g, i) = order[g][i]) /\ (i = 0 => At(g, i) = g)
      /\ Size(h) \in Nat /\ (j \in 1..Size(h) => At(h, j) \in Element /\ At(h, j) = order[h][j]) /\ (j = 0 => At(h, j) = h)
  BY Stops
<1>2. CASE i = 0 \/ j = 0
  BY <1>1, <1>2, ListAssumption
<1>3. CASE i # 0 /\ j # 0
  BY <1>1, <1>3 DEF Apart
<1> QED BY <1>2, <1>3

\* The same, with the head behind the elements.
LEMMA StopsApartBehind ==
  ASSUME LinkTypes, Apart, NEW g \in List, NEW h \in List, NEW i \in 1..Size(g) + 1, NEW j \in 1..Size(h) + 1,
         At(g, i) = At(h, j)
  PROVE g = h /\ i = j
<1>1. /\ Size(g) \in Nat /\ (i \in 1..Size(g) => At(g, i) \in Element /\ At(g, i) = order[g][i])
      /\ (i = Size(g) + 1 => At(g, i) = g)
      /\ Size(h) \in Nat /\ (j \in 1..Size(h) => At(h, j) \in Element /\ At(h, j) = order[h][j])
      /\ (j = Size(h) + 1 => At(h, j) = h)
  BY Stops
<1>2. CASE i = Size(g) + 1 \/ j = Size(h) + 1
  BY <1>1, <1>2, ListAssumption
<1>3. CASE i # Size(g) + 1 /\ j # Size(h) + 1
  BY <1>1, <1>3 DEF Apart
<1> QED BY <1>2, <1>3

\* Exactly the elements of a list are linked.
LEMMA LinkedIs ==
  ASSUME LinksInv, NEW e \in Element
  PROVE is_linked(e) <=> \E h \in List: In(e, h)
<1>1. ASSUME NEW h \in List, NEW i \in 1..Size(h), order[h][i] = e PROVE next[e] # e
  <2>1. Size(h) \in Nat /\ At(h, i) = e
    BY <1>1, Stops DEF LinksInv
  <2>2. next[e] = At(h, i + 1)
    BY <2>1 DEF LinksInv, Linking
  <2>3. CASE i < Size(h)
    <3>1. i + 1 \in 0..Size(h) /\ i \in 0..Size(h) /\ i # i + 1
      BY <2>1, <2>3
    <3> QED BY <2>1, <2>2, <3>1, StopsApart DEF LinksInv
  <2>4. CASE i = Size(h)
    <3>1. At(h, i + 1) = h
      BY <2>1, <2>4, Stops DEF LinksInv
    <3> QED BY <2>2, <3>1, ListAssumption
  <2> QED BY <2>1, <2>3, <2>4
<1>2. (\A h \in List: ~In(e, h)) => ~is_linked(e)
  BY DEF LinksInv, Loose, is_linked
<1> QED BY <1>1, <1>2 DEF In, is_linked

\* Every list is empty at the start.
LEMMA ListStarts == ASSUME ListInit PROVE LinksInv /\ ClearInv
<1>1. LinkTypes /\ ClearInv
  BY DEF ListInit, LinkTypes, ClearInv
<1>2. \A h \in List: order[h] = <<>> /\ Size(h) = 0
  BY DEF ListInit, Size
<1>3. Apart /\ Loose
  BY <1>2 DEF ListInit, Apart, Loose, LinkNode
<1>4. \A h \in List: \A i: At(h, i) = h
  BY <1>2 DEF At
<1>5. Linking
  BY <1>2, <1>4 DEF ListInit, Linking, LinkNode
<1> QED BY <1>1, <1>3, <1>5 DEF LinksInv

\* A push, anywhere in a list: e comes behind the stop k.
Pushed(h, e, k) ==
  LET s == order'[h]
  IN /\ Add(e, At(h, k), At(h, k + 1))
     /\ order' = [order EXCEPT ![h] = s] /\ s \in Seq(Element) /\ Len(s) = Size(h) + 1
     /\ \A i \in 1..k: s[i] = order[h][i]
     /\ s[k + 1] = e
     /\ \A i \in k + 1..Size(h): s[i + 1] = order[h][i]

\* The links of a node that is put into a list.
LEMMA PushKeeps ==
  ASSUME LinksInv, NEW h \in List, NEW e \in Element, ~is_linked(e), NEW k \in 0..Size(h), Pushed(h, e, k)
  PROVE LinksInv'
<1> DEFINE p == At(h, k)
           n == At(h, k + 1)
<1>t. LinkTypes /\ Size(h) \in Nat /\ LinkTypes' /\ p \in LinkNode /\ n \in LinkNode /\ e \in LinkNode
  <2>1. LinkTypes /\ Size(h) \in Nat /\ p \in LinkNode /\ n \in LinkNode /\ e \in LinkNode
    BY Stops DEF LinksInv, LinkNode
  <2>2. prev' \in [LinkNode -> LinkNode] /\ next' \in [LinkNode -> LinkNode]
    <3>1. prev \in [LinkNode -> LinkNode] /\ next \in [LinkNode -> LinkNode]
      BY <2>1 DEF LinkTypes
    <3>2. prev' = [prev EXCEPT ![n] = e, ![e] = p] /\ next' = [next EXCEPT ![e] = n, ![p] = e]
      BY DEF Pushed, Add
    <3> HIDE DEF p, n
    <3> QED BY ONLY <2>1, <3>1, <3>2
  <2>3. order' \in [List -> Seq(Element)]
    BY <2>1 DEF Pushed, LinkTypes
  <2> QED BY <2>1, <2>2, <2>3 DEF LinkTypes
<1>1. \A g \in List: ~In(e, g)
  BY LinkedIs
<1>2. \A g \in List: \A i \in 0..Size(g) + 1: At(g, i) # e
  <2> SUFFICES ASSUME NEW g \in List, NEW i PROVE At(g, i) # e
    OBVIOUS
  <2>1. CASE i \in 1..Size(g)
    BY <1>1, <1>t, <2>1, Stops DEF In
  <2>2. CASE i \notin 1..Size(g)
    BY <1>t, <2>2, Stops, ListAssumption
  <2> QED BY <2>1, <2>2
<1>3. /\ \A m \in LinkNode: prev'[m] = IF m = e THEN p ELSE IF m = n THEN e ELSE prev[m]
      /\ \A m \in LinkNode: next'[m] = IF m = p THEN e ELSE IF m = e THEN n ELSE next[m]
  BY <1>t DEF Pushed, Add, LinkTypes
<1>4. \A g \in List \ {h}: Size(g)' = Size(g) /\ order'[g] = order[g] /\ \A i: At(g, i)' = At(g, i)
  BY <1>t DEF Pushed, LinkTypes, Size, At
<1>5. Size(h)' = Size(h) + 1
  BY DEF Pushed, Size
<1>6. /\ \A i \in 0..k: At(h, i)' = At(h, i)
      /\ At(h, k + 1)' = e
      /\ \A i \in k + 1..Size(h) + 1: At(h, i + 1)' = At(h, i)
  <2>1. \A i \in 0..k: At(h, i)' = At(h, i)
    BY <1>t, <1>5 DEF Pushed, At
  <2>2. At(h, k + 1)' = e
    BY <1>t, <1>5 DEF Pushed, At
  <2>3. \A i \in k + 1..Size(h) + 1: At(h, i + 1)' = At(h, i)
    BY <1>t, <1>5 DEF Pushed, At
  <2> QED BY <2>1, <2>2, <2>3
<1> HIDE DEF p, n
<1>7. \A g \in List: \A i \in 1..Size(g)':
        \/ g = h /\ i = k + 1 /\ order'[g][i] = e
        \/ g = h /\ i > k + 1 /\ i - 1 \in 1..Size(g) /\ order'[g][i] = order[g][i - 1]
        \/ (g = h => i <= k) /\ i \in 1..Size(g) /\ order'[g][i] = order[g][i]
  <2> SUFFICES ASSUME NEW i \in 1..Size(h) + 1
               PROVE \/ i = k + 1 /\ order'[h][i] = e
                     \/ i > k + 1 /\ i - 1 \in 1..Size(h) /\ order'[h][i] = order[h][i - 1]
                     \/ i <= k /\ i \in 1..Size(h) /\ order'[h][i] = order[h][i]
    BY <1>4, <1>5
  <2>1. CASE i <= k
    BY <1>t, <2>1 DEF Pushed
  <2>2. CASE i = k + 1
    BY <2>2 DEF Pushed
  <2>3. CASE i > k + 1
    <3>1. i - 1 \in k + 1..Size(h) /\ i - 1 \in 1..Size(h) /\ (i - 1) + 1 = i
      BY <1>t, <2>3
    <3> QED BY <2>3, <3>1 DEF Pushed
  <2> QED BY <1>t, <2>1, <2>2, <2>3
<1>8. Apart'
  <2> SUFFICES ASSUME NEW f \in List, NEW g \in List, NEW i \in 1..Size(f)', NEW j \in 1..Size(g)',
                      order'[f][i] = order'[g][j]
               PROVE f = g /\ i = j
    BY DEF Apart
  <2>1. \A m \in 1..Size(f): order[f][m] # e
    BY <1>1 DEF In
  <2>2. \A m \in 1..Size(g): order[g][m] # e
    BY <1>1 DEF In
  <2>3. \A l \in 1..Size(f), m \in 1..Size(g): order[f][l] = order[g][m] => f = g /\ l = m
    BY DEF LinksInv, Apart
  <2> QED BY <1>7, <2>1, <2>2, <2>3
<1>9. ASSUME NEW g \in List \ {h}, NEW i \in 0..Size(g)
      PROVE next'[At(g, i)] = At(g, i + 1) /\ prev'[At(g, i + 1)] = At(g, i)
  <2>1. /\ Size(g) \in Nat /\ At(g, i) \in LinkNode /\ At(g, i + 1) \in LinkNode
        /\ At(g, i) # e /\ At(g, i + 1) # e
    BY <1>t, <1>2, Stops
  <2>2. At(g, i) # p
    BY <1>t, StopsApart DEF LinksInv, p
  <2>3. i + 1 \in 1..Size(g) + 1 /\ k + 1 \in 1..Size(h) + 1
    BY <1>t, <2>1
  <2>4. At(g, i + 1) # n
    BY <1>t, <2>3, StopsApartBehind DEF LinksInv, n
  <2>5. next[At(g, i)] = At(g, i + 1) /\ prev[At(g, i + 1)] = At(g, i)
    BY DEF LinksInv, Linking
  <2> QED BY <1>3, <2>1, <2>2, <2>4, <2>5
<1>10. ASSUME NEW i \in 0..Size(h), i # k
       PROVE next'[At(h, i)] = At(h, i + 1) /\ prev'[At(h, i + 1)] = At(h, i)
  <2>1. /\ At(h, i) \in LinkNode /\ At(h, i + 1) \in LinkNode
        /\ At(h, i) # e /\ At(h, i + 1) # e
    BY <1>t, <1>2, Stops
  <2>2. At(h, i) # p
    BY <1>10, <1>t, StopsApart DEF LinksInv, p
  <2>3. i + 1 \in 1..Size(h) + 1 /\ k + 1 \in 1..Size(h) + 1
    BY <1>t
  <2>4. At(h, i + 1) # n
    BY <1>10, <1>t, <2>3, StopsApartBehind DEF LinksInv, n
  <2>5. next[At(h, i)] = At(h, i + 1) /\ prev[At(h, i + 1)] = At(h, i)
    BY DEF LinksInv, Linking
  <2> QED BY <1>3, <2>1, <2>2, <2>4, <2>5
<1>11. Linking'
  <2> SUFFICES ASSUME NEW g \in List, NEW i \in 0..Size(g)'
               PROVE next'[At(g, i)'] = At(g, i + 1)' /\ prev'[At(g, i + 1)'] = At(g, i)'
    BY DEF Linking
  <2>1. CASE g # h
    BY <1>4, <1>9, <2>1
  <2>2. CASE g = h /\ i < k
    <3>1. i \in 0..Size(h) /\ i # k /\ i \in 0..k /\ i + 1 \in 0..k
      BY <1>t, <2>2
    <3> QED BY <1>6, <1>10, <2>2, <3>1
  <2>3. CASE g = h /\ i = k
    BY <1>3, <1>6, <1>t, <2>3 DEF p
  <2>4. CASE g = h /\ i = k + 1
    <3>1. At(h, i)' = e /\ At(h, i + 1)' = n /\ n # e /\ p # e
      BY <1>2, <1>6, <1>t, <2>4 DEF n, p
    <3> QED BY <1>3, <1>t, <2>4, <3>1
  <2>5. CASE g = h /\ i > k + 1
    <3>1. PICK j \in Int: j = i - 1
      BY <1>t, <1>5, <2>5
    <3>2. /\ j \in 0..Size(h) /\ j # k /\ j \in k + 1..Size(h) + 1 /\ j + 1 \in k + 1..Size(h) + 1
          /\ i = j + 1 /\ i + 1 = (j + 1) + 1
      BY <1>t, <1>5, <2>5, <3>1
    <3>3. At(h, i)' = At(h, j) /\ At(h, i + 1)' = At(h, j + 1)
      BY <1>6, <3>2
    <3> QED BY <1>10, <2>5, <3>2, <3>3
  <2> QED BY <1>t, <1>5, <2>1, <2>2, <2>3, <2>4, <2>5
<1>12. Loose'
  <2> SUFFICES ASSUME NEW x \in Element, \A g \in List: ~In(x, g)'
               PROVE prev'[x] = x /\ next'[x] = x
    BY DEF Loose
  <2>1. x # e
    BY <1>5, <1>t DEF In, Pushed
  <2>2. \A g \in List: ~In(x, g)
    <3> SUFFICES ASSUME NEW g \in List, NEW i \in 1..Size(g), order[g][i] = x PROVE FALSE
      BY DEF In
    <3>1. CASE g # h
      BY <1>4, <3>1 DEF In
    <3>2. CASE g = h /\ i <= k
      BY <1>5, <1>t, <3>2 DEF In, Pushed
    <3>3. CASE g = h /\ i > k
      <4>1. i \in k + 1..Size(h) /\ i + 1 \in 1..Size(h) + 1
        BY <1>t, <3>3
      <4>2. order'[h][i + 1] = x
        BY <3>3, <4>1 DEF Pushed
      <4> QED BY <1>5, <4>1, <4>2 DEF In
    <3> QED BY <1>t, <3>1, <3>2, <3>3
  <2>3. x # p /\ x # n
    BY <1>t, <2>2, ListAssumption DEF p, n, At, In
  <2> QED BY <1>3, <2>1, <2>2, <2>3 DEF LinksInv, Loose, LinkNode
<1> QED BY <1>t, <1>8, <1>11, <1>12 DEF LinksInv

\* The links around a node that is taken out of its list.
LEMMA TakeKeeps ==
  ASSUME LinksInv, NEW h \in List, NEW k \in 1..Size(h), NEW e, e = order[h][k], erase(e)
  PROVE LinksInv' /\ next'[h] = IF k = 1 THEN next[e] ELSE next[h]
<1> DEFINE p == At(h, k - 1)
           n == At(h, k + 1)
<1>1. LinkTypes /\ Size(h) \in Nat /\ e \in Element /\ e \in LinkNode /\ h \in LinkNode /\ e # h
  BY Stops, ListAssumption DEF LinksInv, LinkNode
<1>2. At(h, k) = e /\ k - 1 \in 0..Size(h) /\ k \in 0..Size(h) /\ k + 1 \in 1..Size(h) + 1 /\ k \in 1..Size(h) + 1
  BY <1>1, Stops
<1>3. p \in LinkNode /\ n \in LinkNode
  BY <1>1, Stops
<1>4. p # e /\ n # e
  <2>1. p # e
    BY <1>1, <1>2, StopsApart DEF LinksInv
  <2>2. n # e
    BY <1>1, <1>2, StopsApartBehind DEF LinksInv
  <2> QED BY <2>1, <2>2
<1>5. prev[e] = p /\ next[e] = n
  <2>1. prev[At(h, (k - 1) + 1)] = p /\ next[At(h, k)] = n
    BY <1>2 DEF LinksInv, Linking
  <2>2. (k - 1) + 1 = k
    OBVIOUS
  <2> QED BY <1>2, <2>1, <2>2
<1>6. /\ prev \in [LinkNode -> LinkNode] /\ next \in [LinkNode -> LinkNode]
      /\ prev' = [[prev EXCEPT ![n] = p] EXCEPT ![e] = e]
      /\ next' = [[next EXCEPT ![p] = n] EXCEPT ![e] = e]
  BY <1>1, <1>5 DEF erase, Unlink, LinkTypes
<1> HIDE DEF p, n
<1>7. /\ prev' \in [LinkNode -> LinkNode] /\ next' \in [LinkNode -> LinkNode]
      /\ \A m \in LinkNode: prev'[m] = IF m = e THEN e ELSE IF m = n THEN p ELSE prev[m]
      /\ \A m \in LinkNode: next'[m] = IF m = e THEN e ELSE IF m = p THEN n ELSE next[m]
  <2>1. prev' \in [LinkNode -> LinkNode] /\ \A m \in LinkNode: prev'[m] = IF m = e THEN e ELSE IF m = n THEN p ELSE prev[m]
    BY ONLY <1>1, <1>3, <1>6
  <2>2. next' \in [LinkNode -> LinkNode] /\ \A m \in LinkNode: next'[m] = IF m = e THEN e ELSE IF m = p THEN n ELSE next[m]
    BY ONLY <1>1, <1>3, <1>6
  <2> QED BY <2>1, <2>2
<1>8. /\ order'[h] = Dropped(order[h], k) /\ order' \in [List -> Seq(Element)]
      /\ \A g \in List \ {h}: order'[g] = order[g]
  <2>1. order' = [g \in List |-> IF \E i \in DOMAIN order[g]: order[g][i] = e
                                 THEN Dropped(order[g], CHOOSE i \in DOMAIN order[g]: order[g][i] = e)
                                 ELSE order[g]]
    BY DEF erase, Without
  <2>2. \A i \in DOMAIN order[h]: order[h][i] = e <=> i = k
    BY <1>1, Stops DEF LinksInv, Apart
  <2>3. (CHOOSE i \in DOMAIN order[h]: order[h][i] = e) = k /\ k \in DOMAIN order[h]
    BY <1>1, <2>2, Stops
  <2>4. order'[h] = Dropped(order[h], k)
    BY <2>1, <2>3
  <2>5. ASSUME NEW g \in List \ {h} PROVE order'[g] = order[g]
    <3>1. \A i \in DOMAIN order[g]: order[g][i] # e
      BY <1>1, Stops DEF LinksInv, Apart
    <3> QED BY <2>1, <3>1
  <2>6. Dropped(order[h], k) \in Seq(Element) /\ order \in [List -> Seq(Element)]
    BY <1>1, Stops, DroppedIs DEF LinkTypes
  <2>7. \A g \in List: order'[g] \in Seq(Element)
    BY <2>4, <2>5, <2>6
  <2>8. order' = [g \in List |-> order'[g]]
    BY ONLY <2>1
  <2> QED BY <2>4, <2>5, <2>7, <2>8
<1>9. LinkTypes'
  BY <1>7, <1>8 DEF LinkTypes
<1>10. \A g \in List \ {h}: Size(g)' = Size(g) /\ \A i: At(g, i)' = At(g, i)
  BY <1>8 DEF Size, At
<1>11. /\ Size(h)' = Size(h) - 1
       /\ \A i \in 1..Size(h) - 1: order'[h][i] = IF i < k THEN order[h][i] ELSE order[h][i + 1]
  <2>1. order[h] \in Seq(Element) /\ k \in 1..Len(order[h]) /\ Len(order[h]) = Size(h)
    BY <1>1, Stops
  <2>2. /\ Len(Dropped(order[h], k)) = Len(order[h]) - 1
        /\ \A i \in 1..Len(order[h]) - 1: Dropped(order[h], k)[i] = IF i < k THEN order[h][i] ELSE order[h][i + 1]
    BY ONLY <2>1, DroppedIs, Zenon
  <2> QED BY ONLY <1>8, <2>1, <2>2 DEF Size
<1>12. /\ \A i \in 0..k - 1: At(h, i)' = At(h, i)
       /\ \A i \in k..Size(h): At(h, i)' = At(h, i + 1)
  BY <1>1, <1>11 DEF At
<1>13. ASSUME NEW g \in List, NEW i \in 0..Size(g), g = h => i # k - 1 /\ i # k
       PROVE next'[At(g, i)] = At(g, i + 1) /\ prev'[At(g, i + 1)] = At(g, i)
  <2>1. Size(g) \in Nat /\ At(g, i) \in LinkNode /\ At(g, i + 1) \in LinkNode /\ i + 1 \in 1..Size(g) + 1
    BY <1>1, Stops
  <2>2. At(g, i) # p /\ At(g, i) # e
    BY <1>1, <1>2, <1>13, StopsApart DEF LinksInv, p
  <2>3. At(g, i + 1) # n
    BY <1>1, <1>2, <1>13, <2>1, StopsApartBehind DEF LinksInv, n
  <2>4. At(g, i + 1) # e
    BY <1>1, <1>2, <1>13, <2>1, StopsApartBehind DEF LinksInv
  <2>5. next[At(g, i)] = At(g, i + 1) /\ prev[At(g, i + 1)] = At(g, i)
    BY DEF LinksInv, Linking
  <2> QED BY <1>7, <2>1, <2>2, <2>3, <2>4, <2>5
<1>14. Linking'
  <2> SUFFICES ASSUME NEW g \in List, NEW i \in 0..Size(g)'
               PROVE next'[At(g, i)'] = At(g, i + 1)' /\ prev'[At(g, i + 1)'] = At(g, i)'
    BY DEF Linking
  <2>1. CASE g # h
    BY <1>10, <1>13, <2>1
  <2>2. CASE g = h /\ i < k - 1
    <3>1. i \in 0..Size(h) /\ i # k - 1 /\ i # k /\ i \in 0..k - 1 /\ i + 1 \in 0..k - 1
      BY <1>1, <2>2
    <3> QED BY <1>12, <1>13, <2>2, <3>1
  <2>3. CASE g = h /\ i = k - 1
    <3>1. At(h, i)' = p /\ At(h, i + 1)' = n
      BY <1>1, <1>12, <2>3 DEF p, n
    <3> QED BY <1>3, <1>4, <1>7, <2>3, <3>1
  <2>4. CASE g = h /\ i >= k
    <3>1. PICK j \in Int: j = i + 1
      BY <1>1, <1>11, <2>4
    <3>2. j \in 0..Size(h) /\ j # k - 1 /\ j # k /\ i \in k..Size(h) /\ j \in k..Size(h)
      BY <1>1, <1>11, <2>4, <3>1
    <3>3. At(h, i)' = At(h, j) /\ At(h, i + 1)' = At(h, j + 1)
      BY <1>12, <3>1, <3>2
    <3> QED BY <1>13, <2>4, <3>2, <3>3
  <2> QED BY <1>1, <1>11, <2>1, <2>2, <2>3, <2>4
<1>15. Apart'
  <2> SUFFICES ASSUME NEW f \in List, NEW g \in List, NEW i \in 1..Size(f)', NEW j \in 1..Size(g)',
                      order'[f][i] = order'[g][j]
               PROVE f = g /\ i = j
    BY DEF Apart
  <2>1. \A l \in 1..Size(f), m \in 1..Size(g): order[f][l] = order[g][m] => f = g /\ l = m
    BY DEF LinksInv, Apart
  <2>2. \/ f = h /\ i >= k /\ i + 1 \in 1..Size(f) /\ order'[f][i] = order[f][i + 1]
        \/ (f = h => i < k) /\ i \in 1..Size(f) /\ order'[f][i] = order[f][i]
    BY <1>1, <1>8, <1>10, <1>11
  <2>3. \/ g = h /\ j >= k /\ j + 1 \in 1..Size(g) /\ order'[g][j] = order[g][j + 1]
        \/ (g = h => j < k) /\ j \in 1..Size(g) /\ order'[g][j] = order[g][j]
    BY <1>1, <1>8, <1>10, <1>11
  <2> QED BY <2>1, <2>2, <2>3
<1>16. Loose'
  <2> SUFFICES ASSUME NEW x \in Element, \A g \in List: ~In(x, g)'
               PROVE prev'[x] = x /\ next'[x] = x
    BY DEF Loose
  <2>1. CASE x = e
    BY <1>1, <1>7, <2>1
  <2>2. CASE x # e
    <3>1. \A g \in List: ~In(x, g)
      <4> SUFFICES ASSUME NEW g \in List, NEW i \in 1..Size(g), order[g][i] = x PROVE FALSE
        BY DEF In
      <4>1. CASE g # h
        BY <1>8, <1>10, <4>1 DEF In
      <4>2. CASE g = h /\ i < k
        <5>1. i \in 1..Size(h) - 1 /\ order'[h][i] = x
          BY <1>1, <1>11, <4>2
        <5> QED BY <1>11, <5>1 DEF In
      <4>3. CASE g = h /\ i > k
        <5>1. i - 1 \in 1..Size(h) - 1 /\ order'[h][i - 1] = order[h][(i - 1) + 1]
          BY <1>1, <1>11, <4>3
        <5>2. (i - 1) + 1 = i
          OBVIOUS
        <5> QED BY <1>11, <4>3, <5>1, <5>2 DEF In
      <4> QED BY <1>1, <2>2, <4>1, <4>2, <4>3
    <3>2. x # p /\ x # n
      BY <1>1, <3>1, ListAssumption DEF p, n, At, In
    <3> QED BY <1>7, <2>2, <3>1, <3>2 DEF LinksInv, Loose, LinkNode
  <2> QED BY <2>1, <2>2
<1>17. next'[h] = IF k = 1 THEN next[e] ELSE next[h]
  <2>1. h = p <=> k = 1
    BY <1>1, Stops, ListAssumption DEF p
  <2> QED BY <1>1, <1>5, <1>7, <2>1
<1>18. LinksInv'
  BY <1>9, <1>14, <1>15, <1>16 DEF LinksInv
<1> QED BY <1>17, <1>18

\* Nothing is taken from a list when the element is in none.
LEMMA EraseKeeps ==
  ASSUME LinksInv, NEW e \in Element, erase(e)
  PROVE LinksInv'
<1>1. CASE \E h \in List: In(e, h)
  <2>1. PICK h \in List: \E k \in 1..Size(h): order[h][k] = e
    BY <1>1 DEF In
  <2> QED BY <2>1, TakeKeeps
<1>2. CASE \A h \in List: ~In(e, h)
  <2>1. prev[e] = e /\ next[e] = e /\ LinkTypes /\ e \in LinkNode
    BY <1>2 DEF LinksInv, Loose, LinkNode
  <2>2. prev' = prev /\ next' = next
    BY <2>1 DEF erase, Unlink, LinkTypes
  <2>3. \A h \in List: ~ \E i \in DOMAIN order[h]: order[h][i] = e
    BY <1>2, <2>1, Stops DEF In
  <2>4. order' = [h \in List |-> order[h]]
    BY <2>3 DEF erase, Without
  <2>5. order' = order
    BY <2>1, <2>4 DEF LinkTypes
  <2> QED BY <2>2, <2>5 DEF LinksInv, LinkTypes, Apart, Linking, Loose, In, Size, At
<1> QED BY <1>1, <1>2

\* The first and the last element are the neighbours of the head.
LEMMA FirstAndLast ==
  ASSUME LinksInv, NEW h \in List, ~empty(h)
  PROVE 1 \in 1..Size(h) /\ next[h] = order[h][1] /\ prev[h] = order[h][Size(h)] /\ Size(h) \in 1..Size(h)
<1>1. LinkTypes /\ Size(h) \in Nat /\ At(h, 0) = h /\ At(h, Size(h) + 1) = h
  BY Stops DEF LinksInv
<1>2. next[h] = At(h, 0 + 1) /\ prev[h] = At(h, Size(h))
  BY <1>1 DEF LinksInv, Linking
<1>3. Size(h) # 0
  BY <1>1, <1>2, Stops DEF empty
<1> QED BY <1>1, <1>2, <1>3, Stops

\* A step of the program on its lists.
LEMMA ListStep == LinksInv /\ ClearInv /\ [ListNext]_list_vars => (LinksInv /\ ClearInv)'
<1> SUFFICES ASSUME LinksInv, ClearInv, [ListNext]_list_vars PROVE LinksInv' /\ ClearInv'
  OBVIOUS
<1>t. LinkTypes /\ \A h \in List: Size(h) \in Nat /\ order[h] \in Seq(Element) /\ Len(order[h]) = Size(h)
  BY Stops DEF LinksInv
<1>1. CASE UNCHANGED list_vars
  BY <1>1 DEF list_vars, LinksInv, LinkTypes, Apart, Linking, Loose, In, Size, At, ClearInv
<1>2. ASSUME clearing = None, UNCHANGED <<clearing, iter>> PROVE ClearInv'
  BY <1>2 DEF ClearInv
<1>3. ASSUME NEW h \in List, NEW e \in Element, push_front(h, e) PROVE LinksInv'
  <2>1. order' = [order EXCEPT ![h] = order'[h]] /\ order'[h] = <<e>> \o order[h]
    BY <1>3, <1>t DEF push_front, LinkTypes
  <2>2. <<e>> \in Seq(Element) /\ Len(<<e>>) = 1 /\ <<e>>[1] = e
    OBVIOUS
  <2>3. /\ order'[h] \in Seq(Element) /\ Len(order'[h]) = 1 + Size(h)
        /\ \A i \in 1..1 + Size(h): order'[h][i] = IF i <= 1 THEN <<e>>[i] ELSE order[h][i - 1]
    BY <1>t, <2>1, <2>2, Joined
  <2>4. order'[h][1] = e /\ \A i \in 1..Size(h): order'[h][i + 1] = order[h][i]
    BY <1>t, <2>2, <2>3
  <2>5. At(h, 0) = h /\ At(h, 0 + 1) = next[h]
    <3>1. At(h, 0) = h
      BY <1>t, Stops
    <3> QED BY <1>t, <3>1 DEF LinksInv, Linking
  <2>6. Pushed(h, e, 0)
    BY <1>3, <1>t, <2>1, <2>3, <2>4, <2>5 DEF Pushed, push_front
  <2> QED BY <1>3, <1>t, <2>6, PushKeeps DEF push_front
<1>4. ASSUME NEW h \in List, NEW e \in Element, push_back(h, e) PROVE LinksInv'
  <2>1. order' = [order EXCEPT ![h] = order'[h]] /\ order'[h] = Append(order[h], e)
    BY <1>4, <1>t DEF push_back, LinkTypes
  <2>2. /\ order'[h] \in Seq(Element) /\ Len(order'[h]) = Size(h) + 1
        /\ \A i \in 1..Size(h): order'[h][i] = order[h][i]
        /\ order'[h][Size(h) + 1] = e
    BY <1>t, <2>1
  <2>3. At(h, Size(h)) = prev[h] /\ At(h, Size(h) + 1) = h
    <3>1. At(h, Size(h) + 1) = h
      BY <1>t, Stops
    <3>2. Size(h) \in 0..Size(h)
      BY <1>t
    <3> QED BY <3>1, <3>2 DEF LinksInv, Linking
  <2>4. \A i \in Size(h) + 1..Size(h): FALSE
    BY <1>t
  <2>5. Pushed(h, e, Size(h))
    BY <1>4, <2>1, <2>2, <2>3, <2>4 DEF Pushed, push_back
  <2>6. Size(h) \in 0..Size(h)
    BY <1>t
  <2> QED BY <1>4, <2>5, <2>6, PushKeeps DEF push_back
<1>5. ASSUME NEW h \in List, pop_front(h) \/ pop_back(h) PROVE LinksInv'
  <2>1. next[h] \in Element /\ prev[h] \in Element
    BY <1>5, <1>t, FirstAndLast, Stops DEF pop_front, pop_back
  <2> QED BY <1>5, <2>1, EraseKeeps DEF pop_front, pop_back
<1>6. ASSUME NEW h \in List, clear(h) PROVE LinksInv' /\ ClearInv'
  <2>1. ClearInv'
    BY <1>6 DEF clear, ClearInv
  <2> QED BY <1>6, <2>1 DEF clear, LinksInv, LinkTypes, Apart, Linking, Loose, In, Size, At
<1>7. CASE ClearNext /\ iter = clearing
  <2>1. UNCHANGED <<prev, next, order>> /\ clearing' = None
    BY <1>7 DEF ClearNext
  <2> QED BY <2>1 DEF LinksInv, LinkTypes, Apart, Linking, Loose, In, Size, At, ClearInv
<1>8. CASE ClearNext /\ iter # clearing
  <2>1. clearing \in List /\ iter = next[clearing] /\ iter' = next[iter] /\ clearing' = clearing /\ erase(iter)
    BY <1>8 DEF ClearNext, ClearInv
  <2>2. 1 \in 1..Size(clearing) /\ iter = order[clearing][1]
    BY <1>8, <2>1, FirstAndLast DEF empty
  <2>3. LinksInv' /\ next'[clearing] = next[iter]
    BY <2>1, <2>2, TakeKeeps
  <2> QED BY <2>1, <2>3 DEF ClearInv
<1>9. CASE ListNext
  <2>1. CASE clearing = None /\ UNCHANGED <<clearing, iter>>
             /\ \/ \E h \in List: \/ \E e \in Element: push_front(h, e) \/ push_back(h, e)
                                  \/ pop_front(h) \/ pop_back(h)
                \/ \E e \in Element: erase(e)
    BY <1>2, <1>3, <1>4, <1>5, <2>1, EraseKeeps
  <2> QED BY <1>6, <1>7, <1>8, <1>9, <2>1 DEF ListNext
<1> QED BY <1>1, <1>9

\* intrusive_list: the invariant says what the walks and is_linked say.
LEMMA LinksAgree == LinksInv => LinksAreTheList
<1> SUFFICES ASSUME LinksInv PROVE LinksAreTheList
  OBVIOUS
<1>1. ASSUME NEW h \in List
      PROVE LET walk == <<h>> \o order[h] \o <<h>>
            IN \A i \in 1..Len(walk) - 1: next[walk[i]] = walk[i + 1] /\ prev[walk[i + 1]] = walk[i]
  <2> DEFINE head  == <<h>>
             front == head \o order[h]
             walk  == front \o head
  <2>1. LinkTypes /\ Size(h) \in Nat /\ order[h] \in Seq(LinkNode) /\ Len(order[h]) = Size(h) /\ h \in LinkNode
    BY Stops DEF LinksInv, LinkNode
  <2>2. head \in Seq(LinkNode) /\ Len(head) = 1 /\ head[1] = h
    BY <2>1
  <2> HIDE DEF head
  <2>3. /\ front \in Seq(LinkNode) /\ Len(front) = 1 + Size(h)
        /\ \A j \in 1..1 + Size(h): front[j] = IF j <= 1 THEN head[j] ELSE order[h][j - 1]
    <3>1. /\ front \in Seq(LinkNode) /\ Len(front) = Len(head) + Len(order[h])
          /\ \A j \in 1..Len(head) + Len(order[h]):
               front[j] = IF j <= Len(head) THEN head[j] ELSE order[h][j - Len(head)]
      BY ONLY <2>1, <2>2, Joined, Zenon
    <3> QED BY ONLY <2>1, <2>2, <3>1
  <2> HIDE DEF front
  <2>4. /\ Len(walk) = (1 + Size(h)) + 1
        /\ \A j \in 1..(1 + Size(h)) + 1:
             walk[j] = IF j <= 1 + Size(h) THEN front[j] ELSE head[j - (1 + Size(h))]
    <3>1. /\ Len(walk) = Len(front) + Len(head)
          /\ \A j \in 1..Len(front) + Len(head):
               walk[j] = IF j <= Len(front) THEN front[j] ELSE head[j - Len(front)]
      BY ONLY <2>2, <2>3, Joined, Zenon
    <3> QED BY ONLY <2>2, <2>3, <3>1
  <2> HIDE DEF walk
  <2>5. ASSUME NEW j \in 1..Size(h) + 2 PROVE walk[j] = At(h, j - 1)
    <3>1. CASE j = 1
      BY <2>1, <2>2, <2>3, <2>4, <3>1 DEF At
    <3>2. CASE j \in 2..Size(h) + 1
      BY <2>1, <2>3, <2>4, <3>2 DEF At
    <3>3. CASE j = Size(h) + 2
      BY <2>1, <2>2, <2>4, <3>3 DEF At
    <3> QED BY <2>1, <3>1, <3>2, <3>3
  <2>6. ASSUME NEW i \in 1..Len(walk) - 1
        PROVE next[walk[i]] = walk[i + 1] /\ prev[walk[i + 1]] = walk[i]
    <3>1. i - 1 \in 0..Size(h) /\ i \in 1..Size(h) + 2 /\ i + 1 \in 1..Size(h) + 2 /\ (i + 1) - 1 = (i - 1) + 1
      BY <2>1, <2>4
    <3> QED BY <2>5, <3>1 DEF LinksInv, Linking
  <2> QED BY <2>6, Zenon DEF walk, front, head
<1>2. \A e \in Element, h \in List: e \in Range(order[h]) <=> In(e, h)
  BY Stops DEF LinksInv, In, Range
<1> QED BY <1>1, <1>2, LinkedIs, Zenon DEF LinksAreTheList

\* intrusive_list, for every set of elements and lists: no sequence of pushes, pops,
\* erasures, destructions and clears leaves a link that is not of the list.
THEOREM LinksAreTheListCorrect == ListSpec => []LinksAreTheList
BY ListStarts, ListStep, LinksAgree, PTL DEF ListSpec

-----------------------------------------------------------------------------
(***************************************************************************)
(* LruCache.  Matches says that an index and a list describe the same      *)
(* entries; Ordered that the list has the keys in the order of their last  *)
(* use; Gone that a key is given up only after Capacity others were used.  *)
(***************************************************************************)

Entry == [node: Node, key: Key, value: Value]

Matches(list, index) ==
  /\ list \in Seq(Entry) /\ index \in [Key -> Node \cup {None}]
  /\ \A k \in Key: index[k] # None => \E i \in 1..Len(list): list[i].node = index[k] /\ list[i].key = k
  /\ \A i \in 1..Len(list): index[list[i].key] = list[i].node
  /\ \A i, j \in 1..Len(list): i # j => list[i].node # list[j].node

Ordered(list, used) == \A i, j \in 1..Len(list): i < j => list[i].key \in used[list[j].key]

Stored(list, put) == \A i \in 1..Len(list): put[list[i].key] = list[i].value

Gone(index, put, used) ==
  \A k \in Key: put[k] # None /\ index[k] = None => Cardinality(used[k]) >= Capacity

UseTypes == /\ last \in [Key -> Value \cup {None}] /\ since \in [Key -> SUBSET Key]
            /\ \A k \in Key: IsFiniteSet(since[k])

CacheInv ==
  /\ Matches(value_list_, index_) /\ Len(value_list_) <= Capacity /\ UseTypes
  /\ Ordered(value_list_, since) /\ Stored(value_list_, last) /\ Gone(index_, last, since)

\* A sequence without repetitions has as many members as places.
LEMMA Counted ==
  ASSUME NEW n \in Nat, NEW f, DOMAIN f = 1..n, \A i, j \in 1..n: f[i] = f[j] => i = j
  PROVE IsFiniteSet({f[i]: i \in 1..n}) /\ Cardinality({f[i]: i \in 1..n}) = n
<1> DEFINE T == {f[i]: i \in 1..n}
           g == [i \in 1..n |-> f[i]]
<1>1. g \in Bijection(1..n, T)
  BY DEF Bijection, Injection, Surjection, IsInjective
<1>2. IsFiniteSet(1..n) /\ Cardinality(1..n) = n
  BY FS_Interval
<1> QED BY <1>1, <1>2, FS_Bijection DEF ExistsBijection

\* No key is twice in the list.
LEMMA KeysDiffer ==
  ASSUME NEW list, NEW index, Matches(list, index)
  PROVE /\ Len(list) \in Nat /\ DOMAIN list = 1..Len(list)
        /\ \A i \in 1..Len(list): list[i] \in Entry /\ list[i].key \in Key /\ list[i].node \in Node
        /\ \A i, j \in 1..Len(list): list[i].key = list[j].key => i = j
<1>1. list \in Seq(Entry)
  BY DEF Matches
<1>2. /\ Len(list) \in Nat /\ DOMAIN list = 1..Len(list)
      /\ \A i \in 1..Len(list): list[i] \in Entry
  BY <1>1
<1>3. \A i \in 1..Len(list): list[i].key \in Key /\ list[i].node \in Node
  BY <1>2 DEF Entry
<1> QED BY <1>2, <1>3 DEF Matches

\* The map and the list have the same number of entries.
LEMMA IndexSize ==
  ASSUME NEW list, NEW index, Matches(list, index)
  PROVE Cardinality({k \in Key: index[k] # None}) = Len(list)
<1> DEFINE f == [i \in 1..Len(list) |-> list[i].key]
<1>1. Len(list) \in Nat /\ \A i, j \in 1..Len(list): f[i] = f[j] => i = j
  BY KeysDiffer
<1>2. Cardinality({f[i]: i \in 1..Len(list)}) = Len(list)
  BY <1>1, Counted
<1>3. ASSUME NEW i \in 1..Len(list) PROVE f[i] \in Key /\ index[f[i]] # None
  <2>1. f[i] = list[i].key
    OBVIOUS
  <2>2. list[i].key \in Key /\ list[i].node \in Node
    BY KeysDiffer, Zenon
  <2>3. index[list[i].key] = list[i].node
    BY DEF Matches
  <2> QED BY ONLY <2>1, <2>2, <2>3, CacheAssumption
<1>4. \A k \in Key: index[k] # None => \E i \in 1..Len(list): f[i] = k
  BY DEF Matches
<1> HIDE DEF f
<1>5. {f[i]: i \in 1..Len(list)} = {k \in Key: index[k] # None}
  BY <1>3, <1>4
<1> QED BY <1>2, <1>5

\* There is a node for one entry more.
LEMMA FreshNode ==
  ASSUME NEW list, NEW index, Matches(list, index), Len(list) <= Capacity
  PROVE \E n \in Node: \A i \in 1..Len(list): list[i].node # n
<1> DEFINE f == [i \in 1..Len(list) |-> list[i].node]
           T == {f[i]: i \in 1..Len(list)}
<1>1. Len(list) \in Nat /\ \A i, j \in 1..Len(list): f[i] = f[j] => i = j
  BY KeysDiffer DEF Matches
<1>2. IsFiniteSet(T) /\ Cardinality(T) = Len(list)
  BY <1>1, Counted
<1>3. SUFFICES ASSUME \A n \in Node: \E i \in 1..Len(list): list[i].node = n PROVE FALSE
  OBVIOUS
<1>4. Node \in SUBSET T
  BY <1>3
<1>5. Cardinality(Node) <= Cardinality(T)
  BY ONLY <1>2, <1>4, FS_Subset
<1>6. Cardinality(Node) \in Nat
  BY CacheAssumption, FS_CardinalityType
<1> HIDE DEF T
<1> QED BY ONLY <1>1, <1>2, <1>5, <1>6, CacheAssumption, Len(list) <= Capacity

\* The entry of key k is the p-th, and rest and left are the list and the index without it.
TakenOut(list, index, k, p, rest, left) ==
  /\ list[p] \in Entry /\ list[p].key = k /\ list[p].node = index[k]
  /\ \A i \in 1..Len(list): list[i].node = index[k] => i = p
  /\ Erase(list, index[k]) = rest /\ rest = Dropped(list, p) /\ Len(rest) = Len(list) - 1
  /\ left[k] = None /\ \A j \in Key \ {k}: left[j] = index[j]
  /\ Matches(rest, left)
  /\ \A i \in 1..Len(rest): rest[i].key # k /\ rest[i].node # index[k]

\* An entry that is taken out of the list and of the index.
LEMMA DropMatches ==
  ASSUME NEW list, NEW index, Matches(list, index), NEW k \in Key, index[k] # None
  PROVE \E p \in 1..Len(list): TakenOut(list, index, k, p, Dropped(list, p), [index EXCEPT ![k] = None])
<1>1. PICK p \in 1..Len(list): list[p].node = index[k] /\ list[p].key = k
  BY DEF Matches
<1>t. /\ Len(list) \in Nat /\ DOMAIN list = 1..Len(list) /\ list \in Seq(Entry)
      /\ \A i \in 1..Len(list): list[i] \in Entry /\ list[i].key \in Key /\ list[i].node \in Node
      /\ \A i, j \in 1..Len(list): list[i].key = list[j].key => i = j
      /\ index \in [Key -> Node \cup {None}]
  <2>1. list \in Seq(Entry) /\ index \in [Key -> Node \cup {None}]
    BY DEF Matches
  <2> QED BY <2>1, KeysDiffer, Zenon
<1>2. \A i \in 1..Len(list): list[i].node = index[k] => i = p
  <2>1. \A i, j \in 1..Len(list): i # j => list[i].node # list[j].node
    BY DEF Matches
  <2> QED BY ONLY <1>1, <2>1
<1>3. Erase(list, index[k]) = Dropped(list, p)
  <2>1. (CHOOSE i \in DOMAIN list: list[i].node = index[k]) = p
    BY <1>1, <1>2, <1>t
  <2> QED BY <2>1 DEF Erase
<1> DEFINE rest == Dropped(list, p)
           left == [index EXCEPT ![k] = None]
<1>4. /\ rest \in Seq(Entry) /\ Len(rest) = Len(list) - 1
      /\ \A i \in 1..Len(list) - 1: rest[i] = IF i < p THEN list[i] ELSE list[i + 1]
  BY <1>t, DroppedIs, Zenon
<1>5. /\ left \in [Key -> Node \cup {None}]
      /\ \A j \in Key: left[j] = IF j = k THEN None ELSE index[j]
  BY <1>t
<1> HIDE DEF rest, left
<1>6. ASSUME NEW i \in 1..Len(rest)
      PROVE \E j \in 1..Len(list): j # p /\ rest[i] = list[j] /\ j = IF i < p THEN i ELSE i + 1
  BY <1>t, <1>4
<1>7. ASSUME NEW j \in 1..Len(list), j # p
      PROVE \E i \in 1..Len(rest): rest[i] = list[j]
  <2>1. CASE j < p
    BY <1>t, <1>4, <2>1
  <2>2. CASE j > p
    <3>1. j - 1 \in 1..Len(rest) /\ ~(j - 1 < p) /\ (j - 1) + 1 = j
      BY <1>t, <1>4, <2>2
    <3> QED BY <1>4, <3>1
  <2> QED BY <1>7, <1>t, <2>1, <2>2
<1>8. \A j \in Key: left[j] # None => \E i \in 1..Len(rest): rest[i].node = left[j] /\ rest[i].key = j
  <2> SUFFICES ASSUME NEW j \in Key, left[j] # None
               PROVE \E i \in 1..Len(rest): rest[i].node = left[j] /\ rest[i].key = j
    OBVIOUS
  <2>1. j # k /\ left[j] = index[j]
    BY <1>5
  <2>2. PICK m \in 1..Len(list): list[m].node = index[j] /\ list[m].key = j
    BY <2>1 DEF Matches
  <2>3. m # p
    BY <1>1, <2>1, <2>2
  <2> QED BY <1>7, <2>1, <2>2, <2>3
<1>9. \A i \in 1..Len(rest): left[rest[i].key] = rest[i].node
  <2> SUFFICES ASSUME NEW i \in 1..Len(rest) PROVE left[rest[i].key] = rest[i].node
    OBVIOUS
  <2>1. PICK j \in 1..Len(list): j # p /\ rest[i] = list[j]
    BY <1>6
  <2>2. list[j].key \in Key /\ list[j].key # k
    BY <1>1, <1>t, <2>1
  <2>3. index[list[j].key] = list[j].node
    BY DEF Matches
  <2> QED BY <1>5, <2>1, <2>2, <2>3
<1>10. \A i, j \in 1..Len(rest): i # j => rest[i].node # rest[j].node
  <2> SUFFICES ASSUME NEW i \in 1..Len(rest), NEW j \in 1..Len(rest), i # j
               PROVE rest[i].node # rest[j].node
    OBVIOUS
  <2>1. PICK a \in 1..Len(list): rest[i] = list[a] /\ a = IF i < p THEN i ELSE i + 1
    BY <1>6
  <2>2. PICK b \in 1..Len(list): rest[j] = list[b] /\ b = IF j < p THEN j ELSE j + 1
    BY <1>6
  <2>3. a # b
    BY <2>1, <2>2
  <2> QED BY <2>1, <2>2, <2>3 DEF Matches
<1>11. Matches(rest, left)
  BY <1>4, <1>5, <1>8, <1>9, <1>10 DEF Matches
<1>12. ASSUME NEW i \in 1..Len(rest) PROVE rest[i].key # k /\ rest[i].node # index[k]
  <2>1. PICK j \in 1..Len(list): j # p /\ rest[i] = list[j]
    BY <1>6
  <2> QED BY <1>1, <1>2, <1>t, <2>1
<1>13. rest = Dropped(list, p) /\ left = [index EXCEPT ![k] = None]
  BY DEF rest, left
<1>14. TakenOut(list, index, k, p, rest, left)
  BY <1>1, <1>2, <1>3, <1>4, <1>5, <1>11, <1>12, <1>13, <1>t DEF TakenOut
<1> QED BY <1>13, <1>14

\* The places of a list with an entry in front.
LEMMA PushedIs ==
  ASSUME NEW S, NEW x \in S, NEW rest \in Seq(S)
  PROVE /\ <<x>> \o rest \in Seq(S) /\ Len(rest) \in Nat /\ Len(<<x>> \o rest) = Len(rest) + 1
        /\ (<<x>> \o rest)[1] = x
        /\ \A i \in 1..Len(rest): (<<x>> \o rest)[i + 1] = rest[i]
        /\ \A i \in 2..Len(rest) + 1: (<<x>> \o rest)[i] = rest[i - 1] /\ i - 1 \in 1..Len(rest)
<1> DEFINE a == <<x>>
<1>1. a \in Seq(S) /\ Len(a) = 1 /\ a[1] = x /\ Len(rest) \in Nat
  OBVIOUS
<1> HIDE DEF a
<1>2. /\ a \o rest \in Seq(S) /\ Len(a \o rest) = Len(a) + Len(rest)
      /\ \A i \in 1..Len(a) + Len(rest): (a \o rest)[i] = IF i <= Len(a) THEN a[i] ELSE rest[i - Len(a)]
  BY ONLY <1>1, rest \in Seq(S), Joined, Zenon
<1>3. /\ a \o rest \in Seq(S) /\ Len(a \o rest) = Len(rest) + 1 /\ (a \o rest)[1] = x
      /\ \A i \in 1..Len(rest): (a \o rest)[i + 1] = rest[i]
      /\ \A i \in 2..Len(rest) + 1: (a \o rest)[i] = rest[i - 1] /\ i - 1 \in 1..Len(rest)
  BY ONLY <1>1, <1>2
<1> QED BY <1>1, <1>3, Zenon DEF a

\* A new entry in front of the list, and in the index.
LEMMA PushMatches ==
  ASSUME NEW rest, NEW index, Matches(rest, index), NEW x \in Entry, index[x.key] = None,
         \A i \in 1..Len(rest): rest[i].node # x.node
  PROVE Matches(<<x>> \o rest, [index EXCEPT ![x.key] = x.node])
<1> DEFINE list == <<x>> \o rest
           more == [index EXCEPT ![x.key] = x.node]
<1>1. x.key \in Key /\ x.node \in Node /\ x.node # None
  BY CacheAssumption DEF Entry
<1>t. /\ Len(rest) \in Nat /\ rest \in Seq(Entry)
      /\ \A i \in 1..Len(rest): rest[i].key \in Key
      /\ index \in [Key -> Node \cup {None}]
      /\ \A i \in 1..Len(rest): index[rest[i].key] = rest[i].node /\ rest[i].node \in Node
  <2>1. /\ rest \in Seq(Entry) /\ index \in [Key -> Node \cup {None}]
        /\ \A i \in 1..Len(rest): index[rest[i].key] = rest[i].node
    BY DEF Matches
  <2> QED BY <2>1, KeysDiffer, Zenon
<1>2. /\ list \in Seq(Entry) /\ Len(list) = Len(rest) + 1 /\ list[1] = x
      /\ \A i \in 1..Len(rest): list[i + 1] = rest[i]
      /\ \A i \in 2..Len(rest) + 1: list[i] = rest[i - 1] /\ i - 1 \in 1..Len(rest)
  <2>1. rest \in Seq(Entry) /\ x \in Entry
    BY <1>t
  <2> QED BY ONLY <2>1, PushedIs
<1>3. more \in [Key -> Node \cup {None}] /\ \A j \in Key: more[j] = IF j = x.key THEN x.node ELSE index[j]
  BY <1>1, <1>t
<1> HIDE DEF list, more
<1>4. ASSUME NEW i \in 1..Len(list)
      PROVE (i = 1 /\ list[i] = x) \/ (i - 1 \in 1..Len(rest) /\ list[i] = rest[i - 1])
  <2>1. CASE i = 1
    BY <1>2, <2>1
  <2>2. CASE i # 1
    <3>1. i \in 2..Len(rest) + 1
      BY <1>2, <1>t, <2>2
    <3> QED BY <1>2, <3>1
  <2> QED BY <2>1, <2>2
<1>5. \A j \in Key: more[j] # None => \E i \in 1..Len(list): list[i].node = more[j] /\ list[i].key = j
  <2> SUFFICES ASSUME NEW j \in Key, more[j] # None
               PROVE \E i \in 1..Len(list): list[i].node = more[j] /\ list[i].key = j
    OBVIOUS
  <2>1. CASE j = x.key
    <3>1. 1 \in 1..Len(list)
      BY <1>2, <1>t
    <3> QED BY <1>2, <1>3, <2>1, <3>1
  <2>2. CASE j # x.key
    <3>1. more[j] = index[j]
      BY <1>3, <2>2
    <3>2. PICK m \in 1..Len(rest): rest[m].node = index[j] /\ rest[m].key = j
      BY <3>1 DEF Matches
    <3>3. m + 1 \in 1..Len(list) /\ list[m + 1] = rest[m]
      BY <1>2, <1>t
    <3> QED BY <3>1, <3>2, <3>3
  <2> QED BY <2>1, <2>2
<1>6. \A i \in 1..Len(list): more[list[i].key] = list[i].node
  <2> SUFFICES ASSUME NEW i \in 1..Len(list) PROVE more[list[i].key] = list[i].node
    OBVIOUS
  <2>1. CASE list[i] = x
    BY <1>1, <1>3, <2>1
  <2>2. ASSUME NEW m \in 1..Len(rest), list[i] = rest[m] PROVE more[list[i].key] = list[i].node
    <3>1. rest[m].key \in Key /\ index[rest[m].key] = rest[m].node /\ rest[m].node \in Node
      BY <1>t
    <3>2. rest[m].key # x.key
      BY <3>1, CacheAssumption
    <3> QED BY <1>3, <2>2, <3>1, <3>2
  <2> QED BY <1>4, <2>1, <2>2
<1>7. \A i, j \in 1..Len(list): i # j => list[i].node # list[j].node
  <2> SUFFICES ASSUME NEW i \in 1..Len(list), NEW j \in 1..Len(list), i # j
               PROVE list[i].node # list[j].node
    OBVIOUS
  <2>1. \A l, m \in 1..Len(rest): l # m => rest[l].node # rest[m].node
    BY DEF Matches
  <2>2. i - 1 # j - 1
    OBVIOUS
  <2> QED BY <1>4, <2>1, <2>2
<1>8. Matches(list, more)
  BY <1>2, <1>3, <1>5, <1>6, <1>7 DEF Matches
<1> QED BY <1>8 DEF list, more

\* Taking an entry out leaves the others in their order, with their values.
LEMMA DropOrdered ==
  ASSUME NEW list \in Seq(Entry), NEW p \in 1..Len(list), NEW used, NEW put
  PROVE /\ Ordered(list, used) => Ordered(Dropped(list, p), used)
        /\ Stored(list, put) => Stored(Dropped(list, p), put)
<1> DEFINE rest == Dropped(list, p)
<1>1. /\ Len(list) \in Nat /\ Len(rest) = Len(list) - 1
      /\ \A i \in 1..Len(list) - 1: rest[i] = IF i < p THEN list[i] ELSE list[i + 1]
  BY DroppedIs, Zenon
<1> HIDE DEF rest
<1>2. ASSUME NEW i \in 1..Len(rest)
      PROVE \E a \in 1..Len(list): rest[i] = list[a] /\ a = IF i < p THEN i ELSE i + 1
  BY <1>1
<1>3. ASSUME Ordered(list, used) PROVE Ordered(rest, used)
  <2> SUFFICES ASSUME NEW i \in 1..Len(rest), NEW j \in 1..Len(rest), i < j
               PROVE rest[i].key \in used[rest[j].key]
    BY DEF Ordered
  <2>1. PICK a \in 1..Len(list): rest[i] = list[a] /\ a = IF i < p THEN i ELSE i + 1
    BY <1>2
  <2>2. PICK b \in 1..Len(list): rest[j] = list[b] /\ b = IF j < p THEN j ELSE j + 1
    BY <1>2
  <2>3. a < b
    BY <2>1, <2>2
  <2> QED BY <1>3, <2>1, <2>2, <2>3 DEF Ordered
<1>4. ASSUME Stored(list, put) PROVE Stored(rest, put)
  BY <1>2, <1>4 DEF Stored
<1> QED BY <1>3, <1>4 DEF rest

\* A use: more keys were used since the last use of every other key.
LEMMA UseKeeps ==
  ASSUME UseTypes, NEW k \in Key, Use(k)
  PROVE /\ since' \in [Key -> SUBSET Key] /\ since'[k] = {}
        /\ \A j \in Key \ {k}: since[j] \subseteq since'[j] /\ k \in since'[j]
        /\ \A j \in Key: IsFiniteSet(since'[j])
        /\ \A j \in Key \ {k}: Cardinality(since[j]) >= Capacity => Cardinality(since'[j]) >= Capacity
<1>1. since \in [Key -> SUBSET Key] /\ since' = [j \in Key |-> IF j = k THEN {} ELSE since[j] \cup {k}]
  BY DEF UseTypes, Use
<1>2. since'[k] = {} /\ \A j \in Key \ {k}: since'[j] = since[j] \cup {k}
  BY <1>1
<1>3. since' \in [Key -> SUBSET Key]
  BY <1>1
<1>4. ASSUME NEW j \in Key \ {k}
      PROVE /\ IsFiniteSet(since'[j])
            /\ Cardinality(since[j]) >= Capacity => Cardinality(since'[j]) >= Capacity
  <2>1. IsFiniteSet(since[j])
    BY DEF UseTypes
  <2>2. /\ IsFiniteSet(since[j] \cup {k}) /\ Cardinality(since[j]) \in Nat
        /\ Cardinality(since[j] \cup {k}) \in {Cardinality(since[j]), Cardinality(since[j]) + 1}
    BY <2>1, FS_AddElement, FS_CardinalityType
  <2> QED BY <1>2, <2>2, CacheAssumption
<1> QED BY <1>2, <1>3, <1>4, FS_EmptySet

\* An entry that is used goes to the front.
LEMMA PushOrdered ==
  ASSUME UseTypes, NEW rest \in Seq(Entry), NEW x \in Entry, Use(x.key), Ordered(rest, since),
         \A i \in 1..Len(rest): rest[i].key # x.key
  PROVE Ordered(<<x>> \o rest, since')
<1> DEFINE list == <<x>> \o rest
<1>1. /\ Len(rest) \in Nat /\ Len(list) = Len(rest) + 1 /\ list[1] = x
      /\ \A i \in 2..Len(rest) + 1: list[i] = rest[i - 1] /\ i - 1 \in 1..Len(rest)
  <2>1. rest \in Seq(Entry) /\ x \in Entry
    OBVIOUS
  <2> QED BY ONLY <2>1, PushedIs
<1> HIDE DEF list
<1>2. x.key \in Key /\ \A i \in 1..Len(rest): rest[i].key \in Key
  <2>1. \A i \in 1..Len(rest): rest[i] \in Entry
    OBVIOUS
  <2> QED BY <2>1 DEF Entry
<1>3. ASSUME NEW i \in 1..Len(list), NEW j \in 1..Len(list), i < j
      PROVE list[i].key \in since'[list[j].key]
  <2>1. PICK b \in 1..Len(rest): b = j - 1 /\ list[j] = rest[b]
    BY <1>1, <1>3
  <2>2. rest[b].key \in Key \ {x.key}
    BY <1>2
  <2>3. since[rest[b].key] \subseteq since'[rest[b].key] /\ x.key \in since'[rest[b].key]
    BY <1>2, <2>2, UseKeeps
  <2>4. CASE i = 1
    BY <1>1, <2>1, <2>3, <2>4
  <2>5. CASE i # 1
    <3>1. PICK a \in 1..Len(rest): a = i - 1 /\ list[i] = rest[a]
      BY <1>1, <2>5
    <3>2. a < b
      BY <1>3, <2>1, <3>1
    <3> QED BY <2>1, <2>3, <3>1, <3>2 DEF Ordered
  <2> QED BY <2>4, <2>5
<1> QED BY <1>3 DEF Ordered, list

\* The last entry of the list is of a key since whose use all the others were used.
LEMMA LastIsOldest ==
  ASSUME NEW list, NEW index, Matches(list, index), NEW used, Ordered(list, used), Len(list) # 0,
         IsFiniteSet(used[list[Len(list)].key])
  PROVE Cardinality(used[list[Len(list)].key]) >= Len(list) - 1
<1> DEFINE n == Len(list) - 1
           f == [i \in 1..n |-> list[i].key]
           U == used[list[Len(list)].key]
<1>1. Len(list) \in Nat /\ \A i, j \in 1..Len(list): list[i].key = list[j].key => i = j
  BY KeysDiffer, Zenon
<1>2. n \in Nat /\ n \in Int /\ Len(list) \in 1..Len(list) /\ \A i \in 1..n: i \in 1..Len(list) /\ i < Len(list)
  BY <1>1
<1>3. DOMAIN f = 1..n /\ \A i, j \in 1..n: f[i] = f[j] => i = j
  BY <1>1, <1>2
<1>4. \A i \in 1..n: f[i] \in U
  BY <1>2 DEF Ordered
<1> HIDE DEF f, U, n
<1>5. IsFiniteSet({f[i]: i \in 1..n}) /\ Cardinality({f[i]: i \in 1..n}) = n
  BY ONLY <1>2, <1>3, Counted
<1>6. {f[i]: i \in 1..n} \in SUBSET U
  BY <1>4
<1>7. Cardinality({f[i]: i \in 1..n}) <= Cardinality(U) /\ Cardinality(U) \in Nat
  BY <1>6, FS_Subset, FS_CardinalityType DEF U
<1>8. n <= Cardinality(U)
  BY <1>5, <1>7
<1> QED BY <1>2, <1>7, <1>8 DEF n, U

\* An empty cache.
LEMMA CacheStarts == ASSUME Init PROVE CacheInv
<1>1. value_list_ = <<>> /\ Len(value_list_) = 0 /\ value_list_ \in Seq(Entry) /\ index_ = [k \in Key |-> None]
  BY DEF Init
<1>2. Matches(value_list_, index_)
  BY <1>1 DEF Matches
<1>3. Ordered(value_list_, since) /\ Stored(value_list_, last)
  BY <1>1 DEF Ordered, Stored
<1>4. UseTypes
  BY FS_EmptySet DEF Init, UseTypes
<1>5. Gone(index_, last, since)
  BY DEF Init, Gone
<1> QED BY <1>1, <1>2, <1>3, <1>4, <1>5, CacheAssumption DEF CacheInv

\* An entry that is put in front of the others, by a Get or a Put of its key.
LEMMA ToFront ==
  ASSUME UseTypes, NEW rest, NEW left, Matches(rest, left), NEW x \in Entry, left[x.key] = None,
         \A i \in 1..Len(rest): rest[i].key # x.key /\ rest[i].node # x.node,
         Ordered(rest, since), Stored(rest, last), Use(x.key),
         NEW put, put[x.key] = x.value, \A j \in Key \ {x.key}: put[j] = last[j]
  PROVE /\ Matches(<<x>> \o rest, [left EXCEPT ![x.key] = x.node])
        /\ Len(rest) \in Nat /\ Len(<<x>> \o rest) = Len(rest) + 1
        /\ Ordered(<<x>> \o rest, since') /\ Stored(<<x>> \o rest, put)
<1>1. Matches(<<x>> \o rest, [left EXCEPT ![x.key] = x.node])
  BY PushMatches
<1>2. rest \in Seq(Entry) /\ x \in Entry
  BY DEF Matches
<1>3. Ordered(<<x>> \o rest, since')
  BY <1>2, PushOrdered
<1> DEFINE list == <<x>> \o rest
<1>4. /\ Len(rest) \in Nat /\ Len(list) = Len(rest) + 1 /\ list[1] = x
      /\ \A i \in 2..Len(rest) + 1: list[i] = rest[i - 1] /\ i - 1 \in 1..Len(rest)
  BY ONLY <1>2, PushedIs
<1> HIDE DEF list
<1>5. \A i \in 1..Len(rest): put[rest[i].key] = rest[i].value
  <2>1. \A i \in 1..Len(rest): rest[i].key \in Key \ {x.key}
    BY KeysDiffer
  <2> QED BY <2>1 DEF Stored
<1>6. ASSUME NEW i \in 1..Len(list) PROVE put[list[i].key] = list[i].value
  <2>1. CASE i = 1
    BY <1>4, <2>1
  <2>2. CASE i # 1
    <3>1. PICK a \in 1..Len(rest): list[i] = rest[a]
      BY <1>4, <2>2
    <3> QED BY <1>5, <3>1
  <2> QED BY <2>1, <2>2
<1>7. Stored(list, put)
  BY <1>6 DEF Stored
<1> QED BY <1>1, <1>3, <1>4, <1>7 DEF list

\* The parts of the invariant that every operation starts from.
LEMMA CacheParts ==
  ASSUME CacheInv
  PROVE /\ Matches(value_list_, index_) /\ UseTypes /\ Len(value_list_) \in Nat /\ Len(value_list_) <= Capacity
        /\ value_list_ \in Seq(Entry) /\ DOMAIN value_list_ = 1..Len(value_list_)
        /\ index_ \in [Key -> Node \cup {None}] /\ last \in [Key -> Value \cup {None}]
        /\ Ordered(value_list_, since) /\ Stored(value_list_, last) /\ Gone(index_, last, since)
<1>1. /\ Matches(value_list_, index_) /\ UseTypes /\ Len(value_list_) <= Capacity
      /\ Ordered(value_list_, since) /\ Stored(value_list_, last) /\ Gone(index_, last, since)
  BY DEF CacheInv
<1>2. value_list_ \in Seq(Entry) /\ index_ \in [Key -> Node \cup {None}]
  BY <1>1 DEF Matches
<1> QED BY <1>1, <1>2, KeysDiffer DEF UseTypes

\* A Get that hits moves its entry to the front.
LEMMA GetKeeps ==
  ASSUME CacheInv, NEW k \in Key, Get(k)
  PROVE CacheInv'
<1>1. CASE index_[k] = None
  <2>1. UNCHANGED vars
    BY <1>1 DEF Get, vars
  <2> QED BY <2>1 DEF vars, CacheInv, UseTypes
<1>2. CASE index_[k] # None
  <2>p. PICK p \in 1..Len(value_list_):
          TakenOut(value_list_, index_, k, p, Dropped(value_list_, p), [index_ EXCEPT ![k] = None])
    BY <1>2, CacheParts, DropMatches
  <2>r. PICK rest: rest = Dropped(value_list_, p)
    BY Zenon
  <2>l. PICK left: left = [index_ EXCEPT ![k] = None]
    BY Zenon
  <2>1. TakenOut(value_list_, index_, k, p, rest, left)
    BY <2>p, <2>r, <2>l
  <2>2. PICK x \in Entry: x = value_list_[p]
    BY <2>1 DEF TakenOut
  <2>3. /\ x.key = k /\ x.node = index_[k] /\ rest = Dropped(value_list_, p) /\ Erase(value_list_, index_[k]) = rest
        /\ \A i \in 1..Len(value_list_): value_list_[i].node = index_[k] => i = p
        /\ Matches(rest, left) /\ left[k] = None
        /\ \A i \in 1..Len(rest): rest[i].key # k /\ rest[i].node # index_[k]
        /\ Len(rest) = Len(value_list_) - 1
    BY <2>1, <2>2 DEF TakenOut
  <2>4. (CHOOSE e \in Range(value_list_): e.node = index_[k]) = x
    <3>1. x \in Range(value_list_) /\ \A e \in Range(value_list_): e.node = index_[k] <=> e = x
      BY <2>2, <2>3, CacheParts DEF Range
    <3> QED BY <3>1
  <2>5. value_list_' = <<x>> \o rest /\ Use(k) /\ index_' = index_ /\ last' = last
    BY <1>2, <2>3, <2>4 DEF Get
  <2>6. Ordered(rest, since) /\ Stored(rest, last)
    BY <2>3, CacheParts, DropOrdered
  <2>7. last[k] = x.value
    BY <2>2, <2>3, CacheParts DEF Stored
  <2>8. /\ Matches(<<x>> \o rest, [left EXCEPT ![k] = index_[k]])
        /\ Len(rest) \in Nat /\ Len(<<x>> \o rest) = Len(rest) + 1
        /\ Ordered(<<x>> \o rest, since') /\ Stored(<<x>> \o rest, last)
    <3>1. /\ UseTypes /\ Matches(rest, left) /\ x \in Entry /\ left[x.key] = None
          /\ \A i \in 1..Len(rest): rest[i].key # x.key /\ rest[i].node # x.node
          /\ Ordered(rest, since) /\ Stored(rest, last) /\ Use(x.key) /\ last[x.key] = x.value
      BY <2>3, <2>5, <2>6, <2>7, CacheParts
    <3>2. /\ Matches(<<x>> \o rest, [left EXCEPT ![x.key] = x.node])
          /\ Len(rest) \in Nat /\ Len(<<x>> \o rest) = Len(rest) + 1
          /\ Ordered(<<x>> \o rest, since') /\ Stored(<<x>> \o rest, last)
      BY ONLY <3>1, ToFront
    <3> QED BY ONLY <2>3, <3>2
  <2>9. [left EXCEPT ![k] = index_[k]] = index_
    BY <2>l, CacheParts
  <2>10. UseTypes'
    BY <2>5, CacheParts, UseKeeps DEF UseTypes
  <2>11. Gone(index_, last, since')
    BY <1>2, <2>5, CacheParts, UseKeeps DEF Gone
  <2>12. Len(value_list_') <= Capacity
    BY <2>3, <2>5, <2>8, CacheParts
  <2> QED BY <2>5, <2>8, <2>9, <2>10, <2>11, <2>12 DEF CacheInv
<1> QED BY <1>1, <1>2

\* What a Put that stores starts from: the list and the index without its key.
LEMMA WithoutKey ==
  ASSUME CacheInv, NEW k \in Key
  PROVE \E left: /\ Matches(IF index_[k] # None THEN Erase(value_list_, index_[k]) ELSE value_list_, left)
                 /\ left = [index_ EXCEPT ![k] = None]
                 /\ LET rest == IF index_[k] # None THEN Erase(value_list_, index_[k]) ELSE value_list_
                    IN /\ Len(rest) \in Nat /\ Len(rest) <= Capacity /\ rest \in Seq(Entry)
                       /\ Ordered(rest, since) /\ Stored(rest, last)
                       /\ \A i \in 1..Len(rest): rest[i].key # k
<1> DEFINE left == [index_ EXCEPT ![k] = None]
<1>1. CASE index_[k] = None
  <2>1. left = index_
    BY <1>1, CacheParts
  <2>2. \A i \in 1..Len(value_list_): index_[value_list_[i].key] = value_list_[i].node /\ value_list_[i].node # None
    <3>1. \A i \in 1..Len(value_list_): value_list_[i].node \in Node
      BY CacheParts, KeysDiffer
    <3> QED BY <3>1, CacheParts, CacheAssumption DEF Matches
  <2> QED BY <1>1, <2>1, <2>2, CacheParts
<1>2. CASE index_[k] # None
  <2>1. PICK p \in 1..Len(value_list_): TakenOut(value_list_, index_, k, p, Dropped(value_list_, p), left)
    BY <1>2, CacheParts, DropMatches
  <2>2. PICK rest: rest = Dropped(value_list_, p)
    BY Zenon
  <2>3. /\ Erase(value_list_, index_[k]) = rest /\ Len(rest) = Len(value_list_) - 1
        /\ Matches(rest, left) /\ \A i \in 1..Len(rest): rest[i].key # k
    BY <2>1, <2>2 DEF TakenOut
  <2>4. Ordered(rest, since) /\ Stored(rest, last)
    BY <2>2, CacheParts, DropOrdered
  <2>5. rest \in Seq(Entry) /\ Len(rest) \in Nat
    BY <2>3 DEF Matches
  <2>6. Len(rest) <= Capacity
    BY <2>3, <2>5, CacheParts, CacheAssumption
  <2> QED BY <1>2, <2>3, <2>4, <2>5, <2>6
<1> QED BY <1>1, <1>2

\* A Put that stores an entry x in front of rest, and may give up the last one.
Stores(k, x, rest, left, list, index, full, old) ==
  /\ x \in Entry /\ x.key = k /\ left = [index_ EXCEPT ![k] = None]
  /\ Matches(rest, left) /\ Len(rest) \in Nat /\ Len(rest) <= Capacity
  /\ Ordered(rest, since) /\ Stored(rest, last)
  /\ \A i \in 1..Len(rest): rest[i].key # k /\ rest[i].node # x.node
  /\ list = <<x>> \o rest /\ index = [index_ EXCEPT ![k] = x.node]
  /\ full = (Cardinality({j \in Key: index[j] # None}) > Capacity) /\ old = list[Len(list)].key
  /\ value_list_' = IF full THEN Erase(list, index[old]) ELSE list
  /\ index_' = IF full THEN [index EXCEPT ![old] = None] ELSE index
  /\ Use(k) /\ last' = [last EXCEPT ![k] = x.value]

\* The list and the index after it, whether or not an entry is given up.
LEMMA StoreKeeps ==
  ASSUME CacheInv, NEW k \in Key, NEW x, NEW rest, NEW left, NEW list, NEW index, NEW full, NEW old,
         Stores(k, x, rest, left, list, index, full, old)
  PROVE CacheInv'
<1>a. /\ x \in Entry /\ x.key = k /\ left = [index_ EXCEPT ![k] = None]
      /\ Matches(rest, left) /\ Len(rest) \in Nat /\ Len(rest) <= Capacity
      /\ Ordered(rest, since) /\ Stored(rest, last)
      /\ \A i \in 1..Len(rest): rest[i].key # k /\ rest[i].node # x.node
  BY DEF Stores
<1>b. list = <<x>> \o rest /\ index = [index_ EXCEPT ![k] = x.node] /\ old = list[Len(list)].key
  BY Zenon DEF Stores
<1>c. Use(k) /\ last' = [last EXCEPT ![k] = x.value]
  BY DEF Stores
<1>d. /\ full = (Cardinality({j \in Key: index[j] # None}) > Capacity)
      /\ value_list_' = IF full THEN Erase(list, index[old]) ELSE list
      /\ index_' = IF full THEN [index EXCEPT ![old] = None] ELSE index
  BY Zenon DEF Stores
<1>1. x.value \in Value /\ x.node \in Node
  BY <1>a DEF Entry
<1>2. UseTypes'
  BY <1>1, <1>c, CacheParts, UseKeeps DEF UseTypes
<1>3. last'[k] = x.value /\ \A j \in Key \ {k}: last'[j] = last[j]
  BY <1>c, CacheParts
<1>4. left[k] = None /\ index = [left EXCEPT ![k] = x.node]
  <2>1. index_ \in [Key -> Node \cup {None}]
    BY CacheParts
  <2> QED BY ONLY <1>a, <1>b, <2>1, k \in Key
<1>5. Matches(list, index) /\ Len(list) = Len(rest) + 1 /\ Ordered(list, since') /\ Stored(list, last')
  <2>1. /\ UseTypes /\ Matches(rest, left) /\ x \in Entry /\ left[x.key] = None
        /\ \A i \in 1..Len(rest): rest[i].key # x.key /\ rest[i].node # x.node
        /\ Ordered(rest, since) /\ Stored(rest, last) /\ Use(x.key)
        /\ last'[x.key] = x.value /\ \A j \in Key \ {x.key}: last'[j] = last[j]
    BY <1>3, <1>4, <1>a, <1>c, CacheParts
  <2>2. /\ Matches(<<x>> \o rest, [left EXCEPT ![x.key] = x.node])
        /\ Len(<<x>> \o rest) = Len(rest) + 1
        /\ Ordered(<<x>> \o rest, since') /\ Stored(<<x>> \o rest, last')
    BY ONLY <2>1, ToFront
  <2> QED BY ONLY <1>4, <1>a, <1>b, <2>2
<1>6. full <=> Len(list) > Capacity
  BY <1>5, <1>d, IndexSize
<1>7. index[k] # None /\ \A j \in Key \ {k}: index[j] = index_[j]
  BY <1>1, <1>b, CacheParts, CacheAssumption
<1>8. \A j \in Key: last'[j] # None /\ index[j] = None => Cardinality(since'[j]) >= Capacity
  <2> SUFFICES ASSUME NEW j \in Key, last'[j] # None, index[j] = None
               PROVE Cardinality(since'[j]) >= Capacity
    OBVIOUS
  <2>1. j \in Key \ {k} /\ last[j] # None /\ index_[j] = None
    BY <1>3, <1>7
  <2>2. Cardinality(since[j]) >= Capacity
    BY <2>1, CacheParts DEF Gone
  <2> QED BY <1>c, <2>1, <2>2, CacheParts, UseKeeps
<1>9. CASE ~full
  <2>1. value_list_' = list /\ index_' = index
    BY <1>9, <1>d
  <2>2. Len(list) <= Capacity
    <3>1. Len(list) \in Nat /\ Capacity \in Nat
      BY ONLY <1>5, <1>a, CacheAssumption
    <3>2. ~(Len(list) > Capacity)
      BY ONLY <1>6, <1>9
    <3> QED BY ONLY <3>1, <3>2
  <2> QED BY <1>2, <1>5, <1>8, <2>1, <2>2 DEF CacheInv, Gone
<1>10. CASE full
  <2>1. Len(list) = Capacity + 1 /\ Len(list) # 0 /\ Len(list) \in 1..Len(list)
    <3>1. Len(rest) \in Nat /\ Len(rest) <= Capacity /\ Len(list) = Len(rest) + 1 /\ Capacity \in Nat
      BY ONLY <1>5, <1>a, CacheAssumption
    <3>2. Len(list) > Capacity
      BY ONLY <1>6, <1>10
    <3> QED BY ONLY <3>1, <3>2
  <2>2. old \in Key /\ index[old] # None /\ index[old] = list[Len(list)].node
    <3>1. list[Len(list)].key \in Key /\ list[Len(list)].node \in Node
      BY <1>5, <2>1, KeysDiffer
    <3>2. index[list[Len(list)].key] = list[Len(list)].node
      BY <1>5, <2>1 DEF Matches
    <3> QED BY ONLY <1>b, <3>1, <3>2, CacheAssumption
  <2>3. PICK p \in 1..Len(list): TakenOut(list, index, old, p, Dropped(list, p), [index EXCEPT ![old] = None])
    BY <1>5, <2>2, DropMatches
  <2>4. /\ value_list_' = Dropped(list, p) /\ index_' = [index EXCEPT ![old] = None]
        /\ Matches(value_list_', index_') /\ Len(value_list_') = Capacity
        /\ \A j \in Key \ {old}: index_'[j] = index[j]
    <3>1. PICK shorter: shorter = Dropped(list, p)
      BY Zenon
    <3>2. PICK lower: lower = [index EXCEPT ![old] = None]
      BY Zenon
    <3>3. TakenOut(list, index, old, p, shorter, lower)
      BY ONLY <2>3, <3>1, <3>2
    <3>4. /\ Erase(list, index[old]) = shorter /\ Matches(shorter, lower) /\ Len(shorter) = Len(list) - 1
          /\ \A j \in Key \ {old}: lower[j] = index[j]
      BY ONLY <3>3 DEF TakenOut
    <3>5. value_list_' = shorter /\ index_' = lower
      BY <1>10, <1>d, <3>2, <3>4
    <3>6. Len(shorter) = Capacity
      <4>1. Capacity \in Nat
        BY ONLY CacheAssumption
      <4>2. Len(list) = Capacity + 1 /\ Len(shorter) = Len(list) - 1
        BY ONLY <2>1, <3>4
      <4> QED BY ONLY <4>1, <4>2
    <3> QED BY ONLY <3>1, <3>2, <3>4, <3>5, <3>6
  <2>5. list \in Seq(Entry)
    BY <1>5 DEF Matches
  <2>6. Ordered(value_list_', since') /\ Stored(value_list_', last')
    <3>1. Ordered(Dropped(list, p), since') /\ Stored(Dropped(list, p), last')
      BY ONLY <1>5, <2>5, p \in 1..Len(list), DropOrdered
    <3> QED BY ONLY <2>4, <3>1
  <2>7. Cardinality(since'[old]) >= Capacity
    <3>1. IsFiniteSet(since'[old])
      BY <1>2, <2>2 DEF UseTypes
    <3>2. Cardinality(since'[list[Len(list)].key]) >= Len(list) - 1
      BY <1>5, <1>b, <2>1, <3>1, LastIsOldest
    <3> QED BY ONLY <1>b, <2>1, <3>2, CacheAssumption
  <2>8. Gone(index_, last, since)'
    BY <1>8, <2>4, <2>7 DEF Gone
  <2>9. Len(value_list_') <= Capacity
    BY <2>4, CacheAssumption
  <2> QED BY <1>2, <2>4, <2>6, <2>8, <2>9 DEF CacheInv
<1> QED BY <1>9, <1>10

\* A Put of the value the key has changes nothing; another one stores.
LEMMA PutKeeps ==
  ASSUME CacheInv, NEW k \in Key, NEW v \in Value, Put(k, v)
  PROVE CacheInv'
<1> DEFINE held  == index_[k] # None
           same  == \E e \in Range(value_list_): e.node = index_[k] /\ e.value = v
           rest  == IF held THEN Erase(value_list_, index_[k]) ELSE value_list_
           n     == CHOOSE n \in Node: \A e \in Range(rest): e.node # n
           x     == [node |-> n, key |-> k, value |-> v]
           list  == <<x>> \o rest
           index == [index_ EXCEPT ![k] = n]
           full  == Cardinality({j \in Key: index[j] # None}) > Capacity
           old   == list[Len(list)].key
<1>1. /\ last' = [last EXCEPT ![k] = v]
      /\ IF held /\ same
         THEN UNCHANGED <<value_list_, index_, since>>
         ELSE /\ value_list_' = IF full THEN Erase(list, index[old]) ELSE list
              /\ index_' = IF full THEN [index EXCEPT ![old] = None] ELSE index
              /\ Use(k)
  BY Zenon DEF Put
<1>2. CASE held /\ same
  <2>1. UNCHANGED <<value_list_, index_, since>>
    BY <1>1, <1>2, Zenon
  <2>2. PICK i \in 1..Len(value_list_): value_list_[i].node = index_[k] /\ value_list_[i].value = v
    BY <1>2, CacheParts DEF Range
  <2>3. PICK m \in 1..Len(value_list_): value_list_[m].node = index_[k] /\ value_list_[m].key = k
    BY <1>2, CacheParts DEF Matches
  <2>4. i = m
    <3>1. \A j, l \in 1..Len(value_list_): j # l => value_list_[j].node # value_list_[l].node
      BY CacheParts DEF Matches
    <3> QED BY ONLY <2>2, <2>3, <3>1, i \in 1..Len(value_list_), m \in 1..Len(value_list_)
  <2>5. last[k] = v
    BY <2>2, <2>3, <2>4, CacheParts DEF Stored
  <2>6. last' = last
    <3>1. last \in [Key -> Value \cup {None}] /\ last' = [last EXCEPT ![k] = v]
      BY <1>1, CacheParts
    <3> QED BY ONLY <2>5, <3>1
  <2> QED BY <2>1, <2>6 DEF CacheInv, UseTypes
<1>3. CASE ~(held /\ same)
  <2>1. PICK left:
          /\ Matches(rest, left) /\ left = [index_ EXCEPT ![k] = None]
          /\ Len(rest) \in Nat /\ Len(rest) <= Capacity /\ rest \in Seq(Entry)
          /\ Ordered(rest, since) /\ Stored(rest, last)
          /\ \A i \in 1..Len(rest): rest[i].key # k
    BY WithoutKey, Zenon
  <2>2. n \in Node /\ \A i \in 1..Len(rest): rest[i].node # n
    <3> HIDE DEF rest
    <3>1. Range(rest) = {rest[i]: i \in 1..Len(rest)}
      BY <2>1 DEF Range
    <3>2. \E m \in Node: \A i \in 1..Len(rest): rest[i].node # m
      BY <2>1, FreshNode
    <3>3. \E m \in Node: \A e \in Range(rest): e.node # m
      BY ONLY <3>1, <3>2
    <3>4. n \in Node /\ \A e \in Range(rest): e.node # n
      BY ONLY <3>3
    <3> QED BY ONLY <3>1, <3>4
  <2> HIDE DEF n
  <2>3. x \in Entry /\ x.key = k /\ x.node = n /\ x.value = v
    BY <2>2 DEF Entry
  <2>4. /\ value_list_' = (IF full THEN Erase(list, index[old]) ELSE list)
        /\ index_' = (IF full THEN [index EXCEPT ![old] = None] ELSE index)
        /\ Use(k)
    BY <1>1, <1>3, Zenon
  <2> HIDE DEF rest, x
  <2>5. index = [index_ EXCEPT ![k] = x.node] /\ last' = [last EXCEPT ![k] = x.value]
    BY <1>1, <2>3
  <2>6. /\ list = <<x>> \o rest /\ full = (Cardinality({j \in Key: index[j] # None}) > Capacity)
        /\ old = list[Len(list)].key
    BY Zenon
  <2>7. \A i \in 1..Len(rest): rest[i].key # k /\ rest[i].node # x.node
    BY <2>1, <2>2, <2>3
  <2> HIDE DEF list, index, full, old
  <2> QED
    <3>1. Stores(k, x, rest, left, list, index, full, old)
      BY ONLY <2>1, <2>3, <2>4, <2>5, <2>6, <2>7, Zenon DEF Stores
    <3> QED BY ONLY CacheInv, k \in Key, <3>1, StoreKeeps
<1> QED BY <1>2, <1>3

\* Remove takes the entry out, if there is one.
LEMMA RemoveKeeps ==
  ASSUME CacheInv, NEW k \in Key, InternalRemove(k)
  PROVE CacheInv'
<1>1. PICK left:
        LET rest == IF index_[k] # None THEN Erase(value_list_, index_[k]) ELSE value_list_
        IN /\ Matches(rest, left) /\ left = [index_ EXCEPT ![k] = None]
           /\ Len(rest) \in Nat /\ Len(rest) <= Capacity /\ rest \in Seq(Entry)
           /\ Ordered(rest, since) /\ Stored(rest, last)
           /\ \A i \in 1..Len(rest): rest[i].key # k
  BY WithoutKey, Zenon
<1>2. PICK rest: rest = IF index_[k] # None THEN Erase(value_list_, index_[k]) ELSE value_list_
  BY Zenon
<1>3. /\ Matches(rest, left) /\ left = [index_ EXCEPT ![k] = None]
      /\ Len(rest) <= Capacity /\ rest \in Seq(Entry)
      /\ Ordered(rest, since) /\ Stored(rest, last)
      /\ \A i \in 1..Len(rest): rest[i].key # k
  BY ONLY <1>1, <1>2, Zenon
<1>4. value_list_' = rest /\ index_' = left /\ since' = since /\ last' = [last EXCEPT ![k] = None]
  BY <1>2, <1>3 DEF InternalRemove
<1>5. last' \in [Key -> Value \cup {None}] /\ last'[k] = None /\ \A j \in Key \ {k}: last'[j] = last[j] /\ left[j] = index_[j]
  BY <1>3, <1>4, CacheParts
<1>6. UseTypes'
  BY <1>4, <1>5, CacheParts DEF UseTypes
<1>7. Stored(rest, last')
  <2>1. \A i \in 1..Len(rest): rest[i].key \in Key \ {k}
    BY <1>3, KeysDiffer
  <2> QED BY <1>3, <1>5, <2>1 DEF Stored
<1>8. Gone(left, last', since)
  BY <1>5, CacheParts DEF Gone
<1> QED BY <1>3, <1>4, <1>6, <1>7, <1>8 DEF CacheInv

\* Clear forgets everything.
LEMMA ClearKeeps ==
  ASSUME CacheInv, Clear
  PROVE CacheInv'
<1>1. value_list_' = <<>> /\ Len(value_list_') = 0 /\ value_list_' \in Seq(Entry) /\ since' = since
      /\ index_' = [k \in Key |-> None] /\ last' = [k \in Key |-> None]
  BY DEF Clear
<1>2. Matches(value_list_', index_')
  BY <1>1 DEF Matches
<1>3. Ordered(value_list_', since') /\ Stored(value_list_', last')
  BY <1>1 DEF Ordered, Stored
<1>4. UseTypes'
  BY <1>1, CacheParts DEF UseTypes
<1>5. Gone(index_', last', since')
  BY <1>1 DEF Gone
<1> QED BY <1>1, <1>2, <1>3, <1>4, <1>5, CacheAssumption DEF CacheInv

\* A step of the cache.
LEMMA CacheStep == CacheInv /\ [Next]_vars => CacheInv'
<1>1. CacheInv /\ UNCHANGED vars => CacheInv'
  BY DEF vars, CacheInv, UseTypes
<1>2. CacheInv /\ Next => CacheInv'
  BY GetKeeps, PutKeeps, RemoveKeeps, ClearKeeps DEF Next
<1> QED BY <1>1, <1>2

\* The invariant says what the cache promises.
LEMMA CacheAgrees == CacheInv => CacheIsExact
<1> SUFFICES ASSUME CacheInv PROVE IndexMatchesList /\ HotKeyStays
  BY DEF CacheIsExact
<1>1. /\ DOMAIN value_list_ = 1..Len(value_list_) /\ Range(value_list_) = {value_list_[i]: i \in 1..Len(value_list_)}
      /\ Len(value_list_) <= Capacity
  BY CacheParts DEF Range
<1>2. /\ \A k \in Key: index_[k] # None =>
           \E i \in 1..Len(value_list_): value_list_[i].node = index_[k] /\ value_list_[i].key = k
      /\ \A i \in 1..Len(value_list_): index_[value_list_[i].key] = value_list_[i].node
      /\ \A i, j \in 1..Len(value_list_): i # j => value_list_[i].node # value_list_[j].node
  BY CacheParts DEF Matches
<1>3. IndexMatchesList
  BY ONLY <1>1, <1>2 DEF IndexMatchesList
<1>4. ASSUME NEW k \in Key, last[k] # None, Cardinality(since[k]) < Capacity
      PROVE \E e \in Range(value_list_): e.key = k /\ e.value = last[k]
  <2>1. Cardinality(since[k]) \in Nat
    BY CacheParts, FS_CardinalityType DEF UseTypes
  <2>2. index_[k] # None
    <3>1. Capacity \in Nat /\ Gone(index_, last, since)
      BY CacheParts, CacheAssumption
    <3> QED BY ONLY <1>4, <2>1, <3>1, k \in Key DEF Gone
  <2>3. PICK i \in 1..Len(value_list_): value_list_[i].key = k
    BY <1>2, <2>2
  <2>4. last[k] = value_list_[i].value
    BY <2>3, CacheParts DEF Stored
  <2> QED BY <1>1, <2>3, <2>4
<1> QED BY <1>3, <1>4 DEF HotKeyStays

\* LruCache, for every capacity: the index and the list agree after any operations, and
\* a key is given up only when as many others as the cache holds were used since.
THEOREM CacheIsExactCorrect == Spec => []CacheIsExact
BY CacheStarts, CacheStep, CacheAgrees, PTL DEF Spec

\* LruCache and intrusive_list, for every capacity and all sets of keys, values,
\* elements and lists: the index and the list of the cache agree, a key is given up
\* only when as many others as the cache holds were used since, and the links of the
\* intrusive lists are their elements in order, forward and backward.
THEOREM CacheIsLruCorrect == Spec /\ ListSpec => []CacheIsLru
BY CacheIsExactCorrect, LinksAreTheListCorrect, PTL DEF CacheIsLru
=============================================================================
