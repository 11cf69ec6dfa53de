-------------------------- MODULE SkipListProofs ----------------------------
(***************************************************************************)
(* Readers of a SkipList miss nothing while one writer inserts, for every  *)
(* set of keys and every number of levels.                                 *)
(***************************************************************************)
EXTENDS Lists, TLAPS

-----------------------------------------------------------------------------
(* The skip list.  OnLevel(l) says which nodes something points to; what   *)
(* the searches rely on is that no link of a level jumps over such a node. *)

SkipNode == {head_} \cup SkipKey
Linked(l) == OnLevel(l) \cup {head_}
Search == [op: {"none", "seek", "last", "prev", "next"}, target: 0..NULL, x: SkipNode,
           level: Level, before: SUBSET SkipKey]

WriterTypes ==
  /\ next_ \in [SkipNode -> [Level -> 1..Garbage]]
  /\ max_height_ \in 1..kMaxHeight
  /\ inserting \in SkipNode /\ doing \in {"find", "grow", "set", "publish"}
  /\ at \in SkipNode /\ height \in 1..kMaxHeight
  /\ skip_prev \in [Level -> 0..Garbage] /\ level \in Level
  /\ inserted \in SUBSET SkipKey

ReaderTypes ==
  /\ node_ \in 1..NULL
  /\ search \in Search
  /\ found \in [search: Search, result: 0..NULL]

\* Links go forward, to the next node of their level, and end with NULL.
Forward == \A l \in Level: \A n \in Linked(l): next_[n][l] \in n + 1..NULL
NoJump == \A l \in Level: \A n \in Linked(l), k \in OnLevel(l): n < k => next_[n][l] <= k
Nested == \A l, m \in Level: m <= l => OnLevel(l) \subseteq OnLevel(m)
AboveIsEmpty == \A l \in Level: max_height_ <= l => next_[head_][l] = NULL

\* What is on the lowest level was inserted or is on its way.
Bottom == inserted \subseteq OnLevel(0) /\ OnLevel(0) \subseteq inserted \cup {inserting}

\* A node that is not on a level has no link there, but for the one being linked.
Unwritten ==
  \A l \in Level: \A n \in SkipKey:
    n \notin OnLevel(l) /\ ~(n = inserting /\ l = level /\ doing = "publish") => next_[n][l] = Garbage

LevelsInv == Forward /\ NoJump /\ Nested /\ AboveIsEmpty /\ Bottom /\ Unwritten

\* prev[l] is where the new node belongs.
PrevIsRight(l) ==
  skip_prev[l] \in Linked(l) /\ skip_prev[l] < inserting /\ inserting < next_[skip_prev[l]][l]

WriterInv ==
  inserting # 0 =>
    /\ doing = "find" => /\ level < max_height_ /\ at \in Linked(level) /\ at < inserting
                         /\ \A l \in Level: level < l /\ l < max_height_ => PrevIsRight(l)
    /\ doing = "grow" => \A l \in Level: l < max_height_ => PrevIsRight(l)
    /\ doing \in {"set", "publish"} =>
         /\ level < height /\ height <= max_height_
         /\ \A l \in Level: level <= l /\ l < height => PrevIsRight(l)
    /\ doing = "publish" => next_[inserting][level] = next_[skip_prev[level]][level]
    /\ \A l \in Level: inserting \in OnLevel(l) <=> doing \in {"set", "publish"} /\ l < level

SearchInv ==
  search.op # "none" =>
    /\ search.x \in Linked(search.level)
    /\ search.before \subseteq inserted
    /\ search.op \in {"seek", "prev"} => search.x < search.target
    /\ search.op = "next" => search.x = search.target /\ search.level = 0

ReaderInv == node_ \in OnLevel(0) \cup {NULL} /\ SearchInv /\ SearchMissesNothing

SkipInv == WriterTypes /\ ReaderTypes /\ LevelsInv /\ WriterInv /\ ReaderInv

\* What is on a level, and the arithmetic of nodes and levels.
LEMMA SkipBasics ==
  /\ 0 \in Level /\ \A l \in Level: l \in Nat /\ \A m \in Nat: m <= l => m \in Level
  /\ \A l \in Level: l < kMaxHeight
  /\ \A n \in SkipNode: n \in Nat /\ n < NULL
  /\ \A n \in SkipKey: n \in SkipNode /\ n > 0 /\ n # head_ /\ n # NULL /\ n # Garbage
  /\ head_ \in SkipNode /\ head_ = 0 /\ NULL \in Nat /\ Garbage = NULL + 1
  /\ \A n: n \in 1..NULL <=> n \in SkipKey \/ n = NULL
  /\ \A n: n \in 1..NULL => n \in Nat
BY SkipAssumption DEF SkipNode, SkipKey, head_, NULL, Garbage, Level

\* What is on a level is a key that some node of it points to.
LEMMA OnLevels ==
  ASSUME NEW l
  PROVE /\ \A n: n \in OnLevel(l) <=> n \in SkipKey /\ \E m \in SkipNode: next_[m][l] = n
        /\ \A n: n \in Linked(l) <=> n \in OnLevel(l) \/ n = head_
        /\ \A n: n \in OnLevel(l) => n \in SkipKey
        /\ \A n: n \in Linked(l) => n \in SkipNode
BY DEF OnLevel, SkipNode, Linked

\* The initial list.
LEMMA SkipStarts == SkipInit => SkipInv
<1> SUFFICES ASSUME SkipInit PROVE SkipInv OBVIOUS
<1> USE SkipBasics
<1>1. \A l \in Level: OnLevel(l) = {}
  BY DEF OnLevel, SkipInit, SkipNode
<1>2. WriterTypes
  BY SkipAssumption DEF WriterTypes, SkipInit, SkipNode, NULL, Garbage, Level, SkipKey, head_
<1>3. NoSearch \in Search
  BY SkipAssumption DEF Search, NoSearch, NULL, SkipNode, head_
<1>4. ReaderTypes
  BY <1>3, SkipAssumption DEF ReaderTypes, SkipInit, NotFound, NULL
<1>5. LevelsInv
  <2>1. Forward
    BY <1>1, SkipAssumption DEF Forward, Linked, SkipInit, SkipNode, NULL, head_
  <2>2. NoJump /\ Nested
    BY <1>1 DEF NoJump, Nested, Linked
  <2>3. AboveIsEmpty /\ Bottom
    BY <1>1, SkipAssumption DEF AboveIsEmpty, Bottom, SkipInit, head_, Level
  <2>4. Unwritten
    BY <1>1 DEF Unwritten, SkipInit
  <2> QED BY <2>1, <2>2, <2>3, <2>4 DEF LevelsInv
<1>6. WriterInv
  BY DEF WriterInv, SkipInit
<1>7. ReaderInv
  BY DEF ReaderInv, SearchInv, SearchMissesNothing, SkipInit, NotFound, NoSearch
<1> QED BY <1>2, <1>4, <1>5, <1>6, <1>7 DEF SkipInv

-----------------------------------------------------------------------------
(* Steps that leave the links alone.                                       *)

\* The levels stay as they are while no link changes.
LEMMA LinksStay ==
  ASSUME UNCHANGED next_
  PROVE \A l: OnLevel(l)' = OnLevel(l) /\ Linked(l)' = Linked(l)
BY DEF OnLevel, Linked

\* A step that leaves the links and the insertion alone keeps what the writer relies on.
LEMMA WriterStays ==
  ASSUME UNCHANGED writer, WriterTypes, LevelsInv, WriterInv
  PROVE (WriterTypes /\ LevelsInv /\ WriterInv)'
<1>1. UNCHANGED <<next_, max_height_, inserting, doing, at, height, skip_prev, level, inserted>>
  BY DEF writer
<1>2. \A l: OnLevel(l)' = OnLevel(l) /\ Linked(l)' = Linked(l)
  BY <1>1, LinksStay
<1>3. WriterTypes'
  BY <1>1 DEF WriterTypes
<1>4. LevelsInv'
  BY <1>1, <1>2 DEF LevelsInv, Forward, NoJump, Nested, AboveIsEmpty, Bottom, Unwritten
<1>5. \A l: PrevIsRight(l)' = PrevIsRight(l)
  BY <1>1, <1>2 DEF PrevIsRight
<1>6. WriterInv'
  BY <1>1, <1>2, <1>5 DEF WriterInv
<1> QED BY <1>3, <1>4, <1>6

\* The writer changes nothing that the reader has; its levels and the inserted keys grow.
LEMMA ReaderStays ==
  ASSUME UNCHANGED reader, ReaderTypes, ReaderInv,
         inserted \subseteq inserted', \A l \in Level: OnLevel(l) \subseteq OnLevel(l)'
  PROVE (ReaderTypes /\ ReaderInv)'
<1>1. UNCHANGED <<node_, search, found>>
  BY DEF reader
<1>2. ReaderTypes'
  BY <1>1 DEF ReaderTypes
<1>3. 0 \in Level /\ search.level \in Level
  BY SkipBasics DEF ReaderTypes, Search
<1>4. OnLevel(0) \subseteq OnLevel(0)'
  BY <1>3
<1>5. \A l \in Level: Linked(l) \subseteq Linked(l)'
  BY DEF Linked
<1>6. SearchInv'
  BY <1>1, <1>3, <1>5 DEF ReaderInv, SearchInv
<1>7. SearchMissesNothing'
  BY <1>1, <1>4 DEF ReaderInv, SearchMissesNothing
<1> QED BY <1>1, <1>2, <1>4, <1>6, <1>7 DEF ReaderInv

-----------------------------------------------------------------------------
(* The writer.                                                             *)

\* Insert begins its search at the head, on the highest level in use.
LEMMA InsertKeeps ==
  ASSUME SkipInv, NEW key \in SkipKey, Insert(key)
  PROVE SkipInv'
<1> USE SkipBasics
<1>1. /\ inserting = 0 /\ key \notin inserted /\ inserting' = key /\ doing' = "find" /\ at' = head_
      /\ level' = max_height_ - 1 /\ skip_prev' = [l \in Level |-> Garbage]
      /\ UNCHANGED <<next_, max_height_, height, inserted, reader>>
  BY DEF Insert
<1>2. \A l: OnLevel(l)' = OnLevel(l) /\ Linked(l)' = Linked(l)
  BY <1>1, LinksStay
<1>3. level' \in Level /\ level' < max_height_ /\ \A l \in Level: level' < l => ~(l < max_height_)
  BY <1>1, SkipAssumption DEF SkipInv, WriterTypes, Level
<1>4. WriterTypes'
  BY <1>1, <1>3, SkipAssumption DEF SkipInv, WriterTypes, SkipNode, Garbage
<1>5. \A l \in Level: key \notin OnLevel(l)
  BY <1>1 DEF SkipInv, LevelsInv, Nested, Bottom
<1>6. LevelsInv'
  <2>1. (Forward /\ NoJump /\ Nested /\ AboveIsEmpty)'
    BY <1>1, <1>2 DEF SkipInv, LevelsInv, Forward, NoJump, Nested, AboveIsEmpty
  <2>2. Bottom'
    BY <1>1, <1>2 DEF SkipInv, LevelsInv, Bottom, OnLevel
  <2>3. Unwritten'
    BY <1>1, <1>2 DEF SkipInv, LevelsInv, Unwritten
  <2> QED BY <2>1, <2>2, <2>3 DEF LevelsInv
<1>7. WriterInv'
  BY <1>1, <1>2, <1>3, <1>5 DEF WriterInv, SkipInv, WriterTypes, Linked
<1>8. (ReaderTypes /\ ReaderInv)'
  BY <1>1, <1>2, ReaderStays DEF SkipInv
<1> QED BY <1>4, <1>6, <1>7, <1>8 DEF SkipInv

\* FindGreaterOrEqual stores in prev the last node before the key, level by level.
LEMMA FindKeeps ==
  ASSUME SkipInv, FindGreaterOrEqual
  PROVE SkipInv'
<1> USE SkipBasics
<1> DEFINE n == next_[at][level]
<1>1. /\ inserting # 0 /\ doing = "find"
      /\ UNCHANGED <<next_, max_height_, inserting, height, inserted, reader>>
  BY DEF FindGreaterOrEqual
<1>2. \A l: OnLevel(l)' = OnLevel(l) /\ Linked(l)' = Linked(l)
  BY <1>1, LinksStay
<1>3. /\ level \in Level /\ level < max_height_ /\ at \in Linked(level) /\ at < inserting
      /\ \A l \in Level: level < l /\ l < max_height_ => PrevIsRight(l)
      /\ inserting \in SkipKey /\ at \in SkipNode
      /\ \A l \in Level: inserting \notin OnLevel(l)
  BY <1>1, OnLevels DEF SkipInv, WriterInv, WriterTypes, SkipNode
<1>4. n \in 1..NULL /\ (n = NULL \/ n \in OnLevel(level))
  <2>1. n \in at + 1..NULL
    BY <1>3 DEF SkipInv, LevelsInv, Forward
  <2>2. n \in SkipKey => n \in OnLevel(level)
    BY <1>3, OnLevels
  <2> HIDE DEF n
  <2>3. n \in 1..NULL
    BY <1>3, <2>1
  <2> QED BY <2>2, <2>3
<1>5. doing' \in {"find", "grow"}
  BY <1>1 DEF FindGreaterOrEqual
<1>6. LevelsInv'
  BY <1>1, <1>2, <1>5 DEF SkipInv, LevelsInv, Forward, NoJump, Nested, AboveIsEmpty, Bottom, Unwritten
<1>7. (ReaderTypes /\ ReaderInv)'
  BY <1>1, <1>2, ReaderStays DEF SkipInv
<1>8. CASE KeyIsAfterNode(inserting, n)
  <2>1. at' = n /\ UNCHANGED <<doing, skip_prev, level>>
    BY <1>8 DEF FindGreaterOrEqual
  <2>2. n \in OnLevel(level) /\ n \in SkipNode /\ n < inserting
    BY <1>4, <1>8, OnLevels DEF KeyIsAfterNode
  <2>3. WriterTypes'
    BY <1>1, <2>1, <2>2 DEF SkipInv, WriterTypes
  <2>4. \A l: PrevIsRight(l)' = PrevIsRight(l)
    BY <1>1, <1>2, <2>1 DEF PrevIsRight
  <2>5. WriterInv'
    BY <1>1, <1>2, <1>3, <2>1, <2>2, <2>4 DEF WriterInv, Linked
  <2> QED BY <1>6, <1>7, <2>3, <2>5 DEF SkipInv
<1>9. CASE ~KeyIsAfterNode(inserting, n)
  <2>1. /\ skip_prev' = [skip_prev EXCEPT ![level] = at] /\ at' = at
        /\ \/ level = 0 /\ doing' = "grow" /\ level' = level
           \/ level # 0 /\ level' = level - 1 /\ doing' = doing
    BY <1>9 DEF FindGreaterOrEqual
  <2>2. inserting < n
    BY <1>3, <1>4, <1>9 DEF KeyIsAfterNode
  <2>3. level' \in Level
    BY <1>3, <2>1
  <2>4. WriterTypes'
    BY <1>1, <1>3, <2>1, <2>3 DEF SkipInv, WriterTypes, Garbage
  <2>5. \A l \in Level: level <= l /\ l < max_height_ => PrevIsRight(l)'
    <3> SUFFICES ASSUME NEW l \in Level, level <= l, l < max_height_ PROVE PrevIsRight(l)'
      OBVIOUS
    <3>1. CASE l = level
      BY <1>1, <1>2, <1>3, <2>1, <2>2, <3>1 DEF PrevIsRight, SkipInv, WriterTypes
    <3>2. CASE l # level
      <4>1. skip_prev'[l] = skip_prev[l]
        BY <2>1, <3>2 DEF SkipInv, WriterTypes
      <4>2. PrevIsRight(l)
        BY <1>3, <3>2
      <4> QED BY <1>1, <1>2, <4>1, <4>2 DEF PrevIsRight
    <3> QED BY <3>1, <3>2
  <2>6. ASSUME level = 0 PROVE WriterInv'
    BY <1>1, <1>2, <1>3, <2>1, <2>5, <2>6 DEF WriterInv, SkipInv, WriterTypes
  <2>7. ASSUME level # 0 PROVE WriterInv'
    <3>0. PICK lower: lower = level - 1
      OBVIOUS
    <3>1. level' = lower /\ doing' = "find" /\ lower \in Level /\ lower <= level /\ lower < max_height_
      BY <1>1, <1>3, <2>1, <2>3, <2>7, <3>0 DEF SkipInv, WriterTypes
    <3>2. \A l \in Level: lower < l => level <= l
      BY <1>3, <3>0
    <3>3. at \in Linked(lower)
      BY <1>3, <3>1 DEF SkipInv, LevelsInv, Nested, Linked
    <3>4. at' \in Linked(lower)'
      BY <1>2, <2>1, <3>3
    <3>5. at' \in Linked(level)'
      BY <3>1, <3>4 DEF Linked, OnLevel
    <3> QED BY <1>1, <1>2, <1>3, <2>1, <2>5, <3>1, <3>2, <3>5 DEF WriterInv
  <2> QED BY <1>6, <1>7, <2>4, <2>6, <2>7 DEF SkipInv
<1> QED BY <1>8, <1>9

\* The levels above max_height_ have the head in front of the new node.
LEMMA GrowKeeps ==
  ASSUME SkipInv, NEW h \in 1..kMaxHeight, Grow(h)
  PROVE SkipInv'
<1> USE SkipBasics
<1>1. /\ inserting # 0 /\ doing = "grow" /\ height' = h
      /\ max_height_' = IF h > max_height_ THEN h ELSE max_height_
      /\ skip_prev' = [l \in Level |-> IF max_height_ <= l /\ l < h THEN head_ ELSE skip_prev[l]]
      /\ doing' = "set" /\ level' = 0
      /\ UNCHANGED <<next_, inserting, at, inserted, reader>>
  BY DEF Grow
<1>2. \A l: OnLevel(l)' = OnLevel(l) /\ Linked(l)' = Linked(l)
  BY <1>1, LinksStay
<1>3. max_height_ \in Nat /\ h \in Nat /\ max_height_' \in Nat /\ max_height_ <= max_height_' /\ h <= max_height_'
  BY <1>1 DEF SkipInv, WriterTypes
<1>4. WriterTypes'
  <2>1. skip_prev' \in [Level -> 0..Garbage]
    BY <1>1 DEF SkipInv, WriterTypes
  <2> QED BY <1>1, <1>3, <2>1 DEF SkipInv, WriterTypes
<1>5. LevelsInv'
  BY <1>1, <1>2, <1>3 DEF SkipInv, LevelsInv, Forward, NoJump, Nested, AboveIsEmpty, Bottom, Unwritten
<1>6. \A l \in Level: l < h => PrevIsRight(l)'
  <2> SUFFICES ASSUME NEW l \in Level, l < h PROVE PrevIsRight(l)'
    OBVIOUS
  <2>1. inserting \in SkipKey
    BY <1>1 DEF SkipInv, WriterTypes, SkipNode
  <2>2. CASE max_height_ <= l
    BY <1>1, <1>2, <2>1, <2>2 DEF PrevIsRight, SkipInv, LevelsInv, AboveIsEmpty, Linked
  <2>3. CASE l < max_height_
    BY <1>1, <1>2, <1>3, <2>3 DEF PrevIsRight, SkipInv, WriterInv
  <2> QED BY <1>3, <2>2, <2>3
<1>7. WriterInv'
  BY <1>1, <1>2, <1>3, <1>6 DEF WriterInv, SkipInv
<1>8. (ReaderTypes /\ ReaderInv)'
  BY <1>1, <1>2, ReaderStays DEF SkipInv
<1> QED BY <1>4, <1>5, <1>7, <1>8 DEF SkipInv

\* The new node's own link is written before anything points to the node.
LEMMA SetOwnLinkKeeps ==
  ASSUME SkipInv, SetOwnLink
  PROVE SkipInv'
<1> USE SkipBasics
<1> DEFINE p == skip_prev[level]
           n == next_[p][level]
<1>1. /\ inserting # 0 /\ doing = "set" /\ next_' = [next_ EXCEPT ![inserting][level] = n]
      /\ doing' = "publish"
      /\ UNCHANGED <<max_height_, inserting, at, height, skip_prev, level, inserted, reader>>
  BY DEF SetOwnLink
<1>2. /\ inserting \in SkipKey /\ level \in Level /\ level < height /\ height <= max_height_
      /\ \A l \in Level: level <= l /\ l < height => PrevIsRight(l)
      /\ \A l \in Level: inserting \in OnLevel(l) <=> l < level
      /\ next_ \in [SkipNode -> [Level -> 1..Garbage]]
  BY <1>1 DEF SkipInv, WriterInv, WriterTypes, SkipNode
<1>3. p \in Linked(level) /\ p \in SkipNode /\ p < inserting /\ inserting < n
  BY <1>2, OnLevels DEF PrevIsRight
<1>4. n \in p + 1..NULL
  BY <1>2, <1>3 DEF SkipInv, LevelsInv, Forward
<1>5. next_[p][level] = n
  OBVIOUS
<1> HIDE DEF p, n
<1>6. n \in SkipKey \/ n = NULL
  BY <1>3, <1>4
<1>7. inserting \notin OnLevel(level)
  BY <1>2
<1>8. next_[inserting][level] = Garbage
  BY <1>1, <1>2, <1>7 DEF SkipInv, LevelsInv, Unwritten
<1>9. next_' \in [SkipNode -> [Level -> 1..Garbage]]
  BY <1>1, <1>2, <1>6
<1>10. \A m \in SkipNode, l \in Level:
         next_'[m][l] = IF m = inserting /\ l = level THEN n ELSE next_[m][l]
  BY <1>1, <1>2
<1>11. \A l \in Level: OnLevel(l)' = OnLevel(l) /\ Linked(l)' = Linked(l)
  <2> SUFFICES ASSUME NEW l \in Level PROVE OnLevel(l)' = OnLevel(l)
    BY DEF Linked
  <2>1. \A k: k \in OnLevel(l)' <=> k \in SkipKey /\ \E m \in SkipNode: next_'[m][l] = k
    BY DEF OnLevel, SkipNode
  <2>2. \A k \in OnLevel(l): k \in OnLevel(l)'
    BY <1>2, <1>8, <1>10, <2>1, OnLevels
  <2>3. \A k \in OnLevel(l)': k \in OnLevel(l)
    BY <1>3, <1>5, <1>10, <2>1, OnLevels
  <2> QED BY <2>2, <2>3
<1>12. \A l \in Level: \A m \in Linked(l): next_'[m][l] = next_[m][l]
  BY <1>2, <1>7, <1>10, OnLevels
<1>13. WriterTypes'
  BY <1>1, <1>9 DEF SkipInv, WriterTypes
<1>14. LevelsInv'
  <2>1. (Forward /\ NoJump)'
    BY <1>11, <1>12 DEF SkipInv, LevelsInv, Forward, NoJump
  <2>2. (Nested /\ Bottom)'
    BY <1>1, <1>11 DEF SkipInv, LevelsInv, Nested, Bottom
  <2>3. AboveIsEmpty'
    BY <1>1, <1>12 DEF SkipInv, LevelsInv, AboveIsEmpty, Linked
  <2>4. Unwritten'
    BY <1>1, <1>2, <1>10, <1>11 DEF SkipInv, LevelsInv, Unwritten
  <2> QED BY <2>1, <2>2, <2>3, <2>4 DEF LevelsInv
<1>15. \A l \in Level: level <= l /\ l < height => PrevIsRight(l)'
  BY <1>1, <1>2, <1>11, <1>12 DEF PrevIsRight
<1>16. next_'[inserting][level] = next_'[p][level]
  <2>1. inserting \in SkipNode /\ p # inserting /\ level \in Level
    BY <1>2, <1>3
  <2>2. next_'[inserting][level] = n
    BY ONLY <1>10, <2>1
  <2>3. next_'[p][level] = next_[p][level]
    BY ONLY <1>3, <1>10, <2>1
  <2> QED BY ONLY <1>5, <2>2, <2>3
<1>17. WriterInv'
  BY <1>1, <1>2, <1>11, <1>15, <1>16 DEF WriterInv, p
<1>18. (ReaderTypes /\ ReaderInv)'
  BY <1>1, <1>11, ReaderStays DEF SkipInv
<1> QED BY <1>13, <1>14, <1>17, <1>18 DEF SkipInv

\* The link of prev then makes the node part of the level, and jumps over nothing.
LEMMA PublishKeeps ==
  ASSUME SkipInv, Publish
  PROVE SkipInv'
<1> USE SkipBasics
<1> DEFINE p == skip_prev[level]
           n == next_[p][level]
<1>1. /\ inserting # 0 /\ doing = "publish" /\ next_' = [next_ EXCEPT ![p][level] = inserting]
      /\ doing' = "set"
      /\ \/ level + 1 < height /\ level' = level + 1 /\ inserting' = inserting /\ inserted' = inserted
         \/ ~(level + 1 < height) /\ level' = 0 /\ inserting' = 0 /\ inserted' = inserted \cup {inserting}
      /\ UNCHANGED <<max_height_, at, height, skip_prev, reader>>
  BY DEF Publish
<1>2. /\ inserting \in SkipKey /\ level \in Level /\ level < height /\ height <= max_height_
      /\ height \in 1..kMaxHeight /\ max_height_ \in 1..kMaxHeight
      /\ \A l \in Level: level <= l /\ l < height => PrevIsRight(l)
      /\ \A l \in Level: inserting \in OnLevel(l) <=> l < level
      /\ next_ \in [SkipNode -> [Level -> 1..Garbage]]
      /\ next_[inserting][level] = n
  BY <1>1 DEF SkipInv, WriterInv, WriterTypes, SkipNode
<1>3. p \in Linked(level) /\ p \in SkipNode /\ p < inserting /\ inserting < n
  BY <1>2, OnLevels DEF PrevIsRight
<1>4. n \in p + 1..NULL
  BY <1>2, <1>3 DEF SkipInv, LevelsInv, Forward
<1>5. next_[p][level] = n
  OBVIOUS
<1> HIDE DEF p, n
<1>6. n \in SkipKey \/ n = NULL
  BY <1>3, <1>4
<1>7. inserting \notin OnLevel(level) /\ inserting \in SkipNode
  BY <1>2
<1>8. next_' \in [SkipNode -> [Level -> 1..Garbage]]
  BY <1>1, <1>2, <1>3
<1>9. \A m \in SkipNode, l \in Level:
         next_'[m][l] = IF m = p /\ l = level THEN inserting ELSE next_[m][l]
  BY <1>1, <1>2, <1>3
<1>10. \A l \in Level: /\ l # level => OnLevel(l)' = OnLevel(l) /\ Linked(l)' = Linked(l)
                       /\ l = level => OnLevel(l)' = OnLevel(l) \cup {inserting}
                                       /\ Linked(l)' = Linked(l) \cup {inserting}
  <2> SUFFICES ASSUME NEW l \in Level
               PROVE /\ l # level => OnLevel(l)' = OnLevel(l)
                     /\ l = level => OnLevel(l)' = OnLevel(l) \cup {inserting}
    BY DEF Linked
  <2>1. \A k: k \in OnLevel(l)' <=> k \in SkipKey /\ \E m \in SkipNode: next_'[m][l] = k
    BY DEF OnLevel, SkipNode
  <2>2. CASE l # level
    <3>1. \A m \in SkipNode: next_'[m][l] = next_[m][l]
      BY <1>9, <2>2
    <3>2. \A k: k \in OnLevel(l)' <=> k \in OnLevel(l)
      BY <2>1, <3>1, OnLevels
    <3>3. OnLevel(l)' = OnLevel(l)
      BY <3>2
    <3> QED BY <2>2, <3>3
  <2>3. CASE l = level
    <3>1. ASSUME NEW k \in OnLevel(l) PROVE k \in OnLevel(l)'
      <4>1. PICK m \in SkipNode: next_[m][l] = k
        BY OnLevels
      <4>2. k \in SkipKey
        BY OnLevels
      <4>3. CASE m = p
        <5>1. k = n
          BY ONLY <1>5, <2>3, <4>1, <4>3
        <5>2. next_'[inserting][l] = n
          BY ONLY <1>2, <1>3, <1>7, <1>9, <2>3, SkipBasics
        <5> QED BY ONLY <1>7, <2>1, <4>2, <5>1, <5>2
      <4>4. CASE m # p
        <5>1. next_'[m][l] = k
          BY ONLY <1>9, <4>1, <4>4
        <5> QED BY ONLY <2>1, <4>2, <5>1
      <4> QED BY <4>3, <4>4
    <3>2. \A k \in OnLevel(l)': k \in OnLevel(l) \cup {inserting}
      BY <1>9, <2>1, OnLevels
    <3>3. inserting \in OnLevel(l)'
      BY <1>2, <1>3, <1>9, <2>1, <2>3
    <3> QED BY <2>3, <3>1, <3>2, <3>3
  <2> QED BY <2>2, <2>3
<1>11. \A k \in OnLevel(level): k <= p \/ n <= k
  BY <1>2, <1>3, <1>5, OnLevels DEF SkipInv, LevelsInv, NoJump
<1>12. WriterTypes'
  <2>1. level' \in Level
    <3>1. level + 1 < height => level + 1 \in Level
      BY <1>2, SkipAssumption DEF Level
    <3> QED BY <1>1, <3>1
  <2>2. inserting' \in SkipNode
    BY <1>1, <1>7
  <2>3. inserted \in SUBSET SkipKey
    BY DEF SkipInv, WriterTypes
  <2>4. inserted' \in SUBSET SkipKey
    BY <1>1, <1>2, <2>3
  <2> QED BY <1>1, <1>8, <2>1, <2>2, <2>4 DEF SkipInv, WriterTypes
<1>13. Forward'
  <2> SUFFICES ASSUME NEW l \in Level, NEW m \in Linked(l)' PROVE next_'[m][l] \in m + 1..NULL
    BY DEF Forward
  <2>1. CASE m = p /\ l = level
    <3>1. next_'[m][l] = inserting
      BY <1>2, <1>3, <1>9, <2>1
    <3> QED BY <1>2, <1>3, <2>1, <3>1
  <2>2. CASE m = inserting /\ l = level
    BY <1>2, <1>3, <1>4, <1>7, <1>9, <2>2
  <2>3. CASE ~(m \in {p, inserting} /\ l = level)
    <3>1. m \in Linked(l) /\ m \in SkipNode
      BY <1>10, <2>3, OnLevels
    <3> QED BY <1>9, <2>3, <3>1 DEF SkipInv, LevelsInv, Forward
  <2> QED BY <2>1, <2>2, <2>3
<1>14. NoJump'
  <2> SUFFICES ASSUME NEW l \in Level, NEW m \in Linked(l)', NEW k \in OnLevel(l)', m < k
               PROVE next_'[m][l] <= k
    BY DEF NoJump
  <2>1. CASE l # level
    BY <1>9, <1>10, <2>1, OnLevels DEF SkipInv, LevelsInv, NoJump
  <2>2. CASE l = level /\ m = inserting
    <3>1. k \in OnLevel(level) /\ k \in SkipKey
      BY <1>10, <2>2, <1>2, OnLevels
    <3>2. n <= k
      BY <1>2, <1>3, <1>11, <2>2, <3>1
    <3> QED BY <1>2, <1>3, <1>7, <1>9, <2>2, <3>2
  <2>3. CASE l = level /\ m = p
    <3>1. k = inserting \/ (k \in OnLevel(level) /\ k \in SkipKey)
      BY <1>10, <2>3, OnLevels
    <3>2. inserting <= k
      BY <1>2, <1>3, <1>4, <1>11, <2>3, <3>1
    <3> QED BY <1>3, <1>9, <2>3, <3>2
  <2>4. CASE l = level /\ m # inserting /\ m # p
    <3>1. m \in Linked(level) /\ m \in SkipNode /\ next_'[m][l] = next_[m][level]
      BY <1>9, <1>10, <2>4, OnLevels
    <3>2. CASE k = inserting
      <4>1. m < p
        <5>1. m \in Nat /\ p \in Nat /\ n \in Nat /\ inserting \in Nat /\ m < inserting /\ m # p
          BY <1>2, <1>3, <1>4, <2>4, <3>1, <3>2
        <5>2. CASE m \in OnLevel(level)
          BY <1>3, <1>11, <5>1, <5>2
        <5>3. CASE m = head_
          BY <5>1, <5>3
        <5> QED BY <3>1, <5>2, <5>3 DEF Linked
      <4>2. p \in OnLevel(level)
        <5>1. p # head_
          BY <1>3, <3>1, <4>1
        <5> QED BY <1>3, <5>1 DEF Linked
      <4>3. next_[m][level] <= p
        BY <1>2, <3>1, <4>1, <4>2 DEF SkipInv, LevelsInv, NoJump
      <4>4. next_[m][level] \in m + 1..NULL
        BY <1>2, <3>1 DEF SkipInv, LevelsInv, Forward
      <4> QED BY <1>2, <1>3, <3>1, <3>2, <4>3, <4>4
    <3>3. CASE k # inserting
      BY <1>2, <1>10, <2>4, <3>1, <3>3 DEF SkipInv, LevelsInv, NoJump
    <3> QED BY <3>2, <3>3
  <2> QED BY <2>1, <2>2, <2>3, <2>4
<1>15. Nested'
  BY <1>2, <1>10 DEF SkipInv, LevelsInv, Nested
<1>16. AboveIsEmpty'
  BY <1>1, <1>2, <1>9 DEF SkipInv, LevelsInv, AboveIsEmpty
<1>17. Bottom'
  <2>1. 0 \in Level /\ (level # 0 => inserting \in OnLevel(0))
    BY <1>2
  <2>2. OnLevel(0)' = OnLevel(0) \cup {inserting}
    BY <1>10, <2>1
  <2> QED BY <1>1, <2>2, OnLevels DEF SkipInv, LevelsInv, Bottom
<1>18. Unwritten'
  <2> SUFFICES ASSUME NEW l \in Level, NEW k \in SkipKey, k \notin OnLevel(l)' PROVE next_'[k][l] = Garbage
    BY DEF Unwritten
  <2>1. k \notin OnLevel(l) /\ ~(k = inserting /\ l = level)
    BY <1>10
  <2>2. ~(k = p /\ l = level)
    BY <1>3, <2>1 DEF Linked
  <2> QED BY <1>9, <2>1, <2>2 DEF SkipInv, LevelsInv, Unwritten
<1>19. WriterInv'
  <2> SUFFICES ASSUME level + 1 < height, level' = level + 1, inserting' = inserting PROVE WriterInv'
    BY <1>1 DEF WriterInv
  <2>1. \A l \in Level: level < l /\ l < height => PrevIsRight(l)'
    <3> SUFFICES ASSUME NEW l \in Level, level < l, l < height PROVE PrevIsRight(l)'
      OBVIOUS
    <3>1. PrevIsRight(l) /\ l # level
      BY <1>2
    <3>2. skip_prev[l] \in SkipNode
      BY <3>1, OnLevels DEF PrevIsRight
    <3> QED BY <1>1, <1>9, <1>10, <3>1, <3>2 DEF PrevIsRight
  <2>2. \A l \in Level: inserting \in OnLevel(l)' <=> l < level + 1
    BY <1>2, <1>10
  <2> QED BY <1>1, <1>2, <2>1, <2>2 DEF WriterInv
<1>20. (ReaderTypes /\ ReaderInv)'
  BY <1>1, <1>10, ReaderStays DEF SkipInv
<1> QED BY <1>12, <1>13, <1>14, <1>15, <1>16, <1>17, <1>18, <1>19, <1>20 DEF SkipInv, LevelsInv

-----------------------------------------------------------------------------
(* The reader.                                                             *)

\* A search begins at head_ or where the iterator is.
LEMMA BeginKeeps ==
  ASSUME SkipInv, UNCHANGED <<node_, writer>>, found' = NotFound,
         NEW op \in {"seek", "last", "prev", "next"}, NEW target \in 0..NULL, NEW x, NEW l \in Level,
         search' = [op |-> op, target |-> target, x |-> x, level |-> l, before |-> inserted],
         x \in Linked(l), op \in {"seek", "prev"} => x < target, op = "next" => x = target /\ l = 0
  PROVE SkipInv'
<1> USE SkipBasics
<1>1. (WriterTypes /\ LevelsInv /\ WriterInv)'
  BY WriterStays DEF SkipInv
<1>2. UNCHANGED <<next_, inserted>>
  BY DEF writer
<1>3. \A m: OnLevel(m)' = OnLevel(m) /\ Linked(m)' = Linked(m)
  BY <1>2, LinksStay
<1>4. search' \in Search /\ NoSearch \in Search
  <2>1. x \in SkipNode /\ inserted \in SUBSET SkipKey
    BY OnLevels DEF SkipInv, WriterTypes
  <2>2. search' \in Search
    BY <2>1 DEF Search
  <2>3. NoSearch \in Search
    BY DEF Search, NoSearch
  <2> QED BY <2>2, <2>3
<1>5. ReaderTypes'
  BY <1>4, SkipAssumption DEF SkipInv, ReaderTypes, NotFound, NULL
<1>6. SearchInv'
  <2>1. /\ search'.op = op /\ search'.target = target /\ search'.x = x
        /\ search'.level = l /\ search'.before = inserted
    OBVIOUS
  <2>2. x \in Linked(l)'
    BY <1>3
  <2>3. search'.x \in Linked(search.level)'
    BY <2>1, <2>2 DEF Linked, OnLevel
  <2> QED BY <1>2, <2>1, <2>3 DEF SearchInv
<1>7. SearchMissesNothing'
  BY DEF SearchMissesNothing, NotFound, NoSearch
<1>8. node_' \in OnLevel(0)' \cup {NULL}
  BY <1>3 DEF SkipInv, ReaderInv
<1> QED BY <1>1, <1>5, <1>6, <1>7, <1>8 DEF SkipInv, ReaderInv

\* Every search of the iterator begins at a node of its level.
LEMMA ReaderBegins ==
  ASSUME SkipInv,
         (\E target \in SkipKey: Seek(target)) \/ SeekToLast \/ Prev \/ SeekToFirst \/ IterNext
  PROVE SkipInv'
<1> USE SkipBasics
<1> DEFINE top == max_height_ - 1
<1>1. top \in Level /\ 0 \in Level /\ \A l: head_ \in Linked(l)
  BY SkipAssumption DEF SkipInv, WriterTypes, Level, Linked
<1>2. node_ # NULL => node_ \in Linked(0) /\ node_ \in SkipKey
  BY OnLevels DEF SkipInv, ReaderInv, Linked
<1>3. \A n \in SkipKey: n \in 0..NULL /\ head_ < n
  BY SkipAssumption
<1>4. head_ \in 0..NULL /\ NULL \in 0..NULL
  OBVIOUS
<1> HIDE DEF top
<1>5. ASSUME NEW target \in SkipKey, Seek(target) PROVE SkipInv'
  BY <1>1, <1>3, <1>5, BeginKeeps DEF Seek, Begin, top
<1>6. CASE SeekToLast
  BY <1>1, <1>4, <1>6, BeginKeeps DEF SeekToLast, Begin, top
<1>7. CASE Prev
  BY <1>1, <1>2, <1>3, <1>7, BeginKeeps DEF Prev, Begin, top
<1>8. CASE SeekToFirst
  BY <1>1, <1>4, <1>8, BeginKeeps DEF SeekToFirst, StepFrom
<1>9. CASE IterNext
  BY <1>1, <1>2, <1>3, <1>9, BeginKeeps DEF IterNext, StepFrom
<1> QED BY <1>5, <1>6, <1>7, <1>8, <1>9

\* What a search sees: the next node of the level it is on, and no key in between.
LEMMA ReaderSees ==
  ASSUME SkipInv, NEW l \in Level, NEW x \in Linked(l), NEW n, n = next_[x][l]
  PROVE /\ x \in SkipNode /\ x \in Nat /\ n \in Nat /\ x < n
        /\ n \in 1..NULL
        /\ n = NULL \/ (n \in OnLevel(l) /\ n \in SkipKey)
        /\ \A k \in OnLevel(l): x < k => n <= k
<1> USE SkipBasics
<1>1. x \in SkipNode /\ n \in x + 1..NULL
  BY OnLevels DEF SkipInv, LevelsInv, Forward
<1>2. \A k \in OnLevel(l): x < k => n <= k
  BY DEF SkipInv, LevelsInv, NoJump
<1>3. x \in Nat /\ n \in Nat /\ x < n /\ n \in 1..NULL
  BY <1>1
<1>4. n = NULL \/ n \in SkipKey
  BY <1>3
<1>5. n \in SkipKey => n \in OnLevel(l)
  BY <1>1, OnLevels
<1> QED BY <1>1, <1>2, <1>3, <1>4, <1>5

\* One turn of a search: on along the level, down, or the end.
LEMMA ReaderStepKeeps ==
  ASSUME SkipInv, ReaderStep
  PROVE SkipInv'
<1> DEFINE n == next_[search.x][search.level]
<1>1. search.op # "none" /\ UNCHANGED writer
  BY DEF ReaderStep
<1>2. (WriterTypes /\ LevelsInv /\ WriterInv)'
  BY <1>1, WriterStays DEF SkipInv
<1>3. UNCHANGED <<next_, inserted>>
  BY <1>1 DEF writer
<1>4. \A m: OnLevel(m)' = OnLevel(m) /\ Linked(m)' = Linked(m)
  BY <1>3, LinksStay
<1>5. /\ search \in Search /\ search.level \in Level /\ search.x \in Linked(search.level)
      /\ search.before \subseteq inserted
      /\ search.op \in {"seek", "prev"} => search.x < search.target
      /\ search.op = "next" => search.x = search.target /\ search.level = 0
      /\ search.target \in 0..NULL /\ search.op \in {"seek", "last", "prev", "next"}
  BY <1>1 DEF SkipInv, ReaderInv, ReaderTypes, SearchInv, Search
<1>6. \A k \in search.before: k \in OnLevel(0) /\ k \in SkipKey
  BY <1>5, OnLevels DEF SkipInv, LevelsInv, Bottom
<1>7. /\ search.x \in SkipNode /\ search.x \in Nat /\ n \in Nat /\ search.x < n
      /\ n \in 1..NULL
      /\ n = NULL \/ (n \in OnLevel(search.level) /\ n \in SkipKey)
      /\ \A k \in OnLevel(search.level): search.x < k => n <= k
  BY <1>5, ReaderSees
<1>8. \/ Advances(n) /\ search' = [search EXCEPT !.x = n] /\ UNCHANGED <<node_, found>>
      \/ ~Advances(n) /\ search.level > 0 /\ search' = [search EXCEPT !.level = @ - 1] /\ UNCHANGED <<node_, found>>
      \/ ~Advances(n) /\ ~(search.level > 0) /\ Ends(IF search.op \in {"seek", "next"} THEN n ELSE search.x)
  BY <1>1 DEF ReaderStep
<1> HIDE DEF n
<1>9. ASSUME UNCHANGED <<node_, found>>, search' \in Search, SearchInv' PROVE SkipInv'
  <2>1. SearchMissesNothing'
    BY <1>4, <1>9 DEF SkipInv, ReaderInv, SearchMissesNothing
  <2> QED BY <1>2, <1>4, <1>9, <2>1 DEF SkipInv, ReaderInv, ReaderTypes
<1>10. CASE Advances(n) /\ search' = [search EXCEPT !.x = n] /\ UNCHANGED <<node_, found>>
  <2>1. /\ search'.x = n /\ search'.op = search.op /\ search'.target = search.target
        /\ search'.level = search.level /\ search'.before = search.before
    BY <1>5, <1>10 DEF Search
  <2>2. n # NULL /\ search.op # "next" /\ (search.op \in {"seek", "prev"} => n < search.target)
    BY <1>5, <1>10 DEF Advances, KeyIsAfterNode
  <2>3. n \in OnLevel(search.level) /\ n \in SkipNode
    BY SkipBasics, <1>7, <2>2
  <2>4. search' \in Search
    BY <1>5, <1>10, <2>3 DEF Search
  <2>5. PICK l: l = search.level
    OBVIOUS
  <2>5a. n \in Linked(l)'
    BY <1>4, <2>3, <2>5 DEF Linked
  <2>6. search'.x \in Linked(search.level)'
    BY <2>1, <2>5, <2>5a DEF Linked, OnLevel
  <2>7. SearchInv'
    BY <1>3, <1>5, <2>1, <2>2, <2>6 DEF SearchInv
  <2> QED BY <1>9, <1>10, <2>4, <2>7
<1>11. CASE /\ ~Advances(n) /\ search.level > 0
            /\ search' = [search EXCEPT !.level = @ - 1] /\ UNCHANGED <<node_, found>>
  <2>0. PICK lower: lower = search.level - 1
    OBVIOUS
  <2>1. /\ search'.x = search.x /\ search'.op = search.op /\ search'.target = search.target
        /\ search'.level = lower /\ search'.before = search.before
    BY <1>5, <1>11, <2>0 DEF Search
  <2>2. lower \in Level /\ lower <= search.level
    BY SkipBasics, <1>5, <1>11, <2>0
  <2>3. search.x \in Linked(lower)
    BY <1>5, <2>2 DEF SkipInv, LevelsInv, Nested, Linked
  <2>4. search' \in Search
    BY <1>5, <1>11, <2>0, <2>2 DEF Search
  <2>5. search.x \in Linked(lower)'
    BY <1>4, <2>3
  <2>6. search'.x \in Linked(search.level)'
    BY <2>1, <2>5 DEF Linked, OnLevel
  <2>7. SearchInv'
    BY <1>3, <1>5, <1>11, <2>1, <2>6 DEF SearchInv
  <2> QED BY <1>9, <1>11, <2>4, <2>7
<1>12. CASE ~Advances(n) /\ ~(search.level > 0) /\ Ends(IF search.op \in {"seek", "next"} THEN n ELSE search.x)
  <2> DEFINE r == IF search.op \in {"seek", "next"} THEN n ELSE search.x
  <2>1. search.level = 0
    BY SkipBasics, <1>5, <1>12
  <2>2. /\ search' = NoSearch /\ node_' = IF r = head_ THEN NULL ELSE r
        /\ found' = [search |-> search, result |-> r]
    BY <1>12 DEF Ends
  <2>3. search.op \in {"seek", "prev"} => n = NULL \/ search.target <= n
    BY <1>5, <1>7, <1>12 DEF Advances, KeyIsAfterNode
  <2>4. search.op = "last" => n = NULL
    BY <1>12 DEF Advances
  <2>5. \A k \in search.before: k \in Nat /\ k < NULL /\ (search.x < k => n <= k)
    BY SkipBasics, <1>6, <1>7, <2>1
  <2>6. search.x \in OnLevel(0) \cup {head_}
    BY <1>5, <2>1 DEF Linked
  <2>7. n \in OnLevel(0) \cup {NULL}
    BY <1>7, <2>1
  <2>8. r \in OnLevel(0) \cup {head_, NULL} /\ r \in 0..NULL /\ (r # head_ => r \in 1..NULL)
    BY SkipBasics, <1>7, <2>6, <2>7
  <2>9. search.op = "seek" => r >= search.target /\ \A k \in search.before: ~(search.target <= k /\ k < r)
    BY <1>5, <1>7, <2>3, <2>5
  <2>10. search.op = "prev" => r < search.target /\ \A k \in search.before: ~(r < k /\ k < search.target)
    BY <1>5, <1>7, <2>3, <2>5
  <2>11. search.op = "last" => r # NULL /\ \A k \in search.before: k <= r
    BY <1>7, <2>4, <2>5
  <2>12. search.op = "next" => r > search.target /\ \A k \in search.before: ~(search.target < k /\ k < r)
    BY <1>5, <1>7, <2>5
  <2> HIDE DEF r
  <2>13. SearchMissesNothing'
    BY <1>4, <2>2, <2>8, <2>9, <2>10, <2>11, <2>12 DEF SearchMissesNothing
  <2>14. SearchInv'
    BY <2>2 DEF SearchInv, NoSearch
  <2>15. NoSearch \in Search
    BY SkipBasics, SkipAssumption DEF Search, NoSearch, NULL, SkipNode, head_
  <2>16. ReaderTypes'
    BY SkipBasics, <1>5, <2>2, <2>8, <2>15 DEF ReaderTypes
  <2>17. node_' \in OnLevel(0)' \cup {NULL}
    BY <1>4, <2>2, <2>8
  <2> QED BY <1>2, <2>13, <2>14, <2>16, <2>17 DEF SkipInv, ReaderInv
<1> QED BY <1>8, <1>10, <1>11, <1>12

\* The invariant is inductive.
LEMMA SkipStep == SkipInv /\ [SkipNext]_skip_vars => SkipInv'
<1> SUFFICES ASSUME SkipInv, [SkipNext]_skip_vars PROVE SkipInv'
  OBVIOUS
<1>1. CASE UNCHANGED skip_vars
  <2>1. UNCHANGED writer /\ UNCHANGED reader
    BY <1>1 DEF skip_vars
  <2>2. UNCHANGED next_ /\ UNCHANGED inserted
    BY <2>1 DEF writer
  <2> QED BY <2>1, <2>2, WriterStays, ReaderStays, LinksStay DEF SkipInv
<1>2. ASSUME NEW key \in SkipKey, Insert(key) PROVE SkipInv'
  BY <1>2, InsertKeeps
<1>3. ASSUME NEW h \in 1..kMaxHeight, Grow(h) PROVE SkipInv'
  BY <1>3, GrowKeeps
<1>4. CASE SkipNext
  BY <1>2, <1>3, <1>4, FindKeeps, SetOwnLinkKeeps, PublishKeeps, ReaderBegins, ReaderStepKeeps DEF SkipNext
<1> QED BY <1>1, <1>4

\* SkipList, for every number of keys and every height: while one writer inserts, the
\* levels stay sorted and nested, and a reader that takes no lock misses no key that
\* was in the list when its search began.
THEOREM ReadersMissNothingCorrect == SkipSpec => []ReadersMissNothing
<1>1. SkipInv => ReadersMissNothing
  <2> SUFFICES ASSUME SkipInv PROVE LevelsAreSorted
    BY DEF SkipInv, ReaderInv, ReadersMissNothing
  <2>1. \A l \in Level: \A n \in OnLevel(l) \cup {head_}: next_[n][l] \in n + 1..NULL
    BY DEF SkipInv, LevelsInv, Forward, Linked
  <2>2. \A l \in Level \ {0}: OnLevel(l) \subseteq OnLevel(l - 1)
    BY SkipBasics DEF SkipInv, LevelsInv, Nested
  <2> QED BY <2>1, <2>2 DEF SkipInv, LevelsInv, Bottom, LevelsAreSorted
<1> QED BY <1>1, SkipStarts, SkipStep, PTL DEF SkipSpec
=============================================================================
