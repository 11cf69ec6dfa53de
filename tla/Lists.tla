------------------------------- MODULE Lists --------------------------------
(***************************************************************************)
(* Lists: the one of a cache, the intrusive list, and the skip list.       *)
(***************************************************************************)
EXTENDS Naturals, Sequences, FiniteSets, Functions

\* A list without its element at a place.
Dropped(s, i) == SubSeq(s, 1, i - 1) \o SubSeq(s, i + 1, Len(s))

(***************************************************************************)
(* container/lru_cache.h: a list of nodes, most recently used first, and   *)
(* an index from keys to list iterators.  An iterator is the node it       *)
(* points to, so the model gives list nodes an identity: splice moves a    *)
(* node, push_front takes a new one and erase frees it.  Every operation   *)
(* holds m_mutex from its first to its last step and is one action.        *)
(***************************************************************************)
CONSTANTS Key, Value, Node, None, Capacity

ASSUME CacheAssumption == /\ Capacity \in Nat /\ None \notin Node \cup Value
                          /\ IsFiniteSet(Node) /\ Cardinality(Node) > Capacity

VARIABLES
  value_list_,  \* a sequence of [node, key, value]
  index_,       \* key -> node, None when the map has no entry
  last,         \* history: the value last Put and not removed since, or None
  since         \* history: the other keys used since the key's last use

vars == <<value_list_, index_, last, since>>

\* Uses move a node to the front: a Get that hits, and a Put that stores.
Use(k) == since' = [j \in Key |-> IF j = k THEN {} ELSE since[j] \cup {k}]

\* list::erase(iterator)
Erase(list, n) == Dropped(list, CHOOSE i \in DOMAIN list: list[i].node = n)

Init ==
  /\ value_list_ = <<>>
  /\ index_ = [k \in Key |-> None]
  /\ last = [k \in Key |-> None]
  /\ since = [k \in Key |-> {}]

\* Get without the splice
GetInPlace(k) ==
  /\ IF index_[k] = None THEN UNCHANGED since ELSE Use(k)
  /\ UNCHANGED <<value_list_, index_, last>>

Get(k) ==
  /\ IF index_[k] = None
     THEN UNCHANGED <<value_list_, since>>
     ELSE LET e == CHOOSE e \in Range(value_list_): e.node = index_[k]
          IN /\ value_list_' = <<e>> \o Erase(value_list_, e.node)
             /\ Use(k)
  /\ UNCHANGED <<index_, last>>

\* A Put of the value the key has returns at once and is not a use.
Put(k, v) ==
  LET held  == index_[k] # None
      same  == \E e \in Range(value_list_): e.node = index_[k] /\ e.value = v
      rest  == IF held THEN Erase(value_list_, index_[k]) ELSE value_list_
      n     == CHOOSE n \in Node: \A e \in Range(rest): e.node # n
      list  == <<[node |-> n, key |-> k, value |-> v]>> \o rest
      index == [index_ EXCEPT ![k] = n]
      full  == Cardinality({j \in Key: index[j] # None}) > Capacity
      old   == list[Len(list)].key
  IN /\ last' = [last EXCEPT ![k] = v]
     /\ IF held /\ same
        THEN UNCHANGED <<value_list_, index_, since>>
        ELSE /\ value_list_' = IF full THEN Erase(list, index[old]) ELSE list
             /\ index_' = IF full THEN [index EXCEPT ![old] = None] ELSE index
             /\ Use(k)

\* Remove
InternalRemove(k) ==
  /\ value_list_' = IF index_[k] = None THEN value_list_ ELSE Erase(value_list_, index_[k])
  /\ index_' = [index_ EXCEPT ![k] = None]
  /\ last' = [last EXCEPT ![k] = None]
  /\ UNCHANGED since

Clear ==
  /\ value_list_' = <<>>
  /\ index_' = [k \in Key |-> None]
  /\ last' = [k \in Key |-> None]
  /\ UNCHANGED since

Next ==
  \/ \E k \in Key: Get(k) \/ InternalRemove(k) \/ \E v \in Value: Put(k, v)
  \/ Clear

Spec == Init /\ [][Next]_vars
-----------------------------------------------------------------------------
\* The index and the list describe the same entries: every index entry is an
\* iterator to a node of the list that holds its key, no node is without an
\* index entry, no two nodes are the same one, and there are never more of them
\* than the capacity.
IndexMatchesList ==
  /\ \A k \in Key: index_[k] # None =>
       \E e \in Range(value_list_): e.node = index_[k] /\ e.key = k
  /\ \A i \in DOMAIN value_list_: index_[value_list_[i].key] = value_list_[i].node
  /\ \A i, j \in DOMAIN value_list_: i # j => value_list_[i].node # value_list_[j].node
  /\ Len(value_list_) <= Capacity

\* Only the least recently used entry is given up: a key that was Put and not
\* removed is in the cache, with the value last Put, as long as fewer than
\* Capacity other keys have been used since.
HotKeyStays ==
  \A k \in Key: last[k] # None /\ Cardinality(since[k]) < Capacity =>
    \E e \in Range(value_list_): e.key = k /\ e.value = last[k]

\* The cache as a whole: after any sequence of Get, Put, Remove and Clear the
\* index and the list agree, and only least recently used entries were given up.
CacheIsExact == IndexMatchesList /\ HotKeyStays

-----------------------------------------------------------------------------
(***************************************************************************)
(* base/intrusive_list.h: circular doubly linked lists whose links are in  *)
(* the elements.  An element is in one list at most (push requires an      *)
(* element that is not linked), and takes itself out of its list when it   *)
(* is erased or destroyed.  order is what the links stand for.             *)
(***************************************************************************)
CONSTANTS Element, List

ASSUME ListAssumption == Element \cap List = {} /\ None \notin Element \cup List

VARIABLES prev, next,
          order,     \* head -> the elements of its list
          clearing,  \* the list that clear empties, or None
          iter       \* i of clear

list_vars == <<prev, next, order, clearing, iter>>

LinkNode == Element \cup List

\* list_node::init, of every node
ListInit ==
  /\ prev = [n \in LinkNode |-> n]
  /\ next = [n \in LinkNode |-> n]
  /\ order = [h \in List |-> <<>>]
  /\ clearing = None /\ iter = None

is_linked(n) == prev[n] # n \/ next[n] # n
empty(h) == next[h] = h /\ next[h] = prev[h]
Without(e) == [h \in List |-> IF \E i \in DOMAIN order[h]: order[h][i] = e
                              THEN Dropped(order[h], CHOOSE i \in DOMAIN order[h]: order[h][i] = e)
                              ELSE order[h]]

\* add with the last assignment missing
AddOneWay(e, p, n) ==
  /\ prev' = [prev EXCEPT ![n] = e, ![e] = p]
  /\ next' = [next EXCEPT ![e] = n]

\* add(node, prev, next)
Add(e, p, n) ==
  /\ prev' = [prev EXCEPT ![n] = e, ![e] = p]
  /\ next' = [next EXCEPT ![e] = n, ![p] = e]

push_front(h, e) ==
  /\ ~is_linked(e)
  /\ Add(e, h, next[h])
  /\ order' = [order EXCEPT ![h] = <<e>> \o @]

push_back(h, e) ==
  /\ ~is_linked(e)
  /\ Add(e, prev[h], h)
  /\ order' = [order EXCEPT ![h] = Append(@, e)]

\* list_node::unlink: of a node that is in no list it changes nothing.
Unlink(n) ==
  /\ prev' = [[prev EXCEPT ![next[n]] = prev[n]] EXCEPT ![n] = n]
  /\ next' = [[next EXCEPT ![prev[n]] = next[n]] EXCEPT ![n] = n]

\* erase, and the destructor of an element, linked or not.
erase(e) == Unlink(e) /\ order' = Without(e)

pop_front(h) == ~empty(h) /\ erase(next[h])
pop_back(h) == ~empty(h) /\ erase(prev[h])

\* clear: begin()
clear(h) ==
  /\ clearing' = h /\ iter' = next[h]
  /\ UNCHANGED <<prev, next, order>>

\* erase(i++) until i is end().
ClearNext ==
  /\ clearing # None
  /\ IF iter = clearing
     THEN clearing' = None /\ iter' = None /\ UNCHANGED <<prev, next, order>>
     ELSE iter' = next[iter] /\ erase(iter) /\ UNCHANGED clearing

ListNext ==
  \/ /\ clearing = None
     /\ \/ \E h \in List:
             \/ \E e \in Element: push_front(h, e) \/ push_back(h, e)
             \/ pop_front(h) \/ pop_back(h)
        \/ \E e \in Element: erase(e)
     /\ UNCHANGED <<clearing, iter>>
  \/ clearing = None /\ \E h \in List: clear(h)
  \/ ClearNext

ListSpec == ListInit /\ [][ListNext]_list_vars
-----------------------------------------------------------------------------
\* Walking forward from begin() gives the elements of the list in order and ends
\* at end(), walking backward gives them in reverse, and exactly the elements
\* of a list are linked: no sequence of pushes, erasures and destructions, in
\* two lists that exchange elements, leaves a dangling link.
LinksAreTheList ==
  /\ \A h \in List:
       LET walk == <<h>> \o order[h] \o <<h>>
       IN \A i \in 1..Len(walk) - 1: next[walk[i]] = walk[i + 1] /\ prev[walk[i + 1]] = walk[i]
  /\ \A e \in Element: is_linked(e) <=> \E h \in List: e \in Range(order[h])

\* LruCache and intrusive_list: the index and the list of the cache agree and only
\* the least recently used entry is given up; the links of an intrusive list are
\* the list, forward and backward.
CacheIsLru == CacheIsExact /\ LinksAreTheList

-----------------------------------------------------------------------------
(***************************************************************************)
(* container/skiplist.h: one writer at a time inserts while a reader       *)
(* searches and iterates without any lock.  A node is its key, head_ is 0  *)
(* and NULL, which "is considered infinite", is NumKeys + 1.  Every load   *)
(* and store of a link is a step; the barriers of Release_Store and        *)
(* Acquire_Load make them take effect in program order.                    *)
(***************************************************************************)
CONSTANTS NumKeys, kMaxHeight

ASSUME SkipAssumption == NumKeys \in Nat /\ kMaxHeight \in Nat \ {0}

VARIABLES
  next_,        \* node -> level -> node
  max_height_,
  inserting,    \* the key Insert is busy with, 0 when there is none
  doing,        \* Insert: "find", "grow", then of each level "set" and "publish"
  at,           \* x of FindGreaterOrEqual
  height, skip_prev, \* the height of the new node, prev[level]
  level,        \* the level that is searched, or is the next to be linked
  inserted,     \* keys whose Insert has returned
  node_,        \* the reader's Iterator
  search,       \* the reader's search: [op, target, x, level, before]
  found         \* history: the last completed search and its result

writer == <<next_, max_height_, inserting, doing, at, height, skip_prev, level, inserted>>
reader == <<node_, search, found>>
skip_vars == <<writer, reader>>

SkipKey     == 1..NumKeys
head_   == 0
NULL    == NumKeys + 1
Garbage == NumKeys + 2   \* a link of a new node that was not written yet
Level   == 0..kMaxHeight - 1
NoSearch == [op |-> "none", target |-> NULL, x |-> head_, level |-> 0, before |-> {}]
NotFound == [search |-> NoSearch, result |-> NULL]

KeyIsAfterNode(key, n) == n # NULL /\ n < key

SkipInit ==
  /\ next_ = [n \in {head_} \cup SkipKey |-> [l \in Level |-> IF n = head_ THEN NULL ELSE Garbage]]
  /\ max_height_ = 1
  /\ inserting = 0 /\ doing = "find" /\ at = head_ /\ height = 1
  /\ skip_prev = [l \in Level |-> Garbage] /\ level = 0
  /\ inserted = {}
  /\ node_ = NULL /\ search = NoSearch /\ found = NotFound

-----------------------------------------------------------------------------
(* Insert                                                                  *)

\* Nothing that is equal to key is in the list.  Insert calls FindGreaterOrEqual(key, prev).
Insert(key) ==
  /\ inserting = 0 /\ key \notin inserted
  /\ inserting' = key /\ doing' = "find" /\ at' = head_ /\ level' = max_height_ - 1
  /\ skip_prev' = [l \in Level |-> Garbage]
  /\ UNCHANGED <<next_, max_height_, height, inserted, reader>>

\* One turn of its loop.
FindGreaterOrEqual ==
  /\ inserting # 0 /\ doing = "find"
  /\ LET n == next_[at][level]
     IN IF KeyIsAfterNode(inserting, n)
        THEN at' = n /\ UNCHANGED <<doing, skip_prev, level>>
        ELSE /\ skip_prev' = [skip_prev EXCEPT ![level] = at]
             /\ IF level = 0 THEN doing' = "grow" /\ UNCHANGED level
                             ELSE level' = level - 1 /\ UNCHANGED doing
             /\ UNCHANGED at
  /\ UNCHANGED <<next_, max_height_, inserting, height, inserted, reader>>

\* RandomHeight, and the store of max_height_.
Grow(h) ==
  /\ inserting # 0 /\ doing = "grow"
  /\ height' = h
  /\ max_height_' = IF h > max_height_ THEN h ELSE max_height_
  /\ skip_prev' = [l \in Level |-> IF max_height_ <= l /\ l < h THEN head_ ELSE skip_prev[l]]
  /\ doing' = "set" /\ level' = 0
  /\ UNCHANGED <<next_, inserting, at, inserted, reader>>

\* x->NoBarrier_SetNext(i, prev[i]->NoBarrier_Next(i))
SetOwnLink ==
  /\ inserting # 0 /\ doing = "set"
  /\ next_' = [next_ EXCEPT ![inserting][level] = next_[skip_prev[level]][level]]
  /\ doing' = "publish"
  /\ UNCHANGED <<max_height_, inserting, at, height, skip_prev, level, inserted, reader>>

\* prev[i]->SetNext(i, x)
Publish ==
  /\ inserting # 0 /\ doing = "publish"
  /\ next_' = [next_ EXCEPT ![skip_prev[level]][level] = inserting]
  /\ doing' = "set"
  /\ IF level + 1 < height
     THEN level' = level + 1 /\ UNCHANGED <<inserting, inserted>>
     ELSE level' = 0 /\ inserting' = 0 /\ inserted' = inserted \cup {inserting}
  /\ UNCHANGED <<max_height_, at, height, skip_prev, reader>>

-----------------------------------------------------------------------------
(* The reader: each operation reads max_height_, then one link per step.   *)

Begin(op, target) ==
  /\ search.op = "none"
  /\ search' = [op |-> op, target |-> target, x |-> head_,
                level |-> max_height_ - 1, before |-> inserted]
  /\ found' = NotFound
  /\ UNCHANGED <<node_, writer>>

Seek(target) == Begin("seek", target)
SeekToLast == Begin("last", NULL)
Prev == node_ # NULL /\ Begin("prev", node_)

\* SeekToFirst and Next read one link: a search that begins at its end.
StepFrom(op, n) ==
  /\ search.op = "none"
  /\ search' = [op |-> op, target |-> n, x |-> n, level |-> 0, before |-> inserted]
  /\ found' = NotFound
  /\ UNCHANGED <<node_, writer>>

SeekToFirst == StepFrom("next", head_)
IterNext == node_ # NULL /\ StepFrom("next", node_)

Ends(result) ==
  /\ search' = NoSearch
  /\ node_' = IF result = head_ THEN NULL ELSE result
  /\ found' = [search |-> search, result |-> result]

\* Comparing with <= for <
AdvancesTooFar(n) ==
  CASE search.op = "next" -> FALSE
    [] search.op = "last" -> n # NULL
    [] OTHER -> KeyIsAfterNode(search.target + 1, n)

\* Whether the search goes on along its level: FindGreaterOrEqual and
\* FindLessThan compare keys, FindLast runs to the end, Next stops at once.
Advances(n) ==
  CASE search.op = "next" -> FALSE
    [] search.op = "last" -> n # NULL
    [] OTHER -> KeyIsAfterNode(search.target, n)

\* One turn of the loop.
ReaderStep ==
  /\ search.op # "none"
  /\ LET n == next_[search.x][search.level]
     IN IF Advances(n)
        THEN search' = [search EXCEPT !.x = n] /\ UNCHANGED <<node_, found>>
        ELSE IF search.level > 0
        THEN search' = [search EXCEPT !.level = @ - 1] /\ UNCHANGED <<node_, found>>
        ELSE Ends(IF search.op \in {"seek", "next"} THEN n ELSE search.x)
  /\ UNCHANGED writer

SkipNext ==
  \/ \E key \in SkipKey: Insert(key)
  \/ FindGreaterOrEqual \/ \E h \in 1..kMaxHeight: Grow(h)
  \/ SetOwnLink \/ Publish
  \/ \E target \in SkipKey: Seek(target)
  \/ SeekToLast \/ Prev \/ SeekToFirst \/ IterNext
  \/ ReaderStep

SkipSpec == SkipInit /\ [][SkipNext]_skip_vars
-----------------------------------------------------------------------------
OnLevel(l) == {n \in SkipKey: \E m \in {head_} \cup SkipKey: next_[m][l] = n}

\* Every level is a sorted list of nodes that are on all levels below, also
\* while an Insert is under way: links go forward, and no linked node has a
\* link on its level that was not written.
LevelsAreSorted ==
  /\ \A l \in Level: \A n \in OnLevel(l) \cup {head_}: next_[n][l] \in n + 1..NULL
  /\ \A l \in Level \ {0}: OnLevel(l) \subseteq OnLevel(l - 1)
  /\ inserted \subseteq OnLevel(0)

\* A search without locks is right about every key that was in the list when it
\* began: it returns no node that jumps over such a key, whatever the writer
\* linked in between, and only nodes that are in the list.
SearchMissesNothing ==
  LET s == found.search
      r == found.result
  IN /\ r \in OnLevel(0) \cup {head_, NULL}
     /\ s.op = "seek" => r >= s.target /\ \A k \in s.before: ~(s.target <= k /\ k < r)
     /\ s.op = "prev" => r < s.target /\ \A k \in s.before: ~(r < k /\ k < s.target)
     /\ s.op = "last" => r # NULL /\ \A k \in s.before: k <= r
     /\ s.op = "next" => r > s.target /\ \A k \in s.before: ~(s.target < k /\ k < r)

\* SkipList as a whole: one writer and one reader without a lock, the levels stay
\* sorted and a search misses no key that was there when it began.
ReadersMissNothing == LevelsAreSorted /\ SearchMissesNothing
=============================================================================
