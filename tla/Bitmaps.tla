------------------------------ MODULE Bitmaps -------------------------------
(***************************************************************************)
(* Sets in the bits of words: bitmaps, Bloom filters and sets of bytes.    *)
(***************************************************************************)
EXTENDS Naturals, FiniteSets, FiniteSetsExt, Sequences, Integers, SequencesExt

(***************************************************************************)
(* container/bitmap.h and bitmap.cpp: DynamicBitmap.  m_words is an array  *)
(* of words of kBitsPerWord bits, here the sets of their one bits, and the *)
(* operations work word by word with shifts and masks.  bits is what the   *)
(* bitmap stands for: the set of the positions below m_size that are set,  *)
(* changed as the comments of the operations say.                          *)
(***************************************************************************)
CONSTANTS kBitsPerWord, MaxBits

VARIABLES m_words, m_size, bits,
          shrunk  \* history: a Resize has cut a word short

vars == <<m_words, m_size, bits, shrunk>>

Bit == 0..kBitsPerWord - 1

\* w << n, w >> n, ~w, and the masks
Shl(w, n) == {b + n: b \in w} \cap Bit
Shr(w, n) == {b - n: b \in {b \in w: b >= n}}
LowBits(n) == 0..n - 1

WordSizeOfBits(n) == (n + kBitsPerWord - 1) \div kBitsPerWord
WordIndexOfBit(i) == i \div kBitsPerWord
ShiftOfBit(i) == i % kBitsPerWord
WordSize == WordSizeOfBits(m_size)

MaskOffTailBits(words, size) ==
  IF size % kBitsPerWord > 0
  THEN [words EXCEPT ![WordIndexOfBit(size)] = @ \cap LowBits(size % kBitsPerWord)]
  ELSE words

\* The constructors: any size, all bits clear or all set.
Init ==
  /\ m_size \in 1..MaxBits
  /\ \E value \in {{}, Bit}:
       /\ m_words = MaskOffTailBits([i \in 0..WordSize - 1 |-> value], m_size)
       /\ bits = IF value = {} THEN {} ELSE 0..m_size - 1
  /\ shrunk = FALSE

-----------------------------------------------------------------------------
(* Operations that change the bitmap.                                      *)

SetAt(i) ==
  /\ i < m_size
  /\ m_words' = [m_words EXCEPT ![WordIndexOfBit(i)] = @ \cup {ShiftOfBit(i)}]
  /\ bits' = bits \cup {i}
  /\ UNCHANGED <<m_size, shrunk>>

ClearAt(i) ==
  /\ i < m_size
  /\ m_words' = [m_words EXCEPT ![WordIndexOfBit(i)] = @ \ {ShiftOfBit(i)}]
  /\ bits' = bits \ {i}
  /\ UNCHANGED <<m_size, shrunk>>

SetAll ==
  /\ m_words' = MaskOffTailBits([i \in DOMAIN m_words |-> Bit], m_size)
  /\ bits' = 0..m_size - 1
  /\ shrunk' = FALSE
  /\ UNCHANGED m_size

ClearAll ==
  /\ m_words' = [i \in DOMAIN m_words |-> {}]
  /\ bits' = {}
  /\ shrunk' = FALSE
  /\ UNCHANGED m_size

\* DoLeftShift and DoRightShift, for shifts of less than the whole bitmap.
LeftShift(shift) ==
  /\ 0 < shift /\ WordIndexOfBit(shift) < WordSize
  /\ LET last == WordIndexOfBit(shift)
         tail == ShiftOfBit(shift)
         word(n) ==
           CASE n < last -> {}
             [] n = last -> Shl(m_words[0], tail)
             [] n > last -> Shl(m_words[n - last], tail)
                              \cup Shr(m_words[n - last - 1], kBitsPerWord - tail)
     IN m_words' = MaskOffTailBits([n \in DOMAIN m_words |-> word(n)], m_size)
  /\ bits' = {b + shift: b \in bits} \cap 0..m_size - 1
  /\ UNCHANGED <<m_size, shrunk>>

RightShift(shift) ==
  /\ 0 < shift /\ WordIndexOfBit(shift) < WordSize
  /\ LET last == WordIndexOfBit(shift)
         tail == ShiftOfBit(shift)
         limit == WordSize - last - 1
         word(n) ==
           CASE n < limit -> Shr(m_words[n + last], tail)
                               \cup Shl(m_words[n + last + 1], kBitsPerWord - tail)
             [] n = limit -> Shr(m_words[WordSize - 1], tail)
             [] n > limit -> {}
     IN m_words' = [n \in DOMAIN m_words |-> word(n)]
  /\ bits' = {b - shift: b \in {b \in bits: b >= shift}}
  /\ UNCHANGED <<m_size, shrunk>>

\* The words of another bitmap of the same size.
WordsOf(set) == [n \in DOMAIN m_words |-> {b \in Bit: n * kBitsPerWord + b \in set}]

AndWith(rhs) ==
  /\ m_words' = [n \in DOMAIN m_words |-> m_words[n] \cap WordsOf(rhs)[n]]
  /\ bits' = bits \cap rhs
  /\ UNCHANGED <<m_size, shrunk>>

OrWith(rhs) ==
  /\ m_words' = [n \in DOMAIN m_words |-> m_words[n] \cup WordsOf(rhs)[n]]
  /\ bits' = bits \cup rhs
  /\ UNCHANGED <<m_size, shrunk>>

XorWith(rhs) ==
  /\ m_words' = [n \in DOMAIN m_words |->
                   (m_words[n] \cup WordsOf(rhs)[n]) \ (m_words[n] \cap WordsOf(rhs)[n])]
  /\ bits' = (bits \cup rhs) \ (bits \cap rhs)
  /\ UNCHANGED <<m_size, shrunk>>

\* vector::resize keeps the words, and no mask is applied.
Resize(size) ==
  /\ m_size' = size
  /\ m_words' = [n \in 0..WordSizeOfBits(size) - 1 |->
                   IF n \in DOMAIN m_words THEN m_words[n] ELSE {}]
  /\ bits' = bits \cap 0..size - 1
  /\ shrunk' = (shrunk \/ size < m_size)

Next ==
  \/ \E i \in 0..m_size - 1: SetAt(i) \/ ClearAt(i)
  \/ SetAll \/ ClearAll
  \/ \E shift \in 1..MaxBits: LeftShift(shift) \/ RightShift(shift)
  \/ \E rhs \in SUBSET (0..m_size - 1): AndWith(rhs) \/ OrWith(rhs) \/ XorWith(rhs)
  \/ \E size \in 1..MaxBits: Resize(size)

Spec == Init /\ [][Next]_vars

-----------------------------------------------------------------------------
(* Queries.                                                                *)

GetAt(i) == ShiftOfBit(i) \in m_words[WordIndexOfBit(i)]

DoAllAreSet ==
  /\ \A n \in 0..WordIndexOfBit(m_size) - 1: m_words[n] = Bit
  /\ ShiftOfBit(m_size) > 0 =>
       LowBits(ShiftOfBit(m_size)) \subseteq m_words[WordIndexOfBit(m_size)]

DoAllAreClear ==
  /\ \A n \in 0..WordIndexOfBit(m_size) - 1: m_words[n] = {}
  /\ LET tail == ShiftOfBit(m_size) word == m_words[WordIndexOfBit(m_size)]
     IN tail > 0 => Shl(Shr(word, tail), tail) = word

\* DoAllAreClearInRange with the middle words beginning one too late
ClearInRangeSkips(start, end) ==
  LET first == WordIndexOfBit(start) last == WordIndexOfBit(end)
      head == ShiftOfBit(start) tail == ShiftOfBit(end)
  IN IF first # last
     THEN /\ head > 0 => Shr(m_words[first], head) = {}
          /\ \A n \in first + 1..last - 1: m_words[n] = {}
          /\ tail > 0 => m_words[last] \cap LowBits(tail) = {}
     ELSE Shl(Shr(m_words[first], head), kBitsPerWord - tail + head) = {}

DoAllAreClearInRange(start, end) ==
  LET first == WordIndexOfBit(start) last == WordIndexOfBit(end)
      head == ShiftOfBit(start) tail == ShiftOfBit(end)
  IN IF first # last
     THEN /\ head > 0 => Shr(m_words[first], head) = {}
          /\ \A n \in (IF head > 0 THEN first + 1 ELSE first)..last - 1: m_words[n] = {}
          /\ tail > 0 => m_words[last] \cap LowBits(tail) = {}
     ELSE Shl(Shr(m_words[first], head), kBitsPerWord - tail + head) = {}

DoIsSubsetOf(full) ==
  /\ \A n \in 0..WordIndexOfBit(m_size) - 1: m_words[n] \cup full[n] = full[n]
  /\ LET mask == LowBits(ShiftOfBit(m_size)) n == WordIndexOfBit(m_size)
     IN mask # {} => (m_words[n] \cap mask) \cup (full[n] \cap mask) = full[n] \cap mask

\* The position of the lowest one bit of the words from n on, or NoBit.
NoBit == MaxBits + kBitsPerWord
FirstFrom(n) ==
  LET some == {k \in n..WordSize - 1: m_words[k] # {}}
  IN IF some = {} THEN NoBit ELSE Min(some) * kBitsPerWord + Min(m_words[Min(some)])

DoFindFirst == FirstFrom(0)

DoFindNext(prev) ==
  LET from == prev + 1
      word == m_words[WordIndexOfBit(from)] \cap Shl(Bit, ShiftOfBit(from))
  IN IF from >= WordSize * kBitsPerWord THEN NoBit
     ELSE IF word # {} THEN WordIndexOfBit(from) * kBitsPerWord + Min(word)
     ELSE FirstFrom(WordIndexOfBit(from) + 1)

-----------------------------------------------------------------------------
\* Every sequence of operations leaves in the words the set that the operations
\* describe; the unused bits of the last word are clear, unless a Resize to a
\* smaller size has left some set, in which case no claim is made until the
\* words are filled anew.
WordsAreTheSet ==
  ~shrunk => \A i \in 0..WordSize * kBitsPerWord - 1: GetAt(i) <=> i \in bits

\* AllAreSet, AllAreClear, AllAreClearInRange of a range that is not empty,
\* IsSubsetOf, FindFirst and FindNext answer for the set, wherever word
\* boundaries fall.
QueriesAgree ==
  ~shrunk =>
    /\ DoAllAreSet <=> bits = 0..m_size - 1
    /\ DoAllAreClear <=> bits = {}
    /\ \A end \in 1..m_size: \A start \in 0..end - 1:
         DoAllAreClearInRange(start, end) <=> bits \cap start..end - 1 = {}
    /\ \A set \in SUBSET (0..m_size - 1): DoIsSubsetOf(WordsOf(set)) <=> bits \subseteq set
    /\ DoFindFirst = IF bits = {} THEN NoBit ELSE Min(bits)
    /\ \A prev \in 0..m_size - 1:
         DoFindNext(prev) = LET later == {b \in bits: b > prev}
                            IN IF later = {} THEN NoBit ELSE Min(later)

\* Bitmap as a whole: the words hold the set that the operations describe, and
\* the queries answer for it.
BitmapIsTheSet == WordsAreTheSet /\ QueriesAgree

-----------------------------------------------------------------------------
(***************************************************************************)
(* container/bloom_filter.h and bloom_filter.cpp.  A BloomFilter sets the  *)
(* bits that its hash functions choose in a bitmap it owns, or in one the  *)
(* caller lent it (Initialize with copy = false), which others may share.  *)
(* A PartialBloomFilter has a bitmap for each hash function.  The hash     *)
(* functions are external: any table of bit positions.                     *)
(***************************************************************************)
CONSTANTS Key, Hash, Buffer, None
  \* Hash: key -> the sequence of its bit positions, one for a hash function

VARIABLES
  m_bitmap,      \* the buffer the filter uses, None when uninitialized
  m_own_bitmap,
  memory,        \* buffer -> its bits; buffers not in its domain are not allocated
  lent,          \* the caller's buffers
  m_bitmaps,     \* PartialBloomFilter: one set of bits per hash function
  keys,          \* history: keys inserted into the filter since it was empty
  partial_keys,  \* history: keys inserted into the partial filter
  unique         \* history: InsertUnique returned true for a key it had

filter_vars == <<m_bitmap, m_own_bitmap, memory, lent, m_bitmaps, keys, partial_keys, unique>>

partial == <<m_bitmaps, partial_keys>>
Without(buffers) == [b \in DOMAIN memory \ buffers |-> memory[b]]

\* The default constructors, and a buffer of the caller's with some bits set.
FilterInit ==
  /\ m_bitmap = None /\ m_own_bitmap = FALSE
  /\ lent = {CHOOSE b \in Buffer: TRUE} /\ memory = [b \in lent |-> {}]
  /\ m_bitmaps = [i \in DOMAIN Hash[CHOOSE k \in Key: TRUE] |-> {}]
  /\ keys = {} /\ partial_keys = {} /\ unique = FALSE

\* Destroy, with which Initialize begins: the memory without the own bitmap.
Freed == IF m_own_bitmap THEN Without({m_bitmap}) ELSE memory

Destroy ==
  /\ memory' = Freed
  /\ m_bitmap' = None /\ m_own_bitmap' = FALSE /\ keys' = {}
  /\ UNCHANGED <<lent, unique, partial>>

\* Initialize(bitmap_byte_size, num_hashes)
Initialize ==
  /\ \E b \in Buffer \ DOMAIN Freed:
       /\ m_bitmap' = b
       /\ memory' = [c \in DOMAIN Freed \cup {b} |-> IF c = b THEN {} ELSE memory[c]]
  /\ m_own_bitmap' = TRUE /\ keys' = {}
  /\ UNCHANGED <<lent, unique, partial>>

\* Initialize(bitmap, bitmap_byte_size, num_hashes, copy)
InitializeWith(bitmap, copy) ==
  /\ bitmap \in lent
  /\ IF copy
     THEN \E b \in Buffer \ DOMAIN Freed:
            /\ m_bitmap' = b
            /\ memory' = [c \in DOMAIN Freed \cup {b} |-> IF c = b THEN memory[bitmap] ELSE memory[c]]
     ELSE m_bitmap' = bitmap /\ memory' = Freed
  /\ m_own_bitmap' = copy /\ keys' = {}
  /\ UNCHANGED <<lent, unique, partial>>

BitsOf(key) == {Hash[key][i]: i \in DOMAIN Hash[key]}

\* Insert that misses the last hash function
InsertAllButOne(key) ==
  /\ m_bitmap # None
  /\ memory' = [memory EXCEPT ![m_bitmap] = @ \cup {Hash[key][i]: i \in 1..Len(Hash[key]) - 1}]
  /\ keys' = keys \cup {key}
  /\ UNCHANGED <<m_bitmap, m_own_bitmap, lent, unique, partial>>

Insert(key) ==
  /\ m_bitmap # None
  /\ memory' = [memory EXCEPT ![m_bitmap] = @ \cup BitsOf(key)]
  /\ keys' = keys \cup {key}
  /\ UNCHANGED <<m_bitmap, m_own_bitmap, lent, unique, partial>>

\* InsertUnique counts the bits that were set when their turn came: a bit that
\* two hash functions share counts for the second one.
ExistCount(key) ==
  Cardinality({i \in DOMAIN Hash[key]:
    Hash[key][i] \in memory[m_bitmap] \cup {Hash[key][j]: j \in 1..i - 1}})

InsertUnique(key) ==
  /\ m_bitmap # None
  /\ memory' = [memory EXCEPT ![m_bitmap] = @ \cup BitsOf(key)]
  /\ keys' = keys \cup {key}
  /\ unique' = (unique \/ (key \in keys /\ ExistCount(key) < Len(Hash[key])))
  /\ UNCHANGED <<m_bitmap, m_own_bitmap, lent, partial>>

Clear ==
  /\ m_bitmap # None
  /\ memory' = [memory EXCEPT ![m_bitmap] = {}]
  /\ keys' = {}
  /\ UNCHANGED <<m_bitmap, m_own_bitmap, lent, unique, partial>>

\* The caller sets bits of a buffer it lent, as another filter would.
OtherInserts(b, key) ==
  /\ b \in lent
  /\ memory' = [memory EXCEPT ![b] = @ \cup BitsOf(key)]
  /\ UNCHANGED <<m_bitmap, m_own_bitmap, lent, keys, unique, partial>>

MayContain(key) == \A i \in DOMAIN Hash[key]: Hash[key][i] \in memory[m_bitmap]

PartialInsert(key) ==
  /\ m_bitmaps' = [i \in DOMAIN m_bitmaps |-> m_bitmaps[i] \cup {Hash[key][i]}]
  /\ partial_keys' = partial_keys \cup {key}
  /\ UNCHANGED <<m_bitmap, m_own_bitmap, memory, lent, keys, unique>>

PartialMayContain(key) == \A i \in DOMAIN m_bitmaps: Hash[key][i] \in m_bitmaps[i]

FilterNext ==
  \/ Destroy \/ Initialize \/ Clear
  \/ \E b \in lent: \E copy \in BOOLEAN: InitializeWith(b, copy)
  \/ \E key \in Key:
       \/ Insert(key) \/ InsertUnique(key) \/ PartialInsert(key)
       \/ \E b \in lent: OtherInserts(b, key)

FilterSpec == FilterInit /\ [][FilterNext]_filter_vars
-----------------------------------------------------------------------------
\* "false postives are possible, but false negatives are not": every key that was
\* inserted may be contained, also when others write to a bitmap that was lent,
\* and InsertUnique never takes a key it has for a new one.
NoFalseNegatives ==
  /\ \A key \in keys: MayContain(key)
  /\ \A key \in partial_keys: PartialMayContain(key)
  /\ ~unique

\* The caller's buffers are never freed, a filter's bitmap is allocated while it
\* is used, and no bitmap is left over when a filter takes another one.
BitmapsAccounted ==
  DOMAIN memory = lent \cup (IF m_own_bitmap THEN {m_bitmap} ELSE {})

\* BloomFilter as a whole: no false negatives, and the bitmaps are freed by their
\* owner.
FilterIsSound == NoFalseNegatives /\ BitmapsAccounted

-----------------------------------------------------------------------------
(***************************************************************************)
(* ByteSet (base/string/byte_set.h): a set of bytes as an array of bytes,  *)
(* a bit for each.  Characters are signed, as they are on this platform,   *)
(* and become unsigned on their way in.  Two sets, so that they can be     *)
(* joined; a byte has CharBit bits.                                        *)
(***************************************************************************)
CONSTANT CharBit

VARIABLES
  byte_bitmap,     \* of each set
  content       \* history: the set that the operations describe

byteset_vars == <<byte_bitmap, content>>

UCharMax == 2^CharBit - 1
Byte     == 0..UCharMax
CharMin  == -(2^(CharBit - 1))
Char     == CharMin..(2^(CharBit - 1) - 1)
Unsigned(c) == c % 2^CharBit

Cells == 0..((UCharMax + 1 + CharBit - 1) \div CharBit - 1)
Empty == [i \in Cells |-> 0]

ByteSetBit(cell, k)   == (cell \div 2^k) % 2
Join(x, y)     == FoldFunction(LAMBDA a, b: a + b, 0, [k \in 0..CharBit - 1 |-> IF ByteSetBit(x, k) + ByteSetBit(y, k) > 0 THEN 2^k ELSE 0])
Meet(x, y)     == FoldFunction(LAMBDA a, b: a + b, 0, [k \in 0..CharBit - 1 |-> IF ByteSetBit(x, k) + ByteSetBit(y, k) = 2 THEN 2^k ELSE 0])
Complement(x)  == UCharMax - x

ByteSetInsert(bm, n) == [bm EXCEPT ![n \div CharBit] = Join(@, 2^(n % CharBit))]
RemoveByte(bm, n) == [bm EXCEPT ![n \div CharBit] = Meet(@, Complement(2^(n % CharBit)))]
Find(bm, c)   == ByteSetBit(bm[c \div CharBit], c % CharBit) = 1

\* Faulty: the byte after the last is left out.
InsertPredShort(bm, pred) == FoldLeft(LAMBDA b, i: IF i - 1 \in pred THEN ByteSetInsert(b, i - 1) ELSE b, bm, [i \in 1..UCharMax |-> i])
InsertPred(bm, pred) == FoldLeft(LAMBDA b, i: IF i - 1 \in pred THEN ByteSetInsert(b, i - 1) ELSE b, bm, [i \in 1..UCharMax + 1 |-> i])
RemovePred(bm, pred)      == FoldLeft(LAMBDA b, i: IF i - 1 \in pred THEN RemoveByte(b, i - 1) ELSE b, bm, [i \in 1..UCharMax + 1 |-> i])

\* InsertBytes takes the characters as they are; a string ends at its zero.
InsertBytes(bm, str)  == FoldLeft(LAMBDA b, c: ByteSetInsert(b, Unsigned(c)), bm, str)
CString(str)          == SubSeq(str, 1, Min({i \in DOMAIN str: str[i] = 0} \cup {Len(str) + 1}) - 1)
InsertString(bm, str) == InsertBytes(bm, CString(str))
RemoveString(bm, str) == FoldLeft(LAMBDA b, c: RemoveByte(b, Unsigned(c)), bm, CString(str))

ByteSetOrWith(bm, rhs)  == [i \in Cells |-> Join(bm[i], rhs[i])]
ByteSetAndWith(bm, rhs) == [i \in Cells |-> Meet(bm[i], rhs[i])]

Sets == {1, 2}
Becomes(s, bm, set) == byte_bitmap' = [byte_bitmap EXCEPT ![s] = bm] /\ content' = [content EXCEPT ![s] = set]
BytesOf(str) == {Unsigned(c): c \in ToSet(str)}

ByteSetInit == byte_bitmap = [s \in Sets |-> Empty] /\ content = [s \in Sets |-> {}]

ByteSetNext == \E s \in Sets:
  \/ Becomes(s, Empty, {})
  \/ \E n \in Byte: \/ Becomes(s, ByteSetInsert(byte_bitmap[s], n), content[s] \cup {n})
                    \/ Becomes(s, RemoveByte(byte_bitmap[s], n), content[s] \ {n})
                    \/ \E pred \in {n..UCharMax}: \/ Becomes(s, InsertPred(byte_bitmap[s], pred), content[s] \cup pred)
                                                  \/ Becomes(s, RemovePred(byte_bitmap[s], pred), content[s] \ pred)
  \/ \E c \in Char: \/ Becomes(s, InsertBytes(byte_bitmap[s], <<0, c>>), content[s] \cup BytesOf(<<0, c>>))
                    \/ Becomes(s, InsertString(byte_bitmap[s], <<c, 0, 1>>), content[s] \cup (BytesOf(<<c>>) \ {0}))
                    \/ Becomes(s, RemoveString(byte_bitmap[s], <<c, 0, 1>>), content[s] \ (BytesOf(<<c>>) \ {0}))
  \/ Becomes(s, ByteSetOrWith(byte_bitmap[s], byte_bitmap[3 - s]), content[s] \cup content[3 - s])
  \/ Becomes(s, ByteSetAndWith(byte_bitmap[s], byte_bitmap[3 - s]), content[s] \cap content[3 - s])

ByteSetSpec == ByteSetInit /\ [][ByteSetNext]_byteset_vars
-----------------------------------------------------------------------------
\* Find answers for exactly the bytes that were inserted and not removed, the last
\* byte and those of negative characters included.
BytesAreTheSet == \A s \in Sets: \A c \in Byte: Find(byte_bitmap[s], c) = (c \in content[s])
=============================================================================
