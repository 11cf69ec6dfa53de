----------------------------- MODULE Arithmetic -----------------------------
(***************************************************************************)
(* Arithmetic by parts: integers of two words, and division by             *)
(* multiplication.                                                         *)
(***************************************************************************)
EXTENDS Integers, Sequences, SequencesExt, Bitwise

(***************************************************************************)
(* UInt128 (base/int128.h, int128.cpp): an unsigned integer in two words,  *)
(* each of Bits bits instead of 64, and the conversions of byte order      *)
(* (base/byte_order.h) of a word of several bytes.                         *)
(***************************************************************************)
CONSTANTS
  Bits,
  Operands            \* the integers that the operations are applied to

VARIABLES
  a,                  \* the integer of the program
  value               \* history: the number that it stands for

wide_vars == <<a, value>>

Word == 2 ^ Bits
Wide == Word * Word

UInt128(top, bottom) == [hi |-> top, lo |-> bottom]

\* A negative int is extended by its sign.
FromInt(bottom) == UInt128(IF bottom < 0 THEN Word - 1 ELSE 0, bottom % Word)

AddNoCarry(x, y) == UInt128((x.hi + y.hi) % Word, (x.lo + y.lo) % Word)
Add(x, y) ==
  LET lo == (x.lo + y.lo) % Word
      carry == IF lo < y.lo THEN 1 ELSE 0
  IN UInt128((x.hi + y.hi + carry) % Word, lo)

Subtract(x, y) ==
  LET borrow == IF y.lo > x.lo THEN 1 ELSE 0
  IN UInt128((x.hi - y.hi - borrow) % Word, (x.lo - y.lo) % Word)

Increment(x) == Add(x, FromInt(1))
Decrement(x) == Subtract(x, FromInt(1))

BitNot(x) == UInt128(Word - 1 - x.hi, Word - 1 - x.lo)
BitOr(x, y) == UInt128(x.hi | y.hi, x.lo | y.lo)
BitAnd(x, y) == UInt128(x.hi & y.hi, x.lo & y.lo)
BitXor(x, y) == UInt128(x.hi ^^ y.hi, x.lo ^^ y.lo)

Left(w, n) == (w * 2 ^ n) % Word
Right(w, n) == w \div 2 ^ n

\* A word may not be shifted by its whole width.
ShiftLeft(x, amount) ==
  CASE amount = 0 -> x
    [] amount \in 1 .. Bits - 1 -> UInt128(Left(x.hi, amount) | Right(x.lo, Bits - amount), Left(x.lo, amount))
    [] amount \in Bits .. 2 * Bits - 1 -> UInt128(Left(x.lo, amount - Bits), 0)
    [] OTHER -> UInt128(0, 0)

ShiftRight(x, amount) ==
  CASE amount = 0 -> x
    [] amount \in 1 .. Bits - 1 -> UInt128(Right(x.hi, amount), Right(x.lo, amount) | Left(x.hi, Bits - amount))
    [] amount \in Bits .. 2 * Bits - 1 -> UInt128(0, Right(x.hi, amount - Bits))
    [] OTHER -> UInt128(0, 0)

Equal(x, y) == x.lo = y.lo /\ x.hi = y.hi
Less(x, y) == IF x.hi = y.hi THEN x.lo < y.lo ELSE x.hi < y.hi

\* A word as its bytes, the lowest first; bswap_16, bswap_32 and bswap_64.
Swap(bytes) == Reverse(bytes)

\* hton and ntoh, ToBig and FromBig, ToLittle and FromLittle of a machine.
NetOrder(bytes, big) == IF big THEN bytes ELSE Swap(bytes)
BigOrder(bytes, big) == IF big THEN bytes ELSE Swap(bytes)
LittleOrder(bytes, big) == IF big THEN Swap(bytes) ELSE bytes

Init == a = UInt128(0, 0) /\ value = 0

Becomes(x, v) == a' = x /\ value' = v % Wide

Next ==
  \/ Becomes(Increment(a), value + 1)
  \/ Becomes(Decrement(a), value - 1)
  \/ Becomes(BitNot(a), -1 - value)
  \/ \E n \in {-1, 0, 1}: Becomes(FromInt(n), n)
  \/ \E n \in 0 .. 2 * Bits + 1:
       \/ Becomes(ShiftLeft(a, n), value * 2 ^ n)
       \/ Becomes(ShiftRight(a, n), value \div 2 ^ n)
  \/ \E v \in Operands:
       LET b == UInt128(v \div Word, v % Word) IN
       \/ Becomes(Add(a, b), value + v)
       \/ Becomes(Subtract(a, b), value - v)
       \/ Becomes(BitOr(a, b), value | v)
       \/ Becomes(BitAnd(a, b), value & v)
       \/ Becomes(BitXor(a, b), value ^^ v)

Spec == Init /\ [][Next]_wide_vars
-----------------------------------------------------------------------------
Memory(bytes, big) == IF big THEN Reverse(bytes) ELSE bytes

\* The two words hold the number, modulo 2^128, that any sequence of operations leads
\* to, and the comparisons are those of the numbers.  In network order, and in big-endian
\* order, the high word is the first in the memory of any machine; in little-endian
\* order it is the last.
WordsAreTheNumber ==
  /\ a.hi * Word + a.lo = value
  /\ \A v \in Operands:
       LET b == UInt128(v \div Word, v % Word)
       IN Less(a, b) = (value < v) /\ Less(b, a) = (v < value) /\ Equal(a, b) = (value = v)
  /\ \A big \in BOOLEAN:
       /\ Memory(NetOrder(<<a.lo, a.hi>>, big), big) = <<a.hi, a.lo>>
       /\ Memory(BigOrder(<<a.lo, a.hi>>, big), big) = <<a.hi, a.lo>>
       /\ Memory(LittleOrder(<<a.lo, a.hi>>, big), big) = <<a.lo, a.hi>>

-----------------------------------------------------------------------------
(***************************************************************************)
(* UInt32Divisor (base/uint32_divisor.cpp, .h): division by a divisor that *)
(* stays, as a multiplication and a shift that are worked out when it is   *)
(* set.  Words have Bits bits instead of 32.                               *)
(***************************************************************************)
CONSTANT DivisorBits

VARIABLES
  m_divisor, m_algorithm, m_multiplier, m_shift,
  set                 \* what the last SetValue returned

divisor_vars == <<m_divisor, m_algorithm, m_multiplier, m_shift, set>>

DivisorWord == 2 ^ DivisorBits
UInt == 0 .. DivisorWord - 1

RECURSIVE Log2(_)
Log2(i) == IF i <= 1 THEN 0 ELSE 1 + Log2(i \div 2)

\* The divisor without its factors of two, and how many they are.
RECURSIVE Odd(_, _)
Odd(t, zeros) == IF t % 2 = 1 THEN <<t, zeros>> ELSE Odd(t \div 2, zeros + 1)

\* The interval of the multipliers that do is halved while it holds one.
RECURSIVE Narrow(_, _, _)
Narrow(low, high, l) ==
  IF low \div 2 < high \div 2 /\ l > 0 THEN Narrow(low \div 2, high \div 2, l - 1) ELSE [high |-> high, l |-> l]

\* The multiplier is made odd.
RECURSIVE Reduce(_, _)
Reduce(multiplier, shift) ==
  IF multiplier % 2 = 1 THEN [multiplier |-> multiplier, shift |-> shift]
  ELSE Reduce(multiplier \div 2, (shift - 1) % DivisorWord)

\* A multiplier of Bits bits, by Granlund and Montgomery.
MultipleShift(t) ==
  LET l == Log2(t) + 1
      j == (DivisorWord - 1) % t
      k == 2 ^ (DivisorBits + l) \div (DivisorWord - 1 - j)
  IN Narrow(2 ^ (DivisorBits + l) \div t, (2 ^ (DivisorBits + l) + k) \div t, l)

\* One that is rounded, to which Divide adds, by Magenheimer.
MultipleAddShift(t) ==
  LET low == 2 ^ (DivisorBits + Log2(t)) \div t
      r == 2 ^ (DivisorBits + Log2(t)) % t
  IN [multiplier |-> (IF r < t \div 2 + 1 THEN low ELSE low + 1) % DivisorWord, shift |-> Log2(t)]

\* The algorithm and its parameters; the comparison has none and leaves the old ones.
DetectAlgorithm(divisor) ==
  IF divisor >= DivisorWord \div 2 THEN [algorithm |-> "compare", multiplier |-> m_multiplier, shift |-> m_shift]
  ELSE LET odd == Odd(divisor, 0)
           t == odd[1]
           exact == MultipleShift(t)
           fits == exact.high < DivisorWord
           found == IF fits THEN Reduce(exact.high, exact.l)
                    ELSE Reduce(MultipleAddShift(t).multiplier, MultipleAddShift(t).shift)
       IN IF t = 1 THEN [algorithm |-> "shift", multiplier |-> 1, shift |-> odd[2]]
          ELSE [algorithm |-> IF fits THEN "multiple_shift" ELSE "multiple_add_shift",
                multiplier |-> found.multiplier, shift |-> (found.shift + odd[2]) % DivisorWord]

\* Faulty: the multiplier is not added to the low word.
DivideWithoutAdd(dividend) ==
  CASE m_algorithm = "shift" -> dividend \div 2 ^ m_shift
    [] m_algorithm \in {"multiple_shift", "multiple_add_shift"} -> (dividend * m_multiplier) \div (DivisorWord * 2 ^ m_shift)
    [] OTHER -> IF dividend >= m_divisor THEN 1 ELSE 0

Divide(dividend) ==
  LET product == dividend * m_multiplier
      high == product \div DivisorWord
      low == product % DivisorWord
      carry == IF (low + m_multiplier) % DivisorWord < low THEN 1 ELSE 0
  IN CASE m_algorithm = "multiple_shift" -> high \div 2 ^ m_shift
       [] m_algorithm = "multiple_add_shift" -> (high + carry) \div 2 ^ m_shift
       [] m_algorithm = "shift" -> dividend \div 2 ^ m_shift
       [] m_algorithm = "compare" -> IF dividend >= m_divisor THEN 1 ELSE 0

Modulu(dividend) == (dividend - (Divide(dividend) * m_divisor)) % DivisorWord

DivisorInit ==
  /\ m_divisor = 0 /\ m_algorithm = "invalid" /\ m_multiplier = 0 /\ m_shift = 0
  /\ set = FALSE

SetValue(divisor) ==
  IF divisor = 0 THEN set' = FALSE /\ UNCHANGED <<m_divisor, m_algorithm, m_multiplier, m_shift>>
  ELSE \E found \in {DetectAlgorithm(divisor)}:
         /\ m_divisor' = divisor
         /\ m_algorithm' = found.algorithm
         /\ m_multiplier' = found.multiplier
         /\ m_shift' = found.shift
         /\ set' = TRUE

DivisorNext == \E divisor \in UInt: SetValue(divisor)

DivisorSpec == DivisorInit /\ [][DivisorNext]_divisor_vars
-----------------------------------------------------------------------------
\* Every dividend is divided as the machine divides it, whatever divisors were set
\* before, and a divisor that is refused leaves the one that was there in use.
DividesExactly ==
  m_divisor # 0 => \A n \in UInt: Divide(n) = n \div m_divisor /\ Modulu(n) = n % m_divisor
=============================================================================
