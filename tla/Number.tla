------------------------------- MODULE Number -------------------------------
(***************************************************************************)
(* Integers and text (base/string/number.cpp).                             *)
(*                                                                         *)
(* OutputUInt32AsString and OutputUInt64AsString write decimal digits in   *)
(* pairs, with the real constants, for 32 bit numbers below 2^31 and for   *)
(* 64 bit numbers hi * 10^9 + lo from 2^32 on.  ParseNumberT reads a       *)
(* narrow type through a long, here of LongBits bits.  A step takes        *)
(* another number to write, or appends a character to the text to read.    *)
(***************************************************************************)
EXTENDS Integers, Sequences, SequencesExt, FiniteSetsExt, CLibrary

CONSTANTS
  Sample,       \* numbers to write
  LongBits,     \* bits of long
  NumberChar,   \* characters of the text
  MaxText,      \* bound on the text
  MaxShift      \* the last prefix of FormatMeasure; the first one is -MaxShift

VARIABLES
  hi, lo,       \* the number to write
  text          \* the text to read

Billion == 1000000000

\* two_ASCII_digits
TwoDigits(d) == <<d \div 10, d % 10>>

\* The code from label lt100^(k + 1) on: pairs of digits, the greatest first.
Pairs(u, k) ==
  FoldLeft(LAMBDA acc, i : LET d == acc.u \div 100 ^ i
                           IN [u |-> acc.u - d * 100 ^ i, out |-> acc.out \o TwoDigits(d)],
           [u |-> u, out |-> << >>], [j \in 1 .. k + 1 |-> k + 1 - j]).out

\* Faulty: 100 is taken for a number of two digits.
OutputUInt32AsStringEdge(u) ==
  LET k == Min({i \in 0 .. 4 : i = 4 \/ u <= 100 ^ (i + 1)})
      d == u \div 100 ^ k
  IN IF u >= 10 * 100 ^ k THEN Pairs(u, k)
     ELSE <<d>> \o (IF k = 0 THEN << >> ELSE Pairs(u - d * 100 ^ k, k - 1))

\* Enters the chain of pairs where the number begins; an odd number of digits
\* begins with a single one.
OutputUInt32AsString(u) ==
  LET k == Min({i \in 0 .. 4 : i = 4 \/ u < 100 ^ (i + 1)})
      d == u \div 100 ^ k
  IN IF u >= 10 * 100 ^ k THEN Pairs(u, k)
     ELSE <<d>> \o (IF k = 0 THEN << >> ELSE Pairs(u - d * 100 ^ k, k - 1))

OutputInt32AsString(i) == IF i < 0 THEN <<"-">> \o OutputUInt32AsString(-i) ELSE OutputUInt32AsString(i)

\* static_cast<uint32_t>(u64) == u64
Fits32(h, l) == h < 4 \/ (h = 4 /\ l <= 294967295)

\* The lowest nine digits: four pairs and a single one.
LowDigits(l) ==
  LET d(i) == (l \div 10 ^ (9 - 2 * i)) % 100
  IN TwoDigits(d(1)) \o TwoDigits(d(2)) \o TwoDigits(d(3)) \o TwoDigits(d(4)) \o <<l % 10>>

OutputUInt64AsString(h, l) ==
  IF Fits32(h, l) THEN OutputUInt32AsString(h * Billion + l) ELSE OutputUInt32AsString(h) \o LowDigits(l)

\* UIntToHexBufferInternal: two digits for every byte
UIntToHex(value, num_byte) == [i \in 1 .. 2 * num_byte |-> (value \div 16 ^ (2 * num_byte - i)) % 16]

\* ParseNumberT<IntermediaType>: the long has to fit the type, unless it is as wide.
Narrowed(r, signed, bits) ==
  IF r.errno # "none" THEN [ok |-> FALSE, errno |-> r.errno, value |-> 0, endptr |-> r.endptr]
  ELSE IF bits < LongBits /\ (r.value > MaxOf(signed, bits) \/ r.value < MinOf(signed, bits))
    THEN [ok |-> FALSE, errno |-> "ERANGE", value |-> 0, endptr |-> r.endptr]
  ELSE IF r.endptr = 0 THEN [ok |-> FALSE, errno |-> "EINVAL", value |-> 0, endptr |-> 0]
  ELSE [ok |-> TRUE, errno |-> "none", value |-> r.value, endptr |-> r.endptr]

ParseNumberT(s, signed, bits, base) == Narrowed(Strtol(s, base, signed, LongBits), signed, bits)

Whole(r, s) == [ok |-> r.ok /\ r.endptr = Len(s), value |-> r.value]
StringToNumber(s, signed, bits, base) == Whole(ParseNumberT(s, signed, bits, base), s)

\* GetMantissaAndShift of a number between Base^e and Base^(e + 1); the number
\* is kept when there is no prefix for it.
GetMantissaAndShift(e, min_shift, max_shift) ==
  IF e < min_shift \/ e > max_shift THEN [mantissa |-> e, shift |-> 0] ELSE [mantissa |-> 0, shift |-> e]

-----------------------------------------------------------------------------
vars == <<hi, lo, text>>

Init == hi = 0 /\ lo = 0 /\ text = << >>

WriteAnother ==
  /\ hi = 0 /\ lo = 0 /\ text = << >>
  /\ hi' \in {0} \cup (Sample \ 1 .. 4) /\ lo' \in {n \in Sample : n < Billion \/ hi' = 0}
  /\ UNCHANGED text

ReadMore ==
  /\ hi = 0 /\ lo = 0
  /\ Len(text) < MaxText
  /\ \E c \in NumberChar : text' = Append(text, c)
  /\ UNCHANGED <<hi, lo>>

Next == WriteAnother \/ ReadMore

Spec == Init /\ [][Next]_vars
-----------------------------------------------------------------------------
\* The digits of n, one by one.
Decimal(n) ==
  LET k == IF n = 0 THEN 1 ELSE Max({i \in 1 .. 10 : n >= 10 ^ (i - 1)})
  IN [i \in 1 .. k |-> (n \div 10 ^ (k - i)) % 10]

Padded(n, k) == [i \in 1 .. k |-> (n \div 10 ^ (k - i)) % 10]

Spell(n) == LET d == Decimal(IF n < 0 THEN -n ELSE n)
            IN (IF n < 0 THEN <<"-">> ELSE << >>) \o [i \in 1 .. Len(d) |-> DigitChar(d[i])]

\* Numbers are written with all their digits and no others, also where the
\* number of digits, of pairs or of words changes.  A number read back is the
\* one written, for a type that holds it, and is refused for one that does not;
\* what is accepted ends where the digits end, and the prefix of a human
\* readable number is one of the table.
NumbersComeBack ==
  /\ OutputUInt64AsString(hi, lo) = IF hi = 0 THEN Decimal(lo) ELSE Decimal(hi) \o Padded(lo, 9)
  /\ hi = 0 => /\ FoldLeft(LAMBDA v, d : v * 16 + d, 0, UIntToHex(lo % 65536, 2)) = lo % 65536
               /\ OutputInt32AsString(-lo) = (IF lo = 0 THEN << >> ELSE <<"-">>) \o Decimal(lo)
  /\ \A signed \in BOOLEAN, bits \in {LongBits - 1, LongBits}, base \in {0, 8, 10, 16} :
       \A r \in {ParseNumberT(text, signed, bits, base)} :
          r.ok => /\ r.value \in MinOf(signed, bits) .. MaxOf(signed, bits)
                  /\ r.endptr \in 1 .. Len(text)
                  /\ r = ParseNumberT(SubSeq(text, 1, r.endptr), signed, bits, base)
  /\ text = << >> =>
       \A signed \in BOOLEAN, bits \in {LongBits - 1, LongBits} :
         \A n \in MinOf(TRUE, LongBits) - 1 .. MaxOf(FALSE, LongBits) + 1 :
           (signed \/ n >= 0) =>
             \A r \in {StringToNumber(Spell(n), signed, bits, 0)} :
               IF n \in MinOf(signed, bits) .. MaxOf(signed, bits) THEN r = [ok |-> TRUE, value |-> n] ELSE ~r.ok
  /\ \A e \in -MaxShift - 1 .. MaxShift + 1 :
       LET r == GetMantissaAndShift(e, -MaxShift, MaxShift)
       IN r.shift \in -MaxShift .. MaxShift /\ r.mantissa + r.shift = e
=============================================================================
