------------------------------ MODULE CLibrary ------------------------------
(***************************************************************************)
(* The functions of the C library by which number.cpp and scan_arg.cpp     *)
(* read an integer.  Characters are model strings, "sp" is white space; a  *)
(* long has a given number of bits.                                        *)
(***************************************************************************)
EXTENDS Integers, Sequences, SequencesExt, FiniteSetsExt

DigitValue ==
  ("0" :> 0) @@ ("1" :> 1) @@ ("2" :> 2) @@ ("3" :> 3) @@ ("4" :> 4) @@ ("5" :> 5) @@ ("6" :> 6)
    @@ ("7" :> 7) @@ ("8" :> 8) @@ ("9" :> 9) @@ ("a" :> 10) @@ ("b" :> 11) @@ ("c" :> 12)
    @@ ("d" :> 13) @@ ("e" :> 14) @@ ("f" :> 15)

DigitChar(d) == CHOOSE c \in DOMAIN DigitValue : DigitValue[c] = d

DigitsOf(radix) == {c \in DOMAIN DigitValue : DigitValue[c] < radix}

\* The character at position i, or the zero that ends the string.
At(s, i) == IF i \in 1 .. Len(s) THEN s[i] ELSE "nul"

\* How many characters from position i on are of the set.
RunLength(s, i, set) == Min({Len(s) + 1} \cup {k \in i .. Len(s) : s[k] \notin set}) - i

ValueOf(digits, radix) == FoldLeft(LAMBDA v, c : v * radix + DigitValue[c], 0, digits)

MinOf(signed, bits) == IF signed THEN -(2 ^ (bits - 1)) ELSE 0
MaxOf(signed, bits) == IF signed THEN 2 ^ (bits - 1) - 1 ELSE 2 ^ bits - 1

\* A value that does not fit is cut off at the limit, and a negative unsigned
\* value wraps.
Limited(size, neg, signed, bits, endptr) ==
  IF size > (IF signed /\ neg THEN 2 ^ (bits - 1) ELSE MaxOf(signed, bits))
    THEN [value |-> IF signed /\ neg THEN MinOf(signed, bits) ELSE MaxOf(signed, bits),
          endptr |-> endptr, errno |-> "ERANGE"]
    ELSE [value |-> IF ~neg THEN size ELSE IF signed THEN -size ELSE (-size) % 2 ^ bits,
          endptr |-> endptr, errno |-> "none"]

NumberAt(s, i, n, radix, neg, signed, bits) ==
  IF n = 0 THEN [value |-> 0, endptr |-> 0, errno |-> "none"]
  ELSE Limited(ValueOf(SubSeq(s, i, i + n - 1), radix), neg, signed, bits, i + n - 1)

\* 0x before a hexadecimal digit, 0 before octal ones.
HasHexPrefix(s, i, base) ==
  base \in {0, 16} /\ At(s, i) = "0" /\ At(s, i + 1) = "x" /\ At(s, i + 2) \in DigitsOf(16)

RadixOf(s, i, base) == IF base # 0 THEN base ELSE IF At(s, i) = "0" THEN 8 ELSE 10

Digits(s, i, radix, neg, signed, bits) ==
  NumberAt(s, i, RunLength(s, i, DigitsOf(radix)), radix, neg, signed, bits)

AfterSign(s, i, neg, base, signed, bits) ==
  IF HasHexPrefix(s, i, base) THEN Digits(s, i + 2, 16, neg, signed, bits)
  ELSE Digits(s, i, RadixOf(s, i, base), neg, signed, bits)

AfterSpace(s, i, base, signed, bits) ==
  AfterSign(s, IF At(s, i) \in {"-", "+"} THEN i + 1 ELSE i, At(s, i) = "-", base, signed, bits)

\* strtol and strtoul: white space, a sign, a prefix and digits.  endptr is the
\* number of characters read, 0 when there is no number.
Strtol(s, base, signed, bits) == AfterSpace(s, 1 + RunLength(s, 1, {"sp"}), base, signed, bits)
=============================================================================
