-------------------------- MODULE StringFunctions ---------------------------
(***************************************************************************)
(* Functions on strings that have no state: the comparisons by words, the  *)
(* concatenations, and the classes of characters with the hex digits.      *)
(***************************************************************************)
EXTENDS Integers, Sequences, FiniteSets, FiniteSetsExt, SequencesExt

(***************************************************************************)
(* The comparisons of memory (base/string/compare.h), which go by words.   *)
(*                                                                         *)
(* Two operands are given by how their bytes compare, -1, 0 or 1, at each  *)
(* position: a comparison by bytes or by words depends on nothing else.    *)
(* Positions count from 0.                                                 *)
(***************************************************************************)
CONSTANTS
  WordSize,     \* sizeof(size_t)
  MaxLen,       \* bound on the lengths of the operands
  MaxDiffer     \* bound on the number of positions where they differ

VARIABLES
  cmp,          \* how the bytes compare, up to the length of the shorter operand
  longer        \* -1, 0, 1: the left one is shorter, none is, the right one is

Differ(from, n) == \E i \in from..from + n - 1: cmp[i + 1] # 0

\* memeql, the switch for short operands and the loops for long ones: words of
\* 8 bytes, then 4, 2 and 1; the result, and the position behind the last read.
memeql(size) ==
  LET Equal[pos \in 0..size] ==
        LET left == size - pos
            n    == CHOOSE n \in {8, 4, 2, 1}: n <= left /\ \A k \in {8, 4, 2, 1}: k <= left => k <= n
        IN IF left = 0 THEN [equal |-> TRUE, end |-> pos]
           ELSE IF Differ(pos, n) THEN [equal |-> FALSE, end |-> pos + n]
           ELSE Equal[pos + n]
  IN Equal[0]

\* COMPARE_MEMORY_ONE_BYTE from pos on, n times; the first that differs returns.
Bytes(pos, n) ==
  LET at == Min({i \in pos..pos + n - 1: cmp[i + 1] # 0})
  IN [result |-> cmp[at + 1], prefix |-> at, end |-> at + 1]

CompareMemory(len) ==
  LET end_pos == len - WordSize
      Words[pos \in 0..len] ==
        IF pos <= end_pos
          THEN IF Differ(pos, WordSize) THEN Bytes(pos, WordSize) ELSE Words[pos + WordSize]
          ELSE IF Differ(pos, len - pos) THEN Bytes(pos, len - pos)
               ELSE [result |-> 0, prefix |-> len, end |-> len]
  IN Words[0]

CompareByteString ==
  LET min_len == Len(cmp)
      end_pos == min_len - WordSize + 1
      Words[pos \in 0..min_len] ==
        IF pos < end_pos /\ ~Differ(pos, WordSize) THEN Words[pos + WordSize] ELSE pos
      Tail1[pos \in 0..min_len] == IF pos < min_len /\ cmp[pos + 1] = 0 THEN Tail1[pos + 1] ELSE pos
      pos == Tail1[Words[0]]
  IN [inclusive |-> pos = min_len, prefix |-> pos,
      result    |-> IF pos = min_len THEN -longer ELSE cmp[pos + 1]]

\* StringPiece::compare and ignore_case_compare
StringPieceCompare ==
  LET r == CompareMemory(Len(cmp)).result IN IF r # 0 THEN r ELSE -longer

-----------------------------------------------------------------------------
vars == <<cmp, longer>>

Init == cmp = <<>> /\ longer \in {-1, 0, 1}

Next ==
  /\ Len(cmp) < MaxLen
  /\ \E c \in {-1, 0, 1}:
       /\ c # 0 => Cardinality({i \in DOMAIN cmp: cmp[i] # 0}) < MaxDiffer
       /\ cmp' = Append(cmp, c)
  /\ UNCHANGED longer

Spec == Init /\ [][Next]_vars
-----------------------------------------------------------------------------
\* Comparing by words gives what comparing byte by byte gives: the result and
\* the common prefix are those of the first byte that differs, for every length,
\* and no byte behind the length is read.
WordsCompareAsBytes ==
  LET differ == {i \in DOMAIN cmp: cmp[i] # 0}
      first  == IF differ = {} THEN -longer ELSE cmp[Min(differ)]
      prefix == IF differ = {} THEN Len(cmp) ELSE Min(differ) - 1
      memory == CompareMemory(Len(cmp))
      equal  == memeql(Len(cmp))
  IN /\ equal.equal = (differ = {}) /\ equal.end <= Len(cmp)
     /\ memory.prefix = prefix /\ memory.end <= Len(cmp)
     /\ memory.result = IF differ = {} THEN 0 ELSE first
     /\ CompareByteString = [inclusive |-> differ = {}, prefix |-> prefix, result |-> first]
     /\ StringPieceCompare = first

-----------------------------------------------------------------------------
(***************************************************************************)
(* StringAppend, StringConcat and StringConcatTo (base/string/concat.h,    *)
(* append_1.h, concat.cpp): overloads for every number of arguments, which *)
(* take strings by reference, so that an argument may be the very string   *)
(* that is written.  The digits that a number prints as are one character. *)
(***************************************************************************)
CONSTANTS
  Strings,        \* the names of the strings of the program
  Literal,        \* arguments that are not its strings
  MaxArgs,
  MaxSize         \* bound on the length of a string

VARIABLES
  store,          \* what the strings hold
  last            \* history: the last call, with the strings before it

concat_vars == <<store, last>>

\* append_1.h: a boolean is spelled out, an enumerator is a number, another type
\* goes through a stream that writes into the string.
Printed(st, arg) ==
  CASE arg \in Strings -> st[arg]
    [] arg = "true" -> <<"t", "r", "u", "e">>
    [] OTHER -> <<arg>>

\* StringAppend of one argument.
Append1(st, str, arg) == [st EXCEPT ![str] = @ \o Printed(st, arg)]

\* StringAppend of several: one behind the other.
StringAppend(st, str, args) == FoldLeft(LAMBDA s, arg: Append1(s, str, arg), st, args)

\* Faulty: nothing is cleared.
StringConcatToAppends(st, result, args) == StringAppend(st, result, args)
StringConcatTo(st, result, args) == StringAppend([st EXCEPT ![result] = <<>>], result, args)

\* StringConcat appends to a string of its own, which the program assigns.
StringConcat(st, args) == FoldLeft(LAMBDA s, arg: s \o Printed(st, arg), <<>>, args)

Reference(st, args) == FlattenSeq([i \in DOMAIN args |-> Printed(st, args[i])])

Calls(how, str, args, st) ==
  /\ Len(st[str]) <= MaxSize
  /\ store' = st
  /\ last' = [how |-> how, str |-> str, args |-> args, before |-> store]

Arguments == {args \in SeqOf(Strings \cup Literal, MaxArgs): args # <<>>}

ConcatInit == store = [s \in Strings |-> <<>>] /\ last = [how |-> "none"]

ConcatNext == \E str \in Strings, args \in Arguments:
          \/ Calls("append", str, args, StringAppend(store, str, args))
          \/ Calls("to", str, args, StringConcatTo(store, str, args))
          \/ Calls("concat", str, args, [store EXCEPT ![str] = StringConcat(store, args)])

ConcatSpec == ConcatInit /\ [][ConcatNext]_concat_vars
-----------------------------------------------------------------------------
Aliased == last.str \in ToSet(last.args)

\* Appending adds what the arguments print as, in their order, and nothing else
\* changes.  The string that is written may be an argument of StringConcat anywhere,
\* of StringAppend as the first, and of StringConcatTo nowhere: it is cleared before
\* it is read.
ArgumentsInOrder ==
  last.how # "none" =>
    LET old == last.before
        new == store[last.str]
    IN /\ \A s \in Strings \ {last.str}: store[s] = old[s]
       /\ CASE last.how = "concat" -> new = Reference(old, last.args)
            [] last.how = "append" -> last.str \notin ToSet(Tail(last.args)) => new = old[last.str] \o Reference(old, last.args)
            [] last.how = "to" -> ~Aliased => new = Reference(old, last.args)

-----------------------------------------------------------------------------
(***************************************************************************)
(* Ascii (encoding/ascii.cpp, ascii.h): the classes of the characters by a *)
(* table of bits, and Hex (encoding/hex.h, hex.cpp), which writes bytes as *)
(* two of them.  A character is its code as an unsigned byte.              *)
(***************************************************************************)
VARIABLES
  ascii_c,                  \* a character, or a byte to encode
  output              \* what Hex has appended so far

ascii_vars == <<ascii_c, output>>

\* The codes that the table gives each bit; the codes from 128 on have none.
Upper == 65 .. 90
Lower == 97 .. 122
Digits == 48 .. 57
HexDigit == Digits \cup 65 .. 70 \cup 97 .. 102
Blank == {9, 32}
Space == 9 .. 13 \cup {32}
Control == 0 .. 31 \cup {127}
PunctShort == 33 .. 47 \cup 58 .. 64 \cup 91 .. 96 \cup 123 .. 125
Punct == 33 .. 47 \cup 58 .. 64 \cup 91 .. 96 \cup 123 .. 126
Printing == 32 .. 126
Graph == 33 .. 126

IsValid(x) == x < 128
IsUpper(x) == x \in Upper
IsLower(x) == x \in Lower
IsAlpha(x) == x \in Upper \cup Lower
IsDigit(x) == x \in Digits
IsAlphaNumber(x) == x \in Upper \cup Lower \cup Digits
IsHexDigit(x) == x \in HexDigit
IsBlank(x) == x \in Blank
IsSpace(x) == x \in Space
IsControl(x) == x \in Control
IsPunct(x) == x \in Punct
IsPrint(x) == x \in Printing
IsGraph(x) == x \in Graph

ToAscii(x) == x % 128
ToLower(x) == IF IsUpper(x) THEN x + 32 ELSE x
ToUpper(x) == IF IsLower(x) THEN x - 32 ELSE x

hex_digits(uppercase) ==
  [d \in 0 .. 15 |-> IF d < 10 THEN 48 + d ELSE IF uppercase THEN 55 + d ELSE 87 + d]

\* The high digit first.
Encode(bytes, uppercase) ==
  FlattenSeq([i \in DOMAIN bytes |-> <<hex_digits(uppercase)[bytes[i] \div 16], hex_digits(uppercase)[bytes[i] % 16]>>])

EncodeAppend(str, bytes, uppercase) == str \o Encode(bytes, uppercase)
EncodeTo(str, bytes, uppercase) == EncodeAppend(<<>>, bytes, uppercase)
EncodeAsString(bytes, uppercase) == EncodeTo(<<>>, bytes, uppercase)
EncodeToBuffer(bytes, uppercase) == Encode(bytes, uppercase) \o <<0>>

AsciiInit == ascii_c = 0 /\ output = <<>>
AsciiNext == ascii_c < 255 /\ ascii_c' = ascii_c + 1 /\ output' = IF ascii_c % 4 = 0 THEN EncodeTo(output, <<ascii_c>>, FALSE) ELSE EncodeAppend(output, <<ascii_c>>, FALSE)
AsciiSpec == AsciiInit /\ [][AsciiNext]_ascii_vars
-----------------------------------------------------------------------------
One(bools) == \E i \in DOMAIN bools: bools[i] /\ \A j \in DOMAIN bools \ {i}: ~bools[j]
None(bools) == \A i \in DOMAIN bools: ~bools[i]

DigitOf(x) == IF IsDigit(x) THEN x - 48 ELSE ToLower(x) - 87
Decode(digits) == [i \in 1 .. Len(digits) \div 2 |-> 16 * DigitOf(digits[2 * i - 1]) + DigitOf(digits[2 * i])]

\* The table is consistent: a valid character is a control character or prints, what
\* prints is a letter, a digit, a punctuation character or the space, and no other byte
\* has a class, so that a byte of another encoding is never changed by the conversions
\* of case, which undo each other.  What Hex writes consists of its digits, and reading
\* them gives the bytes, from the last time the output was replaced.
CharactersAreClassified ==
  /\ LET classes == <<IsUpper(ascii_c), IsLower(ascii_c), IsDigit(ascii_c), IsPunct(ascii_c), IsControl(ascii_c), ascii_c = 32>>
     IN IF IsValid(ascii_c) THEN One(classes) ELSE None(classes)
  /\ IsPrint(ascii_c) = (IsValid(ascii_c) /\ ~IsControl(ascii_c))
  /\ IsGraph(ascii_c) = (IsPrint(ascii_c) /\ ~IsBlank(ascii_c))
  /\ IsAlphaNumber(ascii_c) = (IsGraph(ascii_c) /\ ~IsPunct(ascii_c))
  /\ IsAlpha(ascii_c) = (ToLower(ascii_c) # ToUpper(ascii_c))
  /\ ToUpper(ToLower(ascii_c)) = ToUpper(ascii_c) /\ ToLower(ToUpper(ascii_c)) = ToLower(ascii_c)
  /\ IsHexDigit(ascii_c) = (\E u \in BOOLEAN, d \in 0 .. 15: hex_digits(u)[d] = ascii_c)
  /\ (IsBlank(ascii_c) => IsSpace(ascii_c)) /\ (IsSpace(ascii_c) => IsControl(ascii_c) \/ ascii_c = 32)
  /\ (ToAscii(ascii_c) = ascii_c) = IsValid(ascii_c)
  /\ \A u \in BOOLEAN:
       /\ Decode(EncodeAsString(<<ascii_c>>, u)) = <<ascii_c>>
       /\ \A i \in 1 .. 2: IsHexDigit(EncodeToBuffer(<<ascii_c, 0>>, u)[i])
       /\ [i \in 1 .. 2 |-> ToLower(Encode(<<ascii_c>>, u)[i])] = Encode(<<ascii_c>>, FALSE)
  /\ ascii_c > 0 => Decode(output) = [i \in 1 .. ((ascii_c - 1) % 4) + 1 |-> ascii_c - 1 - ((ascii_c - 1) % 4) + i - 1]
=============================================================================
