---------------------------- MODULE TextEncoding ----------------------------
(***************************************************************************)
(* Encodings of data as text and bytes: variable-length integers and the   *)
(* quoting of the shell.                                                   *)
(***************************************************************************)
EXTENDS Integers, Sequences, SequencesExt, FiniteSetsExt

(***************************************************************************)
(* Integers of variable length: Varint (encoding/varint.cpp), and the      *)
(* VLong of Hadoop that the header of a sequence file is written in        *)
(* (storage/seqfile).                                                      *)
(*                                                                         *)
(* A varint byte is a digit and a mark that more follow; digits are to the *)
(* base Base, and an integer is less than Limit.  The state is a sequence  *)
(* of integers that were put into a string.                                *)
(***************************************************************************)
CONSTANTS
  Base,         \* 2^7
  Limit,        \* 2^32, not a power of Base
  MaxBytes,     \* 5, the digits of Limit - 1
  MaxPut,       \* bound on the integers put
  VLongs        \* integers for the VLong, at the ends of its ranges

VARIABLES
  values,       \* the integers that were put
  dst           \* the string they are in

kIncompleteMask == Base

\* UnsafeEncode32 and UnsafeEncode64: the least digit first
Encode(v) ==
  LET Digits[w \in 0..Limit - 1] ==
        IF w < kIncompleteMask THEN <<w>> ELSE <<(w % Base) + kIncompleteMask>> \o Digits[w \div Base]
  IN Digits[v]

EncodedLength(v) ==
  LET Length[w \in 0..Limit - 1] == IF w >= kIncompleteMask THEN 1 + Length[w \div Base] ELSE 1
  IN Length[v]

NULL == [ok |-> FALSE, value |-> 0, p |-> 0]

\* Faulty: the last byte that may be there is not read.
DecodeShort(s, start) ==
  LET ends == {n \in 1..Min({MaxBytes - 1, Len(s) - start}): s[start + n] < kIncompleteMask}
      n    == Min(ends)
  IN IF ends = {} THEN NULL
     ELSE [ok |-> TRUE, p |-> start + n,
           value |-> FoldFunctionOnSet(+, 0, [i \in 1..n |-> (s[start + i] % Base) * Base^(i - 1)], 1..n) % Limit]

\* Decode32 and Decode64 from the position start (0 is the beginning) on.  The
\* part of the last digit that does not fit is shifted out.
Decode(s, start) ==
  LET ends == {n \in 1..Min({MaxBytes, Len(s) - start}): s[start + n] < kIncompleteMask}
      n    == Min(ends)
  IN IF ends = {} THEN NULL
     ELSE [ok |-> TRUE, p |-> start + n,
           value |-> FoldFunctionOnSet(+, 0, [i \in 1..n |-> (s[start + i] % Base) * Base^(i - 1)], 1..n) % Limit]

\* PutLengthPrefixedStringPiece and GetLengthPrefixedStringPiece
PutLengthPrefixed(s) == Encode(Len(s)) \o s
GetLengthPrefixed(s) ==
  LET q == Decode(s, 0)
  IN IF q.ok /\ q.p + q.value <= Len(s)
       THEN [ok |-> TRUE, result |-> SubSeq(s, q.p + 1, q.p + q.value), p |-> q.p + q.value]
       ELSE [ok |-> FALSE, result |-> <<>>, p |-> 0]

-----------------------------------------------------------------------------
\* One's complement: the bytes of a negative number are those of -1 - n.
Complement(i) == -1 - i
AsChar(b)     == IF b > 127 THEN b - 256 ELSE b      \* static_cast<char>

\* i to the base 256 in len bytes, the greatest first
BigEndian(i, len) == [k \in 1..len |-> AsChar((i \div 256^(len - k)) % 256)]

\* LocalSequenceFileWriter::WriteVLong
WriteVLong(v) ==
  LET i     == IF v < 0 THEN Complement(v) ELSE v
      bytes == Min({n \in 1..3: i < 256^n})
  IN IF v >= -112 /\ v <= 127 THEN <<v>>
     ELSE <<(IF v < 0 THEN -120 ELSE -112) - bytes>> \o BigEndian(i, bytes)

\* DataInputBuffer::DecodeVIntSize, IsNegativeVInt and ReadVInt
DecodeVIntSize(b) == IF b >= -112 THEN 1 ELSE IF b < -120 THEN -119 - b ELSE -111 - b
IsNegativeVInt(b) == b < -120 \/ (b >= -112 /\ b < 0)

ReadVInt(s) ==
  LET len == DecodeVIntSize(s[1])
      i   == FoldLeft(LAMBDA n, b: n * 256 + (b % 256), 0, SubSeq(s, 2, len))
  IN IF s = <<>> THEN [ok |-> FALSE, value |-> 0, used |-> 0]
     ELSE IF len = 1 THEN [ok |-> TRUE, value |-> s[1], used |-> 1]
     ELSE IF Len(s) < len THEN [ok |-> FALSE, value |-> 0, used |-> 1]
     ELSE [ok |-> TRUE, value |-> IF IsNegativeVInt(s[1]) THEN Complement(i) ELSE i, used |-> len]

-----------------------------------------------------------------------------
vars == <<values, dst>>

Init == values = <<>> /\ dst = <<>>

\* Put32 and Put64
Put(v) == values' = Append(values, v) /\ dst' = dst \o Encode(v)

Next == Len(values) < MaxPut /\ \E v \in 0..Limit - 1: Put(v)

Spec == Init /\ [][Next]_vars
-----------------------------------------------------------------------------
\* Get32 until it fails
GetAll(s) ==
  LET Get[p \in 0..Len(s)] == LET q == Decode(s, p) IN IF q.ok THEN <<q.value>> \o Get[q.p] ELSE <<>>
  IN Get[0]

\* What was put is what is got, from a string that is cut as well: the integers
\* that are there as a whole, and no other; Encode takes the room that
\* EncodedLength tells, a string prefixed by its length comes back, and so does
\* every VLong, with its sign, in the number of bytes that were written.
VarintsComeBack ==
  /\ \A cut \in 0..Len(dst):
       LET whole == {n \in 0..Len(values): Len(FlattenSeq([i \in 1..n |-> Encode(values[i])])) <= cut}
       IN GetAll(SubSeq(dst, 1, cut)) = SubSeq(values, 1, Max(whole))
  /\ \A i \in DOMAIN values: Len(Encode(values[i])) = EncodedLength(values[i]) /\ EncodedLength(values[i]) <= MaxBytes
  /\ LET prefixed == PutLengthPrefixed(dst)
     IN /\ GetLengthPrefixed(prefixed \o dst) = [ok |-> TRUE, result |-> dst, p |-> Len(prefixed)]
        /\ dst # <<>> => ~GetLengthPrefixed(SubSeq(prefixed, 1, Len(prefixed) - 1)).ok
  /\ \A v \in VLongs: LET s == WriteVLong(v)
                      IN /\ ReadVInt(s \o dst) = [ok |-> TRUE, value |-> v, used |-> Len(s)]
                         /\ \A n \in 0..Len(s) - 1: ~ReadVInt(SubSeq(s, 1, n)).ok

-----------------------------------------------------------------------------
(***************************************************************************)
(* Quoting, escaping and command lines (encoding/shell.cpp).  Characters   *)
(* are strings: "a", "n" and "x" are letters, "0" and "7" digits, "bel"    *)
(* and "nl" are \a and \n, "'", "dq" and "bs" the quotes and the backslash, *)
(* and "sp" is a blank.                                                    *)
(* The state is a list of arguments, the last of which grows.              *)
(***************************************************************************)
CONSTANTS
  Char,         \* subset of the characters above
  MaxChars      \* bound on the characters and separators of the list

VARIABLES args

IsQuote(c) == c \in {"'", "dq"}
IsSpace(c) == c \in {"sp", "nl"}
At(s, i)   == IF i <= Len(s) THEN s[i] ELSE "nul"

ShellIsQuoteNeed(s) == \E i \in DOMAIN s: s[i] \in {"'", "dq", "sp"}

ShellQuote(s, q) == <<q>> \o FoldLeft(LAMBDA out, c: out \o IF c = q THEN <<"bs", c>> ELSE <<c>>, <<>>, s) \o <<q>>
ShellQuoteIfNeed(s) == IF ShellIsQuoteNeed(s) THEN ShellQuote(s, "dq") ELSE s

\* A backslash in quotes is dropped, and lets a quote through.
ShellUnquote(s) ==
  LET Step[pos \in 1..Len(s) + 2, quote \in {"", "'", "dq"}, out \in Seq(Char)] ==
        LET c == s[pos]
        IN IF pos > Len(s) THEN [ok |-> quote = "", out |-> out]
           ELSE IF IsQuote(c) THEN
                  IF quote = c THEN Step[pos + 1, "", out]
                  ELSE IF quote = "" THEN Step[pos + 1, c, out]
                  ELSE Step[pos + 1, quote, Append(out, c)]
           ELSE IF c = "bs" /\ quote # "" /\ pos < Len(s) THEN
                  IF IsQuote(s[pos + 1]) THEN Step[pos + 2, quote, Append(out, s[pos + 1])]
                  ELSE Step[pos + 1, quote, out]
           ELSE Step[pos + 1, quote, Append(out, c)]
  IN Step[1, "", <<>>]

ShellEscape(s) ==
  FoldLeft(LAMBDA out, c: out \o CASE c = "bel" -> <<"bs", "a">>
                                   [] c = "nl" -> <<"bs", "n">>
                                   [] c \in {"sp", "dq", "bs"} -> <<"bs", c>>
                                   [] OTHER -> <<c>>, <<>>, s)

\* UnescapeChar: the character, and how many were used, 0 for none.  A number
\* gives a "byte".  DecodeHex knows of the small letters only "a", and a hex digit
\* of value 0 does not count: without a first one the character is not written,
\* and the caller's is "uninitialized".  The third octal digit is not used up.
IsHex(c)   == c \in {"a", "7"}
IsOctal(c) == c \in {"0", "7"}
UnescapeChar(s, pos) ==
  CASE At(s, pos) = "a"  -> [c |-> "bel", size |-> 1]
    [] At(s, pos) = "n"  -> [c |-> "nl", size |-> 1]
    [] At(s, pos) = "bs" -> [c |-> "bs", size |-> 1]
    [] At(s, pos) = "x"  -> IF ~IsHex(At(s, pos + 1)) THEN [c |-> "uninitialized", size |-> 1]
                            ELSE [c |-> "byte", size |-> IF IsHex(At(s, pos + 2)) THEN 3 ELSE 2]
    [] IsOctal(At(s, pos)) -> [c |-> "byte", size |-> IF IsOctal(At(s, pos + 1)) THEN 2 ELSE 1]
    [] OTHER             -> [c |-> "", size |-> 0]

ShellUnescape(s) ==
  LET Step[pos \in 1..Len(s) + 2, out \in Seq(STRING)] ==
        LET e == UnescapeChar(s, pos + 1)
        IN IF pos > Len(s) THEN out
           ELSE IF s[pos] # "bs" THEN Step[pos + 1, Append(out, s[pos])]
           ELSE IF e.size > 0 THEN Step[pos + 1 + e.size, Append(out, e.c)]
           ELSE Step[pos + 2, Append(out, At(s, pos + 1))]
  IN Step[1, <<>>]

\* UnescapeCharToArg
Unescaped(s, pos, in_quote, arg) ==
  LET e == UnescapeChar(s, pos)
  IN IF e.size > 0 THEN [pos |-> pos + e.size, arg |-> Append(arg, e.c)]
     ELSE [pos |-> pos + 1, arg |-> (IF in_quote THEN Append(arg, "bs") ELSE arg) \o <<At(s, pos)>>]

\* States: "" at the beginning, "arg" in an argument, "sp" between two, or the
\* quote that is open.  A backslash leaves the state "" as it is.
SplitCommandLine(s) ==
  LET Step[pos \in 1..Len(s) + 2, state \in {"", "arg", "sp", "'", "dq"},
           arg \in Seq(STRING), out \in Seq(Seq(STRING))] ==
        LET c == s[pos]
            u == Unescaped(s, pos + 1, IsQuote(state), arg)
        IN IF pos > Len(s) THEN [ok |-> ~IsQuote(state), args |-> IF state = "arg" THEN Append(out, arg) ELSE out]
           ELSE IF IsQuote(state) THEN
                  IF c = state THEN Step[pos + 1, "arg", arg, out]
                  ELSE IF c = "bs" THEN Step[u.pos, state, u.arg, out]
                  ELSE Step[pos + 1, state, Append(arg, c), out]
           ELSE IF IsQuote(c) THEN Step[pos + 1, c, arg, out]
           ELSE IF c = "bs" THEN Step[u.pos, IF state = "sp" THEN "arg" ELSE state, u.arg, out]
           ELSE IF ~IsSpace(c) THEN Step[pos + 1, "arg", Append(arg, c), out]
           ELSE IF state = "arg" THEN Step[pos + 1, "sp", <<>>, Append(out, arg)]
           ELSE Step[pos + 1, "sp", arg, out]
  IN Step[1, "", <<>>, <<>>]

JoinCommandLine(list) ==
  FoldLeftDomain(LAMBDA out, i: out \o (IF i = 1 THEN <<>> ELSE <<"sp">>) \o ShellQuoteIfNeed(list[i]), <<>>, list)

-----------------------------------------------------------------------------
Used == FoldLeft(LAMBDA n, a: n + Len(a), Len(args), args)

ShellInit == args = <<<<>>>>

ShellNext ==
  /\ Used < MaxChars
  /\ \/ \E c \in Char: args' = [args EXCEPT ![Len(args)] = Append(@, c)]
     \/ args' = Append(args, <<>>)

ShellSpec == ShellInit /\ [][ShellNext]_args
-----------------------------------------------------------------------------
Has(s, c) == \E i \in DOMAIN s: s[i] = c

\* The double quotes of an argument, as SplitCommandLine reads what ShellQuote wrote.
Escaped(s) == FoldLeft(LAMBDA out, c: out \o IF c = "dq" THEN <<"bs", c>> ELSE <<c>>, <<>>, s)

\* Unescaping what was escaped gives it back; so does unquoting what was quoted,
\* with either quote, if there was no backslash.  A joined command line is split
\* into as many arguments again, whatever blanks and quotes they have, each the
\* same but for a backslash in front of its double quotes: if none is empty, has
\* a newline, which does not make JoinCommandLine quote, or has a backslash.
ShellComesBack ==
  /\ \A i \in DOMAIN args: LET s == args[i] IN
       /\ ShellUnescape(ShellEscape(s)) = s
       /\ ~Has(s, "bs") => \A q \in {"'", "dq"}: ShellUnquote(ShellQuote(s, q)) = [ok |-> TRUE, out |-> s]
  /\ (\A i \in DOMAIN args: args[i] # <<>> /\ \A c \in {"nl", "bs"}: ~Has(args[i], c)) =>
       SplitCommandLine(JoinCommandLine(args)) = [ok |-> TRUE, args |-> [i \in DOMAIN args |-> Escaped(args[i])]]
=============================================================================
