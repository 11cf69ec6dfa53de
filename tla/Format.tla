------------------------------- MODULE Format -------------------------------
(***************************************************************************)
(* Formatted printing and scanning (base/string/format): the directives,   *)
(* the printer, the scanner, and how TLC enumerates their arguments.       *)
(***************************************************************************)
EXTENDS Integers, Sequences, CLibrary, SequencesExt, FiniteSets

(***************************************************************************)
(* The directives of formatted printing and scanning                       *)
(* (base/string/format/specification.cpp).  A parser takes the format and  *)
(* the position where it begins; n is the number of characters it read, 0  *)
(* when there is no directive.                                             *)
(***************************************************************************)
Star == -42       \* -'*': the width or precision is the next argument
NotSet == -1

Specifier == {"A", "E", "F", "G", "X", "a", "b", "c", "d", "e", "f", "g", "i", "n", "o", "p", "s", "u", "v", "x"}

\* ParseWidth, of k digits
WidthOf(f, i, k) == [n |-> k, value |-> IF k = 0 THEN NotSet ELSE ValueOf(SubSeq(f, i, i + k - 1), 10)]
ParseWidth(f, i) == WidthOf(f, i, RunLength(f, i, DigitsOf(10)))

\* The length modifier; hh and ll are one of two characters.
ParseLength(f, i) ==
  IF At(f, i) \in {"h", "l"} /\ At(f, i + 1) = At(f, i) THEN [n |-> 2, length |-> At(f, i) \o At(f, i)]
  ELSE IF At(f, i) \in {"h", "l", "j", "z", "t", "L"} THEN [n |-> 1, length |-> At(f, i)]
  ELSE [n |-> 0, length |-> ""]

\* The flags are the set of their characters.
ParseFlags(f, i) ==
  LET k == RunLength(f, i, {"-", "+", "sp", "#", "0"}) IN [n |-> k, flags |-> {f[j] : j \in i .. i + k - 1}]

ParsePrintWidth(f, i) == IF At(f, i) = "*" THEN [n |-> 1, value |-> Star] ELSE ParseWidth(f, i)

NoPrint == [n |-> 0, flags |-> {}, width |-> NotSet, precision |-> NotSet, specifier |-> "nul"]

\* PrintSpecification::Parse, from its last part to its first
PrintSpecifier(f, i, start, flags, width, precision) ==
  IF At(f, i) \in Specifier
    THEN [n |-> i + 1 - start, flags |-> flags, width |-> width, precision |-> precision, specifier |-> f[i]]
    ELSE NoPrint

PrintLength(f, i, start, flags, width, precision) ==
  PrintSpecifier(f, i + ParseLength(f, i).n, start, flags, width, precision)

PrintPrecision(f, i, start, flags, width, p) ==
  IF At(f, i) # "." THEN PrintLength(f, i, start, flags, width, NotSet)
  ELSE IF p.n > 0 THEN PrintLength(f, i + 1 + p.n, start, flags, width, p.value)
  ELSE NoPrint

PrintWidth(f, i, start, flags, w) ==
  PrintPrecision(f, i + w.n, start, flags, w.value, ParsePrintWidth(f, i + w.n + 1))

PrintFlags(f, start, r) ==
  PrintWidth(f, start + r.n, start, r.flags, ParsePrintWidth(f, start + r.n))

PrintParse(f, i) == PrintFlags(f, i, ParseFlags(f, i))
-----------------------------------------------------------------------------
\* A character, a minus and a character that is not the end of the set.
CharRange(f, i) == At(f, i + 1) = "-" /\ At(f, i + 2) \notin {"nul", "]"}

\* ScanSetSetCharRange, for digits and letters
Between(first, last) ==
  IF {first, last} \subseteq DOMAIN DigitValue
    THEN {c \in DOMAIN DigitValue : DigitValue[c] \in DigitValue[first] .. DigitValue[last]}
    ELSE {first, last}

\* The loop of ParseScanSet up to the ] or the end of the format; a format is
\* shorter than the 256 characters at which the loop gives up.
RECURSIVE ScanSetLoop(_, _, _)
ScanSetLoop(f, i, chars) ==
  IF At(f, i) \in {"nul", "]"} THEN [i |-> i, chars |-> chars]
  ELSE IF CharRange(f, i) THEN ScanSetLoop(f, i + 3, chars \cup Between(f[i], f[i + 2]))
  ELSE ScanSetLoop(f, i + 1, chars \cup {f[i]})

ScanSetEnd(f, i, neg, st) ==
  IF At(f, st.i) = "nul" THEN [n |-> 0, neg |-> neg, chars |-> {}]
  ELSE [n |-> st.i + 1 - i, neg |-> neg, chars |-> st.chars]

\* The set [^...] has all the characters but those listed.
ParseScanSet(f, i) ==
  IF At(f, i) = "^" THEN ScanSetEnd(f, i, TRUE, ScanSetLoop(f, i + 1, {}))
  ELSE ScanSetEnd(f, i, FALSE, ScanSetLoop(f, i, {}))

InScanSet(c, scanset) == (c \in scanset.chars) # scanset.neg

NoScan == [n |-> 0, skip |-> FALSE, length |-> "", specifier |-> "nul", scanset |-> [n |-> 0, neg |-> FALSE, chars |-> {}]]

ScanSetSpecifier(f, i, start, skip, length, cs) ==
  IF cs.n = 0 THEN NoScan
  ELSE [n |-> i + cs.n + 1 - start, skip |-> skip, length |-> length, specifier |-> "[", scanset |-> cs]

ScanSpecifier(f, i, start, skip, length) ==
  IF At(f, i) \in Specifier
    THEN [n |-> i + 1 - start, skip |-> skip, length |-> length, specifier |-> f[i], scanset |-> NoScan.scanset]
  ELSE IF At(f, i) = "[" THEN ScanSetSpecifier(f, i, start, skip, length, ParseScanSet(f, i + 1))
  ELSE NoScan

ScanLength(f, i, start, skip, r) == ScanSpecifier(f, i + r.n, start, skip, r.length)
ScanWidth(f, i, start, skip) == ScanLength(f, i, start, skip, ParseLength(f, i))

\* ScanSpecification::Parse; the width is read and not used.
ScanParse(f, i) ==
  IF At(f, i) = "*" THEN ScanWidth(f, i + 1 + ParseWidth(f, i + 1).n, i, TRUE)
  ELSE ScanWidth(f, i + ParseWidth(f, i).n, i, FALSE)

-----------------------------------------------------------------------------
(***************************************************************************)
(* Formatted printing (base/string/format: vprint.cpp, print_arg.cpp,      *)
(* print_targets).  An argument is [kind, value]; a value writer yields    *)
(* what it returns and the pieces it writes to the target, one by one.     *)
(* Build without assertions: a specifier that does not suit the argument   *)
(* is logged and the writer returns.                                       *)
(***************************************************************************)
CONSTANT IntBits      \* bits of an int

Wrote(ret, pieces) == [ret |-> ret, pieces |-> pieces]

Repeat(c, k) == [j \in 1 .. k |-> c]
Size(pieces) == Len(FlattenSeq(pieces))

SpecifierMatch(spec, allowed) == spec.specifier = "v" \/ spec.specifier \in allowed

\* WriteString of print_arg.cpp.  std::string::append refuses a negative size.
Thrown == -100
WriteString(spec, text, size) ==
  IF size < 0 THEN Wrote(Thrown, << >>)
  ELSE IF spec.width = NotSet \/ size >= spec.width THEN Wrote(size, <<SubSeq(text, 1, size)>>)
  ELSE IF "-" \in spec.flags
    THEN Wrote(spec.width, <<SubSeq(text, 1, size), Repeat("sp", spec.width - size)>>)
    ELSE Wrote(spec.width, <<Repeat("sp", spec.width - size), SubSeq(text, 1, size)>>)

\* Faulty: zeros are filled in before the sign.
WriteNumberStringZerosFirst(spec, sign, prefix, leading_zeros, digits) ==
  LET parts == <<sign, prefix, Repeat("0", leading_zeros), digits>>
      fill == spec.width - Size(parts)
  IN IF fill <= 0 THEN Wrote(Size(parts), parts)
     ELSE Wrote(spec.width,
                IF "-" \in spec.flags THEN Append(parts, Repeat("sp", fill))
                ELSE <<Repeat(IF "0" \in spec.flags THEN "0" ELSE "sp", fill)>> \o parts)

\* A number in its field: blanks behind it, zeros behind the sign and prefix, or
\* blanks before it.
WriteNumberString(spec, sign, prefix, leading_zeros, digits) ==
  LET parts == <<sign, prefix, Repeat("0", leading_zeros), digits>>
      fill == spec.width - Size(parts)
  IN IF spec.width = NotSet \/ fill <= 0 THEN Wrote(Size(parts), parts)
     ELSE Wrote(spec.width,
                IF "-" \in spec.flags THEN Append(parts, Repeat("sp", fill))
                ELSE IF "0" \in spec.flags THEN <<sign, prefix, Repeat("0", fill + leading_zeros), digits>>
                ELSE <<Repeat("sp", fill)>> \o parts)

\* UnsignedToString<Base>, and WriteIntegerToBuffer of a number that is not negative
UnsignedToString(n, base) ==
  LET k == CHOOSE j \in 1 .. IntBits : n < base ^ j /\ (j = 1 \/ n >= base ^ (j - 1))
  IN [j \in 1 .. k |-> DigitChar((n \div base ^ (k - j)) % base)]

\* Hexadecimal digits and the x have one case.
PrefixOf(spec, is_zero) ==
  IF is_zero \/ "#" \notin spec.flags THEN << >>
  ELSE CASE spec.specifier = "o" -> <<"0">> [] spec.specifier \in {"x", "X"} -> <<"0", "x">> [] OTHER -> << >>

SignOf(spec, neg) ==
  IF neg THEN <<"-">> ELSE IF "+" \in spec.flags THEN <<"+">> ELSE IF "sp" \in spec.flags THEN <<"sp">> ELSE << >>

\* The sign is written apart from the decimal digits; the other bases print the
\* bits of a negative number.
IntegerDigits(spec, value) ==
  CASE spec.specifier \in {"x", "X"} -> UnsignedToString(value % 2 ^ IntBits, 16)
    [] spec.specifier = "o" -> UnsignedToString(value % 2 ^ IntBits, 8)
    [] OTHER -> UnsignedToString(IF value < 0 THEN -value ELSE value, 10)

\* No digits for 0 with a precision of 0; zeros up to the precision.
WriteInteger(spec, sign, is_zero, digits) ==
  IF is_zero /\ spec.precision = 0 THEN WriteNumberString(spec, sign, << >>, 0, << >>)
  ELSE WriteNumberString(spec, sign, PrefixOf(spec, is_zero),
                         Max({0, spec.precision - Len(digits)}), digits)

WriteSigned(spec, value) ==
  IF ~SpecifierMatch(spec, {"i", "d", "x", "X", "o"}) THEN Wrote(-1, << >>)
  ELSE WriteInteger(spec, SignOf(spec, value < 0), value = 0, IntegerDigits(spec, value))

WriteUnsigned(spec, value) ==
  IF ~SpecifierMatch(spec, {"u", "i", "d", "x", "X", "o"}) THEN Wrote(-1, << >>)
  ELSE WriteInteger(spec, << >>, value = 0, IntegerDigits(spec, value))

\* What snprintf gives for the number goes to the target without its last
\* character when it begins with a minus, behind the sign.
WriteFloat(spec, value) ==
  IF ~SpecifierMatch(spec, {"a", "e", "f", "g", "A", "E", "F", "G"}) THEN Wrote(-1, << >>)
  ELSE IF value[1] = "-" THEN WriteNumberString(spec, SignOf(spec, TRUE), << >>, 0, SubSeq(value, 1, Len(value) - 1))
  ELSE WriteNumberString(spec, SignOf(spec, FALSE), << >>, 0, value)

WriteIf(spec, allowed, text, size) ==
  IF SpecifierMatch(spec, allowed) THEN WriteString(spec, text, size) ELSE Wrote(0, << >>)

\* strnlen takes the precision for a size_t.
CStringLength(spec, text) ==
  IF spec.precision < 0 THEN Len(text) ELSE Min({spec.precision, Len(text)})
StringLength(spec, text) == IF spec.precision = NotSet THEN Len(text) ELSE Min({spec.precision, Len(text)})

\* FormatPrintArg::Write
Write(arg, spec) ==
  CASE arg.kind = "int" -> WriteSigned(spec, arg.value)
    [] arg.kind = "uint" -> WriteUnsigned(spec, arg.value)
    [] arg.kind = "float" -> WriteFloat(spec, arg.value)
    [] arg.kind = "bool" -> WriteIf(spec, {"b"}, IF arg.value THEN <<"t", "r", "u", "e">> ELSE <<"f", "a", "l", "s", "e">>,
                                    IF arg.value THEN 4 ELSE 5)
    [] arg.kind = "char" -> WriteIf(spec, {"c"}, arg.value, 1)
    [] arg.kind = "cstr" -> IF spec.specifier = "p" THEN WriteString(spec, <<"ptr">>, 1)
                            ELSE WriteIf(spec, {"s"}, arg.value, CStringLength(spec, arg.value))
    [] arg.kind = "string" -> WriteIf(spec, {"s"}, arg.value, StringLength(spec, arg.value))
    [] arg.kind = "ptr" -> WriteIf(spec, {"p"}, <<"ptr">>, 1)

\* Only an integer is one; a larger unsigned one does not fit.
AsInt(arg) ==
  IF arg.kind = "int" \/ (arg.kind = "uint" /\ arg.value <= MaxOf(TRUE, IntBits)) THEN arg.value ELSE -1
-----------------------------------------------------------------------------
\* The loop of VFormatPrint: the position f, the next argument ai, what was
\* written and the value returned, which is set when the loop is left.
Start == [f |-> 1, ai |-> 1, pieces |-> << >>, total |-> 0, ret |-> NotSet, done |-> FALSE]
Return(st, ret) == [st EXCEPT !.ret = ret, !.done = TRUE]

Put(st, n, r, used) ==
  IF r.ret < 0 THEN Return(st, IF r.ret = Thrown THEN Thrown ELSE -1)
  ELSE [st EXCEPT !.f = @ + n, !.ai = @ + used, !.pieces = @ \o r.pieces, !.total = @ + r.ret]

\* FillSpeciationFromArg fails without an argument, or with one below -'*'.
FillFails(value, args, ai) == value = Star /\ (ai > Len(args) \/ AsInt(args[ai]) < Star)
Filled(value, args, ai) == IF value = Star THEN AsInt(args[ai]) ELSE value
Used(value) == IF value = Star THEN 1 ELSE 0

PutArg(st, args, spec, k) ==
  IF st.ai + k > Len(args) THEN Return(st, -1) ELSE Put(st, spec.n + 1, Write(args[st.ai + k], spec), k + 1)

Precision(st, args, spec, k) ==
  IF FillFails(spec.precision, args, st.ai + k) THEN Return(st, -1)
  ELSE PutArg(st, args, [spec EXCEPT !.precision = Filled(@, args, st.ai + k)], k + Used(spec.precision))

Directive(st, args, spec) ==
  IF spec.n = 0 \/ FillFails(spec.width, args, st.ai) THEN Return(st, -1)
  ELSE Precision(st, args, [spec EXCEPT !.width = Filled(@, args, st.ai)], Used(spec.width))

AtPercent(st, format, args) ==
  IF st.f > Len(format) THEN st
  ELSE IF At(format, st.f + 1) = "nul" THEN Return(st, -1)
  ELSE IF format[st.f + 1] = "%" THEN Put(st, 2, Wrote(1, <<<<"%">>>>), 0)
  ELSE Directive(st, args, PrintParse(format, st.f + 1))

\* One round: text up to a percent sign, and what the sign begins.
PrintRound(st, format, args) ==
  IF st.f > Len(format) THEN Return(st, st.total)
  ELSE LET n == Min({Len(format) + 1} \cup {p \in st.f .. Len(format) : format[p] = "%"}) - st.f
       IN AtPercent(Put(st, n, Wrote(n, <<SubSeq(format, st.f, st.f + n - 1)>>), 0), format, args)

RECURSIVE PrintLoop(_, _, _)
PrintLoop(st, format, args) == IF st.done THEN st ELSE PrintLoop(PrintRound(st, format, args), format, args)

VFormatPrint(format, args) == PrintLoop(Start, format, args)

\* StringFormatPrintTarget, and BufferFormatPrintTarget of m_size bytes, which
\* keeps room for the zero.
StringTarget(pieces) == FlattenSeq(pieces)

FreeSize(m_size, m_pos) == IF m_size > 0 THEN m_size - m_pos - 1 ELSE 0
BufferTarget(pieces, m_size) ==
  FoldLeft(LAMBDA buf, piece : buf \o SubSeq(piece, 1, Min({FreeSize(m_size, Len(buf)), Len(piece)})),
           << >>, pieces)

\* What a print leaves in a string, with what it returns.
Printed(ret, target) == [ret |-> ret, target |-> target]
PrintedBehind(target, st) == Printed(st.ret, target \o StringTarget(st.pieces))

StringVPrintAppend(target, format, args) == PrintedBehind(target, VFormatPrint(format, args))
StringVPrintTo(target, format, args) == StringVPrintAppend(<< >>, format, args)
StringVPrint(format, args) == StringVPrintAppend(<< >>, format, args).target

\* The overloads for every number of arguments, which put them into an array: StringPrintTo,
\* StringPrintAppend, and StringPrint, which has no string to write to.
StringPrint(how, out, format, args) ==
  CASE how = "To" -> StringVPrintTo(out, format, args)
    [] how = "Append" -> StringVPrintAppend(out, format, args)
    [] how = "New" -> StringVPrint(format, args)

-----------------------------------------------------------------------------
(***************************************************************************)
(* Formatted scanning (base/string/format: vscan.cpp, scan_arg.cpp).  The  *)
(* arguments are given by the kinds of the variables they point to; a      *)
(* parser yields the value it stores and the number of characters it read, *)
(* 0 when it fails.  Build without assertions, as for printing.            *)
(***************************************************************************)
CONSTANT LongBits     \* bits of a long; an int has one less

Fails == [n |-> 0, value |-> "none"]
Parsed(n, value) == [n |-> n, value |-> value]

From(s, i) == SubSeq(s, i, Len(s))
StartsWith(s, i, word) == i + Len(word) - 1 <= Len(s) /\ SubSeq(s, i, i + Len(word) - 1) = word

ParseBool(s, k) ==
  CASE At(s, k + 1) = "1" -> Parsed(k + 1, TRUE)
    [] At(s, k + 1) = "0" -> Parsed(k + 1, FALSE)
    [] StartsWith(s, k + 1, <<"t", "r", "u", "e">>) -> Parsed(k + 4, TRUE)
    [] StartsWith(s, k + 1, <<"f", "a", "l", "s", "e">>) -> Parsed(k + 5, FALSE)
    [] OTHER -> Fails

ParseChar(s) == Parsed(1, At(s, 1))

\* The base that a specifier stands for.
BaseOf(specifier) ==
  CASE specifier \in {"v", "i"} -> 0 [] specifier \in {"d", "u"} -> 10
    [] specifier \in {"x", "X"} -> 16 [] specifier = "o" -> 8

\* Faulty: the range of the type is not checked.
FitIntegerAny(r, signed, bits) == IF r.errno # "none" THEN Fails ELSE Parsed(r.endptr, r.value)

\* v = n; if (v != n) return 0
FitInteger(r, signed, bits) ==
  IF r.errno # "none" \/ r.value \notin MinOf(signed, bits) .. MaxOf(signed, bits) THEN Fails
  ELSE Parsed(r.endptr, r.value)

ParseInteger(s, spec, signed, bits) ==
  FitInteger(Strtol(s, BaseOf(spec.specifier), signed, LongBits), signed, bits)

\* Blanks, and then characters up to the next blank; nothing is an error.
ParseString(s, k, n) == IF n = 0 THEN Fails ELSE Parsed(k + n, SubSeq(s, k + 1, k + n))

Word(s, k) == ParseString(s, k, Min({Len(s) + 1} \cup {j \in k + 1 .. Len(s) : s[j] = "sp"}) - k - 1)

ScanSet(s, scanset) ==
  ParseString(s, 0, Min({Len(s) + 1} \cup {j \in 1 .. Len(s) : ~InScanSet(s[j], scanset)}) - 1)

Signed == {"int", "long"}
Bits(kind) == IF kind \in {"long", "ulong"} THEN LongBits ELSE LongBits - 1
Blanks(s) == RunLength(s, 1, {"sp"})

\* ScanValueParser<Type>::Parse
Parse(kind, s, spec) ==
  CASE kind = "bool" -> IF spec.specifier \in {"v", "b"} THEN ParseBool(s, Blanks(s)) ELSE Fails
    [] kind = "char" -> IF spec.specifier \in {"v", "c"} THEN ParseChar(s) ELSE Fails
    [] kind \in {"int", "long"} ->
         IF spec.specifier \in {"v", "i", "d", "x", "X", "o"} THEN ParseInteger(s, spec, TRUE, Bits(kind)) ELSE Fails
    [] kind \in {"uint", "ulong"} ->
         IF spec.specifier \in {"v", "i", "d", "u", "x", "X", "o"} THEN ParseInteger(s, spec, FALSE, Bits(kind)) ELSE Fails
    [] kind = "string" ->
         IF spec.specifier \in {"s", "v"} THEN Word(s, Blanks(s))
         ELSE IF spec.specifier = "[" THEN ScanSet(s, spec.scanset) ELSE Fails

\* ParseSkipped parses into a variable of its own, of the type the length names;
\* char and short are the narrow type.
Narrow(spec) == spec.length \in {"h", "hh"}
KindSkipped(spec) ==
  CASE spec.specifier = "c" -> "char" [] spec.specifier \in {"d", "i"} -> IF Narrow(spec) THEN "int" ELSE "long"
    [] spec.specifier \in {"u", "o", "x"} -> IF Narrow(spec) THEN "uint" ELSE "ulong"
    [] spec.specifier \in {"s", "["} -> "string"
    [] OTHER -> "none"

ParseSkipped(s, spec) == IF KindSkipped(spec) = "none" THEN Fails ELSE Parse(KindSkipped(spec), s, spec)
-----------------------------------------------------------------------------
\* The loop of StringVScan: positions in the format and the string, the values
\* stored so far, and how many directives succeeded.
ScanStart == [f |-> 1, s |-> 1, values |-> << >>, count |-> 0, done |-> FALSE]
Stop(st) == [st EXCEPT !.done = TRUE]
Match(st, fw, sw) == [st EXCEPT !.f = @ + fw, !.s = @ + sw]

Skip(st, fw, r) == IF r.n > 0 THEN Match(st, fw, r.n) ELSE Stop(st)

Store(st, fw, r) ==
  IF r.n > 0 THEN [Match(st, fw, r.n) EXCEPT !.values = Append(@, r.value), !.count = @ + 1] ELSE Stop(st)

\* WriteInt: the number of characters so far, read by the parser of the
\* argument; the argument is still the next one.
Chars(n) == LET k == Min({j \in 1 .. 3 : n < 10 ^ j}) IN [j \in 1 .. k |-> DigitChar((n \div 10 ^ (k - j)) % 10)]
WriteInt(st, fw, r) == IF r.n > 0 THEN [Match(st, fw, 0) EXCEPT !.count = @ + 1] ELSE Stop(st)

Scan(st, string, kinds, spec) ==
  IF spec.n = 0 THEN Stop(st)
  ELSE IF spec.skip THEN Skip(st, spec.n + 1, ParseSkipped(From(string, st.s), spec))
  ELSE IF spec.specifier = "n"
    THEN WriteInt(st, spec.n + 1, Parse(kinds[Len(st.values) + 1], Chars(st.s - 1), [spec EXCEPT !.specifier = "d"]))
  ELSE Store(st, spec.n + 1, Parse(kinds[Len(st.values) + 1], From(string, st.s), spec))

ScanRound(st, string, format, kinds) ==
  IF format[st.f] # "%" THEN IF At(string, st.s) = format[st.f] THEN Match(st, 1, 1) ELSE Stop(st)
  ELSE IF At(format, st.f + 1) = "nul" THEN [Stop(st) EXCEPT !.count = -1]
  ELSE IF format[st.f + 1] = "%" THEN IF At(string, st.s) = "%" THEN Match(st, 2, 1) ELSE Stop(st)
  ELSE Scan(st, string, kinds, ScanParse(format, st.f + 1))

RECURSIVE ScanLoop(_, _, _, _)
ScanLoop(st, string, format, kinds) ==
  IF st.done \/ st.f > Len(format) THEN st
  ELSE ScanLoop(ScanRound(st, string, format, kinds), string, format, kinds)

StringVScan(string, format, kinds) == ScanLoop(ScanStart, string, format, kinds)

\* The overloads for every number of arguments.
StringScan(string, format, kinds) == StringVScan(string, format, kinds)

-----------------------------------------------------------------------------
(***************************************************************************)
(* Printing with a format and scanning what was printed.  A behaviour      *)
(* either builds a format and its arguments, directive by directive, or    *)
(* appends characters to a text that is scanned with one of ScanFormats.   *)
(***************************************************************************)
CONSTANTS
  Flags,        \* flags of a directive, at most MaxFlags of them
  MaxFlags,
  Specifiers,   \* specifiers tried
  Ints,         \* values of integer arguments
  Stars,        \* values of arguments for a star
  Words,        \* values of string arguments
  MaxPlain,     \* longest format to which a further directive is added
  ScanFormats,  \* formats for scanning
  ScanChar,     \* characters of the text
  MaxScan       \* bound on the text

VARIABLES
  format,
  args,         \* arguments for printing
  string        \* the text to scan

vars == <<format, args, string>>

Arguments ==
  [kind : {"int"}, value : Ints] \cup [kind : {"uint"}, value : {n % 2 ^ IntBits : n \in Ints}]
    \cup [kind : {"string", "cstr"}, value : Words] \cup [kind : {"bool"}, value : {FALSE}]
    \cup [kind : {"char"}, value : {<<"a">>}] \cup [kind : {"float"}, value : {<<"1", ".", "5">>, <<"-", "1", ".", "5">>}]

\* A width or precision, and the argument it takes when it is a star.
Fields == [text : {<< >>, <<"4">>}, args : {<< >>}]
            \cup [text : {<<"*">>}, args : {<<[kind |-> "int", value |-> n]>> : n \in Stars}]
            \cup [text : {<<"*">>}, args : {<< >>}]

Point == {<< >>, <<".">>}

Init ==
  /\ args = << >> /\ string = << >>
  /\ format \in {<< >>} \cup ScanFormats

\* Text, a percent sign, or a percent sign that begins nothing.
AddText ==
  /\ format \notin ScanFormats /\ Len(format) <= MaxPlain
  /\ \E text \in {<<"a">>, <<"%", "%">>, <<"%">>} : format' = format \o text
  /\ UNCHANGED <<args, string>>

AddDirective ==
  /\ format = << >> /\ string = << >>
  /\ \E flags \in {set \in SUBSET Flags : Cardinality(set) <= MaxFlags}, width \in Fields, point \in Point,
        precision \in Fields, specifier \in Specifiers, arg \in Arguments :
       /\ point = << >> => precision.text = << >>
       /\ format' = <<"%">> \o SetToSeq(flags) \o width.text \o point \o precision.text \o <<specifier>>
       /\ args' = width.args \o precision.args \o <<arg>>
  /\ UNCHANGED string

AddPlain ==
  /\ format \notin ScanFormats \cup {<< >>} /\ Len(format) <= MaxPlain
  /\ \E arg \in Arguments : format' = format \o <<"%", "v">> /\ args' = Append(args, arg)
  /\ UNCHANGED string

ReadMore ==
  /\ format \in ScanFormats /\ args = << >>
  /\ Len(string) < MaxScan
  /\ \E c \in ScanChar : string' = Append(string, c)
  /\ UNCHANGED <<format, args>>

Next == AddText \/ AddDirective \/ AddPlain \/ ReadMore

Spec == Init /\ [][Next]_vars
-----------------------------------------------------------------------------
Radix(specifier) == IF specifier = "x" THEN 16 ELSE IF specifier = "o" THEN 8 ELSE 10

Prefix(s, n) == SubSeq(s, 1, Min({n, Len(s)}))
Blank(s) == \A i \in 1 .. Len(s) : s[i] = "sp"

\* What printing returns is what it has written, and a buffer that is too small
\* holds the beginning of it.
SizesAgree(st, out) ==
  /\ st.ret >= 0 => st.ret = Len(out)
  /\ \A m_size \in 0 .. 4 : BufferTarget(st.pieces, m_size) = Prefix(out, Max({0, m_size - 1}))

\* The field of one integer, with the width and precision it really has: as wide
\* as asked for, on the right side, and the number is read back from it, by
\* strtol and by StringScan.  Left out: 0 with precision 0, which has no digits,
\* and a negative number that is not decimal.
FieldAgrees(spec, arg, out) ==
  /\ Len(out) >= spec.width
  /\ Len(out) > spec.width => \A i \in 2 .. Len(out) : out[i] # "sp"
  /\ "-" \in spec.flags => out = << >> \/ spec.width <= 0 \/ ~Blank(Prefix(out, 2)) \/ Blank(out)
  /\ (arg.value # 0 \/ spec.precision # 0) /\ (arg.value >= 0 \/ Radix(spec.specifier) = 10) =>
       /\ Strtol(out, Radix(spec.specifier), arg.kind = "int", LongBits).value = arg.value
       /\ spec.specifier \in {"d", "u", "x", "o"} =>
            \A st \in {StringScan(out, <<"%", spec.specifier>>, <<arg.kind>>)} :
               spec.specifier # "u" \/ arg.kind = "uint" => st.values = <<arg.value>> /\ st.count = 1

FilledSpec(spec) ==
  [spec EXCEPT !.width = IF @ = Star THEN AsInt(args[1]) ELSE @,
               !.precision = IF @ = Star THEN AsInt(args[Len(args) - 1]) ELSE @]

\* Printing: VFormatPrint and the value writers.  To a string, StringPrintTo writes
\* nothing else and StringPrintAppend behind what is there, even when it fails.
PrintingAgrees ==
  (format \notin ScanFormats) =>
    \A st \in {VFormatPrint(format, args)} :
      \A out \in {StringTarget(st.pieces)} :
        /\ SizesAgree(st, out)
        /\ out = StringPrint("New", <<>>, format, args)
        /\ StringPrint("To", <<"a">>, format, args) = Printed(st.ret, out)
        /\ StringPrint("Append", <<"a">>, format, args) = Printed(st.ret, <<"a">> \o out)
        /\ \A spec \in {PrintParse(format, 2)} :
             (st.ret >= 0 /\ At(format, 1) = "%" /\ spec.n # 0 /\ spec.n + 1 = Len(format)
               /\ args[Len(args)].kind \in {"int", "uint"})
                => FieldAgrees(FilledSpec(spec), args[Len(args)], out)

\* The format with every directive skipped.
Skipped(f) == FlattenSeq([i \in 1 .. Len(f) |-> IF f[i] = "%" THEN <<"%", "*">> ELSE <<f[i]>>])

\* Scanning: what is stored fits its type, scanning stays inside the text, a
\* blank behind the text changes nothing, and a field that can be stored can be
\* skipped and is as long then (unless the skipped type is the narrower one).
ScanningAgrees ==
  format \in ScanFormats =>
    \A kinds \in {<<k, l>> : k \in {"int", "ulong", "string"}, l \in {"long", "uint", "bool"}} :
      \A st \in {StringScan(string, format, kinds)} :
        /\ st.s <= Len(string) + 1
        /\ \A i \in 1 .. Len(st.values) :
             kinds[i] \notin {"string", "bool"} =>
               st.values[i] \in MinOf(kinds[i] \in Signed, Bits(kinds[i])) .. MaxOf(kinds[i] \in Signed, Bits(kinds[i]))
        /\ "^" \notin Range(format) => StringScan(Append(string, "sp"), format, kinds) = st
        /\ \A skip \in {StringScan(string, Skipped(format), << >>)} :
             st.done \/ kinds[1] = "ulong" \/ Len(format) > 2 \/ skip.s = st.s
=============================================================================
