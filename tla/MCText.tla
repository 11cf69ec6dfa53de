------------------------------ MODULE MCText -------------------------------
(***************************************************************************)
(* Strings, numbers and their text for TLC.  The components are functions  *)
(* without state of their own: a behaviour chooses one of them, and its    *)
(* arguments grow step by step.                                            *)
(***************************************************************************)
EXTENDS Integers, Sequences, FiniteSets

CONSTANTS Char, MaxFull, MaxDelim, WordSize, MaxLen, MaxDiffer,
          Base, Limit, MaxBytes, MaxPut, HexBase, MaxInput, ShellChar, MaxChars,
          NumberBits, NumberChar, MaxText, MaxShift,
          IntBits, LongBits, Flags, MaxFlags, Specifiers, MaxPlain, ScanChar, MaxScan,
          MaxArgs, MaxSize, Years, StartDays, Added, MaxCalls,
          MaxKey, BlockSize, PieceSizes, MaxMessage, MaxData, DivisorBits, segment_size

VARIABLES
  which,
  full, delim,
  cmp, longer,
  values, dst,
  input, after,
  args,
  hi, lo, text,
  format, print_args, string,
  store, last_call,
  date, calls,
  name, m_buffer, codec, m_err, added, wire, received, returned,
  c, output,
  len, align, big,
  algorithm, context_, message, result, damaged,
  result_, sp,
  a, value,
  m_divisor, m_algorithm, m_multiplier, m_shift, set

Algorithms == INSTANCE StringAlgorithm
Functions == INSTANCE StringFunctions
  WITH Strings <- {"x", "y"}, Literal <- {"1", "true"}, last <- last_call, ascii_c <- c
Encodings == INSTANCE TextEncoding
  WITH VLongs <- UNION {{b - 1, b, b + 1}: b \in {-65537, -257, -121, -112, 0, 127, 255, 65535}},
       Char <- ShellChar
Percents == INSTANCE PercentEncoding
Numbers == INSTANCE Number
  WITH LongBits <- NumberBits,
       Sample <- UNION {{10 ^ k - 1, 10 ^ k, 10 ^ k + 1, 2 * 10 ^ k} : k \in 0 .. 9} \cup {1234567890, 2147483647}
Formats == INSTANCE Format
  WITH Ints <- {-8, 0, 10}, Stars <- {-43, 3}, Words <- {<<"a", "b">>},
       ScanFormats <- {<<"%", "d">>, <<"%", "i">>, <<"%", "x">>, <<"%", "s">>, <<"a", "%", "v">>, <<"%", "d", "%", "v">>,
          <<"%", "*", "d", "%", "u">>, <<"%", "s", "%", "n", "%", "i">>, <<"%", "2", "h", "h", "i", "%", "%", "%", "b">>,
          <<"%", "[", "0", "-", "7", "]", "%", "v">>, <<"%", "[", "^", "a", "-", "]", "%", "d">>},
       args <- print_args
Dates == INSTANCE Date
  WITH Months <- {-13, -1, 1, 3}, Days <- {-31, -1} \cup Added
Compression == INSTANCE StreamCompression
  WITH kInitBuffSize <- segment_size \div 2, LzoSlack <- 1, max_unCompressed_size_ <- 8,
       BlockSizes <- {1, 3}, MaxAdded <- segment_size + 1
Digests == INSTANCE Digests
  WITH Word <- 8 * BlockSize, digest_result <- result, ByteBits <- 2, Width <- 6,
       kCrc32Polynomial <- 48
Arithmetics == INSTANCE Arithmetic
  WITH Bits <- 4, Operands <- {1, 15, 16, 17, 100, 240, 255}

strings_vars == <<full, delim>>
compare_vars == <<cmp, longer>>
varint_vars == <<values, dst>>
percent_vars == <<input, after>>
shell_vars == <<args>>
number_vars == <<hi, lo, text>>
format_vars == <<format, print_args, string>>
concat_vars == <<store, last_call>>
date_vars == <<date, calls>>
compress_vars == <<name, m_buffer, codec, m_err, added, wire, received,
                   returned>>
ascii_vars == <<c, output>>
hash_vars == <<len, align, big>>
digest_vars == <<algorithm, context_, message, result, damaged>>
crc_vars == <<result_, sp>>
wide_vars == <<a, value>>
divisor_vars == <<m_divisor, m_algorithm, m_multiplier, m_shift, set>>
suite_vars == <<which, strings_vars, compare_vars, varint_vars, percent_vars,
                shell_vars, number_vars, format_vars, concat_vars, date_vars,
                compress_vars, ascii_vars, hash_vars, digest_vars, crc_vars,
                wide_vars, divisor_vars>>

SuiteInit ==
  /\ which \in {"strings", "compare", "varint", "percent", "shell", "number", "format", "concat", "date", "compress", "ascii", "hash", "digest", "crc", "wide", "divisor"}
  /\ Algorithms!Init
  /\ Functions!Init
  /\ which # "compare" => longer = 0
  /\ Encodings!Init
  /\ Percents!Init
  /\ which # "percent" => after = 0
  /\ Encodings!ShellInit
  /\ Numbers!Init
  /\ Formats!Init
  /\ which # "format" => format = << >>
  /\ Functions!ConcatInit
  /\ Dates!Init
  /\ which # "date" => date = [year |-> 2000, month |-> 1, day |-> 1]
  /\ Compression!Init
  /\ which # "compress" => name = "none"
  /\ Functions!AsciiInit
  /\ Digests!Init
  /\ which # "hash" => align = 0 /\ big = FALSE
  /\ Digests!DigestInit
  /\ which # "digest" => algorithm = "md5"
  /\ Digests!CrcInit
  /\ Arithmetics!Init
  /\ Arithmetics!DivisorInit

SuiteNext ==
  /\ UNCHANGED which
  /\ \/ which = "strings" /\ Algorithms!Next
        /\ UNCHANGED <<compare_vars, varint_vars, percent_vars, shell_vars,
                       number_vars, format_vars, concat_vars, date_vars,
                       compress_vars, ascii_vars, hash_vars, digest_vars,
                       crc_vars, wide_vars, divisor_vars>>
     \/ which = "compare" /\ Functions!Next
        /\ UNCHANGED <<strings_vars, varint_vars, percent_vars, shell_vars,
                       number_vars, format_vars, concat_vars, date_vars,
                       compress_vars, ascii_vars, hash_vars, digest_vars,
                       crc_vars, wide_vars, divisor_vars>>
     \/ which = "varint" /\ Encodings!Next
        /\ UNCHANGED <<strings_vars, compare_vars, percent_vars, shell_vars,
                       number_vars, format_vars, concat_vars, date_vars,
                       compress_vars, ascii_vars, hash_vars, digest_vars,
                       crc_vars, wide_vars, divisor_vars>>
     \/ which = "percent" /\ Percents!Next
        /\ UNCHANGED <<strings_vars, compare_vars, varint_vars, shell_vars,
                       number_vars, format_vars, concat_vars, date_vars,
                       compress_vars, ascii_vars, hash_vars, digest_vars,
                       crc_vars, wide_vars, divisor_vars>>
     \/ which = "shell" /\ Encodings!ShellNext
        /\ UNCHANGED <<strings_vars, compare_vars, varint_vars, percent_vars,
                       number_vars, format_vars, concat_vars, date_vars,
                       compress_vars, ascii_vars, hash_vars, digest_vars,
                       crc_vars, wide_vars, divisor_vars>>
     \/ which = "number" /\ Numbers!Next
        /\ UNCHANGED <<strings_vars, compare_vars, varint_vars, percent_vars,
                       shell_vars, format_vars, concat_vars, date_vars,
                       compress_vars, ascii_vars, hash_vars, digest_vars,
                       crc_vars, wide_vars, divisor_vars>>
     \/ which = "format" /\ Formats!Next
        /\ UNCHANGED <<strings_vars, compare_vars, varint_vars, percent_vars,
                       shell_vars, number_vars, concat_vars, date_vars,
                       compress_vars, ascii_vars, hash_vars, digest_vars,
                       crc_vars, wide_vars, divisor_vars>>
     \/ which = "concat" /\ Functions!ConcatNext
        /\ UNCHANGED <<strings_vars, compare_vars, varint_vars, percent_vars,
                       shell_vars, number_vars, format_vars, date_vars,
                       compress_vars, ascii_vars, hash_vars, digest_vars,
                       crc_vars, wide_vars, divisor_vars>>
     \/ which = "date" /\ Dates!Next
        /\ UNCHANGED <<strings_vars, compare_vars, varint_vars, percent_vars,
                       shell_vars, number_vars, format_vars, concat_vars,
                       compress_vars, ascii_vars, hash_vars, digest_vars,
                       crc_vars, wide_vars, divisor_vars>>
     \/ which = "compress" /\ Compression!Next
        /\ UNCHANGED <<strings_vars, compare_vars, varint_vars, percent_vars,
                       shell_vars, number_vars, format_vars, concat_vars,
                       date_vars, ascii_vars, hash_vars, digest_vars,
                       crc_vars, wide_vars, divisor_vars>>
     \/ which = "ascii" /\ Functions!AsciiNext
        /\ UNCHANGED <<strings_vars, compare_vars, varint_vars, percent_vars,
                       shell_vars, number_vars, format_vars, concat_vars,
                       date_vars, compress_vars, hash_vars, digest_vars,
                       crc_vars, wide_vars, divisor_vars>>
     \/ which = "hash" /\ Digests!Next
        /\ UNCHANGED <<strings_vars, compare_vars, varint_vars, percent_vars,
                       shell_vars, number_vars, format_vars, concat_vars,
                       date_vars, compress_vars, ascii_vars, digest_vars,
                       crc_vars, wide_vars, divisor_vars>>
     \/ which = "digest" /\ Digests!DigestNext
        /\ UNCHANGED <<strings_vars, compare_vars, varint_vars, percent_vars,
                       shell_vars, number_vars, format_vars, concat_vars,
                       date_vars, compress_vars, ascii_vars, hash_vars,
                       crc_vars, wide_vars, divisor_vars>>
     \/ which = "crc" /\ Digests!CrcNext
        /\ UNCHANGED <<strings_vars, compare_vars, varint_vars, percent_vars,
                       shell_vars, number_vars, format_vars, concat_vars,
                       date_vars, compress_vars, ascii_vars, hash_vars,
                       digest_vars, wide_vars, divisor_vars>>
     \/ which = "wide" /\ Arithmetics!Next
        /\ UNCHANGED <<strings_vars, compare_vars, varint_vars, percent_vars,
                       shell_vars, number_vars, format_vars, concat_vars,
                       date_vars, compress_vars, ascii_vars, hash_vars,
                       digest_vars, crc_vars, divisor_vars>>
     \/ which = "divisor" /\ Arithmetics!DivisorNext
        /\ UNCHANGED <<strings_vars, compare_vars, varint_vars, percent_vars,
                       shell_vars, number_vars, format_vars, concat_vars,
                       date_vars, compress_vars, ascii_vars, hash_vars,
                       digest_vars, crc_vars, wide_vars>>

SuiteSpec == SuiteInit /\ [][SuiteNext]_suite_vars

\* StringPiece and the string algorithms: searching, replacing, splitting, joining
\* and trimming agree with each other, and the comparisons by words with one byte
\* by byte.  StringAppend and StringConcat: the arguments in order, also when the
\* string that is written is one of them.  Ascii and Hex: the classes of characters are
\* consistent, and hex digits are the bytes.
StringsAgree ==
  /\ which = "strings" => Algorithms!StringsAgree
  /\ which = "compare" => Functions!WordsCompareAsBytes
  /\ which = "concat" => Functions!ArgumentsInOrder
  /\ which = "ascii" => Functions!CharactersAreClassified

\* Varint, PercentEncoding and the shell encoding: what was put, encoded, escaped,
\* quoted or joined comes back as it was, and what is incomplete is refused.
\* IntegerToString and StringToNumber: a number written is read back by the types
\* that hold it.  StreamCompression: nothing is lost, repeated or moved.
EncodingsComeBack ==
  /\ which = "varint" => Encodings!VarintsComeBack
  /\ which = "percent" => Percents!PercentComesBack
  /\ which = "shell" => Encodings!ShellComesBack
  /\ which = "number" => Numbers!NumbersComeBack
  /\ which = "compress" => Compression!StreamComesBack

\* StringPrint returns what it has written, and a field is as wide as asked for and
\* holds its number.  What StringScan stores fits, it stays inside the text, and
\* skipping a field is like storing it.
FormatsAgree ==
  /\ which = "format" => Formats!PrintingAgrees
  /\ which = "format" => Formats!ScanningAgrees

\* The hash functions, MD5, SHA1 and CRC32: every byte of the key or of the message,
\* in whatever pieces it comes, counts once and in its place.
DigestsAreWhole ==
  /\ which = "hash" => Digests!HashesReadTheKey
  /\ which = "digest" => Digests!DigestIsOfTheMessage
  /\ which = "crc" => Digests!ChecksumIsTheRemainder

\* Date: the arithmetic on year, month and day is that of the calendar, where the
\* fields can follow it.  UInt128 and UInt32Divisor: that of the numbers.
ArithmeticIsExact ==
  /\ which = "date" => Dates!DatesAreDays
  /\ which = "wide" => Arithmetics!WordsAreTheNumber
  /\ which = "divisor" => Arithmetics!DividesExactly
=============================================================================
