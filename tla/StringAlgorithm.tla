-------------------------- MODULE StringAlgorithm ---------------------------
(***************************************************************************)
(* The searches of StringPiece (base/string/string_piece.cpp) and the      *)
(* functions on strings that are built on them (base/string/algorithm.cpp).*)
(*                                                                         *)
(* Strings are sequences of characters; positions count from 0 as in the   *)
(* code.  The state is a pair of arguments, which grows by a character at  *)
(* a step, so that the properties are checked for all pairs up to the      *)
(* bounds.                                                                 *)
(***************************************************************************)
EXTENDS Integers, Sequences, SequencesExt, FiniteSetsExt

CONSTANTS
  Char,        \* "sp", "cr" and "lf" are a blank and the ends of lines
  MaxFull,     \* bounds on the lengths of the arguments
  MaxDelim

VARIABLES
  full,        \* the string that is searched, split, trimmed...
  delim        \* the pattern, delimiter or set of characters

npos    == -1
IsSpace(c) == c \in {"sp", "cr", "lf"}
Chars(s)   == {s[i]: i \in DOMAIN s}

\* StringPiece::substr
Substr(s, pos, n) == SubSeq(s, pos + 1, pos + n)
From(s, pos)      == SubSeq(s, pos + 1, Len(s))

First(set)     == IF set = {} THEN npos ELSE Min(set)
Final(set)     == IF set = {} THEN npos ELSE Max(set)
At(s, p, i)    == Substr(s, i, Len(p)) = p

Find(s, p, pos)  == IF pos > Len(s) THEN npos ELSE First({i \in pos..Len(s) - Len(p): At(s, p, i)})
RFind(s, p, pos) == IF Len(s) < Len(p) THEN npos
                    ELSE IF p = <<>> THEN Min({Len(s), pos})
                    ELSE Final({i \in 0..Min({Len(s) - Len(p), pos}): At(s, p, i)})

FindFirstOf(s, p, pos)    == First({i \in pos..Len(s) - 1: s[i + 1] \in Chars(p)})
FindFirstNotOf(s, p, pos) == IF s # <<>> /\ p = <<>> THEN 0
                             ELSE First({i \in pos..Len(s) - 1: s[i + 1] \notin Chars(p)})
FindLastOf(s, p, pos)     == Final({i \in 0..Min({pos, Len(s) - 1}): s[i + 1] \in Chars(p)})
FindLastNotOf(s, p, pos)  == Final({i \in 0..Min({pos, Len(s) - 1}): s[i + 1] \notin Chars(p)})

-----------------------------------------------------------------------------
ReplaceFirst(s, old, new) ==
  LET pos == Find(s, old, 0)
  IN IF old = <<>> \/ pos = npos THEN s
     ELSE Substr(s, 0, pos) \o new \o From(s, pos + Len(old))

\* The string is copied piece by piece...
ReplaceAllCopy(s, old, new) ==
  LET Rest[start \in 0..Len(s)] ==
        LET pos == Find(s, old, start)
        IN IF pos = npos THEN From(s, start)
           ELSE Substr(s, start, pos - start) \o new \o Rest[pos + Len(old)]
  IN IF old = <<>> THEN s ELSE Rest[0]

\* ...or changed in place, where the search goes on behind what was inserted.
\* With an empty pattern the loop does not end.
RECURSIVE ReplaceAllFrom(_, _, _, _)
ReplaceAllFrom(s, from, to, start) ==
  LET pos == Find(s, from, start)
  IN IF pos = npos THEN s
     ELSE ReplaceAllFrom(Substr(s, 0, pos) \o to \o From(s, pos + Len(from)), from, to, pos + Len(to))

ReplaceAllInPlace(s, from, to) == ReplaceAllFrom(s, from, to, 0)

ReplaceAllChars(s, from, to) == [i \in DOMAIN s |-> IF Find(from, <<s[i]>>, 0) # npos THEN to ELSE s[i]]

JoinStrings(components, d) ==
  FoldLeftDomain(LAMBDA result, i: result \o (IF i = 1 THEN <<>> ELSE d) \o components[i], <<>>, components)

RemoveLineEnding(line) ==
  Substr(line, 0, 1 + Final({i \in 0..Len(line) - 1: line[i + 1] \notin {"cr", "lf"}}))

\* The blank is kept if the character before it is none.
RemoveContinuousBlank(s) ==
  LET Step(r, c) == [out   |-> IF c # "sp" \/ r.first THEN Append(r.out, c) ELSE r.out,
                     first |-> c # "sp"]
  IN FoldLeft(Step, [out |-> <<>>, first |-> TRUE], s).out

-----------------------------------------------------------------------------
\* SplitStringToIteratorUsing for one character...
SplitByChar(s, c) ==
  LET Split[p \in 0..Len(s)] ==
        LET ends == {i \in p + 1..Len(s): i = Len(s) \/ s[i + 1] = c}
        IN IF p = Len(s) THEN <<>>
           ELSE IF s[p + 1] = c THEN Split[p + 1]
           ELSE <<Substr(s, p, Min(ends) - p)>> \o Split[Min(ends)]
  IN Split[0]

\* ...and for a set of them.
SplitByAnyOfSet(s, d) ==
  LET Split[begin \in -1..Len(s)] ==
        LET end == FindFirstOf(s, d, begin)
        IN IF begin = npos THEN <<>>
           ELSE IF end = npos THEN <<From(s, begin)>>
           ELSE <<Substr(s, begin, end - begin)>> \o Split[FindFirstNotOf(s, d, end)]
  IN Split[FindFirstNotOf(s, d, 0)]

SplitStringByAnyOf(s, d) == IF Len(d) = 1 THEN SplitByChar(s, d[1]) ELSE SplitByAnyOfSet(s, d)

\* Faulty: the delimiter at the end of a component stays in the next one.
SplitStringOverlaps(s, d) ==
  LET Split[begin \in 0..Len(s)] ==
        LET end == Find(s, d, begin)
        IN IF begin >= Len(s) THEN <<>>
           ELSE IF end = npos THEN <<From(s, begin)>>
           ELSE (IF end > begin THEN <<Substr(s, begin, end - begin)>> ELSE <<>>) \o Split[end + 1]
  IN IF s = <<>> THEN <<>>
     ELSE IF d = <<>> THEN <<s>>
     ELSE IF Len(d) = 1 THEN SplitStringByAnyOf(s, d)
     ELSE Split[0]

SplitString(s, d) ==
  LET Split[begin \in 0..Len(s)] ==
        LET end == Find(s, d, begin)
        IN IF begin >= Len(s) THEN <<>>
           ELSE IF end = npos THEN <<From(s, begin)>>
           ELSE (IF end > begin THEN <<Substr(s, begin, end - begin)>> ELSE <<>>) \o Split[end + Len(d)]
  IN IF s = <<>> THEN <<>>
     ELSE IF d = <<>> THEN <<s>>
     ELSE IF Len(d) = 1 THEN SplitStringByAnyOf(s, d)
     ELSE Split[0]

SplitStringKeepEmpty(s, d) ==
  LET Split[prev \in 0..Len(s)] ==
        LET pos == Find(s, d, prev)
        IN IF pos = npos THEN <<From(s, prev)>>
           ELSE <<Substr(s, prev, pos - prev)>> \o Split[pos + Len(d)]
  IN IF s = <<>> \/ d = <<>> THEN <<>> ELSE Split[0]

SplitLines(s, keep) ==
  LET Line(t) == IF keep THEN t ELSE RemoveLineEnding(t)
      Split[prev \in 0..Len(s)] ==
        LET pos == Find(s, <<"lf">>, prev)
        IN IF pos # npos THEN <<Line(Substr(s, prev, pos - prev + 1))>> \o Split[pos + 1]
           ELSE IF prev < Len(s) THEN <<Line(From(s, prev))>> ELSE <<>>
  IN Split[0]

-----------------------------------------------------------------------------
TrimLeftSpace(s)  == From(s, Min({i \in 0..Len(s): i = Len(s) \/ ~IsSpace(s[i + 1])}))
TrimRightSpace(s) == Substr(s, 0, 1 + Max({i \in -1..Len(s) - 1: i = -1 \/ ~IsSpace(s[i + 1])}))
TrimSpace(s) ==
  LET start == Min({i \in 0..Len(s): i = Len(s) \/ ~IsSpace(s[i + 1])})
      end   == Max({i \in start..Len(s) - 1: ~IsSpace(s[i + 1])})
  IN IF start = Len(s) THEN <<>> ELSE Substr(s, start, end - start + 1)

StringTrimLeft(s, value) ==
  LET start == FindFirstNotOf(s, value, 0) IN IF start = npos THEN <<>> ELSE From(s, start)
StringTrimRight(s, value) ==
  LET end == FindLastNotOf(s, value, Len(s)) IN IF end = npos THEN <<>> ELSE Substr(s, 0, end + 1)
StringTrim(s, value) ==
  LET start == FindFirstNotOf(s, value, 0)
      end   == FindLastNotOf(s, value, Len(s))
  IN IF start = npos THEN <<>> ELSE Substr(s, start, end - start + 1)

\* One string is moved along the other, first to the one side, then to the
\* other; runs of equal characters are measured, and what is too short to hold
\* a longer run than the longest one is left out.
LongestCommonSubstring(a, b) ==
  LET Run(r, m, n, k) ==                         \* the run at the offset k from (m, n)
        LET length == IF a[m + k + 1] = b[n + k + 1] THEN r.length + 1 ELSE 0
        IN IF length > r.longest THEN [length |-> length, longest |-> length, pos |-> m + k - length + 1]
           ELSE [r EXCEPT !.length = length]
      Along(r, m, n) ==
        FoldLeft(LAMBDA x, k: Run(x, m, n, k), [r EXCEPT !.length = 0],
                 [k \in 1..Min({Len(a) - m, Len(b) - n}) |-> k - 1])
      Long(r, m, n) == Len(a) - m > r.longest /\ Len(b) - n > r.longest
      Shift1[i \in 0..Len(a)] ==
        LET r == IF i = 0 THEN [length |-> 0, longest |-> 0, pos |-> -1] ELSE Shift1[i - 1]
        IN IF i < Len(a) /\ Long(r, i, 0) THEN Along(r, i, 0) ELSE r
      Shift2[i \in 0..Len(b)] ==
        LET r == IF i = 0 THEN Shift1[Len(a)] ELSE Shift2[i - 1]
        IN IF i \in 1..Len(b) - 1 /\ Long(r, 0, i) THEN Along(r, 0, i) ELSE r
      found == Shift2[Len(b)]
  IN IF a = <<>> \/ b = <<>> \/ found.longest = 0 THEN <<>> ELSE Substr(a, found.pos, found.longest)

-----------------------------------------------------------------------------
vars == <<full, delim>>

Init == full = <<>> /\ delim = <<>>

Next ==
  \E c \in Char:
    \/ Len(full) < MaxFull /\ full' = Append(full, c) /\ UNCHANGED delim
    \/ Len(delim) < MaxDelim /\ delim' = Append(delim, c) /\ UNCHANGED full

Spec == Init /\ [][Next]_vars
-----------------------------------------------------------------------------
(* Properties *)

NonEmpty(components) == SelectSeq(components, LAMBDA c: c # <<>>)
Parts(s, n)          == {Substr(s, i, n): i \in 0..Len(s) - n}
AreTrimmed(s, t, value) ==     \* t is s without the characters of value at its ends
  \E i \in 0..Len(s): \E n \in 0..Len(s) - i:
    /\ t = Substr(s, i, n)
    /\ Chars(Substr(s, 0, i)) \cup Chars(From(s, i + n)) \subseteq value
    /\ t # <<>> => Head(t) \notin value /\ Last(t) \notin value

\* A search backwards is the search in the reversed string.
SearchesAgree ==
  LET r == Reverse(full)
      Mirror(i, n) == IF i = npos THEN npos ELSE Len(full) - n - i
  IN /\ RFind(full, delim, Len(full)) = Mirror(Find(r, Reverse(delim), 0), Len(delim))
     /\ FindLastOf(full, delim, Len(full)) = Mirror(FindFirstOf(r, delim, 0), 1)
     /\ FindLastNotOf(full, delim, Len(full)) = Mirror(FindFirstNotOf(r, delim, 0), 1)
     /\ \A pos \in 0..Len(full): delim # <<>> =>
          Find(full, delim, pos) = IF Find(From(full, pos), delim, 0) = npos THEN npos
                                   ELSE pos + Find(From(full, pos), delim, 0)

\* The replacements agree with each other and with the splits.
ReplacingIsSplitting ==
  delim # <<>> => \A new \in {<<>>, <<CHOOSE c \in Char: TRUE>>, Append(delim, "sp")}:
    /\ ReplaceAllInPlace(full, delim, new) = ReplaceAllCopy(full, delim, new)
    /\ full # <<>> => ReplaceAllCopy(full, delim, new) = JoinStrings(SplitStringKeepEmpty(full, delim), new)
    /\ LET parts == SplitStringKeepEmpty(full, delim)
       IN ReplaceFirst(full, delim, new) =
            IF Len(parts) < 2 THEN full ELSE parts[1] \o new \o JoinStrings(Tail(parts), delim)
    /\ Len(delim) = 1 /\ Len(new) = 1 => ReplaceAllChars(full, delim, new[1]) = ReplaceAllCopy(full, delim, new)

\* The ways to split agree with each other.
SplitsAgree ==
  /\ delim # <<>> =>
       /\ JoinStrings(SplitStringKeepEmpty(full, delim), delim) = full
       /\ \A i \in DOMAIN SplitStringKeepEmpty(full, delim): Find(SplitStringKeepEmpty(full, delim)[i], delim, 0) = npos
       /\ SplitString(full, delim) = NonEmpty(SplitStringKeepEmpty(full, delim))
       /\ SplitByAnyOfSet(full, delim) =
            NonEmpty(SplitStringKeepEmpty(ReplaceAllChars(full, delim, delim[1]), <<delim[1]>>))
       /\ Len(delim) = 1 => SplitByChar(full, delim[1]) = SplitByAnyOfSet(full, delim)
  /\ FlattenSeq(SplitLines(full, TRUE)) = full
  /\ Len(SplitLines(full, FALSE)) = Len(SplitLines(full, TRUE))
  /\ SplitByChar(RemoveContinuousBlank(full), "sp") = SplitByChar(full, "sp")
  /\ Find(RemoveContinuousBlank(full), <<"sp", "sp">>, 0) = npos

\* Nothing but the characters at the ends is trimmed.
TrimsAgree ==
  /\ TrimSpace(full) = StringTrim(full, <<"sp", "cr", "lf">>)
  /\ TrimSpace(full) = TrimLeftSpace(TrimRightSpace(full))
  /\ AreTrimmed(full, TrimSpace(full), {"sp", "cr", "lf"})
  /\ AreTrimmed(full, StringTrim(full, delim), Chars(delim))
  /\ StringTrim(full, delim) = StringTrimLeft(StringTrimRight(full, delim), delim)
  /\ StringTrimRight(full, <<"cr", "lf">>) = RemoveLineEnding(full)

\* The functions on strings do what their counterparts do: a search backwards is
\* one in the reversed string; replacing is
\* splitting and joining with another delimiter, in place or not; joining what
\* SplitStringKeepEmpty gives is the string, and the other splits give its
\* nonempty components, by one character as by a set of one; trimming takes the
\* characters at the ends, all of them and no others; the longest common
\* substring is common and none is longer.
StringsAgree ==
  /\ SearchesAgree /\ ReplacingIsSplitting /\ SplitsAgree /\ TrimsAgree
  /\ LET longest == LongestCommonSubstring(full, delim)
     IN /\ longest \in Parts(full, Len(longest)) \cap Parts(delim, Len(longest))
        /\ \A n \in Len(longest) + 1..Min({Len(full), Len(delim)}): Parts(full, n) \cap Parts(delim, n) = {}
=============================================================================
