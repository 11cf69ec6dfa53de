-------------------------- MODULE PercentEncoding ---------------------------
(***************************************************************************)
(* PercentEncoding (encoding/percent.cpp).  Bytes are numbers below        *)
(* HexBase^2, the ones below HexBase are the hexadecimal digits, and four  *)
(* more have a role.  The state is a piece of a string, to be encoded or,  *)
(* whether or not an encoder made it, decoded, and the byte behind it.     *)
(***************************************************************************)
EXTENDS Integers, Sequences, SequencesExt

CONSTANTS
  HexBase,      \* 16
  MaxInput      \* bound on the length of the strings

VARIABLES
  input,
  after         \* the byte behind the piece: another one, or the terminator

Byte    == 0..HexBase^2 - 1
Letter  == HexBase          \* unchanged by every encoder
Percent == HexBase + 1
Plus    == HexBase + 2
Space   == HexBase + 3
IsHexDigit(c) == c \in 0..HexBase - 1

\* The sets of Encode and EncodeUri hold '+', that of EncodeUriComponent does not.
Unchanged(form) == 0..HexBase \cup (IF form = "component" THEN {} ELSE {Plus})

DoEncodeAppend(s, form) ==
  FoldLeft(LAMBDA out, c: out \o IF c \in Unchanged(form) THEN <<c>>
                                 ELSE <<Percent, c \div HexBase, c % HexBase>>, <<>>, s)

\* The byte at the index i, which may be the one behind the piece.
Terminator == -1
At(s, behind, i) == IF i = Len(s) + 1 THEN behind ELSE s[i]
Digits(s, behind, i) == i < Len(s) /\ IsHexDigit(s[i + 1]) /\ IsHexDigit(At(s, behind, i + 2))
Decoded(s, behind, i) == s[i + 1] * HexBase + At(s, behind, i + 2)

Failed(out) == [ok |-> FALSE, out |-> out]

\* The code refuses i + 2 > size(), with i from 0 on: a digit short is not refused.
DecodeAppend(s, behind) ==
  LET Decode[i \in 1..Len(s) + 2, out \in Seq(Byte)] ==
        IF i > Len(s) THEN [ok |-> TRUE, out |-> out]
        ELSE IF s[i] # Percent THEN Decode[i + 1, Append(out, IF s[i] = Plus THEN Space ELSE s[i])]
        ELSE IF Digits(s, behind, i) THEN Decode[i + 3, Append(out, Decoded(s, behind, i))]
        ELSE Failed(out)
  IN Decode[1, <<>>]

\* Decode(std::string*): the bytes are written over those that were read.
DecodeInPlace(str) ==
  LET Decode[i \in 1..Len(str) + 1, write_pos \in 0..Len(str), s \in Seq(Byte)] ==
        LET Put(c, next) == Decode[next, write_pos + 1, [s EXCEPT ![write_pos + 1] = c]]
        IN IF i > Len(s) THEN [ok |-> TRUE, out |-> SubSeq(s, 1, write_pos)]
           ELSE IF s[i] # Percent THEN Put(IF s[i] = Plus THEN Space ELSE s[i], i + 1)
           ELSE IF Digits(s, Terminator, i) THEN Put(Decoded(s, Terminator, i), i + 3)
           ELSE Failed(s)
  IN Decode[1, 0, str]

-----------------------------------------------------------------------------
Init == input = <<>> /\ after \in {Terminator, 0, Letter}

Next ==
  /\ Len(input) < MaxInput
  /\ \E c \in Byte: input' = Append(input, c)
  /\ UNCHANGED after

Spec == Init /\ [][Next]_<<input, after>>
-----------------------------------------------------------------------------
Complete(i) == i + 2 <= Len(input) /\ IsHexDigit(input[i + 1]) /\ IsHexDigit(input[i + 2])
Borrows(i)  == i + 1 = Len(input) /\ IsHexDigit(input[i + 1]) /\ IsHexDigit(after)

\* Decoding what EncodeUriComponent made gives the string back, and what Encode
\* and EncodeUri made except that their '+' comes back as a blank, whatever is
\* behind the piece.  Decode of a whole string does not run over what it has
\* still to read, and refuses it exactly when some '%' has not two digits.  So
\* does DecodeAppend, but for a piece that ends one digit short, with a digit
\* behind it, which it takes.
PercentComesBack ==
  /\ DecodeAppend(DoEncodeAppend(input, "component"), after) = [ok |-> TRUE, out |-> input]
  /\ DecodeAppend(DoEncodeAppend(input, "uri"), after) =
       [ok |-> TRUE, out |-> [i \in DOMAIN input |-> IF input[i] = Plus THEN Space ELSE input[i]]]
  /\ LET whole == DecodeAppend(input, Terminator) IN
       /\ DecodeInPlace(input).ok = whole.ok
       /\ whole.ok => DecodeInPlace(input) = whole
       /\ whole.ok <=> \A i \in DOMAIN input: input[i] = Percent => Complete(i)
  /\ DecodeAppend(input, after).ok <=>
       \A i \in DOMAIN input: input[i] = Percent => Complete(i) \/ Borrows(i)
=============================================================================
