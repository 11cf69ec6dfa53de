-------------------------------- MODULE Uri ---------------------------------
(***************************************************************************)
(* URIs and the parameters of their queries.                               *)
(***************************************************************************)
EXTENDS Integers, Sequences, FiniteSets, SequencesExt

(***************************************************************************)
(* The URI class: the recursive-descent parser behind URI::Parse, the two  *)
(* writers, and the resolution of a reference against a base URI           *)
(* (URI::Merge, RFC 3986 section 5.2).                                     *)
(*                                                                         *)
(* A text is a sequence of one-character strings.  A matcher without       *)
(* effect on the URI object takes the position it starts at and returns    *)
(* the position behind what it matched, or NoMatch; going back to the      *)
(* start is what its class Result does on failure.  A matcher that also    *)
(* fills in the URI object takes and returns a parser state                *)
(* [ok, at, uri]: a failure restores the position only, what was already   *)
(* written into the URI object stays there.                                *)
(***************************************************************************)
CONSTANTS Starts,      \* texts an input begins with
          Chars,       \* the characters it goes on with
          MaxGrow,     \* how many of them
          Bases        \* the base URIs references are resolved against

VARIABLES uri_text, left
vars == <<uri_text, left>>

---------------------------------------------------------------------------
(* Byte sets. *)

LowerSeq == <<"a", "b", "c", "d", "e", "f", "g", "h", "i", "j", "k", "l", "m",
              "n", "o", "p", "q", "r", "s", "t", "u", "v", "w", "x", "y", "z">>
UpperSeq == <<"A", "B", "C", "D", "E", "F", "G", "H", "I", "J", "K", "L", "M",
              "N", "O", "P", "Q", "R", "S", "T", "U", "V", "W", "X", "Y", "Z">>
Alpha == Range(LowerSeq) \cup Range(UpperSeq)
Digit == {"0", "1", "2", "3", "4", "5", "6", "7", "8", "9"}
Hex == Digit \cup {"a", "b", "c", "d", "e", "f", "A", "B", "C", "D", "E", "F"}
AlphaNum == Alpha \cup Digit

SubDelims == {"!", "$", "&", "'", "(", ")", "*", "+", ",", ";", "="}
Unreserved == AlphaNum \cup {"-", ".", "_", "~"}
UserInfoSet == Unreserved \cup {",", ":", "&", "=", "+", "$"}
SchemeSet == AlphaNum \cup {"+", "-", "."}
PcharSet == Unreserved \cup SubDelims \cup {":", "@"}
QueryOrFragmentSet == PcharSet \cup {"/", "?"}
SegmentNcSet == Unreserved \cup SubDelims \cup {"@"}

---------------------------------------------------------------------------
(* Matchers on positions. *)

NoMatch == 0

\* The alternatives of a rule: the second is tried when the first does not match.
Either(first, second) == IF first # NoMatch THEN first ELSE second

InSet(t, i, set) == i <= Len(t) /\ t[i] \in set

\* match_literal and match_byteset.
Match(t, i, set) == IF InSet(t, i, set) THEN i + 1 ELSE NoMatch

\* "%XX" or "%uXXXX".
MatchPctEncoded(t, i) ==
    LET hexAt(S) == \A k \in S : InSet(t, i + k, Hex)
    IN  IF ~InSet(t, i, {"%"}) THEN NoMatch
        ELSE IF hexAt({1, 2}) THEN i + 3
        ELSE IF InSet(t, i + 1, {"u"}) /\ hexAt(2..5) THEN i + 6
        ELSE NoMatch

\* while (match_byteset(set)) {}
RECURSIVE Skip(_, _, _)
Skip(t, i, set) == IF InSet(t, i, set) THEN Skip(t, i + 1, set) ELSE i

\* while (match_byteset(set) || match_pct_encoded()) {}
RECURSIVE SkipEncoded(_, _, _)
SkipEncoded(t, i, set) ==
    IF InSet(t, i, set) THEN SkipEncoded(t, i + 1, set)
    ELSE IF MatchPctEncoded(t, i) # NoMatch
         THEN SkipEncoded(t, MatchPctEncoded(t, i), set)
         ELSE i

\* match_domainlabel (first = AlphaNum) and match_toplabel (first = Alpha).
\* The inner Result keeps the run of letters, digits and hyphens as soon as
\* one more letter or digit was seen.
MatchLabel(t, i, first) ==
    LET upTo(end) == IF \E k \in i + 1 .. end - 1 : t[k] \in AlphaNum THEN end ELSE i + 1
    IN  IF InSet(t, i, first) THEN upTo(Skip(t, i + 1, AlphaNum \cup {"-"})) ELSE NoMatch

\* *( domainlabel "." ): the position behind the last label with its dot.
RECURSIVE SkipDomainLabels(_, _)
SkipDomainLabels(t, i) ==
    LET behind(j) == IF j # NoMatch /\ InSet(t, j, {"."}) THEN SkipDomainLabels(t, j + 1) ELSE i
    IN  behind(MatchLabel(t, i, AlphaNum))

\* match_hostname.
MatchHostName(t, i) ==
    LET behind(top) == IF top # NoMatch /\ InSet(t, top, {"."}) THEN top + 1 ELSE top
    IN  behind(MatchLabel(t, SkipDomainLabels(t, i), Alpha))

\* match_IPv4address: `left' more fields that end in a dot, then the last one.
\* A field without a digit is passed over.
RECURSIVE MatchIPv4(_, _, _)
MatchIPv4(t, i, fields) ==
    LET end == Skip(t, i, Digit)
    IN  IF fields = 0 THEN IF end > i THEN end ELSE NoMatch
        ELSE IF end = i THEN MatchIPv4(t, i, fields - 1)
        ELSE IF InSet(t, end, {"."}) THEN MatchIPv4(t, end + 1, fields - 1)
        ELSE NoMatch

\* match_host without its effect: reg-name, IPv4address, never an IP literal.
MatchHost(t, i) == Either(MatchHostName(t, i), MatchIPv4(t, i, 3))

\* *( "/" segment ), the loop that ends every path.
RECURSIVE SkipSegments(_, _)
SkipSegments(t, i) ==
    IF InSet(t, i, {"/"}) THEN SkipSegments(t, SkipEncoded(t, i + 1, PcharSet)) ELSE i

\* path-absolute: "/" [ segment-nz *( "/" segment ) ].
MatchPathAbsolute(t, i) ==
    LET from(j) == IF j > i + 1 THEN SkipSegments(t, j) ELSE j
    IN  IF InSet(t, i, {"/"}) THEN from(SkipEncoded(t, i + 1, PcharSet)) ELSE NoMatch

\* path-rootless (first = PcharSet) and path-noscheme (first = SegmentNcSet).
MatchPathFrom(t, i, first) ==
    LET from(j) == IF j > i THEN SkipSegments(t, j) ELSE NoMatch
    IN  from(SkipEncoded(t, i, first))

\* maybe_contains_userinfo: an '@' before any '/'.
MaybeContainsUserInfo(t, i) ==
    \E k \in i .. Len(t) : t[k] = "@" /\ \A n \in i .. k - 1 : t[n] # "/"
---------------------------------------------------------------------------
(* The URI object. *)

NoAuthority == [hasUserInfo |-> FALSE, userInfo |-> <<>>, host |-> <<>>,
                hasPort |-> FALSE, port |-> <<>>]

\* The default constructor, and URI::Clear.
EmptyUri == [scheme |-> <<>>, hasAuthority |-> FALSE, authority |-> NoAuthority,
             path |-> <<>>, hasQuery |-> FALSE, query |-> <<>>,
             hasFragment |-> FALSE, fragment |-> <<>>]

\* URI::SetUserInfo, SetHost and SetPort make the authority present.
SetUserInfo(u, v) == [u EXCEPT !.hasAuthority = TRUE, !.authority.hasUserInfo = TRUE,
                               !.authority.userInfo = v]
SetHost(u, v) == [u EXCEPT !.hasAuthority = TRUE, !.authority.host = v]
SetPort(u, v) == [u EXCEPT !.hasAuthority = TRUE, !.authority.hasPort = TRUE,
                           !.authority.port = v]
SetAuthority(u, v) == [u EXCEPT !.hasAuthority = TRUE, !.authority = v]
SetQuery(u, v) == [u EXCEPT !.hasQuery = TRUE, !.query = v]
SetFragment(u, v) == [u EXCEPT !.hasFragment = TRUE, !.fragment = v]

---------------------------------------------------------------------------
(* Matchers that fill in the URI object. *)

Part(t, from, behind) == SubSeq(t, from, behind - 1)

\* match_scheme_and_colon.
SchemeAndColon(t, p) ==
    LET end == Skip(t, p.at, SchemeSet)
    IN  IF InSet(t, p.at, Alpha) /\ InSet(t, end, {":"})
        THEN [ok |-> TRUE, at |-> end + 1, uri |-> [p.uri EXCEPT !.scheme = Part(t, p.at, end)]]
        ELSE [p EXCEPT !.ok = FALSE]

\* The optional user information of match_authority.
OptionalUserInfo(t, p) ==
    LET end == SkipEncoded(t, p.at, UserInfoSet)
    IN  IF MaybeContainsUserInfo(t, p.at) /\ InSet(t, end, {"@"})
        THEN [p EXCEPT !.at = end + 1, !.uri = SetUserInfo(p.uri, Part(t, p.at, end))]
        ELSE p

\* match_host.
Host(t, p) ==
    LET upTo(end) == IF end = NoMatch THEN [p EXCEPT !.ok = FALSE]
                     ELSE [p EXCEPT !.at = end, !.uri = SetHost(p.uri, Part(t, p.at, end))]
    IN  upTo(MatchHost(t, p.at))

\* The optional port of match_authority: *digit, it may be empty.
OptionalPort(t, p) ==
    LET end == Skip(t, p.at + 1, Digit)
    IN  IF p.ok /\ InSet(t, p.at, {":"})
        THEN [p EXCEPT !.at = end, !.uri = SetPort(p.uri, Part(t, p.at + 1, end))]
        ELSE p

Path(t, p, end) ==
    IF p.ok /\ end # NoMatch
    THEN [p EXCEPT !.at = end, !.uri = [p.uri EXCEPT !.path = Part(t, p.at, end)]]
    ELSE [p EXCEPT !.ok = FALSE]

\* "//" authority path-abempty.
AuthorityAndPath(t, p) ==
    LET path(q) == Path(t, q, SkipSegments(t, q.at))
    IN  IF InSet(t, p.at, {"/"}) /\ InSet(t, p.at + 1, {"/"})
        THEN path(OptionalPort(t, Host(t, OptionalUserInfo(t, [p EXCEPT !.at = @ + 2]))))
        ELSE [p EXCEPT !.ok = FALSE]

\* match_hier_part (first = PcharSet) and match_relative_part (first =
\* SegmentNcSet): when "//" authority fails, the position goes back to the
\* start and the URI object keeps what was set.
HierPart(t, p, first) ==
    LET orPath(q, end) == IF q.ok THEN q ELSE Path(t, [q EXCEPT !.ok = TRUE, !.at = p.at], end)
    IN  orPath(AuthorityAndPath(t, p),
               Either(MatchPathAbsolute(t, p.at), Either(MatchPathFrom(t, p.at, first), p.at)))

\* [ "?" query ].
OptionalQuery(t, p) ==
    LET end == SkipEncoded(t, p.at + 1, QueryOrFragmentSet)
    IN  IF ~InSet(t, p.at, {"?"}) THEN p
        ELSE [p EXCEPT !.at = end, !.uri = SetQuery(p.uri, Part(t, p.at + 1, end))]

\* [ "#" fragment ].
OptionalFragment(t, p) ==
    LET end == SkipEncoded(t, p.at + 1, QueryOrFragmentSet)
    IN  IF ~InSet(t, p.at, {"#"}) THEN p
        ELSE [p EXCEPT !.at = end, !.uri = SetFragment(p.uri, Part(t, p.at + 1, end))]

\* match_relative_ref: a fragment is not looked for.
RelativeRef(t, p) == OptionalQuery(t, HierPart(t, p, SegmentNcSet))

\* match_URI_reference: match_URI, else match_relative_ref.
UriReference(t, p) ==
    LET from(s) == IF s.ok THEN OptionalFragment(t, OptionalQuery(t, HierPart(t, s, PcharSet)))
                   ELSE RelativeRef(t, p)
    IN  from(SchemeAndColon(t, p))

\* URI::ParseBuffer: Clear, then parse; the position is the parsed length + 1.
ParseBuffer(t) == UriReference(t, [ok |-> TRUE, at |-> 1, uri |-> EmptyUri])

\* URI::Parse.
Parse(t) == LET whole(p) == [ok |-> p.at = Len(t) + 1, uri |-> p.uri] IN whole(ParseBuffer(t))

---------------------------------------------------------------------------
(* Writers. *)

\* URI::ToString.
UriToString(u) ==
    (IF u.scheme # <<>> THEN u.scheme \o <<":">> ELSE <<>>)
    \o (IF u.hasAuthority
        THEN <<"/", "/">>
             \o (IF u.authority.hasUserInfo THEN u.authority.userInfo \o <<"@">> ELSE <<>>)
             \o u.authority.host
             \o (IF u.authority.hasPort THEN <<":">> \o u.authority.port ELSE <<>>)
        ELSE <<>>)
    \o u.path
    \o (IF u.hasQuery THEN <<"?">> \o u.query ELSE <<>>)
    \o (IF u.hasFragment THEN <<"#">> \o u.fragment ELSE <<>>)

\* URI::Normalize: scheme and host in lower case.
StringLower(s) ==
    [i \in DOMAIN s |-> IF s[i] \in Range(UpperSeq)
                        THEN LowerSeq[CHOOSE k \in DOMAIN UpperSeq : UpperSeq[k] = s[i]]
                        ELSE s[i]]
Normalize(u) == [u EXCEPT !.scheme = StringLower(@), !.authority.host = StringLower(@)]

---------------------------------------------------------------------------
(* Resolution of references. *)

LastSlash(s) == SelectLastInSeq(s, LAMBDA c : c = "/")

\* Faulty: the preceding slash is not removed.
RemoveLastSegmentName(s) == SubSeq(s, 1, LastSlash(s))

\* remove_last_segment_and_preceding_slash: nothing to do without a slash.
RemoveLastSegment(s) == IF LastSlash(s) = 0 THEN s ELSE SubSeq(s, 1, LastSlash(s) - 1)

Drop(s, n) == SubSeq(s, n + 1, Len(s))

\* remove_dot_segments: the loop over the input buffer, rules A to E.
RECURSIVE RemoveDotSegments(_, _)
RemoveDotSegments(in, out) ==
    LET slash == SelectInSubSeq(in, 2, Len(in), LAMBDA c : c = "/")
    IN  CASE in = <<>> -> out
          [] IsPrefix(<<".", ".", "/">>, in) -> RemoveDotSegments(Drop(in, 3), out)
          [] IsPrefix(<<".", "/">>, in) -> RemoveDotSegments(Drop(in, 2), out)
          [] IsPrefix(<<"/", ".", "/">>, in) -> RemoveDotSegments(Drop(in, 2), out)
          [] in = <<"/", ".">> -> RemoveDotSegments(<<"/">>, out)
          [] IsPrefix(<<"/", ".", ".", "/">>, in) ->
                 RemoveDotSegments(Drop(in, 3), RemoveLastSegment(out))
          [] in = <<"/", ".", ".">> -> RemoveDotSegments(<<"/">>, RemoveLastSegment(out))
          [] in \in {<<".">>, <<".", ".">>} -> out
          [] OTHER -> IF slash = 0 THEN out \o in
                      ELSE RemoveDotSegments(Drop(in, slash - 1),
                                             out \o SubSeq(in, 1, slash - 1))

\* merge_path: the path of the base up to its last slash, then the reference.
MergePath(baseHasAuthority, basePath, path) ==
    IF baseHasAuthority /\ basePath = <<>> THEN <<"/">> \o path
    ELSE SubSeq(basePath, 1, LastSlash(basePath)) \o path

\* The path and query of URI::Merge for a reference without scheme and
\* authority.
MergePathAndQuery(ref, base, result) ==
    LET path == IF IsPrefix(<<"/">>, ref.path) THEN ref.path
                ELSE MergePath(base.hasAuthority, base.path, ref.path)
        query(r) == IF ref.hasQuery THEN SetQuery(r, ref.query)
                    ELSE IF ref.path = <<>> /\ base.hasQuery THEN SetQuery(r, base.query) ELSE r
    IN  query([result EXCEPT !.path = IF ref.path = <<>> THEN base.path
                                      ELSE RemoveDotSegments(path, <<>>)])

\* URI::Merge(base, strict); URI::ToAbsolute is the one with strict = FALSE.
Merge(ref, base, strict) ==
    LET ownScheme == (strict \/ ref.scheme # base.scheme) /\ ref.scheme # <<>>
        with(u) == IF u.hasAuthority THEN SetAuthority(EmptyUri, u.authority) ELSE EmptyUri
        query(r) == IF ref.hasQuery THEN SetQuery(r, ref.query) ELSE r
        fragment(r) == IF ref.hasFragment THEN SetFragment(r, ref.fragment) ELSE r
        merged == IF ownScheme \/ ref.hasAuthority
                  THEN query([with(ref) EXCEPT !.path = RemoveDotSegments(ref.path, <<>>)])
                  ELSE MergePathAndQuery(ref, base, with(base))
    IN  fragment([merged EXCEPT !.scheme = IF ownScheme THEN ref.scheme ELSE base.scheme])

---------------------------------------------------------------------------
(* The inputs: a start and up to MaxGrow characters behind it. *)

Init == uri_text \in Starts /\ left = MaxGrow
Grow == left > 0 /\ left' = left - 1 /\ \E c \in Chars : uri_text' = Append(uri_text, c)
Done == left = 0 /\ UNCHANGED vars
Next == Grow \/ Done
Spec == Init /\ [][Next]_vars

---------------------------------------------------------------------------
(* Reference definitions. *)

\* The segments of an absolute path: what stands between its slashes.
Segments(path) ==
    LET cuts == {i \in DOMAIN path : path[i] = "/"}
        nth(k) == CHOOSE i \in cuts : Cardinality({j \in cuts : j <= i}) = k
    IN  [k \in 1 .. Cardinality(cuts) |->
            SubSeq(path, nth(k) + 1,
                   IF k = Cardinality(cuts) THEN Len(path) ELSE nth(k + 1) - 1)]

Dot == <<".">>
DotDot == <<".", ".">>

\* A stack of segments: ".." takes the last one off, "." does nothing, and a
\* path that ends in one of them ends in a slash.
Walk(segments) ==
    LET step(stack, s) == IF s = DotDot THEN IF stack = <<>> THEN stack ELSE Front(stack)
                          ELSE IF s = Dot THEN stack ELSE Append(stack, s)
        stack == FoldLeft(step, <<>>, segments)
    IN  IF Last(segments) \in {Dot, DotDot} THEN Append(stack, <<>>) ELSE stack

\* An absolute path without its dot segments, by the stack.
CleanPath(path) ==
    LET kept == Walk(Segments(path))
    IN  FoldLeft(LAMBDA acc, s : acc \o <<"/">> \o s, <<>>, kept)

---------------------------------------------------------------------------
(* The grammar in the comments of the parser, as a relation between a text   *)
(* and two positions: t[i .. j - 1] is derived.  With exact = FALSE it is    *)
(* the grammar with the three deviations of the code: a label may end in     *)
(* hyphens, a host may not end in a dot, a relative reference has no         *)
(* fragment.                                                                 *)

Only(t, i, j, set) == \A k \in i .. j - 1 : t[k] \in set

RECURSIVE Encoded(_, _, _, _)
Encoded(t, i, j, set) ==
    \/ i = j
    \/ i < j /\ t[i] \in set /\ Encoded(t, i + 1, j, set)
    \/ i + 2 < j /\ t[i] = "%" /\ Only(t, i + 1, i + 3, Hex) /\ Encoded(t, i + 3, j, set)
    \/ i + 5 < j /\ t[i] = "%" /\ t[i + 1] = "u" /\ Only(t, i + 2, i + 6, Hex)
       /\ Encoded(t, i + 6, j, set)

Label(t, i, j, first, exact) ==
    /\ i < j /\ t[i] \in first /\ Only(t, i, j, AlphaNum \cup {"-"})
    /\ \/ t[j - 1] \in AlphaNum
       \/ ~exact /\ \E k \in i + 1 .. j - 1 : t[k] \in AlphaNum

RECURSIVE HostName(_, _, _, _)
HostName(t, i, j, exact) ==
    \/ Label(t, i, j, Alpha, exact)
    \/ exact /\ i < j /\ t[j - 1] = "." /\ Label(t, i, j - 1, Alpha, exact)
    \/ \E k \in i + 1 .. j - 2 : /\ Label(t, i, k, AlphaNum, exact) /\ t[k] = "."
                                /\ HostName(t, k + 1, j, exact)

RECURSIVE Numbers(_, _, _, _)
Numbers(t, i, j, n) ==
    IF n = 1 THEN i < j /\ Only(t, i, j, Digit)
    ELSE \E k \in i + 1 .. j - 1 : /\ Only(t, i, k, Digit) /\ t[k] = "."
                                  /\ Numbers(t, k + 1, j, n - 1)

AnyHost(t, i, j, exact) == HostName(t, i, j, exact) \/ Numbers(t, i, j, 4)

AnyAuthority(t, i, j, exact) ==
    \E h \in i .. j, e \in i .. j :
        /\ h = i \/ (t[h - 1] = "@" /\ Encoded(t, i, h - 1, UserInfoSet))
        /\ h <= e /\ AnyHost(t, h, e, exact)
        /\ e = j \/ (t[e] = ":" /\ Only(t, e + 1, j, Digit))

\* *( "/" segment ): empty, or a slash and characters of segments.
PathAbEmpty(t, i, j) ==
    i = j \/ (t[i] = "/" /\ Encoded(t, i + 1, j, PcharSet \cup {"/"}))

PathFrom(t, i, j, first) ==
    \E k \in i + 1 .. j : Encoded(t, i, k, first) /\ PathAbEmpty(t, k, j)

UriPart(t, i, j, first, exact) ==
    \/ /\ j - i > 2 /\ t[i] = "/" /\ t[i + 1] = "/"
       /\ \E k \in i + 2 .. j : AnyAuthority(t, i + 2, k, exact) /\ PathAbEmpty(t, k, j)
    \/ i < j /\ t[i] = "/" /\ (i + 1 = j \/ PathFrom(t, i + 1, j, PcharSet))
    \/ i = j
    \/ PathFrom(t, i, j, first)

AfterMark(t, i, j, mark) ==
    i = j \/ (t[i] = mark /\ Encoded(t, i + 1, j, QueryOrFragmentSet))

Derived(t, exact) ==
    LET end == Len(t) + 1
        tail(i, first, fragment) ==
            \E q \in i .. end : \E f \in q .. end :
                /\ UriPart(t, i, q, first, exact) /\ AfterMark(t, q, f, "?")
                /\ IF fragment THEN AfterMark(t, f, end, "#") ELSE f = end
    IN  \/ \E c \in 2 .. Len(t) : /\ t[1] \in Alpha /\ Only(t, 1, c, SchemeSet) /\ t[c] = ":"
                                 /\ tail(c + 1, PcharSet, TRUE)
        \/ tail(1, SegmentNcSet, exact)

---------------------------------------------------------------------------
(* Properties. *)

\* What URI::Parse accepts, URI::ToString writes back character by character
\* (the round trip of BatchTest in uri_test.cpp), although matchers that fail
\* half-way leave their traces in the URI object; and normalising twice is
\* normalising once, on a URI that still parses to itself.
TextComesBack(t) ==
    \A p \in {Parse(t)} :
        p.ok => /\ UriToString(p.uri) = t
                /\ \A n \in {Normalize(p.uri)} :
                       Normalize(n) = n /\ Parse(UriToString(n)) = [ok |-> TRUE, uri |-> n]

\* A reference resolved against a base with an absolute path: the path has no
\* dot segment left and is the one a stack of segments gives; resolving the
\* result again changes nothing; and the text of the result parses to the
\* result, except where RFC 3986 itself is ambiguous (no authority and a path
\* that begins with two slashes).
ResolvesAgainst(ref, base) ==
    \A path \in {IF ref.hasAuthority \/ ref.scheme \notin {<<>>, base.scheme}
                     \/ IsPrefix(<<"/">>, ref.path)
                  THEN ref.path ELSE MergePath(base.hasAuthority, base.path, ref.path)},
       r \in {Merge(ref, base, FALSE)} :
            /\ ref.path # <<>> /\ IsPrefix(<<"/">>, path) => r.path = CleanPath(path)
            /\ Merge(r, base, FALSE) = r
            /\ r.hasAuthority \/ ~IsPrefix(<<"/", "/">>, r.path) =>
                    Parse(UriToString(r)) = [ok |-> TRUE, uri |-> r]

\* The parser takes each alternative greedily and goes back at most one rule;
\* it accepts exactly the texts its grammar derives all the same, but for the
\* three deviations.
UriAgrees ==
    /\ Parse(uri_text).ok <=> Derived(uri_text, FALSE)
    /\ TextComesBack(uri_text)
    /\ \A p \in {Parse(uri_text)}, b \in Bases :
           p.ok => ResolvesAgainst(p.uri, Parse(b).uri)

-----------------------------------------------------------------------------
(***************************************************************************)
(* QueryParams (net/uri/query_params.cpp): the parameters of a query, with *)
(* repeated names, read from and written to its text.  Characters are the  *)
(* bytes of PercentEncoding, two of which separate parameters and end      *)
(* names.                                                                  *)
(***************************************************************************)
CONSTANTS
  HexBase,      \* of the percent encoding
  Names,        \* names and values callers use
  Values,
  MaxParams,    \* bound on the number of parameters
  MaxQuery      \* bound on the length of a text

VARIABLES
  params,       \* m_params
  query_text         \* the text that is to be parsed next

query_params_vars == <<params, query_text>>

Percents == INSTANCE PercentEncoding WITH input <- query_text, after <- 0, MaxInput <- MaxQuery
Strings  == INSTANCE StringAlgorithm
              WITH full <- query_text, delim <- query_text, Char <- {}, MaxFull <- 0, MaxDelim <- 0

Equal     == HexBase + 4
Ampersand == HexBase + 5

\* The index of the first parameter with the name, or 0.
Find(p, name) == SelectInSeq(p, LAMBDA e: e.name = name)

Add(p, name, value) == Append(p, [name |-> name, value |-> value])

Set(p, name, value) ==
  IF Find(p, name) # 0 THEN [p EXCEPT ![Find(p, name)].value = value] ELSE Add(p, name, value)

RemoveParam(p, name) == IF Find(p, name) # 0 THEN RemoveAt(p, Find(p, name)) ELSE p

GetOrDefaultValue(p, name, default) == IF Find(p, name) # 0 THEN p[Find(p, name)].value ELSE default

\* The parameters that stand before one whose value cannot be decoded are kept,
\* and the value as far as it was overwritten.
QueryParse(text) ==
  LET Param(piece) ==
        LET pos == SelectInSeq(piece, LAMBDA c: c = Equal)
            decoded == Percents!DecodeInPlace(SubSeq(piece, pos + 1, Len(piece)))
        IN IF pos = 0 THEN [ok |-> TRUE, param |-> [name |-> piece, value |-> <<>>]]
           ELSE [ok |-> decoded.ok,
                 param |-> [name |-> SubSeq(piece, 1, pos - 1), value |-> decoded.out]]
      Step(r, piece) == IF ~r.ok THEN r
                        ELSE [ok |-> Param(piece).ok, params |-> Append(r.params, Param(piece).param)]
  IN FoldLeft(Step, [ok |-> TRUE, params |-> <<>>], Strings!SplitString(text, <<Ampersand>>))

\* Faulty: values are not encoded.
AppendToStringRaw(p) ==
  FoldLeftDomain(
    LAMBDA text, i:
      IF p[i].name = <<>> THEN text
      ELSE text \o p[i].name \o <<Equal>> \o p[i].value
                \o (IF i # Len(p) THEN <<Ampersand>> ELSE <<>>),
    <<>>, p)

\* A parameter without a name is left out; the separator follows every other one
\* but the last of all.
AppendToString(p) ==
  FoldLeftDomain(
    LAMBDA text, i:
      IF p[i].name = <<>> THEN text
      ELSE text \o p[i].name \o <<Equal>> \o Percents!DoEncodeAppend(p[i].value, "query")
                \o (IF i # Len(p) THEN <<Ampersand>> ELSE <<>>),
    <<>>, p)

-----------------------------------------------------------------------------
\* Parse clears the parameters, so a text is only typed while there are none.
QueryInit == params = <<>> /\ query_text = <<>>

DoParse  == params' = QueryParse(query_text).params /\ query_text' = <<>>
DoAdd    == /\ query_text = <<>> /\ Len(params) < MaxParams
            /\ \E n \in Names, v \in Values: params' = Add(params, n, v)
            /\ UNCHANGED query_text
DoSet    == /\ query_text = <<>> /\ Len(params) < MaxParams
            /\ \E n \in Names, v \in Values: params' = Set(params, n, v)
            /\ UNCHANGED query_text
DoRemove == query_text = <<>> /\ (\E n \in Names: params' = RemoveParam(params, n)) /\ UNCHANGED query_text
Type     == /\ params = <<>> /\ Len(query_text) < MaxQuery
            /\ \E c \in {1, HexBase} \cup HexBase + 1 .. HexBase + 5: query_text' = Append(query_text, c)
            /\ UNCHANGED params

QueryNext == DoParse \/ DoAdd \/ DoSet \/ DoRemove \/ Type
QuerySpec == QueryInit /\ [][QueryNext]_query_params_vars
-----------------------------------------------------------------------------
PlusAsSpace(v) == [i \in DOMAIN v |-> IF v[i] = Percents!Plus THEN Percents!Space ELSE v[i]]

\* However the parameters came about, their text parses, to the parameters that
\* have a name, in their order and with repeated names, except that a '+' in a
\* value comes back as a blank; so the value found under a name is the same.
QueryComesBack ==
  \A back \in {QueryParse(AppendToString(params))}:
    /\ back.ok
    /\ back.params = LET named == SelectSeq(params, LAMBDA e: e.name # <<>>)
                     IN [i \in DOMAIN named |-> [named[i] EXCEPT !.value = PlusAsSpace(@)]]
    /\ \A n \in Names \ {<<>>}:
         GetOrDefaultValue(back.params, n, <<>>) = PlusAsSpace(GetOrDefaultValue(params, n, <<>>))
=============================================================================
