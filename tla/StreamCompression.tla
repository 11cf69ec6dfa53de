------------------------- MODULE StreamCompression -------------------------
(***************************************************************************)
(* StreamCompression and the block compressions behind it (compress/block):*)
(* one object cuts what was added to it into segments and writes each with *)
(* a header of two numbers, the other one is given that stream in pieces   *)
(* that end anywhere, and takes the whole segments off it.  Every call has *)
(* the lock of its object, so it is one step.  A compressed block is a     *)
(* first byte that stands for its content and more bytes up to a length    *)
(* that the library chooses.  A number of four bytes is one byte here.     *)
(***************************************************************************)
EXTENDS Integers, Sequences

CONSTANTS
  segment_size,             \* bytes that are compressed at a time
  kInitBuffSize,            \* first size of the buffers of LzoCompression
  LzoSlack,                 \* bytes that lzo may need beyond the length
  max_unCompressed_size_,   \* limit of the buffer that LzoCompression uncompresses to
  BlockSizes,               \* lengths of compressed blocks
  MaxAdded                  \* bound on the bytes that are added

VARIABLES
  name,       \* the algorithm of both objects
  m_buffer,   \* of the object that compresses and of the one that uncompresses
  codec,      \* the state of their BlockCompression
  m_err,      \* of the object that uncompresses
  added,      \* history: number of bytes that were added, which are 1, 2, ...
  wire,       \* what was compressed and not delivered yet
  received,   \* history: what was uncompressed
  returned    \* result of the last Uncompress, "none" since the last AddBuffer

stream_vars == <<name, m_buffer, codec, m_err, added, wire, received, returned>>

Data(x) == <<"data", x>>
PutFixed32(value) == <<"number", value>>
GetFixed32(byte) == IF byte[1] = "number" THEN byte[2] ELSE 0
HEADER_SIZE == 2
Largest(a, b) == IF a < b THEN b ELSE a

\* What a library makes of raw, and what it reads back from such a block alone.
Compressed(raw, n) == <<<<"block", raw, n>>>> \o [i \in 1 .. n - 1 |-> <<"more">>]
IsBlock(bytes) == bytes # <<>> /\ bytes[1][1] = "block" /\ bytes = Compressed(bytes[1][2], bytes[1][3])

Result(ok, out, c) == [ok |-> ok, out |-> out, codec |-> c]
-----------------------------------------------------------------------------
\* CheckDeflateStream, CheckInflateStream: only making a stream can fail.
CheckStream(stream, fails) == stream # "null" \/ ~fails

\* A stream of zlib is made for the first call and never reset.  What it is given behind its
\* end is refused by deflate, and leaves inflate at its end without output.
GzipCompress(c, raw, n, fails) ==
  LET size == Largest(c.deflat_buffer_size, Len(raw))
  IN IF ~CheckStream(c.deflate, fails) THEN Result(FALSE, <<>>, c)
     ELSE Result(c.deflate = "null" /\ n <= size,
                 IF c.deflate = "null" /\ n <= size THEN Compressed(raw, n) ELSE <<>>,
                 [c EXCEPT !.deflate = "finished", !.deflat_buffer_size = size])

GzipUncompress(c, bytes, fails) ==
  LET size == Largest(c.inflat_buffer_size, 3 * Len(bytes))
      given == [c EXCEPT !.inflat_buffer_size = size]
  IN CASE ~CheckStream(c.inflate, fails) -> Result(FALSE, <<>>, c)
       [] CheckStream(c.inflate, fails) /\ c.inflate = "null" ->
            IF IsBlock(bytes) /\ Len(bytes[1][2]) <= size
            THEN Result(TRUE, bytes[1][2], [given EXCEPT !.inflate = "finished"])
            ELSE Result(FALSE, <<>>, [given EXCEPT !.inflate = "bad"])
       [] c.inflate = "finished" -> Result(TRUE, <<>>, given)
       [] c.inflate = "bad" -> Result(FALSE, <<>>, given)

\* The buffer is doubled once, if that is enough or not.
LzoCompress(c, raw, n) ==
  LET outsize == Len(raw) + Len(raw) \div 16 + LzoSlack
      size == IF c.c_buff_size_ < outsize THEN 2 * c.c_buff_size_ ELSE c.c_buff_size_
  IN Result(TRUE, Compressed(raw, n),
            [c EXCEPT !.c_buff_size_ = size, !.short = @ + (IF size < outsize THEN 1 ELSE 0)])

RECURSIVE LzoUncompress(_, _)
LzoUncompress(c, bytes) ==
  IF ~IsBlock(bytes) THEN Result(FALSE, <<>>, c)
  ELSE IF Len(bytes[1][2]) <= c.un_buff_size_ THEN Result(TRUE, bytes[1][2], c)
  ELSE IF c.un_buff_size_ >= max_unCompressed_size_ THEN Result(FALSE, <<>>, c)
  ELSE LzoUncompress([c EXCEPT !.un_buff_size_ = 2 * @], bytes)

SnappyCompress(c, raw, n) == Result(TRUE, Compressed(raw, n), c)
SnappyUncompress(c, bytes) == Result(IsBlock(bytes), IF IsBlock(bytes) THEN bytes[1][2] ELSE <<>>, c)

DoCompress(c, raw, n, fails) ==
  CASE name = "gzip" -> GzipCompress(c, raw, n, fails)
    [] name = "lzo" -> LzoCompress(c, raw, n)
    [] name = "snappy" -> SnappyCompress(c, raw, n)

DoUncompress(c, bytes, fails) ==
  CASE name = "gzip" -> GzipUncompress(c, bytes, fails)
    [] name = "lzo" -> LzoUncompress(c, bytes)
    [] name = "snappy" -> SnappyUncompress(c, bytes)
-----------------------------------------------------------------------------
\* The constructor takes "none" for a name that is not registered.
Created(asked) == IF asked \in {"gzip", "lzo", "snappy"} THEN asked ELSE "none"

Init ==
  /\ name \in {Created(asked): asked \in {"gzip", "lzo", "snappy", "bzip"}}
  /\ m_buffer = [out |-> <<>>, in |-> <<>>]
  /\ codec = [o \in {"out", "in"} |->
                [deflate |-> "null", inflate |-> "null", deflat_buffer_size |-> 0, inflat_buffer_size |-> 0,
                 c_buff_size_ |-> kInitBuffSize, un_buff_size_ |-> kInitBuffSize, short |-> 0]]
  /\ m_err = "" /\ added = 0 /\ wire = <<>> /\ received = <<>> /\ returned = "none"

\* Faulty: what was added before is dropped.
AddBufferAssigns(o, buffer) ==
  m_buffer' = IF name = "none" THEN m_buffer ELSE [m_buffer EXCEPT ![o] = buffer]

\* "none" keeps nothing of what is added.
AddBuffer(o, buffer) ==
  m_buffer' = IF name = "none" THEN m_buffer ELSE [m_buffer EXCEPT ![o] = @ \o buffer]

Add(n) ==
  /\ added + n <= MaxAdded
  /\ AddBuffer("out", [i \in 1 .. n |-> Data(added + i)])
  /\ added' = added + n
  /\ UNCHANGED <<name, codec, m_err, wire, received, returned>>

\* The segments of the rest, compressed to sizes, behind out.
RECURSIVE Segments(_, _, _, _, _)
Segments(rest, sizes, fails, c, out) ==
  IF rest = <<>> THEN Result(TRUE, out, c)
  ELSE LET raw_len == IF Len(rest) < segment_size THEN Len(rest) ELSE segment_size
           done == DoCompress(c, SubSeq(rest, 1, raw_len), Head(sizes), fails)
       IN IF ~done.ok THEN done
          ELSE Segments(SubSeq(rest, raw_len + 1, Len(rest)), Tail(sizes), fails, done.codec,
                        out \o <<PutFixed32(raw_len), PutFixed32(Len(done.out))>> \o done.out)

Compress(sizes, fails) ==
  /\ IF name = "none" THEN m_buffer' = [m_buffer EXCEPT !.out = <<>>] /\ wire' = wire \o m_buffer.out /\ UNCHANGED codec
     ELSE \E done \in {Segments(m_buffer.out, sizes, fails, codec.out, <<>>)}:
            /\ codec' = [codec EXCEPT !.out = done.codec]
            /\ IF done.ok THEN m_buffer' = [m_buffer EXCEPT !.out = <<>>] /\ wire' = wire \o done.out
               ELSE UNCHANGED <<m_buffer, wire>>
  /\ UNCHANGED <<name, m_err, added, received, returned>>

\* The other object is given the next n bytes of the stream.
Deliver(n) ==
  /\ n <= Len(wire)
  /\ AddBuffer("in", SubSeq(wire, 1, n))
  /\ wire' = SubSeq(wire, n + 1, Len(wire))
  /\ returned' = "none"
  /\ UNCHANGED <<name, codec, m_err, added, received>>

Consumed(raw_len) == raw_len + HEADER_SIZE

Failed(err, c) == [ok |-> FALSE, out |-> <<>>, consumed |-> 0, err |-> err, codec |-> c]

UncompressPrefix(c, buffer, fails) ==
  IF Len(buffer) < HEADER_SIZE THEN Failed("string too small", c)
  ELSE LET uncompressed_len == GetFixed32(buffer[1])
           raw_len == GetFixed32(buffer[2])
           done == DoUncompress(c, SubSeq(buffer, HEADER_SIZE + 1, HEADER_SIZE + raw_len), fails)
       IN CASE HEADER_SIZE + raw_len > Len(buffer) -> Failed("parse header fail", c)
            [] HEADER_SIZE + raw_len <= Len(buffer) /\ ~done.ok -> Failed("uncompress fail", done.codec)
            [] HEADER_SIZE + raw_len <= Len(buffer) /\ done.ok /\ uncompressed_len # Len(done.out) ->
                 Failed("uncompress len not matched", done.codec)
            [] OTHER -> [ok |-> TRUE, out |-> done.out, consumed |-> Consumed(raw_len), err |-> "", codec |-> done.codec]

\* The segments that were found so far, and the rest of the buffer.
RECURSIVE Prefixes(_, _)
Prefixes(found, fails) ==
  IF found.rest = <<>> THEN found
  ELSE LET one == UncompressPrefix(found.codec, found.rest, fails)
       IN IF ~one.ok THEN [found EXCEPT !.err = one.err, !.codec = one.codec]
          ELSE Prefixes([segments |-> found.segments + 1, out |-> found.out \o one.out, err |-> "", codec |-> one.codec,
                         rest |-> SubSeq(found.rest, one.consumed + 1, Len(found.rest))], fails)

Uncompress(fails) ==
  /\ IF name = "none"
     THEN /\ received' = received \o m_buffer.in /\ m_buffer' = [m_buffer EXCEPT !.in = <<>>]
          /\ returned' = "true" /\ UNCHANGED <<m_err, codec>>
     ELSE \E found \in {Prefixes([segments |-> 0, out |-> <<>>, err |-> m_err, codec |-> codec.in, rest |-> m_buffer.in], fails)}:
            /\ codec' = [codec EXCEPT !.in = found.codec]
            /\ m_err' = found.err
            /\ IF found.segments = 0 THEN returned' = "false" /\ UNCHANGED <<received, m_buffer>>
               ELSE /\ returned' = "true"
                    /\ received' = received \o found.out
                    /\ m_buffer' = [m_buffer EXCEPT !.in = found.rest]
  /\ UNCHANGED <<name, added, wire>>

Next ==
  \/ \E n \in 0 .. MaxAdded: Add(n)
  \/ \E sizes \in [1 .. 1 + MaxAdded \div segment_size -> BlockSizes], fails \in BOOLEAN: Compress(sizes, fails)
  \/ \E n \in 1 .. Len(wire): Deliver(n)
  \/ \E fails \in BOOLEAN: Uncompress(fails)

Spec == Init /\ [][Next]_stream_vars
-----------------------------------------------------------------------------
\* The content of whole segments, and the content of a stream of them.
RECURSIVE Content(_)
Content(bytes) ==
  IF bytes = <<>> THEN <<>>
  ELSE bytes[3][2] \o Content(SubSeq(bytes, HEADER_SIZE + bytes[2][2] + 1, Len(bytes)))

Complete(bytes) == Len(bytes) >= HEADER_SIZE /\ Len(bytes) >= HEADER_SIZE + bytes[2][2]

\* With any algorithm but "none", nothing that was added is lost, repeated or moved, whatever
\* calls fail and wherever the pieces end: it has been uncompressed, is in a segment of
\* the stream, or still to be compressed.  Uncompress leaves no whole segment behind, but for
\* gzip, whose streams work once; false means that there was none and that the reason is set.
\* Of the buffers for lzo at most one was below what lzo may write.
StreamComesBack ==
  name # "none" =>
    /\ received \o Content(m_buffer.in \o wire) \o m_buffer.out = [i \in 1 .. added |-> Data(i)]
    /\ returned # "none" /\ name # "gzip" => ~Complete(m_buffer.in)
    /\ returned = "false" /\ m_buffer.in # <<>> => m_err # ""
    /\ codec.out.short <= 1
=============================================================================
