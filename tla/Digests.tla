------------------------------ MODULE Digests -------------------------------
(***************************************************************************)
(* Functions of a sequence of bytes: the hash functions, the message       *)
(* digests and the checksum.                                               *)
(***************************************************************************)
EXTENDS Integers, Sequences, SequencesExt, Bitwise

(***************************************************************************)
(* The hash functions (hash/murmur, super_fast.cpp, fingerprint32.cpp,     *)
(* jenkins.cpp): how each of them walks over its key.  What a mix does to  *)
(* its words is left uninterpreted: a hash is the sequence of the words    *)
(* that were mixed into it.  The i-th byte of the key is the number i, a   *)
(* byte of a register that nothing was read into is 0, and a word is the   *)
(* sequence of its bytes, the lowest first.                                *)
(***************************************************************************)
CONSTANT MaxKey       \* bound on the length of a key

VARIABLES
  len,                \* the length of the key
  align,              \* its address modulo 4
  big                 \* whether the machine is big-endian

hash_vars == <<len, align, big>>

\* The bytes from p on, shifted to their places one by one.
Shifted(p, n, size) == [i \in 1 .. size |-> IF i <= n THEN p + i ELSE 0]

\* A word that is read as such.
Load(p, size) == IF big THEN Reverse(Shifted(p, size, size)) ELSE Shifted(p, size, size)

ShiftLeft(w, n) == [i \in DOMAIN w |-> IF i > n THEN w[i - n] ELSE 0]
ShiftRight(w, n) == [i \in DOMAIN w |-> IF i + n <= Len(w) THEN w[i + n] ELSE 0]
OrWords(v, w) == [i \in DOMAIN v |-> v[i] + w[i]]

Mix(w) == <<"mix", w>>
XorWords(w) == <<"xor", w>>
Feed(op, ws) == <<op>> \o ws
TailOf(size) == len - (len % size)

\* The last bytes, if any, are combined with the hash itself.
XorTail(p, n) == IF n = 0 THEN <<>> ELSE <<XorWords(Shifted(p, n, 4))>>

MurmurHash2 ==
  [i \in 1 .. len \div 4 |-> Mix(Load(4 * (i - 1), 4))] \o XorTail(TailOf(4), len % 4)

MurmurHashNeutral2 ==
  [i \in 1 .. len \div 4 |-> Mix(Shifted(4 * (i - 1), 4, 4))] \o XorTail(TailOf(4), len % 4)

\* The tail and the length are mixed in as words of their own.
MurmurHash2A ==
  [i \in 1 .. len \div 4 |-> Mix(Load(4 * (i - 1), 4))]
    \o <<Mix(Shifted(TailOf(4), len % 4, 4)), Mix(<<len>>)>>

\* The words of an unaligned key are put together from aligned ones: t holds what
\* was read and not used yet.
RECURSIVE AlignedBody(_, _, _)
AlignedBody(h, t, p) ==
  IF len - p < 4 THEN [h |-> h, t |-> t, p |-> p]
  ELSE LET d == Load(p, 4) IN
       AlignedBody(Append(h, Mix(OrWords(ShiftRight(t, align), ShiftLeft(d, 4 - align)))), d, p + 4)

\* Faulty: a rest that is just enough for a word is taken for the tail.
AlignedRestStrict(t, p) ==
  LET left == len - p IN
  IF left > align
  THEN <<Mix(OrWords(ShiftRight(t, align), ShiftLeft(Shifted(p, align, 4), 4 - align)))>>
         \o XorTail(p + align, left - align)
  ELSE <<XorWords(OrWords(ShiftRight(t, align), ShiftLeft(Shifted(p, left, 4), 4 - align)))>>
AlignedRest(t, p) ==
  LET left == len - p IN
  IF left >= align
  THEN <<Mix(OrWords(ShiftRight(t, align), ShiftLeft(Shifted(p, align, 4), 4 - align)))>>
         \o XorTail(p + align, left - align)
  ELSE <<XorWords(OrWords(ShiftRight(t, align), ShiftLeft(Shifted(p, left, 4), 4 - align)))>>

MurmurHashAligned2 ==
  IF align = 0 \/ len < 4 THEN MurmurHash2
  ELSE LET first == ShiftLeft(Shifted(0, 4 - align, 4), align)
           body == AlignedBody(<<>>, first, 4 - align)
       IN body.h \o AlignedRest(body.t, body.p)

MurmurHash64A ==
  [i \in 1 .. len \div 8 |-> Mix(Load(8 * (i - 1), 8))]
    \o (IF len % 8 = 0 THEN <<>> ELSE <<XorWords(Shifted(TailOf(8), len % 8, 8))>>)

\* Two hashes that take the words in turn; the tail is always for the second.
MurmurHash64B ==
  LET word(i) == <<"mix", IF i % 2 = 1 THEN 1 ELSE 2, Load(4 * (i - 1), 4)>>
  IN [i \in 1 .. len \div 4 |-> word(i)]
       \o (IF len % 4 = 0 THEN <<>> ELSE <<<<"xor", 2, Shifted(TailOf(4), len % 4, 4)>>>>)

\* bmix of a block of n words of size bytes.
Block(p, n, size) == Feed("bmix", [k \in 1 .. n |-> Load(p + size * (k - 1), size)])

\* The last block, its words filled with zeros.
LastBlock(p, n, size) ==
  IF len = p THEN <<>>
  ELSE LET left(k) == LET l == len - p - (size * (k - 1)) IN IF l < 0 THEN 0 ELSE IF l > size THEN size ELSE l
       IN <<Feed("bmix", [k \in 1 .. n |-> Shifted(p + size * (k - 1), left(k), size)])>>

\* The blocks are counted from the last to the end, by negative indices.
MurmurHash3_x86_32 ==
  LET blocks == TailOf(4)
      n == len \div 4
  IN [i \in 1 .. n |-> Block(blocks + 4 * (i - 1 - n), 1, 4)] \o LastBlock(blocks, 1, 4)

MurmurHash3_x86_64 ==
  LET blocks == TailOf(8)
      n == len \div 8
  IN [i \in 1 .. n |-> Block(blocks + 8 * (i - 1 - n), 2, 4)] \o LastBlock(blocks, 2, 4)

MurmurHash3_x86_128 ==
  [i \in 1 .. len \div 16 |-> Block(16 * (i - 1), 4, 4)] \o LastBlock(TailOf(16), 4, 4)

MurmurHash3_x64_128 ==
  [i \in 1 .. len \div 16 |-> Block(16 * (i - 1), 2, 8)] \o LastBlock(TailOf(16), 2, 8)

\* Twelve bytes at a time; the lowest byte of the last word makes room for the length.
Fingerprint32WithSeed ==
  LET p == TailOf(12)
      left == len - p
      part(from, n) == IF left < from THEN 0 ELSE IF left > from + n THEN n ELSE left - from
  IN [i \in 1 .. len \div 12 |-> Feed("bmix", [k \in 1 .. 3 |-> Shifted(12 * (i - 1) + 4 * (k - 1), 4, 4)])]
       \o <<Feed("bmix", <<Shifted(p, part(0, 4), 4), Shifted(p + 4, part(4, 4), 4),
                           ShiftLeft(Shifted(p + 8, part(8, 3), 4), 1)>>)>>

Get16bits(p) == Shifted(p, 2, 2)

SuperFastHash ==
  LET p == TailOf(4)
      rem == CASE len % 4 = 3 -> <<Get16bits(p), <<p + 3>>>>
               [] len % 4 = 2 -> <<Get16bits(p)>>
               [] len % 4 = 1 -> <<<<p + 1>>>>
               [] OTHER -> <<>>
  IN [i \in 1 .. 2 * (len \div 4) |-> Get16bits(2 * (i - 1))] \o rem

JenkinsOneAtATimeHash == [i \in 1 .. len |-> <<i>>]

Init == len = 0 /\ align \in 0 .. 3 /\ big \in BOOLEAN
Next == len < MaxKey /\ len' = len + 1 /\ UNCHANGED <<align, big>>
Spec == Init /\ [][Next]_hash_vars
-----------------------------------------------------------------------------
Key == [i \in 1 .. len |-> i]
Fed(ws) == SelectSeq(FlattenSeq(ws), LAMBDA b: b # 0)
WordsOf(h) == [i \in DOMAIN h |-> h[i][Len(h[i])]]
BlocksOf(h) == FlattenSeq([i \in DOMAIN h |-> Tail(h[i])])

\* The variants of MurmurHash2 are one function on a little-endian machine, whatever
\* the address of the key, and the neutral one is it on every machine.  Each hash is
\* given every byte of the key once, in order, and nothing behind its end: no step of
\* the loops, of the fall-through of the tails and of the counting from the end is off.
HashesReadTheKey ==
  /\ ~big => MurmurHash2 = MurmurHashNeutral2 /\ MurmurHashAligned2 = MurmurHashNeutral2
  /\ Fed(WordsOf(MurmurHashNeutral2)) = Key
  /\ ~big =>
       /\ Fed(WordsOf(SubSeq(MurmurHash2A, 1, Len(MurmurHash2A) - 1))) = Key
       /\ Fed(WordsOf(MurmurHash64A)) = Key
       /\ Fed(WordsOf(MurmurHash64B)) = Key
       /\ \A h \in {MurmurHash3_x86_32, MurmurHash3_x86_64, MurmurHash3_x86_128, MurmurHash3_x64_128}:
            Fed(BlocksOf(h)) = Key
  /\ Fed(BlocksOf(Fingerprint32WithSeed)) = Key
  /\ Fed(SuperFastHash) = Key
  /\ Fed(JenkinsOneAtATimeHash) = Key

-----------------------------------------------------------------------------
(***************************************************************************)
(* MD5 and SHA1 (crypto/hash/md5.cpp, sha1.cpp): a message given to Update *)
(* in pieces of any size, cut into blocks, padded and counted.  What a     *)
(* block does to the state is left uninterpreted: the state is the         *)
(* sequence of the blocks that were transformed.  A block has BlockSize    *)
(* bytes instead of 64, the last CountSize of them for the two words of    *)
(* the count of bits, each of which is one byte here and wraps at Word.    *)
(***************************************************************************)
CONSTANTS
  BlockSize,
  Word,               \* 2^32: the words of the count and the length of MD5::Update
  PieceSizes,         \* the sizes of the pieces, below Word
  MaxMessage          \* bound on the length of a message

CountSize == 2

VARIABLES
  algorithm,          \* "md5" or "sha1"
  context_,
  message,            \* the number of bytes given since Init
  digest_result,             \* what the two forms of Final give
  damaged             \* history: the sizes of the pieces that a transform wrote into

digest_vars == <<algorithm, context_, message, digest_result, damaged>>

\* Byte i of a message is i, the byte 0x80 is -1, and a byte never written is -2.
\* A count v is the byte -10 - v.
CountByte(v) == -10 - v
Zeros(n) == [i \in 1 .. n |-> 0]
Piece(n) == [i \in 1 .. n |-> message + i]

InitContext == [state |-> <<>>, count |-> <<0, 0>>, buffer |-> [i \in 1 .. BlockSize |-> -2]]

\* memcpy into the buffer behind its first n bytes.
Fill(buffer, n, data) ==
  [i \in 1 .. BlockSize |-> IF i > n /\ i <= n + Len(data) THEN data[i - n] ELSE buffer[i]]

Used(count) == (count[1] \div 8) % BlockSize

\* The count of bits in two words, MD5's way and SHA1's.
MD5CountNoCarry(count, n) == <<(count[1] + (8 * n)) % Word, (count[2] + (8 * n) \div Word) % Word>>
MD5Count(count, n) ==
  LET low == (count[1] + (8 * n)) % Word
      carry == IF low < count[1] THEN 1 ELSE 0
  IN <<low, (count[2] + carry + ((8 * n) \div Word)) % Word>>

SHA1Count(count, n) ==
  LET added == (8 * n) % Word
      low == (count[1] + added) % Word
      carry == IF low < added THEN 1 ELSE 0
  IN <<low, (count[2] + carry + ((8 * n) \div Word)) % Word>>

\* What the rounds do to a block is left uninterpreted.
MD5Transform(state, block) == Append(state, block)
SHA1Transform(state, block) == Append(state, block)

\* The blocks that lie whole within data, from its byte from + 1 on.
WholeBlocks(data, from) ==
  [k \in 1 .. (Len(data) - from) \div BlockSize |->
     SubSeq(data, from + 1 + (BlockSize * (k - 1)), from + (BlockSize * k))]

\* The size of a piece is cut to 32 bits.  The buffer that has bytes of earlier
\* pieces is completed first.
MD5Update(ctx, piece) ==
  LET data == SubSeq(piece, 1, Len(piece) % Word)
      t == Used(ctx.count)
      first == IF t = 0 THEN 0 ELSE BlockSize - t
      count == MD5Count(ctx.count, Len(data))
      whole == WholeBlocks(data, first)
      started == Fill(ctx.buffer, t, SubSeq(data, 1, first))
      buffer == IF whole # <<>> THEN whole[Len(whole)] ELSE IF t = 0 THEN ctx.buffer ELSE started
  IN IF t # 0 /\ Len(data) < first
     THEN [ctx EXCEPT !.count = count, !.buffer = Fill(@, t, data)]
     ELSE [state |-> (IF t = 0 THEN ctx.state ELSE MD5Transform(ctx.state, started)) \o whole,
           count |-> count,
           buffer |-> Fill(buffer, 0, SubSeq(data, first + 1 + (BlockSize * Len(whole)), Len(data)))]

\* The first block is completed in the buffer, the next are transformed where they
\* are, and the rest is copied.
SHA1Update(ctx, data) ==
  LET index == Used(ctx.count)
      i == BlockSize - index
      count == SHA1Count(ctx.count, Len(data))
      whole == WholeBlocks(data, i)
      started == Fill(ctx.buffer, index, SubSeq(data, 1, i))
  IN IF index + Len(data) < BlockSize
     THEN [ctx EXCEPT !.count = count, !.buffer = Fill(@, index, data)]
     ELSE [state |-> SHA1Transform(ctx.state, started) \o whole,
           count |-> count,
           buffer |-> Fill(started, 0, SubSeq(data, i + 1 + (BlockSize * Len(whole)), Len(data)))]

\* SHA1Transform expands a block in place: those that lie within the data of the caller
\* are changed there.
Damages(n) ==
  algorithm = "sha1" /\ WholeBlocks(Piece(n), BlockSize - Used(context_.count)) # <<>>

\* One byte of padding, then zeros to the place of the count, in this block or in the
\* next one.
MD5Final(ctx) ==
  LET used == Used(ctx.count)
      free == BlockSize - 1 - used
      bits == <<CountByte(ctx.count[1]), CountByte(ctx.count[2])>>
      marked == Fill(ctx.buffer, used, <<-1>>)
      full == Fill(marked, used + 1, Zeros(free))
      last == IF free < CountSize THEN Fill(full, 0, Zeros(BlockSize - CountSize))
              ELSE Fill(marked, used + 1, Zeros(free - CountSize))
      before == IF free < CountSize THEN MD5Transform(ctx.state, full) ELSE ctx.state
      block == Fill(last, BlockSize - CountSize, bits)
  IN [ctx EXCEPT !.state = MD5Transform(before, block), !.buffer = block]

\* The padding goes through Update, byte by byte.
RECURSIVE SHA1Pad(_)
SHA1Pad(ctx) == IF Used(ctx.count) = BlockSize - CountSize THEN ctx ELSE SHA1Pad(SHA1Update(ctx, <<0>>))

SHA1Final(ctx) ==
  SHA1Update(SHA1Pad(SHA1Update(ctx, <<-1>>)), <<CountByte(ctx.count[2]), CountByte(ctx.count[1])>>)

Updated(ctx, data) == IF algorithm = "md5" THEN MD5Update(ctx, data) ELSE SHA1Update(ctx, data)
Finished(ctx) == IF algorithm = "md5" THEN MD5Final(ctx) ELSE SHA1Final(ctx)

\* Final(void* digest), which HexFinal encodes: the whole state.
\* Final() of MD5: its second half is read behind the state, from the buffer.
Returned(ctx) ==
  [digest |-> ctx.state, bottom |-> IF algorithm = "md5" THEN ctx.buffer ELSE <<>>]

None == [digest |-> <<>>, bottom |-> <<>>]

DigestInit ==
  /\ algorithm \in {"md5", "sha1"}
  /\ context_ = InitContext
  /\ message = 0
  /\ digest_result = None
  /\ damaged = {}

Update ==
  /\ digest_result = None
  /\ \E n \in PieceSizes:
       /\ message + n <= MaxMessage
       /\ context_' = Updated(context_, Piece(n))
       /\ message' = message + n
       /\ damaged' = IF Damages(n) THEN damaged \cup {n} ELSE damaged
  /\ UNCHANGED <<algorithm, digest_result>>

Final ==
  /\ digest_result = None
  /\ context_' = Finished(context_)
  /\ digest_result' = Returned(context_')
  /\ UNCHANGED <<algorithm, message, damaged>>

\* The object is used again.
InitAgain ==
  /\ digest_result # None
  /\ context_' = [InitContext EXCEPT !.buffer = context_.buffer]
  /\ message' = 0
  /\ digest_result' = None
  /\ damaged' = {}
  /\ UNCHANGED algorithm

DigestNext == Update \/ Final \/ InitAgain

DigestSpec == DigestInit /\ [][DigestNext]_digest_vars
-----------------------------------------------------------------------------
\* The message as the standards pad it: its bytes, 0x80, as few zeros as make room for
\* the count in the last block, the count of bits.
Padded(n) ==
  LET zeros == CHOOSE z \in 0 .. BlockSize - 1: (n + 1 + z + CountSize) % BlockSize = 0
      low == (8 * n) % Word
      high == ((8 * n) \div Word) % Word
  IN [i \in 1 .. n |-> i] \o <<-1>> \o Zeros(zeros)
       \o (IF algorithm = "md5" THEN <<CountByte(low), CountByte(high)>> ELSE <<CountByte(high), CountByte(low)>>)

\* Whatever pieces Update is given, nothing of the message is lost, doubled or out of
\* order: what is transformed is the padded message, and until then what was not yet
\* transformed is in the buffer.  An object that was initialized again forgets the last
\* message.  The memory of a piece of up to one block is
\* left as it was, which SHA1 does not do for longer ones.
DigestIsOfTheMessage ==
  /\ digest_result = None =>
       FlattenSeq(context_.state) \o SubSeq(context_.buffer, 1, Used(context_.count)) = [i \in 1 .. message |-> i]
  /\ digest_result # None => FlattenSeq(digest_result.digest) = Padded(message)
  /\ \A n \in damaged: algorithm = "sha1" /\ n > BlockSize

-----------------------------------------------------------------------------
(***************************************************************************)
(* CRC32 (hash/crc32.cpp): the checksum by a table of one entry per byte,  *)
(* of data that comes in pieces.  A byte has ByteBits bits instead of 8,   *)
(* the checksum Width bits instead of 32, and the polynomial is given in   *)
(* its reversed form.                                                      *)
(***************************************************************************)
CONSTANTS
  ByteBits, Width,
  kCrc32Polynomial,
  MaxData             \* bound on the length of the data

VARIABLES
  result_,
  sp                  \* history: the data since Init

crc_vars == <<result_, sp>>

Byte == 0 .. 2 ^ ByteBits - 1
AllOnes == 2 ^ Width - 1

Shift(c) == IF c % 2 = 1 THEN kCrc32Polynomial ^^ (c \div 2) ELSE c \div 2

RECURSIVE Shifts(_, _)
Shifts(c, n) == IF n = 0 THEN c ELSE Shifts(Shift(c), n - 1)

\* Faulty: one bit of a byte is left out.
TableShort(i) == Shifts(i, ByteBits - 1)
\* InitCrc32Table
Table(i) == Shifts(i, ByteBits)

\* Update takes the checksum of before up again: it undoes the last step of Final.
CrcUpdate(result, data) ==
  FoldLeft(LAMBDA c, u: Table((c ^^ u) % 2 ^ ByteBits) ^^ (c \div 2 ^ ByteBits), result ^^ AllOnes, data) ^^ AllOnes

Digest(data) == CrcUpdate(0, data)

CrcInit == result_ = 0 /\ sp = <<>>

UpdatePiece ==
  \E n \in 0 .. 2: \E piece \in [1 .. n -> Byte]:
    /\ Len(sp) + n <= MaxData
    /\ result_' = CrcUpdate(result_, piece)
    /\ sp' = sp \o piece

CrcNext == UpdatePiece

CrcSpec == CrcInit /\ [][CrcNext]_crc_vars
-----------------------------------------------------------------------------
\* The checksum bit by bit, the lowest bit of each byte first: the remainder of a
\* division of polynomials, of a message and a register that start with ones.
Bits(u) == [j \in 1 .. ByteBits |-> (u \div 2 ^ (j - 1)) % 2]
BitByBit(data) ==
  FoldLeft(LAMBDA c, bit: IF (c + bit) % 2 = 1 THEN kCrc32Polynomial ^^ (c \div 2) ELSE c \div 2,
           AllOnes, FlattenSeq([i \in DOMAIN data |-> Bits(data[i])])) ^^ AllOnes

\* Data in pieces has the checksum of the whole, which is the one that the division
\* bit by bit defines, and no single byte that differs leaves it as it is.
ChecksumIsTheRemainder ==
  /\ result_ = BitByBit(sp)
  /\ result_ = Digest(sp)
  /\ \A i \in DOMAIN sp: \A u \in Byte \ {sp[i]}: Digest([sp EXCEPT ![i] = u]) # result_
=============================================================================
