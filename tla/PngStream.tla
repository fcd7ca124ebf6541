----------------------------- MODULE PngStream -----------------------------
(***************************************************************************)
(* A PNG file between libpng's writer and its readers, and zlib as both    *)
(* use it.  The file is a sequence of chunks behind the signature.  Its    *)
(* bytes are <<c, i>>: byte i of chunk c, two for the header (length and   *)
(* name), then the data, then two for the CRC; chunk 0 is the signature,   *)
(* of two bytes.                                                           *)
(*                                                                         *)
(* The data of an IDAT chunk is compressed.  Its byte k > 0 is the writer's *)
(* k-th code, which stands for the k-th ZRatio bytes of the rows wherever  *)
(* it comes; the others are named below.                                   *)
(***************************************************************************)
EXTENDS PngChunks, PngRows

CONSTANTS ZRatio      \* bytes of the rows in one code

ASSUME RatioAssumption == ZRatio \in Nat \ {0}

BlockEnd == 0     \* the end of the last block
Adler == -1       \* the checksum of the stream
Broken == -2      \* damage that no code looks like
Zeros == -3       \* damage that looks like a code, for bytes that are all 0
Noise == -4       \* or for bytes that are neither filters nor pixels
Plain == -5       \* a byte of another chunk

VARIABLES image,      \* the picture: [w, h, il, color] and what is set with it
          stream,     \* the chunks of the file
          cut         \* how many bytes of the file are there

SignatureSize == 2
HeaderSize == 2
CrcSize == 2

ChunkOf(name, data, num) ==
    [name |-> name, data |-> data, crc |-> TRUE, fit |-> TRUE, num |-> num]

ChunkSize(c) == HeaderSize + Len(c.data) + CrcSize

Bytes(c, n) == [i \in 1..n |-> <<c, i>>]

\* The bytes of a file with the chunks s.
Whole(s) ==
    LET upTo[n \in 0..Len(s)] ==
          IF n = 0 THEN Bytes(0, SignatureSize) ELSE upTo[n - 1] \o Bytes(n, ChunkSize(s[n]))
    IN  upTo[Len(s)]

WholeSize(s) == Len(Whole(s))

\* The file, as far as it is there.
File == SubSeq(Whole(stream), 1, cut)

\* What the file holds at byte i of the data of chunk c.
DataByte(u) == stream[u[1]].data[u[2] - HeaderSize]

\* The rows in the order the writer passes them to zlib, a filter byte in
\* front of each.
Rows(g) ==
    LET Row(p, r) ==
            IF WriteAbsent(g, p, r) THEN <<>>
            ELSE <<FILTER_VALUE_NONE>>
                   \o png_do_write_interlace(g, Original(g)[r + 1], p)
        Pass(p) == Joined([r \in 1..g.h |-> Row(p, r - 1)])
    IN  Joined([p \in 1..(IF g.il THEN 7 ELSE 1) |-> Pass(p - 1)])

(***************************************************************************)
(* inflate.  z is the state of the decompressor: dec codes decoded, good   *)
(* whether they are the ones the checksum is of, last whether the last     *)
(* block is over, pend the bytes of a code for which there was no room.    *)
(* It takes input as long as there is nothing pending, even when the       *)
(* output is full.                                                         *)
(***************************************************************************)
NewZ == [dec |-> 0, good |-> TRUE, last |-> FALSE, pend |-> <<>>]

\* How many codes the rows make.
CodesOf(rows) == (rows + ZRatio - 1) \div ZRatio

\* What a code stands for; the last one may stand for less.
Meaning(code) ==
    LET rows == Rows(image)
        end == code * ZRatio
    IN  IF code > 0
        THEN SubSeq(rows, (code - 1) * ZRatio + 1, IF end < Len(rows) THEN end ELSE Len(rows))
        ELSE [i \in 1..ZRatio |-> IF code = Zeros THEN 0 ELSE Noise]

Decode(z, code) ==
    [z EXCEPT !.dec = @ + 1, !.good = @ /\ code = z.dec + 1, !.pend = Meaning(code)]

\* What is pending goes out, as far as there is room.
Flush(r) ==
    LET n == IF r.room < Len(r.z.pend) THEN r.room ELSE Len(r.z.pend)
    IN  [r EXCEPT !.z.pend = SubSeq(@, n + 1, Len(@)), !.room = @ - n,
                  !.out = @ \o SubSeq(r.z.pend, 1, n)]

\* A byte of input.  Behind the last block comes the checksum, whatever the
\* byte there is; a checksum that comes before is no code.
InflateByte(r) ==
    LET t == [r EXCEPT !.in = Tail(@)]
        u == Head(r.in)
        right == u = Adler /\ r.z.good /\ r.z.dec = CodesOf(Len(Rows(image)))
    IN  IF r.z.pend # <<>> \/ r.ret # "Z_OK" THEN r
        ELSE IF r.z.last
        THEN [t EXCEPT !.ret = IF right THEN "Z_STREAM_END" ELSE "Z_DATA_ERROR"]
        ELSE IF u > 0 \/ u \in {Zeros, Noise} THEN Flush([t EXCEPT !.z = Decode(r.z, u)])
        ELSE IF u = BlockEnd THEN [t EXCEPT !.z.last = TRUE]
        ELSE [t EXCEPT !.ret = "Z_DATA_ERROR"]

\* A call with the input in, which stops before the end of it when there is no
\* more room for what is pending, or behind the end of the data.
Inflate(z, in, room) ==
    LET run[k \in 0..Len(in)] ==
          IF k = 0
          THEN Flush([z |-> z, in |-> in, room |-> room, out |-> <<>>, ret |-> "Z_OK"])
          ELSE InflateByte(run[k - 1])
    IN  run[Len(in)]

=============================================================================
