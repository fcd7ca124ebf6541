------------------------------ MODULE PngRead ------------------------------
(***************************************************************************)
(* libpng's sequential reader: png_read_info, png_read_image and           *)
(* png_read_end, which take bytes from a file whenever they need some.     *)
(* Reading behind the end of the file is an error of the read function.    *)
(***************************************************************************)
EXTENDS PngStream

CONSTANTS ReadSize       \* IDAT_read_size, 8192 in the code

\* Room for bytes nobody wants, PNG_INFLATE_BUF_SIZE.
TmpBuf == 1024

\* The reader: where it is (pc), the chunk whose header it read last (at) and
\* how many bytes of its data are left (idat), what zlib has to read (in) and
\* what it has given (out, avail), the row and pass, the picture, and what the
\* handlers keep (png).
VARIABLES rd

\* Whether the file holds byte i of chunk c.
There(c, i) == WholeSize(SubSeq(stream, 1, c - 1)) + i <= cut

WholeChunk(c) == c <= Len(stream) /\ There(c, ChunkSize(stream[c]))

Fail(s) == [s EXCEPT !.pc = "error"]

\* Without the signature there is no PNG file.
png_read_sig(s) == IF cut < SignatureSize THEN Fail(s) ELSE s

\* The next chunk, if its header can be read.
png_read_chunk_header(s) ==
    IF s.at < Len(stream) /\ There(s.at + 1, HeaderSize)
    THEN [s EXCEPT !.at = @ + 1, !.idat = Len(stream[s.at + 1].data)]
    ELSE Fail(s)

\* Skips the rest of a critical chunk; its CRC has to be right.
png_crc_finish(s) ==
    IF WholeChunk(s.at) /\ stream[s.at].crc THEN [s EXCEPT !.idat = 0] ELSE Fail(s)

\* One turn of the loop of png_read_info, or with end of png_read_end.  With
\* the first IDAT chunk png_read_image follows, which claims zlib (owned).
ReadChunk(s, end) ==
    LET t == png_read_chunk_header(s)
        c == stream[t.at]
        p == t.png
        q == [p EXCEPT !.mode = @ \cup {"CHUNK_AFTER_IDAT"}
                                   \cup (IF end THEN {} ELSE {"AFTER_IDAT"})]
        r == Dispatch(IF end \/ "IDAT" \in p.mode THEN q ELSE p, c, image, KnownChunks)
    IN  IF t.pc = "error" THEN t
        ELSE IF c.name = "IDAT" /\ end THEN png_crc_finish(t)
        ELSE IF c.name = "IDAT"
        THEN IF \/ "IHDR" \notin p.mode
                \/ p.color = "palette" /\ "PLTE" \notin p.mode
             THEN Fail(t)
             ELSE [t EXCEPT !.png.mode = @ \cup {"IDAT"}, !.pc = "rows", !.owned = TRUE]
        ELSE IF ~WholeChunk(t.at) \/ r.err THEN Fail(t)
        ELSE [t EXCEPT !.png = r,
                       !.pc = IF end /\ "IEND" \in r.mode THEN "done" ELSE @]

(***************************************************************************)
(* The image data.  png_read_row has png_read_IDAT_data fill the row (pc   *)
(* "data", out and avail); after the last row png_read_finish_IDAT has it  *)
(* look for the end of the compressed data (check).                        *)
(***************************************************************************)
Ended(s) == [s EXCEPT !.ended = TRUE, !.png.mode = @ \cup {"AFTER_IDAT"}]

Data(s, n, check) == [s EXCEPT !.pc = "data", !.out = <<>>, !.avail = n, !.check = check]

\* Behind the last row comes png_read_finish_IDAT.
png_read_finish_row(s) ==
    LET t == IF s.row + 1 < image.h \/ ~image.il THEN [s EXCEPT !.row = @ + 1]
             ELSE [s EXCEPT !.row = 0, !.pass = @ + 1]
    IN  IF t.row < image.h /\ t.pass < 7 THEN [t EXCEPT !.pc = "rows"]
        ELSE IF s.ended THEN [t EXCEPT !.pc = "finish"]
        ELSE Data(t, 0, TRUE)

\* The turn of png_read_image's loop that asks for a row.
png_read_row ==
    /\ rd.pc = "rows"
    /\ rd' = IF RowAbsent(image, rd.pass, rd.row) THEN png_read_finish_row(rd)
             ELSE Data(rd, Columns(image, rd.pass) + 1, FALSE)

\* A turn of the loop of png_read_IDAT_data, in up to three steps: the next
\* IDAT chunk, if this one is used up; some of its bytes; what they inflate to.
NextIDAT ==
    /\ rd.pc = "data" /\ rd.in = <<>> /\ rd.idat = 0
    /\ LET t == png_crc_finish(rd)
           u == IF t.pc = "error" THEN t ELSE png_read_chunk_header(t)
       IN  rd' = IF u.pc = "error" \/ stream[u.at].name = "IDAT" THEN u ELSE Fail(u)

FillIDAT ==
    /\ rd.pc = "data" /\ rd.in = <<>> /\ rd.idat > 0
    /\ LET n == IF ReadSize < rd.idat THEN ReadSize ELSE rd.idat
           from == Len(stream[rd.at].data) - rd.idat
       IN  rd' = IF There(rd.at, HeaderSize + from + n)
                 THEN [rd EXCEPT !.in = SubSeq(stream[rd.at].data, from + 1, from + n),
                                 !.idat = @ - n]
                 ELSE Fail(rd)

\* With check no byte is wanted, and the loop goes on while bytes come.
Inflated(s, r) ==
    LET left == IF s.check THEN s.avail + Len(r.out) ELSE s.avail - Len(r.out)
        u == [s EXCEPT !.z = r.z, !.in = r.in, !.avail = left, !.out = @ \o r.out]
        v == [u EXCEPT !.pc = IF s.check THEN "finish" ELSE "row"]
    IN  IF r.ret = "Z_STREAM_END" THEN IF left > 0 /\ ~s.check THEN Fail(u) ELSE Ended(v)
        ELSE IF r.ret # "Z_OK" THEN IF s.check THEN v ELSE Fail(u)
        ELSE IF left > 0 THEN u ELSE v

png_read_IDAT_data ==
    /\ rd.pc = "data" /\ rd.in # <<>>
    /\ rd' = Inflated(rd, Inflate(rd.z, rd.in, IF rd.check THEN TmpBuf ELSE rd.avail))

\* The rest of png_read_row, as png_read_image calls it: no display row.
RowRead ==
    /\ rd.pc = "row"
    /\ LET row == png_do_read_interlace(image, png_read_filter_row(rd.out), rd.pass)
       IN  rd' = IF ~IsFilter(Head(rd.out)) THEN Fail(rd)
                 ELSE png_read_finish_row(
                        [rd EXCEPT !.pic[rd.row + 1] =
                           png_combine_row(image, @, row, rd.pass, FALSE)])

\* Once per file; finishes the IDAT chunk the reader is in.
png_read_finish_IDAT ==
    /\ rd.pc = "finish"
    /\ LET t == [(IF rd.ended THEN rd ELSE Ended(rd)) EXCEPT !.pc = "end"]
       IN  rd' = IF rd.owned THEN png_crc_finish([t EXCEPT !.in = <<>>, !.owned = FALSE])
                 ELSE t

ReaderInit ==
    rd = [pc |-> "idle", at |-> 0, idat |-> 0, in |-> <<>>, z |-> NewZ, ended |-> FALSE,
          owned |-> FALSE, out |-> <<>>, avail |-> 0, check |-> FALSE, row |-> 0,
          pass |-> 0, pic |-> <<>>, png |-> NewPng]

png_read_info ==
    /\ rd.pc = "info"
    /\ LET s == IF rd.at = 0 THEN png_read_sig(rd) ELSE rd
       IN  rd' = IF s.pc = "error" THEN s ELSE ReadChunk(s, FALSE)

png_read_image ==
    png_read_row \/ NextIDAT \/ FillIDAT \/ png_read_IDAT_data \/ RowRead
      \/ png_read_finish_IDAT

png_read_end == rd.pc = "end" /\ rd' = ReadChunk(rd, TRUE)

=============================================================================
