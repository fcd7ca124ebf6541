------------------------------ MODULE PngPush ------------------------------
(***************************************************************************)
(* libpng's progressive reader, pngpread.c.  The application hands over    *)
(* the file piece by piece, as it comes in (png_process_data), and libpng  *)
(* calls back when the header is complete, for every row, and at the end.  *)
(* What cannot be used yet is saved until the next piece.                  *)
(*                                                                         *)
(* One step is one call of png_process_some_data: what libpng does between *)
(* two looks at buffer_size.  The callbacks are the ones the manual shows: *)
(* info_callback turns on interlace handling and calls                     *)
(* png_read_update_info, row_callback calls png_progressive_combine_row.   *)
(* Both may pause.                                                         *)
(***************************************************************************)
EXTENDS PngStream

\* The reader:
\*   mode   process_mode: "sig", "chunk", "idat", "done" or "error"; or
\*          "astray", when buffer_size has wrapped around
\*   save, cur, size   the saved bytes, the rest of the piece, buffer_size
\*   paused   whether the application paused with everything saved
\*   fed, taken   how many bytes of the file were handed over, and used
\*   sig, header, at, len, idat   the signature's bytes seen, whether a header
\*          has been read, its chunk, push_length and idat_size
\*   init, z, ended, room, buf   the image data: zlib, avail_out, row_buf
\*   row, pass, calls, pic   the row to come, the row callbacks, the picture
\*   png    what the handlers keep
VARIABLES ps

Min2(a, b) == IF a < b THEN a ELSE b

PushFail(s) == [s EXCEPT !.mode = "error"]

\* Takes n bytes, the saved ones first.
BadFill(s, n) ==
    LET k == Min2(n, Len(s.cur))
        m == Min2(n - k, Len(s.save))
    IN  [s |-> [s EXCEPT !.save = SubSeq(@, m + 1, Len(@)),
                         !.cur = SubSeq(@, k + 1, Len(@)),
                         !.size = @ - k - m, !.taken = @ + k + m],
         bytes |-> SubSeq(s.cur, 1, k) \o SubSeq(s.save, 1, m)]

png_push_fill_buffer(s, n) ==
    LET k == Min2(n, Len(s.save))
        m == Min2(n - k, Len(s.cur))
    IN  [s |-> [s EXCEPT !.save = SubSeq(@, k + 1, Len(@)),
                         !.cur = SubSeq(@, m + 1, Len(@)),
                         !.size = @ - k - m, !.taken = @ + k + m],
         bytes |-> SubSeq(s.save, 1, k) \o SubSeq(s.cur, 1, m)]

png_push_save_buffer(s) == [s EXCEPT !.save = @ \o s.cur, !.cur = <<>>, !.size = 0]

png_push_restore_buffer(s, bytes) ==
    [s EXCEPT !.cur = bytes, !.size = Len(bytes) + Len(s.save), !.fed = @ + Len(bytes),
              !.paused = FALSE]

\* As info_callback calls it.  The application hands over again the bytes that
\* it is told were not used, or has libpng save them.
png_process_data_pause(s, how) ==
    CASE how = "no" -> s
      [] how = "save" -> [png_push_save_buffer(s) EXCEPT !.paused = TRUE]
      [] how = "again" -> [s EXCEPT !.size = 0,
                              !.fed = @ - (IF Len(s.save) < s.size
                                           THEN s.size - Len(s.save) ELSE 0)]

png_push_read_sig(s) ==
    LET n == Min2(SignatureSize - s.sig, s.size)
        f == png_push_fill_buffer(s, n).s
    IN  [f EXCEPT !.sig = @ + n,
                  !.mode = IF s.sig + n >= SignatureSize THEN "chunk" ELSE @]

\* The header both png_push_read_chunk and png_push_read_IDAT read; bytes that
\* are no header would have a bad name or length.
PushHeader(s) ==
    LET f == png_push_fill_buffer(s, HeaderSize)
        c == f.bytes[1][1]
    IN  IF f.bytes = <<<<c, 1>>, <<c, 2>>>> /\ c > 0
        THEN [f.s EXCEPT !.header = TRUE, !.at = c, !.len = Len(stream[c].data)]
        ELSE PushFail(f.s)

(***************************************************************************)
(* The rows.                                                               *)
(***************************************************************************)
\* The row callback; with real the row holds pixels, otherwise it is NULL.
png_push_have_row(s, row, real) ==
    [s EXCEPT !.calls = Append(@, <<s.pass, s.row>>),
              !.pic[s.row + 1] = IF real THEN png_combine_row(image, @, row, s.pass, TRUE)
                                 ELSE @]

png_read_push_finish_row(s) ==
    LET p == s.pass + 1
        q == IF \/ p = 1 /\ image.w < 5
                \/ p = 3 /\ image.w < 3
                \/ p = 5 /\ image.w < 2
             THEN p + 1 ELSE p
    IN  IF s.row + 1 < image.h \/ ~image.il THEN [s EXCEPT !.row = @ + 1]
        ELSE [s EXCEPT !.row = 0, !.pass = Min2(q, 7)]

\* for (i = 0; i < n && pass == p; i++) { have_row; finish_row }
Once(s, p, row, real) ==
    IF s.pass # p THEN s ELSE png_read_push_finish_row(png_push_have_row(s, row, real))

Times(s, n, p, row, real) ==
    LET run[i \in 0..n] == IF i = 0 THEN s ELSE Once(run[i - 1], p, row, real)
    IN  run[n]

\* The rows of the next passes that have no data of their own are reported
\* along with the row that precedes them.
BadFollowing(s, p) ==
    LET None(t, n, k) == Times(t, n, k, <<>>, FALSE)
        Low(t, n, k) == IF image.h <= 2 THEN None(t, n, k) ELSE t
    IN  CASE p = 0 -> Low(Low(None(s, 4, 2), 2, 4), 1, 6)
          [] p = 1 -> None(s, 4, 2)
          [] p = 2 -> None(None(s, 4, 2), 2, 4)
          [] p = 3 -> None(s, 2, 4)
          [] p = 4 -> None(None(s, 2, 4), 1, 6)
          [] p = 5 -> None(s, 1, 6)
          [] p = 6 -> s

Following(s, p) ==
    LET None(t, n, k) == Times(t, n, k, <<>>, FALSE)
        Low(t, n, k) == IF image.h <= 4 THEN None(t, n, k) ELSE t
    IN  CASE p = 0 -> Low(Low(None(s, 4, 2), 2, 4), 1, 6)
          [] p = 1 -> None(s, 4, 2)
          [] p = 2 -> None(None(s, 4, 2), 2, 4)
          [] p = 3 -> None(s, 2, 4)
          [] p = 4 -> None(None(s, 2, 4), 1, 6)
          [] p = 5 -> None(s, 1, 6)
          [] p = 6 -> None(s, 1, 6)

png_push_process_row(s) ==
    LET row == png_do_read_interlace(image, png_read_filter_row(s.buf), s.pass)
        n == <<8, 8, 4, 4, 2, 2, 1>>[s.pass + 1]
    IN  IF ~IsFilter(Head(s.buf)) THEN PushFail(s)
        ELSE IF image.il THEN Following(Times(s, n, s.pass, row, TRUE), s.pass)
        ELSE png_read_push_finish_row(png_push_have_row(s, row, TRUE))

(***************************************************************************)
(* The image data.                                                         *)
(***************************************************************************)
RowsDone(s) == s.row >= image.h \/ s.pass > 6

NewRow(s) == [s EXCEPT !.room = Columns(image, Min2(s.pass, 6)) + 1, !.buf = <<>>]

\* What follows the call of inflate: s has its output.  Data behind the last
\* row, and damage there, end the data with a warning.  Damage before it does
\* too: Z_DATA_ERROR is taken for a wrong checksum.
AfterInflate(s, r) ==
    IF r.ret = "Z_DATA_ERROR" \/ (s.buf # <<>> /\ RowsDone(s))
    THEN [s EXCEPT !.ended = TRUE]
    ELSE [(IF s.buf # <<>> /\ s.room = 0 THEN png_push_process_row(s) ELSE s)
            EXCEPT !.ended = r.ret = "Z_STREAM_END"]

TakeOutput(s, r) ==
    [s |-> AfterInflate([s EXCEPT !.z = r.z, !.room = @ - Len(r.out), !.buf = @ \o r.out], r),
     in |-> r.in]

InflateRow(s, in) == TakeOutput(s, Inflate(s.z, in, s.room))

\* A turn of the loop; a row has room for a byte at least.
IDATRound(l) ==
    IF l.in = <<>> \/ l.s.ended \/ l.s.mode = "error" THEN l
    ELSE InflateRow(IF l.s.room > 0 THEN l.s ELSE NewRow(l.s), l.in)

\* A turn that does not use up the input fills a row, and a row behind the first
\* has two bytes at least; there are at most ZRatio bytes pending at first, and
\* as many come with a byte of input.
IDATRounds(in) == ((Len(in) + 1) * ZRatio) \div 2 + 2

png_process_IDAT_data(s, in) ==
    LET run[n \in 0..IDATRounds(in)] ==
          IF n = 0 THEN [s |-> s, in |-> in] ELSE IDATRound(run[n - 1])
    IN  run[IDATRounds(in)].s

\* The reader after a run of image data, if row_callback paused in it: the pause
\* sets buffer_size to 0, and the bytes of the run are taken off it after that.
\* What the reader does then is not followed.
Astray(s, t, how) ==
    IF how # "no" /\ t.mode # "error" /\ t.calls # s.calls
    THEN [t EXCEPT !.mode = "astray"] ELSE t

\* Uses what there is of the chunk's data, saved bytes and current ones each
\* in a run of their own.
PushData(s, bytes, how) ==
    Astray(s, png_process_IDAT_data(
                [png_push_fill_buffer(s, Len(bytes)).s EXCEPT !.idat = @ - Len(bytes)],
                [i \in 1..Len(bytes) |-> DataByte(bytes[i])]), how)

Halted(s) == s.mode \in {"error", "astray"}

UseSaved(s, how) ==
    IF s.idat = 0 \/ s.save = <<>> THEN s
    ELSE PushData(s, SubSeq(s.save, 1, Min2(s.idat, Len(s.save))), how)

UseCurrent(s, how) ==
    IF Halted(s) \/ s.idat = 0 \/ s.cur = <<>> THEN s
    ELSE PushData(s, SubSeq(s.cur, 1, Min2(s.idat, Len(s.cur))), how)

\* The end of an IDAT chunk.
EndIDAT(s) ==
    IF Halted(s) \/ s.idat # 0 THEN s
    ELSE IF s.size < CrcSize THEN png_push_save_buffer(s)
    ELSE IF ~stream[s.at].crc THEN PushFail(s)
    ELSE [png_push_fill_buffer(s, CrcSize).s EXCEPT
            !.header = FALSE, !.png.mode = @ \cup {"AFTER_IDAT"}]

DataOfIDAT(s, how) == EndIDAT(UseCurrent(UseSaved(s, how), how))

\* The header behind an IDAT chunk; with another name the data is over.
HeaderOfIDAT(s, how) ==
    IF s.mode = "error" THEN s
    ELSE IF stream[s.at].name = "IDAT" THEN DataOfIDAT([s EXCEPT !.idat = s.len], how)
    ELSE [s EXCEPT !.mode = IF s.ended THEN "chunk" ELSE "error"]

png_push_read_IDAT(s, how) ==
    IF s.header THEN DataOfIDAT(s, how)
    ELSE IF s.size < HeaderSize THEN png_push_save_buffer(s)
    ELSE HeaderOfIDAT(PushHeader(s), how)

(***************************************************************************)
(* The other chunks.                                                       *)
(***************************************************************************)
\* The first IDAT chunk: the header is complete.  A second call of
\* png_read_update_info is an error.
PushImage(s, how) ==
    LET p == s.png
        late == IF "AFTER_IDAT" \in p.mode THEN {"CHUNK_AFTER_IDAT"} ELSE {}
        q == [s EXCEPT !.mode = "idat", !.idat = s.len,
                       !.png.mode = @ \cup late \cup {"IDAT"}]
    IN  IF \/ "IHDR" \notin p.mode
           \/ p.color = "palette" /\ "PLTE" \notin p.mode
           \/ s.init
        THEN PushFail(s)
        ELSE NewRow(png_process_data_pause(
                      [q EXCEPT !.init = TRUE, !.pic = Blank(image)], how))

\* PNG_PUSH_SAVE_BUFFER_IF_FULL: the rest of the chunk is not all there.
BadNotAllThere(s) == s.len > s.size

NotAllThere(s) == s.len + CrcSize > s.size

\* The handler has run.
Handled(s, p, name) ==
    IF p.err THEN PushFail(s)
    ELSE [s EXCEPT !.png = p, !.header = FALSE, !.mode = IF name = "IEND" THEN "done" ELSE @]

\* The names png_push_read_chunk compares with do not include eXIf.
ChunkBody(s, c, how) ==
    IF s.mode = "error" THEN s
    ELSE IF c.name = "IDAT" THEN PushImage(s, how)
    ELSE IF NotAllThere(s) THEN png_push_save_buffer(s)
    ELSE Handled(png_push_fill_buffer(s, s.len + CrcSize).s,
                 Dispatch(s.png, c, image, KnownChunks \ {"eXIf"}), c.name)

AtChunk(s, how) == ChunkBody(s, stream[s.at], how)

png_push_read_chunk(s, how) ==
    IF s.header THEN AtChunk(s, how)
    ELSE IF s.size < HeaderSize THEN png_push_save_buffer(s)
    ELSE AtChunk(PushHeader(s), how)

Badpng_process_some_data(s, how) ==
    CASE s.mode = "sig" -> png_push_read_sig(s)
      [] s.mode = "chunk" -> png_push_read_chunk(s, how)
      [] s.mode = "idat" -> png_push_read_IDAT(s, how)
      [] s.mode = "done" -> s

\* What comes behind the end is ignored.
png_process_some_data(s, how) ==
    CASE s.mode = "sig" -> png_push_read_sig(s)
      [] s.mode = "chunk" -> png_push_read_chunk(s, how)
      [] s.mode = "idat" -> png_push_read_IDAT(s, how)
      [] s.mode = "done" -> [s EXCEPT !.size = 0]

PushInit ==
    ps = [mode |-> "idle", save |-> <<>>, cur |-> <<>>, size |-> 0, fed |-> 0, taken |-> 0,
          sig |-> 0, header |-> FALSE, at |-> 0, len |-> 0, idat |-> 0, init |-> FALSE,
          z |-> NewZ, ended |-> FALSE, room |-> 0, buf |-> <<>>, row |-> 0, pass |-> 0,
          paused |-> FALSE, calls |-> <<>>, pic |-> <<>>, png |-> NewPng]

=============================================================================
