------------------------------ MODULE PngCodec ------------------------------
(***************************************************************************)
(* libpng from end to end: a picture is written to a file, the file may    *)
(* suffer one fault on its way, and is then read twice, by the sequential  *)
(* reader and by the progressive one, which gets it in pieces of any of    *)
(* the sizes in FeedSizes and whose callbacks may pause.                   *)
(***************************************************************************)
EXTENDS PngWrite, PngRead, PngPush

CONSTANTS Images,        \* the pictures, with what the application sets
          Fragile,       \* those of them whose file may suffer a fault
          FeedSizes      \* how many bytes the application has at a time

\* A picture has pixels, and buffers have room.
ASSUME PictureAssumption ==
    /\ {ZBufferSize, ReadSize} \cup FeedSizes \subseteq Nat \ {0}
    /\ \A g \in Images :
         /\ g.w \in Nat \ {0} /\ g.h \in Nat \ {0} /\ g.il \in BOOLEAN
         /\ g.color \in {"gray", "rgb", "palette"}
         /\ g.sets \in Seq(Settings) /\ g.late \in Seq(Settings)

VARIABLES intact         \* history: the file was read without a fault

vars == <<image, stream, cut, wr, rd, ps, intact>>

Init == WriterInit(Images) /\ ReaderInit /\ PushInit /\ intact = FALSE

(***************************************************************************)
(* The faults of a file: at most one of these.                             *)
(***************************************************************************)
IsIDAT(i) == stream[i].name = "IDAT"

OnItsWay == wr.pc = "written" /\ rd.pc = "idle"

ToRead(new) ==
    /\ stream' = new
    /\ rd' = [rd EXCEPT !.pc = "info", !.pic = Blank(image)]
    /\ UNCHANGED <<image, wr, ps>>

Faulty(new) ==
    ToRead(new) /\ cut' = WholeSize(new) /\ UNCHANGED intact

Intact == OnItsWay /\ ToRead(stream) /\ intact' = TRUE /\ UNCHANGED cut

\* The file with c in front of chunk i.
With(c, i) == SubSeq(stream, 1, i - 1) \o <<c>> \o SubSeq(stream, i, Len(stream))

LoseChunk == \E i \in DOMAIN stream :
    Faulty(SubSeq(stream, 1, i - 1) \o SubSeq(stream, i + 1, Len(stream)))

RepeatChunk == \E i \in DOMAIN stream : Faulty(With(stream[i], i))

SwapChunks == \E i \in 1..(Len(stream) - 1) :
    Faulty([stream EXCEPT ![i] = stream[i + 1], ![i + 1] = stream[i]])

WrongCrc == \E i \in DOMAIN stream : Faulty([stream EXCEPT ![i].crc = FALSE])

\* Contents the handler refuses.  For IDAT chunks this is WrongData; for eXIf,
\* whose handler loses its place in the file, it is left out.
WrongContents == \E i \in DOMAIN stream :
    stream[i].name \notin {"IDAT", "eXIf", "IEND"} /\ Faulty([stream EXCEPT ![i].fit = FALSE])

\* A palette, transparency or histogram of another size.
WrongNumber == \E i \in DOMAIN stream, n \in 0..(MaxPalette + 1) :
    /\ stream[i].name \in {"PLTE", "tRNS", "bKGD", "hIST"}
    /\ Faulty([stream EXCEPT ![i].num = n])

\* Other image data, with a right CRC or with a wrong one.
WrongData == \E i \in DOMAIN stream : \E j \in DOMAIN stream[i].data, ok \in BOOLEAN,
                 u \in {Broken, Zeros, Noise} :
    IsIDAT(i) /\ Faulty([stream EXCEPT ![i].data[j] = u, ![i].crc = ok])

ForeignChunk == \E i \in 1..Len(stream), name \in {"CRIT", "vpAg"} :
    Faulty(With(ChunkOf(name, <<Plain>>, 0), i))

Truncate == \E n \in 0..(cut - 1) :
    ToRead(stream) /\ cut' = n /\ UNCHANGED intact

Damage ==
    /\ OnItsWay /\ image \in Fragile
    /\ \/ LoseChunk \/ RepeatChunk \/ SwapChunks \/ WrongCrc \/ WrongContents
       \/ WrongNumber \/ WrongData \/ ForeignChunk \/ Truncate

(***************************************************************************)
(* The two readers.                                                        *)
(***************************************************************************)
Write == (png_write_info \/ png_write_row \/ png_write_end) /\ UNCHANGED <<rd, ps, intact>>

Read ==
    /\ png_read_info \/ png_read_image \/ png_read_end
    /\ UNCHANGED <<image, stream, cut, wr, ps, intact>>

\* The application starts on the file again, with the progressive reader.
Reopen ==
    /\ rd.pc \in {"done", "error"} /\ ps.mode = "idle"
    /\ ps' = [ps EXCEPT !.mode = "sig"]
    /\ UNCHANGED <<image, stream, cut, wr, rd, intact>>

\* After a pause with everything saved the application may resume with no
\* more bytes.
png_process_data == \E n \in FeedSizes \cup {0} :
    /\ ps.mode \notin {"idle", "error", "astray"} /\ ps.size = 0
    /\ IF n = 0 THEN ps.paused ELSE ps.fed < cut
    /\ ps' = png_push_restore_buffer(ps, SubSeq(File, ps.fed + 1, Min2(ps.fed + n, cut)))
    /\ UNCHANGED <<image, stream, cut, wr, rd, intact>>

\* The callbacks that may pause are called for a chunk and for image data.
Pauses == IF ps.mode \in {"chunk", "idat"} THEN {"no", "save", "again"} ELSE {"no"}

ProcessSome == \E how \in Pauses :
    /\ ~Halted(ps) /\ ps.size > 0
    /\ ps' = png_process_some_data(ps, how)
    /\ UNCHANGED <<image, stream, cut, wr, rd, intact>>

Next == \/ Write
        \/ Intact
        \/ Damage
        \/ Read \/ Reopen \/ png_process_data \/ ProcessSome

Spec == Init /\ [][Next]_vars

(***************************************************************************)
(* Properties.                                                             *)
(***************************************************************************)
\* Rows, passes and sizes stay within the picture, the saved bytes and the
\* limit on chunks.
TypeOK ==
    /\ wr.pc \in {"info", "rows", "end", "written", "error"}
    /\ rd.pc \in {"idle", "info", "rows", "data", "row", "finish", "end", "done", "error"}
    /\ ps.mode \in {"idle", "sig", "chunk", "idat", "done", "error", "astray"}
    /\ \A s \in {wr, rd, ps} : s.row \in 0..image.h /\ s.pass \in 0..7
    /\ ps.taken \in 0..ps.fed /\ ps.fed \in 0..cut
    /\ ps.size \in 0..(Len(ps.save) + Len(ps.cur))
    /\ ps.idat \in 0..ps.len /\ Len(ps.buf) <= image.w + 1
    /\ rd.png.cache \in 1..CacheMax /\ ps.png.cache \in 1..CacheMax

Over == ps.mode \in {"done", "error"}

\* No byte is lost, repeated or reordered between the pieces the application
\* hands over and the parser, whatever was saved and whether info_callback
\* paused, as long as row_callback did not (PausesAnywhere): what is saved and
\* what is left of the piece is the file from the last byte used to the last
\* one handed over (png_push_fill_buffer, png_push_save_buffer,
\* png_process_data_pause).
BytesInOrder ==
    ps.mode \notin {"idle", "astray"} /\ ~Over =>
      LET rest == SubSeq(File, ps.taken + 1, ps.fed)
      IN  IF ps.size = 0 THEN ps.save = rest
          ELSE ps.save \o ps.cur = rest /\ ps.size = Len(rest)

\* libpng-manual.txt:2708 says of row_callback "You can also call
\* png_process_data_pause in this callback".  It does not hold: the subtractions
\* behind png_process_IDAT_data (png_push_read_IDAT) make buffer_size wrap
\* around after a pause there.
PausesAnywhere == ps.mode # "astray"

\* The compressed data of the file.
ImageData == Joined([i \in DOMAIN stream |-> IF IsIDAT(i) THEN stream[i].data ELSE <<>>])

\* It is as it was written.
DataWhole == ImageData = Codes(0, CodesOf(Len(Rows(image)))) \o DataEnd

\* It has a code that inflates to other bytes than belong there.
Misread == \E j \in DOMAIN ImageData :
    ImageData[j] \in {Zeros, Noise} \/ (ImageData[j] > 0 /\ ImageData[j] # j)

CrcsRight == \A i \in DOMAIN stream : IsIDAT(i) => stream[i].crc

OneRun == ~\E i, k \in DOMAIN stream : \E j \in i..k :
    IsIDAT(i) /\ ~IsIDAT(j) /\ IsIDAT(k)

Passes ==
    IF image.il THEN SelectSeq([p \in 1..7 |-> p - 1],
                               LAMBDA p : png_pass_start[p + 1] < image.w)
    ELSE <<0>>

\* The row callbacks come in the order of a complete reading: every row of
\* every pass that has columns, once, also the rows that hold nothing, which
\* png_push_process_row reports along with others.
RowsInOrder ==
    LET whole == Joined([k \in DOMAIN Passes |->
                           [r \in 1..image.h |-> <<Passes[k], r - 1>>]])
    IN  /\ Len(ps.calls) <= Len(whole)
        /\ ps.calls = SubSeq(whole, 1, Len(ps.calls))
        /\ ps.mode = "done" /\ DataWhole => ps.calls = whole

\* A file that png_read_end has accepted has given the whole picture, every
\* pixel in its place, and its image data has passed the CRCs; so has one the
\* progressive reader accepted, if its compressed data is whole.  With damaged
\* data that reader accepts files with rows missing (png_process_IDAT_data
\* takes the damage for a wrong checksum), but a row it has reported is right.
\* Of damage that looks like codes behind a right CRC nothing is said: only the
\* checksum of zlib is then wrong, and behind the last row that is a warning to
\* both readers (png_read_IDAT_data, png_process_IDAT_data).  Nor of its rows
\* when the CRC is wrong, as the progressive reader reports them first.
PictureComplete ==
    /\ rd.pc = "done" => CrcsRight /\ (Misread \/ rd.pic = Original(image))
    /\ ps.mode = "done" => CrcsRight /\ (DataWhole => ps.pic = Original(image))
    /\ ~image.il /\ ~Misread =>
         \A k \in DOMAIN ps.calls :
           LET y == ps.calls[k][2] + 1 IN ps.pic[y] = Original(image)[y]

\* What a reader tells the application.
Told(p) ==
    [color |-> p.color, num_palette |-> p.num_palette, num_trans |-> p.num_trans,
     valid |-> p.valid \ {"eXIf"}, bkgd |-> p.bkgd, hist |-> p.hist, gamma |-> p.gamma,
     xy |-> p.xy, texts |-> p.texts]

\* However the file is cut into pieces, the progressive reader comes to the
\* same end as the sequential one: it accepts the same files and tells the same
\* of their chunks, but for eXIf, which only the sequential one handles.  The
\* image data has to be whole and in one run of chunks: the two treat damage in
\* it, a missing checksum and a second run differently.
PushMatchesRead ==
    /\ ps.mode \notin {"idle", "astray"} /\ ps.size = 0 /\ ~ps.paused
    /\ ps.fed = cut \/ Over
    /\ DataWhole /\ OneRun
    => /\ rd.pc = "done" <=> ps.mode = "done"
       /\ rd.pc = "done" => Told(ps.png) = Told(rd.png)

\* In whatever order the chunks come, and whichever are damaged, what the
\* handlers of both readers leave behind fits together (InfoFits).
InfoSound == InfoFits(rd.png) /\ InfoFits(ps.png)

\* A file without a fault is accepted and gives back what the application had
\* set when it wrote it.  Of sRGB and a profile it gives back the profile, and
\* texts only up to the limit on chunks.
RoundTrip ==
    LET i == wr.info
        kept == [Told(i) EXCEPT
                   !.valid = IF "iCCP" \in i.valid THEN @ \ {"sRGB"} ELSE @]
        few == i.texts + (IF "sPLT" \in i.valid THEN 1 ELSE 0) <= CacheMax - 2
    IN  intact => /\ rd.pc # "error"
                  /\ rd.pc = "done" /\ few => Told(rd.png) = kept

\* png_process_data returns: whatever state the reader is in, one call of
\* png_process_some_data lowers buffer_size, which its loop waits for, or ends
\* in an error; also behind the end of the file.  (A pause in info_callback
\* sets it to 0; for one in row_callback see PausesAnywhere.)
PieceEnds ==
    ps.size > 0 /\ ~Halted(ps) =>
      LET s == png_process_some_data(ps, "no")
      IN  s.size < ps.size \/ s.mode = "error"

=============================================================================
