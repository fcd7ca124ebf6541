------------------------------ MODULE PngWrite ------------------------------
(***************************************************************************)
(* libpng's writer: png_write_info, png_write_row and png_write_end, and   *)
(* png_compress_IDAT under them.  The application sets what it wants       *)
(* written in a png_info (info), calls png_write_info, writes every row of *)
(* every pass, may set more (late), and calls png_write_end.               *)
(***************************************************************************)
EXTENDS PngStream

CONSTANTS ZBufferSize    \* zbuffer_size, 8192 in the code

VARIABLES wr    \* the writer: [pc, info, row, pass, zin, zout, zcodes, timed, texts]

wvars == <<image, stream, cut, wr>>

(***************************************************************************)
(* The png_set_XXX functions that fill the info.  A profile is one that    *)
(* libpng does not know to be sRGB.                                        *)
(***************************************************************************)
png_set_tRNS(p, num) == [Keep(p, "tRNS") EXCEPT !.num_trans = num]

png_set_bKGD(p, num) == [Keep(p, "bKGD") EXCEPT !.bkgd = num]

png_set_hIST(p) ==
    IF p.num_palette = 0 THEN p ELSE [Keep(p, "hIST") EXCEPT !.hist = p.num_palette]

png_set_gAMA_fixed(p, g) == png_colorspace_sync(png_colorspace_set_gamma(p, g, FALSE))

png_set_cHRM_fixed(p, xy) ==
    LET q == png_colorspace_set_chromaticities(p, xy, 2)
    IN  png_colorspace_sync(IF "INVALID" \in q.cs THEN q
                            ELSE [q EXCEPT !.cs = @ \cup {"FROM_cHRM"}])

png_set_sRGB(p, intent) == png_colorspace_sync(png_colorspace_set_sRGB(p, intent))

png_set_iCCP(p) ==
    IF "INVALID" \in p.cs THEN png_colorspace_sync(p)
    ELSE Keep([p EXCEPT !.cs = @ \cup {"FROM_gAMA", "FROM_cHRM"}], "iCCP")

\* What the application sets.
Settings == [name : KnownChunks, num : Nat]

PngSet(p, s) ==
    CASE s.name = "PLTE" -> png_set_PLTE(p, s.num)
      [] s.name = "tRNS" -> png_set_tRNS(p, s.num)
      [] s.name = "bKGD" -> png_set_bKGD(p, s.num)
      [] s.name = "hIST" -> png_set_hIST(p)
      [] s.name = "gAMA" -> png_set_gAMA_fixed(p, s.num)
      [] s.name = "cHRM" -> png_set_cHRM_fixed(p, s.num)
      [] s.name = "sRGB" -> png_set_sRGB(p, s.num)
      [] s.name = "iCCP" -> png_set_iCCP(p)
      [] s.name = "tEXt" -> [p EXCEPT !.texts = @ + 1]
      [] OTHER -> Keep(p, s.name)

PngSets(p, ss) ==
    LET set[n \in 0..Len(ss)] == IF n = 0 THEN p ELSE PngSet(set[n - 1], ss[n])
    IN  set[Len(ss)]

(***************************************************************************)
(* The order of the chunks.                                                *)
(***************************************************************************)
If(b, name, num) == IF b THEN <<ChunkOf(name, <<Plain>>, num)>> ELSE <<>>

Texts(n) == [i \in 1..n |-> ChunkOf("tEXt", <<Plain>>, 0)]

\* Of a profile and sRGB only the profile is written.
BadWritesSRGB(i) == "INVALID" \notin i.cs /\ "sRGB" \in i.valid

WritesSRGB(i) ==
    "INVALID" \notin i.cs /\ "iCCP" \notin i.valid /\ "sRGB" \in i.valid

png_write_info_before_PLTE(i) ==
    LET From(name, flag) == {"INVALID", flag} \cap i.cs = {flag} /\ name \in i.valid
    IN  <<ChunkOf("IHDR", <<Plain, Plain>>, 0)>>
          \o If(From("gAMA", "FROM_gAMA"), "gAMA", i.gamma)
          \o If("INVALID" \notin i.cs /\ "iCCP" \in i.valid, "iCCP", Other)
          \o If(WritesSRGB(i), "sRGB", OfSRGB)
          \o If("sBIT" \in i.valid, "sBIT", 0)
          \o If(From("cHRM", "FROM_cHRM"), "cHRM", i.xy)

\* Whether png_write_PLTE, png_write_tRNS and png_write_bKGD write a chunk.
png_write_PLTE(i) ==
    /\ "PLTE" \in i.valid
    /\ image.color = "palette" => i.num_palette <= MaxPalette
    /\ image.color # "gray"

png_write_tRNS(i) ==
    "tRNS" \in i.valid /\ (image.color = "palette" => i.num_trans \in 1..i.num_palette)

png_write_bKGD(i) ==
    "bKGD" \in i.valid /\ (image.color = "palette" => i.bkgd < i.num_palette)

AfterPLTE(i) ==
    If(png_write_PLTE(i), "PLTE", i.num_palette)
      \o If(png_write_tRNS(i), "tRNS", i.num_trans)
      \o If(png_write_bKGD(i), "bKGD", i.bkgd)
      \o If("eXIf" \in i.valid, "eXIf", 0)
      \o If("hIST" \in i.valid, "hIST", i.num_palette)
      \o If("oFFs" \in i.valid, "oFFs", 0)
      \o If("pCAL" \in i.valid, "pCAL", 0)
      \o If("sCAL" \in i.valid, "sCAL", 0)
      \o If("pHYs" \in i.valid, "pHYs", 0)
      \o If("tIME" \in i.valid, "tIME", 0)
      \o If("sPLT" \in i.valid, "sPLT", 0)
      \o Texts(i.texts)

\* A palette picture without a palette is an error.
png_write_info ==
    /\ wr.pc = "info"
    /\ LET before == png_write_info_before_PLTE(wr.info)
       IN  IF image.color = "palette" /\ ~png_write_PLTE(wr.info)
           THEN wr' = [wr EXCEPT !.pc = "error"] /\ stream' = before
           ELSE /\ stream' = before \o AfterPLTE(wr.info)
                /\ wr' = [wr EXCEPT !.pc = "rows", !.timed = "tIME" \in wr.info.valid,
                                    !.texts = wr.info.texts]
    /\ UNCHANGED <<image, cut>>

(***************************************************************************)
(* The rows.  zin counts bytes deflate has not made a code of, zcodes the  *)
(* codes it has made, and zout is what is in the output buffer.            *)
(***************************************************************************)
\* n codes behind the first k.
Codes(k, n) == [i \in 1..n |-> k + i]

DataEnd == <<BlockEnd, Adler>>

\* Full buffers become IDAT chunks; at the end, what is left does too.
png_compress_IDAT(w, bytes, finish) ==
    LET in == w.zin + bytes
        n == IF finish THEN CodesOf(in) ELSE in \div ZRatio
        out == w.zout \o Codes(w.zcodes, n) \o (IF finish THEN DataEnd ELSE <<>>)
        full == Len(out) \div ZBufferSize
        rest == SubSeq(out, full * ZBufferSize + 1, Len(out))
        Full(k) == ChunkOf("IDAT", SubSeq(out, (k - 1) * ZBufferSize + 1, k * ZBufferSize), 0)
    IN  [w |-> [w EXCEPT !.zin = IF finish THEN 0 ELSE in % ZRatio, !.zcodes = @ + n,
                         !.zout = IF finish THEN <<>> ELSE rest],
         chunks |-> [k \in 1..full |-> Full(k)]
                      \o (IF finish /\ rest # <<>> THEN <<ChunkOf("IDAT", rest, 0)>>
                          ELSE <<>>)]

\* The row after this one; behind the last, the compressor is flushed.
png_write_finish_row(d) ==
    LET w == d.w
        last == w.row + 1 >= image.h
        next == IF ~last THEN [w EXCEPT !.row = @ + 1]
                ELSE IF image.il THEN [w EXCEPT !.row = 0, !.pass = @ + 1]
                ELSE [w EXCEPT !.row = @ + 1]
    IN  IF last /\ (image.il => next.pass = 7)
        THEN LET f == png_compress_IDAT(next, 0, TRUE)
             IN  [w |-> [f.w EXCEPT !.pc = "end"], chunks |-> d.chunks \o f.chunks]
        ELSE [w |-> next, chunks |-> d.chunks]

png_write_row ==
    /\ wr.pc = "rows"
    /\ LET none == [w |-> wr, chunks |-> <<>>]
           d == IF WriteAbsent(image, wr.pass, wr.row) THEN none
                ELSE png_compress_IDAT(wr, Columns(image, wr.pass) + 1, FALSE)
           e == png_write_finish_row(d)
       IN  /\ wr' = e.w
           /\ stream' = stream \o e.chunks
    /\ UNCHANGED <<image, cut>>

\* What png_write_info wrote is not written again, but for eXIf.
png_write_end ==
    /\ wr.pc = "end"
    /\ LET i == PngSets(wr.info, image.late)
       IN  IF i.err THEN wr' = [wr EXCEPT !.pc = "error"] /\ UNCHANGED <<stream, cut>>
           ELSE /\ stream' = stream
                     \o If("tIME" \in i.valid /\ ~wr.timed, "tIME", 0)
                     \o Texts(i.texts - wr.texts)
                     \o If("eXIf" \in i.valid, "eXIf", 0)
                     \o <<ChunkOf("IEND", <<>>, 0)>>
                /\ wr' = [wr EXCEPT !.pc = "written", !.info = i]
                /\ cut' = WholeSize(stream')
    /\ UNCHANGED image

\* png_set_IHDR, and then what else there is to set.
InfoSet == PngSets([NewPng EXCEPT !.color = image.color], image.sets)

WriterInit(images) ==
    /\ image \in images
    /\ stream = <<>>
    /\ cut = 0
    /\ wr = [pc |-> IF InfoSet.err THEN "error" ELSE "info", info |-> InfoSet, row |-> 0, pass |-> 0,
             zin |-> 0, zout |-> <<>>, zcodes |-> 0, timed |-> FALSE, texts |-> 0]

=============================================================================
