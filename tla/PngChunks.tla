----------------------------- MODULE PngChunks -----------------------------
(***************************************************************************)
(* What libpng's readers keep of a file's chunks: the png_handle_XXX       *)
(* functions of pngrutil.c, as operators on the record p, which stands for *)
(* png_struct and png_info.  A chunk is                                    *)
(*   [name, data, crc, fit, num]                                           *)
(* data being its bytes, crc whether its CRC is right, fit whether its     *)
(* length and contents pass the handler's own tests, and num the one       *)
(* number in it that other chunks are compared with.  Benign errors are    *)
(* warnings (PNG_FLAG_BENIGN_ERRORS_WARN), so a chunk with one is          *)
(* discarded; png_error ends the reading (err).                            *)
(***************************************************************************)
EXTENDS Integers, Sequences

CONSTANTS CacheMax,      \* user_chunk_cache_max, 1000 in the code
          MaxPalette     \* 2^bit_depth, the largest palette of the picture

ASSUME LimitAssumption == CacheMax \in Nat /\ MaxPalette \in Nat

PNG_MAX_PALETTE_LENGTH == 256

\* Values of num that stand for a gamma, chromaticities or a profile: one
\* that no picture may have, the one of sRGB, and another one.
Nonsense == 0
OfSRGB == 1
Other == 2

NewPng == [mode |-> {}, color |-> "none", num_palette |-> 0, num_trans |-> 0,
           valid |-> {}, bkgd |-> 0, hist |-> 0, cs |-> {}, gamma |-> Nonsense,
           xy |-> Nonsense, texts |-> 0, cache |-> CacheMax, err |-> FALSE]

png_error(p) == [p EXCEPT !.err = TRUE]

Keep(p, name) == [p EXCEPT !.valid = @ \cup {name}]

(***************************************************************************)
(* The colour space, png.c.                                                *)
(***************************************************************************)
Invalid(p) == [p EXCEPT !.cs = @ \cup {"INVALID"}]

Reported(cs) ==
    (IF "HAVE_GAMMA" \in cs THEN {"gAMA"} ELSE {})
      \cup (IF "HAVE_ENDPOINTS" \in cs THEN {"cHRM"} ELSE {})
      \cup (IF "MATCHES_sRGB" \in cs THEN {"sRGB"} ELSE {})

png_colorspace_sync(p) ==
    [p EXCEPT !.valid = IF "INVALID" \in p.cs THEN @ \ {"gAMA", "cHRM", "sRGB", "iCCP"}
                        ELSE (@ \ {"gAMA", "cHRM", "sRGB"}) \cup Reported(p.cs)]

\* The gamma of an sRGB picture is not replaced by that of a gAMA chunk.
png_colorspace_set_gamma(p, g, reading) ==
    IF g = Nonsense \/ (reading /\ "FROM_gAMA" \in p.cs) THEN Invalid(p)
    ELSE IF \/ "INVALID" \in p.cs
            \/ "FROM_sRGB" \in p.cs /\ "HAVE_GAMMA" \in p.cs /\ p.gamma # g
    THEN p
    ELSE [p EXCEPT !.gamma = g, !.cs = @ \cup {"HAVE_GAMMA", "FROM_gAMA"}]

png_colorspace_set_chromaticities(p, xy, preferred) ==
    IF "INVALID" \in p.cs THEN p
    ELSE IF \/ xy = Nonsense
            \/ preferred < 2 /\ "HAVE_ENDPOINTS" \in p.cs /\ p.xy # xy
    THEN Invalid(p)
    ELSE [p EXCEPT !.xy = xy, !.cs = @ \cup {"HAVE_ENDPOINTS"}]

png_colorspace_set_sRGB(p, intent) ==
    IF "INVALID" \in p.cs THEN p
    ELSE IF intent = Nonsense THEN Invalid(p)
    ELSE IF "FROM_sRGB" \in p.cs THEN p
    ELSE [p EXCEPT !.gamma = OfSRGB, !.xy = OfSRGB,
                   !.cs = @ \cup {"HAVE_INTENT", "HAVE_ENDPOINTS", "HAVE_GAMMA",
                                  "MATCHES_sRGB", "FROM_sRGB"}]

(***************************************************************************)
(* The handlers.  Most of them have one shape: without IHDR the file is    *)
(* rejected, and a chunk that is out of place, a duplicate, malformed or   *)
(* damaged is discarded.                                                   *)
(***************************************************************************)
Unless(p, c, discarded, new) ==
    IF "IHDR" \notin p.mode THEN png_error(p)
    ELSE IF discarded \/ ~c.fit \/ ~c.crc THEN p
    ELSE new

Seen(p, names) == p.mode \cap names # {}

png_handle_IHDR(p, c, g) ==
    IF "IHDR" \in p.mode \/ ~c.fit \/ ~c.crc THEN png_error(p)
    ELSE [p EXCEPT !.mode = @ \cup {"IHDR"}, !.color = g.color]

png_handle_IEND(p, c) ==
    IF ~({"IHDR", "IDAT"} \subseteq p.mode) \/ ~c.crc THEN png_error(p)
    ELSE [p EXCEPT !.mode = @ \cup {"AFTER_IDAT", "IEND"}]

\* A palette that is too long is an error in a palette picture, and is not kept
\* in another.
png_set_PLTE(p, num) ==
    IF num = 0 \/ (p.color = "palette" /\ num > MaxPalette) THEN png_error(p)
    ELSE IF num > PNG_MAX_PALETTE_LENGTH THEN p
    ELSE [p EXCEPT !.num_palette = num, !.valid = @ \cup {"PLTE"}]

\* A tRNS chunk seen before is emptied; its flag stays.
png_handle_PLTE(p, c) ==
    LET q == [p EXCEPT !.mode = @ \cup {"PLTE"}]
        num == IF p.color = "palette" /\ c.num > MaxPalette THEN MaxPalette ELSE c.num
    IN  IF "IHDR" \notin p.mode \/ "PLTE" \in p.mode \/ ~c.crc THEN png_error(p)
        ELSE IF "IDAT" \in p.mode THEN p
        ELSE IF p.color = "gray" THEN q
        ELSE IF ~c.fit THEN IF p.color = "palette" THEN png_error(q) ELSE q
        ELSE [png_set_PLTE(q, num) EXCEPT !.num_trans = 0]

png_handle_gAMA(p, c) ==
    Unless(p, c, Seen(p, {"IDAT", "PLTE"}),
           png_colorspace_sync(png_colorspace_set_gamma(p, c.num, TRUE)))

png_handle_sBIT(p, c) ==
    Unless(p, c, Seen(p, {"IDAT", "PLTE"}) \/ "sBIT" \in p.valid, Keep(p, "sBIT"))

png_handle_cHRM(p, c) ==
    Unless(p, c, Seen(p, {"IDAT", "PLTE"}) \/ "INVALID" \in p.cs,
           png_colorspace_sync(
             IF "FROM_cHRM" \in p.cs THEN Invalid(p)
             ELSE png_colorspace_set_chromaticities(
                    [p EXCEPT !.cs = @ \cup {"FROM_cHRM"}], c.num, 1)))

png_handle_sRGB(p, c) ==
    Unless(p, c, Seen(p, {"IDAT", "PLTE"}) \/ "INVALID" \in p.cs,
           png_colorspace_sync(IF "HAVE_INTENT" \in p.cs THEN Invalid(p)
                               ELSE png_colorspace_set_sRGB(p, c.num)))

\* A wrong CRC is only a warning here.
png_handle_iCCP(p, c) ==
    Unless(p, [c EXCEPT !.crc = TRUE],
           Seen(p, {"IDAT", "PLTE"}) \/ "INVALID" \in p.cs,
           png_colorspace_sync(
             IF "HAVE_INTENT" \in p.cs \/ c.num = Nonsense THEN Invalid(p)
             ELSE Keep(IF c.num = OfSRGB THEN png_colorspace_set_sRGB(p, OfSRGB)
                       ELSE p, "iCCP")))

\* The transparency of a palette has at most as many entries as the palette.
Badpng_handle_tRNS(p, c) ==
    Unless(p, c, \/ "IDAT" \in p.mode
                 \/ "tRNS" \in p.valid
                 \/ p.color = "palette" /\ ("PLTE" \notin p.mode \/ c.num = 0),
           [Keep(p, "tRNS") EXCEPT !.num_trans = IF p.color = "palette" THEN c.num ELSE 1])

png_handle_tRNS(p, c) ==
    Unless(p, c, \/ "IDAT" \in p.mode
                 \/ "tRNS" \in p.valid
                 \/ p.color = "palette"
                      /\ ("PLTE" \notin p.mode \/ c.num \notin 1..p.num_palette),
           [Keep(p, "tRNS") EXCEPT !.num_trans = IF p.color = "palette" THEN c.num ELSE 1])

png_handle_bKGD(p, c) ==
    Unless(p, c, \/ "IDAT" \in p.mode
                 \/ "bKGD" \in p.valid
                 \/ p.color = "palette"
                      /\ ("PLTE" \notin p.mode \/ c.num >= p.num_palette),
           [Keep(p, "bKGD") EXCEPT !.bkgd = c.num])

png_handle_hIST(p, c) ==
    Unless(p, c, \/ "IDAT" \in p.mode
                 \/ "PLTE" \notin p.mode
                 \/ "hIST" \in p.valid
                 \/ c.num = 0
                 \/ c.num # p.num_palette,
           [Keep(p, "hIST") EXCEPT !.hist = c.num])

\* One operator for the chunks that are kept once, and only before the image.
png_handle_pHYs(p, c) ==
    Unless(p, c, "IDAT" \in p.mode \/ c.name \in p.valid, Keep(p, c.name))

png_handle_oFFs(p, c) == png_handle_pHYs(p, c)
png_handle_pCAL(p, c) == png_handle_pHYs(p, c)
png_handle_sCAL(p, c) == png_handle_pHYs(p, c)

png_handle_eXIf(p, c) == Unless(p, c, "eXIf" \in p.valid, Keep(p, "eXIf"))

\* PNG_AFTER_IDAT is set before the CRC is looked at.
PastImage(p) ==
    IF Seen(p, {"IDAT"}) THEN [p EXCEPT !.mode = @ \cup {"AFTER_IDAT"}] ELSE p

png_handle_tIME(p, c) ==
    IF "tIME" \in p.valid THEN Unless(p, c, TRUE, p)
    ELSE LET q == PastImage(p) IN Unless(q, c, FALSE, Keep(q, "tIME"))

\* Chunks of which a file may have many are counted; from 1 on they are
\* discarded.
Counted(p) == IF p.cache = 1 THEN p ELSE [p EXCEPT !.cache = @ - 1]

png_handle_sPLT(p, c) ==
    LET q == Counted(p)
    IN  IF q.cache = 1 THEN q ELSE Unless(q, c, "IDAT" \in q.mode, Keep(q, "sPLT"))

png_handle_tEXt(p, c) ==
    LET q == Counted(p)
        r == PastImage(q)
    IN  IF q.cache = 1 THEN q ELSE Unless(r, c, FALSE, [r EXCEPT !.texts = @ + 1])

png_handle_zTXt(p, c) == png_handle_tEXt(p, c)
png_handle_iTXt(p, c) == png_handle_tEXt(p, c)

\* No handling has been asked for: the chunk is skipped, unless it is critical.
png_handle_unknown(p, c) == IF c.name = "CRIT" THEN png_error(p) ELSE p

\* The chain of comparisons that png_read_info, png_read_end and
\* png_push_read_chunk share; known is the set of names it contains.
Dispatch(p, c, g, known) ==
    IF c.name \notin known THEN png_handle_unknown(p, c) ELSE
    CASE c.name = "IHDR" -> png_handle_IHDR(p, c, g)
      [] c.name = "IEND" -> png_handle_IEND(p, c)
      [] c.name = "PLTE" -> png_handle_PLTE(p, c)
      [] c.name = "gAMA" -> png_handle_gAMA(p, c)
      [] c.name = "sBIT" -> png_handle_sBIT(p, c)
      [] c.name = "cHRM" -> png_handle_cHRM(p, c)
      [] c.name = "sRGB" -> png_handle_sRGB(p, c)
      [] c.name = "iCCP" -> png_handle_iCCP(p, c)
      [] c.name = "sPLT" -> png_handle_sPLT(p, c)
      [] c.name = "tRNS" -> png_handle_tRNS(p, c)
      [] c.name = "bKGD" -> png_handle_bKGD(p, c)
      [] c.name = "hIST" -> png_handle_hIST(p, c)
      [] c.name = "pHYs" -> png_handle_pHYs(p, c)
      [] c.name = "oFFs" -> png_handle_oFFs(p, c)
      [] c.name = "pCAL" -> png_handle_pCAL(p, c)
      [] c.name = "sCAL" -> png_handle_sCAL(p, c)
      [] c.name = "eXIf" -> png_handle_eXIf(p, c)
      [] c.name = "tIME" -> png_handle_tIME(p, c)
      [] c.name = "tEXt" -> png_handle_tEXt(p, c)
      [] c.name = "zTXt" -> png_handle_zTXt(p, c)
      [] c.name = "iTXt" -> png_handle_iTXt(p, c)

\* The chunks the sequential reader has a handler for.
KnownChunks == {"IHDR", "IEND", "PLTE", "gAMA", "sBIT", "cHRM", "sRGB", "iCCP",
                "sPLT", "tRNS", "bKGD", "hIST", "pHYs", "oFFs", "pCAL", "sCAL",
                "eXIf", "tIME", "tEXt", "zTXt", "iTXt"}

\* What the handlers leave behind fits together: transparency, background and
\* histogram never refer to entries the palette does not have, and a colour
\* space that was found invalid is not reported.
InfoFits(p) ==
    /\ p.color = "palette" => p.num_trans <= p.num_palette
    /\ p.color = "palette" /\ "bKGD" \in p.valid => p.bkgd < p.num_palette
    /\ "hIST" \in p.valid => p.hist = p.num_palette
    /\ "INVALID" \in p.cs => p.valid \cap {"gAMA", "cHRM", "sRGB", "iCCP"} = {}

=============================================================================
