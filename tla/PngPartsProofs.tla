--------------------------- MODULE PngPartsProofs ---------------------------
(***************************************************************************)
(* What holds of libpng's chunk handlers, of its progressive reader and of *)
(* the writer's chunks, for every file, damaged or not, in whatever pieces *)
(* it comes.                                                               *)
(***************************************************************************)
EXTENDS PngPush, PngWrite, SequenceTheorems, FiniteSetTheorems, WellFoundedInduction, TLAPS

(***************************************************************************)
(* The chunk handlers on their own, with any number of chunks in any       *)
(* order, any of them damaged: what they keep fits together (InfoFits).    *)
(*                                                                         *)
(* InfoFits is not inductive.  That a histogram or a background fits the   *)
(* palette stays true because the palette does not change any more, which  *)
(* is so because they are only kept behind PLTE and a second PLTE is an    *)
(* error; and nothing is kept before IHDR, which sets the colour type.     *)
(***************************************************************************)
VARIABLES png      \* what a reader's handlers keep

ModeFlags == {"IHDR", "PLTE", "IDAT", "AFTER_IDAT", "CHUNK_AFTER_IDAT", "IEND"}

SpaceFlags == {"INVALID", "HAVE_GAMMA", "FROM_gAMA", "HAVE_ENDPOINTS", "FROM_cHRM",
               "HAVE_INTENT", "MATCHES_sRGB", "FROM_sRGB"}

Colors == {"none", "gray", "rgb", "palette"}

Png == [mode : SUBSET ModeFlags, color : Colors, num_palette : Nat, num_trans : Nat,
        valid : SUBSET KnownChunks, bkgd : Nat, hist : Nat, cs : SUBSET SpaceFlags,
        gamma : Nat, xy : Nat, texts : Nat, cache : Int, err : BOOLEAN]

\* What the data of a chunk is made of.
Symbols == Int

\* "CRIT" and "vpAg" stand for the critical and the other unknown chunks.
Chunk == [name : KnownChunks \cup {"IDAT", "CRIT", "vpAg"}, data : Seq(Symbols),
          crc : BOOLEAN, fit : BOOLEAN, num : Nat]

\* A chunk of any kind comes, to either reader.
Handle ==
    \E c \in Chunk, g \in [color : Colors], known \in {KnownChunks, KnownChunks \ {"eXIf"}} :
      png' = Dispatch(png, c, g, known)

\* The readers themselves note how far they are in the image data.
Mark == \E m \in SUBSET {"IDAT", "AFTER_IDAT", "CHUNK_AFTER_IDAT"} :
    png' = [png EXCEPT !.mode = @ \cup m]

HandlerSpec == png = NewPng /\ [][Handle \/ Mark]_png

Order(p) ==
    /\ "IHDR" \notin p.mode => p.valid = {} /\ p.num_trans = 0
    /\ p.color = "palette" /\ "bKGD" \in p.valid => "PLTE" \in p.mode
    /\ "hIST" \in p.valid => "PLTE" \in p.mode

PngInv(p) == p \in Png /\ Order(p) /\ InfoFits(p)

\* An error changes nothing else (png_error).
LEMMA ErrorKeeps ==
    ASSUME NEW p, PngInv(p)
    PROVE  PngInv(png_error(p))
BY Zenon DEF PngInv, Order, InfoFits, Png, png_error

\* A chunk that is discarded changes nothing.
LEMMA UnlessKeeps ==
    ASSUME NEW p, PngInv(p), NEW c, NEW discarded, NEW new,
           "IHDR" \in p.mode /\ ~discarded => PngInv(new)
    PROVE  PngInv(Unless(p, c, discarded, new))
BY ErrorKeeps DEF Unless

\* Keeping a chunk that is neither bKGD nor hIST nor about the colour space.
LEMMA KeepKeeps ==
    ASSUME NEW p, PngInv(p), "IHDR" \in p.mode,
           NEW name \in KnownChunks \ {"bKGD", "hIST", "gAMA", "cHRM", "sRGB", "iCCP"}
    PROVE  PngInv(Keep(p, name))
BY DEF PngInv, Order, InfoFits, Png, Keep

\* After png_colorspace_sync the flags agree with the colour space, whatever
\* they were before.
LEMMA SyncKeeps ==
    ASSUME NEW p, p \in Png, Order(p), "IHDR" \in p.mode,
           p.color = "palette" => p.num_trans <= p.num_palette,
           p.color = "palette" /\ "bKGD" \in p.valid => p.bkgd < p.num_palette,
           "hIST" \in p.valid => p.hist = p.num_palette
    PROVE  PngInv(png_colorspace_sync(p))
<1> DEFINE V == IF "INVALID" \in p.cs THEN p.valid \ {"gAMA", "cHRM", "sRGB", "iCCP"}
                ELSE (p.valid \ {"gAMA", "cHRM", "sRGB"}) \cup Reported(p.cs)
<1>1. Reported(p.cs) \subseteq {"gAMA", "cHRM", "sRGB"}
  BY DEF Reported
<1>2. /\ V \in SUBSET KnownChunks
      /\ "INVALID" \in p.cs => V \cap {"gAMA", "cHRM", "sRGB", "iCCP"} = {}
      /\ "bKGD" \in V <=> "bKGD" \in p.valid
      /\ "hIST" \in V <=> "hIST" \in p.valid
  <2>1. p.valid \in SUBSET KnownChunks
    BY DEF Png
  <2>2. CASE "INVALID" \in p.cs
    BY <2>1, <2>2
  <2>3. CASE "INVALID" \notin p.cs
    <3>1. V = (p.valid \ {"gAMA", "cHRM", "sRGB"}) \cup Reported(p.cs)
      BY <2>3
    <3>2. "bKGD" \notin Reported(p.cs) /\ "hIST" \notin Reported(p.cs)
      BY <1>1
    <3>3. {"gAMA", "cHRM", "sRGB"} \subseteq KnownChunks
      BY DEF KnownChunks
    <3> HIDE DEF V
    <3>4. V \in SUBSET KnownChunks
      BY <1>1, <2>1, <3>1, <3>3
    <3> QED
      BY <2>3, <3>1, <3>2, <3>4
  <2> QED
    BY <2>2, <2>3
<1>3. png_colorspace_sync(p) = [p EXCEPT !.valid = V]
  BY DEF png_colorspace_sync
<1> HIDE DEF V
<1> QED
  BY <1>2, <1>3 DEF PngInv, Order, InfoFits, Png

\* The steps of the colour space change only gamma, xy and its flags.
LEMMA ColorspaceOnly ==
    ASSUME NEW p, PngInv(p), "IHDR" \in p.mode, NEW n \in Nat, NEW reading \in BOOLEAN,
           NEW k \in Nat,
           NEW q \in {p, Invalid(p), png_colorspace_set_gamma(p, n, reading),
                      png_colorspace_set_sRGB(p, n),
                      png_colorspace_set_chromaticities(p, n, k)}
    PROVE  PngInv(png_colorspace_sync(q))
<1>1. /\ q \in Png /\ q.mode = p.mode /\ q.valid = p.valid /\ q.color = p.color
      /\ q.num_trans = p.num_trans /\ q.num_palette = p.num_palette
      /\ q.bkgd = p.bkgd /\ q.hist = p.hist
  <2>1. CASE q = p
    BY <2>1 DEF PngInv
  <2>2. CASE q = Invalid(p)
    BY <2>2 DEF PngInv, Png, SpaceFlags, Invalid
  <2>3. CASE q = png_colorspace_set_gamma(p, n, reading)
    BY <2>3, Zenon DEF PngInv, Png, SpaceFlags, Invalid, png_colorspace_set_gamma
  <2>4. CASE q = png_colorspace_set_sRGB(p, n)
    BY <2>4, Zenon DEF PngInv, Png, SpaceFlags, Invalid, png_colorspace_set_sRGB, OfSRGB
  <2>5. CASE q = png_colorspace_set_chromaticities(p, n, k)
    BY <2>5, Zenon DEF PngInv, Png, SpaceFlags, Invalid, png_colorspace_set_chromaticities
  <2> QED
    BY <2>1, <2>2, <2>3, <2>4, <2>5
<1> QED
  BY <1>1, SyncKeeps DEF PngInv, Order, InfoFits

\* png_handle_IHDR and png_handle_IEND.
LEMMA HeaderAndEnd ==
    ASSUME NEW p, PngInv(p), NEW c \in Chunk, NEW g, g.color \in Colors
    PROVE  PngInv(png_handle_IHDR(p, c, g)) /\ PngInv(png_handle_IEND(p, c))
<1>1. PngInv([p EXCEPT !.mode = @ \cup {"AFTER_IDAT", "IEND"}])
  BY DEF PngInv, Order, InfoFits, Png, ModeFlags
<1>2. ASSUME "IHDR" \notin p.mode
      PROVE  PngInv([p EXCEPT !.mode = @ \cup {"IHDR"}, !.color = g.color])
  <2> DEFINE r == [p EXCEPT !.mode = @ \cup {"IHDR"}, !.color = g.color]
  <2>1. p \in Png /\ p.valid = {} /\ p.num_trans = 0 /\ p.num_palette \in Nat
    BY <1>2 DEF PngInv, Order, Png
  <2>2. /\ r \in Png /\ r.valid = {} /\ r.num_trans = 0 /\ r.num_palette \in Nat
        /\ "IHDR" \in r.mode
    BY <2>1, Zenon DEF Png, ModeFlags
  <2> HIDE DEF r
  <2>3. PngInv(r)
    BY <2>2 DEF PngInv, Order, InfoFits
  <2> QED
    BY <2>3 DEF r
<1> QED
  BY <1>1, <1>2, ErrorKeeps DEF png_handle_IHDR, png_handle_IEND

\* The palette is set once; transparency seen before it is emptied.
LEMMA PaletteKeeps ==
    ASSUME NEW p, PngInv(p), NEW c \in Chunk
    PROVE  PngInv(png_handle_PLTE(p, c))
<1> DEFINE q == [p EXCEPT !.mode = @ \cup {"PLTE"}]
           num == IF p.color = "palette" /\ c.num > MaxPalette THEN MaxPalette ELSE c.num
<1>1. num \in Nat
  BY LimitAssumption DEF Chunk
<1>2. PngInv(q) /\ q \in Png
  BY DEF PngInv, Order, InfoFits, Png, ModeFlags
<1>3. ASSUME "IHDR" \in p.mode, "PLTE" \notin p.mode
      PROVE  PngInv([png_set_PLTE(q, num) EXCEPT !.num_trans = 0])
  <2> HIDE DEF num
  <2> DEFINE wrong == num = 0 \/ (q.color = "palette" /\ num > MaxPalette)
  <2>0. PngInv([q EXCEPT !.num_trans = 0])
    <3> DEFINE r == [q EXCEPT !.num_trans = 0]
    <3>1. /\ r \in Png /\ r.mode = q.mode /\ r.valid = q.valid /\ r.color = q.color
          /\ r.num_trans = 0 /\ r.num_palette = q.num_palette /\ r.num_palette \in Nat
          /\ r.bkgd = q.bkgd /\ r.hist = q.hist /\ r.cs = q.cs
      BY <1>2, Zenon DEF Png
    <3> HIDE DEF q, r
    <3>2. PngInv(r)
      BY <1>2, <3>1 DEF PngInv, Order, InfoFits
    <3> QED BY <3>2 DEF r
  <2>1. CASE wrong
    <3> DEFINE r == [q EXCEPT !.err = TRUE, !.num_trans = 0]
    <3>0. png_set_PLTE(q, num) = [q EXCEPT !.err = TRUE]
      BY <2>1, Zenon DEF png_set_PLTE, png_error
    <3>1. r = [png_set_PLTE(q, num) EXCEPT !.num_trans = 0]
      BY <1>2, <3>0, Zenon DEF Png
    <3>2. /\ r \in Png /\ r.mode = q.mode /\ r.valid = q.valid /\ r.color = q.color
          /\ r.num_trans = 0 /\ r.num_palette = q.num_palette /\ r.num_palette \in Nat
          /\ r.bkgd = q.bkgd /\ r.hist = q.hist /\ r.cs = q.cs
      BY <1>2, Zenon DEF Png
    <3> HIDE DEF q, r
    <3>3. PngInv(r)
      BY <1>2, <3>2 DEF PngInv, Order, InfoFits
    <3> QED
      BY <3>1, <3>3
  <2>2. CASE ~wrong /\ num > PNG_MAX_PALETTE_LENGTH
    BY <2>0, <2>2, Zenon DEF png_set_PLTE
  <2>3. CASE ~wrong /\ ~(num > PNG_MAX_PALETTE_LENGTH)
    <3>1. /\ "hIST" \notin p.valid
          /\ p.color = "palette" => "bKGD" \notin p.valid
      BY <1>3 DEF PngInv, Order
    <3> DEFINE r == [q EXCEPT !.num_palette = num, !.valid = @ \cup {"PLTE"},
                              !.num_trans = 0]
    <3>2. r = [png_set_PLTE(q, num) EXCEPT !.num_trans = 0]
      BY <1>2, <2>3 DEF png_set_PLTE, Png
    <3>3. /\ r \in Png /\ {"IHDR", "PLTE"} \subseteq r.mode
          /\ r.valid = p.valid \cup {"PLTE"} /\ r.color = p.color
          /\ r.num_trans = 0 /\ r.num_palette \in Nat /\ r.cs = p.cs
      BY <1>1, <1>2, <1>3, Zenon DEF PngInv, Png, KnownChunks
    <3> HIDE DEF r
    <3>4. PngInv(r)
      BY <3>1, <3>3 DEF PngInv, Order, InfoFits
    <3> QED
      BY <3>2, <3>4
  <2> QED
    BY <2>1, <2>2, <2>3
<1> QED
  BY <1>2, <1>3, ErrorKeeps DEF png_handle_PLTE

\* The four handlers of the colour space.
LEMMA ColorspaceKeeps ==
    ASSUME NEW p, PngInv(p), NEW c \in Chunk
    PROVE  /\ PngInv(png_handle_gAMA(p, c)) /\ PngInv(png_handle_cHRM(p, c))
           /\ PngInv(png_handle_sRGB(p, c)) /\ PngInv(png_handle_iCCP(p, c))
<1>0. c.num \in Nat /\ OfSRGB \in Nat /\ 1 \in Nat
  BY DEF Chunk, OfSRGB
<1>1. PngInv(png_handle_gAMA(p, c))
  BY <1>0, UnlessKeeps, ColorspaceOnly, Zenon DEF png_handle_gAMA
<1>2. PngInv(png_handle_cHRM(p, c))
  <2> DEFINE f == [p EXCEPT !.cs = @ \cup {"FROM_cHRM"}]
  <2>1. "INVALID" \notin p.cs => PngInv(f) /\ ("IHDR" \in p.mode => "IHDR" \in f.mode)
    BY DEF PngInv, Order, InfoFits, Png, SpaceFlags
  <2> HIDE DEF f
  <2>2. ASSUME "IHDR" \in p.mode, "INVALID" \notin p.cs
        PROVE  PngInv(png_colorspace_sync(
                 IF "FROM_cHRM" \in p.cs THEN Invalid(p)
                 ELSE png_colorspace_set_chromaticities(f, c.num, 1)))
    BY <1>0, <2>1, <2>2, ColorspaceOnly, Zenon
  <2> QED
    BY <2>2, UnlessKeeps, Zenon DEF png_handle_cHRM, f
<1>3. PngInv(png_handle_sRGB(p, c))
  BY <1>0, UnlessKeeps, ColorspaceOnly, Zenon DEF png_handle_sRGB
<1>4. PngInv(png_handle_iCCP(p, c))
  <2> DEFINE q == IF c.num = OfSRGB THEN png_colorspace_set_sRGB(p, OfSRGB) ELSE p
             r == Keep(q, "iCCP")
  <2>1. ASSUME "IHDR" \in p.mode
        PROVE  PngInv(png_colorspace_sync(r))
    <3>1. /\ q \in Png /\ q.mode = p.mode /\ q.valid = p.valid /\ q.color = p.color
          /\ q.num_trans = p.num_trans /\ q.num_palette = p.num_palette
          /\ q.bkgd = p.bkgd /\ q.hist = p.hist
      BY Zenon DEF PngInv, Png, SpaceFlags, Invalid, png_colorspace_set_sRGB, OfSRGB
    <3> HIDE DEF q
    <3>2. /\ r \in Png /\ r.mode = p.mode /\ r.color = p.color
          /\ r.num_trans = p.num_trans /\ r.num_palette = p.num_palette
          /\ r.bkgd = p.bkgd /\ r.hist = p.hist
          /\ "bKGD" \in r.valid <=> "bKGD" \in p.valid
          /\ "hIST" \in r.valid <=> "hIST" \in p.valid
      BY <3>1 DEF Keep, Png, KnownChunks
    <3> QED
      BY <2>1, <3>2, SyncKeeps DEF PngInv, Order, InfoFits
  <2>2. ASSUME "IHDR" \in p.mode
        PROVE  PngInv(png_colorspace_sync(Invalid(p)))
    BY <1>0, <2>2, ColorspaceOnly, Zenon
  <2> QED
    BY <2>1, <2>2, UnlessKeeps DEF png_handle_iCCP
<1> QED
  BY <1>1, <1>2, <1>3, <1>4

\* What refers to the palette is kept only if it fits the palette.
LEMMA PaletteUsersKeep ==
    ASSUME NEW p, PngInv(p), NEW c \in Chunk
    PROVE  /\ PngInv(png_handle_tRNS(p, c)) /\ PngInv(png_handle_bKGD(p, c))
           /\ PngInv(png_handle_hIST(p, c))
<1>1. ASSUME "IHDR" \in p.mode, p.color = "palette" => c.num \in 1..p.num_palette
      PROVE  PngInv([Keep(p, "tRNS") EXCEPT
                     !.num_trans = IF p.color = "palette" THEN c.num ELSE 1])
  <2> DEFINE r == [Keep(p, "tRNS") EXCEPT
                 !.num_trans = IF p.color = "palette" THEN c.num ELSE 1]
  <2>1. /\ r \in Png /\ r.mode = p.mode /\ r.valid = p.valid \cup {"tRNS"}
        /\ r.color = p.color /\ r.cs = p.cs /\ r.num_palette = p.num_palette
        /\ p.num_palette \in Nat /\ c.num \in Nat
        /\ r.num_trans = (IF p.color = "palette" THEN c.num ELSE 1)
        /\ r.bkgd = p.bkgd /\ r.hist = p.hist
    BY <1>1, Zenon DEF PngInv, Png, Keep, Chunk, KnownChunks
  <2> HIDE DEF r
  <2>2. PngInv(r)
    BY <1>1, <2>1 DEF PngInv, Order, InfoFits
  <2> QED
    BY <2>2 DEF r
<1>2. ASSUME "IHDR" \in p.mode,
             p.color = "palette" => "PLTE" \in p.mode /\ ~(c.num >= p.num_palette)
      PROVE  PngInv([Keep(p, "bKGD") EXCEPT !.bkgd = c.num])
  <2> DEFINE r == [Keep(p, "bKGD") EXCEPT !.bkgd = c.num]
  <2>1. /\ r \in Png /\ r.mode = p.mode /\ r.valid = p.valid \cup {"bKGD"}
        /\ r.color = p.color /\ r.cs = p.cs /\ r.num_palette = p.num_palette
        /\ p.num_palette \in Nat /\ c.num \in Nat
        /\ r.num_trans = p.num_trans /\ r.bkgd = c.num /\ r.hist = p.hist
    BY <1>2, Zenon DEF PngInv, Png, Keep, Chunk, KnownChunks
  <2> HIDE DEF r
  <2>2. PngInv(r)
    BY <1>2, <2>1 DEF PngInv, Order, InfoFits
  <2> QED
    BY <2>2 DEF r
<1>3. ASSUME {"IHDR", "PLTE"} \subseteq p.mode, c.num = p.num_palette
      PROVE  PngInv([Keep(p, "hIST") EXCEPT !.hist = c.num])
  <2> DEFINE r == [Keep(p, "hIST") EXCEPT !.hist = c.num]
  <2>1. /\ r \in Png /\ r.mode = p.mode /\ r.valid = p.valid \cup {"hIST"}
        /\ r.color = p.color /\ r.cs = p.cs /\ r.num_palette = p.num_palette
        /\ p.num_palette \in Nat /\ c.num \in Nat
        /\ r.num_trans = p.num_trans /\ r.bkgd = p.bkgd /\ r.hist = c.num
    BY <1>3, Zenon DEF PngInv, Png, Keep, Chunk, KnownChunks
  <2> HIDE DEF r
  <2>2. PngInv(r)
    BY <1>3, <2>1 DEF PngInv, Order, InfoFits
  <2> QED
    BY <2>2 DEF r
<1>4. PngInv(png_handle_tRNS(p, c))
  BY <1>1, UnlessKeeps, Zenon DEF png_handle_tRNS
<1>5. PngInv(png_handle_bKGD(p, c))
  BY <1>2, UnlessKeeps, Zenon DEF png_handle_bKGD
<1>6. PngInv(png_handle_hIST(p, c))
  BY <1>3, UnlessKeeps, Zenon DEF png_handle_hIST
<1> QED
  BY <1>4, <1>5, <1>6

\* Chunks that stand on their own.
LEMMA OthersKeep ==
    ASSUME NEW p, PngInv(p), NEW c \in Chunk
    PROVE  /\ PngInv(png_handle_sBIT(p, c)) /\ PngInv(png_handle_eXIf(p, c))
           /\ c.name \in {"pHYs", "oFFs", "pCAL", "sCAL"} => PngInv(png_handle_pHYs(p, c))
           /\ PngInv(png_handle_tIME(p, c)) /\ PngInv(png_handle_sPLT(p, c))
           /\ PngInv(png_handle_tEXt(p, c)) /\ PngInv(png_handle_unknown(p, c))
<1>1. PngInv(png_handle_sBIT(p, c)) /\ PngInv(png_handle_eXIf(p, c))
  BY UnlessKeeps, KeepKeeps DEF png_handle_sBIT, png_handle_eXIf, KnownChunks
<1>2. c.name \in {"pHYs", "oFFs", "pCAL", "sCAL"} => PngInv(png_handle_pHYs(p, c))
  BY UnlessKeeps, KeepKeeps DEF png_handle_pHYs, KnownChunks
<1>3. \A q : PngInv(q) => PngInv(PastImage(q))
  BY DEF PastImage, Seen, PngInv, Order, InfoFits, Png, ModeFlags
<1>4. PngInv(Counted(p))
  BY DEF Counted, PngInv, Order, InfoFits, Png
<1>5. PngInv(png_handle_tIME(p, c))
  BY <1>3, UnlessKeeps, KeepKeeps, Zenon DEF png_handle_tIME, KnownChunks
<1>6. PngInv(png_handle_sPLT(p, c))
  BY <1>4, UnlessKeeps, KeepKeeps DEF png_handle_sPLT, KnownChunks
<1>7. \A q : PngInv(q) => PngInv([q EXCEPT !.texts = @ + 1])
  BY DEF PngInv, Order, InfoFits, Png
<1>8. PngInv(png_handle_tEXt(p, c))
  BY <1>3, <1>4, <1>7, UnlessKeeps, Zenon DEF png_handle_tEXt
<1>9. PngInv(png_handle_unknown(p, c))
  BY ErrorKeeps DEF png_handle_unknown
<1> QED
  BY <1>1, <1>2, <1>5, <1>6, <1>8, <1>9

\* Every chunk, whichever of the two readers it comes to.
LEMMA DispatchKeeps ==
    ASSUME NEW p, PngInv(p), NEW c \in Chunk, NEW g, g.color \in Colors,
           NEW known \in SUBSET KnownChunks
    PROVE  PngInv(Dispatch(p, c, g, known))
<1>1. CASE c.name \notin known
  BY <1>1, OthersKeep DEF Dispatch
<1>2. CASE c.name \in known
  <2>1. CASE c.name \in {"IHDR", "IEND", "PLTE"}
    BY <1>2, <2>1, HeaderAndEnd, PaletteKeeps DEF Dispatch
  <2>2. CASE c.name \in {"gAMA", "cHRM", "sRGB", "iCCP"}
    BY <1>2, <2>2, ColorspaceKeeps DEF Dispatch
  <2>3. CASE c.name \in {"tRNS", "bKGD", "hIST"}
    BY <1>2, <2>3, PaletteUsersKeep DEF Dispatch
  <2>4. CASE c.name \in {"pHYs", "oFFs", "pCAL", "sCAL"}
    BY <1>2, <2>4, OthersKeep DEF Dispatch, png_handle_oFFs, png_handle_pCAL, png_handle_sCAL
  <2>5. CASE c.name \in {"sBIT", "sPLT", "eXIf", "tIME"}
    BY <1>2, <2>5, OthersKeep DEF Dispatch
  <2>6. CASE c.name \in {"tEXt", "zTXt", "iTXt"}
    BY <1>2, <2>6, OthersKeep DEF Dispatch, png_handle_zTXt, png_handle_iTXt
  <2> QED
    BY <1>2, <2>1, <2>2, <2>3, <2>4, <2>5, <2>6, Zenon DEF KnownChunks
<1> QED
  BY <1>1, <1>2

\* Whatever chunks a file has, how many and in which order, damaged or not, what
\* libpng's handlers report of transparency, background, histogram and colour
\* space fits together.
THEOREM InfoAlwaysFits == HandlerSpec => []InfoFits(png)
<1>1. png = NewPng => PngInv(png)
  BY LimitAssumption
  DEF NewPng, PngInv, Order, InfoFits, Png, Nonsense, Colors
<1>2. PngInv(png) /\ [Handle \/ Mark]_png => PngInv(png)'
  <2> SUFFICES ASSUME PngInv(png), [Handle \/ Mark]_png
               PROVE  PngInv(png')
    BY DEF PngInv, Order, InfoFits, Png
  <2>1. CASE Handle
    BY <2>1, DispatchKeeps DEF Handle
  <2>2. CASE Mark
    BY <2>2 DEF Mark, PngInv, Order, InfoFits, Png, ModeFlags
  <2>3. CASE UNCHANGED png
    BY <2>3
  <2> QED
    BY <2>1, <2>2, <2>3
<1>3. PngInv(png) => InfoFits(png)
  BY DEF PngInv
<1> QED
  BY <1>1, <1>2, <1>3, PTL DEF HandlerSpec

-----------------------------------------------------------------------------
(* Loops.  Every loop of the model is a function of the number of turns.   *)

(* Every nonempty set of naturals has a least element: otherwise the       *)
(* intervals 0..n would have no minimal one among them.                    *)
LEMMA HasLeast ==
  ASSUME NEW S \in SUBSET Nat, S # {}
  PROVE  \E m \in S : \A x \in S : m <= x
<1> DEFINE T == {0..n : n \in S}
<1>1. T \subseteq FiniteSubsetsOf(Nat) /\ T # {}
  <2>1. \A n \in S : 0..n \in FiniteSubsetsOf(Nat)
    BY FS_Interval DEF FiniteSubsetsOf
  <2> QED BY <2>1, Zenon
<1>2. PICK x \in T : \A y \in T : ~(<<y, x>> \in StrictSubsetOrdering(Nat))
  <2> HIDE DEF T
  <2> QED BY <1>1, FS_StrictSubsetOrderingWellFounded, WFMin, Zenon
<1>3. PICK m \in S : x = 0..m
  BY Zenon
<1>4. ASSUME NEW n \in S PROVE m <= n
  <2>1. SUFFICES ASSUME n < m PROVE FALSE
    OBVIOUS
  <2>2. 0..n \in T
    BY Zenon
  <2>3. 0..n \subseteq 0..m /\ 0..n # 0..m /\ 0..n \in SUBSET Nat /\ 0..m \in SUBSET Nat
    BY <2>1
  <2> QED BY <1>2, <1>3, <2>2, <2>3, Zenon DEF StrictSubsetOrdering
<1> QED BY <1>4, Zenon

(* Induction up to k, with the set of the numbers for which a claim holds. *)
LEMMA Upwards ==
  ASSUME NEW k \in Nat, NEW G, 0 \in G, \A n \in 1..k : n - 1 \in G => n \in G
  PROVE  0..k \subseteq G
<1> DEFINE Bad == {n \in 0..k : n \notin G}
<1>1. SUFFICES ASSUME Bad # {} PROVE FALSE
  BY Zenon
<1>2. PICK m \in Bad : \A x \in Bad : m <= x
  <2>1. Bad \in SUBSET Nat
    OBVIOUS
  <2> HIDE DEF Bad
  <2> QED BY <1>1, <2>1, HasLeast, Zenon
<1>3. m \in 0..k /\ m \notin G
  BY <1>2, Zenon
<1>4. m \in 1..k /\ m - 1 \in 0..k /\ ~(m <= m - 1)
  BY <1>3
<1>5. m - 1 \in G
  BY <1>2, <1>4, Zenon
<1> QED BY <1>3, <1>4, <1>5, Zenon

(* What a turn of each loop makes of x; a is what the loop works on. *)
Turn(loop, a, x, n) ==
    IF loop = "Whole" THEN x \o Bytes(n, ChunkSize(a[n]))
    ELSE IF loop = "PngSets" THEN PngSet(x, a[n])
    ELSE IF loop = "Times" THEN Once(x, a[1], a[2], a[3])
    ELSE IDATRound(x)

(* g holds what the loop has made of x after 0..k turns. *)
Turns(loop, a, x, k, g) ==
    g = [n \in 0..k |-> IF n = 0 THEN x ELSE Turn(loop, a, g[n - 1], n)]

(* There is such a function for every k: one for k - 1 can be extended. *)
LEMMA TurnsExist ==
  ASSUME NEW loop, NEW a, NEW x, NEW k \in Nat
  PROVE  \E g : Turns(loop, a, x, k, g)
<1> DEFINE G == {n \in Nat : \E g : Turns(loop, a, x, n, g)}
<1>1. 0 \in G
  <2> DEFINE g == [n \in 0..0 |-> x]
  <2>1. \A n \in 0..0 : n = 0
    OBVIOUS
  <2>2. g = [n \in 0..0 |-> IF n = 0 THEN x ELSE Turn(loop, a, g[n - 1], n)]
    BY <2>1, Zenon
  <2> HIDE DEF g
  <2>3. Turns(loop, a, x, 0, g)
    BY <2>2, Zenon DEF Turns
  <2>4. 0 \in Nat
    OBVIOUS
  <2> QED BY <2>3, <2>4, Zenon
<1>2. ASSUME NEW m \in 1..k, m - 1 \in G PROVE m \in G
  <2>1. PICK g : Turns(loop, a, x, m - 1, g)
    BY <1>2, Zenon
  <2> DEFINE h == [n \in 0..m |-> IF n = m THEN Turn(loop, a, g[m - 1], m) ELSE g[n]]
  <2>2. ASSUME NEW n \in 0..m PROVE h[n] = IF n = 0 THEN x ELSE Turn(loop, a, h[n - 1], n)
    <3>1. CASE n = m
      <4>1. m - 1 \in 0..m /\ m - 1 # m /\ n # 0
        BY <3>1
      <4>2. h[m - 1] = g[m - 1] /\ h[m] = Turn(loop, a, g[m - 1], m)
        BY <4>1, <3>1, Zenon
      <4> HIDE DEF h
      <4> QED BY <4>1, <4>2, <3>1, Zenon
    <3>2. CASE n # m
      <4>1. n \in 0..(m - 1)
        BY <3>2
      <4>2. h[n] = g[n] /\ g[n] = IF n = 0 THEN x ELSE Turn(loop, a, g[n - 1], n)
        BY <2>1, <3>2, <4>1, Zenon DEF Turns
      <4>3. n # 0 => n - 1 \in 0..m /\ n - 1 # m
        OBVIOUS
      <4>4. n # 0 => h[n - 1] = g[n - 1]
        BY <4>3, Zenon
      <4> HIDE DEF h
      <4> QED BY <4>2, <4>4, Zenon
    <3> QED BY <3>1, <3>2, Zenon
  <2>3. h = [n \in 0..m |-> h[n]]
    BY Zenon
  <2> HIDE DEF h
  <2>4. Turns(loop, a, x, m, h)
    BY <2>2, <2>3, Zenon DEF Turns
  <2>5. m \in Nat
    OBVIOUS
  <2> QED BY <2>4, <2>5, Zenon
<1> HIDE DEF G
<1>3. k \in 0..k /\ 0..k \subseteq G
  BY <1>1, <1>2, Upwards
<1> QED BY <1>3, Zenon DEF G

LEMMA WholeLoop ==
  ASSUME NEW s, Len(s) \in Nat
  PROVE  \E g : /\ g[0] = Bytes(0, SignatureSize) /\ Whole(s) = g[Len(s)]
                /\ \A n \in 1..Len(s) : g[n] = g[n - 1] \o Bytes(n, ChunkSize(s[n]))
<1> DEFINE F == CHOOSE f : f = [n \in 0..Len(s) |-> IF n = 0 THEN Bytes(0, SignatureSize)
                                   ELSE f[n - 1] \o Bytes(n, ChunkSize(s[n]))]
<1>1. PICK g : Turns("Whole", s, Bytes(0, SignatureSize), Len(s), g)
  BY TurnsExist, Zenon
<1>2. g = [n \in 0..Len(s) |-> IF n = 0 THEN Bytes(0, SignatureSize)
                                ELSE g[n - 1] \o Bytes(n, ChunkSize(s[n]))]
  BY <1>1, Zenon DEF Turns, Turn
<1>3. F = [n \in 0..Len(s) |-> IF n = 0 THEN Bytes(0, SignatureSize)
                                ELSE F[n - 1] \o Bytes(n, ChunkSize(s[n]))]
  BY <1>2, Zenon
<1>4. Whole(s) = F[Len(s)]
  BY Zenon DEF Whole
<1> HIDE DEF F
<1>5. 0 \in 0..Len(s) /\ \A n \in 1..Len(s) : n \in 0..Len(s) /\ n # 0
  OBVIOUS
<1>6. F[0] = Bytes(0, SignatureSize) /\ \A n \in 1..Len(s) : F[n] = F[n - 1] \o Bytes(n, ChunkSize(s[n]))
  BY <1>3, <1>5, Zenon
<1> QED BY <1>4, <1>6, Zenon

(* g holds the info after 0..Len(ss) calls. *)
SetsRun(p, ss, g) ==
    /\ g[0] = p /\ PngSets(p, ss) = g[Len(ss)]
    /\ \A n \in 1..Len(ss) : g[n] = PngSet(g[n - 1], ss[n])

LEMMA PngSetsLoop ==
  ASSUME NEW p, NEW ss, Len(ss) \in Nat
  PROVE  \E g : SetsRun(p, ss, g)
<1> DEFINE F == CHOOSE f : f = [n \in 0..Len(ss) |-> IF n = 0 THEN p
                                   ELSE PngSet(f[n - 1], ss[n])]
<1>1. PICK g : Turns("PngSets", ss, p, Len(ss), g)
  BY TurnsExist, Zenon
<1>2. g = [n \in 0..Len(ss) |-> IF n = 0 THEN p ELSE PngSet(g[n - 1], ss[n])]
  BY <1>1, Zenon DEF Turns, Turn
<1>3. F = [n \in 0..Len(ss) |-> IF n = 0 THEN p ELSE PngSet(F[n - 1], ss[n])]
  BY <1>2, Zenon
<1>4. PngSets(p, ss) = F[Len(ss)]
  BY Zenon DEF PngSets
<1> HIDE DEF F
<1>5. 0 \in 0..Len(ss) /\ \A n \in 1..Len(ss) : n \in 0..Len(ss) /\ n # 0
  OBVIOUS
<1>6. F[0] = p /\ \A n \in 1..Len(ss) : F[n] = PngSet(F[n - 1], ss[n])
  BY <1>3, <1>5, Zenon
<1>7. SetsRun(p, ss, F)
  BY <1>4, <1>6, Zenon DEF SetsRun
<1> QED BY <1>7, Zenon

(* g holds the reader after 0..k turns of the loop. *)
TimesRun(s, k, p, row, real, g) ==
    /\ g[0] = s /\ Times(s, k, p, row, real) = g[k]
    /\ \A n \in 1..k : g[n] = Once(g[n - 1], p, row, real)

LEMMA TimesLoop ==
  ASSUME NEW s, NEW k \in Nat, NEW p, NEW row, NEW real
  PROVE  \E g : TimesRun(s, k, p, row, real, g)
<1> DEFINE F == CHOOSE f : f = [n \in 0..k |-> IF n = 0 THEN s
                                   ELSE Once(f[n - 1], p, row, real)]
           a == <<p, row, real>>
<1>0. a[1] = p /\ a[2] = row /\ a[3] = real
  OBVIOUS
<1> HIDE DEF a
<1>1. PICK g : Turns("Times", a, s, k, g)
  BY TurnsExist, Zenon
<1>2. g = [n \in 0..k |-> IF n = 0 THEN s ELSE Once(g[n - 1], p, row, real)]
  BY <1>0, <1>1, Zenon DEF Turns, Turn
<1>3. F = [n \in 0..k |-> IF n = 0 THEN s ELSE Once(F[n - 1], p, row, real)]
  BY <1>2, Zenon
<1>4. Times(s, k, p, row, real) = F[k]
  BY Zenon DEF Times
<1> HIDE DEF F
<1>5. 0 \in 0..k /\ \A n \in 1..k : n \in 0..k /\ n # 0
  OBVIOUS
<1>6. F[0] = s /\ \A n \in 1..k : F[n] = Once(F[n - 1], p, row, real)
  BY <1>3, <1>5, Zenon
<1> QED BY <1>4, <1>6, Zenon DEF TimesRun

IDATRun(s, in, k, g) ==
    /\ g[0] = [s |-> s, in |-> in] /\ png_process_IDAT_data(s, in) = g[k].s
    /\ \A n \in 1..k : g[n] = IDATRound(g[n - 1])

LEMMA IDATLoop ==
  ASSUME NEW s, NEW in, NEW k \in Nat, k = IDATRounds(in)
  PROVE  \E g : IDATRun(s, in, k, g)
<1> DEFINE F == CHOOSE f : f = [n \in 0..k |-> IF n = 0 THEN [s |-> s, in |-> in]
                                   ELSE IDATRound(f[n - 1])]
<1>1. PICK g : Turns("IDAT", in, [s |-> s, in |-> in], k, g)
  BY TurnsExist, Zenon
<1>2. g = [n \in 0..k |-> IF n = 0 THEN [s |-> s, in |-> in] ELSE IDATRound(g[n - 1])]
  BY <1>1, Zenon DEF Turns, Turn
<1>3. F = [n \in 0..k |-> IF n = 0 THEN [s |-> s, in |-> in] ELSE IDATRound(F[n - 1])]
  BY <1>2, Zenon
<1>4. png_process_IDAT_data(s, in) = F[k].s
  BY Zenon DEF png_process_IDAT_data
<1> HIDE DEF F
<1>5. 0 \in 0..k /\ \A n \in 1..k : n \in 0..k /\ n # 0
  OBVIOUS
<1>6. F[0] = [s |-> s, in |-> in] /\ \A n \in 1..k : F[n] = IDATRound(F[n - 1])
  BY <1>3, <1>5, Zenon
<1> QED BY <1>4, <1>6, Zenon DEF IDATRun

-----------------------------------------------------------------------------
(* The bytes of the file. *)

Byte == (0..Len(stream)) \X Nat

(* r is the part of s from m to n. *)
Part(r, s, m, n, S) ==
    r \in Seq(S) /\ Len(r) = n - m + 1 /\ \A i \in 1..Len(r) : r[i] = s[m + i - 1]

LEMMA SubSeqIsPart ==
  ASSUME NEW S, NEW s, NEW m \in Int, NEW n \in Int, m - 1 <= n, \A i \in m..n : s[i] \in S
  PROVE  Part(SubSeq(s, m, n), s, m, n, S)
BY SubSeqProperties DEF Part

LEMMA BytesAreSeq ==
  ASSUME NEW c, NEW n \in Nat, NEW S, \A i \in 1..n : <<c, i>> \in S
  PROVE  Bytes(c, n) \in Seq(S) /\ Len(Bytes(c, n)) = n
BY DEF Bytes

LEMMA WholeIsBytes ==
  ASSUME NEW s \in Seq(Chunk)
  PROVE  Whole(s) \in Seq((0..Len(s)) \X Nat)
<1>1. PICK k \in Nat : k = Len(s)
  BY LenProperties, Zenon
<1> DEFINE S == (0..k) \X Nat
<1>2. PICK g : /\ g[0] = Bytes(0, SignatureSize) /\ Whole(s) = g[k]
              /\ \A n \in 1..k : g[n] = g[n - 1] \o Bytes(n, ChunkSize(s[n]))
  BY <1>1, WholeLoop, Zenon
<1> DEFINE G == {n \in 0..k : g[n] \in Seq(S)}
<1>3. 0 \in G
  <2>1. 0 \in 0..k /\ 2 \in Nat /\ \A i \in 1..2 : <<0, i>> \in S
    OBVIOUS
  <2> HIDE DEF S
  <2>2. Bytes(0, 2) \in Seq(S)
    BY <2>1, BytesAreSeq, Zenon
  <2>3. g[0] = Bytes(0, 2)
    BY <1>2, Zenon DEF SignatureSize
  <2> QED BY <2>1, <2>2, <2>3, Zenon
<1>4. ASSUME NEW n \in 1..k, n - 1 \in G PROVE n \in G
  <2>1. n \in 0..k /\ n \in 1..Len(s)
    BY <1>1
  <2>2. s[n].data \in Seq(Symbols)
    <3>1. s[n] \in Chunk
      BY <2>1, ElementOfSeq, Zenon
    <3> QED BY <3>1, Zenon DEF Chunk
  <2>3. PICK m \in Nat : m = Len(s[n].data)
    BY <2>2, LenProperties, Zenon
  <2>4. PICK z \in Nat : z = ChunkSize(s[n])
    <3>1. 2 + m + 2 \in Nat
      OBVIOUS
    <3>2. ChunkSize(s[n]) = 2 + m + 2
      BY <2>3, Zenon DEF ChunkSize, HeaderSize, CrcSize
    <3> QED BY <3>1, <3>2, Zenon
  <2>5. \A i \in 1..z : <<n, i>> \in S
    BY <2>1
  <2> HIDE DEF S
  <2>6. Bytes(n, z) \in Seq(S)
    BY <2>5, BytesAreSeq, Zenon
  <2>7. g[n - 1] \in Seq(S)
    BY <1>4, Zenon
  <2>8. g[n] = g[n - 1] \o Bytes(n, z)
    BY <1>2, <2>4, Zenon
  <2> QED BY <2>1, <2>6, <2>7, <2>8, ConcatProperties, Zenon
<1> HIDE DEF G
<1>5. k \in 0..k /\ 0..k \subseteq G
  BY <1>3, <1>4, Upwards
<1> QED BY <1>1, <1>2, <1>5, Zenon DEF G

(* The file is as long as cut says, and its bytes are of its chunks. *)
FileThere == stream \in Seq(Chunk) /\ cut \in 0..Len(Whole(stream))

LEMMA FileIs ==
  ASSUME FileThere
  PROVE  File \in Seq(Byte) /\ Len(File) = cut /\ cut \in Nat
<1>1. PICK w \in Seq(Byte) : w = Whole(stream)
  BY WholeIsBytes, Zenon DEF FileThere, Byte
<1>2. PICK l \in Nat : l = Len(w)
  BY LenProperties, Zenon
<1>3. cut \in 0..l
  BY <1>1, <1>2, Zenon DEF FileThere
<1>4. 1 \in Int /\ cut \in Int /\ cut \in Nat /\ cut - 1 + 1 = cut
      /\ 1 - 1 <= cut /\ \A i \in 1..cut : i \in 1..l
  BY <1>3
<1>5. \A i \in 1..cut : w[i] \in Byte
  BY <1>2, <1>4, ElementOfSeq, Zenon
<1>6. Part(SubSeq(w, 1, cut), w, 1, cut, Byte)
  BY <1>4, <1>5, SubSeqIsPart, Zenon
<1> QED BY <1>1, <1>4, <1>6, Zenon DEF File, Part

(* q is what the file holds behind its first a bytes. *)
Piece(q, a) == q \in Seq(Byte) /\ \A i \in 1..Len(q) : q[i] = File[a + i]

LEMMA PieceLen ==
  ASSUME NEW q, NEW a, Piece(q, a)
  PROVE  Len(q) \in Nat
BY LenProperties, Zenon DEF Piece

LEMMA NoPiece ==
  ASSUME NEW a
  PROVE  Piece(<<>>, a) /\ Len(<<>>) = 0
<1>1. \A i : i \notin 1..0
  OBVIOUS
<1> QED BY <1>1, EmptySeq, Zenon DEF Piece

LEMMA PieceDrop ==
  ASSUME NEW q, NEW a \in Nat, Piece(q, a), NEW k \in 0..Len(q)
  PROVE  Piece(SubSeq(q, k + 1, Len(q)), a + k) /\ Len(SubSeq(q, k + 1, Len(q))) = Len(q) - k
<1>1. PICK l \in Nat : l = Len(q)
  BY PieceLen, Zenon
<1>2. k \in 0..l /\ k + 1 \in Int /\ l \in Int /\ (k + 1) - 1 <= l /\ \A i \in (k + 1)..l : i \in 1..l
  BY <1>1
<1>3. q \in Seq(Byte) /\ \A i \in 1..l : q[i] \in Byte
  BY <1>1, ElementOfSeq, Zenon DEF Piece
<1> DEFINE r == SubSeq(q, k + 1, l)
<1>4. Part(r, q, k + 1, l, Byte)
  BY <1>2, <1>3, SubSeqIsPart, Zenon
<1> HIDE DEF r
<1>5. Len(r) = l - k /\ Len(r) \in Nat
  <2>1. Len(r) = l - (k + 1) + 1
    BY <1>4, Zenon DEF Part
  <2> QED BY <1>2, <2>1
<1>6. ASSUME NEW i \in 1..Len(r) PROVE r[i] = File[(a + k) + i]
  <2>1. (k + 1) + i - 1 \in 1..l
    BY <1>2, <1>5
  <2>2. a + ((k + 1) + i - 1) = (a + k) + i
    BY <1>2, <1>5
  <2> QED BY <1>1, <1>4, <2>1, <2>2, Zenon DEF Piece, Part
<1> QED BY <1>1, <1>4, <1>5, <1>6, Zenon DEF Piece, Part, r

LEMMA PieceTake ==
  ASSUME NEW q, NEW a \in Nat, Piece(q, a), NEW k \in 0..Len(q)
  PROVE  Piece(SubSeq(q, 1, k), a) /\ Len(SubSeq(q, 1, k)) = k
<1>1. PICK l \in Nat : l = Len(q)
  BY PieceLen, Zenon
<1>2. k \in 0..l /\ 1 \in Int /\ k \in Int /\ 1 - 1 <= k /\ \A i \in 1..k : i \in 1..l
  BY <1>1
<1>3. q \in Seq(Byte) /\ \A i \in 1..l : q[i] \in Byte
  BY <1>1, ElementOfSeq, Zenon DEF Piece
<1> DEFINE r == SubSeq(q, 1, k)
<1>4. Part(r, q, 1, k, Byte)
  BY <1>2, <1>3, SubSeqIsPart, Zenon
<1> HIDE DEF r
<1>5. k - 1 + 1 = k
  BY <1>2
<1>7. Len(r) = k
  BY <1>4, <1>5, Zenon DEF Part
<1>6. ASSUME NEW i \in 1..Len(r) PROVE r[i] = File[a + i]
  <2>1. i \in 1..l /\ 1 + i - 1 = i
    BY <1>2, <1>7
  <2> QED BY <1>1, <1>4, <2>1, Zenon DEF Piece, Part
<1> QED BY <1>4, <1>6, <1>7, Zenon DEF Piece, Part, r

LEMMA PieceConcat ==
  ASSUME NEW q, NEW r, NEW a \in Nat, Piece(q, a), Piece(r, a + Len(q))
  PROVE  Piece(q \o r, a) /\ Len(q \o r) = Len(q) + Len(r)
<1>1. PICK l \in Nat, m \in Nat : l = Len(q) /\ m = Len(r)
  BY PieceLen, Zenon
<1>2. q \in Seq(Byte) /\ r \in Seq(Byte)
  BY Zenon DEF Piece
<1>3. /\ q \o r \in Seq(Byte) /\ Len(q \o r) = l + m
      /\ \A i \in 1..(l + m) : (q \o r)[i] = IF i <= l THEN q[i] ELSE r[i - l]
  BY <1>1, <1>2, ConcatProperties, Zenon
<1>4. ASSUME NEW i \in 1..(l + m) PROVE (q \o r)[i] = File[a + i]
  <2>1. (i <= l => i \in 1..l) /\ (~(i <= l) => i - l \in 1..m /\ (a + l) + (i - l) = a + i)
    OBVIOUS
  <2> QED BY <1>1, <1>3, <2>1, Zenon DEF Piece
<1> QED BY <1>1, <1>3, <1>4, Zenon DEF Piece

(* The piece from byte a + 1 to byte b is a subsequence of the file. *)
LEMMA PieceIsPart ==
  ASSUME FileThere, NEW q, NEW a \in Nat, NEW b \in 0..cut, Piece(q, a), a + Len(q) = b
  PROVE  SubSeq(File, a + 1, b) = q
<1>1. PICK l \in Nat : l = Len(q)
  BY PieceLen, Zenon
<1>2. File \in Seq(Byte) /\ Len(File) = cut /\ cut \in Nat
  BY FileIs, Zenon
<1>3. a + l = b /\ a + 1 \in Int /\ b \in Int /\ (a + 1) - 1 <= b /\ \A i \in (a + 1)..b : i \in 1..cut
  BY <1>1, <1>2
<1>4. \A i \in (a + 1)..b : File[i] \in Byte
  BY <1>2, <1>3, ElementOfSeq, Zenon
<1> DEFINE r == SubSeq(File, a + 1, b)
<1>5. Part(r, File, a + 1, b, Byte)
  BY <1>3, <1>4, SubSeqIsPart, Zenon
<1> HIDE DEF r
<1>6. b - (a + 1) + 1 = l /\ \A i \in 1..l : (a + 1) + i - 1 = a + i
  BY <1>3
<1>7. Len(r) = l /\ \A i \in 1..l : r[i] = q[i]
  BY <1>1, <1>5, <1>6, Zenon DEF Piece, Part
<1>8. q \in Seq(Byte) /\ r \in Seq(Byte)
  BY <1>5, Zenon DEF Piece, Part
<1>9. r = q
  BY <1>1, <1>7, <1>8, SeqEqual, Zenon
<1> QED BY <1>9, Zenon DEF r

(* What the application hands over is a piece of the file. *)
LEMMA PartIsPiece ==
  ASSUME FileThere, NEW a \in Nat, NEW b \in 0..cut, a <= b
  PROVE  Piece(SubSeq(File, a + 1, b), a) /\ Len(SubSeq(File, a + 1, b)) = b - a
<1>1. File \in Seq(Byte) /\ Len(File) = cut /\ cut \in Nat
  BY FileIs, Zenon
<1>2. a + 1 \in Int /\ b \in Int /\ (a + 1) - 1 <= b /\ \A i \in (a + 1)..b : i \in 1..cut
  BY <1>1
<1>3. \A i \in (a + 1)..b : File[i] \in Byte
  BY <1>1, <1>2, ElementOfSeq, Zenon
<1> DEFINE r == SubSeq(File, a + 1, b)
<1>4. Part(r, File, a + 1, b, Byte)
  BY <1>2, <1>3, SubSeqIsPart, Zenon
<1> HIDE DEF r
<1>5. b - (a + 1) + 1 = b - a /\ \A i \in 1..(b - a) : (a + 1) + i - 1 = a + i
  BY <1>1
<1> QED BY <1>4, <1>5, Zenon DEF Piece, Part, r

-----------------------------------------------------------------------------
(* The buffers of the progressive reader. *)

PsFields == {"mode", "save", "cur", "size", "fed", "taken", "sig", "header", "at", "len",
             "idat", "init", "z", "ended", "room", "buf", "row", "pass", "paused", "calls",
             "pic", "png"}

IsPs(s) == DOMAIN s = PsFields

(* There is something to use: what is saved and the rest of the piece are  *)
(* the file from the last byte used to the last one handed over.           *)
Live(s) ==
    /\ s.taken \in Nat /\ s.fed \in Nat /\ s.fed <= cut
    /\ Piece(s.save, s.taken) /\ Piece(s.cur, s.taken + Len(s.save))
    /\ s.size = Len(s.save) + Len(s.cur) /\ s.taken + s.size = s.fed

(* Everything is saved, until the next piece comes. *)
Settled(s) ==
    /\ s.taken \in Nat /\ s.fed \in Nat /\ s.fed <= cut
    /\ Piece(s.save, s.taken) /\ s.taken + Len(s.save) = s.fed
    /\ s.size = 0

(* The numbers of a reader with something to use. *)
LEMMA LiveNumbers ==
  ASSUME NEW s, Live(s)
  PROVE  \E a, b, k, m \in Nat :
           /\ a = s.taken /\ b = s.fed /\ k = Len(s.save) /\ m = Len(s.cur)
           /\ s.size = k + m /\ a + (k + m) = b /\ b <= cut
<1>1. Len(s.save) \in Nat /\ Len(s.cur) \in Nat
  BY PieceLen, Zenon DEF Live
<1> QED BY <1>1, Zenon DEF Live

(* Nothing but the buffers is different in t. *)
Same(s, t) ==
    /\ IsPs(t) /\ t.mode = s.mode /\ t.sig = s.sig /\ t.header = s.header /\ t.at = s.at
    /\ t.len = s.len /\ t.idat = s.idat /\ t.pass = s.pass /\ t.png = s.png

(* Taking n bytes: t has that many fewer, and they are the next of the     *)
(* file.                                                                   *)
Filled(s, n, t) == Same(s, t) /\ Live(t) /\ t.size \in Nat /\ t.size + n = s.size

Split(n, l, m, k, j) ==
    /\ k = Min2(n, l) /\ j = Min2(n - k, m) /\ k + j = n
    /\ k \in 0..l /\ j \in 0..m /\ (k < l => j = 0)

LEMMA FillSplit ==
  ASSUME NEW n \in Nat, NEW l \in Nat, NEW m \in Nat, n <= l + m
  PROVE  \E k, j \in Nat : Split(n, l, m, k, j)
<1>1. CASE n < l
  <2>1. Min2(n, l) = n /\ Min2(n - n, m) = 0
    BY <1>1 DEF Min2
  <2>2. Split(n, l, m, n, 0)
    BY <1>1, <2>1 DEF Split
  <2> QED BY <2>2
<1>2. CASE ~(n < l)
  <2>1. Min2(n, l) = l /\ Min2(n - l, m) = n - l /\ n - l \in Nat
    BY <1>2 DEF Min2
  <2>2. Split(n, l, m, l, n - l)
    BY <1>2, <2>1 DEF Split
  <2> QED BY <2>1, <2>2
<1> QED BY <1>1, <1>2

Holds(s, n) == n <= s.size

LEMMA FillTakes ==
  ASSUME NEW s, IsPs(s), Live(s), NEW n \in Nat, Holds(s, n)
  PROVE  /\ Filled(s, n, png_push_fill_buffer(s, n).s)
         /\ Piece(png_push_fill_buffer(s, n).bytes, s.taken)
         /\ Len(png_push_fill_buffer(s, n).bytes) = n
<1>1. PICK a, b, l, m \in Nat :
        /\ a = s.taken /\ b = s.fed /\ l = Len(s.save) /\ m = Len(s.cur)
        /\ s.size = l + m /\ a + (l + m) = b /\ b <= cut
  BY LiveNumbers, Zenon
<1>2. PICK k, j \in Nat : Split(n, l, m, k, j)
  BY <1>1, FillSplit, Zenon DEF Holds
<1>3. a + (l + m) = b
  BY <1>1, Zenon
<1>4. k + j = n /\ (k < l => j = 0)
  BY <1>2, Zenon DEF Split
<1>5. k \in 0..l /\ j \in 0..m /\ a + l \in Nat
  BY <1>2 DEF Split
<1> DEFINE p == SubSeq(s.save, k + 1, Len(s.save))
           q == SubSeq(s.cur, j + 1, Len(s.cur))
           z == (l + m) - k - j
           e == a + k + j
           t == [s EXCEPT !.save = p, !.cur = q, !.size = z, !.taken = e]
           bytes == SubSeq(s.save, 1, k) \o SubSeq(s.cur, 1, j)
<1>6. png_push_fill_buffer(s, n).s = t /\ png_push_fill_buffer(s, n).bytes = bytes
  BY <1>1, <1>2, Zenon DEF png_push_fill_buffer, Split, IsPs, PsFields
<1>7. Same(s, t) /\ t.save = p /\ t.cur = q /\ t.size = z /\ t.taken = e /\ t.fed = s.fed
  BY Zenon DEF Same, IsPs, PsFields
<1> HIDE DEF t
<1>8. Piece(p, a + k) /\ Len(p) = l - k
  BY <1>1, <1>5, PieceDrop, Zenon DEF Live
<1>9. Piece(q, (a + l) + j) /\ Len(q) = m - j
  BY <1>1, <1>5, PieceDrop, Zenon DEF Live
<1> HIDE DEF p, q
<1>10. z = (l - k) + (m - j) /\ z \in Nat /\ e = a + n /\ e \in Nat /\ e + z = b /\ z + n = l + m
  BY <1>3, <1>4, <1>5
<1> HIDE DEF z, e
<1>11. Piece(p, e)
  <2>1. CASE k < l
    <3>1. a + k = e
      BY <1>4, <1>10, <2>1
    <3> QED BY <1>8, <3>1, Zenon
  <2>2. CASE k = l
    <3>1. l - k = 0 /\ 1..0 = {}
      BY <2>2
    <3> QED BY <1>8, <3>1, Zenon DEF Piece
  <2> QED BY <1>5, <2>1, <2>2
<1>12. Piece(q, e + Len(p))
  <2>1. (a + l) + j = e + (l - k)
    BY <1>4, <1>5, <1>10
  <2> QED BY <1>8, <1>9, <2>1, Zenon
<1>13. Live(t)
  BY <1>1, <1>7, <1>8, <1>9, <1>10, <1>11, <1>12, Zenon DEF Live
<1>14. Filled(s, n, t)
  BY <1>1, <1>7, <1>10, <1>13, Zenon DEF Filled
<1>15. Piece(bytes, a) /\ Len(bytes) = n
  <2>1. Piece(SubSeq(s.save, 1, k), a) /\ Len(SubSeq(s.save, 1, k)) = k
    BY <1>1, <1>5, PieceTake, Zenon DEF Live
  <2>2. Piece(SubSeq(s.cur, 1, j), a + l) /\ Len(SubSeq(s.cur, 1, j)) = j
    BY <1>1, <1>5, PieceTake, Zenon DEF Live
  <2>3. Piece(SubSeq(s.cur, 1, j), a + k)
    <3>1. CASE k < l
      <4>1. j = 0 /\ 1..0 = {}
        BY <1>4, <3>1
      <4> QED BY <2>2, <4>1, Zenon DEF Piece
    <3>2. CASE k = l
      BY <2>2, <3>2, Zenon
    <3> QED BY <1>5, <3>1, <3>2
  <2> QED BY <1>4, <2>1, <2>2, <2>3, PieceConcat, Zenon
<1> QED BY <1>1, <1>6, <1>14, <1>15, Zenon

(* png_push_save_buffer saves what is left. *)
LEMMA SaveSettles ==
  ASSUME NEW s, IsPs(s), Live(s)
  PROVE  Same(s, png_push_save_buffer(s)) /\ Settled(png_push_save_buffer(s))
<1>1. PICK a, b, l, m \in Nat :
        /\ a = s.taken /\ b = s.fed /\ l = Len(s.save) /\ m = Len(s.cur)
        /\ s.size = l + m /\ a + (l + m) = b /\ b <= cut
  BY LiveNumbers, Zenon
<1> DEFINE t == png_push_save_buffer(s)
<1>2. Same(s, t) /\ t.save = s.save \o s.cur /\ t.size = 0 /\ t.taken = a /\ t.fed = b
  BY <1>1, Zenon DEF png_push_save_buffer, Same, IsPs, PsFields
<1>3. Piece(s.save \o s.cur, a) /\ Len(s.save \o s.cur) = l + m
  BY <1>1, PieceConcat, Zenon DEF Live
<1> HIDE DEF t
<1>4. Settled(t)
  BY <1>1, <1>2, <1>3, Zenon DEF Settled, Live
<1> QED BY <1>2, <1>4, Zenon DEF t

(* A pause keeps the buffers as they are, or leaves everything saved that  *)
(* the application does not hand over again.                               *)
LEMMA PauseKeeps ==
  ASSUME FileThere, NEW s, IsPs(s), Live(s), NEW how \in {"no", "save", "again"}
  PROVE  LET t == png_process_data_pause(s, how)
         IN  Same(s, t) /\ ((Live(t) /\ t.size = s.size) \/ Settled(t))
<1> DEFINE t == png_process_data_pause(s, how)
<1>1. CASE how = "no"
  <2>1. t = s
    BY <1>1, Zenon DEF png_process_data_pause
  <2> QED BY <2>1, Zenon DEF Same
<1>2. CASE how = "save"
  <2> DEFINE u == png_push_save_buffer(s)
  <2>1. Same(s, u) /\ Settled(u)
    BY SaveSettles, Zenon
  <2>2. t = [u EXCEPT !.paused = TRUE]
    BY <1>2 DEF png_process_data_pause
  <2> HIDE DEF u
  <2> QED BY <2>1, <2>2, Zenon DEF Same, Settled, IsPs, PsFields
<1>3. CASE how = "again"
  <2>1. PICK a, b, l, m \in Nat :
          /\ a = s.taken /\ b = s.fed /\ l = Len(s.save) /\ m = Len(s.cur)
          /\ s.size = l + m /\ a + (l + m) = b /\ b <= cut
    BY LiveNumbers, Zenon
  <2> DEFINE f == s.fed - (IF Len(s.save) < s.size THEN s.size - Len(s.save) ELSE 0)
  <2>2. a + l <= cut /\ b - (IF l < l + m THEN (l + m) - l ELSE 0) = a + l /\ a + l \in Nat
    <3>1. cut \in Nat /\ a + (l + m) = b /\ b <= cut
      BY <2>1, FileIs, Zenon
    <3> QED BY <3>1
  <2>6. f = a + l
    BY <2>1, <2>2, Zenon
  <2>3. t = [s EXCEPT !.size = 0, !.fed = f]
    BY <1>3, Zenon DEF png_process_data_pause, IsPs, PsFields
  <2> HIDE DEF f
  <2>4. Same(s, t) /\ t.save = s.save /\ t.size = 0 /\ t.taken = s.taken /\ t.fed = f
    BY <2>3, Zenon DEF Same, IsPs, PsFields
  <2> HIDE DEF t
  <2>5. Settled(t)
    BY <2>1, <2>2, <2>4, <2>6, Zenon DEF Settled, Live
  <2> QED BY <2>4, <2>5, Zenon DEF t
<1> QED BY <1>1, <1>2, <1>3, Zenon

(* The next piece of the file comes behind what is saved. *)
LEMMA RestoreKeeps ==
  ASSUME FileThere, NEW s, IsPs(s), Settled(s), NEW f \in Nat, f = s.fed,
         NEW b \in 0..cut, f <= b
  PROVE  LET t == png_push_restore_buffer(s, SubSeq(File, f + 1, b))
         IN  Same(s, t) /\ Live(t)
<1> DEFINE q == SubSeq(File, f + 1, b)
           t == png_push_restore_buffer(s, q)
<1>1. PICK a, l \in Nat : a = s.taken /\ l = Len(s.save) /\ a + l = f
  BY PieceLen, Zenon DEF Settled
<1>2. Piece(q, f) /\ Len(q) = b - f
  BY <1>1, PartIsPiece, Zenon
<1> HIDE DEF q
<1>0. cut \in Nat
  BY FileIs, Zenon
<1>3. PICK n \in Nat : n = Len(q) /\ f + n = b /\ b \in Nat /\ b <= cut /\ n + l = l + n
                      /\ a + (l + n) = b
  <2>1. /\ b - f \in Nat /\ f + (b - f) = b /\ b \in Nat /\ b <= cut
        /\ (b - f) + l = l + (b - f) /\ a + (l + (b - f)) = b
    <3>1. a + l = f
      BY <1>1, Zenon
    <3> QED BY <1>0, <3>1
  <2> QED BY <1>2, <2>1, Zenon
<1>4. /\ Same(s, t) /\ t.cur = q /\ t.size = n + l /\ t.fed = f + n /\ t.save = s.save
      /\ t.taken = a
  BY <1>1, <1>3, Zenon DEF png_push_restore_buffer, Same, IsPs, PsFields
<1> HIDE DEF t
<1>5. Live(t)
  BY <1>1, <1>2, <1>3, <1>4, Zenon DEF Live, Settled
<1> QED BY <1>4, <1>5, Zenon DEF t, q

(* t has read a header, of a chunk of the file. *)
AtHeader(s, t) ==
    /\ Live(t) /\ t.size \in Nat /\ t.size + 2 = s.size
    /\ t.header /\ t.at \in 1..Len(stream) /\ t.len = Len(stream[t.at].data)
    /\ t.mode = s.mode /\ t.sig = s.sig /\ t.idat = s.idat /\ t.pass = s.pass

LEMMA HeaderKeeps ==
  ASSUME FileThere, NEW s, IsPs(s), Live(s), Holds(s, 2)
  PROVE  LET t == PushHeader(s)
         IN  IsPs(t) /\ t.png = s.png /\ (t.mode = "error" \/ AtHeader(s, t))
<1> DEFINE f == png_push_fill_buffer(s, 2)
           c == f.bytes[1][1]
           t == PushHeader(s)
<1>1. 2 \in Nat /\ 1 \in 1..2
  OBVIOUS
<1>2. Filled(s, 2, f.s) /\ Piece(f.bytes, s.taken) /\ Len(f.bytes) = 2
  BY <1>1, FillTakes, Zenon
<1>3. t = IF f.bytes = <<<<c, 1>>, <<c, 2>>>> /\ c > 0
          THEN [f.s EXCEPT !.header = TRUE, !.at = c, !.len = Len(stream[c].data)]
          ELSE [f.s EXCEPT !.mode = "error"]
  BY Zenon DEF PushHeader, HeaderSize, PushFail
<1> HIDE DEF f, t
<1>4. f.bytes[1] \in Byte
  BY <1>1, <1>2, ElementOfSeq, Zenon DEF Piece
<1>5. c \in 0..Len(stream)
  BY <1>4 DEF Byte
<1> HIDE DEF c
<1>6. Same(s, f.s) /\ Live(f.s) /\ f.s.size \in Nat /\ f.s.size + 2 = s.size
  BY <1>2, Zenon DEF Filled
<1>7. CASE f.bytes = <<<<c, 1>>, <<c, 2>>>> /\ c > 0
  <2>1. Len(stream) \in Nat
    BY LenProperties, Zenon DEF FileThere
  <2>2. c \in 1..Len(stream)
    BY <1>5, <1>7, <2>1
  <2>3. t = [f.s EXCEPT !.header = TRUE, !.at = c, !.len = Len(stream[c].data)]
    BY <1>3, <1>7, Zenon
  <2>4. /\ IsPs(t) /\ t.header /\ t.at = c /\ t.len = Len(stream[c].data)
        /\ t.mode = s.mode /\ t.sig = s.sig /\ t.idat = s.idat /\ t.pass = s.pass
        /\ t.png = s.png /\ t.size = f.s.size /\ t.save = f.s.save /\ t.cur = f.s.cur
        /\ t.taken = f.s.taken /\ t.fed = f.s.fed
    BY <1>6, <2>3, Zenon DEF Same, IsPs, PsFields
  <2>5. Live(t)
    BY <1>6, <2>4, Zenon DEF Live
  <2>6. AtHeader(s, t)
    BY <1>6, <2>2, <2>4, <2>5, Zenon DEF AtHeader
  <2> QED BY <2>4, <2>6, Zenon DEF t
<1>8. CASE ~(f.bytes = <<<<c, 1>>, <<c, 2>>>> /\ c > 0)
  <2>1. t = [f.s EXCEPT !.mode = "error"]
    BY <1>3, <1>8, Zenon
  <2>2. IsPs(t) /\ t.mode = "error" /\ t.png = s.png
    BY <1>6, <2>1, Zenon DEF Same, IsPs, PsFields
  <2> QED BY <2>2, Zenon DEF t
<1> QED BY <1>7, <1>8, Zenon

-----------------------------------------------------------------------------
(* Rows and image data leave the buffers and the handlers' results alone. *)

Kept(s, t) ==
    /\ IsPs(t) /\ t.mode \in {s.mode, "error"} /\ t.pass \in 0..7
    /\ t.save = s.save /\ t.cur = s.cur /\ t.size = s.size /\ t.fed = s.fed
    /\ t.taken = s.taken /\ t.sig = s.sig /\ t.header = s.header /\ t.at = s.at
    /\ t.len = s.len /\ t.idat = s.idat /\ t.png = s.png

Rowed(s) == IsPs(s) /\ s.pass \in 0..7

LEMMA KeptSelf == ASSUME NEW s, Rowed(s) PROVE Kept(s, s)
BY Zenon DEF Kept, Rowed

LEMMA KeptOn ==
  ASSUME NEW s, NEW t, NEW u, Kept(s, t), Kept(t, u)
  PROVE  Kept(s, u)
BY Zenon DEF Kept

LEMMA KeptRowed == ASSUME NEW s, NEW t, Kept(s, t) PROVE Rowed(t)
BY Zenon DEF Kept, Rowed

LEMMA HaveRowKeeps ==
  ASSUME NEW s, Rowed(s), NEW row, NEW real
  PROVE  Kept(s, png_push_have_row(s, row, real))
BY Zenon DEF png_push_have_row, Kept, Rowed, IsPs, PsFields

LEMMA FinishRowKeeps ==
  ASSUME NEW s, Rowed(s)
  PROVE  Kept(s, png_read_push_finish_row(s))
<1>1. PICK p \in 0..7 : p = s.pass
  BY Zenon DEF Rowed
<1> DEFINE q == IF \/ p + 1 = 1 /\ image.w < 5
                   \/ p + 1 = 3 /\ image.w < 3
                   \/ p + 1 = 5 /\ image.w < 2
                THEN p + 1 + 1 ELSE p + 1
<1>2. Min2(q, 7) \in 0..7
  <2>1. Min2(p + 1 + 1, 7) \in 0..7 /\ Min2(p + 1, 7) \in 0..7
    BY DEF Min2
  <2> QED BY <2>1, Zenon
<1>3. png_read_push_finish_row(s) \in {[s EXCEPT !.row = @ + 1],
                                       [s EXCEPT !.row = 0, !.pass = Min2(q, 7)]}
  BY <1>1, Zenon DEF png_read_push_finish_row
<1> HIDE DEF q
<1> QED BY <1>2, <1>3, Zenon DEF Kept, Rowed, IsPs, PsFields

LEMMA OnceKeeps ==
  ASSUME NEW s, Rowed(s), NEW p, NEW row, NEW real
  PROVE  Kept(s, Once(s, p, row, real))
BY KeptSelf, KeptOn, KeptRowed, HaveRowKeeps, FinishRowKeeps, Zenon DEF Once

LEMMA TimesKeeps ==
  ASSUME NEW s, Rowed(s), NEW k \in Nat, NEW p, NEW row, NEW real
  PROVE  Kept(s, Times(s, k, p, row, real))
<1>0. PICK g : TimesRun(s, k, p, row, real, g)
  BY TimesLoop, Zenon
<1>1. /\ g[0] = s /\ Times(s, k, p, row, real) = g[k]
      /\ \A n \in 1..k : g[n] = Once(g[n - 1], p, row, real)
  BY <1>0, Zenon DEF TimesRun
<1> DEFINE G == {n \in 0..k : Kept(s, g[n])}
<1>2. 0 \in G
  <2>1. 0 \in 0..k
    OBVIOUS
  <2> QED BY <1>1, <2>1, KeptSelf, Zenon
<1>3. ASSUME NEW n \in 1..k, n - 1 \in G PROVE n \in G
  <2>1. n \in 0..k
    OBVIOUS
  <2>2. Kept(s, g[n - 1])
    BY <1>3, Zenon
  <2>3. Kept(g[n - 1], g[n])
    BY <1>1, <2>2, KeptRowed, OnceKeeps, Zenon
  <2> QED BY <2>1, <2>2, <2>3, KeptOn, Zenon
<1> HIDE DEF G
<1>4. k \in 0..k /\ 0..k \subseteq G
  BY <1>2, <1>3, Upwards
<1> QED BY <1>1, <1>4, Zenon DEF G

LEMMA FollowingKeeps ==
  ASSUME NEW s, Rowed(s), NEW p \in 0..6
  PROVE  Kept(s, Following(s, p))
<1> DEFINE None(t, n, k) == Times(t, n, k, <<>>, FALSE)
           Low(t, n, k) == IF image.h <= 4 THEN None(t, n, k) ELSE t
<1>1. ASSUME NEW t, Kept(s, t), NEW n \in {1, 2, 4}, NEW k
      PROVE  Kept(s, None(t, n, k)) /\ Kept(s, Low(t, n, k))
  <2>1. n \in Nat
    OBVIOUS
  <2>2. Kept(s, None(t, n, k))
    BY <1>1, <2>1, KeptRowed, KeptOn, TimesKeeps, Zenon
  <2> HIDE DEF None
  <2> QED BY <1>1, <2>2, Zenon
<1>2. Kept(s, s)
  BY KeptSelf, Zenon
<1>3. Following(s, p) \in {Low(Low(None(s, 4, 2), 2, 4), 1, 6), None(s, 4, 2),
                           None(None(s, 4, 2), 2, 4), None(s, 2, 4),
                           None(None(s, 2, 4), 1, 6), None(s, 1, 6)}
  <2>1. p = 0 \/ p = 1 \/ p = 2 \/ p = 3 \/ p = 4 \/ p = 5 \/ p = 6
    OBVIOUS
  <2> QED BY <2>1, Zenon DEF Following
<1>4. 4 \in {1, 2, 4} /\ 2 \in {1, 2, 4} /\ 1 \in {1, 2, 4}
  OBVIOUS
<1> HIDE DEF None, Low
<1> QED BY <1>1, <1>2, <1>3, <1>4, Zenon

LEMMA ProcessRowKeeps ==
  ASSUME NEW s, Rowed(s), s.pass \in 0..6
  PROVE  Kept(s, png_push_process_row(s))
<1>1. PICK p \in 0..6 : p = s.pass
  BY Zenon
<1> DEFINE row == png_do_read_interlace(image, png_read_filter_row(s.buf), s.pass)
           n == <<8, 8, 4, 4, 2, 2, 1>>[p + 1]
<1>2. n \in Nat
  <2>1. p = 0 \/ p = 1 \/ p = 2 \/ p = 3 \/ p = 4 \/ p = 5 \/ p = 6
    OBVIOUS
  <2> QED BY <2>1
<1>3. Kept(s, PushFail(s))
  BY Zenon DEF PushFail, Kept, Rowed, IsPs, PsFields
<1>4. png_push_process_row(s) \in
        {PushFail(s), Following(Times(s, n, p, row, TRUE), p),
         png_read_push_finish_row(png_push_have_row(s, row, TRUE))}
  BY <1>1, Zenon DEF png_push_process_row
<1> HIDE DEF row, n
<1>5. Kept(s, Following(Times(s, n, p, row, TRUE), p))
  BY <1>2, TimesKeeps, FollowingKeeps, KeptRowed, KeptOn, Zenon
<1>6. Kept(s, png_read_push_finish_row(png_push_have_row(s, row, TRUE)))
  BY HaveRowKeeps, FinishRowKeeps, KeptRowed, KeptOn, Zenon
<1> QED BY <1>3, <1>4, <1>5, <1>6, Zenon

LEMMA AfterInflateKeeps ==
  ASSUME NEW s, Rowed(s), NEW r
  PROVE  Kept(s, AfterInflate(s, r))
<1>1. CASE r.ret = "Z_DATA_ERROR" \/ (s.buf # <<>> /\ RowsDone(s))
  <2>1. AfterInflate(s, r) = [s EXCEPT !.ended = TRUE]
    BY <1>1, Zenon DEF AfterInflate
  <2> QED BY <2>1, Zenon DEF Kept, Rowed, IsPs, PsFields
<1>2. CASE ~(r.ret = "Z_DATA_ERROR" \/ (s.buf # <<>> /\ RowsDone(s)))
  <2> DEFINE t == IF s.buf # <<>> /\ s.room = 0 THEN png_push_process_row(s) ELSE s
  <2>1. AfterInflate(s, r) = [t EXCEPT !.ended = (r.ret = "Z_STREAM_END")]
    BY <1>2, Zenon DEF AfterInflate
  <2>2. ASSUME s.buf # <<>> PROVE s.pass \in 0..6
    <3>1. PICK p \in 0..7 : p = s.pass
      BY Zenon DEF Rowed
    <3>2. ~(p > 6)
      BY <1>2, <2>2, <3>1, Zenon DEF RowsDone
    <3>3. p \in 0..6
      BY <3>2
    <3> QED BY <3>1, <3>3, Zenon
  <2>3. Kept(s, t)
    BY <2>2, ProcessRowKeeps, KeptSelf, Zenon
  <2> HIDE DEF t
  <2>4. Kept(t, [t EXCEPT !.ended = (r.ret = "Z_STREAM_END")])
    BY <2>3, Zenon DEF Kept, IsPs, PsFields
  <2> QED BY <2>1, <2>3, <2>4, KeptOn, Zenon
<1> QED BY <1>1, <1>2, Zenon

LEMMA FieldS == ASSUME NEW a, NEW b PROVE [s |-> a, in |-> b].s = a
BY Zenon

LEMMA RoundKeeps ==
  ASSUME NEW l, Rowed(l.s)
  PROVE  Kept(l.s, IDATRound(l).s)
<1>1. CASE l.in = <<>> \/ l.s.ended \/ l.s.mode = "error"
  <2>1. IDATRound(l) = l
    BY <1>1, Zenon DEF IDATRound
  <2> QED BY <2>1, KeptSelf, Zenon
<1>2. CASE ~(l.in = <<>> \/ l.s.ended \/ l.s.mode = "error")
  <2> DEFINE t == IF l.s.room > 0 THEN l.s ELSE NewRow(l.s)
             r == Inflate(t.z, l.in, t.room)
             u == [t EXCEPT !.z = r.z, !.room = @ - Len(r.out), !.buf = @ \o r.out]
  <2>1. IDATRound(l) = [s |-> AfterInflate(u, r), in |-> r.in]
    BY <1>2, Zenon DEF IDATRound, InflateRow, TakeOutput
  <2>2. Kept(l.s, NewRow(l.s))
    BY Zenon DEF NewRow, Kept, Rowed, IsPs, PsFields
  <2>3. Kept(l.s, t)
    BY <2>2, KeptSelf, Zenon
  <2> HIDE DEF t, r
  <2>4. Kept(t, u)
    BY <2>3, Zenon DEF Kept, IsPs, PsFields
  <2> HIDE DEF u
  <2>5. Kept(l.s, AfterInflate(u, r))
    BY <2>3, <2>4, AfterInflateKeeps, KeptRowed, KeptOn, Zenon
  <2>6. IDATRound(l).s = AfterInflate(u, r)
    BY <2>1, FieldS, Zenon
  <2> QED BY <2>5, <2>6, Zenon
<1> QED BY <1>1, <1>2, Zenon

LEMMA IDATKeeps ==
  ASSUME NEW s, Rowed(s), NEW in, Len(in) \in Nat
  PROVE  Kept(s, png_process_IDAT_data(s, in))
<1>1. PICK k \in Nat : k = IDATRounds(in)
  <2>1. ZRatio \in Nat
    BY RatioAssumption
  <2>2. PICK m \in Nat : m = Len(in)
    BY Zenon
  <2>3. ((m + 1) * ZRatio) \div 2 + 2 \in Nat
    BY <2>1
  <2> QED BY <2>2, <2>3, Zenon DEF IDATRounds
<1>0. PICK g : IDATRun(s, in, k, g)
  BY <1>1, IDATLoop, Zenon
<1>2. /\ g[0] = [s |-> s, in |-> in] /\ png_process_IDAT_data(s, in) = g[k].s
      /\ \A n \in 1..k : g[n] = IDATRound(g[n - 1])
  BY <1>0, Zenon DEF IDATRun
<1> DEFINE G == {n \in 0..k : Kept(s, g[n].s)}
<1>3. 0 \in G
  <2>1. 0 \in 0..k
    OBVIOUS
  <2>2. g[0].s = s
    BY <1>2, FieldS, Zenon
  <2> QED BY <2>1, <2>2, KeptSelf, Zenon
<1>4. ASSUME NEW n \in 1..k, n - 1 \in G PROVE n \in G
  <2>1. n \in 0..k
    OBVIOUS
  <2>2. Kept(s, g[n - 1].s)
    BY <1>4, Zenon
  <2>3. Kept(g[n - 1].s, g[n].s)
    BY <1>2, <2>2, KeptRowed, RoundKeeps, Zenon
  <2> QED BY <2>1, <2>2, <2>3, KeptOn, Zenon
<1> HIDE DEF G
<1>5. 0..k \subseteq G
  BY <1>3, <1>4, Upwards, Zenon
<1>6. k \in 0..k
  OBVIOUS
<1> QED BY <1>2, <1>5, <1>6, Zenon DEF G

-----------------------------------------------------------------------------
(* The parser of the progressive reader. *)

(* It has failed; what the handlers kept still fits together. *)
Failed(t) == IsPs(t) /\ t.mode = "error" /\ PngInv(t.png)

(* Or a row callback has paused, as it may with how. *)
Lost(t) == IsPs(t) /\ t.mode = "astray" /\ PngInv(t.png)

Stopped(t, how) == Failed(t) \/ (how # "no" /\ Lost(t))

(* A header has been read. *)
InChunk(s) ==
    /\ IsPs(s) /\ Live(s) /\ s.size \in Nat /\ s.pass \in 0..7 /\ PngInv(s.png)
    /\ s.idat \in Nat /\ s.header /\ s.at \in 1..Len(stream)
    /\ s.len = Len(stream[s.at].data)

InData(s) == InChunk(s) /\ s.mode = "idat"

Less(t, s) == t.size \in Nat /\ s.size \in Nat /\ t.size < s.size

LEMMA LessBy ==
  ASSUME NEW t, NEW s, t.size \in Nat, NEW n \in Nat \ {0}, t.size + n = s.size
  PROVE  Less(t, s)
<1>1. PICK a \in Nat : a = t.size
  BY Zenon
<1>2. a + n \in Nat /\ a < a + n
  OBVIOUS
<1> QED BY <1>1, <1>2, Zenon DEF Less

LEMMA LessOn ==
  ASSUME NEW t, NEW u, NEW s, Less(t, u), Less(u, s)
  PROVE  Less(t, s)
<1>1. PICK a, b, c \in Nat : a = t.size /\ b = u.size /\ c = s.size
  BY Zenon DEF Less
<1>2. a < b /\ b < c
  BY <1>1, Zenon DEF Less
<1>3. a < c
  BY <1>2
<1> QED BY <1>1, <1>3, Zenon DEF Less

(* Some of a chunk's data has been used. *)
LEMMA PushDataKeeps ==
  ASSUME NEW s, InData(s), NEW d \in Nat, d = s.idat, NEW n \in 1..d, Holds(s, n),
         NEW bytes, Len(bytes) = n, NEW how
  PROVE  LET t == PushData(s, bytes, how)
         IN  Stopped(t, how) \/ (InData(t) /\ Less(t, s))
<1> DEFINE f == png_push_fill_buffer(s, n).s
           u == [f EXCEPT !.idat = @ - n]
           in == [i \in 1..n |-> DataByte(bytes[i])]
           t == png_process_IDAT_data(u, in)
           a == Astray(s, t, how)
<1>1. n \in Nat /\ n \in Nat \ {0} /\ d - n \in Nat
  OBVIOUS
<1>2. Filled(s, n, f)
  BY <1>1, FillTakes, Zenon DEF InData, InChunk
<1>0. PushData(s, bytes, how) = a
  BY Zenon DEF PushData
<1>3. t = png_process_IDAT_data(u, in)
  BY Zenon
<1>4. Len(in) \in Nat
  BY <1>1
<1> HIDE DEF f, in, t, a
<1>5. Same(s, f) /\ Live(f) /\ f.size \in Nat /\ f.size + n = s.size
  BY <1>2, Zenon DEF Filled
<1>6. /\ IsPs(u) /\ u.mode = "idat" /\ u.header /\ u.at = s.at /\ u.len = s.len
      /\ u.idat = d - n /\ u.pass = s.pass /\ u.png = s.png /\ u.size = f.size
      /\ u.save = f.save /\ u.cur = f.cur /\ u.taken = f.taken /\ u.fed = f.fed
  BY <1>5, Zenon DEF Same, InData, InChunk, IsPs, PsFields
<1> HIDE DEF u
<1>7. Rowed(u)
  BY <1>6, Zenon DEF Rowed, InData, InChunk
<1>8. Kept(u, t)
  BY <1>3, <1>4, <1>7, IDATKeeps, Zenon
<1>9. Live(t) /\ t.size = f.size
  BY <1>5, <1>6, <1>8, Zenon DEF Kept, Live
<1>10. Less(t, s)
  BY <1>1, <1>5, <1>9, LessBy, Zenon
<1>11. Failed(t) \/ (InData(t) /\ Less(t, s))
  <2>1. CASE t.mode = "error"
    BY <1>6, <1>8, <2>1, Zenon DEF Kept, Failed, InData, InChunk
  <2>2. CASE t.mode = u.mode
    <3>1. InChunk(t)
      BY <1>1, <1>5, <1>6, <1>8, <1>9, Zenon DEF Kept, InData, InChunk
    <3> QED BY <1>6, <1>10, <2>2, <3>1, Zenon DEF InData
  <2> QED BY <1>8, <2>1, <2>2, Zenon DEF Kept
<1>12. a = t \/ (how # "no" /\ a = [t EXCEPT !.mode = "astray"])
  BY Zenon DEF Astray, a
<1>13. Lost([t EXCEPT !.mode = "astray"])
  BY <1>6, <1>8, Zenon DEF Kept, Lost, InData, InChunk, IsPs, PsFields
<1> QED BY <1>0, <1>11, <1>12, <1>13, Zenon DEF Stopped

LEMMA MinOf ==
  ASSUME NEW a \in Nat, NEW b \in Nat, a # 0, b # 0
  PROVE  Min2(a, b) \in 1..a /\ Min2(a, b) \in 0..b
BY DEF Min2

(* Unless there are none, or none are wanted, saved bytes are used. *)
LEMMA UseSavedKeeps ==
  ASSUME NEW s, InData(s), NEW how
  PROVE  LET t == UseSaved(s, how)
         IN  \/ Stopped(t, how) \/ (InData(t) /\ Less(t, s))
             \/ (t = s /\ (s.idat = 0 \/ Len(s.save) = 0))
<1>1. PICK a, b, l, m \in Nat :
        /\ a = s.taken /\ b = s.fed /\ l = Len(s.save) /\ m = Len(s.cur)
        /\ s.size = l + m /\ a + (l + m) = b /\ b <= cut
  BY LiveNumbers, Zenon DEF InData, InChunk
<1>2. PICK d \in Nat : d = s.idat
  BY Zenon DEF InData, InChunk
<1>3. CASE s.idat = 0 \/ s.save = <<>>
  <2>1. UseSaved(s, how) = s
    BY <1>3, Zenon DEF UseSaved
  <2> QED BY <1>3, <2>1, EmptySeq, Zenon
<1>4. CASE ~(s.idat = 0 \/ s.save = <<>>)
  <2>1. d # 0 /\ l # 0
    <3>1. s.save \in Seq(Byte) /\ s.save # <<>>
      BY <1>4, Zenon DEF InData, InChunk, Live, Piece
    <3>2. l \in Nat \ {0}
      BY <1>1, <3>1, EmptySeq, Zenon
    <3> QED BY <1>2, <1>4, <3>2, Zenon
  <2>2. PICK n \in Nat : n = Min2(d, l) /\ n \in 1..d /\ n \in 0..l
    <3>1. Min2(d, l) \in 1..d /\ Min2(d, l) \in 0..l
      BY <2>1, MinOf, Zenon
    <3>2. Min2(d, l) \in Nat
      BY <3>1
    <3> QED BY <3>1, <3>2, Zenon
  <2>3. n <= l + m
    BY <2>2
  <2>4. Holds(s, n)
    BY <1>1, <2>3, Zenon DEF Holds
  <2> DEFINE bytes == SubSeq(s.save, 1, n)
  <2>5. Len(bytes) = n
    BY <1>1, <2>2, PieceTake, Zenon DEF InData, InChunk, Live
  <2>6. UseSaved(s, how) = PushData(s, bytes, how)
    BY <1>1, <1>2, <1>4, <2>2, Zenon DEF UseSaved
  <2> HIDE DEF bytes
  <2>7. LET t == PushData(s, bytes, how)
        IN  Stopped(t, how) \/ (InData(t) /\ Less(t, s))
    BY <1>2, <2>2, <2>4, <2>5, PushDataKeeps, Zenon
  <2> QED BY <2>6, <2>7, Zenon
<1> QED BY <1>3, <1>4, Zenon

(* The same for the rest of the piece. *)
LEMMA UseCurrentKeeps ==
  ASSUME NEW s, InData(s), NEW how
  PROVE  LET t == UseCurrent(s, how)
         IN  \/ Stopped(t, how) \/ (InData(t) /\ Less(t, s))
             \/ (t = s /\ (s.idat = 0 \/ Len(s.cur) = 0))
<1>1. PICK a, b, l, m \in Nat :
        /\ a = s.taken /\ b = s.fed /\ l = Len(s.save) /\ m = Len(s.cur)
        /\ s.size = l + m /\ a + (l + m) = b /\ b <= cut
  BY LiveNumbers, Zenon DEF InData, InChunk
<1>2. PICK d \in Nat : d = s.idat
  BY Zenon DEF InData, InChunk
<1>3. CASE Halted(s) \/ s.idat = 0 \/ s.cur = <<>>
  <2>1. UseCurrent(s, how) = s
    BY <1>3, Zenon DEF UseCurrent
  <2>2. ~Halted(s)
    BY DEF InData, Halted
  <2> QED BY <1>3, <2>1, <2>2, EmptySeq, Zenon
<1>4. CASE ~(Halted(s) \/ s.idat = 0 \/ s.cur = <<>>)
  <2>1. d # 0 /\ m # 0
    <3>1. s.cur \in Seq(Byte) /\ s.cur # <<>>
      BY <1>4, Zenon DEF InData, InChunk, Live, Piece
    <3>2. m \in Nat \ {0}
      BY <1>1, <3>1, EmptySeq, Zenon
    <3> QED BY <1>2, <1>4, <3>2, Zenon
  <2>2. PICK n \in Nat : n = Min2(d, m) /\ n \in 1..d /\ n \in 0..m
    <3>1. Min2(d, m) \in 1..d /\ Min2(d, m) \in 0..m
      BY <2>1, MinOf, Zenon
    <3>2. Min2(d, m) \in Nat
      BY <3>1
    <3> QED BY <3>1, <3>2, Zenon
  <2>3. n <= l + m /\ a + l \in Nat
    BY <2>2
  <2>4. Holds(s, n)
    BY <1>1, <2>3, Zenon DEF Holds
  <2> DEFINE bytes == SubSeq(s.cur, 1, n)
  <2>5. Len(bytes) = n
    BY <1>1, <2>2, <2>3, PieceTake, Zenon DEF InData, InChunk, Live
  <2>6. UseCurrent(s, how) = PushData(s, bytes, how)
    BY <1>1, <1>2, <1>4, <2>2, Zenon DEF UseCurrent
  <2> HIDE DEF bytes
  <2>7. LET t == PushData(s, bytes, how)
        IN  Stopped(t, how) \/ (InData(t) /\ Less(t, s))
    BY <1>2, <2>2, <2>4, <2>5, PushDataKeeps, Zenon
  <2> QED BY <2>6, <2>7, Zenon
<1> QED BY <1>3, <1>4, Zenon

(* The reader is in the file.  A chunk that png_push_read_chunk waits for   *)
(* is not an IDAT chunk: those it passes on at once.                       *)
Going(s) ==
    /\ IsPs(s) /\ s.mode \in {"sig", "chunk", "idat"} /\ s.pass \in 0..7
    /\ PngInv(s.png) /\ s.idat \in Nat
    /\ s.header => s.at \in 1..Len(stream) /\ s.len = Len(stream[s.at].data)
    /\ s.mode = "sig" => s.sig \in 0..1 /\ ~s.header
    /\ s.mode = "chunk" /\ s.header => stream[s.at].name # "IDAT"

Done(s) ==
    /\ IsPs(s) /\ s.mode = "done" /\ PngInv(s.png) /\ s.size \in Nat
    /\ s.save \in Seq(Byte) /\ s.fed \in Nat /\ s.fed <= cut

(* What a call of png_process_some_data makes of s. *)
Good(t, s) ==
    \/ Failed(t)
    \/ Done(t) /\ Less(t, s)
    \/ Going(t) /\ (Settled(t) \/ (Live(t) /\ Less(t, s)))

LEMMA GoodOn ==
  ASSUME NEW t, NEW u, NEW s, Good(t, u), Less(u, s)
  PROVE  Good(t, s)
BY LessOn, Zenon DEF Good

LEMMA GoingSame ==
  ASSUME NEW s, NEW t, Going(s), Same(s, t)
  PROVE  Going(t)
BY Zenon DEF Going, Same

LEMMA SavedIsGood ==
  ASSUME NEW s, Going(s), Live(s)
  PROVE  Good(png_push_save_buffer(s), s)
<1>1. Same(s, png_push_save_buffer(s)) /\ Settled(png_push_save_buffer(s))
  BY SaveSettles, Zenon DEF Going
<1> QED BY <1>1, GoingSame, Zenon DEF Good

LEMMA InChunkIsGoing ==
  ASSUME NEW s, InChunk(s), s.mode = "idat" \/ (s.mode = "chunk" /\ stream[s.at].name # "IDAT")
  PROVE  Going(s) /\ Live(s)
BY DEF InChunk, Going

(* The readers' own notes of how far they are. *)
LEMMA MarkKeeps ==
  ASSUME NEW p, PngInv(p), NEW m \in SUBSET {"IDAT", "AFTER_IDAT", "CHUNK_AFTER_IDAT"}
  PROVE  PngInv([p EXCEPT !.mode = @ \cup m])
BY DEF PngInv, Order, InfoFits, Png, ModeFlags

(* What the test of buffer_size says. *)
LEMMA AtMost ==
  ASSUME NEW s, s.size \in Nat, NEW n \in Nat, ~(s.size < n)
  PROVE  Holds(s, n)
<1>1. PICK a \in Nat : a = s.size
  BY Zenon
<1>2. ~(a < n)
  BY <1>1, Zenon
<1>3. n <= a
  BY <1>2
<1> QED BY <1>1, <1>3, Zenon DEF Holds

LEMMA EndIDATKeeps ==
  ASSUME NEW s, InData(s), s.idat = 0
  PROVE  Good(EndIDAT(s), s)
<1>0. ~Halted(s) /\ Going(s) /\ Live(s) /\ IsPs(s) /\ s.size \in Nat
  BY InChunkIsGoing DEF InData, InChunk, Halted
<1>1. CASE s.size < 2
  <2>1. EndIDAT(s) = png_push_save_buffer(s)
    BY <1>0, <1>1, Zenon DEF EndIDAT, CrcSize
  <2> QED BY <1>0, <2>1, SavedIsGood, Zenon
<1>2. CASE ~(s.size < 2) /\ ~stream[s.at].crc
  <2>1. EndIDAT(s) = [s EXCEPT !.mode = "error"]
    BY <1>0, <1>2, Zenon DEF EndIDAT, CrcSize, PushFail
  <2>2. Failed(EndIDAT(s))
    BY <1>0, <2>1, Zenon DEF Failed, Going, IsPs, PsFields
  <2> QED BY <2>2, Zenon DEF Good
<1>3. CASE ~(s.size < 2) /\ stream[s.at].crc
  <2>1. 2 \in Nat /\ 2 \in Nat \ {0} /\ {"AFTER_IDAT"} \in SUBSET {"IDAT", "AFTER_IDAT", "CHUNK_AFTER_IDAT"}
    OBVIOUS
  <2>2. Holds(s, 2)
    BY <1>0, <1>3, <2>1, AtMost, Zenon
  <2> DEFINE f == png_push_fill_buffer(s, 2).s
             p == [f.png EXCEPT !.mode = @ \cup {"AFTER_IDAT"}]
             t == [f EXCEPT !.header = FALSE, !.png = p]
  <2>3. Filled(s, 2, f)
    BY <1>0, <2>1, <2>2, FillTakes, Zenon
  <2>4. EndIDAT(s) = [f EXCEPT !.header = FALSE, !.png.mode = @ \cup {"AFTER_IDAT"}]
    BY <1>0, <1>3, Zenon DEF EndIDAT, CrcSize
  <2> HIDE DEF f
  <2>5. Same(s, f) /\ Live(f) /\ f.size \in Nat /\ f.size + 2 = s.size
    BY <2>3, Zenon DEF Filled
  <2>6. EndIDAT(s) = t
    BY <2>4, <2>5, Zenon DEF Same, IsPs, PsFields
  <2>7. PngInv(p)
    BY <1>0, <2>1, <2>5, MarkKeeps, Zenon DEF Going, Same
  <2> HIDE DEF p
  <2>8. /\ IsPs(t) /\ t.mode = "idat" /\ t.header = FALSE /\ t.idat = s.idat
        /\ t.pass = s.pass /\ t.png = p /\ t.size = f.size
        /\ t.save = f.save /\ t.cur = f.cur /\ t.taken = f.taken /\ t.fed = f.fed
    BY <2>5, Zenon DEF Same, IsPs, PsFields, InData
  <2> HIDE DEF t
  <2>9. Live(t) /\ Less(t, s)
    BY <2>1, <2>5, <2>8, LessBy, Zenon DEF Live
  <2>10. Going(t)
    BY <1>0, <2>7, <2>8 DEF Going
  <2> QED BY <2>6, <2>9, <2>10, Zenon DEF Good
<1> QED BY <1>1, <1>2, <1>3, Zenon

(* A run of image data uses something, if there is something. *)
LEMMA DataKeeps ==
  ASSUME NEW s, InData(s), NEW how
  PROVE  LET t == DataOfIDAT(s, how)
         IN  Good(t, s) \/ Stopped(t, how) \/ (t = s /\ s.size = 0)
<1> DEFINE u == UseSaved(s, how)
           v == UseCurrent(u, how)
<1>0. DataOfIDAT(s, how) = EndIDAT(v)
  BY Zenon DEF DataOfIDAT
<1>1. Stopped(u, how) \/ (InData(u) /\ Less(u, s)) \/ (u = s /\ (s.idat = 0 \/ Len(s.save) = 0))
  BY UseSavedKeeps, Zenon
<1>2. ASSUME NEW x, Stopped(x, how) PROVE UseCurrent(x, how) = x /\ EndIDAT(x) = x
  BY <1>2, Zenon DEF Stopped, Failed, Lost, Halted, UseCurrent, EndIDAT
<1>3. ASSUME InData(u)
      PROVE  Stopped(v, how) \/ (InData(v) /\ Less(v, u)) \/ (v = u /\ (u.idat = 0 \/ Len(u.cur) = 0))
  BY <1>3, UseCurrentKeeps, Zenon
<1> HIDE DEF u, v
<1>4. ASSUME InData(v), Less(v, s) PROVE Good(EndIDAT(v), s)
  <2>1. CASE v.idat = 0
    BY <1>4, <2>1, EndIDATKeeps, GoodOn, Zenon
  <2>2. CASE v.idat # 0
    <3>1. EndIDAT(v) = v
      BY <2>2, Zenon DEF EndIDAT
    <3>2. Going(v) /\ Live(v)
      BY <1>4, InChunkIsGoing, Zenon DEF InData
    <3> QED BY <1>4, <3>1, <3>2, Zenon DEF Good
  <2> QED BY <2>1, <2>2, Zenon
<1>5. CASE Stopped(u, how)
  BY <1>0, <1>2, <1>5, Zenon DEF v
<1>6. CASE Stopped(v, how)
  BY <1>0, <1>2, <1>6, Zenon
<1>7. CASE InData(u) /\ Less(u, s)
  BY <1>0, <1>2, <1>3, <1>4, <1>7, LessOn, Zenon
<1>8. CASE u = s /\ (s.idat = 0 \/ Len(s.save) = 0)
  <2>1. CASE InData(v) /\ Less(v, u)
    BY <1>0, <1>4, <1>8, <2>1, Zenon
  <2>2. CASE v = u /\ (u.idat = 0 \/ Len(u.cur) = 0)
    <3>1. v = s
      BY <1>8, <2>2, Zenon
    <3>2. CASE s.idat = 0
      BY <1>0, <3>1, <3>2, EndIDATKeeps, Zenon
    <3>3. CASE s.idat # 0
      <4>1. EndIDAT(s) = s
        BY <3>3, Zenon DEF EndIDAT
      <4>2. s.size = Len(s.save) + Len(s.cur) /\ Len(s.save) = 0 /\ Len(s.cur) = 0
        BY <1>8, <2>2, <3>3, Zenon DEF InData, InChunk, Live
      <4>3. 0 + 0 = 0
        OBVIOUS
      <4> QED BY <1>0, <3>1, <4>1, <4>2, <4>3, Zenon
    <3> QED BY <3>2, <3>3, Zenon
  <2> QED BY <1>3, <1>6, <1>8, <2>1, <2>2, Zenon
<1> QED BY <1>1, <1>5, <1>7, <1>8, Zenon

(* A reader in the file with something to use. *)
Busy(s) == Going(s) /\ Live(s) /\ s.size \in Nat \ {0}

LEMMA AtHeaderInChunk ==
  ASSUME NEW s, Busy(s), NEW u, IsPs(u), u.png = s.png, AtHeader(s, u)
  PROVE  InChunk(u) /\ u.mode = s.mode /\ Less(u, s)
<1>1. 2 \in Nat \ {0}
  OBVIOUS
<1>2. Less(u, s)
  BY <1>1, LessBy, Zenon DEF AtHeader
<1> QED BY <1>2, Zenon DEF InChunk, AtHeader, Busy, Going

LEMMA ReadIDATKeeps ==
  ASSUME FileThere, NEW s, Busy(s), s.mode = "idat", NEW how
  PROVE  Good(png_push_read_IDAT(s, how), s) \/ Stopped(png_push_read_IDAT(s, how), how)
<1>1. Going(s) /\ Live(s) /\ IsPs(s) /\ s.size \in Nat /\ s.size # 0
  BY Zenon DEF Busy, Going
<1>2. CASE s.header
  <2>1. InData(s)
    BY <1>1, <1>2, Zenon DEF InData, InChunk, Going
  <2>2. png_push_read_IDAT(s, how) = DataOfIDAT(s, how)
    BY <1>2, Zenon DEF png_push_read_IDAT
  <2> QED BY <1>1, <2>1, <2>2, DataKeeps, Zenon
<1>3. CASE ~s.header /\ s.size < 2
  <2>1. png_push_read_IDAT(s, how) = png_push_save_buffer(s)
    BY <1>3, Zenon DEF png_push_read_IDAT, HeaderSize
  <2> QED BY <1>1, <2>1, SavedIsGood, Zenon
<1>4. CASE ~s.header /\ ~(s.size < 2)
  <2> DEFINE u == PushHeader(s)
             w == [u EXCEPT !.idat = u.len]
  <2>1. png_push_read_IDAT(s, how) = HeaderOfIDAT(u, how)
    BY <1>4, Zenon DEF png_push_read_IDAT, HeaderSize
  <2>2. IsPs(u) /\ u.png = s.png /\ (u.mode = "error" \/ AtHeader(s, u))
    <3>1. 2 \in Nat
      OBVIOUS
    <3>2. Holds(s, 2)
      BY <1>1, <1>4, <3>1, AtMost, Zenon
    <3> QED BY <1>1, <3>2, HeaderKeeps, Zenon
  <2> HIDE DEF u
  <2>3. CASE u.mode = "error"
    <3>1. HeaderOfIDAT(u, how) = u
      BY <2>3, Zenon DEF HeaderOfIDAT
    <3> QED BY <1>1, <2>1, <2>2, <2>3, <3>1, Zenon DEF Good, Failed, Going
  <2>4. CASE AtHeader(s, u)
    <3>1. InChunk(u) /\ u.mode = "idat" /\ Less(u, s)
      BY <2>2, <2>4, AtHeaderInChunk, Zenon
    <3>2. u.mode # "error"
      BY <3>1
    <3>3. CASE stream[u.at].name = "IDAT"
      <4>1. HeaderOfIDAT(u, how) = DataOfIDAT(w, how)
        BY <3>2, <3>3, Zenon DEF HeaderOfIDAT
      <4>2. u.len \in Nat
        <5>1. stream[u.at] \in Chunk
          BY <3>1, ElementOfSeq, Zenon DEF InChunk, FileThere
        <5>2. stream[u.at].data \in Seq(Symbols)
          BY <5>1, Zenon DEF Chunk
        <5> QED BY <3>1, <5>2, LenProperties, Zenon DEF InChunk
      <4>3. /\ IsPs(w) /\ w.mode = "idat" /\ w.header = u.header /\ w.at = u.at
            /\ w.len = u.len /\ w.idat = u.len /\ w.pass = u.pass /\ w.png = u.png
            /\ w.size = u.size /\ w.save = u.save /\ w.cur = u.cur /\ w.taken = u.taken
            /\ w.fed = u.fed
        BY <3>1, Zenon DEF InChunk, IsPs, PsFields
      <4> HIDE DEF w
      <4>4. InData(w)
        BY <3>1, <4>2, <4>3, Zenon DEF InData, InChunk, Live
      <4>5. Less(w, s)
        BY <3>1, <4>3, Zenon DEF Less
      <4>6. LET t == DataOfIDAT(w, how)
            IN  Good(t, w) \/ Stopped(t, how) \/ (t = w /\ w.size = 0)
        BY <4>4, DataKeeps, Zenon
      <4>7. Going(w) /\ Live(w)
        BY <4>4, InChunkIsGoing, Zenon DEF InData
      <4> QED BY <2>1, <4>1, <4>5, <4>6, <4>7, GoodOn, Zenon DEF Good
    <3>4. CASE stream[u.at].name # "IDAT"
      <4> DEFINE t == [u EXCEPT !.mode = IF u.ended THEN "chunk" ELSE "error"]
      <4>1. HeaderOfIDAT(u, how) = t
        BY <3>2, <3>4, Zenon DEF HeaderOfIDAT
      <4>2. /\ IsPs(t) /\ (t.mode = "chunk" \/ t.mode = "error") /\ t.header = u.header
            /\ t.at = u.at /\ t.len = u.len /\ t.idat = u.idat /\ t.pass = u.pass
            /\ t.png = u.png /\ t.size = u.size /\ t.save = u.save /\ t.cur = u.cur
            /\ t.taken = u.taken /\ t.fed = u.fed
        BY <3>1, Zenon DEF InChunk, IsPs, PsFields
      <4> HIDE DEF t
      <4>3. CASE t.mode = "error"
        BY <2>1, <3>1, <4>1, <4>2, <4>3, Zenon DEF Good, Failed, InChunk
      <4>4. CASE t.mode = "chunk"
        <5>1. InChunk(t)
          BY <3>1, <4>2, Zenon DEF InChunk, Live
        <5>2. Going(t) /\ Live(t)
          BY <3>4, <4>2, <4>4, <5>1, InChunkIsGoing, Zenon
        <5>3. Less(t, s)
          BY <3>1, <4>2, Zenon DEF Less
        <5> QED BY <2>1, <4>1, <5>2, <5>3, Zenon DEF Good
      <4> QED BY <4>2, <4>3, <4>4, Zenon
    <3> QED BY <3>3, <3>4, Zenon
  <2> QED BY <2>2, <2>3, <2>4, Zenon
<1> QED BY <1>2, <1>3, <1>4, Zenon

(* The first IDAT chunk. *)
LEMMA ImageKeeps ==
  ASSUME FileThere, NEW s, InChunk(s), NEW how \in {"no", "save", "again"}
  PROVE  LET t == PushImage(s, how)
         IN  Failed(t) \/ (Going(t) /\ (Settled(t) \/ (Live(t) /\ t.size = s.size)))
<1> DEFINE late == IF "AFTER_IDAT" \in s.png.mode THEN {"CHUNK_AFTER_IDAT"} ELSE {}
           p == [s.png EXCEPT !.mode = @ \cup (late \cup {"IDAT"})]
           q == [s EXCEPT !.mode = "idat", !.idat = s.len, !.png = p, !.init = TRUE,
                          !.pic = Blank(image)]
           u == png_process_data_pause(q, how)
           t == NewRow(u)
<1>1. PushImage(s, how) = [s EXCEPT !.mode = "error"] \/ PushImage(s, how) = t
  <2>1. [[s EXCEPT !.mode = "idat", !.idat = s.len,
                   !.png.mode = @ \cup late \cup {"IDAT"}]
            EXCEPT !.init = TRUE, !.pic = Blank(image)] = q
    <3>1. \A m : (m \cup late) \cup {"IDAT"} = m \cup (late \cup {"IDAT"})
      OBVIOUS
    <3>2. s.png.mode \cup late \cup {"IDAT"} = s.png.mode \cup (late \cup {"IDAT"})
      BY <3>1, Zenon
    <3> HIDE DEF late
    <3> QED BY <3>2, Zenon DEF InChunk, IsPs, PsFields
  <2> HIDE DEF q
  <2> QED BY <2>1, Zenon DEF PushImage, PushFail
<1>2. CASE PushImage(s, how) = [s EXCEPT !.mode = "error"]
  <2>1. Failed(PushImage(s, how))
    BY <1>2, Zenon DEF Failed, InChunk, IsPs, PsFields
  <2> QED BY <2>1, Zenon
<1>3. CASE PushImage(s, how) = t
  <2>1. late \cup {"IDAT"} \in SUBSET {"IDAT", "AFTER_IDAT", "CHUNK_AFTER_IDAT"}
    OBVIOUS
  <2> HIDE DEF late
  <2>2. PngInv(p)
    BY <2>1, MarkKeeps, Zenon DEF InChunk
  <2> HIDE DEF p
  <2>3. s.len \in Nat
    <3>1. stream[s.at] \in Chunk
      BY ElementOfSeq, Zenon DEF InChunk, FileThere
    <3>2. stream[s.at].data \in Seq(Symbols)
      BY <3>1, Zenon DEF Chunk
    <3> QED BY <3>2, LenProperties, Zenon DEF InChunk
  <2>4. /\ IsPs(q) /\ q.mode = "idat" /\ q.header = s.header /\ q.at = s.at
        /\ q.len = s.len /\ q.idat = s.len /\ q.pass = s.pass /\ q.png = p
        /\ q.size = s.size /\ q.save = s.save /\ q.cur = s.cur /\ q.taken = s.taken
        /\ q.fed = s.fed
    BY Zenon DEF InChunk, IsPs, PsFields
  <2> HIDE DEF q
  <2>5. InChunk(q)
    BY <2>2, <2>3, <2>4, Zenon DEF InChunk, Live
  <2>6. Going(q) /\ Live(q)
    BY <2>4, <2>5, InChunkIsGoing, Zenon
  <2>7. Same(q, u) /\ ((Live(u) /\ u.size = q.size) \/ Settled(u))
    BY <2>4, <2>6, PauseKeeps, Zenon
  <2> HIDE DEF u
  <2>8. Going(u)
    BY <2>6, <2>7, GoingSame, Zenon
  <2>9. Kept(u, t) /\ t.mode = u.mode /\ t.pass = u.pass
    BY <2>8, Zenon DEF NewRow, Kept, Going, IsPs, PsFields
  <2> HIDE DEF t
  <2>10. Going(t)
    BY <2>8, <2>9, Zenon DEF Kept, Going
  <2>11. (Live(u) => Live(t) /\ t.size = u.size) /\ (Settled(u) => Settled(t))
    BY <2>9, Zenon DEF Kept, Live, Settled
  <2> QED BY <1>3, <2>4, <2>7, <2>10, <2>11, Zenon
<1> QED BY <1>1, <1>2, <1>3, Zenon

ImageTyped == image.color \in Colors

(* Any other chunk is saved, or handled. *)
LEMMA BodyKeeps ==
  ASSUME FileThere, ImageTyped, NEW s, InChunk(s), s.mode = "chunk",
         stream[s.at].name # "IDAT", NEW how
  PROVE  Good(ChunkBody(s, stream[s.at], how), s)
<1>1. Going(s) /\ Live(s) /\ IsPs(s) /\ s.mode # "error"
  BY InChunkIsGoing DEF InChunk
<1>2. stream[s.at] \in Chunk
  BY ElementOfSeq, Zenon DEF InChunk, FileThere
<1>3. PICK l \in Nat : l = s.len
  <2>1. stream[s.at].data \in Seq(Symbols)
    BY <1>2, Zenon DEF Chunk
  <2> QED BY <2>1, LenProperties, Zenon DEF InChunk
<1>4. PICK z \in Nat : z = s.size
  BY Zenon DEF InChunk
<1>5. CASE NotAllThere(s)
  <2>1. ChunkBody(s, stream[s.at], how) = png_push_save_buffer(s)
    BY <1>1, <1>5, Zenon DEF ChunkBody
  <2> QED BY <1>1, <2>1, SavedIsGood, Zenon
<1>6. CASE ~NotAllThere(s)
  <2>1. PICK n \in Nat \ {0} : n = l + 2 /\ n \in Nat
    OBVIOUS
  <2>2. n <= z
    <3>1. ~(n > z)
      BY <1>3, <1>4, <1>6, <2>1, Zenon DEF NotAllThere, CrcSize
    <3> QED BY <3>1
  <2>3. Holds(s, n)
    BY <1>4, <2>2, Zenon DEF Holds
  <2> DEFINE f == png_push_fill_buffer(s, n).s
             p == Dispatch(s.png, stream[s.at], image, KnownChunks \ {"eXIf"})
             name == stream[s.at].name
             t == [f EXCEPT !.png = p, !.header = FALSE,
                            !.mode = IF name = "IEND" THEN "done" ELSE @]
  <2>4. ChunkBody(s, stream[s.at], how) = IF p.err THEN [f EXCEPT !.mode = "error"] ELSE t
    BY <1>1, <1>3, <1>6, <2>1, Zenon DEF ChunkBody, Handled, PushFail, CrcSize
  <2>5. PngInv(p)
    <3>1. KnownChunks \ {"eXIf"} \in SUBSET KnownChunks
      BY Zenon
    <3> QED BY <1>2, <3>1, DispatchKeeps, Zenon DEF ImageTyped, InChunk
  <2>6. Filled(s, n, f)
    BY <1>1, <2>1, <2>3, FillTakes, Zenon
  <2> HIDE DEF f, p, name
  <2>7. Same(s, f) /\ Live(f) /\ f.size \in Nat /\ f.size + n = s.size
    BY <2>6, Zenon DEF Filled
  <2>8. CASE p.err
    <3>1. Failed([f EXCEPT !.mode = "error"])
      BY <1>1, <2>7, Zenon DEF Same, Failed, Going, IsPs, PsFields
    <3> QED BY <2>4, <2>8, <3>1, Zenon DEF Good
  <2>9. CASE ~p.err
    <3>1. /\ IsPs(t) /\ (t.mode = "done" \/ t.mode = "chunk") /\ t.header = FALSE
          /\ t.idat = s.idat /\ t.pass = s.pass /\ t.png = p
          /\ t.size = f.size /\ t.save = f.save /\ t.cur = f.cur /\ t.taken = f.taken
          /\ t.fed = f.fed
      BY <2>7, Zenon DEF Same, IsPs, PsFields
    <3> HIDE DEF t
    <3>2. Live(t)
      BY <2>7, <3>1, Zenon DEF Live
    <3>3. Less(t, s)
      BY <2>1, <2>7, <3>1, LessBy, Zenon
    <3>4. CASE t.mode = "done"
      <4>1. Done(t)
        BY <2>5, <2>7, <3>1, <3>2, <3>4, Zenon DEF Done, Live, Piece
      <4> QED BY <2>4, <2>9, <3>3, <4>1, Zenon DEF Good
    <3>5. CASE t.mode = "chunk"
      <4>1. Going(t)
        BY <1>1, <2>5, <3>1, <3>5 DEF Going
      <4> QED BY <2>4, <2>9, <3>2, <3>3, <4>1, Zenon DEF Good
    <3> QED BY <3>1, <3>4, <3>5, Zenon
  <2> QED BY <2>8, <2>9, Zenon
<1> QED BY <1>5, <1>6, Zenon

LEMMA ReadChunkKeeps ==
  ASSUME FileThere, ImageTyped, NEW s, Busy(s), s.mode = "chunk",
         NEW how \in {"no", "save", "again"}
  PROVE  Good(png_push_read_chunk(s, how), s)
<1>1. Going(s) /\ Live(s) /\ IsPs(s) /\ s.size \in Nat /\ s.size # 0
  BY Zenon DEF Busy, Going
<1>2. CASE s.header
  <2>1. InChunk(s) /\ stream[s.at].name # "IDAT"
    BY <1>1, <1>2, Zenon DEF InChunk, Going
  <2>2. png_push_read_chunk(s, how) = ChunkBody(s, stream[s.at], how)
    BY <1>2, Zenon DEF png_push_read_chunk, AtChunk
  <2> QED BY <2>1, <2>2, BodyKeeps, Zenon
<1>3. CASE ~s.header /\ s.size < 2
  <2>1. png_push_read_chunk(s, how) = png_push_save_buffer(s)
    BY <1>3, Zenon DEF png_push_read_chunk, HeaderSize
  <2> QED BY <1>1, <2>1, SavedIsGood, Zenon
<1>4. CASE ~s.header /\ ~(s.size < 2)
  <2> DEFINE u == PushHeader(s)
  <2>1. png_push_read_chunk(s, how) = ChunkBody(u, stream[u.at], how)
    BY <1>4, Zenon DEF png_push_read_chunk, AtChunk, HeaderSize
  <2>2. IsPs(u) /\ u.png = s.png /\ (u.mode = "error" \/ AtHeader(s, u))
    <3>1. 2 \in Nat
      OBVIOUS
    <3>2. Holds(s, 2)
      BY <1>1, <1>4, <3>1, AtMost, Zenon
    <3> QED BY <1>1, <3>2, HeaderKeeps, Zenon
  <2> HIDE DEF u
  <2>3. CASE u.mode = "error"
    <3>1. ChunkBody(u, stream[u.at], how) = u
      BY <2>3, Zenon DEF ChunkBody
    <3> QED BY <1>1, <2>1, <2>2, <2>3, <3>1, Zenon DEF Good, Failed, Going
  <2>4. CASE AtHeader(s, u)
    <3>1. InChunk(u) /\ u.mode = "chunk" /\ Less(u, s)
      BY <2>2, <2>4, AtHeaderInChunk, Zenon
    <3>2. CASE stream[u.at].name = "IDAT"
      <4>1. u.mode # "error"
        BY <3>1
      <4>2. ChunkBody(u, stream[u.at], how) = PushImage(u, how)
        BY <3>2, <4>1, Zenon DEF ChunkBody
      <4> DEFINE t == PushImage(u, how)
      <4>3. Failed(t) \/ (Going(t) /\ (Settled(t) \/ (Live(t) /\ t.size = u.size)))
        BY <3>1, ImageKeeps, Zenon
      <4> HIDE DEF t
      <4>4. t.size = u.size => Less(t, s)
        BY <3>1, Zenon DEF Less
      <4>5. Good(t, s)
        BY <4>3, <4>4, Zenon DEF Good
      <4> QED BY <2>1, <4>2, <4>5, Zenon DEF t
    <3>3. CASE stream[u.at].name # "IDAT"
      BY <2>1, <3>1, <3>3, BodyKeeps, GoodOn, Zenon
    <3> QED BY <3>2, <3>3, Zenon
  <2> QED BY <2>2, <2>3, <2>4, Zenon
<1> QED BY <1>2, <1>3, <1>4, Zenon

LEMMA ReadSigKeeps ==
  ASSUME NEW s, Busy(s), s.mode = "sig"
  PROVE  Good(png_push_read_sig(s), s)
<1>1. PICK g \in 0..1 : g = s.sig
  BY Zenon DEF Busy, Going
<1>2. PICK z \in Nat \ {0} : z = s.size
  BY Zenon DEF Busy
<1>3. PICK n \in Nat \ {0} : /\ n = Min2(2 - g, z) /\ n \in Nat /\ n <= z
                             /\ g + n \in 0..2 /\ (~(g + n >= 2) => g + n \in 0..1)
  BY DEF Min2
<1>4. Holds(s, n)
  BY <1>2, <1>3, Zenon DEF Holds
<1> DEFINE f == png_push_fill_buffer(s, n).s
           t == [f EXCEPT !.sig = @ + n, !.mode = IF g + n >= 2 THEN "chunk" ELSE @]
<1>5. png_push_read_sig(s) = t
  BY <1>1, <1>2, <1>3, Zenon DEF png_push_read_sig, SignatureSize
<1>6. Filled(s, n, f)
  BY <1>3, <1>4, FillTakes, Zenon DEF Busy, Going
<1> HIDE DEF f
<1>7. Same(s, f) /\ Live(f) /\ f.size \in Nat /\ f.size + n = s.size
  BY <1>6, Zenon DEF Filled
<1>8. /\ IsPs(t) /\ t.header = s.header /\ t.idat = s.idat /\ t.pass = s.pass
      /\ t.mode = (IF g + n >= 2 THEN "chunk" ELSE "sig") /\ t.sig = g + n
      /\ t.png = s.png /\ t.size = f.size /\ t.save = f.save /\ t.cur = f.cur
      /\ t.taken = f.taken /\ t.fed = f.fed
  BY <1>1, <1>7, Zenon DEF Same, IsPs, PsFields
<1> HIDE DEF t
<1>9. Live(t)
  BY <1>7, <1>8, Zenon DEF Live
<1>10. Less(t, s)
  BY <1>3, <1>7, <1>8, LessBy, Zenon
<1>11. Going(t)
  <2>1. ~s.header /\ s.pass \in 0..7 /\ PngInv(s.png) /\ s.idat \in Nat
    BY Zenon DEF Busy, Going
  <2>2. t.mode = "chunk" \/ (t.mode = "sig" /\ t.sig \in 0..1)
    BY <1>3, <1>8, Zenon
  <2> QED BY <1>8, <2>1, <2>2, Zenon DEF Going
<1> QED BY <1>5, <1>9, <1>10, <1>11, Zenon DEF Good

(* A call of png_process_some_data, with something in the buffers. *)
LEMMA ProcessKeeps ==
  ASSUME FileThere, ImageTyped, NEW s, Busy(s) \/ (Done(s) /\ s.size # 0),
         NEW how \in {"no", "save", "again"}
  PROVE  LET t == png_process_some_data(s, how)
         IN  Good(t, s) \/ Stopped(t, how)
<1>1. CASE Busy(s)
  <2>1. s.mode = "sig" \/ s.mode = "chunk" \/ s.mode = "idat"
    BY <1>1, Zenon DEF Busy, Going
  <2>2. CASE s.mode = "sig"
    BY <1>1, <2>2, ReadSigKeeps DEF png_process_some_data
  <2>3. CASE s.mode = "chunk"
    BY <1>1, <2>3, ReadChunkKeeps DEF png_process_some_data
  <2>4. CASE s.mode = "idat"
    BY <1>1, <2>4, ReadIDATKeeps DEF png_process_some_data
  <2> QED BY <2>1, <2>2, <2>3, <2>4, Zenon
<1>2. CASE Done(s) /\ s.size # 0
  <2> DEFINE t == [s EXCEPT !.size = 0]
  <2>1. s.mode = "done"
    BY <1>2, Zenon DEF Done
  <2>2. png_process_some_data(s, how) = t
    BY <2>1 DEF png_process_some_data
  <2>3. /\ IsPs(t) /\ t.mode = "done" /\ t.png = s.png /\ t.size = 0 /\ t.save = s.save
        /\ t.fed = s.fed
    BY <1>2, <2>1, Zenon DEF Done, IsPs, PsFields
  <2> HIDE DEF t
  <2>4. 0 \in Nat
    OBVIOUS
  <2>5. Done(t)
    BY <1>2, <2>3, <2>4, Zenon DEF Done
  <2>6. Less(t, s)
    <3>1. PICK z \in Nat : z = s.size /\ z # 0
      BY <1>2, Zenon DEF Done
    <3>2. 0 < z
      BY <3>1
    <3> QED BY <2>3, <2>4, <3>1, <3>2, Zenon DEF Less
  <2> QED BY <2>2, <2>5, <2>6, Zenon DEF Good
<1> QED BY <1>1, <1>2, Zenon

-----------------------------------------------------------------------------
(* What the application sets, and the chunks the writer makes of it. *)

LEMMA PngFields ==
  ASSUME NEW p \in Png
  PROVE  /\ \A x \in SUBSET KnownChunks : [p EXCEPT !.valid = x] \in Png
         /\ \A x \in SUBSET SpaceFlags : [p EXCEPT !.cs = x] \in Png
         /\ \A x \in SUBSET SpaceFlags, n \in Nat :
              [p EXCEPT !.gamma = n, !.cs = x] \in Png /\ [p EXCEPT !.xy = n, !.cs = x] \in Png
         /\ \A x \in SUBSET SpaceFlags, n \in Nat, m \in Nat :
              [p EXCEPT !.gamma = n, !.xy = m, !.cs = x] \in Png
         /\ \A x \in SUBSET KnownChunks, n \in Nat :
              [p EXCEPT !.num_palette = n, !.valid = x] \in Png
         /\ \A n \in Nat : /\ [p EXCEPT !.num_trans = n] \in Png
                           /\ [p EXCEPT !.bkgd = n] \in Png
                           /\ [p EXCEPT !.hist = n] \in Png
                           /\ [p EXCEPT !.texts = n] \in Png
         /\ [p EXCEPT !.err = TRUE] \in Png
BY Zenon DEF Png

LEMMA Flags ==
  ASSUME NEW p \in Png
  PROVE  /\ p.valid \in SUBSET KnownChunks /\ p.num_palette \in Nat /\ p.texts + 1 \in Nat
         /\ p.valid \cup {"PLTE"} \in SUBSET KnownChunks
         /\ \A name \in KnownChunks : p.valid \cup {name} \in SUBSET KnownChunks
         /\ p.cs \cup {"INVALID"} \in SUBSET SpaceFlags
         /\ p.cs \cup {"FROM_cHRM"} \in SUBSET SpaceFlags
         /\ p.cs \cup {"HAVE_GAMMA", "FROM_gAMA"} \in SUBSET SpaceFlags
         /\ p.cs \cup {"HAVE_ENDPOINTS"} \in SUBSET SpaceFlags
         /\ p.cs \cup {"FROM_gAMA", "FROM_cHRM"} \in SUBSET SpaceFlags
         /\ p.cs \cup {"HAVE_INTENT", "HAVE_ENDPOINTS", "HAVE_GAMMA", "MATCHES_sRGB",
                       "FROM_sRGB"} \in SUBSET SpaceFlags
<1>1. /\ p.valid \in SUBSET KnownChunks /\ p.num_palette \in Nat /\ p.texts \in Nat
      /\ p.cs \in SUBSET SpaceFlags
  BY DEF Png
<1>2. "PLTE" \in KnownChunks
  BY DEF KnownChunks
<1> QED BY <1>1, <1>2 DEF SpaceFlags

LEMMA SyncIsPng ==
  ASSUME NEW q \in Png
  PROVE  png_colorspace_sync(q) \in Png
<1> DEFINE v == IF "INVALID" \in q.cs THEN q.valid \ {"gAMA", "cHRM", "sRGB", "iCCP"}
                ELSE (q.valid \ {"gAMA", "cHRM", "sRGB"}) \cup Reported(q.cs)
<1>1. Reported(q.cs) \subseteq KnownChunks
  BY DEF Reported, KnownChunks
<1>2. q.valid \subseteq KnownChunks
  BY Flags
<1>3. v \in SUBSET KnownChunks
  BY <1>1, <1>2
<1>4. png_colorspace_sync(q) = [q EXCEPT !.valid = v]
  BY Zenon DEF png_colorspace_sync
<1> HIDE DEF v
<1> QED BY <1>3, <1>4, PngFields, Zenon

LEMMA SetKeeps ==
  ASSUME NEW p \in Png, NEW s \in Settings
  PROVE  PngSet(p, s) \in Png
<1>1. PICK n \in Nat : s.num = n
  BY DEF Settings
<1>2. s.name \in KnownChunks /\ {"tRNS", "bKGD", "hIST", "iCCP"} \subseteq KnownChunks
  BY DEF Settings, KnownChunks
<1>3. Invalid(p) \in Png
  BY PngFields, Flags, Zenon DEF Invalid
<1>4. \A name \in KnownChunks : Keep(p, name) \in Png
  BY PngFields, Flags, Zenon DEF Keep
<1>5. png_set_PLTE(p, n) \in Png
  BY PngFields, Flags, Zenon DEF png_set_PLTE, png_error
<1>6. png_set_tRNS(p, n) \in Png /\ png_set_bKGD(p, n) \in Png
  <2>1. Keep(p, "tRNS") \in Png /\ Keep(p, "bKGD") \in Png
    BY <1>2, <1>4
  <2> QED BY <2>1, PngFields, Zenon DEF png_set_tRNS, png_set_bKGD
<1>7. png_set_hIST(p) \in Png
  <2>1. Keep(p, "hIST") \in Png
    BY <1>2, <1>4
  <2> QED BY <2>1, PngFields, Flags, Zenon DEF png_set_hIST
<1>8. png_set_gAMA_fixed(p, n) \in Png
  <2>1. png_colorspace_set_gamma(p, n, FALSE) \in Png
    BY <1>3, PngFields, Flags, Zenon DEF png_colorspace_set_gamma
  <2> QED BY <2>1, SyncIsPng, Zenon DEF png_set_gAMA_fixed
<1>9. png_set_cHRM_fixed(p, n) \in Png
  <2> DEFINE q == png_colorspace_set_chromaticities(p, n, 2)
             r == IF "INVALID" \in q.cs THEN q ELSE [q EXCEPT !.cs = @ \cup {"FROM_cHRM"}]
  <2>1. q \in Png
    BY <1>3, PngFields, Flags, Zenon DEF png_colorspace_set_chromaticities
  <2> HIDE DEF q
  <2>2. r \in Png
    BY <2>1, PngFields, Flags, Zenon
  <2>3. png_set_cHRM_fixed(p, n) = png_colorspace_sync(r)
    BY Zenon DEF png_set_cHRM_fixed, q
  <2> HIDE DEF r
  <2> QED BY <2>2, <2>3, SyncIsPng, Zenon
<1>10. png_set_sRGB(p, n) \in Png
  <2>1. OfSRGB \in Nat
    BY DEF OfSRGB
  <2>2. png_colorspace_set_sRGB(p, n) \in Png
    BY <1>3, <2>1, PngFields, Flags, Zenon DEF png_colorspace_set_sRGB
  <2> QED BY <2>2, SyncIsPng, Zenon DEF png_set_sRGB
<1>11. png_set_iCCP(p) \in Png
  <2> DEFINE q == [p EXCEPT !.cs = @ \cup {"FROM_gAMA", "FROM_cHRM"}]
  <2>1. q \in Png
    BY PngFields, Flags, Zenon
  <2> HIDE DEF q
  <2>2. "iCCP" \in KnownChunks
    BY <1>2
  <2>3. Keep(q, "iCCP") \in Png
    BY <2>1, <2>2, PngFields, Flags, Zenon DEF Keep
  <2> QED BY <2>3, SyncIsPng, Zenon DEF png_set_iCCP, q
<1>12. [p EXCEPT !.texts = @ + 1] \in Png
  BY PngFields, Flags, Zenon
<1>13. Keep(p, s.name) \in Png
  BY <1>2, <1>4, Zenon
<1>14. PngSet(p, s) \in {png_set_PLTE(p, n), png_set_tRNS(p, n), png_set_bKGD(p, n),
                         png_set_hIST(p), png_set_gAMA_fixed(p, n),
                         png_set_cHRM_fixed(p, n), png_set_sRGB(p, n), png_set_iCCP(p),
                         [p EXCEPT !.texts = @ + 1], Keep(p, s.name)}
  BY <1>1, Zenon DEF PngSet
<1> QED BY <1>5, <1>6, <1>7, <1>8, <1>9, <1>10, <1>11, <1>12, <1>13, <1>14, Zenon

LEMMA SetsKeep ==
  ASSUME NEW p \in Png, NEW ss \in Seq(Settings)
  PROVE  PngSets(p, ss) \in Png
<1>1. PICK k \in Nat : k = Len(ss)
  BY LenProperties, Zenon
<1>2. PICK g : SetsRun(p, ss, g)
  BY <1>1, PngSetsLoop, Zenon
<1>3. /\ g[0] = p /\ PngSets(p, ss) = g[Len(ss)]
      /\ \A n \in 1..Len(ss) : g[n] = PngSet(g[n - 1], ss[n])
  BY <1>2, Zenon DEF SetsRun
<1> DEFINE G == {n \in 0..k : g[n] \in Png}
<1>4. 0 \in G
  BY <1>3
<1>5. \A n \in 1..k : n - 1 \in G => n \in G
  <2> SUFFICES ASSUME NEW n \in 1..k, g[n - 1] \in Png PROVE g[n] \in Png
    OBVIOUS
  <2>1. ss[n] \in Settings
    BY <1>1, ElementOfSeq, Zenon
  <2>2. g[n] = PngSet(g[n - 1], ss[n])
    BY <1>1, <1>3, Zenon
  <2> QED BY <2>1, <2>2, SetKeeps, Zenon
<1> HIDE DEF G
<1>6. 0..k \subseteq G
  BY <1>4, <1>5, Upwards, Zenon
<1>7. k \in G
  BY <1>6
<1> QED BY <1>1, <1>3, <1>7, Zenon DEF G

LEMMA ChunkOfIsChunk ==
  ASSUME NEW name \in KnownChunks \cup {"IDAT", "CRIT", "vpAg"}, NEW data \in Seq(Symbols),
         NEW num \in Nat
  PROVE  ChunkOf(name, data, num) \in Chunk
BY DEF ChunkOf, Chunk

LEMMA Singleton == ASSUME NEW S, NEW e \in S PROVE <<e>> \in Seq(S)
OBVIOUS

LEMMA PlainData == /\ <<Plain>> \in Seq(Symbols) /\ <<Plain, Plain>> \in Seq(Symbols)
                   /\ <<>> \in Seq(Symbols) /\ DataEnd \in Seq(Symbols)
BY DEF Symbols, Plain, DataEnd, BlockEnd, Adler

LEMMA IfIsChunks ==
  ASSUME NEW b, NEW name \in KnownChunks, NEW num \in Nat
  PROVE  If(b, name, num) \in Seq(Chunk)
<1>1. ChunkOf(name, <<Plain>>, num) \in Chunk
  BY ChunkOfIsChunk, PlainData, Zenon
<1>2. <<ChunkOf(name, <<Plain>>, num)>> \in Seq(Chunk)
  BY <1>1, Singleton, Zenon
<1>3. <<>> \in Seq(Chunk)
  BY EmptySeq, Zenon
<1> QED BY <1>2, <1>3, Zenon DEF If

LEMMA TextsAreChunks ==
  ASSUME NEW n \in Int
  PROVE  Texts(n) \in Seq(Chunk)
<1>1. ChunkOf("tEXt", <<Plain>>, 0) \in Chunk
  BY ChunkOfIsChunk, PlainData, Zenon DEF KnownChunks
<1>2. CASE n \in Nat
  BY <1>1, <1>2 DEF Texts
<1>3. CASE n \notin Nat
  <2>1. 1..n = 1..0
    BY <1>3
  <2>2. Texts(n) = [i \in 1..0 |-> ChunkOf("tEXt", <<Plain>>, 0)]
    BY <2>1, Zenon DEF Texts
  <2>3. [i \in 1..0 |-> ChunkOf("tEXt", <<Plain>>, 0)] \in Seq(Chunk)
    BY <1>1
  <2> QED BY <2>2, <2>3, Zenon
<1> QED BY <1>2, <1>3

LEMMA Both == ASSUME NEW s \in Seq(Chunk), NEW t \in Seq(Chunk) PROVE s \o t \in Seq(Chunk)
BY ConcatProperties, Zenon

LEMMA InfoChunks ==
  ASSUME NEW i \in Png
  PROVE  png_write_info_before_PLTE(i) \in Seq(Chunk) /\ AfterPLTE(i) \in Seq(Chunk)
<1>1. /\ i.gamma \in Nat /\ i.xy \in Nat /\ i.num_palette \in Nat /\ i.num_trans \in Nat
      /\ i.bkgd \in Nat /\ i.texts \in Int /\ 0 \in Nat /\ Other \in Nat /\ OfSRGB \in Nat
  BY DEF Png, Other, OfSRGB
<1>2. \A b, num : num \in Nat =>
        \A name \in {"gAMA", "iCCP", "sRGB", "sBIT", "cHRM", "PLTE", "tRNS", "bKGD", "eXIf",
                     "hIST", "oFFs", "pCAL", "sCAL", "pHYs", "tIME", "sPLT"} :
          If(b, name, num) \in Seq(Chunk)
  BY IfIsChunks, Zenon DEF KnownChunks
<1>3. <<ChunkOf("IHDR", <<Plain, Plain>>, 0)>> \in Seq(Chunk)
  <2>1. ChunkOf("IHDR", <<Plain, Plain>>, 0) \in Chunk
    BY ChunkOfIsChunk, PlainData, Zenon DEF KnownChunks
  <2> QED BY <2>1, Singleton, Zenon
<1>4. Texts(i.texts) \in Seq(Chunk)
  BY <1>1, TextsAreChunks, Zenon
<1>5. png_write_info_before_PLTE(i) \in Seq(Chunk)
  <2>1. \E b, c, d, e, f :
          png_write_info_before_PLTE(i) =
            <<ChunkOf("IHDR", <<Plain, Plain>>, 0)>>
              \o If(b, "gAMA", i.gamma) \o If(c, "iCCP", Other) \o If(d, "sRGB", OfSRGB)
              \o If(e, "sBIT", 0) \o If(f, "cHRM", i.xy)
    BY Zenon DEF png_write_info_before_PLTE
  <2>2. \A b : /\ If(b, "gAMA", i.gamma) \in Seq(Chunk)
               /\ If(b, "iCCP", Other) \in Seq(Chunk)
               /\ If(b, "sRGB", OfSRGB) \in Seq(Chunk)
               /\ If(b, "sBIT", 0) \in Seq(Chunk)
               /\ If(b, "cHRM", i.xy) \in Seq(Chunk)
    BY <1>1, <1>2, Zenon
  <2> QED BY <1>3, <2>1, <2>2, Both, Zenon
<1>6. AfterPLTE(i) \in Seq(Chunk)
  <2> DEFINE a == If(png_write_PLTE(i), "PLTE", i.num_palette)
             b == a \o If(png_write_tRNS(i), "tRNS", i.num_trans)
             c == b \o If(png_write_bKGD(i), "bKGD", i.bkgd)
             d == c \o If("eXIf" \in i.valid, "eXIf", 0)
             e == d \o If("hIST" \in i.valid, "hIST", i.num_palette)
             f == e \o If("oFFs" \in i.valid, "oFFs", 0)
             g == f \o If("pCAL" \in i.valid, "pCAL", 0)
             h == g \o If("sCAL" \in i.valid, "sCAL", 0)
             j == h \o If("pHYs" \in i.valid, "pHYs", 0)
             k == j \o If("tIME" \in i.valid, "tIME", 0)
             l == k \o If("sPLT" \in i.valid, "sPLT", 0)
  <2>1. AfterPLTE(i) = l \o Texts(i.texts)
    BY Zenon DEF AfterPLTE
  <2>2. a \in Seq(Chunk)
    BY <1>1, <1>2, Zenon
  <2>3. ASSUME NEW s \in Seq(Chunk), NEW t, NEW num \in Nat,
               NEW name \in {"gAMA", "iCCP", "sRGB", "sBIT", "cHRM", "PLTE", "tRNS", "bKGD",
                             "eXIf", "hIST", "oFFs", "pCAL", "sCAL", "pHYs", "tIME", "sPLT"}
        PROVE  s \o If(t, name, num) \in Seq(Chunk)
    BY <1>2, Both, Zenon
  <2> HIDE DEF a
  <2>4. b \in Seq(Chunk)
    BY <1>1, <2>2, <2>3, Zenon
  <2> HIDE DEF b
  <2>5. c \in Seq(Chunk)
    BY <1>1, <2>3, <2>4, Zenon
  <2> HIDE DEF c
  <2>6. d \in Seq(Chunk)
    BY <1>1, <2>3, <2>5, Zenon
  <2> HIDE DEF d
  <2>7. e \in Seq(Chunk)
    BY <1>1, <2>3, <2>6, Zenon
  <2> HIDE DEF e
  <2>8. f \in Seq(Chunk)
    BY <1>1, <2>3, <2>7, Zenon
  <2> HIDE DEF f
  <2>9. g \in Seq(Chunk)
    BY <1>1, <2>3, <2>8, Zenon
  <2> HIDE DEF g
  <2>10. h \in Seq(Chunk)
    BY <1>1, <2>3, <2>9, Zenon
  <2> HIDE DEF h
  <2>11. j \in Seq(Chunk)
    BY <1>1, <2>3, <2>10, Zenon
  <2> HIDE DEF j
  <2>12. k \in Seq(Chunk)
    BY <1>1, <2>3, <2>11, Zenon
  <2> HIDE DEF k
  <2>13. l \in Seq(Chunk)
    BY <1>1, <2>3, <2>12, Zenon
  <2> HIDE DEF l
  <2> QED BY <1>4, <2>1, <2>13, Both, Zenon
<1> QED BY <1>5, <1>6

=============================================================================
