----------------------------- MODULE PngProofs -----------------------------
(***************************************************************************)
(* What holds of libpng from end to end, for every picture, every way the  *)
(* file is cut into pieces and every fault of the model.                   *)
(***************************************************************************)
EXTENDS PngCodec, PngPartsProofs

(* The sequential reader. *)

RdFields == {"pc", "at", "idat", "in", "z", "ended", "owned", "out", "avail", "check", "row",
             "pass", "pic", "png"}

IsRd(s) == DOMAIN s = RdFields

(* It is at a chunk of the file, or before the first. *)
RdOK(s) == IsRd(s) /\ s.at \in 0..Len(stream) /\ PngInv(s.png)

(* It has not gone back to where it was before the file was there. *)
Reads(t) == RdOK(t) /\ t.pc # "idle"

(* A step that is not about chunks. *)
RdKept(s, t) == IsRd(t) /\ t.at = s.at /\ t.png = s.png /\ t.pc # "idle"

LEMMA RdKeptReads == ASSUME NEW s, NEW t, RdOK(s), RdKept(s, t) PROVE Reads(t)
BY Zenon DEF RdOK, RdKept, Reads

LEMMA RdKeptOn == ASSUME NEW s, NEW t, NEW u, RdKept(s, t), RdKept(t, u) PROVE RdKept(s, u)
BY Zenon DEF RdKept

LEMMA RdFailKept == ASSUME NEW s, IsRd(s) PROVE RdKept(s, Fail(s)) /\ Fail(s).pc = "error"
<1>1. IsRd(Fail(s)) /\ Fail(s).at = s.at /\ Fail(s).png = s.png /\ Fail(s).pc = "error"
  BY Zenon DEF Fail, IsRd, RdFields
<1>2. Fail(s).pc # "idle"
  BY <1>1
<1> QED BY <1>1, <1>2, Zenon DEF RdKept

(* The header of the next chunk. *)
LEMMA RdHeader ==
  ASSUME stream \in Seq(Chunk), NEW s, Reads(s)
  PROVE  LET t == png_read_chunk_header(s)
         IN  Reads(t) /\ t.png = s.png /\ (t.pc = "error" \/ t.at \in 1..Len(stream))
<1> DEFINE t == png_read_chunk_header(s)
<1>1. CASE s.at < Len(stream) /\ There(s.at + 1, HeaderSize)
  <2>1. PICK n \in Nat : n = Len(stream)
    BY LenProperties, Zenon
  <2>2. PICK a \in 0..n : a = s.at
    BY <2>1, Zenon DEF Reads, RdOK
  <2>3. a < n
    BY <1>1, <2>1, <2>2, Zenon
  <2>4. a + 1 \in 0..n /\ a + 1 \in 1..n
    BY <2>3
  <2>5. t = [s EXCEPT !.at = @ + 1, !.idat = Len(stream[s.at + 1].data)]
    BY <1>1, Zenon DEF png_read_chunk_header
  <2>6. IsRd(t) /\ t.at = a + 1 /\ t.png = s.png /\ t.pc = s.pc
    BY <2>2, <2>5, Zenon DEF Reads, RdOK, IsRd, RdFields
  <2> HIDE DEF t
  <2> QED BY <2>1, <2>4, <2>6, Zenon DEF Reads, RdOK, t
<1>2. CASE ~(s.at < Len(stream) /\ There(s.at + 1, HeaderSize))
  <2>1. t = Fail(s)
    BY <1>2, Zenon DEF png_read_chunk_header
  <2>2. RdKept(s, t) /\ t.pc = "error"
    BY <2>1, RdFailKept, Zenon DEF Reads, RdOK
  <2> HIDE DEF t
  <2> QED BY <2>2, RdKeptReads, Zenon DEF Reads, RdKept, t
<1> QED BY <1>1, <1>2, Zenon

LEMMA RdCrc ==
  ASSUME NEW s, IsRd(s), s.pc # "idle"
  PROVE  RdKept(s, png_crc_finish(s))
<1>1. RdKept(s, [s EXCEPT !.idat = 0])
  BY Zenon DEF RdKept, IsRd, RdFields
<1> QED BY <1>1, RdFailKept, Zenon DEF png_crc_finish

(* A mark on what the handlers keep. *)
LEMMA RdMark ==
  ASSUME NEW s, Reads(s), NEW m \in SUBSET {"IDAT", "AFTER_IDAT", "CHUNK_AFTER_IDAT"},
         NEW t, IsRd(t), t.at = s.at, t.pc # "idle",
         t.png = [s.png EXCEPT !.mode = @ \cup m]
  PROVE  Reads(t)
<1>1. PngInv(s.png)
  BY Zenon DEF Reads, RdOK
<1>2. PngInv([s.png EXCEPT !.mode = @ \cup m])
  BY <1>1, MarkKeeps, Zenon
<1>3. PngInv(t.png)
  BY <1>2, Zenon
<1>4. t.at \in 0..Len(stream)
  BY Zenon DEF Reads, RdOK
<1> QED BY <1>3, <1>4, Zenon DEF Reads, RdOK

LEMMA RdChunk ==
  ASSUME stream \in Seq(Chunk), ImageTyped, NEW s, Reads(s), NEW end \in BOOLEAN
  PROVE  Reads(ReadChunk(s, end))
<1> DEFINE t == png_read_chunk_header(s)
           c == stream[t.at]
           p == t.png
           m == {"CHUNK_AFTER_IDAT"} \cup (IF end THEN {} ELSE {"AFTER_IDAT"})
           q == [p EXCEPT !.mode = @ \cup m]
           k == IF end \/ "IDAT" \in p.mode THEN q ELSE p
           r == Dispatch(k, c, image, KnownChunks)
           u == [t EXCEPT !.png = [p EXCEPT !.mode = @ \cup {"IDAT"}], !.pc = "rows",
                          !.owned = TRUE]
           v == [t EXCEPT !.png = r, !.pc = IF end /\ "IEND" \in r.mode THEN "done" ELSE @]
<1>1. Reads(t) /\ t.png = s.png /\ (t.pc = "error" \/ t.at \in 1..Len(stream))
  BY RdHeader, Zenon
<1>2. ReadChunk(s, end) \in {t, png_crc_finish(t), Fail(t), u, v}
      /\ (t.pc = "error" => ReadChunk(s, end) = t)
  <2>1. [p EXCEPT !.mode = @ \cup {"CHUNK_AFTER_IDAT"}
                             \cup (IF end THEN {} ELSE {"AFTER_IDAT"})] = q
    <3>1. \A x, y, z : (x \cup y) \cup z = x \cup (y \cup z)
      OBVIOUS
    <3>2. p.mode \cup {"CHUNK_AFTER_IDAT"} \cup (IF end THEN {} ELSE {"AFTER_IDAT"})
            = p.mode \cup m
      BY <3>1, Zenon
    <3> QED BY <3>2, Zenon
  <2>2. [t EXCEPT !.png.mode = @ \cup {"IDAT"}, !.pc = "rows", !.owned = TRUE] = u
    BY <1>1, Zenon DEF Reads, RdOK, IsRd, RdFields
  <2> HIDE DEF q, u, t
  <2> QED BY <2>1, <2>2, Zenon DEF ReadChunk, t
<1> HIDE DEF t
<1>3. CASE t.pc = "error"
  BY <1>1, <1>2, <1>3, Zenon
<1>4. CASE t.at \in 1..Len(stream)
  <2>1. c \in Chunk
    BY <1>4, ElementOfSeq, Zenon
  <2>2. PngInv(k)
    <3>1. m \in SUBSET {"IDAT", "AFTER_IDAT", "CHUNK_AFTER_IDAT"}
      OBVIOUS
    <3> HIDE DEF m
    <3>2. PngInv(p)
      BY <1>1, Zenon DEF Reads, RdOK
    <3>3. PngInv(q)
      BY <3>1, <3>2, MarkKeeps, Zenon
    <3> QED BY <3>2, <3>3, Zenon
  <2> HIDE DEF k, c
  <2>3. PngInv(r)
    <3>1. KnownChunks \in SUBSET KnownChunks
      BY Zenon
    <3> QED BY <2>1, <2>2, <3>1, DispatchKeeps, Zenon DEF ImageTyped
  <2> HIDE DEF r
  <2>4. Reads(v)
    <3>1. IsRd(v) /\ v.at = t.at /\ v.png = r /\ (v.pc = "done" \/ v.pc = t.pc)
      BY <1>1, Zenon DEF Reads, RdOK, IsRd, RdFields
    <3> HIDE DEF v
    <3>2. v.pc # "idle"
      BY <1>1, <3>1 DEF Reads
    <3> QED BY <1>1, <2>3, <3>1, <3>2, Zenon DEF Reads, RdOK
  <2>5. Reads(u)
    <3>1. {"IDAT"} \in SUBSET {"IDAT", "AFTER_IDAT", "CHUNK_AFTER_IDAT"}
      OBVIOUS
    <3>2. IsRd(u) /\ u.at = t.at /\ u.png = [p EXCEPT !.mode = @ \cup {"IDAT"}] /\ u.pc = "rows"
      BY <1>1, Zenon DEF Reads, RdOK, IsRd, RdFields
    <3> HIDE DEF u
    <3>3. u.pc # "idle"
      BY <3>2
    <3> QED BY <1>1, <3>1, <3>2, <3>3, RdMark, Zenon
  <2>6. Reads(png_crc_finish(t)) /\ Reads(Fail(t))
    BY <1>1, RdCrc, RdFailKept, RdKeptReads, Zenon DEF Reads, RdOK
  <2> HIDE DEF u, v
  <2> QED BY <1>1, <1>2, <2>4, <2>5, <2>6, Zenon
<1> QED BY <1>1, <1>3, <1>4, Zenon

LEMMA RdEnded == ASSUME NEW s, Reads(s) PROVE Reads(Ended(s))
<1> DEFINE t == [s EXCEPT !.ended = TRUE, !.png = [s.png EXCEPT !.mode = @ \cup {"AFTER_IDAT"}]]
<1>1. {"AFTER_IDAT"} \in SUBSET {"IDAT", "AFTER_IDAT", "CHUNK_AFTER_IDAT"}
  OBVIOUS
<1>2. IsRd(t) /\ t.at = s.at /\ t.pc = s.pc
      /\ t.png = [s.png EXCEPT !.mode = @ \cup {"AFTER_IDAT"}]
  BY Zenon DEF Reads, RdOK, IsRd, RdFields
<1>3. Ended(s) = t
  BY Zenon DEF Ended, Reads, RdOK, IsRd, RdFields
<1> HIDE DEF t
<1>4. t.pc # "idle"
  BY <1>2, Zenon DEF Reads
<1> QED BY <1>1, <1>2, <1>3, <1>4, RdMark, Zenon

LEMMA RdData ==
  ASSUME NEW s, IsRd(s), NEW n, NEW check
  PROVE  RdKept(s, Data(s, n, check))
<1>1. IsRd(Data(s, n, check)) /\ Data(s, n, check).at = s.at /\ Data(s, n, check).png = s.png
      /\ Data(s, n, check).pc = "data"
  BY Zenon DEF Data, IsRd, RdFields
<1>2. Data(s, n, check).pc # "idle"
  BY <1>1
<1> QED BY <1>1, <1>2, Zenon DEF RdKept

LEMMA RdSetPc ==
  ASSUME NEW s, IsRd(s), NEW c \in {"rows", "finish", "row", "end", "info", "done"}
  PROVE  RdKept(s, [s EXCEPT !.pc = c])
<1>1. c # "idle"
  OBVIOUS
<1> QED BY <1>1, Zenon DEF RdKept, IsRd, RdFields

LEMMA RdFinishRow ==
  ASSUME NEW s, IsRd(s), s.pc # "idle"
  PROVE  RdKept(s, png_read_finish_row(s))
<1> DEFINE a == [s EXCEPT !.row = @ + 1]
           b == [s EXCEPT !.row = 0, !.pass = @ + 1]
           t == IF s.row + 1 < image.h \/ ~image.il THEN a ELSE b
<1>1. RdKept(s, a) /\ RdKept(s, b)
  BY Zenon DEF RdKept, IsRd, RdFields
<1> HIDE DEF a, b
<1>2. RdKept(s, t)
  BY <1>1, Zenon
<1>3. png_read_finish_row(s) \in {[t EXCEPT !.pc = "rows"], [t EXCEPT !.pc = "finish"],
                                  Data(t, 0, TRUE)}
  BY Zenon DEF png_read_finish_row, a, b
<1> HIDE DEF t
<1>4. IsRd(t)
  BY <1>2, Zenon DEF RdKept
<1>5. RdKept(t, [t EXCEPT !.pc = "rows"]) /\ RdKept(t, [t EXCEPT !.pc = "finish"])
      /\ RdKept(t, Data(t, 0, TRUE))
  BY <1>4, RdSetPc, RdData, Zenon
<1>6. RdKept(t, png_read_finish_row(s))
  BY <1>3, <1>5, Zenon
<1> QED BY <1>2, <1>6, RdKeptOn, Zenon

LEMMA RdInflated ==
  ASSUME NEW s, Reads(s), NEW r
  PROVE  Reads(Inflated(s, r))
<1> DEFINE left == IF s.check THEN s.avail + Len(r.out) ELSE s.avail - Len(r.out)
           u == [s EXCEPT !.z = r.z, !.in = r.in, !.avail = left, !.out = @ \o r.out]
           v == [u EXCEPT !.pc = IF s.check THEN "finish" ELSE "row"]
<1>1. Inflated(s, r) \in {u, v, Fail(u), Ended(v)}
  <2> HIDE DEF u, v, left
  <2> QED BY Zenon DEF Inflated, u, v, left
<1>2. RdKept(s, u)
  <2> HIDE DEF left
  <2> QED BY Zenon DEF Reads, RdOK, RdKept, IsRd, RdFields
<1> HIDE DEF u
<1>3. Reads(u) /\ IsRd(u)
  BY <1>2, RdKeptReads, Zenon DEF Reads, RdKept
<1>4. RdKept(u, v)
  <2>1. (IF s.check THEN "finish" ELSE "row") \in {"rows", "finish", "row", "end", "info", "done"}
    BY Zenon
  <2> QED BY <1>3, <2>1, RdSetPc, Zenon
<1> HIDE DEF v
<1>5. Reads(v) /\ Reads(Fail(u))
  BY <1>3, <1>4, RdFailKept, RdKeptReads, Zenon DEF Reads
<1> QED BY <1>1, <1>3, <1>5, RdEnded, Zenon

(* Any step of the reader of files. *)
LEMMA ReadKeeps ==
  ASSUME stream \in Seq(Chunk), ImageTyped, RdOK(rd),
         png_read_info \/ png_read_image \/ png_read_end
  PROVE  Reads(rd) /\ RdOK(rd') /\ rd'.pc # "idle"
<1>0. rd.pc # "idle"
  <2>1. rd.pc \in {"info", "rows", "data", "row", "finish", "end"}
    BY Zenon DEF png_read_info, png_read_image, png_read_end, png_read_row, NextIDAT, FillIDAT,
                 png_read_IDAT_data, RowRead, png_read_finish_IDAT
  <2> QED BY <2>1
<1>1. Reads(rd) /\ IsRd(rd)
  BY <1>0, Zenon DEF Reads, RdOK
<1>2. ASSUME NEW t, Reads(t), rd' = t PROVE RdOK(rd') /\ rd'.pc # "idle"
  BY <1>2, Zenon DEF Reads
<1>3. CASE png_read_info
  <2> DEFINE s == IF rd.at = 0 THEN png_read_sig(rd) ELSE rd
  <2>1. s \in {rd, Fail(rd)}
    BY Zenon DEF png_read_sig
  <2>2. rd' = IF s.pc = "error" THEN s ELSE ReadChunk(s, FALSE)
    BY <1>3, Zenon DEF png_read_info
  <2> HIDE DEF s
  <2>3. Reads(s)
    BY <1>1, <2>1, RdFailKept, RdKeptReads, Zenon DEF Reads
  <2>4. Reads(ReadChunk(s, FALSE))
    BY <2>3, RdChunk, Zenon
  <2> QED BY <1>1, <1>2, <2>2, <2>3, <2>4, Zenon
<1>4. CASE png_read_row
  <2>1. rd' \in {png_read_finish_row(rd), Data(rd, Columns(image, rd.pass) + 1, FALSE)}
    BY <1>4, Zenon DEF png_read_row
  <2>2. RdKept(rd, rd')
    BY <1>0, <1>1, <2>1, RdFinishRow, RdData, Zenon
  <2> QED BY <1>1, <2>2, RdKeptReads, Zenon DEF Reads
<1>5. CASE NextIDAT
  <2> DEFINE t == png_crc_finish(rd)
             u == IF t.pc = "error" THEN t ELSE png_read_chunk_header(t)
  <2>1. rd' = u \/ rd' = Fail(u)
    BY <1>5, Zenon DEF NextIDAT
  <2>2. Reads(t)
    BY <1>0, <1>1, RdCrc, RdKeptReads, Zenon DEF Reads
  <2> HIDE DEF t
  <2>3. Reads(u)
    BY <2>2, RdHeader, Zenon
  <2> HIDE DEF u
  <2>4. Reads(Fail(u))
    BY <2>3, RdFailKept, RdKeptReads, Zenon DEF Reads, RdOK
  <2> QED BY <1>1, <1>2, <2>1, <2>3, <2>4, Zenon
<1>6. CASE FillIDAT
  <2> DEFINE n == IF ReadSize < rd.idat THEN ReadSize ELSE rd.idat
             from == Len(stream[rd.at].data) - rd.idat
             t == [rd EXCEPT !.in = SubSeq(stream[rd.at].data, from + 1, from + n),
                             !.idat = @ - n]
  <2>1. rd' = t \/ rd' = Fail(rd)
    BY <1>6, Zenon DEF FillIDAT
  <2>2. RdKept(rd, t)
    <3> HIDE DEF n, from
    <3> QED BY <1>0, <1>1, Zenon DEF RdKept, IsRd, RdFields
  <2> HIDE DEF t
  <2>3. RdKept(rd, rd')
    BY <1>1, <2>1, <2>2, RdFailKept, Zenon
  <2> QED BY <1>1, <2>3, RdKeptReads, Zenon DEF Reads
<1>7. CASE png_read_IDAT_data
  <2>1. PICK r : rd' = Inflated(rd, r)
    BY <1>7, Zenon DEF png_read_IDAT_data
  <2> QED BY <1>1, <1>2, <2>1, RdInflated, Zenon
<1>8. CASE RowRead
  <2> DEFINE row == png_do_read_interlace(image, png_read_filter_row(rd.out), rd.pass)
             pic == [rd.pic EXCEPT ![rd.row + 1] = png_combine_row(image, @, row, rd.pass, FALSE)]
             t == [rd EXCEPT !.pic = pic]
  <2>1. rd' = Fail(rd) \/ rd' = png_read_finish_row(t)
    <3>1. [rd EXCEPT !.pic[rd.row + 1] = png_combine_row(image, @, row, rd.pass, FALSE)] = t
      <4> HIDE DEF row
      <4> QED BY <1>1, Zenon DEF IsRd, RdFields
    <3> HIDE DEF t
    <3> QED BY <1>8, <3>1, Zenon DEF RowRead
  <2>2. RdKept(rd, t)
    <3> HIDE DEF pic
    <3> QED BY <1>0, <1>1, Zenon DEF RdKept, IsRd, RdFields
  <2> HIDE DEF t
  <2>3. RdKept(rd, png_read_finish_row(t))
    BY <2>2, RdFinishRow, RdKeptOn, Zenon DEF RdKept
  <2>4. RdKept(rd, rd')
    BY <1>1, <2>1, <2>3, RdFailKept, Zenon
  <2> QED BY <1>1, <2>4, RdKeptReads, Zenon DEF Reads
<1>9. CASE png_read_finish_IDAT
  <2> DEFINE s == IF rd.ended THEN rd ELSE Ended(rd)
             t == [s EXCEPT !.pc = "end"]
             u == [t EXCEPT !.in = <<>>, !.owned = FALSE]
  <2>1. rd' = png_crc_finish(u) \/ rd' = t
    BY <1>9, Zenon DEF png_read_finish_IDAT
  <2>2. Reads(s)
    BY <1>1, RdEnded, Zenon
  <2> HIDE DEF s
  <2>3. RdKept(s, t)
    BY <2>2, RdSetPc, Zenon DEF Reads, RdOK
  <2> HIDE DEF t
  <2>4. RdKept(t, u)
    BY <2>3, Zenon DEF RdKept, IsRd, RdFields
  <2> HIDE DEF u
  <2>5. RdKept(u, png_crc_finish(u))
    BY <2>4, RdCrc, Zenon DEF RdKept
  <2>6. RdKept(s, png_crc_finish(u))
    BY <2>3, <2>4, <2>5, RdKeptOn, Zenon
  <2>7. RdKept(s, rd')
    BY <2>1, <2>3, <2>6, Zenon
  <2> QED BY <1>1, <2>2, <2>7, RdKeptReads, Zenon DEF Reads
<1>10. CASE png_read_end
  <2>1. rd' = ReadChunk(rd, TRUE)
    BY <1>10, Zenon DEF png_read_end
  <2>2. Reads(ReadChunk(rd, TRUE))
    BY <1>1, RdChunk, Zenon
  <2> QED BY <1>1, <1>2, <2>1, <2>2, Zenon
<1>11. RdOK(rd') /\ rd'.pc # "idle"
  BY <1>3, <1>4, <1>5, <1>6, <1>7, <1>8, <1>9, <1>10, Zenon DEF png_read_image
<1> QED BY <1>1, <1>11, Zenon

-----------------------------------------------------------------------------
(* The writer. *)

WrFields == {"pc", "info", "row", "pass", "zin", "zout", "zcodes", "timed",
             "texts"}

IsWr(w) == DOMAIN w = WrFields

(* What the writer holds of the picture and of the compressed data. *)
WrHolds(w) ==
    /\ IsWr(w) /\ w.info \in Png /\ w.texts \in Nat /\ w.zin \in Nat /\ w.zcodes \in Nat
    /\ w.zout \in Seq(Symbols)

(* A pass that is written is one of seven. *)
WrOK(w) == WrHolds(w) /\ (w.pc = "info" \/ w.pc = "rows" => w.pass \in 0..6)

(* Full buffers lie within what there is. *)
LEMMA Blocks ==
  ASSUME NEW l \in Nat, NEW z \in Nat \ {0}
  PROVE  /\ l \div z \in Nat /\ (l \div z) * z \in Nat /\ (l \div z) * z <= l
         /\ \A k \in 1..(l \div z) : /\ k * z \in Nat /\ (k - 1) * z \in Nat
                                     /\ (k - 1) * z <= k * z /\ k * z <= l
<1>1. PICK f \in Nat : f = l \div z /\ f * z <= l /\ f * z \in Nat
  <2>1. l \div z \in Int /\ l % z \in 0..(z - 1) /\ l = z * (l \div z) + (l % z)
    OBVIOUS
  <2>2. PICK f \in Int, r \in 0..(z - 1) : f = l \div z /\ l = z * f + r
    BY <2>1
  <2>3. f >= 0
    <3> SUFFICES ASSUME f <= -1 PROVE FALSE
      OBVIOUS
    <3>1. z * f <= -z
      OBVIOUS
    <3> QED BY <2>2, <3>1
  <2>4. f \in Nat /\ f * z <= l /\ f * z \in Nat
    BY <2>2, <2>3
  <2> QED BY <2>2, <2>4
<1>2. ASSUME NEW k \in 1..f
      PROVE  k * z \in Nat /\ (k - 1) * z \in Nat /\ (k - 1) * z <= k * z /\ k * z <= l
  <2>1. k * z \in Nat /\ (k - 1) * z \in Nat
    OBVIOUS
  <2>2. (k - 1) * z = k * z - z
    OBVIOUS
  <2>3. k * z <= f * z
    OBVIOUS
  <2> QED BY <1>1, <2>1, <2>2, <2>3
<1> QED BY <1>1, <1>2

LEMMA Within ==
  ASSUME NEW S, NEW q \in Seq(S), NEW m \in Nat, NEW n \in Nat, m <= n, n <= Len(q)
  PROVE  SubSeq(q, m + 1, n) \in Seq(S)
<1>1. PICK l \in Nat : l = Len(q)
  BY LenProperties, Zenon
<1>2. n <= l
  BY <1>1, Zenon
<1>3. m + 1 \in Int /\ n \in Int /\ (m + 1) - 1 <= n /\ \A i \in (m + 1)..n : i \in 1..l
  BY <1>2
<1>4. \A i \in (m + 1)..n : q[i] \in S
  BY <1>1, <1>3, ElementOfSeq, Zenon
<1> QED BY <1>3, <1>4, SubSeqIsPart, Zenon DEF Part

LEMMA CodesAreSymbols ==
  ASSUME NEW k \in Nat, NEW n \in Nat PROVE Codes(k, n) \in Seq(Symbols)
BY DEF Codes, Symbols

LEMMA CompressKeeps ==
  ASSUME NEW w, WrHolds(w), NEW bytes \in Nat, NEW finish \in BOOLEAN
  PROVE  LET d == png_compress_IDAT(w, bytes, finish)
         IN  /\ d.chunks \in Seq(Chunk)
             /\ WrHolds(d.w) /\ d.w.pc = w.pc /\ d.w.pass = w.pass
<1> DEFINE in == w.zin + bytes
           n == IF finish THEN CodesOf(in) ELSE in \div ZRatio
           codes == Codes(w.zcodes, n)
           end == IF finish THEN DataEnd ELSE <<>>
           out == w.zout \o codes \o end
           full == Len(out) \div ZBufferSize
           rest == SubSeq(out, full * ZBufferSize + 1, Len(out))
           Full(k) == ChunkOf("IDAT", SubSeq(out, (k - 1) * ZBufferSize + 1, k * ZBufferSize), 0)
           v == [w EXCEPT !.zin = IF finish THEN 0 ELSE in % ZRatio, !.zcodes = @ + n,
                          !.zout = IF finish THEN <<>> ELSE rest]
           fulls == [k \in 1..full |-> Full(k)]
           last == IF finish /\ rest # <<>> THEN <<ChunkOf("IDAT", rest, 0)>> ELSE <<>>
           d == png_compress_IDAT(w, bytes, finish)
<1>1. d = [w |-> v, chunks |-> fulls \o last]
  BY Zenon DEF png_compress_IDAT
<1> HIDE DEF d
<1>2. d.w = v /\ d.chunks = fulls \o last
  <2> HIDE DEF v, fulls, last
  <2> QED BY <1>1
<1>3. ZBufferSize \in Nat \ {0} /\ ZRatio \in Nat \ {0}
  BY PictureAssumption, RatioAssumption
<1>4. PICK a \in Nat : a = w.zin
  BY Zenon DEF WrHolds
<1>5. in \in Nat /\ in % ZRatio \in Nat
  <2>1. a + bytes \in Nat /\ (a + bytes) % ZRatio \in Nat
    BY <1>3
  <2> QED BY <1>4, <2>1, Zenon
<1> HIDE DEF in
<1>6. in \div ZRatio \in Nat /\ CodesOf(in) \in Nat
  <2>1. PICK b \in Nat : b = in + ZRatio - 1
    BY <1>3, <1>5
  <2>2. b \div ZRatio \in Nat
    BY <1>3, <2>1, Blocks, Zenon
  <2> QED BY <1>3, <1>5, <2>1, <2>2, Blocks, Zenon DEF CodesOf
<1>7. PICK m, c \in Nat : m = n /\ c = w.zcodes
  BY <1>6, Zenon DEF WrHolds
<1>20. w.zcodes + n \in Nat
  <2>1. c + m \in Nat
    OBVIOUS
  <2> QED BY <1>7, <2>1, Zenon
<1>21. codes \in Seq(Symbols) /\ end \in Seq(Symbols)
  BY <1>7, CodesAreSymbols, PlainData, Zenon
<1> HIDE DEF codes, end, n
<1>8. out \in Seq(Symbols)
  BY <1>21, ConcatProperties, Zenon DEF WrHolds
<1> HIDE DEF out
<1>9. PICK l \in Nat : l = Len(out)
  BY <1>8, LenProperties, Zenon
<1>10. /\ full \in Nat /\ full * ZBufferSize \in Nat /\ full * ZBufferSize <= l
       /\ \A k \in 1..full :
            /\ k * ZBufferSize \in Nat /\ (k - 1) * ZBufferSize \in Nat
            /\ (k - 1) * ZBufferSize <= k * ZBufferSize /\ k * ZBufferSize <= l
  BY <1>3, <1>9, Blocks, Zenon
<1> HIDE DEF full
<1>11. l <= l
  OBVIOUS
<1>12. rest \in Seq(Symbols)
  BY <1>8, <1>9, <1>10, <1>11, Within, Zenon
<1> HIDE DEF rest
<1>13. 0 \in Nat /\ "IDAT" \in KnownChunks \cup {"IDAT", "CRIT", "vpAg"}
  OBVIOUS
<1>14. ASSUME NEW k \in 1..full PROVE Full(k) \in Chunk
  <2>1. SubSeq(out, (k - 1) * ZBufferSize + 1, k * ZBufferSize) \in Seq(Symbols)
    BY <1>8, <1>9, <1>10, Within, Zenon
  <2> QED BY <1>13, <2>1, ChunkOfIsChunk, Zenon
<1> HIDE DEF Full
<1>15. fulls \in Seq(Chunk)
  BY <1>10, <1>14
<1> HIDE DEF fulls
<1>16. last \in Seq(Chunk)
  <2>1. ChunkOf("IDAT", rest, 0) \in Chunk
    BY <1>12, <1>13, ChunkOfIsChunk, Zenon
  <2> QED BY <2>1, Singleton, EmptySeq, Zenon
<1> HIDE DEF last
<1>17. d.chunks \in Seq(Chunk)
  BY <1>2, <1>15, <1>16, Both, Zenon
<1>18. (IF finish THEN 0 ELSE in % ZRatio) \in Nat /\ (IF finish THEN <<>> ELSE rest) \in Seq(Symbols)
  BY <1>5, <1>12, <1>13, PlainData, Zenon
<1>19. WrHolds(v) /\ v.pc = w.pc /\ v.pass = w.pass
  BY <1>18, <1>20, Zenon DEF WrHolds, IsWr, WrFields
<1> HIDE DEF v
<1> QED BY <1>2, <1>17, <1>19, Zenon DEF d

LEMMA PictureIs ==
  ASSUME image \in Images
  PROVE  /\ image.w \in Nat \ {0} /\ image.sets \in Seq(Settings) /\ image.late \in Seq(Settings)
         /\ ImageTyped
BY PictureAssumption DEF ImageTyped, Colors

LEMMA ColumnsAre ==
  ASSUME image \in Images, NEW p \in 0..6
  PROVE  Columns(image, p) + 1 \in Nat
<1>1. PICK w \in Nat \ {0} : w = image.w
  BY PictureIs
<1>2. PICK i \in Nat \ {0} : i = png_pass_inc[p + 1] /\ i - 1 - png_pass_start[p + 1] \in Nat
                            /\ png_pass_start[p + 1] \in Nat
  <2>1. p = 0 \/ p = 1 \/ p = 2 \/ p = 3 \/ p = 4 \/ p = 5 \/ p = 6
    OBVIOUS
  <2> QED BY <2>1 DEF png_pass_inc, png_pass_start
<1>3. PICK n \in Nat : n = w + i - 1 - png_pass_start[p + 1]
  BY <1>2
<1>4. n \div i \in Nat
  BY Blocks, Zenon
<1>5. Columns(image, p) = n \div i \/ Columns(image, p) = w
  BY <1>1, <1>2, <1>3, Zenon DEF Columns
<1>6. n \div i + 1 \in Nat /\ w + 1 \in Nat
  BY <1>4
<1> QED BY <1>5, <1>6, Zenon

LEMMA FinishRowWrites ==
  ASSUME NEW d, WrHolds(d.w), d.w.pc = "rows", d.w.pass \in 0..6, d.chunks \in Seq(Chunk)
  PROVE  LET e == png_write_finish_row(d)
         IN  WrOK(e.w) /\ e.chunks \in Seq(Chunk) /\ e.w.pc # "written"
<1> DEFINE w == d.w
           last == w.row + 1 >= image.h
           next == IF ~last THEN [w EXCEPT !.row = @ + 1]
                   ELSE IF image.il THEN [w EXCEPT !.row = 0, !.pass = @ + 1]
                   ELSE [w EXCEPT !.row = @ + 1]
           f == png_compress_IDAT(next, 0, TRUE)
           e == png_write_finish_row(d)
<1>1. e = IF last /\ (image.il => next.pass = 7)
          THEN [w |-> [f.w EXCEPT !.pc = "end"], chunks |-> d.chunks \o f.chunks]
          ELSE [w |-> next, chunks |-> d.chunks]
  BY Zenon DEF png_write_finish_row
<1> HIDE DEF e
<1>2. PICK p \in 0..6 : p = w.pass
  BY Zenon
<1>3. p + 1 \in 0..6 \/ p + 1 = 7
  OBVIOUS
<1>4. /\ WrHolds(next) /\ next.pc = "rows"
      /\ next.pass = p \/ (last /\ image.il /\ next.pass = p + 1)
  <2> HIDE DEF last
  <2>1. CASE ~last
    BY <1>2, <2>1, Zenon DEF WrHolds, IsWr, WrFields
  <2>2. CASE last /\ image.il
    BY <1>2, <2>2, Zenon DEF WrHolds, IsWr, WrFields
  <2>3. CASE last /\ ~image.il
    BY <1>2, <2>3, Zenon DEF WrHolds, IsWr, WrFields
  <2> QED BY <2>1, <2>2, <2>3, Zenon
<1> HIDE DEF next
<1>5. f.chunks \in Seq(Chunk) /\ WrHolds(f.w)
  <2>1. 0 \in Nat /\ TRUE \in BOOLEAN
    OBVIOUS
  <2> QED BY <1>4, <2>1, CompressKeeps, Zenon
<1> HIDE DEF f, last
<1>6. CASE last /\ (image.il => next.pass = 7)
  <2> DEFINE v == [f.w EXCEPT !.pc = "end"]
  <2>1. WrHolds(v) /\ v.pc = "end"
    BY <1>5, Zenon DEF WrHolds, IsWr, WrFields
  <2> HIDE DEF v
  <2>2. d.chunks \o f.chunks \in Seq(Chunk)
    BY <1>5, Both, Zenon
  <2>3. e = [w |-> v, chunks |-> d.chunks \o f.chunks]
    BY <1>1, <1>6, Zenon DEF v
  <2>4. e.w = v /\ e.chunks = d.chunks \o f.chunks
    BY <2>3, Zenon
  <2>5. v.pc # "info" /\ v.pc # "rows" /\ v.pc # "written"
    BY <2>1
  <2>6. WrOK(v)
    BY <2>1, <2>5, Zenon DEF WrOK
  <2> QED BY <2>2, <2>4, <2>5, <2>6, Zenon DEF e
<1>7. CASE ~(last /\ (image.il => next.pass = 7))
  <2>1. e = [w |-> next, chunks |-> d.chunks]
    BY <1>1, <1>7, Zenon
  <2>2. e.w = next /\ e.chunks = d.chunks
    BY <2>1
  <2>3. next.pass \in 0..6
    BY <1>2, <1>3, <1>4, <1>7, Zenon
  <2>4. next.pc # "written"
    BY <1>4
  <2> QED BY <1>4, <2>2, <2>3, <2>4, Zenon DEF WrOK, e
<1> QED BY <1>6, <1>7, Zenon

LEMMA WholeLen ==
  ASSUME NEW s \in Seq(Chunk)
  PROVE  WholeSize(s) \in Nat /\ WholeSize(s) \in 0..Len(Whole(s))
<1>1. PICK n \in Nat : n = Len(Whole(s))
  BY WholeIsBytes, LenProperties, Zenon
<1>2. n \in 0..n
  OBVIOUS
<1> QED BY <1>1, <1>2, Zenon DEF WholeSize

(* The file is complete when the writer says so. *)
LEMMA WriteKeeps ==
  ASSUME image \in Images, stream \in Seq(Chunk), WrOK(wr),
         png_write_info \/ png_write_row \/ png_write_end
  PROVE  /\ image' = image /\ stream' \in Seq(Chunk) /\ WrOK(wr') /\ wr.pc # "written"
         /\ wr'.pc = "written" => cut' \in 0..Len(Whole(stream'))
<1>1. wr.info \in Png /\ wr.texts \in Nat /\ IsWr(wr)
  BY Zenon DEF WrOK, WrHolds
<1>2. CASE png_write_info
  <2> DEFINE before == png_write_info_before_PLTE(wr.info)
             bad == [wr EXCEPT !.pc = "error"]
             good == [wr EXCEPT !.pc = "rows", !.timed = "tIME" \in wr.info.valid,
                                !.texts = wr.info.texts]
  <2>1. /\ wr.pc = "info" /\ image' = image
        /\ \/ wr' = bad /\ stream' = before
           \/ wr' = good /\ stream' = before \o AfterPLTE(wr.info)
    BY <1>2, Zenon DEF png_write_info
  <2>2. before \in Seq(Chunk) /\ AfterPLTE(wr.info) \in Seq(Chunk)
    BY <1>1, InfoChunks, Zenon
  <2>3. stream' \in Seq(Chunk)
    BY <2>1, <2>2, Both, Zenon
  <2>4. WrOK(bad) /\ bad.pc = "error"
    <3>1. WrHolds(bad) /\ bad.pc = "error"
      BY <1>1, Zenon DEF WrOK, WrHolds, IsWr, WrFields
    <3>2. bad.pc # "info" /\ bad.pc # "rows"
      BY <3>1
    <3> QED BY <3>1, <3>2, Zenon DEF WrOK
  <2>5. WrOK(good) /\ good.pc = "rows"
    <3>1. wr.info.texts \in Nat
      BY <1>1 DEF Png
    <3>2. WrHolds(good) /\ good.pc = "rows" /\ good.pass = wr.pass
      BY <1>1, <3>1, Zenon DEF WrOK, WrHolds, IsWr, WrFields
    <3> HIDE DEF good
    <3> QED BY <3>2, <2>1, Zenon DEF WrOK
  <2> HIDE DEF bad, good
  <2>6. wr.pc # "written" /\ wr'.pc # "written" /\ WrOK(wr')
    BY <2>1, <2>4, <2>5
  <2> QED BY <2>1, <2>3, <2>6, Zenon
<1>3. CASE png_write_row
  <2> DEFINE none == [w |-> wr, chunks |-> <<>>]
             some == png_compress_IDAT(wr, Columns(image, wr.pass) + 1, FALSE)
             d == IF WriteAbsent(image, wr.pass, wr.row) THEN none ELSE some
             e == png_write_finish_row(d)
  <2>1. wr.pc = "rows" /\ wr' = e.w /\ stream' = stream \o e.chunks /\ image' = image
    BY <1>3, Zenon DEF png_write_row
  <2>2. wr.pass \in 0..6
    BY <2>1, Zenon DEF WrOK
  <2>3. /\ none.chunks \in Seq(Chunk) /\ WrHolds(none.w) /\ none.w.pc = wr.pc
        /\ none.w.pass = wr.pass
    <3>1. none.w = wr /\ none.chunks = <<>>
      OBVIOUS
    <3> HIDE DEF none
    <3> QED BY <3>1, EmptySeq, Zenon DEF WrOK
  <2>4. /\ some.chunks \in Seq(Chunk) /\ WrHolds(some.w) /\ some.w.pc = wr.pc
        /\ some.w.pass = wr.pass
    <3>1. Columns(image, wr.pass) + 1 \in Nat /\ FALSE \in BOOLEAN
      BY <2>2, ColumnsAre
    <3> QED BY <3>1, CompressKeeps, Zenon DEF WrOK
  <2> HIDE DEF none, some
  <2>5. d.chunks \in Seq(Chunk) /\ WrHolds(d.w) /\ d.w.pc = "rows" /\ d.w.pass \in 0..6
    BY <2>1, <2>2, <2>3, <2>4, Zenon
  <2> HIDE DEF d
  <2>6. WrOK(e.w) /\ e.chunks \in Seq(Chunk) /\ e.w.pc # "written"
    BY <2>5, FinishRowWrites, Zenon
  <2>7. wr.pc # "written"
    BY <2>1
  <2> HIDE DEF e
  <2> QED BY <2>1, <2>6, <2>7, Both, Zenon
<1>4. CASE png_write_end
  <2> DEFINE i == PngSets(wr.info, image.late)
             a == If("tIME" \in i.valid /\ ~wr.timed, "tIME", 0)
             b == Texts(i.texts - wr.texts)
             c == If("eXIf" \in i.valid, "eXIf", 0)
             z == <<ChunkOf("IEND", <<>>, 0)>>
             w == [wr EXCEPT !.pc = "written", !.info = i]
             bad == [wr EXCEPT !.pc = "error"]
  <2>0. /\ wr.pc = "end" /\ image' = image
        /\ \/ wr' = bad /\ stream' = stream
           \/ /\ stream' = stream \o a \o b \o c \o z /\ wr' = w
              /\ cut' = WholeSize(stream')
    BY <1>4, Zenon DEF png_write_end
  <2>9. CASE wr' = bad /\ stream' = stream
    <3>1. WrHolds(bad) /\ bad.pc = "error"
      BY <1>1, Zenon DEF WrOK, WrHolds, IsWr, WrFields
    <3> HIDE DEF bad
    <3>2. wr.pc # "written"
      <4>1. wr.pc = "end"
        BY <2>0, Zenon
      <4> QED BY <4>1
    <3>3. bad.pc # "info" /\ bad.pc # "rows" /\ bad.pc # "written"
      BY <3>1
    <3> QED BY <2>0, <2>9, <3>1, <3>2, <3>3, Zenon DEF WrOK
  <2>2. i \in Png
    BY <1>1, PictureIs, SetsKeep, Zenon
  <2> HIDE DEF i
  <2>3. i.texts - wr.texts \in Int
    <3>1. i.texts \in Nat
      BY <2>2 DEF Png
    <3> QED BY <1>1, <3>1
  <2>4. 0 \in Nat /\ {"tIME", "eXIf", "IEND"} \subseteq KnownChunks
    BY DEF KnownChunks
  <2>5. a \in Seq(Chunk) /\ b \in Seq(Chunk) /\ c \in Seq(Chunk) /\ z \in Seq(Chunk)
    <3>1. ChunkOf("IEND", <<>>, 0) \in Chunk
      BY <2>4, ChunkOfIsChunk, PlainData, Zenon
    <3> QED BY <2>3, <2>4, <3>1, IfIsChunks, TextsAreChunks, Singleton, Zenon
  <2> HIDE DEF a, b, c, z
  <2>6. WrHolds(w) /\ w.pc = "written"
    BY <1>1, <2>2, Zenon DEF WrOK, WrHolds, IsWr, WrFields
  <2> HIDE DEF w, bad
  <2>7. wr.pc # "written" /\ w.pc # "info" /\ w.pc # "rows"
    <3>1. wr.pc = "end"
      BY <2>0, Zenon
    <3> QED BY <2>6, <3>1
  <2>8. CASE stream' = stream \o a \o b \o c \o z /\ wr' = w /\ cut' = WholeSize(stream')
    <3>1. stream' \in Seq(Chunk)
      BY <2>5, <2>8, Both, Zenon
    <3> QED BY <2>0, <2>6, <2>7, <2>8, <3>1, WholeLen, Zenon DEF WrOK
  <2> QED BY <2>0, <2>8, <2>9, Zenon
<1> QED BY <1>2, <1>3, <1>4, Zenon

-----------------------------------------------------------------------------
(* A fault leaves a file of chunks, and the reader starts on it. *)

LEMMA Around ==
  ASSUME stream \in Seq(Chunk), NEW i \in DOMAIN stream
  PROVE  /\ stream[i] \in Chunk /\ i \in 1..Len(stream)
         /\ SubSeq(stream, 1, i - 1) \in Seq(Chunk)
         /\ SubSeq(stream, i, Len(stream)) \in Seq(Chunk)
         /\ SubSeq(stream, i + 1, Len(stream)) \in Seq(Chunk)
<1>1. PICK l \in Nat : l = Len(stream)
  BY LenProperties, Zenon
<1>2. i \in 1..l /\ DOMAIN stream = 1..l
  BY <1>1
<1>3. \A j \in 1..l : stream[j] \in Chunk
  BY <1>1, ElementOfSeq, Zenon
<1>4. /\ 1 \in Int /\ i - 1 \in Int /\ i \in Int /\ i + 1 \in Int /\ l \in Int
      /\ \A j \in 1..(i - 1) : j \in 1..l
      /\ \A j \in i..l : j \in 1..l
      /\ \A j \in (i + 1)..l : j \in 1..l
  BY <1>2
<1>5. /\ \A j \in 1..(i - 1) : stream[j] \in Chunk
      /\ \A j \in i..l : stream[j] \in Chunk
      /\ \A j \in (i + 1)..l : stream[j] \in Chunk
  BY <1>3, <1>4, Zenon
<1> QED BY <1>1, <1>2, <1>3, <1>4, <1>5, SubSeqProperties, Zenon

LEMMA WithIsFile ==
  ASSUME stream \in Seq(Chunk), NEW i \in DOMAIN stream, NEW c \in Chunk
  PROVE  With(c, i) \in Seq(Chunk)
<1>1. <<c>> \in Seq(Chunk)
  BY Singleton, Zenon
<1> QED BY <1>1, Around, Both, Zenon DEF With

LEMMA Replaced ==
  ASSUME NEW s \in Seq(Chunk), NEW i \in 1..Len(s), NEW e \in Chunk
  PROVE  [s EXCEPT ![i] = e] \in Seq(Chunk) /\ Len([s EXCEPT ![i] = e]) = Len(s)
BY ExceptSeq

LEMMA ChangedIsFile ==
  ASSUME stream \in Seq(Chunk), NEW i \in DOMAIN stream
  PROVE  /\ [stream EXCEPT ![i].crc = FALSE] \in Seq(Chunk)
         /\ [stream EXCEPT ![i].fit = FALSE] \in Seq(Chunk)
         /\ \A n \in Nat : [stream EXCEPT ![i].num = n] \in Seq(Chunk)
         /\ \A j \in DOMAIN stream[i].data, ok \in BOOLEAN, x \in Symbols :
              [stream EXCEPT ![i].data[j] = x, ![i].crc = ok] \in Seq(Chunk)
<1>1. stream[i] \in Chunk /\ i \in 1..Len(stream)
  BY Around, Zenon
<1>2. /\ [stream[i] EXCEPT !.crc = FALSE] \in Chunk
      /\ [stream[i] EXCEPT !.fit = FALSE] \in Chunk
      /\ \A n \in Nat : [stream[i] EXCEPT !.num = n] \in Chunk
  BY <1>1, Zenon DEF Chunk
<1>3. ASSUME NEW j \in DOMAIN stream[i].data, NEW ok \in BOOLEAN, NEW x \in Symbols
      PROVE  [stream EXCEPT ![i].data[j] = x, ![i].crc = ok] \in Seq(Chunk)
  <2> DEFINE d == [stream[i].data EXCEPT ![j] = x]
             c == [stream[i] EXCEPT !.data = d]
             e == [c EXCEPT !.crc = ok]
             s == [stream EXCEPT ![i] = c]
  <2>1. d \in Seq(Symbols)
    <3>1. stream[i].data \in Seq(Symbols)
      BY <1>1, Zenon DEF Chunk
    <3>2. j \in 1..Len(stream[i].data)
      BY <3>1
    <3> QED BY <3>1, <3>2, ExceptSeq, Zenon
  <2> HIDE DEF d
  <2>2. c \in Chunk
    BY <1>1, <2>1, Zenon DEF Chunk
  <2> HIDE DEF c
  <2>3. e \in Chunk
    BY <2>2, Zenon DEF Chunk
  <2> HIDE DEF e
  <2>4. s \in Seq(Chunk) /\ Len(s) = Len(stream) /\ s[i] = c
    BY <1>1, <2>2, ExceptSeq, Zenon
  <2>5. [s EXCEPT ![i] = e] \in Seq(Chunk)
    BY <1>1, <2>3, <2>4, ExceptSeq, Zenon
  <2>6. [stream EXCEPT ![i].data[j] = x, ![i].crc = ok] = [s EXCEPT ![i] = e]
    <3>1. [stream EXCEPT ![i].data[j] = x, ![i].crc = ok] = [s EXCEPT ![i].crc = ok]
      BY Zenon DEF c, d
    <3> HIDE DEF s
    <3> QED BY <2>4, <3>1, Zenon DEF e
  <2> QED BY <2>5, <2>6, Zenon
<1>4. \A e \in Chunk : [stream EXCEPT ![i] = e] \in Seq(Chunk)
  BY <1>1, Replaced, Zenon
<1>5. /\ [stream EXCEPT ![i].crc = FALSE] \in Seq(Chunk)
      /\ [stream EXCEPT ![i].fit = FALSE] \in Seq(Chunk)
      /\ \A n \in Nat : [stream EXCEPT ![i].num = n] \in Seq(Chunk)
  BY <1>2, <1>4, Zenon
<1> QED BY <1>3, <1>5, Zenon

LEMMA SwappedIsFile ==
  ASSUME stream \in Seq(Chunk), NEW i \in 1..(Len(stream) - 1)
  PROVE  [stream EXCEPT ![i] = stream[i + 1], ![i + 1] = stream[i]] \in Seq(Chunk)
<1>1. PICK l \in Nat : l = Len(stream)
  BY LenProperties, Zenon
<1>2. i \in 1..l /\ i + 1 \in 1..l
  BY <1>1
<1>3. stream[i] \in Chunk /\ stream[i + 1] \in Chunk
  BY <1>1, <1>2, ElementOfSeq, Zenon
<1> DEFINE s == [stream EXCEPT ![i] = stream[i + 1]]
<1>4. s \in Seq(Chunk) /\ Len(s) = l
  BY <1>1, <1>2, <1>3, Replaced, Zenon
<1>5. [stream EXCEPT ![i] = stream[i + 1], ![i + 1] = stream[i]] = [s EXCEPT ![i + 1] = stream[i]]
  BY Zenon
<1> HIDE DEF s
<1> QED BY <1>2, <1>3, <1>4, <1>5, Replaced, Zenon

LEMMA DamageKeeps ==
  ASSUME stream \in Seq(Chunk), cut \in 0..Len(Whole(stream)), Intact \/ Damage
  PROVE  /\ OnItsWay /\ ToRead(stream')
         /\ stream' \in Seq(Chunk) /\ cut' \in 0..Len(Whole(stream'))
<1>1. ASSUME NEW new \in Seq(Chunk), Faulty(new)
      PROVE  ToRead(stream') /\ stream' \in Seq(Chunk) /\ cut' \in 0..Len(Whole(stream'))
  <2>1. stream' = new /\ ToRead(new) /\ cut' = WholeSize(new)
    BY <1>1, Zenon DEF Faulty, ToRead
  <2> QED BY <2>1, WholeLen, Zenon
<1>2. CASE Intact
  BY <1>2, Zenon DEF Intact, ToRead
<1>3. CASE Damage /\ LoseChunk
  <2>1. PICK i \in DOMAIN stream :
          Faulty(SubSeq(stream, 1, i - 1) \o SubSeq(stream, i + 1, Len(stream)))
    BY <1>3, Zenon DEF LoseChunk
  <2>2. SubSeq(stream, 1, i - 1) \o SubSeq(stream, i + 1, Len(stream)) \in Seq(Chunk)
    BY Around, Both, Zenon
  <2> QED BY <1>1, <1>3, <2>1, <2>2, Zenon DEF Damage
<1>4. CASE Damage /\ RepeatChunk
  <2>1. PICK i \in DOMAIN stream : Faulty(With(stream[i], i))
    BY <1>4, Zenon DEF RepeatChunk
  <2>2. With(stream[i], i) \in Seq(Chunk)
    BY Around, WithIsFile, Zenon
  <2> QED BY <1>1, <1>4, <2>1, <2>2, Zenon DEF Damage
<1>5. CASE Damage /\ SwapChunks
  BY <1>1, <1>5, SwappedIsFile, Zenon DEF Damage, SwapChunks
<1>6. CASE Damage /\ (WrongCrc \/ WrongContents)
  BY <1>1, <1>6, ChangedIsFile, Zenon DEF Damage, WrongCrc, WrongContents
<1>7. CASE Damage /\ WrongNumber
  <2>1. PICK i \in DOMAIN stream, n \in 0..(MaxPalette + 1) : Faulty([stream EXCEPT ![i].num = n])
    BY <1>7, Zenon DEF WrongNumber
  <2>2. n \in Nat
    BY LimitAssumption
  <2> QED BY <1>1, <1>7, <2>1, <2>2, ChangedIsFile, Zenon DEF Damage
<1>8. CASE Damage /\ WrongData
  <2>1. Broken \in Symbols /\ Zeros \in Symbols /\ Noise \in Symbols
    BY DEF Symbols, Broken, Zeros, Noise
  <2> QED BY <1>1, <1>8, <2>1, ChangedIsFile, Zenon DEF Damage, WrongData
<1>9. CASE Damage /\ ForeignChunk
  <2>1. PICK i \in 1..Len(stream), name \in {"CRIT", "vpAg"} : Faulty(With(ChunkOf(name, <<Plain>>, 0), i))
    BY <1>9, Zenon DEF ForeignChunk
  <2>2. i \in DOMAIN stream /\ 0 \in Nat
    OBVIOUS
  <2>3. ChunkOf(name, <<Plain>>, 0) \in Chunk
    BY <2>2, ChunkOfIsChunk, PlainData, Zenon
  <2>4. With(ChunkOf(name, <<Plain>>, 0), i) \in Seq(Chunk)
    BY <2>2, <2>3, WithIsFile, Zenon
  <2> QED BY <1>1, <1>9, <2>1, <2>4, Zenon DEF Damage
<1>10. CASE Damage /\ Truncate
  <2>1. PICK n \in 0..(cut - 1) : ToRead(stream) /\ cut' = n
    BY <1>10, Zenon DEF Truncate
  <2>2. PICK l \in Nat : l = WholeSize(stream)
    BY WholeLen, Zenon
  <2>3. cut \in 0..l
    BY <2>2, Zenon DEF WholeSize
  <2>4. n \in 0..l
    BY <2>3
  <2> QED BY <1>10, <2>1, <2>2, <2>4, Zenon DEF Damage, ToRead, WholeSize
<1> QED BY <1>2, <1>3, <1>4, <1>5, <1>6, <1>7, <1>8, <1>9, <1>10, Zenon DEF Damage

-----------------------------------------------------------------------------
(***************************************************************************)
(* The inductive invariant.  The progressive reader has failed, is astray, *)
(* is done, or is in the file with its buffers in order; before it starts  *)
(* it is as PushInit leaves it.  No reader starts before the file is       *)
(* complete, and no fault comes after that.                                *)
(***************************************************************************)
PsOK(s) ==
    Failed(s) \/ Lost(s) \/ Done(s) \/ (Going(s) /\ (Live(s) \/ Settled(s)))

CodecInv ==
    /\ image \in Images /\ stream \in Seq(Chunk) /\ WrOK(wr) /\ RdOK(rd)
    /\ wr.pc = "written" => cut \in 0..Len(Whole(stream))
    /\ wr.pc # "written" => rd.pc = "idle"
    /\ rd.pc = "idle" => rd.at = 0 /\ PushInit
    /\ PushInit \/ PsOK(ps)

LEMMA NewPngIs == PngInv(NewPng)
BY LimitAssumption DEF NewPng, PngInv, Png, Order, InfoFits, Colors, Nonsense

LEMMA NotStarted ==
  ASSUME PushInit
  PROVE  /\ IsPs(ps) /\ ps.mode = "idle" /\ ps.size = 0 /\ ps.fed = 0 /\ ps.taken = 0
         /\ ps.save = <<>> /\ ps.cur = <<>> /\ ps.header = FALSE /\ ps.idat = 0
         /\ ps.sig = 0 /\ ps.pass = 0 /\ ps.png = NewPng
BY DEF PushInit, IsPs, PsFields

LEMMA OKModes ==
  ASSUME NEW s, PsOK(s)
  PROVE  s.mode # "idle"
BY DEF PsOK, Failed, Lost, Done, Going

(* PsOK is about the progressive reader and the file. *)
LEMMA SameFile ==
  ASSUME stream' = stream, cut' = cut, PsOK(ps')
  PROVE  PsOK(ps)'
<1>1. Byte' = Byte /\ File' = File
  BY Zenon DEF Byte, File
<1>2. (Failed(ps') => Failed(ps)') /\ (Lost(ps') => Lost(ps)')
  BY Zenon DEF Failed, Lost, IsPs
<1>3. Done(ps') => Done(ps)'
  BY <1>1, Zenon DEF Done, IsPs
<1>4. Going(ps') => Going(ps)'
  BY Zenon DEF Going, IsPs
<1>5. Piece(ps'.save, ps'.taken) => Piece(ps.save, ps.taken)'
  BY <1>1, Zenon DEF Piece
<1>6. Piece(ps'.cur, ps'.taken + Len(ps'.save)) => Piece(ps.cur, ps.taken + Len(ps.save))'
  BY <1>1, Zenon DEF Piece
<1>7. Live(ps') => Live(ps)'
  BY <1>5, <1>6, Zenon DEF Live
<1>8. Settled(ps') => Settled(ps)'
  BY <1>5, Zenon DEF Settled
<1> QED BY <1>2, <1>3, <1>4, <1>7, <1>8, Zenon DEF PsOK

LEMMA InitIs == Init => CodecInv
<1> SUFFICES ASSUME Init PROVE CodecInv
  OBVIOUS
<1>1. image \in Images /\ stream = <<>> /\ PushInit
  BY Zenon DEF Init, WriterInit
<1>2. wr = [pc |-> IF InfoSet.err THEN "error" ELSE "info", info |-> InfoSet,
            row |-> 0, pass |-> 0, zin |-> 0, zout |-> <<>>, zcodes |-> 0, timed |-> FALSE,
            texts |-> 0]
  BY Zenon DEF Init, WriterInit
<1>3. InfoSet \in Png
  <2>1. [NewPng EXCEPT !.color = image.color] \in Png
    <3>1. NewPng \in Png
      BY NewPngIs, Zenon DEF PngInv
    <3>2. image.color \in Colors
      BY <1>1, PictureIs, Zenon DEF ImageTyped
    <3> QED BY <3>1, <3>2, Zenon DEF Png
  <2> QED BY <1>1, <2>1, PictureIs, SetsKeep, Zenon DEF InfoSet
<1>4. stream \in Seq(Chunk) /\ Len(stream) = 0
  BY <1>1
<1>5. WrOK(wr) /\ wr.pc # "written"
  <2>1. /\ DOMAIN wr = WrFields /\ wr.pc # "written" /\ wr.info = InfoSet
        /\ wr.texts = 0 /\ wr.zin = 0 /\ wr.zcodes = 0 /\ wr.zout = <<>> /\ wr.pass = 0
    BY <1>2 DEF WrFields
  <2>2. 0 \in Nat /\ 0 \in 0..6
    OBVIOUS
  <2> QED BY <1>3, <2>1, <2>2, PlainData, Zenon DEF WrOK, WrHolds, IsWr
<1>6. DOMAIN rd = RdFields /\ rd.pc = "idle" /\ rd.at = 0 /\ rd.png = NewPng
  BY DEF Init, ReaderInit, RdFields
<1>7. 0 \in 0..0 /\ "info" # "written"
  OBVIOUS
<1>8. RdOK(rd)
  BY <1>4, <1>6, <1>7, NewPngIs, Zenon DEF RdOK, IsRd
<1> QED BY <1>1, <1>4, <1>5, <1>6, <1>7, <1>8, Zenon DEF CodecInv

(* Whoever reads has a file. *)
LEMMA ReadersHaveFile ==
  ASSUME CodecInv, ~PushInit
  PROVE  FileThere /\ ImageTyped /\ PsOK(ps)
BY PictureIs, Zenon DEF CodecInv, FileThere

LEMMA StartedKeeps ==
  ASSUME CodecInv, ~PushInit, PsOK(ps'), UNCHANGED <<image, stream, cut, wr, rd, intact>>
  PROVE  CodecInv'
<1>1. /\ image' = image /\ stream' = stream /\ cut' = cut /\ wr' = wr /\ rd' = rd
  BY Zenon
<1>2. PsOK(ps)'
  BY <1>1, SameFile, Zenon
<1>3. rd.pc # "idle"
  BY Zenon DEF CodecInv
<1>4. WrOK(wr)' /\ RdOK(rd)'
  BY <1>1, Zenon DEF CodecInv, WrOK, WrHolds, IsWr, RdOK, IsRd
<1> QED BY <1>1, <1>2, <1>3, <1>4, Zenon DEF CodecInv

LEMMA WriteStep == ASSUME CodecInv, Write PROVE CodecInv'
<1>1. rd' = rd /\ ps' = ps
  BY Zenon DEF Write
<1>2. /\ image' = image /\ stream' \in Seq(Chunk) /\ WrOK(wr') /\ wr.pc # "written"
      /\ wr'.pc = "written" => cut' \in 0..Len(Whole(stream'))
  BY WriteKeeps, Zenon DEF CodecInv, Write
<1>3. rd.pc = "idle" /\ rd.at = 0 /\ PushInit /\ IsRd(rd) /\ PngInv(rd.png)
  BY <1>2, Zenon DEF CodecInv, RdOK
<1>4. PushInit'
  BY <1>1, <1>3, Zenon DEF PushInit
<1>5. 0 \in 0..Len(stream')
  BY <1>2
<1>6. RdOK(rd)'
  BY <1>1, <1>3, <1>5, Zenon DEF RdOK, IsRd
<1>7. WrOK(wr)'
  BY <1>2, Zenon DEF WrOK, WrHolds, IsWr
<1> QED BY <1>1, <1>2, <1>3, <1>4, <1>6, <1>7, Zenon DEF CodecInv

LEMMA DamageStep == ASSUME CodecInv, Intact \/ Damage PROVE CodecInv'
<1>1. wr.pc = "written" /\ rd.pc = "idle"
  BY Zenon DEF Intact, Damage, OnItsWay
<1>2. /\ OnItsWay /\ ToRead(stream')
      /\ stream' \in Seq(Chunk) /\ cut' \in 0..Len(Whole(stream'))
  BY <1>1, DamageKeeps, Zenon DEF CodecInv
<1>3. rd.at = 0 /\ PushInit /\ IsRd(rd) /\ PngInv(rd.png)
  BY <1>1, Zenon DEF CodecInv, RdOK
<1>4. /\ rd' = [rd EXCEPT !.pc = "info", !.pic = Blank(image)]
      /\ image' = image /\ wr' = wr /\ ps' = ps
  BY <1>2, Zenon DEF ToRead
<1>5. IsRd(rd') /\ rd'.at = 0 /\ rd'.png = rd.png /\ rd'.pc = "info"
  BY <1>3, <1>4, Zenon DEF IsRd, RdFields
<1>6. 0 \in 0..Len(stream') /\ "info" # "idle"
  BY <1>2
<1>7. RdOK(rd)'
  BY <1>3, <1>5, <1>6, Zenon DEF RdOK, IsRd
<1>8. WrOK(wr)'
  BY <1>4, Zenon DEF CodecInv, WrOK, WrHolds, IsWr
<1>9. PushInit'
  BY <1>3, <1>4, Zenon DEF PushInit
<1> QED BY <1>1, <1>2, <1>4, <1>5, <1>6, <1>7, <1>8, <1>9, Zenon DEF CodecInv

LEMMA ReadStep == ASSUME CodecInv, Read PROVE CodecInv'
<1>1. /\ image' = image /\ stream' = stream /\ cut' = cut /\ wr' = wr /\ ps' = ps
      /\ png_read_info \/ png_read_image \/ png_read_end
  BY Zenon DEF Read
<1>2. Reads(rd) /\ RdOK(rd') /\ rd'.pc # "idle"
  BY <1>1, PictureIs, ReadKeeps, Zenon DEF CodecInv
<1>3. RdOK(rd)' /\ WrOK(wr)'
  BY <1>1, <1>2, Zenon DEF CodecInv, WrOK, WrHolds, IsWr, RdOK, IsRd
<1>4. PushInit \/ PsOK(ps')
  BY <1>1, Zenon DEF CodecInv
<1>5. PushInit' \/ PsOK(ps)'
  BY <1>1, <1>4, SameFile, Zenon DEF PushInit
<1> QED BY <1>1, <1>2, <1>3, <1>5, Zenon DEF CodecInv, Reads

LEMMA ReopenStep == ASSUME CodecInv, Reopen PROVE CodecInv'
<1>1. /\ rd.pc \in {"done", "error"} /\ ps.mode = "idle"
      /\ ps' = [ps EXCEPT !.mode = "sig"]
      /\ image' = image /\ stream' = stream /\ cut' = cut /\ wr' = wr /\ rd' = rd
  BY Zenon DEF Reopen
<1>2. rd.pc # "idle"
  BY <1>1
<1>3. PushInit
  BY <1>1, OKModes, Zenon DEF CodecInv
<1>4. cut \in 0..Len(Whole(stream))
  BY <1>2, Zenon DEF CodecInv
<1>5. PICK l \in Nat : l = Len(Whole(stream))
  BY WholeLen, Zenon DEF CodecInv, WholeSize
<1>6. 0 \in Nat /\ 0 <= cut /\ 0 \in 0..7 /\ 0 \in 0..1 /\ 0 + 0 = 0
  BY <1>4, <1>5
<1>7. /\ IsPs(ps') /\ ps'.mode = "sig" /\ ps'.size = 0 /\ ps'.fed = 0 /\ ps'.taken = 0
      /\ ps'.save = <<>> /\ ps'.header = FALSE /\ ps'.idat = 0 /\ ps'.sig = 0
      /\ ps'.pass = 0 /\ ps'.png = NewPng
  BY <1>1, <1>3, NotStarted, Zenon DEF IsPs, PsFields
<1>8. Going(ps')
  <2>1. ps'.mode # "chunk"
    BY <1>7
  <2> QED BY <1>6, <1>7, <2>1, NewPngIs, Zenon DEF Going
<1>9. Settled(ps')
  BY <1>6, <1>7, NoPiece, Zenon DEF Settled
<1>10. PsOK(ps)'
  BY <1>1, <1>8, <1>9, SameFile, Zenon DEF PsOK
<1>11. WrOK(wr)' /\ RdOK(rd)'
  BY <1>1, Zenon DEF CodecInv, WrOK, WrHolds, IsWr, RdOK, IsRd
<1> QED BY <1>1, <1>2, <1>10, <1>11, Zenon DEF CodecInv

(* With nothing to use, everything is saved. *)
LEMMA EmptySettled ==
  ASSUME NEW s, Live(s), s.size = 0
  PROVE  Settled(s)
<1>1. PICK a, b, k, m \in Nat :
        /\ a = s.taken /\ b = s.fed /\ k = Len(s.save) /\ m = Len(s.cur)
        /\ s.size = k + m /\ a + (k + m) = b /\ b <= cut
  BY LiveNumbers, Zenon
<1>2. k + m = 0 /\ a + (k + m) = b
  BY <1>1, Zenon
<1>3. a + k = b
  BY <1>2
<1> QED BY <1>1, <1>3, Zenon DEF Live, Settled

LEMMA HandOverStep == ASSUME CodecInv, png_process_data PROVE CodecInv'
<1>1. PICK n \in FeedSizes \cup {0} :
        /\ ps.mode \notin {"idle", "error", "astray"} /\ ps.size = 0
        /\ ps' = png_push_restore_buffer(ps, SubSeq(File, ps.fed + 1, Min2(ps.fed + n, cut)))
        /\ UNCHANGED <<image, stream, cut, wr, rd, intact>>
  BY Zenon DEF png_process_data
<1>2. ~PushInit
  BY <1>1, NotStarted, Zenon
<1>3. FileThere /\ PsOK(ps)
  BY <1>2, ReadersHaveFile, Zenon
<1>4. cut \in Nat
  BY <1>3, FileIs, Zenon
<1>5. n \in Nat
  BY PictureAssumption
<1>6. Done(ps) \/ (Going(ps) /\ Settled(ps))
  <2>1. ~Failed(ps) /\ ~Lost(ps)
    BY <1>1 DEF Failed, Lost
  <2> QED BY <1>1, <1>3, <2>1, EmptySettled, Zenon DEF PsOK
<1>7. PICK f \in Nat : f = ps.fed /\ f <= cut
  BY <1>6, Zenon DEF Done, Settled
<1>8. PICK b \in 0..cut : b = Min2(f + n, cut) /\ f <= b
  <2>1. f <= cut
    BY <1>7, Zenon
  <2> QED BY <1>4, <1>5, <2>1 DEF Min2
<1> DEFINE q == SubSeq(File, f + 1, b)
<1>9. ps' = png_push_restore_buffer(ps, q)
  BY <1>1, <1>7, <1>8, Zenon
<1>10. CASE Going(ps) /\ Settled(ps)
  <2>1. Same(ps, ps') /\ Live(ps')
    BY <1>3, <1>7, <1>8, <1>9, <1>10, RestoreKeeps, Zenon DEF Going
  <2>2. PsOK(ps')
    BY <1>10, <2>1, GoingSame, Zenon DEF PsOK
  <2> QED BY <1>1, <1>2, <2>2, StartedKeeps, Zenon
<1>11. CASE Done(ps)
  <2>1. Len(q) = b - f
    BY <1>3, <1>8, PartIsPiece, Zenon
  <2> HIDE DEF q
  <2>2. PICK l \in Nat : l = Len(ps.save)
    BY <1>11, LenProperties, Zenon DEF Done
  <2>3. PICK m \in Nat : m = Len(q) /\ f + m \in Nat /\ f + m <= cut /\ m + l \in Nat
    BY <1>4, <1>8, <2>1
  <2>4. /\ IsPs(ps') /\ ps'.mode = "done" /\ ps'.png = ps.png /\ ps'.size = m + l
        /\ ps'.save = ps.save /\ ps'.fed = f + m
    BY <1>7, <1>9, <1>11, <2>2, <2>3, Zenon
    DEF Done, png_push_restore_buffer, IsPs, PsFields
  <2>5. Done(ps')
    BY <1>11, <2>3, <2>4, Zenon DEF Done
  <2> QED BY <1>1, <1>2, <2>5, StartedKeeps, Zenon DEF PsOK
<1> QED BY <1>6, <1>10, <1>11, Zenon

(* What png_process_some_data may be called on. *)
LEMMA BusyOrDone ==
  ASSUME CodecInv, ps.size > 0, ~Halted(ps)
  PROVE  /\ FileThere /\ ImageTyped /\ ~PushInit
         /\ Busy(ps) \/ (Done(ps) /\ ps.size # 0)
<1>1. ps.size # 0
  OBVIOUS
<1>2. ~PushInit
  BY <1>1, NotStarted, Zenon
<1>3. FileThere /\ ImageTyped /\ PsOK(ps)
  BY <1>2, ReadersHaveFile, Zenon
<1>4. Done(ps) \/ (Going(ps) /\ Live(ps))
  BY <1>1, <1>3, Zenon DEF PsOK, Failed, Lost, Halted, Settled
<1>5. Live(ps) => ps.size \in Nat
  <2> SUFFICES ASSUME Live(ps) PROVE ps.size \in Nat
    OBVIOUS
  <2>1. PICK k, m \in Nat : ps.size = k + m
    BY LiveNumbers, Zenon
  <2>2. k + m \in Nat
    OBVIOUS
  <2> QED BY <2>1, <2>2, Zenon
<1> QED BY <1>1, <1>2, <1>3, <1>4, <1>5, Zenon DEF Busy

LEMMA ProcessStep == ASSUME CodecInv, ProcessSome PROVE CodecInv'
<1>1. PICK how \in {"no", "save", "again"} :
        /\ ~Halted(ps) /\ ps.size > 0 /\ ps' = png_process_some_data(ps, how)
        /\ UNCHANGED <<image, stream, cut, wr, rd, intact>>
  BY Zenon DEF ProcessSome, Pauses
<1>2. /\ FileThere /\ ImageTyped /\ ~PushInit
      /\ Busy(ps) \/ (Done(ps) /\ ps.size # 0)
  BY <1>1, BusyOrDone, Zenon
<1>3. Good(ps', ps) \/ Stopped(ps', how)
  BY <1>1, <1>2, ProcessKeeps, Zenon
<1>4. PsOK(ps')
  BY <1>3, Zenon DEF Good, Stopped, PsOK
<1> QED BY <1>1, <1>2, <1>4, StartedKeeps, Zenon

LEMMA StutterStep == ASSUME CodecInv, UNCHANGED vars PROVE CodecInv'
<1>1. /\ image' = image /\ stream' = stream /\ cut' = cut /\ wr' = wr /\ rd' = rd
      /\ ps' = ps
  BY Zenon DEF vars
<1>2. WrOK(wr)' /\ RdOK(rd)'
  BY <1>1, Zenon DEF CodecInv, WrOK, WrHolds, IsWr, RdOK, IsRd
<1>3. PushInit \/ PsOK(ps')
  BY <1>1, Zenon DEF CodecInv
<1>4. (PushInit => PushInit') /\ (PushInit' \/ PsOK(ps)')
  BY <1>1, <1>3, SameFile, Zenon DEF PushInit
<1> QED BY <1>1, <1>2, <1>4, Zenon DEF CodecInv

(* CodecInv holds in every reachable state. *)
LEMMA CodecInvHolds == Spec => []CodecInv
<1>1. CodecInv /\ [Next]_vars => CodecInv'
  <2> SUFFICES ASSUME CodecInv, [Next]_vars PROVE CodecInv'
    OBVIOUS
  <2>1. CASE Write
    BY <2>1, WriteStep, Zenon
  <2>2. CASE Intact \/ Damage
    BY <2>2, DamageStep, Zenon
  <2>3. CASE Read
    BY <2>3, ReadStep, Zenon
  <2>4. CASE Reopen
    BY <2>4, ReopenStep, Zenon
  <2>5. CASE png_process_data
    BY <2>5, HandOverStep, Zenon
  <2>6. CASE ProcessSome
    BY <2>6, ProcessStep, Zenon
  <2>7. CASE UNCHANGED vars
    BY <2>7, StutterStep, Zenon
  <2> QED BY <2>1, <2>2, <2>3, <2>4, <2>5, <2>6, <2>7, Zenon DEF Next
<1> QED BY <1>1, InitIs, PTL DEF Spec

(* Whatever is done to the file, in whatever order its chunks come and in  *)
(* whatever pieces, what the handlers of the two readers keep fits         *)
(* together: InfoSound, for every picture and every limit on chunks.       *)
THEOREM InfoStaysSound == Spec => []InfoSound
<1>1. CodecInv => InfoSound
  <2> SUFFICES ASSUME CodecInv PROVE InfoFits(rd.png) /\ InfoFits(ps.png)
    BY Zenon DEF InfoSound
  <2>1. PngInv(rd.png)
    BY Zenon DEF CodecInv, RdOK
  <2>2. PngInv(ps.png)
    BY NotStarted, NewPngIs, Zenon DEF CodecInv, PsOK, Failed, Lost, Done, Going
  <2> QED BY <2>1, <2>2, Zenon DEF PngInv
<1> QED BY <1>1, CodecInvHolds, PTL

(* The progressive reader's buffers hold the file from the last byte used  *)
(* to the last one handed over, byte for byte, however large the pieces    *)
(* are and whether info_callback pauses or not, as long as no row_callback *)
(* does, after which buffer_size is wrong: BytesInOrder.                   *)
THEOREM BytesStayInOrder == Spec => []BytesInOrder
<1>1. CodecInv => BytesInOrder
  <2> DEFINE rest == SubSeq(File, ps.taken + 1, ps.fed)
  <2> SUFFICES ASSUME CodecInv, ps.mode \notin {"idle", "astray"}, ~Over
               PROVE  IF ps.size = 0 THEN ps.save = rest
                      ELSE ps.save \o ps.cur = rest /\ ps.size = Len(rest)
    BY Zenon DEF BytesInOrder
  <2>1. ~PushInit
    BY NotStarted, Zenon
  <2>2. FileThere /\ PsOK(ps)
    BY <2>1, ReadersHaveFile, Zenon
  <2>3. Live(ps) \/ Settled(ps)
    <3>1. ~Failed(ps) /\ ~Lost(ps) /\ ~Done(ps)
      BY DEF Over, Failed, Lost, Done
    <3> QED BY <2>2, <3>1, Zenon DEF PsOK
  <2>4. cut \in Nat
    BY <2>2, FileIs, Zenon
  <2>5. PICK a, b \in Nat : a = ps.taken /\ b = ps.fed /\ b <= cut
    BY <2>3, Zenon DEF Live, Settled
  <2>6. b \in 0..cut
    <3>1. b <= cut
      BY <2>5, Zenon
    <3> QED BY <2>4, <3>1
  <2>7. CASE ps.size = 0
    <3>1. Settled(ps)
      BY <2>3, <2>7, EmptySettled, Zenon
    <3>2. Piece(ps.save, a) /\ a + Len(ps.save) = b
      BY <2>5, <3>1, Zenon DEF Settled
    <3>3. SubSeq(File, a + 1, b) = ps.save
      BY <2>2, <2>6, <3>2, PieceIsPart, Zenon
    <3> QED BY <2>5, <2>7, <3>3, Zenon
  <2>8. CASE ps.size # 0
    <3> DEFINE q == ps.save \o ps.cur
    <3>1. /\ Piece(ps.save, a) /\ Piece(ps.cur, a + Len(ps.save))
          /\ ps.size = Len(ps.save) + Len(ps.cur) /\ a + ps.size = b
      BY <2>3, <2>5, <2>8, Zenon DEF Live, Settled
    <3>2. Piece(q, a) /\ Len(q) = ps.size
      BY <3>1, PieceConcat, Zenon
    <3> HIDE DEF q
    <3>3. SubSeq(File, a + 1, b) = q
      BY <2>2, <2>6, <3>1, <3>2, PieceIsPart, Zenon
    <3> QED BY <2>5, <2>8, <3>2, <3>3, Zenon DEF q
  <2> QED BY <2>7, <2>8, Zenon
<1> QED BY <1>1, CodecInvHolds, PTL

(* png_process_data returns: every call of png_process_some_data lowers    *)
(* buffer_size or fails, in every state and for every file, if no callback *)
(* pauses in it: PieceEnds.                                                *)
THEOREM PiecesEnd == Spec => []PieceEnds
<1>1. CodecInv => PieceEnds
  <2> DEFINE t == png_process_some_data(ps, "no")
  <2> SUFFICES ASSUME CodecInv, ps.size > 0, ~Halted(ps)
               PROVE  t.size < ps.size \/ t.mode = "error"
    BY Zenon DEF PieceEnds
  <2>1. /\ FileThere /\ ImageTyped
        /\ Busy(ps) \/ (Done(ps) /\ ps.size # 0)
    BY BusyOrDone, Zenon
  <2>2. Good(t, ps)
    BY <2>1, ProcessKeeps, Zenon DEF Stopped, Good
  <2> HIDE DEF t
  <2>3. CASE Settled(t)
    <3>1. t.size = 0
      BY <2>3, Zenon DEF Settled
    <3> QED BY <3>1
  <2> QED BY <2>2, <2>3, Zenon DEF Good, Failed, Less
<1> QED BY <1>1, CodecInvHolds, PTL

=============================================================================
