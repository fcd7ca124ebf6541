------------------------------ MODULE PngRows ------------------------------
(***************************************************************************)
(* The rows of a PNG picture in libpng: which rows and pixels a pass of an *)
(* interlaced picture holds, how the writer picks them, and how the two    *)
(* readers put them back.  A picture is g = [w, h, il]; a pixel is one     *)
(* byte and has a value of its own, so that every pixel can be told from   *)
(* every other.  png_set_interlace_handling has been called, as            *)
(* png_read_image, png_write_image and the manual's progressive reader do. *)
(* Pass p of the code is entry p + 1 of the tables.                        *)
(***************************************************************************)
EXTENDS Integers, Sequences

png_pass_start == <<0, 4, 0, 2, 0, 1, 0>>
png_pass_inc == <<8, 8, 4, 4, 2, 2, 1>>

\* The filter byte in front of every row; the writer uses none, and no pixel
\* has its value.
FILTER_VALUE_NONE == 0
FILTER_VALUE_LAST == 5

\* The sequences in ss, one behind the other.
Joined(ss) ==
    LET upTo[n \in 0..Len(ss)] == IF n = 0 THEN <<>> ELSE upTo[n - 1] \o ss[n]
    IN  upTo[Len(ss)]

Pixel(g, x, y) == y * g.w + x + 1

Original(g) == [y \in 1..g.h |-> [x \in 1..g.w |-> Pixel(g, x - 1, y - 1)]]

Blank(g) == [y \in 1..g.h |-> [x \in 1..g.w |-> 0]]

\* iwidth: the pixels of a row in pass p.
Columns(g, p) ==
    IF g.il THEN (g.w + png_pass_inc[p + 1] - 1 - png_pass_start[p + 1])
                    \div png_pass_inc[p + 1]
    ELSE g.w

\* The switch at the head of png_read_row and png_write_row: row r has no
\* pixels in pass p.
BadRowAbsent(g, p, r) ==
    g.il /\ << r % 8 # 0, r % 8 # 0 \/ g.w < 5, r % 8 # 4, r % 4 # 0 \/ g.w < 3,
               r % 4 # 2, r % 2 # 0 \/ g.w < 3, r % 2 = 0 >>[p + 1]

RowAbsent(g, p, r) ==
    g.il /\ << r % 8 # 0, r % 8 # 0 \/ g.w < 5, r % 8 # 4, r % 4 # 0 \/ g.w < 3,
               r % 4 # 2, r % 2 # 0 \/ g.w < 2, r % 2 = 0 >>[p + 1]

\* The same switch in png_write_row.
WriteAbsent(g, p, r) ==
    g.il /\ << r % 8 # 0, r % 8 # 0 \/ g.w < 5, r % 8 # 4, r % 4 # 0 \/ g.w < 3,
               r % 4 # 2, r % 2 # 0 \/ g.w < 2, r % 2 = 0 >>[p + 1]

png_do_write_interlace(g, row, p) ==
    IF g.il /\ p < 6
    THEN [i \in 1..Columns(g, p) |->
            row[png_pass_start[p + 1] + (i - 1) * png_pass_inc[p + 1] + 1]]
    ELSE row

\* A filter byte that is none makes png_read_row and png_push_process_row fail.
IsFilter(b) == b >= FILTER_VALUE_NONE /\ b < FILTER_VALUE_LAST

\* The pixels of a row behind its filter byte.  Rows that were not filtered
\* come to have another one when data is damaged: what that makes of them is
\* no pixel of the picture.
png_read_filter_row(buf) ==
    IF Head(buf) = FILTER_VALUE_NONE THEN Tail(buf) ELSE [i \in 1..(Len(buf) - 1) |-> 0]

\* Every pixel of a row of pass p stands for png_pass_inc[p] columns.
png_do_read_interlace(g, row, p) ==
    IF g.il /\ p < 6
    THEN [i \in 1..(Len(row) * png_pass_inc[p + 1]) |->
            row[(i - 1) \div png_pass_inc[p + 1] + 1]]
    ELSE row

\* How many columns png_combine_row copies at a time: one, or for a display
\* row the block the pixel stands for.
Copied(p, display) == IF display THEN 2^((6 - p) \div 2) ELSE 1

\* Merges an expanded row of pass p into a row of the picture.  For display
\* the even passes copy everything.
png_combine_row(g, old, row, p, display) ==
    IF g.il /\ p < 6 /\ (display => p % 2 = 1)
    THEN [x \in 1..g.w |->
            IF /\ x > png_pass_start[p + 1]
               /\ (x - 1 - png_pass_start[p + 1]) % png_pass_inc[p + 1]
                    < Copied(p, display)
            THEN row[x] ELSE old[x]]
    ELSE SubSeq(row, 1, g.w)

=============================================================================
