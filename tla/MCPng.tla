-------------------------------- MODULE MCPng --------------------------------
(***************************************************************************)
(* Pictures for TLC.  Plain ones have every width and height at which a    *)
(* pass of the interlacing comes or goes, and nothing but image data; some *)
(* lack a palette, or have one that is too long, and cannot be written.    *)
(* The others are small and have every chunk libpng writes, and their      *)
(* files suffer the faults.                                                *)
(***************************************************************************)
EXTENDS PngCodec

Picture(w, h, il, color, sets, late) ==
    [w |-> w, h |-> h, il |-> il, color |-> color, sets |-> sets, late |-> late]

Set(name, num) == [name |-> name, num |-> num]

MCPlain == {Picture(w, h, TRUE, "gray", <<>>, <<>>) :
              w \in {1, 2, 3, 5, 9}, h \in {1, 2, 3, 4, 5, 9}}
           \cup {Picture(w, 3, FALSE, "gray", <<>>, <<>>) : w \in {1, 5, 9}}
           \cup {Picture(1, 1, FALSE, "palette", sets, late) :
                   sets \in {<<>>, <<Set("PLTE", MaxPalette + 1)>>, <<Set("PLTE", 1)>>},
                   late \in {<<>>, <<Set("PLTE", 0)>>}}

MCFragile ==
    {Picture(3, 4, FALSE, "gray", <<>>, <<>>),
     Picture(2, 1, FALSE, "gray", <<>>, <<Set("eXIf", 0), Set("tEXt", 0)>>),
     Picture(3, 2, TRUE, "palette",
             <<Set("PLTE", 3), Set("tRNS", 2), Set("bKGD", 1), Set("hIST", 0)>>, <<>>),
     Picture(2, 2, FALSE, "rgb",
             <<Set("gAMA", Other), Set("cHRM", Other), Set("sBIT", 0), Set("tRNS", 1)>>, <<>>),
     Picture(2, 1, FALSE, "rgb",
             <<Set("sRGB", OfSRGB), Set("PLTE", 2), Set("hIST", 0), Set("pHYs", 0),
               Set("oFFs", 0)>>, <<>>),
     Picture(2, 1, FALSE, "rgb",
             <<Set("sRGB", OfSRGB), Set("iCCP", Other), Set("eXIf", 0)>>, <<>>),
     Picture(1, 2, FALSE, "gray",
             <<Set("pCAL", 0), Set("sCAL", 0), Set("sPLT", 0), Set("tIME", 0)>>, <<>>),
     Picture(1, 1, FALSE, "gray",
             <<Set("tEXt", 0), Set("tEXt", 0), Set("sPLT", 0)>>,
             <<Set("tEXt", 0), Set("tIME", 0)>>)}

MCImages == MCPlain \cup MCFragile

==============================================================================
