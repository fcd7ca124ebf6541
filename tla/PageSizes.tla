------------------------------ MODULE PageSizes ------------------------------
(***************************************************************************)
(* From a size to the order of a block of frames: page_size_align,         *)
(* page_size_order and the order that PM_Allocate asks for, all of         *)
(* Kernel/src/mm/page.c.                                                   *)
(***************************************************************************)
EXTENDS Integers, FiniteSets, FiniteSetsExt

CONSTANTS
  SizeBits,     \* 64, the width of size_t
  MaxOrder,     \* PAGE_MAX_ORDER, 10
  PageBytes     \* ARCH_PAGE_SIZE, 4096

(* The value of bit i of a size_t; the last one is what overflows. *)
Pow2[i \in 0..SizeBits] == IF i = 0 THEN 1 ELSE 2 * Pow2[i - 1]

(* A page is a power of two, and the five shifts below reach over the      *)
(* largest block's size in bytes.                                          *)
ASSUME SizeAssumption ==
  /\ SizeBits \in Nat /\ MaxOrder \in Nat
  /\ \E k \in 0..32 : k + MaxOrder <= 32 /\ k + MaxOrder < SizeBits /\ PageBytes = Pow2[k]

BitsOf(n) == {i \in 0..(SizeBits - 1) : (n \div Pow2[i]) % 2 = 1}

ValueOf(bits) ==
  LET sum[i \in 0..SizeBits] == IF i = 0 THEN 0 ELSE sum[i - 1] + (IF i - 1 \in bits THEN Pow2[i - 1] ELSE 0)
  IN  sum[SizeBits]

(* size |= size >> k *)
OrShift(bits, k) == bits \cup {i - k : i \in {j \in bits : j >= k}}

OrShifts(bits) == OrShift(OrShift(OrShift(OrShift(OrShift(bits, 1), 2), 4), 8), 16)

(* Faulty variant: a size that is a power of two is doubled. *)
Badpage_size_align(size) == (ValueOf(OrShifts(BitsOf(size))) + 1) % Pow2[SizeBits]

page_size_align(size) ==
  (ValueOf(OrShifts(BitsOf((size - 1) % Pow2[SizeBits]))) + 1) % Pow2[SizeBits]

(* The largest block is halved until it is not above size; the order, a    *)
(* uint8_t, goes down with it, below zero for size 0.                      *)
page_size_order(size) ==
  LET halvings == Min({h \in 0..(MaxOrder + 1) : Pow2[MaxOrder] \div Pow2[h] <= size})
  IN  (MaxOrder - halvings) % 256

(* The order that PM_Allocate hands to PM_AllocatePages. *)
PM_Allocate(size) == page_size_order(page_size_align(size) \div PageBytes)

(* For every number of pages up to the largest block, the block that is    *)
(* asked for is the smallest one that holds them; so it is for every       *)
(* number of bytes above half a page.                                      *)
SizesFit ==
  /\ \A n \in 1..Pow2[MaxOrder] :
       LET o == page_size_order(page_size_align(n)) IN
       o \in 0..MaxOrder /\ Pow2[o] = page_size_align(n) /\ n <= Pow2[o] /\ Pow2[o] < 2 * n
  /\ \A n \in (PageBytes \div 2 + 1)..(PageBytes * Pow2[MaxOrder]) :
       LET o == PM_Allocate(n) IN
       o \in 0..MaxOrder /\ n <= PageBytes * Pow2[o] /\ (o > 0 => PageBytes * Pow2[o] < 2 * n)

(* "If there is no suitable page, return [NULL]": for any number of bytes  *)
(* up to the largest block, PM_Allocate asks for an order that there is.   *)
SmallSizesFit == \A n \in 1..(PageBytes * Pow2[MaxOrder]) : PM_Allocate(n) \in 0..MaxOrder
==============================================================================
