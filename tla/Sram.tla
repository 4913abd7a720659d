-------------------------------- MODULE Sram --------------------------------
(***************************************************************************)
(* The address space of the SP memories: Height words, addressed modulo    *)
(* Height (65536 in the code, SP_SRAM_HEIGHT).  The DMA registers are kept *)
(* in the 32-bit ints dma_src and dma_dst and used only through "& 0xffff",*)
(* so an address is represented by the value that mask leaves, and         *)
(* incrementing it wraps.                                                  *)
(***************************************************************************)
EXTENDS Integers

CONSTANTS Height,   \* words in the memory
          Word      \* the values a word may hold

ASSUME HeightAssumption == Height \in Nat /\ Height > 1
ASSUME WordAssumption == 0 \in Word

Addr == 0 .. Height - 1

\* Mutant of Inc: the mask is forgotten.
IncUnmasked(a) == a + 1

\* (x + 1) & 0xffff
Inc(a) == IF a = Height - 1 THEN 0 ELSE a + 1

\* (x - 1) & 0xffff
Dec(a) == IF a = 0 THEN Height - 1 ELSE a - 1
=============================================================================
