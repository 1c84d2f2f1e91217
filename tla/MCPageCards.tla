----------------------------- MODULE MCPageCards -----------------------------
(***************************************************************************)
(* Bounds for PageCards: two tasks; two-bit words and two-slot cards, the *)
(* 64-bit words and 2^kSlotsPerCardLog2 slots scaled down; a card table of *)
(* three bits, so the last word is partial; an array starting at slot 1,  *)
(* so the first card overlaps the header; lengths 5 (the whole page) and  *)
(* 2 (truncated, so the last card lies wholly past the array).            *)
(***************************************************************************)
EXTENDS PageCards

MCBitsPerWord == 2
MCSlotsPerCard == 2
MCCardTableSize == 3
MCObjFrom == 1
MCLengths == {2, 5}
=============================================================================
