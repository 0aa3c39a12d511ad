----------------------------- MODULE MCBootSwap -----------------------------
(***************************************************************************)
(* Images of every size a slot can hold: the smallest leaves the last      *)
(* sector to the trailer, the largest shares it with the trailer.          *)
(***************************************************************************)
EXTENDS BootSwap

CONSTANTS small, medium, large

Sizes == [img \in Images |-> CASE img = small  -> 1
                              [] img = medium -> NumSectors - 1
                              [] img = large  -> NumSectors]
=============================================================================
