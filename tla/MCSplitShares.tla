--------------------------- MODULE MCSplitShares ---------------------------
(***************************************************************************)
(* Every vector of up to 3 shares of 0..7 parts in 6, and longer ones up   *)
(* to one share too many. A u64 of 4 bits and a u128 no larger than        *)
(* WidthAssumption asks for: a sum or a product out of range would show.   *)
(***************************************************************************)
EXTENDS SplitShares

MCAmounts == 0..15

LongVectors ==
  {<<0, 1, 1, 0, 1, 1, 1, 1>>, <<1, 1, 1, 1, 1, 1, 0, 0>>,
   <<0, 0, 0, 0, 0, 0, 5, 1>>, <<1, 1, 1, 1, 1, 1, 1, 1>>,
   <<1, 0, 1, 1, 1, 1, 1, 0, 0>>}

MCBpsVectors ==
  UNION {[1..len -> 0..7] : len \in 0..3} \cup LongVectors
=============================================================================
