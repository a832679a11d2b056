--------------------------- MODULE MCGenerations ---------------------------
(***************************************************************************)
(* Generations for TLC: three tens of sizes meet every remainder of the    *)
(* rounding, and both parities of a tie.                                   *)
(***************************************************************************)
EXTENDS Generations

SmallSizes == 4..33
=============================================================================
