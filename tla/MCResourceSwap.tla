--------------------------- MODULE MCResourceSwap ---------------------------
(* Swaps of four entries between releases that follow one another.         *)
EXTENDS ResourceSwap
=============================================================================
