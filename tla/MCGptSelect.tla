--------------------------- MODULE MCGptSelect ----------------------------
(* TLC instance of GptSelect: three entries (the test layout uses four, two *)
(* of them kernels), priorities up to 2 and tries up to 2.                  *)
EXTENDS GptSelect
=============================================================================
