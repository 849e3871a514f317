------------------------- MODULE MCGptRedundancy --------------------------
(* TLC instance of GptRedundancy: three entry-array contents, two values   *)
(* of the compared header fields; table t3 breaks the region checks of     *)
(* headers whose fields are f2.                                            *)
EXTENDS GptRedundancy

CONSTANTS t1, t2, t3, f1, f2

MCTables == {t1, t2, t3}
MCFields == {f1, f2}
MCMisplaced == {<<t3, f2>>}
=============================================================================
