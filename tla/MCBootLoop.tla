----------------------------- MODULE MCBootLoop -----------------------------
(* TLC instance of BootLoop: two partitions, and three blobs: one signed  *)
(* along the whole chain, one whose kernel key the firmware key did not   *)
(* sign (it verifies only in developer mode), one with forged kernel data. *)
EXTENDS BootLoop

MCGood    == [magic_ok |-> TRUE, algorithms_ok |-> TRUE, checksum_ok |-> TRUE,
              kernel_key |-> "kern", key_signer |-> "fw",
              preamble_signer |-> "kern", data_signer |-> "kern"]
MCImages  == {MCGood,
              [MCGood EXCEPT !.key_signer = "evil"],
              [MCGood EXCEPT !.data_signer = "evil"]}
=============================================================================
