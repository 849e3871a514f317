---------------------------- MODULE MCKernelVerify ----------------------------
(* Three keys: the firmware key, the vendor's kernel key and a key an      *)
(* attacker holds, so that every signature can be right, made with the    *)
(* wrong trusted key, or forged.                                           *)
EXTENDS KernelVerify

=============================================================================
