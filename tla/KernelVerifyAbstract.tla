------------------------- MODULE KernelVerifyAbstract -------------------------
(***************************************************************************)
(* What VerifyKernel promises, in one step: "a chained verify of the       *)
(* kernel blob".  The call answers success exactly when every link of the *)
(* chain holds: the key header is sane, outside developer mode the kernel *)
(* signing key is signed by the firmware key, and the kernel signing key  *)
(* signed both the preamble and the kernel data.  KernelVerify performs   *)
(* the same call as the sequence VerifyKernelHeader, VerifyKernelData,    *)
(* free, and is shown to implement this specification.                    *)
(***************************************************************************)

CONSTANTS
    FirmwareKey,    \* the pre-processed public signing key (signing_key_blob)
    Blobs           \* the kernel blobs a call may be given

VARIABLES
    blob,       \* kernel_blob
    dev_mode,   \* dev_mode
    verdict     \* "pending" during the call, then "accepted" (0) or "rejected"

vars == <<blob, dev_mode, verdict>>

\* The chain VerifyKernel checks, as its comment states it.
Accepts(b, dm) ==
    /\ b.magic_ok /\ b.algorithms_ok /\ b.checksum_ok
    /\ dm = 0 => b.key_signer = FirmwareKey
    /\ b.preamble_signer = b.kernel_key
    /\ b.data_signer = b.kernel_key

Init ==
    /\ blob \in Blobs
    /\ dev_mode \in {0, 1}
    /\ verdict = "pending"

\* VerifyKernel returns: 0 on a blob whose chain holds, an error code
\* otherwise.
VerifyKernel ==
    /\ verdict = "pending"
    /\ verdict' = IF Accepts(blob, dev_mode) THEN "accepted" ELSE "rejected"
    /\ UNCHANGED <<blob, dev_mode>>

\* The firmware calls VerifyKernel again, on any blob and mode.
NewCall ==
    /\ verdict # "pending"
    /\ blob' \in Blobs
    /\ dev_mode' \in {0, 1}
    /\ verdict' = "pending"

Next == VerifyKernel \/ NewCall

Spec == Init /\ [][Next]_vars
=============================================================================
