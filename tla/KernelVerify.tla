----------------------------- MODULE KernelVerify -----------------------------
(***************************************************************************)
(* The chained verification of a kernel blob declared in                   *)
(* src/vboot_firmware/include/kernel_image_fw.h: VerifyKernelKeyHeader and *)
(* VerifyKernelPreamble inside VerifyKernelHeader, then VerifyKernelData   *)
(* with the signing key VerifyKernelHeader hands back, which the caller   *)
(* frees.  Only the declarations and their comments are in the            *)
(* repository; the model follows them.  Cryptography is abstracted to who *)
(* signed what: a signature verifies exactly when it was made with the key *)
(* the verifier uses.                                                     *)
(***************************************************************************)
EXTENDS Naturals

CONSTANTS
    FirmwareKey,    \* the pre-processed firmware signing key (signing_key_blob)
    Keys,           \* every key that can have signed part of a blob
    NoKey           \* the NULL kernel_sign_key

ASSUME KernelVerifyAssumption ==
    /\ FirmwareKey \in Keys
    /\ NoKey \notin Keys

VARIABLES
    blob,       \* the kernel blob being verified
    dev_mode,   \* DEV_MODE_ENABLED (1) or DEV_MODE_DISABLED (0)
    stage,      \* "idle", "header" (header verified), "data", "done"
    result,     \* the VERIFY_KERNEL_* code of the call
    sign_key    \* kernel_sign_key: the key VerifyKernelHeader hands back

vars == <<blob, dev_mode, stage, result, sign_key>>

\* VERIFY_KERNEL_* codes.
Codes == {"SUCCESS", "INVALID_IMAGE", "KEY_SIGNATURE_FAILED", "INVALID_ALGORITHM",
          "PREAMBLE_SIGNATURE_FAILED", "SIGNATURE_FAILED", "WRONG_MAGIC"}

\* A KernelImage as laid out in the blob, its byte content abstracted to the
\* checks it passes and to the key that made each signature.
Blob ==
    [magic_ok : BOOLEAN,           \* magic = KERNEL_MAGIC
     algorithms_ok : BOOLEAN,      \* firmware_sign_algorithm, kernel_sign_algorithm
     checksum_ok : BOOLEAN,        \* header_checksum over the key header fields
     kernel_key : Keys,            \* kernel_sign_key
     key_signer : Keys,            \* made kernel_key_signature
     preamble_signer : Keys,       \* made preamble_signature
     data_signer : Keys]           \* made kernel_signature over kernel_data

TypeOK ==
    /\ blob \in Blob
    /\ dev_mode \in {0, 1}
    /\ stage \in {"idle", "header", "data", "done"}
    /\ result \in Codes \cup {"NONE"}
    /\ sign_key \in Keys \cup {NoKey}

-----------------------------------------------------------------------------
(* The verification steps *)

\* Which sanity checks of the key header fail; their order is not given,
\* so the code returned is any one of them.
SanityFailures(b) ==
    {c \in {"WRONG_MAGIC", "INVALID_ALGORITHM", "INVALID_IMAGE"} :
        \/ c = "WRONG_MAGIC" /\ ~b.magic_ok
        \/ c = "INVALID_ALGORITHM" /\ ~b.algorithms_ok
        \/ c = "INVALID_IMAGE" /\ ~b.checksum_ok}

\* The key signature check as the comment of VerifyKernelKeyHeader states
\* it: "If [dev_mode] is enabled, also checks the kernel key signature".
KeySignatureCheckedInDevMode(dm) == dm = 1

\* VerifyKernelHeader and VerifyKernel: in developer mode the check of the
\* kernel key signature against the firmware key is skipped.
KeySignatureChecked(dm) == dm = 0

\* VerifyKernelKeyHeader: sanity first, then the key signature when checked.
KeyHeaderVerdicts(b, dm) ==
    IF SanityFailures(b) # {} THEN SanityFailures(b)
    ELSE IF KeySignatureChecked(dm) /\ b.key_signer # FirmwareKey
         THEN {"KEY_SIGNATURE_FAILED"}
         ELSE {"SUCCESS"}

\* VerifyKernelPreamble with the kernel_sign_key of the verified key header.
PreambleVerdict(b) ==
    IF b.preamble_signer = b.kernel_key THEN "SUCCESS" ELSE "PREAMBLE_SIGNATURE_FAILED"

\* Mutant: the preamble signature not checked.
HeaderVerdictsNoPreamble(b, dm) == KeyHeaderVerdicts(b, dm)

\* VerifyKernelHeader: key header, then preamble.
HeaderVerdicts(b, dm) ==
    IF KeyHeaderVerdicts(b, dm) = {"SUCCESS"} THEN {PreambleVerdict(b)}
    ELSE KeyHeaderVerdicts(b, dm)

\* VerifyKernelHeader as VerifyKernel calls it: on success the signing key
\* is handed back, on failure it is NULL and VerifyKernel returns the code.
VerifyKernelHeader ==
    /\ stage = "idle"
    /\ \E r \in HeaderVerdicts(blob, dev_mode) :
          IF r = "SUCCESS"
            THEN /\ sign_key' = blob.kernel_key
                 /\ stage' = "header"
                 /\ UNCHANGED result
            ELSE /\ sign_key' = NoKey
                 /\ stage' = "done"
                 /\ result' = r
    /\ UNCHANGED <<blob, dev_mode>>

\* VerifyKernelData: kernel_signature over kernel_len bytes of kernel_data,
\* with the key from the header.
VerifyKernelData ==
    /\ stage = "header"
    /\ result' = IF blob.data_signer = sign_key THEN "SUCCESS" ELSE "SIGNATURE_FAILED"
    /\ stage' = "data"
    /\ UNCHANGED <<blob, dev_mode, sign_key>>

\* VerifyKernel frees the signing key once the data is checked.
FreeSigningKey ==
    /\ stage = "data"
    /\ sign_key' = NoKey
    /\ stage' = "done"
    /\ UNCHANGED <<blob, dev_mode, result>>

\* The firmware calls VerifyKernel on another blob.
NewCall ==
    /\ stage = "done"
    /\ \E b \in Blob, dm \in {0, 1} : blob' = b /\ dev_mode' = dm
    /\ stage' = "idle"
    /\ result' = "NONE"
    /\ UNCHANGED sign_key

Init ==
    /\ blob \in Blob
    /\ dev_mode \in {0, 1}
    /\ stage = "idle"
    /\ result = "NONE"
    /\ sign_key = NoKey

Next == VerifyKernelHeader \/ VerifyKernelData \/ FreeSigningKey \/ NewCall

Spec == Init /\ [][Next]_vars

-----------------------------------------------------------------------------
(* Properties *)

\* A blob VerifyKernel accepts carries a preamble and kernel data signed by
\* its own kernel key, and outside developer mode that key is signed by the
\* firmware key: the chain of trust of VerifyKernel's comment.
ChainSound ==
    stage = "done" /\ result = "SUCCESS" =>
        /\ dev_mode = 0 => blob.key_signer = FirmwareKey
        /\ blob.preamble_signer = blob.kernel_key
        /\ blob.data_signer = blob.kernel_key
        /\ blob.magic_ok /\ blob.algorithms_ok /\ blob.checksum_ok

\* Between calls no signing key is held: a conjunct of the invariant the
\* proofs of KernelVerifyProofs rest on.
NoKeyLeak == stage \in {"idle", "done"} => sign_key = NoKey

\* The call as its caller sees it: pending until VerifyKernel returns, then
\* accepted on VERIFY_KERNEL_SUCCESS and rejected on any other code.
Verdict ==
    IF stage = "done"
      THEN IF result = "SUCCESS" THEN "accepted" ELSE "rejected"
      ELSE "pending"

Abstract == INSTANCE KernelVerifyAbstract WITH Blobs <- Blob, verdict <- Verdict

\* VerifyKernel, carried out as VerifyKernelHeader, VerifyKernelData and
\* the freeing of the signing key, implements the chained verify its
\* comment promises: every call answers success exactly on a blob whose
\* whole chain holds (the converse of ChainSound included: no valid blob
\* is refused), and the steps in between are invisible to the caller.
ImplementsVerifyKernel == Abstract!Spec
=============================================================================
