------------------------------ MODULE BootLoop ------------------------------
(***************************************************************************)
(* The boot loop that joins kernel selection to kernel verification, as    *)
(* spec.md section 2 lays out the control flow: the caller asks           *)
(* GptNextKernelEntry for a candidate, runs VerifyKernel (VerifyKernelHeader, *)
(* VerifyKernelData, the freeing of the signing key) on the blob in that   *)
(* partition, and reports the outcome through GptUpdateKernelEntry: TRY   *)
(* before jumping to a kernel that verified, BAD for one that did not, and *)
(* then asks for the next candidate.  "No valid kernel" sends the device   *)
(* to recovery.  A reboot starts a new session over the table the caller  *)
(* wrote back.  Selection is GptSelect itself and verification is         *)
(* KernelVerify, called on the blob the caller read from the partition.    *)
(***************************************************************************)
EXTENDS GptSelect

CONSTANTS
    FirmwareKey, Keys, NoKey,   \* as in KernelVerify
    Images                      \* the blobs a kernel partition may hold

VARIABLES
    images,     \* images[i]: the kernel blob stored in partition i
    blob, dev_mode, stage, result, sign_key,   \* the VerifyKernel call
    phase       \* "select", "verify", "booted" or "recovery"

KV == INSTANCE KernelVerify

\* Every image a partition may hold is a KernelImage blob.
ASSUME BootAssumption == Images \subseteq KV!Blob

gptVars == <<entries, entries2, current_kernel, offered, modified, ret,
             loaded, session_start, offers>>
kvVars == <<blob, dev_mode, stage, result, sign_key>>
bootVars == <<gptVars, images, kvVars, phase>>

BootInit ==
    /\ Init
    /\ images \in [Idx -> Images]
    /\ blob \in Images
    /\ dev_mode \in {0, 1}
    /\ stage = "idle"
    /\ result = "NONE"
    /\ sign_key = NoKey
    /\ phase = "select"

\* Ask for the next candidate: a kernel found is read from its partition
\* and a VerifyKernel call starts on that blob, "no valid kernel" ends in
\* recovery.
SelectKernel ==
    /\ phase = "select"
    /\ GptNextKernelEntry
    /\ IF ret' = "SUCCESS"
         THEN /\ phase' = "verify"
              /\ blob' = images[current_kernel']
              /\ stage' = "idle"
              /\ result' = "NONE"
         ELSE /\ phase' = "recovery"
              /\ UNCHANGED <<blob, stage, result>>
    /\ UNCHANGED <<images, dev_mode, sign_key>>

\* One step of VerifyKernel on the current partition's blob.
VerifyStep(A) ==
    /\ phase = "verify"
    /\ A
    /\ UNCHANGED <<gptVars, images, phase>>

\* Mutant: a kernel that failed is marked BAD and verified again instead
\* of asking for the next candidate.
MarkKernelRetry ==
    /\ phase = "verify"
    /\ stage = "done"
    /\ IF result = "SUCCESS"
         THEN GptUpdateKernelEntry("TRY") /\ phase' = "booted"
              /\ UNCHANGED <<images, kvVars>>
         ELSE GptUpdateKernelEntry("BAD") /\ phase' = "verify"
              /\ stage' = "idle" /\ result' = "NONE"
              /\ UNCHANGED <<images, blob, dev_mode, sign_key>>

\* VerifyKernel has returned: TRY and boot a kernel that verified, mark a
\* kernel that did not BAD and go back for the next one.
MarkKernel ==
    /\ phase = "verify"
    /\ stage = "done"
    /\ IF result = "SUCCESS"
         THEN GptUpdateKernelEntry("TRY") /\ phase' = "booted"
         ELSE GptUpdateKernelEntry("BAD") /\ phase' = "select"
    /\ UNCHANGED <<images, kvVars>>

\* The kernel or recovery image resets the machine: a new session over the
\* table as last updated.
Reboot ==
    /\ phase \in {"booted", "recovery"}
    /\ GptInit
    /\ phase' = "select"
    /\ UNCHANGED <<images, kvVars>>

BootNext ==
    \/ SelectKernel
    \/ VerifyStep(KV!VerifyKernelHeader)
    \/ VerifyStep(KV!VerifyKernelData)
    \/ VerifyStep(KV!FreeSigningKey)
    \/ MarkKernel
    \/ Reboot

\* The firmware runs each step as soon as it is enabled: selection,
\* verification and the update are synchronous calls with nothing to wait
\* for (spec.md section 5).  A reboot is up to the kernel and is not fair.
BootFairness ==
    /\ WF_bootVars(SelectKernel)
    /\ WF_bootVars(VerifyStep(KV!VerifyKernelHeader))
    /\ WF_bootVars(VerifyStep(KV!VerifyKernelData))
    /\ WF_bootVars(VerifyStep(KV!FreeSigningKey))
    /\ WF_bootVars(MarkKernel)

BootSpec == BootInit /\ [][BootNext]_bootVars /\ BootFairness

-----------------------------------------------------------------------------
(* Properties *)

\* Blob b passes every check of VerifyKernel under developer mode dm.
Verifies(b, dm) ==
    KV!HeaderVerdicts(b, dm) = {"SUCCESS"} /\ b.data_signer = b.kernel_key

\* The device only falls back to recovery when no kernel that was bootable
\* at the start of the session holds a blob that verifies: a good kernel is
\* never passed over by selection, marked BAD, or lost to a stale cursor.
RecoveryOnlyWithoutGoodKernel ==
    phase = "recovery" =>
        \A i \in Idx : Bootable(session_start, i) => ~Verifies(images[i], dev_mode)

\* Every boot attempt ends: from asking for a candidate, the firmware
\* reaches a kernel that verified or recovery, even when TRY and BAD leave
\* an entry bootable (a successful entry cannot be marked BAD).
BootAttemptEnds == phase = "select" ~> phase \in {"booted", "recovery"}

\* The boot loop as its caller sees it, VerifyKernel answering in one step:
\* the verdict is KernelVerify's pending / accepted / rejected.
Atomic == INSTANCE BootLoopAbstract WITH verdict <- KV!Verdict

\* The boot loop, with VerifyKernel carried out as its header, data and
\* free steps, implements the loop over an atomic chained verify: a kernel
\* is booted only after a call that accepts its blob, marked BAD only after
\* one that rejects it, and the steps in between change nothing the loop
\* sees.
ImplementsAtomicVerify == Atomic!BootSpec

(* The strengthening that makes RecoveryOnlyWithoutGoodKernel inductive. *)

Phases == {"select", "verify", "booted", "recovery"}

BootTypeOK ==
    /\ images \in [Idx -> KV!Blob]
    /\ blob \in KV!Blob
    /\ dev_mode \in {0, 1}
    /\ stage \in {"idle", "header", "data", "done"}
    /\ result \in KV!Codes \cup {"NONE"}
    /\ sign_key \in Keys \cup {NoKey}
    /\ phase \in Phases

\* While a kernel is being verified, the blob is its partition's image, the
\* key handed back is that blob's kernel key, and a finished check that did
\* not answer SUCCESS was given a blob that does not verify.
VerifyingCurrent ==
    phase = "verify" =>
        /\ current_kernel \in Idx
        /\ blob = images[current_kernel]
        /\ stage \in {"header", "data"} => sign_key = blob.kernel_key
        /\ stage \in {"data", "done"} /\ result # "SUCCESS" => ~Verifies(blob, dev_mode)

\* Every kernel offered this session and not booted holds a blob that does
\* not verify, except the one being verified.
OfferedFailed ==
    phase # "booted" =>
        \A i \in offered :
            (phase = "verify" /\ i = current_kernel) \/ ~Verifies(images[i], dev_mode)

\* Recovery is entered only on NO_VALID_KERNEL.
RecoveryOnNoKernel == phase = "recovery" => ret = "NO_VALID_KERNEL"

BInv ==
    /\ SInv
    /\ BootTypeOK
    /\ VerifyingCurrent
    /\ OfferedFailed
    /\ RecoveryOnNoKernel

\* During a call, a header check that passed answered SUCCESS alone, and a
\* data check's result is SUCCESS exactly when the blob verifies.
VerdictCurrent ==
    phase = "verify" =>
        /\ stage \in {"header", "data"} => KV!HeaderVerdicts(blob, dev_mode) = {"SUCCESS"}
        /\ stage \in {"data", "done"} => (result = "SUCCESS" <=> Verifies(blob, dev_mode))
=============================================================================
