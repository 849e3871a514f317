-------------------------- MODULE BootLoopAbstract --------------------------
(***************************************************************************)
(* The boot loop of spec.md section 2 as its caller sees it, with          *)
(* VerifyKernel as one call: GptNextKernelEntry names a candidate, the     *)
(* blob read from its partition is accepted or rejected at once by the     *)
(* chained verify of KernelVerifyAbstract, and GptUpdateKernelEntry        *)
(* reports TRY before booting an accepted kernel or BAD for a rejected one. *)
(* BootLoop, whose VerifyKernel is the header, data and free steps of       *)
(* KernelVerify, is shown to implement this specification.                 *)
(***************************************************************************)
EXTENDS GptSelect

CONSTANTS
    FirmwareKey,    \* as in KernelVerifyAbstract
    Images          \* the blobs a kernel partition may hold

VARIABLES
    images,     \* images[i]: the kernel blob stored in partition i
    blob,       \* the blob of the VerifyKernel call
    dev_mode,   \* its developer mode
    verdict,    \* "pending", "accepted" or "rejected"
    phase       \* "select", "verify", "booted" or "recovery"

VA == INSTANCE KernelVerifyAbstract WITH Blobs <- Images

gptVars == <<entries, entries2, current_kernel, offered, modified, ret,
             loaded, session_start, offers>>
bootVars == <<gptVars, images, blob, dev_mode, verdict, phase>>

BootInit ==
    /\ Init
    /\ images \in [Idx -> Images]
    /\ blob \in Images
    /\ dev_mode \in {0, 1}
    /\ verdict = "pending"
    /\ phase = "select"

\* A kernel found is read from its partition and a VerifyKernel call
\* starts on it; "no valid kernel" ends in recovery.
SelectKernel ==
    /\ phase = "select"
    /\ GptNextKernelEntry
    /\ IF ret' = "SUCCESS"
         THEN /\ phase' = "verify"
              /\ blob' = images[current_kernel']
              /\ verdict' = "pending"
         ELSE /\ phase' = "recovery"
              /\ UNCHANGED <<blob, verdict>>
    /\ UNCHANGED <<images, dev_mode>>

\* VerifyKernel on the current partition's blob, in one step.
VerifyKernel ==
    /\ phase = "verify"
    /\ VA!VerifyKernel
    /\ UNCHANGED <<gptVars, images, phase>>

\* TRY and boot an accepted kernel, BAD and back to selection otherwise.
MarkKernel ==
    /\ phase = "verify"
    /\ verdict # "pending"
    /\ IF verdict = "accepted"
         THEN GptUpdateKernelEntry("TRY") /\ phase' = "booted"
         ELSE GptUpdateKernelEntry("BAD") /\ phase' = "select"
    /\ UNCHANGED <<images, blob, dev_mode, verdict>>

\* A new session over the table as last updated.
Reboot ==
    /\ phase \in {"booted", "recovery"}
    /\ GptInit
    /\ phase' = "select"
    /\ UNCHANGED <<images, blob, dev_mode, verdict>>

BootNext == SelectKernel \/ VerifyKernel \/ MarkKernel \/ Reboot

BootSpec == BootInit /\ [][BootNext]_bootVars
=============================================================================
