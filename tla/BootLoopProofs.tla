--------------------------- MODULE BootLoopProofs ---------------------------
(***************************************************************************)
(* Proofs about the boot loop (BootLoop) for every number of entries,     *)
(* every key set and every set of images allowed by the assumptions: the  *)
(* device only reaches recovery when no kernel bootable at the start of    *)
(* the session holds a blob that verifies.                                 *)
(*                                                                         *)
(* RecoveryOnlyWithoutGoodKernel is not inductive: recovery follows        *)
(* NO_VALID_KERNEL, which by NoKernelSkipped means every bootable kernel   *)
(* was offered, and what must be known is that every kernel offered and   *)
(* not booted failed verification.  BInv records this (OfferedFailed),    *)
(* what a VerifyKernel call in progress has established about the blob of *)
(* the current partition (VerifyingCurrent), and selection's own          *)
(* invariant SInv, carried over from GptSelectProofs: every boot-loop step *)
(* is a step of GptSelect or leaves its variables alone.                   *)
(***************************************************************************)
EXTENDS BootLoop, GptSelectProofs, TLAPS

-----------------------------------------------------------------------------
(* Lemmas *)

\* Selection sees the boot loop as its own state machine: SelectKernel is
\* GptNextKernelEntry, MarkKernel is GptUpdateKernelEntry with TRY or BAD,
\* Reboot is GptInit, and a verification step leaves the table alone.
LEMMA GptStep == [BootNext]_bootVars => [Next]_vars
<1>. SUFFICES ASSUME [BootNext]_bootVars PROVE [Next]_vars
  OBVIOUS
<1>1. CASE SelectKernel
  BY <1>1 DEF SelectKernel, Next
<1>2. CASE VerifyStep(KV!VerifyKernelHeader) \/ VerifyStep(KV!VerifyKernelData)
           \/ VerifyStep(KV!FreeSigningKey)
  BY <1>2 DEF VerifyStep, gptVars, vars
<1>3. CASE MarkKernel
  BY <1>3 DEF MarkKernel, Next, Kinds
<1>4. CASE Reboot
  BY <1>4 DEF Reboot, Next
<1>5. CASE UNCHANGED bootVars
  BY <1>5 DEF bootVars, gptVars, vars
<1>. QED  BY <1>1, <1>2, <1>3, <1>4, <1>5 DEF BootNext

\* A blob whose header check answers anything but SUCCESS does not verify.
LEMMA HeaderFailureRejects ==
    ASSUME NEW b, NEW dm, NEW r \in KV!HeaderVerdicts(b, dm), r # "SUCCESS"
    PROVE  ~Verifies(b, dm)
BY DEF Verifies

\* Every code VerifyKernelHeader can answer is a VERIFY_KERNEL_* code.
LEMMA HeaderVerdictCodes ==
    ASSUME NEW b, NEW dm
    PROVE  KV!HeaderVerdicts(b, dm) \subseteq KV!Codes
BY DEF KV!HeaderVerdicts, KV!KeyHeaderVerdicts, KV!SanityFailures,
       KV!PreambleVerdict, KV!Codes

LEMMA BInvInit == BootInit => BInv
<1>. SUFFICES ASSUME BootInit PROVE BInv
  OBVIOUS
<1>1. SInv
  BY InitSInv DEF BootInit
<1>2. BootTypeOK
  BY BootAssumption DEF BootInit, BootTypeOK, Phases
<1>3. VerifyingCurrent /\ OfferedFailed /\ RecoveryOnNoKernel
  BY DEF BootInit, Init, VerifyingCurrent, OfferedFailed, RecoveryOnNoKernel
<1>. QED  BY <1>1, <1>2, <1>3 DEF BInv

LEMMA BInvStep == BInv /\ [BootNext]_bootVars => BInv'
<1>. SUFFICES ASSUME BInv, [BootNext]_bootVars PROVE BInv'
  OBVIOUS
<1>. USE DEF BInv
<1>1. SInv'
  BY GptStep, SInvStep
<1>2. CASE SelectKernel
  <2>1. CASE Candidates(entries, offered) # {}
    <3>1. /\ current_kernel' = Best(entries, Candidates(entries, offered))
          /\ offered' = offered \cup {current_kernel'}
          /\ ret' = "SUCCESS"
      BY <1>2, <2>1 DEF SelectKernel, GptNextKernelEntry
    <3>2. current_kernel' \in Idx
      BY <2>1, <3>1, BestSpec DEF SInv, TypeOK, Candidates
    <3>3. /\ phase' = "verify" /\ blob' = images[current_kernel']
          /\ stage' = "idle" /\ result' = "NONE"
          /\ UNCHANGED <<images, dev_mode, sign_key>>
      BY <1>2, <3>1 DEF SelectKernel
    <3>4. BootTypeOK'
      BY <3>2, <3>3 DEF BootTypeOK, Phases
    <3>5. OfferedFailed'
      <4>1. \A i \in offered : ~Verifies(images[i], dev_mode)
        BY <1>2 DEF SelectKernel, OfferedFailed
      <4>. QED  BY <3>1, <3>3, <4>1 DEF OfferedFailed
    <3>. QED  BY <1>1, <3>2, <3>3, <3>4, <3>5 DEF VerifyingCurrent, RecoveryOnNoKernel
  <2>2. CASE Candidates(entries, offered) = {}
    <3>1. /\ ret' = "NO_VALID_KERNEL" /\ UNCHANGED offered
          /\ phase' = "recovery"
          /\ UNCHANGED <<images, blob, dev_mode, stage, result, sign_key>>
      BY <1>2, <2>2 DEF SelectKernel, GptNextKernelEntry
    <3>. QED  BY <1>1, <1>2, <3>1 DEF SelectKernel, BootTypeOK, Phases,
                                       VerifyingCurrent, OfferedFailed,
                                       RecoveryOnNoKernel
  <2>. QED  BY <2>1, <2>2
<1>3. CASE VerifyStep(KV!VerifyKernelHeader)
  <2>1. PICK r \in KV!HeaderVerdicts(blob, dev_mode) :
          IF r = "SUCCESS"
            THEN sign_key' = blob.kernel_key /\ stage' = "header" /\ UNCHANGED result
            ELSE sign_key' = NoKey /\ stage' = "done" /\ result' = r
    BY <1>3 DEF VerifyStep, KV!VerifyKernelHeader
  <2>2. /\ phase = "verify" /\ stage = "idle"
        /\ UNCHANGED <<gptVars, images, phase, blob, dev_mode>>
    BY <1>3 DEF VerifyStep, KV!VerifyKernelHeader
  <2>3. UNCHANGED <<current_kernel, offered, ret>>
    BY <2>2 DEF gptVars
  <2>4. r \in KV!Codes
    BY HeaderVerdictCodes
  <2>5. CASE r = "SUCCESS"
    BY <1>1, <2>1, <2>2, <2>3, <2>5 DEF BootTypeOK, KV!Blob, VerifyingCurrent,
                                       OfferedFailed, RecoveryOnNoKernel
  <2>6. CASE r # "SUCCESS"
    <3>1. ~Verifies(blob, dev_mode)
      BY <2>6, HeaderFailureRejects
    <3>. QED  BY <1>1, <2>1, <2>2, <2>3, <2>4, <2>6, <3>1
                 DEF BootTypeOK, VerifyingCurrent, OfferedFailed, RecoveryOnNoKernel
  <2>. QED  BY <2>5, <2>6
<1>4. CASE VerifyStep(KV!VerifyKernelData)
  <2>1. /\ phase = "verify" /\ stage = "header" /\ stage' = "data"
        /\ result' = IF blob.data_signer = sign_key THEN "SUCCESS" ELSE "SIGNATURE_FAILED"
        /\ UNCHANGED <<gptVars, images, phase, blob, dev_mode, sign_key>>
    BY <1>4 DEF VerifyStep, KV!VerifyKernelData
  <2>2. UNCHANGED <<current_kernel, offered, ret>>
    BY <2>1 DEF gptVars
  <2>3. result' # "SUCCESS" => ~Verifies(blob, dev_mode)
    BY <2>1 DEF VerifyingCurrent, Verifies
  <2>. QED  BY <1>1, <2>1, <2>2, <2>3 DEF BootTypeOK, KV!Codes, VerifyingCurrent,
                                           OfferedFailed, RecoveryOnNoKernel
<1>5. CASE VerifyStep(KV!FreeSigningKey)
  <2>1. /\ phase = "verify" /\ stage = "data" /\ stage' = "done" /\ sign_key' = NoKey
        /\ UNCHANGED <<gptVars, images, phase, blob, dev_mode, result>>
    BY <1>5 DEF VerifyStep, KV!FreeSigningKey
  <2>2. UNCHANGED <<current_kernel, offered, ret>>
    BY <2>1 DEF gptVars
  <2>. QED  BY <1>1, <2>1, <2>2 DEF BootTypeOK, VerifyingCurrent, OfferedFailed,
                                     RecoveryOnNoKernel
<1>6. CASE MarkKernel
  <2>1. /\ phase = "verify" /\ stage = "done"
        /\ UNCHANGED <<images, blob, dev_mode, stage, result, sign_key>>
        /\ UNCHANGED <<current_kernel, offered>>
    BY <1>6 DEF MarkKernel, kvVars, GptUpdateKernelEntry
  <2>2. CASE result = "SUCCESS"
    <3>1. phase' = "booted"
      BY <1>6, <2>2 DEF MarkKernel
    <3>. QED  BY <1>1, <2>1, <3>1 DEF BootTypeOK, Phases, VerifyingCurrent,
                                       OfferedFailed, RecoveryOnNoKernel
  <2>3. CASE result # "SUCCESS"
    <3>1. phase' = "select"
      BY <1>6, <2>3 DEF MarkKernel
    <3>2. ~Verifies(images[current_kernel], dev_mode)
      BY <2>1, <2>3 DEF VerifyingCurrent
    <3>3. OfferedFailed'
      BY <2>1, <3>1, <3>2 DEF OfferedFailed
    <3>. QED  BY <1>1, <2>1, <3>1, <3>3 DEF BootTypeOK, Phases, VerifyingCurrent,
                                             RecoveryOnNoKernel
  <2>. QED  BY <2>2, <2>3
<1>7. CASE Reboot
  <2>1. /\ phase' = "select" /\ offered' = {}
        /\ UNCHANGED <<images, blob, dev_mode, stage, result, sign_key>>
    BY <1>7 DEF Reboot, GptInit, kvVars
  <2>. QED  BY <1>1, <2>1 DEF BootTypeOK, Phases, VerifyingCurrent, OfferedFailed,
                              RecoveryOnNoKernel
<1>8. CASE UNCHANGED bootVars
  BY <1>1, <1>8 DEF bootVars, gptVars, kvVars, BootTypeOK, VerifyingCurrent,
                    OfferedFailed, RecoveryOnNoKernel
<1>. QED  BY <1>2, <1>3, <1>4, <1>5, <1>6, <1>7, <1>8 DEF BootNext

-----------------------------------------------------------------------------
(* Theorems *)

\* BInv holds in every state of the boot loop.
THEOREM BInvInvariant == BootSpec => []BInv
BY BInvInit, BInvStep, PTL DEF BootSpec

\* The firmware falls back to recovery only when no kernel that was
\* bootable at the start of the session holds a blob that verifies: the
\* composition of GptNextKernelEntry, VerifyKernel and GptUpdateKernelEntry
\* never passes over, or marks BAD, a good kernel, for every table size,
\* key set and set of images.
THEOREM RecoveryOnlyWithoutGoodKernelThm == BootSpec => []RecoveryOnlyWithoutGoodKernel
<1>1. BInv => RecoveryOnlyWithoutGoodKernel
  <2>. SUFFICES ASSUME BInv, phase = "recovery", NEW i \in Idx, Bootable(session_start, i)
                PROVE  ~Verifies(images[i], dev_mode)
    BY DEF RecoveryOnlyWithoutGoodKernel
  <2>1. i \in offered
    BY DEF BInv, RecoveryOnNoKernel, SInv, NoKernelSkipped
  <2>. QED  BY <2>1 DEF BInv, OfferedFailed
<1>. QED  BY <1>1, BInvInvariant, PTL

-----------------------------------------------------------------------------
(* Refinement of the boot loop over an atomic VerifyKernel *)

\* A header check that can answer SUCCESS answers nothing else.
LEMMA HeaderSuccessOnly ==
    ASSUME NEW b, NEW dm, "SUCCESS" \in KV!HeaderVerdicts(b, dm)
    PROVE  KV!HeaderVerdicts(b, dm) = {"SUCCESS"}
BY DEF KV!HeaderVerdicts, KV!KeyHeaderVerdicts, KV!SanityFailures, KV!PreambleVerdict

\* The chain the abstract VerifyKernel accepts is exactly what the three
\* steps of KernelVerify let through.
LEMMA AcceptsIffVerifies ==
    ASSUME NEW b \in KV!Blob, NEW dm \in {0, 1}
    PROVE  Atomic!VA!Accepts(b, dm) <=> Verifies(b, dm)
<1>1. ASSUME Atomic!VA!Accepts(b, dm) PROVE KV!HeaderVerdicts(b, dm) = {"SUCCESS"}
  <2>1. KV!SanityFailures(b) = {}
    BY <1>1 DEF Atomic!VA!Accepts, KV!SanityFailures
  <2>2. KV!KeyHeaderVerdicts(b, dm) = {"SUCCESS"}
    BY <1>1, <2>1 DEF Atomic!VA!Accepts, KV!KeyHeaderVerdicts, KV!KeySignatureChecked
  <2>. QED  BY <1>1, <2>2 DEF Atomic!VA!Accepts, KV!HeaderVerdicts, KV!PreambleVerdict
<1>2. ASSUME KV!HeaderVerdicts(b, dm) = {"SUCCESS"}
      PROVE  /\ b.magic_ok /\ b.algorithms_ok /\ b.checksum_ok
             /\ dm = 0 => b.key_signer = FirmwareKey
             /\ b.preamble_signer = b.kernel_key
  <2>1. KV!SanityFailures(b) = {}
    BY <1>2 DEF KV!HeaderVerdicts, KV!KeyHeaderVerdicts, KV!SanityFailures,
                KV!PreambleVerdict
  <2>2. KV!KeyHeaderVerdicts(b, dm) = {"SUCCESS"}
    BY <1>2, <2>1 DEF KV!HeaderVerdicts, KV!KeyHeaderVerdicts, KV!PreambleVerdict
  <2>. QED  BY <1>2, <2>1, <2>2 DEF KV!SanityFailures, KV!KeyHeaderVerdicts,
                                    KV!KeySignatureChecked, KV!HeaderVerdicts,
                                    KV!PreambleVerdict, KV!Blob
<1>. QED  BY <1>1, <1>2 DEF Atomic!VA!Accepts, Verifies

LEMMA VerdictCurrentStep ==
    BInv /\ VerdictCurrent /\ [BootNext]_bootVars => VerdictCurrent'
<1>. SUFFICES ASSUME BInv, VerdictCurrent, [BootNext]_bootVars PROVE VerdictCurrent'
  OBVIOUS
<1>1. CASE SelectKernel
  BY <1>1 DEF SelectKernel, VerdictCurrent
<1>2. CASE VerifyStep(KV!VerifyKernelHeader)
  <2>1. PICK r \in KV!HeaderVerdicts(blob, dev_mode) :
          IF r = "SUCCESS"
            THEN sign_key' = blob.kernel_key /\ stage' = "header" /\ UNCHANGED result
            ELSE sign_key' = NoKey /\ stage' = "done" /\ result' = r
    BY <1>2 DEF VerifyStep, KV!VerifyKernelHeader
  <2>2. UNCHANGED <<phase, blob, dev_mode>>
    BY <1>2 DEF VerifyStep, KV!VerifyKernelHeader
  <2>3. CASE r = "SUCCESS"
    BY <2>1, <2>2, <2>3, HeaderSuccessOnly DEF VerdictCurrent
  <2>4. CASE r # "SUCCESS"
    BY <2>1, <2>2, <2>4, HeaderFailureRejects DEF VerdictCurrent
  <2>. QED  BY <2>3, <2>4
<1>3. CASE VerifyStep(KV!VerifyKernelData)
  <2>1. /\ phase = "verify" /\ stage = "header" /\ stage' = "data"
        /\ result' = IF blob.data_signer = sign_key THEN "SUCCESS" ELSE "SIGNATURE_FAILED"
        /\ UNCHANGED <<phase, blob, dev_mode, sign_key>>
    BY <1>3 DEF VerifyStep, KV!VerifyKernelData
  <2>2. sign_key = blob.kernel_key /\ KV!HeaderVerdicts(blob, dev_mode) = {"SUCCESS"}
    BY <2>1 DEF BInv, VerifyingCurrent, VerdictCurrent
  <2>. QED  BY <2>1, <2>2 DEF VerdictCurrent, Verifies
<1>4. CASE VerifyStep(KV!FreeSigningKey)
  <2>1. /\ phase = "verify" /\ stage = "data" /\ stage' = "done"
        /\ UNCHANGED <<phase, blob, dev_mode, result>>
    BY <1>4 DEF VerifyStep, KV!FreeSigningKey
  <2>. QED  BY <2>1 DEF VerdictCurrent
<1>5. CASE MarkKernel
  BY <1>5 DEF MarkKernel, VerdictCurrent
<1>6. CASE Reboot
  BY <1>6 DEF Reboot, VerdictCurrent
<1>7. CASE UNCHANGED bootVars
  BY <1>7 DEF bootVars, kvVars, VerdictCurrent
<1>. QED  BY <1>1, <1>2, <1>3, <1>4, <1>5, <1>6, <1>7 DEF BootNext

\* The abstract loop extends GptSelect over the same constants and
\* variables: its selection operators are BootLoop's own.
LEMMA AtomicGptSame ==
    /\ Atomic!Idx = Idx
    /\ Atomic!NotFound = NotFound
    /\ Atomic!AllBits = AllBits
    /\ Atomic!InitEntry = InitEntry
    /\ \A t, d : Atomic!Candidates(t, d) = Candidates(t, d)
    /\ \A t, S : Atomic!Best(t, S) = Best(t, S)
    /\ \A en, k : Atomic!Updated(en, k) = Updated(en, k)
<1>1. Atomic!Idx = Idx /\ Atomic!NotFound = NotFound /\ Atomic!AllBits = AllBits
      /\ Atomic!InitEntry = InitEntry
  BY DEF Atomic!Idx, Idx, Atomic!NotFound, NotFound, Atomic!AllBits, AllBits,
         Atomic!InitEntry, InitEntry
<1>2. \A t, d : Atomic!Candidates(t, d) = Candidates(t, d)
  BY <1>1 DEF Atomic!Candidates, Candidates, Atomic!Bootable, Bootable
<1>3. \A t, S : Atomic!Best(t, S) = Best(t, S)
  BY DEF Atomic!Best, Best
<1>4. \A en, k : Atomic!Updated(en, k) = Updated(en, k)
  BY DEF Atomic!Updated, Updated, Atomic!AfterTry, AfterTry, Atomic!AfterBad, AfterBad
<1>. QED  BY <1>1, <1>2, <1>3, <1>4

\* ... and so are its selection steps.
LEMMA AtomicGptActions ==
    /\ Atomic!Init <=> Init
    /\ Atomic!GptNextKernelEntry <=> GptNextKernelEntry
    /\ \A k : Atomic!GptUpdateKernelEntry(k) <=> GptUpdateKernelEntry(k)
    /\ Atomic!GptInit <=> GptInit
<1>1. Atomic!Init <=> Init
  BY AtomicGptSame DEF Atomic!Init, Init
<1>2. Atomic!GptNextKernelEntry <=> GptNextKernelEntry
  BY AtomicGptSame DEF Atomic!GptNextKernelEntry, GptNextKernelEntry
<1>3. \A k : Atomic!GptUpdateKernelEntry(k) <=> GptUpdateKernelEntry(k)
  BY AtomicGptSame DEF Atomic!GptUpdateKernelEntry, GptUpdateKernelEntry,
                       Atomic!UpdateAccepted, UpdateAccepted,
                       Atomic!ModifiedAfter, ModifiedAfter
<1>4. Atomic!GptInit <=> GptInit
  BY AtomicGptSame DEF Atomic!GptInit, GptInit
<1>. QED  BY <1>1, <1>2, <1>3, <1>4

LEMMA AtomicInit == BootInit => Atomic!BootInit
BY AtomicGptSame, AtomicGptActions DEF BootInit, Atomic!BootInit, KV!Verdict

LEMMA AtomicStep ==
    BInv /\ VerdictCurrent /\ [BootNext]_bootVars => [Atomic!BootNext]_(Atomic!bootVars)
<1>. SUFFICES ASSUME BInv, VerdictCurrent, [BootNext]_bootVars
              PROVE  [Atomic!BootNext]_(Atomic!bootVars)
  OBVIOUS
<1>. USE DEF Atomic!bootVars, Atomic!gptVars
<1>1. blob \in KV!Blob /\ dev_mode \in {0, 1}
  BY DEF BInv, BootTypeOK
<1>2. CASE SelectKernel
  <2>1. Atomic!SelectKernel
    BY <1>2, AtomicGptActions DEF SelectKernel, Atomic!SelectKernel, KV!Verdict
  <2>. QED  BY <2>1 DEF Atomic!BootNext
<1>3. CASE VerifyStep(KV!VerifyKernelHeader)
  <2>1. PICK r \in KV!HeaderVerdicts(blob, dev_mode) :
          IF r = "SUCCESS"
            THEN sign_key' = blob.kernel_key /\ stage' = "header" /\ UNCHANGED result
            ELSE sign_key' = NoKey /\ stage' = "done" /\ result' = r
    BY <1>3 DEF VerifyStep, KV!VerifyKernelHeader
  <2>2. /\ phase = "verify" /\ stage = "idle"
        /\ UNCHANGED <<gptVars, images, phase, blob, dev_mode>>
    BY <1>3 DEF VerifyStep, KV!VerifyKernelHeader
  <2>3. CASE r = "SUCCESS"
    BY <2>1, <2>2, <2>3 DEF KV!Verdict, gptVars
  <2>4. CASE r # "SUCCESS"
    <3>1. ~Atomic!VA!Accepts(blob, dev_mode)
      BY <1>1, <2>4, HeaderFailureRejects, AcceptsIffVerifies
    <3>2. Atomic!VerifyKernel
      BY <2>1, <2>2, <2>4, <3>1 DEF Atomic!VerifyKernel, Atomic!VA!VerifyKernel,
                                    KV!Verdict, gptVars
    <3>. QED  BY <3>2 DEF Atomic!BootNext
  <2>. QED  BY <2>3, <2>4
<1>4. CASE VerifyStep(KV!VerifyKernelData)
  BY <1>4 DEF VerifyStep, KV!VerifyKernelData, KV!Verdict, gptVars
<1>5. CASE VerifyStep(KV!FreeSigningKey)
  <2>1. /\ phase = "verify" /\ stage = "data" /\ stage' = "done"
        /\ UNCHANGED <<gptVars, images, phase, blob, dev_mode, result>>
    BY <1>5 DEF VerifyStep, KV!FreeSigningKey
  <2>2. result = "SUCCESS" <=> Atomic!VA!Accepts(blob, dev_mode)
    BY <1>1, <2>1, AcceptsIffVerifies DEF VerdictCurrent
  <2>3. Atomic!VerifyKernel
    BY <2>1, <2>2 DEF Atomic!VerifyKernel, Atomic!VA!VerifyKernel, KV!Verdict, gptVars
  <2>. QED  BY <2>3 DEF Atomic!BootNext
<1>6. CASE MarkKernel
  <2>1. Atomic!MarkKernel
    BY <1>6, AtomicGptActions DEF MarkKernel, Atomic!MarkKernel, KV!Verdict, kvVars
  <2>. QED  BY <2>1 DEF Atomic!BootNext
<1>7. CASE Reboot
  <2>1. Atomic!Reboot
    BY <1>7, AtomicGptActions DEF Reboot, Atomic!Reboot, KV!Verdict, kvVars
  <2>. QED  BY <2>1 DEF Atomic!BootNext
<1>8. CASE UNCHANGED bootVars
  BY <1>8 DEF bootVars, gptVars, kvVars, KV!Verdict
<1>. QED  BY <1>2, <1>3, <1>4, <1>5, <1>6, <1>7, <1>8 DEF BootNext

\* The boot loop, whose VerifyKernel is the header, data and free steps of
\* KernelVerify, implements the loop over the one-step chained verify, for
\* every table size, key set and set of images: the firmware boots a kernel
\* only after a call that accepts its whole chain, marks BAD only a kernel
\* whose chain fails, and the steps of a call in progress change nothing
\* the loop acts on.
THEOREM ImplementsAtomicVerifyThm == BootSpec => ImplementsAtomicVerify
<1>1. BootInit => BInv /\ VerdictCurrent
  BY BInvInit DEF BootInit, VerdictCurrent
<1>2. BInv /\ VerdictCurrent /\ [BootNext]_bootVars => (BInv /\ VerdictCurrent)'
  BY BInvStep, VerdictCurrentStep
<1>3. BootSpec => [](BInv /\ VerdictCurrent)
  BY <1>1, <1>2, PTL DEF BootSpec
<1>4. [](BInv /\ VerdictCurrent) /\ [][BootNext]_bootVars
        => [][Atomic!BootNext]_(Atomic!bootVars)
  BY AtomicStep, PTL
<1>. QED  BY <1>3, <1>4, AtomicInit, PTL DEF BootSpec, ImplementsAtomicVerify,
                                             Atomic!BootSpec
=============================================================================
