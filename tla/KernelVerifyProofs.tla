------------------------- MODULE KernelVerifyProofs -------------------------
(***************************************************************************)
(* Proofs that the VerifyKernel chain is sound and frees its signing key,  *)
(* for every set of keys and every blob.  The invariant the runs check is *)
(* not inductive as it stands: a state in the middle of a call must say    *)
(* what the finished header check established, so the strengthening VInv  *)
(* records that the key handed back is the blob's kernel key and that the  *)
(* header verified, and that a SUCCESS result was earned by the data check. *)
(***************************************************************************)
EXTENDS KernelVerify, TLAPS

\* The header of the blob passed every check under the developer mode.
HeaderPassed == "SUCCESS" \in HeaderVerdicts(blob, dev_mode)

VInv ==
    /\ TypeOK
    /\ NoKeyLeak
    /\ stage \in {"header", "data"} => sign_key = blob.kernel_key /\ HeaderPassed
    /\ stage = "idle" => result = "NONE"
    /\ stage \in {"data", "done"} /\ result = "SUCCESS" =>
          blob.data_signer = blob.kernel_key /\ HeaderPassed

\* What a header that verifies says of the blob: VerifyKernelHeader only
\* answers SUCCESS when the sanity checks pass, the key signature checks
\* where it is checked, and the preamble is signed by the kernel key.
LEMMA HeaderSuccess ==
    ASSUME NEW b \in Blob, NEW dm \in {0, 1},
           "SUCCESS" \in HeaderVerdicts(b, dm)
    PROVE  /\ dm = 0 => b.key_signer = FirmwareKey
           /\ b.preamble_signer = b.kernel_key
           /\ b.magic_ok /\ b.algorithms_ok /\ b.checksum_ok
<1>1. SanityFailures(b) = {}
  BY DEF HeaderVerdicts, KeyHeaderVerdicts, SanityFailures, PreambleVerdict
<1>2. b.magic_ok /\ b.algorithms_ok /\ b.checksum_ok
  BY <1>1 DEF SanityFailures, Blob
<1>3. KeyHeaderVerdicts(b, dm) = {"SUCCESS"}
  BY <1>1 DEF HeaderVerdicts, KeyHeaderVerdicts, PreambleVerdict
<1>4. dm = 0 => b.key_signer = FirmwareKey
  BY <1>1, <1>3 DEF KeyHeaderVerdicts, KeySignatureChecked
<1>5. b.preamble_signer = b.kernel_key
  BY <1>3 DEF HeaderVerdicts, PreambleVerdict
<1>. QED  BY <1>2, <1>4, <1>5

LEMMA VInvInit == Init => VInv
BY DEF Init, VInv, TypeOK, NoKeyLeak

LEMMA VInvStep == VInv /\ [Next]_vars => VInv'
<1>. SUFFICES ASSUME VInv, [Next]_vars PROVE VInv'
  OBVIOUS
<1>1. CASE VerifyKernelHeader
  <2>1. PICK r \in HeaderVerdicts(blob, dev_mode) :
          IF r = "SUCCESS"
            THEN sign_key' = blob.kernel_key /\ stage' = "header" /\ UNCHANGED result
            ELSE sign_key' = NoKey /\ stage' = "done" /\ result' = r
    BY <1>1 DEF VerifyKernelHeader
  <2>2. r \in Codes
    BY DEF HeaderVerdicts, KeyHeaderVerdicts, SanityFailures, PreambleVerdict, Codes
  <2>3. CASE r = "SUCCESS"
    BY <1>1, <2>1, <2>3 DEF VerifyKernelHeader, VInv, TypeOK, NoKeyLeak,
                            HeaderPassed, Blob
  <2>4. CASE r # "SUCCESS"
    BY <1>1, <2>1, <2>2, <2>4 DEF VerifyKernelHeader, VInv, TypeOK, NoKeyLeak,
                                  HeaderPassed
  <2>. QED  BY <2>3, <2>4
<1>2. CASE VerifyKernelData
  BY <1>2 DEF VerifyKernelData, VInv, TypeOK, NoKeyLeak, HeaderPassed, Codes
<1>3. CASE FreeSigningKey
  BY <1>3 DEF FreeSigningKey, VInv, TypeOK, NoKeyLeak, HeaderPassed
<1>4. CASE NewCall
  BY <1>4 DEF NewCall, VInv, TypeOK, NoKeyLeak, Codes
<1>5. CASE UNCHANGED vars
  BY <1>5 DEF vars, VInv, TypeOK, NoKeyLeak, HeaderPassed
<1>. QED  BY <1>1, <1>2, <1>3, <1>4, <1>5 DEF Next

\* VerifyKernel accepts only a blob whose preamble and data the kernel key
\* signed, whose sanity checks pass and, outside developer mode, whose
\* kernel key the firmware key signed: for every key set and every blob.
THEOREM ChainSoundThm == Spec => []ChainSound
<1>1. VInv => ChainSound
  <2>. SUFFICES ASSUME VInv, stage = "done", result = "SUCCESS"
                PROVE  /\ dev_mode = 0 => blob.key_signer = FirmwareKey
                       /\ blob.preamble_signer = blob.kernel_key
                       /\ blob.data_signer = blob.kernel_key
                       /\ blob.magic_ok /\ blob.algorithms_ok /\ blob.checksum_ok
    BY DEF ChainSound
  <2>1. blob \in Blob /\ dev_mode \in {0, 1}
    BY DEF VInv, TypeOK
  <2>2. blob.data_signer = blob.kernel_key /\ HeaderPassed
    BY DEF VInv
  <2>. QED  BY <2>1, <2>2, HeaderSuccess DEF HeaderPassed
<1>. QED  BY <1>1, VInvInit, VInvStep, PTL DEF Spec

-----------------------------------------------------------------------------
(* Refinement of the chained verify *)

\* A blob whose chain holds passes every header check: VerifyKernelHeader
\* answers SUCCESS and nothing else.
LEMMA AcceptsHeader ==
    ASSUME NEW b \in Blob, NEW dm \in {0, 1}, Abstract!Accepts(b, dm)
    PROVE  HeaderVerdicts(b, dm) = {"SUCCESS"}
<1>1. SanityFailures(b) = {}
  BY DEF Abstract!Accepts, SanityFailures
<1>2. KeyHeaderVerdicts(b, dm) = {"SUCCESS"}
  BY <1>1 DEF Abstract!Accepts, KeyHeaderVerdicts, KeySignatureChecked
<1>. QED  BY <1>2 DEF Abstract!Accepts, HeaderVerdicts, PreambleVerdict

\* The data check's answer, recorded until the key is freed.
DataVerdict ==
    stage = "data" /\ result # "SUCCESS" => blob.data_signer # blob.kernel_key

RInv == VInv /\ DataVerdict

LEMMA RInvStep == RInv /\ [Next]_vars => RInv'
<1>. SUFFICES ASSUME RInv, [Next]_vars PROVE RInv'
  OBVIOUS
<1>1. VInv'
  BY VInvStep DEF RInv
<1>2. DataVerdict'
  <2>1. CASE VerifyKernelData
    BY <2>1 DEF RInv, VInv, VerifyKernelData, DataVerdict
  <2>2. CASE ~VerifyKernelData
    BY <2>2 DEF RInv, Next, vars, DataVerdict, VerifyKernelHeader, FreeSigningKey,
                NewCall
  <2>. QED  BY <2>1, <2>2
<1>. QED  BY <1>1, <1>2 DEF RInv

\* A finished call answered SUCCESS exactly when the chain holds.
LEMMA DoneVerdict ==
    ASSUME RInv, stage = "data"
    PROVE  result = "SUCCESS" <=> Abstract!Accepts(blob, dev_mode)
<1>1. blob \in Blob /\ dev_mode \in {0, 1}
  BY DEF RInv, VInv, TypeOK
<1>2. ASSUME result = "SUCCESS" PROVE Abstract!Accepts(blob, dev_mode)
  <2>1. blob.data_signer = blob.kernel_key /\ HeaderPassed
    BY <1>2 DEF RInv, VInv
  <2>. QED  BY <1>1, <2>1, HeaderSuccess DEF HeaderPassed, Abstract!Accepts
<1>3. ASSUME result # "SUCCESS" PROVE ~Abstract!Accepts(blob, dev_mode)
  BY <1>3 DEF RInv, DataVerdict, Abstract!Accepts
<1>. QED  BY <1>2, <1>3

LEMMA RefinementStep == RInv /\ [Next]_vars => [Abstract!Next]_(Abstract!vars)
<1>. SUFFICES ASSUME RInv, [Next]_vars PROVE [Abstract!Next]_(Abstract!vars)
  OBVIOUS
<1>. USE DEF Abstract!vars
<1>1. blob \in Blob /\ dev_mode \in {0, 1}
  BY DEF RInv, VInv, TypeOK
<1>2. CASE VerifyKernelHeader
  <2>1. PICK r \in HeaderVerdicts(blob, dev_mode) :
          IF r = "SUCCESS"
            THEN sign_key' = blob.kernel_key /\ stage' = "header" /\ UNCHANGED result
            ELSE sign_key' = NoKey /\ stage' = "done" /\ result' = r
    BY <1>2 DEF VerifyKernelHeader
  <2>2. CASE r = "SUCCESS"
    BY <1>2, <2>1, <2>2 DEF VerifyKernelHeader, Verdict
  <2>3. CASE r # "SUCCESS"
    <3>1. ~Abstract!Accepts(blob, dev_mode)
      BY <1>1, <2>1, <2>3, AcceptsHeader
    <3>. QED  BY <1>2, <2>1, <2>3, <3>1
              DEF VerifyKernelHeader, Verdict, Abstract!Next, Abstract!VerifyKernel
  <2>. QED  BY <2>2, <2>3
<1>3. CASE VerifyKernelData
  BY <1>3 DEF VerifyKernelData, Verdict
<1>4. CASE FreeSigningKey
  <2>1. result = "SUCCESS" <=> Abstract!Accepts(blob, dev_mode)
    BY <1>4, DoneVerdict DEF FreeSigningKey
  <2>. QED  BY <1>4, <2>1 DEF FreeSigningKey, Verdict, Abstract!Next, Abstract!VerifyKernel
<1>5. CASE NewCall
  BY <1>5 DEF NewCall, Verdict, Abstract!Next, Abstract!NewCall
<1>6. CASE UNCHANGED vars
  BY <1>6 DEF vars, Verdict
<1>. QED  BY <1>2, <1>3, <1>4, <1>5, <1>6 DEF Next

\* VerifyKernel, as the sequence of its three steps, implements the
\* one-step chained verify of its comment, for every key set and every
\* blob: each call answers success exactly on a blob whose chain holds.
THEOREM ImplementsVerifyKernelThm == Spec => ImplementsVerifyKernel
<1>1. Init => RInv
  BY VInvInit DEF Init, RInv, DataVerdict
<1>2. Init => Abstract!Init
  BY DEF Init, Abstract!Init, Verdict
<1>3. []RInv /\ [][Next]_vars => [][Abstract!Next]_(Abstract!vars)
  BY RefinementStep, PTL
<1>4. Spec => []RInv
  BY <1>1, RInvStep, PTL DEF Spec
<1>. QED  BY <1>2, <1>3, <1>4 DEF Spec, ImplementsVerifyKernel, Abstract!Spec
=============================================================================
