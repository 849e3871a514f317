---------------------------- MODULE KernelVersion ----------------------------
(***************************************************************************)
(* GetLogicalKernelVersion of kernel_image_fw.h, as the firmware uses it  *)
(* to compare the blob it reads with another one: the state is the two    *)
(* (kernel_key_version, kernel_version) pairs, each read afresh.          *)
(***************************************************************************)
EXTENDS Naturals

CONSTANT Versions   \* uint16_t values the version fields take

\* The values of a uint16_t.
Uint16 == 0 .. 65535

\* The version fields are uint16_t: the hypothesis of the theorems in
\* KernelVersionProofs.
VersionsAreUint16 == Versions \subseteq Uint16

VARIABLES
    stored,     \* the versions of the blob compared against
    candidate   \* the versions of the blob just read

vars == <<stored, candidate>>

Pair == [kernel_key_version : Versions, kernel_version : Versions]

\* Mutant: the key version shifted by 8 bits instead of 16.
GetLogicalKernelVersionShift8(kv, v) == kv * 256 + v

\* GetLogicalKernelVersion: (kernel_key_version << 16 | kernel_version) in a
\* uint32_t; both fields are uint16_t, so the shifted key version and the
\* kernel version occupy disjoint bits.
GetLogicalKernelVersion(kv, v) == kv * 65536 + v

Logical(p) == GetLogicalKernelVersion(p.kernel_key_version, p.kernel_version)

TypeOK == stored \in Pair /\ candidate \in Pair

Init == stored \in Pair /\ candidate \in Pair

\* Another blob is read.
ReadBlob == candidate' \in Pair /\ UNCHANGED stored

\* The blob read becomes the one compared against.
Keep == stored' = candidate /\ UNCHANGED candidate

Next == ReadBlob \/ Keep

Spec == Init /\ [][Next]_vars

\* The logical version orders kernels by kernel_key_version, then by
\* kernel_version, so a rollback check that compares logical versions
\* compares the key version first (GetLogicalKernelVersion's comment).
LogicalVersionLexicographic ==
    (Logical(candidate) < Logical(stored)) <=>
        \/ candidate.kernel_key_version < stored.kernel_key_version
        \/ /\ candidate.kernel_key_version = stored.kernel_key_version
           /\ candidate.kernel_version < stored.kernel_version
=============================================================================
