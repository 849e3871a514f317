------------------------- MODULE KernelVersionProofs -------------------------
(***************************************************************************)
(* Proofs about GetLogicalKernelVersion for every set of uint16_t version *)
(* values: the packed value fits in the uint32_t the function returns, and *)
(* comparing packed values compares the pairs lexicographically.           *)
(***************************************************************************)
EXTENDS KernelVersion, TLAPS

\* A uint16_t field, stated as a bounded natural (the form the SMT
\* backend takes for the products below).
U16(x) == x \in Nat /\ x <= 65535

\* The packing of two uint16_t fields never needs more than 32 bits: the
\* shift by 16 in GetLogicalKernelVersion does not overflow.
LEMMA LogicalFitsUint32 ==
    ASSUME NEW kv, NEW v, U16(kv), U16(v)
    PROVE  /\ GetLogicalKernelVersion(kv, v) \in Nat
           /\ GetLogicalKernelVersion(kv, v) < 4294967296
BY SMT DEF GetLogicalKernelVersion, U16

\* For any two pairs of uint16_t fields, the packed order is the
\* lexicographic order, key version first.
LEMMA LogicalOrderLex ==
    ASSUME NEW kv1, NEW v1, NEW kv2, NEW v2,
           U16(kv1), U16(v1), U16(kv2), U16(v2)
    PROVE  (GetLogicalKernelVersion(kv1, v1) < GetLogicalKernelVersion(kv2, v2)) <=>
               \/ kv1 < kv2
               \/ kv1 = kv2 /\ v1 < v2
BY SMT DEF GetLogicalKernelVersion, U16

\* The version fields of every state are uint16_t values.
THEOREM VersionTypeCorrect == Spec => []TypeOK
<1>1. Init => TypeOK
  BY DEF Init, TypeOK
<1>2. TypeOK /\ [Next]_vars => TypeOK'
  BY DEF TypeOK, Next, ReadBlob, Keep, vars
<1>. QED  BY <1>1, <1>2, PTL DEF Spec

\* Whatever blobs the firmware compares, comparing their logical kernel
\* versions is comparing key version, then kernel version, for every set of
\* uint16_t values and not only the ones the runs enumerate.
THEOREM LogicalVersionLexicographicThm ==
    ASSUME VersionsAreUint16
    PROVE  Spec => []LogicalVersionLexicographic
<1>1. TypeOK => LogicalVersionLexicographic
  <2>. SUFFICES ASSUME TypeOK PROVE LogicalVersionLexicographic
    OBVIOUS
  <2>1. \A p \in Pair : U16(p.kernel_key_version) /\ U16(p.kernel_version)
    <3>1. \A x \in Versions : U16(x)
      <4>. TAKE x \in Versions
      <4>1. x \in Uint16
        BY DEF VersionsAreUint16
      <4>. QED  BY <4>1 DEF U16, Uint16
    <3>. QED  BY <3>1 DEF Pair
  <2>2. candidate \in Pair /\ stored \in Pair
    BY DEF TypeOK
  <2>. QED
    BY <2>1, <2>2, LogicalOrderLex DEF LogicalVersionLexicographic, Logical
<1>. QED  BY <1>1, VersionTypeCorrect, PTL
=============================================================================
