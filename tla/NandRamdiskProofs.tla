-------------------------- MODULE NandRamdiskProofs --------------------------
(***************************************************************************)
(* Proofs about the NAND ramdisk (NandRamdisk) for every offset width,    *)
(* counter width and drive geometry NandAssumption allows.                 *)
(*                                                                         *)
(*  - TypeOK holds in every state, whatever the arguments, the wrapping    *)
(*    wear counter included.                                               *)
(*  - NoProgramWithoutErase holds whatever the arguments: a byte is only   *)
(*    programmed after nand_write_page's loop has seen it erased, even     *)
(*    when the offset arithmetic wraps.                                    *)
(*  - AccessAsRequested holds for a client whose arguments keep the       *)
(*    uint32_t offset arithmetic from wrapping (ArgsInRange).  The runs   *)
(*    nand_offset_wrap and nand_ramdisk show both sides: with a page that  *)
(*    wraps it fails, without one it holds; the theorem says that the      *)
(*    wrap is the only way it can fail.  Its inductive form adds nothing  *)
(*    to TypeOK: the fault flag and the last call are all it speaks of.   *)
(***************************************************************************)
EXTENDS NandRamdisk, WellFoundedInduction, TLAPS

-----------------------------------------------------------------------------
(* Lemmas about the operators of the model *)

\* A non-empty set of naturals has a least element: nand_write_page's loop
\* stops at the first index it rejects.
LEMMA NatMinExists ==
    ASSUME NEW S \in SUBSET Nat, S # {}
    PROVE  \E i \in S : \A j \in S : i <= j
<1>1. IsWellFoundedOn(OpToRel(<, Nat), Nat)
  BY NatLessThanWellFounded
<1>2. PICK m \in S : \A y \in S : ~(<<y, m>> \in OpToRel(<, Nat))
  BY <1>1, WFMin
<1>3. \A y \in S : m <= y
  <2>. SUFFICES ASSUME NEW y \in S, y < m PROVE FALSE
    OBVIOUS
  <2>1. <<y, m>> \in OpToRel(<, Nat)
    BY DEF OpToRel
  <2>. QED  BY <1>2, <2>1
<1>. QED  BY <1>3

\* The arithmetic moduli: the drive fits in the offset width and the wear
\* counter holds the values the tests store.
LEMMA WidthFacts ==
    /\ Mod \in Nat /\ DriveSz < Mod
    /\ CounterMod \in Nat /\ 2 < CounterMod
BY NandAssumption DEF Mod, CounterMod

\* A conversion to uint32_t lands in 0 .. 2^Width - 1 and keeps a value
\* already there.
LEMMA URange ==
    ASSUME NEW x \in Int
    PROVE  /\ U(x) \in 0 .. Mod - 1
           /\ 0 <= x /\ x < Mod => U(x) = x
BY WidthFacts, NandAssumption DEF U

\* An offset inside the drive is a uint32_t value.
LEMMA InDriveBelowMod ==
    ASSUME NEW x \in Int, x < DriveSz
    PROVE  x < Mod
BY WidthFacts, NandAssumption

\* The offset and size of a page access by a client that keeps clear of the
\* wrap are the ones requested, and the range check then means what it says.
LEMMA PageOffset ==
    ASSUME ArgsInRange, NEW p \in PageIn, NEW s \in SizeIn
    PROVE  /\ U(p * SzOfPg) = p * SzOfPg
           /\ U(s) = s
           /\ 0 <= p * SzOfPg /\ 0 < s
           /\ ~OutOfRange(U(p * SzOfPg), U(s)) => p * SzOfPg + s <= DriveSz
<1>1. p \in Int /\ s \in Int /\ SzOfPg \in Nat \ {0}
  BY NandAssumption
<1>2. 0 <= p /\ 0 < s /\ p * SzOfPg + s < Mod
  BY DEF ArgsInRange
<1>3. 0 <= p * SzOfPg
  BY <1>1, <1>2
<1>4. /\ p * SzOfPg \in Int /\ p * SzOfPg < Mod
      /\ s < Mod
      /\ p * SzOfPg + s \in Int /\ 0 <= p * SzOfPg + s
  BY <1>1, <1>2, <1>3, WidthFacts
<1>5. U(p * SzOfPg) = p * SzOfPg
  BY <1>3, <1>4, URange
<1>6. U(s) = s
  BY <1>1, <1>2, <1>4, URange
<1>7. U(p * SzOfPg + s) = p * SzOfPg + s
  BY <1>2, <1>4, URange
<1>. QED  BY <1>2, <1>3, <1>5, <1>6, <1>7, <1>4, NandAssumption DEF OutOfRange

\* The same for a block: its offset is the one requested, it has a map
\* entry, and an erase that passes the range check stays inside the drive.
LEMMA BlockOffset ==
    ASSUME ArgsInRange, NEW b \in BlockIn
    PROVE  /\ b \in Map
           /\ U(b * SzOfBlk) = b * SzOfBlk
           /\ ~OutOfRange(U(b * SzOfBlk), SzOfBlk) => Within(U(b * SzOfBlk), SzOfBlk)
<1>1. b \in Map /\ b * SzOfBlk + SzOfBlk < Mod
  BY DEF ArgsInRange
<1>2. b \in Nat /\ SzOfBlk \in Nat \ {0}
  BY <1>1, NandAssumption DEF Map
<1>3. 0 <= b * SzOfBlk
  BY <1>2
<1>4. /\ b * SzOfBlk \in Int /\ b * SzOfBlk < Mod
      /\ b * SzOfBlk + SzOfBlk \in Int /\ 0 <= b * SzOfBlk + SzOfBlk
  BY <1>1, <1>2, <1>3, WidthFacts
<1>5. U(b * SzOfBlk) = b * SzOfBlk
  BY <1>3, <1>4, URange
<1>6. U(b * SzOfBlk + SzOfBlk) = b * SzOfBlk + SzOfBlk
  BY <1>1, <1>4, URange
<1>. QED  BY <1>1, <1>4, <1>5, <1>6, NandAssumption DEF OutOfRange, Within

\* nand_write_page with the LET of the code named: the offset, the size,
\* the indices at which the 0xFF loop stops, and the first of them.
WOfs(page) == U(page * SzOfPg)
WSz(size) == U(size)
WStops(page, size) == {i \in 0 .. WSz(size) - 1 : Stops(WOfs(page), i)}
WFirst(page, size) ==
    CHOOSE i \in WStops(page, size) : \A j \in WStops(page, size) : i <= j

WriteStep(p, s, v) ==
    \/ /\ OutOfRange(WOfs(p), WSz(s))
       /\ Record("write", p, s, -1)
       /\ UNCHANGED <<drive, wear, fault>>
    \/ /\ ~OutOfRange(WOfs(p), WSz(s))
       /\ WStops(p, s) # {}
       /\ IF LoopIdx(WOfs(p), WFirst(p, s)) \in Bytes
            THEN UNCHANGED fault
            ELSE fault' = TRUE
       /\ Record("write", p, s, -1)
       /\ UNCHANGED <<drive, wear>>
    \/ /\ ~OutOfRange(WOfs(p), WSz(s))
       /\ WStops(p, s) = {}
       /\ IF Within(WOfs(p), WSz(s))
            THEN /\ drive' = [b \in Bytes |->
                                IF WOfs(p) <= b /\ b < WOfs(p) + WSz(s)
                                  THEN v ELSE drive[b]]
                 /\ UNCHANGED fault
            ELSE /\ fault' = TRUE
                 /\ UNCHANGED drive
       /\ Record("write", p, s, 0)
       /\ UNCHANGED wear

LEMMA WriteCases ==
    ASSUME NEW p, NEW s, NEW v, NandWritePage(p, s, v)
    PROVE  WriteStep(p, s, v)
BY DEF NandWritePage, WriteStep, WOfs, WSz, WStops, WFirst

-----------------------------------------------------------------------------
(* The type invariant *)

\* The four parts of TypeOK, each shown for the step on its own.
LEMMA TypeParts ==
    ASSUME drive' \in [Bytes -> Data \cup {Erased}],
           wear' \in [Map -> 0 .. CounterMod - 1],
           last' \in [op : Ops, arg : Int, size : Int, ret : {-1, 0, 1}],
           fault' \in BOOLEAN
    PROVE  TypeOK'
BY DEF TypeOK

\* Record writes a well-typed description of the call.
LEMMA RecordType ==
    ASSUME NEW op \in Ops, NEW a \in Int, NEW sz \in Int, NEW r \in {-1, 0, 1},
           Record(op, a, sz, r)
    PROVE  last' \in [op : Ops, arg : Int, size : Int, ret : {-1, 0, 1}]
BY DEF Record

LEMMA TypeStep == TypeOK /\ [Next]_vars => TypeOK'
<1>. SUFFICES ASSUME TypeOK, [Next]_vars PROVE TypeOK'
  OBVIOUS
<1>1. PageIn \subseteq Int /\ BlockIn \subseteq Int /\ SizeIn \subseteq Int
  BY NandAssumption
<1>2. CASE \E p \in PageIn, s \in SizeIn : NandReadPage(p, s)
  <2>. PICK p \in PageIn, s \in SizeIn : NandReadPage(p, s)
    BY <1>2
  <2>1. UNCHANGED <<drive, wear>> /\ fault' \in BOOLEAN
    BY DEF NandReadPage, TypeOK
  <2>2. \E r \in {-1, 0, 1} : Record("read", p, s, r)
    BY DEF NandReadPage
  <2>3. last' \in [op : Ops, arg : Int, size : Int, ret : {-1, 0, 1}]
    BY <1>1, <2>2, RecordType DEF Ops
  <2>. QED  BY <2>1, <2>3, TypeParts DEF TypeOK
<1>3. CASE \E p \in PageIn, s \in SizeIn, v \in Data : NandWritePage(p, s, v)
  <2>. PICK p \in PageIn, s \in SizeIn, v \in Data : NandWritePage(p, s, v)
    BY <1>3
  <2>1. drive' \in [Bytes -> Data \cup {Erased}]
    <3>1. CASE UNCHANGED drive
      BY <3>1 DEF TypeOK
    <3>2. CASE drive' = [b \in Bytes |-> IF WOfs(p) <= b /\ b < WOfs(p) + WSz(s)
                                           THEN v ELSE drive[b]]
      BY <3>2 DEF TypeOK
    <3>3. WriteStep(p, s, v)
      BY WriteCases
    <3>. QED  BY <3>1, <3>2, <3>3 DEF WriteStep
  <2>2. UNCHANGED wear /\ fault' \in BOOLEAN
    BY WriteCases DEF TypeOK, WriteStep
  <2>3. \E r \in {-1, 0, 1} : Record("write", p, s, r)
    BY WriteCases DEF WriteStep
  <2>4. last' \in [op : Ops, arg : Int, size : Int, ret : {-1, 0, 1}]
    BY <1>1, <2>3, RecordType DEF Ops
  <2>. QED  BY <2>1, <2>2, <2>4, TypeParts DEF TypeOK
<1>4. CASE \E b \in BlockIn : NandEraseBlock(b)
  <2>. PICK b \in BlockIn : NandEraseBlock(b)
    BY <1>4
  <2>1. b \in Map => Decrement(wear[b]) \in 0 .. CounterMod - 1
    BY WidthFacts DEF TypeOK, Decrement
  <2>2. drive' \in [Bytes -> Data \cup {Erased}]
    BY DEF NandEraseBlock, TypeOK
  <2>3. wear' \in [Map -> 0 .. CounterMod - 1]
    BY <2>1 DEF NandEraseBlock, TypeOK
  <2>4. fault' \in BOOLEAN
    BY DEF NandEraseBlock, TypeOK
  <2>5. \E r \in {-1, 0, 1} : Record("erase", b, SzOfBlk, r)
    BY DEF NandEraseBlock
  <2>6. last' \in [op : Ops, arg : Int, size : Int, ret : {-1, 0, 1}]
    BY <1>1, <2>5, NandAssumption, RecordType DEF Ops
  <2>. QED  BY <2>2, <2>3, <2>4, <2>6, TypeParts
<1>5. CASE \E b \in BlockIn : NandIsBadBlock(b)
  <2>. PICK b \in BlockIn : NandIsBadBlock(b)
    BY <1>5
  <2>1. UNCHANGED <<drive, wear>> /\ fault' \in BOOLEAN
    BY DEF NandIsBadBlock, TypeOK
  <2>2. \E r \in {-1, 0, 1} : Record("isbad", b, 0, r)
    BY DEF NandIsBadBlock
  <2>3. last' \in [op : Ops, arg : Int, size : Int, ret : {-1, 0, 1}]
    BY <1>1, <2>2, RecordType DEF Ops
  <2>. QED  BY <2>1, <2>3, TypeParts DEF TypeOK
<1>6. CASE NandMakeRamdisk \/ ExhaustCycles
  <2>1. drive' \in [Bytes -> Data \cup {Erased}]
    BY <1>6 DEF NandMakeRamdisk, ExhaustCycles, TypeOK
  <2>2. wear' \in [Map -> 0 .. CounterMod - 1]
    BY <1>6, WidthFacts DEF NandMakeRamdisk, ExhaustCycles
  <2>3. last' \in [op : Ops, arg : Int, size : Int, ret : {-1, 0, 1}]
    BY <1>6, RecordType DEF NandMakeRamdisk, ExhaustCycles, Ops
  <2>4. fault' \in BOOLEAN
    BY <1>6 DEF NandMakeRamdisk, ExhaustCycles, TypeOK
  <2>. QED  BY <2>1, <2>2, <2>3, <2>4, TypeParts
<1>7. CASE UNCHANGED vars
  BY <1>7 DEF vars, TypeOK
<1>. QED  BY <1>2, <1>3, <1>4, <1>5, <1>6, <1>7 DEF Next

\* Every state of the ramdisk is well typed, the wear counter after its
\* uint8_t wrap included, for every argument a client passes.
THEOREM NandTypeCorrect == Spec => []TypeOK
<1>1. Init => TypeOK
  <2>. SUFFICES ASSUME Init PROVE TypeOK
    OBVIOUS
  <2>1. drive \in [Bytes -> Data \cup {Erased}]
    BY DEF Init
  <2>2. wear \in [Map -> 0 .. CounterMod - 1]
    BY WidthFacts DEF Init
  <2>3. last \in [op : Ops, arg : Int, size : Int, ret : {-1, 0, 1}]
    BY DEF Init, Ops
  <2>4. fault \in BOOLEAN
    BY DEF Init
  <2>. QED  BY <2>1, <2>2, <2>3, <2>4 DEF TypeOK
<1>. QED  BY <1>1, TypeStep, PTL DEF Spec

-----------------------------------------------------------------------------
(* Programming only erased bytes *)

\* The step relation of NoProgramWithoutErase.
ProgramsErased ==
    \A b \in Bytes : drive'[b] # drive[b] => drive[b] = Erased \/ drive'[b] = Erased

\* A byte nand_write_page programs was erased: the 0xFF loop has read it.
\* The loop reads through the same uint32_t offset the copy writes at, so
\* this holds even when page * szofpg wraps.
LEMMA WriteProgramsErased ==
    ASSUME TypeOK, NEW p \in PageIn, NEW s \in SizeIn, NEW v \in Data,
           NandWritePage(p, s, v)
    PROVE  ProgramsErased
<1>1. WriteStep(p, s, v)
  BY WriteCases
<1>2. CASE UNCHANGED drive
  BY <1>2 DEF ProgramsErased
<1>3. CASE /\ WStops(p, s) = {}
           /\ drive' = [b \in Bytes |-> IF WOfs(p) <= b /\ b < WOfs(p) + WSz(s)
                                          THEN v ELSE drive[b]]
  <2>. SUFFICES ASSUME NEW b \in Bytes, drive'[b] # drive[b]
                PROVE  drive[b] = Erased
    BY DEF ProgramsErased
  <2>1. WOfs(p) <= b /\ b < WOfs(p) + WSz(s)
    BY <1>3
  <2>2. WOfs(p) \in 0 .. Mod - 1 /\ WSz(s) \in 0 .. Mod - 1
    BY URange, NandAssumption DEF WOfs, WSz
  <2>3. b \in Nat /\ b < Mod
    BY WidthFacts, NandAssumption DEF Bytes
  <2>. DEFINE i == b - WOfs(p)
  <2>4. i \in 0 .. WSz(s) - 1 /\ WOfs(p) + i = b
    BY <2>1, <2>2, <2>3
  <2>5. LoopIdx(WOfs(p), i) = b
    BY <2>3, <2>4, URange DEF LoopIdx
  <2>6. ~Stops(WOfs(p), i)
    BY <1>3, <2>4 DEF WStops
  <2>. QED  BY <2>5, <2>6 DEF Stops
<1>. QED  BY <1>1, <1>2, <1>3 DEF WriteStep

\* nand_erase_block sets a whole block to 0xFF or leaves the drive alone.
LEMMA EraseProgramsErased ==
    ASSUME NEW blk, NandEraseBlock(blk)
    PROVE  ProgramsErased
BY DEF NandEraseBlock, ProgramsErased

LEMMA ProgramStep == TypeOK /\ [Next]_vars => [ProgramsErased]_vars
<1>. SUFFICES ASSUME TypeOK, [Next]_vars PROVE [ProgramsErased]_vars
  OBVIOUS
<1>1. CASE \E p \in PageIn, s \in SizeIn, v \in Data : NandWritePage(p, s, v)
  BY <1>1, WriteProgramsErased
<1>2. CASE \E b \in BlockIn : NandEraseBlock(b)
  BY <1>2, EraseProgramsErased
<1>3. CASE \/ \E p \in PageIn, s \in SizeIn : NandReadPage(p, s)
           \/ \E b \in BlockIn : NandIsBadBlock(b)
           \/ ExhaustCycles
  BY <1>3 DEF NandReadPage, NandIsBadBlock, ExhaustCycles, ProgramsErased
<1>4. CASE NandMakeRamdisk
  BY <1>4 DEF NandMakeRamdisk, ProgramsErased
<1>5. CASE UNCHANGED vars
  BY <1>5 DEF vars
<1>. QED  BY <1>1, <1>2, <1>3, <1>4, <1>5 DEF Next

\* NAND programming only turns erased bytes into data: nand_write_page's
\* 0xFF loop refuses a page with a programmed byte, for every argument,
\* offset width and drive geometry, the wrapping offsets included.
THEOREM NoProgramWithoutEraseThm == Spec => NoProgramWithoutErase
<1>1. Spec => [][ProgramsErased]_vars
  BY NandTypeCorrect, ProgramStep, PTL DEF Spec
<1>. QED  BY <1>1 DEF NoProgramWithoutErase, ProgramsErased

-----------------------------------------------------------------------------
(* Accesses as requested, for a client that keeps clear of the wrap *)

LEMMA ReadAccess ==
    ASSUME ArgsInRange, ~fault, NEW p \in PageIn, NEW s \in SizeIn, NandReadPage(p, s)
    PROVE  AccessAsRequested'
<1>1. /\ U(p * SzOfPg) = p * SzOfPg /\ U(s) = s
      /\ 0 <= p * SzOfPg /\ 0 < s
      /\ ~OutOfRange(U(p * SzOfPg), U(s)) => p * SzOfPg + s <= DriveSz
  BY PageOffset
<1>2. CASE OutOfRange(U(p * SzOfPg), U(s))
  BY <1>2 DEF NandReadPage, Record, AccessAsRequested
<1>3. CASE ~OutOfRange(U(p * SzOfPg), U(s))
  <2>1. Within(U(p * SzOfPg), U(s))
    BY <1>1, <1>3 DEF Within
  <2>2. ~fault' /\ last' = [op |-> "read", arg |-> p, size |-> s, ret |-> 0]
    BY <1>3, <2>1 DEF NandReadPage, Record
  <2>. QED  BY <1>1, <1>3, <2>2 DEF AccessAsRequested
<1>. QED  BY <1>2, <1>3

LEMMA WriteAccess ==
    ASSUME ArgsInRange, ~fault, NEW p \in PageIn, NEW s \in SizeIn, NEW v \in Data,
           NandWritePage(p, s, v)
    PROVE  AccessAsRequested'
<1>1. WriteStep(p, s, v)
  BY WriteCases
<1>2. /\ WOfs(p) = p * SzOfPg /\ WSz(s) = s
      /\ 0 <= p * SzOfPg /\ 0 < s
      /\ ~OutOfRange(WOfs(p), WSz(s)) => p * SzOfPg + s <= DriveSz
  BY PageOffset DEF WOfs, WSz
<1>3. CASE OutOfRange(WOfs(p), WSz(s))
  BY <1>1, <1>3 DEF WriteStep, Record, AccessAsRequested
<1>4. CASE ~OutOfRange(WOfs(p), WSz(s)) /\ WStops(p, s) # {}
  <2>1. p * SzOfPg \in Int /\ s \in Int /\ p * SzOfPg + s <= DriveSz
    BY <1>2, <1>4, NandAssumption
  <2>2. WStops(p, s) \subseteq Nat
    BY DEF WStops
  <2>3. WFirst(p, s) \in WStops(p, s)
    BY <1>4, <2>2, NatMinExists DEF WFirst
  <2>4. WFirst(p, s) \in 0 .. s - 1
    BY <1>2, <2>3 DEF WStops
  <2>5. /\ p * SzOfPg + WFirst(p, s) \in Int
        /\ 0 <= p * SzOfPg + WFirst(p, s)
        /\ p * SzOfPg + WFirst(p, s) < DriveSz
    BY <1>2, <2>1, <2>4, NandAssumption
  <2>6. LoopIdx(WOfs(p), WFirst(p, s)) = p * SzOfPg + WFirst(p, s)
    <3>1. p * SzOfPg + WFirst(p, s) < Mod
      BY <2>5, InDriveBelowMod
    <3>2. U(p * SzOfPg + WFirst(p, s)) = p * SzOfPg + WFirst(p, s)
      BY <2>5, <3>1, URange
    <3>. QED  BY <1>2, <3>2 DEF LoopIdx
  <2>7. LoopIdx(WOfs(p), WFirst(p, s)) \in Bytes
    BY <2>5, <2>6, NandAssumption DEF Bytes
  <2>. QED  BY <1>1, <1>4, <2>7 DEF WriteStep, Record, AccessAsRequested
<1>5. CASE ~OutOfRange(WOfs(p), WSz(s)) /\ WStops(p, s) = {}
  <2>1. Within(WOfs(p), WSz(s))
    BY <1>2, <1>5 DEF Within
  <2>2. ~fault' /\ last' = [op |-> "write", arg |-> p, size |-> s, ret |-> 0]
    BY <1>1, <1>5, <2>1 DEF WriteStep, Record
  <2>. QED  BY <1>2, <1>5, <2>2 DEF AccessAsRequested
<1>. QED  BY <1>3, <1>4, <1>5

LEMMA EraseAccess ==
    ASSUME ArgsInRange, ~fault, NEW b \in BlockIn, NandEraseBlock(b)
    PROVE  AccessAsRequested'
<1>1. /\ b \in Map
      /\ ~OutOfRange(U(b * SzOfBlk), SzOfBlk) => Within(U(b * SzOfBlk), SzOfBlk)
  BY BlockOffset
<1>2. ~fault' /\ last'.op = "erase"
  BY <1>1 DEF NandEraseBlock, Record
<1>. QED  BY <1>2 DEF AccessAsRequested

LEMMA AccessStep ==
    ASSUME ArgsInRange
    PROVE  AccessAsRequested /\ [Next]_vars => AccessAsRequested'
<1>. SUFFICES ASSUME AccessAsRequested, [Next]_vars PROVE AccessAsRequested'
  OBVIOUS
<1>1. ~fault
  BY DEF AccessAsRequested
<1>2. CASE \E p \in PageIn, s \in SizeIn : NandReadPage(p, s)
  BY <1>1, <1>2, ReadAccess
<1>3. CASE \E p \in PageIn, s \in SizeIn, v \in Data : NandWritePage(p, s, v)
  BY <1>1, <1>3, WriteAccess
<1>4. CASE \E b \in BlockIn : NandEraseBlock(b)
  BY <1>1, <1>4, EraseAccess
<1>5. CASE \E b \in BlockIn : NandIsBadBlock(b)
  <2>. PICK b \in BlockIn : NandIsBadBlock(b)
    BY <1>5
  <2>1. b \in Map
    BY BlockOffset
  <2>. QED  BY <1>1, <2>1 DEF NandIsBadBlock, Record, AccessAsRequested
<1>6. CASE NandMakeRamdisk \/ ExhaustCycles
  BY <1>1, <1>6 DEF NandMakeRamdisk, ExhaustCycles, Record, AccessAsRequested
<1>7. CASE UNCHANGED vars
  BY <1>7 DEF vars, AccessAsRequested
<1>. QED  BY <1>2, <1>3, <1>4, <1>5, <1>6, <1>7 DEF Next

\* For a client whose page, size and block arguments keep the uint32_t
\* offset arithmetic from wrapping and whose block numbers lie inside
\* nand_bad_block_map, nand_read_page and nand_write_page accept exactly
\* the requested in-drive bytes and no call of the ramdisk touches memory
\* outside nand_drive or nand_bad_block_map.  Both conditions are needed:
\* nand_offset_wrap breaks the first, nand_badblock_oob the second.
THEOREM AccessAsRequestedThm ==
    ASSUME ArgsInRange
    PROVE  Spec => []AccessAsRequested
<1>1. Init => AccessAsRequested
  BY DEF Init, AccessAsRequested
<1>. QED  BY <1>1, AccessStep, PTL DEF Spec

====
