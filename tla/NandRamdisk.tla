----------------------------- MODULE NandRamdisk -----------------------------
(***************************************************************************)
(* The NAND ramdisk that cgptlib_test.c supplies to the flash timestamp   *)
(* store (nand_read_page, nand_write_page, nand_erase_block,               *)
(* nand_is_bad_block, nand_make_ramdisk).  The drive is a byte array, the *)
(* bad-block map a per-block erase-cycle counter.  Offsets are computed   *)
(* in unsigned arithmetic of Width bits (uint32_t in the code) and the    *)
(* counter in CounterWidth bits (uint8_t); both are constants so that a   *)
(* run can scale them down with the drive and still reach the wraps.      *)
(* An access outside the allocated buffers is undefined behaviour: the    *)
(* model records it in fault and stops there.                              *)
(***************************************************************************)
EXTENDS Integers, FiniteSets

CONSTANTS
    Width,          \* bits of the offset arithmetic (32 in the code)
    CounterWidth,   \* bits of a bad-block map entry (8 in the code)
    DriveSz,        \* nand_drive_sz
    SzOfPg,         \* nand->szofpg
    SzOfBlk,        \* nand->szofblk
    MapLen,         \* entries of nand_bad_block_map (nand_drive_sz / 512)
    PageIn,         \* page arguments the client passes
    BlockIn,        \* block arguments the client passes
    SizeIn,         \* size arguments the client passes
    Data,           \* byte values a client writes, other than 0xFF
    Erased          \* the byte 0xFF

ASSUME NandAssumption ==
    /\ Width \in Nat \ {0} /\ CounterWidth \in Nat \ {0}
    /\ {DriveSz, SzOfPg, SzOfBlk, MapLen} \subseteq Nat \ {0}
    /\ DriveSz % SzOfBlk = 0 /\ SzOfBlk % SzOfPg = 0
    /\ DriveSz \div SzOfBlk <= MapLen
    /\ DriveSz < 2 ^ Width          \* every drive offset is a uint32_t
    /\ 2 < 2 ^ CounterWidth         \* a map entry holds the 2 MtdFtsTest stores
    /\ PageIn \cup BlockIn \cup SizeIn \subseteq Int
    /\ Erased \notin Data

VARIABLES
    drive,      \* nand_drive[0 .. nand_drive_sz - 1]
    wear,       \* nand_bad_block_map[0 .. MapLen - 1]
    last,       \* the last call: operation, argument, size and return value
    fault       \* an out-of-bounds access has happened

vars == <<drive, wear, last, fault>>

Bytes == 0 .. DriveSz - 1
Map == 0 .. MapLen - 1
Mod == 2 ^ Width
CounterMod == 2 ^ CounterWidth
Ops == {"none", "read", "write", "erase", "isbad", "reset"}

\* The conversions of int to uint32_t at 1775-1776, 1786-1787, 1802-1803.
U(x) == x % Mod

TypeOK ==
    /\ drive \in [Bytes -> Data \cup {Erased}]
    /\ wear \in [Map -> 0 .. CounterMod - 1]
    /\ last \in [op : Ops, arg : Int, size : Int, ret : {-1, 0, 1}]
    /\ fault \in BOOLEAN

\* The caller's view of a call; ret is only meaningful when no fault happened.
Record(op, arg, size, r) == last' = [op |-> op, arg |-> arg, size |-> size, ret |-> r]

\* --nand_bad_block_map[block] on a uint8_t: 0 wraps to the maximum.
\* Mutant: the counter decremented as a signed int.
DecrementSigned(c) == c - 1

Decrement(c) == (c - 1) % CounterMod

\* Mutant: the end check forgets the size.
OutOfRangeNoSize(ofs, sz) == ofs > DriveSz

\* The range check of all three operations: the end offset, computed in
\* uint32_t, passes the drive.
OutOfRange(ofs, sz) == U(ofs + sz) > DriveSz

\* Bytes [ofs, ofs + sz) as the pointer nand_drive + ofs reaches them: the
\* pointer arithmetic is not reduced modulo 2^Width.
Within(ofs, sz) == ofs + sz <= DriveSz

-----------------------------------------------------------------------------
(* The ramdisk operations *)

\* nand_read_page: reject when the wrapped end passes the drive, else copy.
NandReadPage(page, size) ==
    LET ofs == U(page * SzOfPg)
        sz  == U(size)
    IN  \/ /\ OutOfRange(ofs, sz)
           /\ Record("read", page, size, -1)
           /\ UNCHANGED <<drive, wear, fault>>
        \/ /\ ~OutOfRange(ofs, sz)
           /\ IF Within(ofs, sz)
                THEN UNCHANGED fault
                ELSE fault' = TRUE
           /\ Record("read", page, size, 0)
           /\ UNCHANGED <<drive, wear>>

\* Index i of the erased-check loop of nand_write_page: ofs + i is uint32_t.
LoopIdx(ofs, i) == U(ofs + i)

\* The loop stops at i: the byte it reads is outside the drive (undefined)
\* or already programmed (return -1).
Stops(ofs, i) ==
    LoopIdx(ofs, i) \notin Bytes \/ drive[LoopIdx(ofs, i)] # Erased

\* Mutant: the 0xFF loop dropped, the buffer copied over programmed bytes.
NandWritePageNoCheck(page, size, v) ==
    LET ofs == U(page * SzOfPg)
        sz  == U(size)
    IN  \/ /\ OutOfRange(ofs, sz)
           /\ Record("write", page, size, -1)
           /\ UNCHANGED <<drive, wear, fault>>
        \/ /\ ~OutOfRange(ofs, sz)
           /\ IF Within(ofs, sz)
                THEN /\ drive' = [b \in Bytes |->
                                    IF ofs <= b /\ b < ofs + sz THEN v ELSE drive[b]]
                     /\ UNCHANGED fault
                ELSE /\ fault' = TRUE
                     /\ UNCHANGED drive
           /\ Record("write", page, size, 0)
           /\ UNCHANGED wear

\* nand_write_page: reject when the wrapped end passes the drive, reject at
\* the first byte that is not 0xFF, else copy the buffer.
NandWritePage(page, size, v) ==
    LET ofs   == U(page * SzOfPg)
        sz    == U(size)
        stops == {i \in 0 .. sz - 1 : Stops(ofs, i)}
        first == CHOOSE i \in stops : \A j \in stops : i <= j
    IN  \/ /\ OutOfRange(ofs, sz)
           /\ Record("write", page, size, -1)
           /\ UNCHANGED <<drive, wear, fault>>
        \/ /\ ~OutOfRange(ofs, sz)
           /\ stops # {}
           /\ IF LoopIdx(ofs, first) \in Bytes
                THEN UNCHANGED fault
                ELSE fault' = TRUE
           /\ Record("write", page, size, -1)
           /\ UNCHANGED <<drive, wear>>
        \/ /\ ~OutOfRange(ofs, sz)
           /\ stops = {}
           /\ IF Within(ofs, sz)
                THEN /\ drive' = [b \in Bytes |->
                                    IF ofs <= b /\ b < ofs + sz THEN v ELSE drive[b]]
                     /\ UNCHANGED fault
                ELSE /\ fault' = TRUE
                     /\ UNCHANGED drive
           /\ Record("write", page, size, 0)
           /\ UNCHANGED wear

\* nand_erase_block: reject out of range, consume one erase cycle (the
\* uint8_t counter wraps below zero), fail when it reaches zero, else set
\* the block to 0xFF.
NandEraseBlock(block) ==
    LET ofs == U(block * SzOfBlk)
        sz  == SzOfBlk
        cnt == Decrement(wear[block])
    IN  \/ /\ OutOfRange(ofs, sz)
           /\ Record("erase", block, sz, -1)
           /\ UNCHANGED <<drive, wear, fault>>
        \/ /\ ~OutOfRange(ofs, sz)
           /\ block \notin Map
           /\ fault' = TRUE
           /\ Record("erase", block, sz, -1)
           /\ UNCHANGED <<drive, wear>>
        \/ /\ ~OutOfRange(ofs, sz)
           /\ block \in Map
           /\ wear' = [wear EXCEPT ![block] = cnt]
           /\ IF cnt = 0
                THEN /\ Record("erase", block, sz, -1)
                     /\ UNCHANGED <<drive, fault>>
                ELSE /\ IF Within(ofs, sz)
                          THEN /\ drive' = [b \in Bytes |->
                                              IF ofs <= b /\ b < ofs + sz
                                                THEN Erased ELSE drive[b]]
                               /\ UNCHANGED fault
                          ELSE /\ fault' = TRUE
                               /\ UNCHANGED drive
                     /\ Record("erase", block, sz, 0)

\* nand_is_bad_block: no range check before indexing the map.
NandIsBadBlock(block) ==
    /\ IF block \in Map
         THEN /\ Record("isbad", block, 0, IF wear[block] = 0 THEN 1 ELSE 0)
              /\ UNCHANGED fault
         ELSE /\ Record("isbad", block, 0, 0)
              /\ fault' = TRUE
    /\ UNCHANGED <<drive, wear>>

\* nand_make_ramdisk: a fresh drive of 0xFF bytes, every map entry 0xFF.
NandMakeRamdisk ==
    /\ drive' = [b \in Bytes |-> Erased]
    /\ wear' = [m \in Map |-> CounterMod - 1]
    /\ Record("reset", 0, 0, 0)
    /\ UNCHANGED fault

\* MtdFtsTest "eating all erase cycles": every map entry set to 2.
ExhaustCycles ==
    /\ wear' = [m \in Map |-> 2]
    /\ Record("reset", 0, 0, 0)
    /\ UNCHANGED <<drive, fault>>

Init ==
    /\ drive = [b \in Bytes |-> Erased]
    /\ wear = [m \in Map |-> CounterMod - 1]
    /\ last = [op |-> "none", arg |-> 0, size |-> 0, ret |-> 0]
    /\ fault = FALSE

Next ==
    /\ ~fault
    /\ \/ \E p \in PageIn, s \in SizeIn : NandReadPage(p, s)
       \/ \E p \in PageIn, s \in SizeIn, v \in Data : NandWritePage(p, s, v)
       \/ \E b \in BlockIn : NandEraseBlock(b)
       \/ \E b \in BlockIn : NandIsBadBlock(b)
       \/ NandMakeRamdisk
       \/ ExhaustCycles

Spec == Init /\ [][Next]_vars

\* The arguments of a client whose offset arithmetic never wraps: pages and
\* sizes with page * szofpg + size below 2^Width, blocks that have an entry
\* in nand_bad_block_map and whose end offset is below 2^Width.  The flash
\* timestamp store passes such arguments; the wrap runs pass others.
ArgsInRange ==
    /\ \A p \in PageIn, s \in SizeIn : 0 <= p /\ 0 < s /\ p * SzOfPg + s < Mod
    /\ \A b \in BlockIn : b \in Map /\ b * SzOfBlk + SzOfBlk < Mod

-----------------------------------------------------------------------------
(* Properties *)

\* NAND programming only turns erased bytes into data: no step changes a
\* programmed byte except back to 0xFF (nand_write_page's 0xFF loop).
NoProgramWithoutErase ==
    [][\A b \in Bytes : drive'[b] # drive[b] => drive[b] = Erased \/ drive'[b] = Erased]_vars

\* A read or write the ramdisk accepts covers exactly the requested bytes
\* [page * szofpg, page * szofpg + size), all inside the drive, and no call
\* reaches memory outside nand_drive or nand_bad_block_map.
AccessAsRequested ==
    /\ ~fault
    /\ last.op \in {"read", "write"} /\ last.ret = 0 =>
          /\ 0 <= last.arg * SzOfPg
          /\ 0 < last.size
          /\ last.arg * SzOfPg + last.size <= DriveSz

\* Erase cycles run out: once nand_is_bad_block reports a block bad, no
\* later nand_erase_block on it succeeds ("eating all erase cycles" in
\* MtdFtsTest expects the store to end with -ENOMEM).
ErasedOnlyWhileGood ==
    [][last'.op = "erase" /\ last'.ret = 0 => wear[last'.arg] # 0]_vars
=============================================================================
