---------------------------- MODULE ParameterTests ----------------------------
(***************************************************************************)
(* ParameterTests of cgptlib_test.c: the GPT table of (sector_bytes,       *)
(* drive_sectors) cases and the MTD table that adds the flash page and    *)
(* block sizes, run through CheckParameters and MtdCheckParameters.  The  *)
(* two checks are not in src/: they follow spec sections 4.3 and 6.  The  *)
(* two loops of the test are a small state machine.                       *)
(***************************************************************************)
EXTENDS Integers, Sequences

VARIABLES
    phase,      \* "gpt" loop, "mtd" loop, or "done"
    i,          \* the loop index
    checked,    \* <<table, row>> pairs whose EXPECT ran
    failed      \* <<table, row>> pairs whose EXPECT failed

vars == <<phase, i, checked, failed>>

DefaultDriveSectors == 467
\* GPT_PMBR_SECTORS + GPT_HEADER_SECTORS * 2 + GPT_ENTRIES_SECTORS * 2
MinDriveSectors == 1 + 1 * 2 + 32 * 2

\* The GPT rows: sector_bytes, drive_sectors, expected result.
Cases ==
    << [sb |-> 512,  ds |-> DefaultDriveSectors, ret |-> "SUCCESS"],
       [sb |-> 520,  ds |-> DefaultDriveSectors, ret |-> "INVALID_SECTOR_SIZE"],
       [sb |-> 512,  ds |-> 0,                   ret |-> "INVALID_SECTOR_NUMBER"],
       [sb |-> 512,  ds |-> 66,                  ret |-> "INVALID_SECTOR_NUMBER"],
       [sb |-> 512,  ds |-> MinDriveSectors,     ret |-> "SUCCESS"],
       [sb |-> 4096, ds |-> DefaultDriveSectors, ret |-> "INVALID_SECTOR_SIZE"] >>

\* The MTD rows: sector_bytes, drive_sectors, flash_page_bytes,
\* flash_block_bytes, expected result.
MtdRow(sb, pg, blk, ret) ==
    [sb |-> sb, ds |-> DefaultDriveSectors, pg |-> pg, blk |-> blk, ret |-> ret]
MtdCases ==
    << MtdRow(512, 8 * 512, 8 * 512,       "SUCCESS"),
       MtdRow(510, 8 * 512, 8 * 512,       "INVALID_SECTOR_SIZE"),
       MtdRow(512, 8 * 512, 8 * 512,       "SUCCESS"),
       MtdRow(512, 512, 8 * 512,           "SUCCESS"),
       MtdRow(512, 8 * 512, 10 * 512,      "INVALID_FLASH_GEOMETRY"),
       MtdRow(512, 3 * 512, 9 * 512,       "SUCCESS"),
       MtdRow(512, 8 * 512, 6 * 512,       "INVALID_FLASH_GEOMETRY"),
       MtdRow(512, 256, 6 * 512,           "INVALID_FLASH_GEOMETRY"),
       MtdRow(512, 512, 6 * 512 + 256,     "INVALID_FLASH_GEOMETRY") >>

PowersOfTwo == {2 ^ k : k \in 0 .. 20}

\* Spec 4.3: 512-byte sectors only, and room for the PMBR, two headers and
\* two entry arrays.
CheckParameters(sb, ds) ==
    IF sb # 512 THEN "INVALID_SECTOR_SIZE"
    ELSE IF ds < MinDriveSectors THEN "INVALID_SECTOR_NUMBER"
    ELSE "SUCCESS"

\* Spec 4.3 and 6: the same, then page and block byte sizes powers of two
\* with block >= page, else the flash geometry is rejected.
MtdCheckParameters(sb, ds, pg, blk) ==
    IF CheckParameters(sb, ds) # "SUCCESS" THEN CheckParameters(sb, ds)
    ELSE IF pg \in PowersOfTwo /\ blk \in PowersOfTwo /\ blk >= pg THEN "SUCCESS"
    ELSE "INVALID_FLASH_GEOMETRY"

Init ==
    /\ phase = "gpt"
    /\ i = 0
    /\ checked = {}
    /\ failed = {}

\* Record row r of table t and whether its EXPECT held.
Expect(t, r, ok) ==
    /\ checked' = checked \cup {<<t, r>>}
    /\ failed' = IF ok THEN failed ELSE failed \cup {<<t, r>>}

\* One pass of the GPT loop: BuildTestGptData, set the two fields, EXPECT.
GptLoopStep ==
    /\ phase = "gpt" /\ i < Len(Cases)
    /\ LET c == Cases[i + 1]
       IN  Expect("gpt", i, c.ret = CheckParameters(c.sb, c.ds))
    /\ i' = i + 1
    /\ UNCHANGED phase

GptLoopExit ==
    /\ phase = "gpt" /\ i >= Len(Cases)
    /\ phase' = "mtd" /\ i' = 0
    /\ UNCHANGED <<checked, failed>>

\* One pass of the MTD loop, bounded by ARRAY_SIZE(cases), the GPT table.
MtdLoopStep ==
    /\ phase = "mtd" /\ i < Len(Cases)
    /\ LET c == MtdCases[i + 1]
       IN  Expect("mtd", i, c.ret = MtdCheckParameters(c.sb, c.ds, c.pg, c.blk))
    /\ i' = i + 1
    /\ UNCHANGED phase

MtdLoopExit ==
    /\ phase = "mtd" /\ i >= Len(Cases)
    /\ phase' = "done"
    /\ UNCHANGED <<i, checked, failed>>

Next == GptLoopStep \/ GptLoopExit \/ MtdLoopStep \/ MtdLoopExit

Spec == Init /\ [][Next]_vars

-----------------------------------------------------------------------------
(* Properties *)

\* When ParameterTests returns, every row of mtdcases has been checked,
\* as the comment above the test ("test various flash geometries") says.
EveryMtdCaseChecked ==
    phase = "done" => \A r \in 0 .. Len(MtdCases) - 1 : <<"mtd", r>> \in checked

=============================================================================
