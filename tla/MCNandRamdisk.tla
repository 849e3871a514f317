---------------------------- MODULE MCNandRamdisk ----------------------------
(* The ramdisk scaled down: a 4-byte drive of 1-byte pages and two 2-byte *)
(* blocks, a map longer than the block count (as drive_sz / 512 is), 4-bit *)
(* offsets and 2-bit wear counters, so that both the offset and the        *)
(* counter wraps lie within a few steps.                                   *)
EXTENDS NandRamdisk

\* Pages and blocks the flash store addresses, one past the end included.
MCPageIn == 0 .. 4
MCBlockIn == 0 .. 2
MCSizeIn == {1, 2}
\* Block numbers one past the map (and the drive): nand_is_bad_block has
\* no range check, while nand_erase_block rejects them.
MCBlockInPastMap == 0 .. 3
\* Arguments whose products wrap in 4 bits: page -1 and page 16.
MCPageInWrap == {-1, 0, 1, 16}
=============================================================================
