# TLA+ verification of the GPT / MTD partition-table engine

This directory holds the formal development for the partition-table engine
that `src/tests/cgptlib_test.c` exercises: the redundancy engine (validate
both copies, repair one from the other) and the kernel selection state machine
(offer kernels by priority, record boot attempts). The engine itself (`cgptlib.c`,
`mtdlib.c`) is not in `src/`. Its behaviour is the one `spec.md` describes,
as the test file pins it down. Every definition is written from those test
lines where they decide the behaviour. Where only the spec does, the `map` of
`PROJECT.json` marks the definition `spec_modelled`.

The development also covers code around the engine:

- the NAND ramdisk of the test file, which the flash timestamp test runs on;
- the two tables of ParameterTests;
- the kernel verifier that `src/vboot_firmware/include/kernel_image_fw.h` declares. Its structures, error codes and the contracts in its comments are the source.

A composed module joins selection and verification into the boot loop that a caller of both runs.

## The system and how its parts interact

| Part | Code | State | Operations |
|---|---|---|---|
| Header validator | CheckHeader, HeaderFieldsSame | none (pure) | verdict per copy |
| Entries validator | CheckEntries | none (pure) | CRC, region, overlap, duplicate GUID |
| Redundancy engine | GptSanityCheck, GptRepair | two headers, two entry arrays, `valid_headers`, `valid_entries`, `modified` | check, repair |
| Selection state machine | GptInit, GptNextKernelEntry, GptUpdateKernelEntry (and Mtd*) | entry attributes in both copies, `current_kernel`, the offered set, `modified` | start session, next, TRY / BAD update |
| Attribute codec | Get/SetEntry{Priority,Tries,Successful} | none (pure) | bit packing |
| Test harness | BuildTestGptData, RefreshCrc32, FillEntry, the edits of each test | the buffers | corrupt, rewrite, refresh CRCs |
| NAND ramdisk | nand_read_page, nand_write_page, nand_erase_block, nand_is_bad_block, nand_make_ramdisk | drive bytes, per-block wear counter | read, write, erase, bad-block query, reset |
| Parameter checks | CheckParameters, MtdCheckParameters (and ParameterTests' loops) | none (pure) / the loop index | geometry verdict |
| Kernel verifier | VerifyKernelHeader, VerifyKernelData, VerifyKernel, GetLogicalKernelVersion | the blob, `dev_mode`, the signing key handed back | header, data, free key, logical version |
| Boot loop (caller) | spec 2 control flow | selection state plus one VerifyKernel call | next, verify, TRY/BAD, reboot |

A caller loads the buffers, runs GptSanityCheck and GptRepair, and then drives
selection. Selection reads the primary entry array and writes every change to
both copies. The caller writes back what `modified` flags. Everything is
single-threaded and synchronous (spec 5). The hard behaviours are therefore:

- the sequences of calls and buffer states nobody wrote a test for;
- the corruptions and partial rewrites of one half of the table;
- the boundary values of the 4-bit fields.

## Modules

**GptRedundancy** models the redundancy engine. It is mapped to SanityCheckTest, HeaderSameTest, MyLbaTest, EntriesCrcTest and BuildTestGptData.

- *State.* `h[c]` and `e[c]` hold the header and the entry array of copy `c` (1 = primary, 2 = secondary). `valid_headers`, `valid_entries`, `modified` and `result` are the `GptData` fields of the same names. `phase` records whether the buffers are as loaded, checked or repaired.
- *Data abstraction.* An entry array is a model value. A header is a record:
  - `sane`: signature, revision and sizes are good;
  - `crc`: the header CRC matches;
  - `my`, `alt`, `ent`: whose location `my_lba`, `alternate_lba` and `entries_lba` name;
  - `fields`: the fields HeaderFieldsSame compares;
  - `ecrc`: which array `entries_crc32` is the CRC of.

  The constant `Misplaced` lists the arrays that pass the CRC check but fail the region, overlap or GUID check under given header fields.
- *Actions.* `GptSanityCheck` translates the rules one operator each:
  - the header mask (`HeadersChecked`);
  - entries judged against the primary header when it is valid (`GoodHeader`, 993-997);
  - the fall-back to the secondary header when both headers are valid and no array matches the primary (`FallsBack`, 1067-1081);
  - two valid but different headers leave the primary winning (`HeadersAfterCompare`, 1015-1029).

  `GptRepair` copies the valid half over the invalid one and patches `my`, `alt` and `ent` to the target copy. It also sets one modified bit per rewritten copy. The environment actions are the test's own edits, each followed by what the test then calls:
  - `CorruptHeader`: `primary_header[0]++`;
  - `CorruptEntries`: `primary_entries[0]++`;
  - `EditHeaderFields`: `h1->size++; RefreshCrc32`;
  - `EditEntries`: `secondary_entries[0]++; RefreshCrc32`.

**GptSelect** models kernel selection for GPT and, through `Medium = "mtd"`, for MTD. It is mapped to GetNext*Test, GptUpdateTest, MtdUpdateTest and FillEntry.

- *State.* `entries` and `entries2` are the two copies. Each entry holds `type`, `priority`, `tries` and `successful`. `current_kernel` uses 0 for the sentinel -1. `offered` is the session's set of offered entries. `modified` and `ret` are as in the code. The observation variables `loaded`, `session_start` and `offers` only serve the properties.
- *Actions.*
  - `GptNextKernelEntry` picks the highest priority among the kernels that are successful or have tries left, have priority > 0 and have not been offered; ties go to the lowest index.
  - `GptUpdateKernelEntry(kind)` applies TRY or BAD to both copies (the primary only on MTD). It sets all four GPT bits (0x0F) or the MTD flag only when the entry changed. It refuses with INVALID_UPDATE_TYPE when nothing is current, the entry is not a kernel, or the kind is unknown.
  - `GptInit` clears the session.
- *Initial states.* Every table FillEntry can build with the bounded attributes.
- *A limitation.* The test also retypes the current entry in the primary copy only (1637). That edit is not an action: it would make the copies differ by a harness write, not by the library. So the "not a kernel" refusal is unreachable in the model.

**NandRamdisk** models the ramdisk functions at 1774-1831 of the test file.

- *State.* `drive` holds the drive bytes. `wear` is `nand_bad_block_map`. `last` is the last call with its return value. `fault` records an access outside the buffers. That access is undefined behaviour, and the model stops there.
- *Arithmetic.* `U` is the conversion to `uint32_t` at 1775-1776, 1786-1787 and 1802-1803. `Decrement` is the `uint8_t` pre-decrement at 1807. The pointer arithmetic of `Memcpy`/`Memset` is not wrapped (`Within`).
- *Widths.* TLC's integers are 32-bit signed, so 2^32 cannot be a value. The runs scale the widths down with the drive: `Width = 4` stands for 32 and `CounterWidth = 2` for 8. The wraps happen at the same relative places: an offset past 2^Width, and a counter decremented at 0.
- *Actions.*
  - `NandWritePage` translates the 0xFF loop with its early return at the first programmed byte.
  - `NandEraseBlock` decrements before it tests, as `!--map[block]` does.
  - `NandIsBadBlock` has no range check.
  - `ExhaustCycles` is MtdFtsTest's "eating all erase cycles" loop.

**ParameterTests** models the two loops of ParameterTests (307-371) over the GPT table `Cases` and the MTD table `MtdCases`. It keeps the test's field order: sector bytes, drive sectors, page bytes, block bytes. `CheckParameters` and `MtdCheckParameters` are not in `src/`. They follow spec 4.3 and 6 (power-of-two page and block sizes, block >= page) and are marked `spec_modelled`.

**KernelVerify** models VerifyKernel's chain as the header declares it.

- *Data abstraction.* A blob is a `KernelImage` reduced to what the checks tell apart:
  - whether the magic, the algorithms and the header checksum are good;
  - which key is the kernel key;
  - which key made each of the three signatures.

  A signature verifies exactly when the verifier's key made it.
- *Actions.*
  - `VerifyKernelHeader` runs the key header check, then the preamble check with the kernel key, and hands back that key or NULL (`NoKey`).
  - `VerifyKernelData` checks the data signature with the key handed back.
  - `FreeSigningKey` is the caller's free.
  - `NewCall` starts the next call.
- *Unknown order.* The order of the sanity checks is not given. The code returned is any of the failing ones.
- *The key-signature rule.* `KeySignatureChecked` follows lines 125 and 149: the check is skipped in developer mode. `KeySignatureCheckedInDevMode` is the reading of line 86.

**KernelVerifyAbstract** is what VerifyKernel promises, in one step: a call on `blob` and `dev_mode` turns `verdict` from "pending" to "accepted" exactly when `Accepts` holds. `Accepts` is the whole chain of the header's comment: the sanity flags, the key signed by the firmware key outside developer mode, and the preamble and the data signed by the kernel key. `KernelVerify` maps onto it with `Verdict`: "pending" until `stage = "done"`, then "accepted" on SUCCESS and "rejected" otherwise. Its property `ImplementsVerifyKernel` is `Abstract!Spec`.

**KernelVersion** models GetLogicalKernelVersion (`kernel_key_version << 16 | kernel_version` in a uint32) over pairs of uint16 fields that the firmware reads and compares.

**BootLoop** composes GptSelect (by EXTENDS) with KernelVerify (as `KV == INSTANCE KernelVerify`) in the caller's loop of spec 2. The caller's code is not in `src/`, so its actions are `spec_modelled`.

- `SelectKernel` calls GptNextKernelEntry. On SUCCESS it reads the current partition's image into `blob` and starts a VerifyKernel call. On NO_VALID_KERNEL it goes to recovery.
- The three `VerifyStep`s are KernelVerify's own actions.
- `MarkKernel` reports TRY for a kernel that verified and boots it, or reports BAD and asks for the next kernel.
- `Reboot` is GptInit over the table as last updated.

**BootLoopAbstract** is the same loop with VerifyKernel as one call. Its `VerifyKernel` is `KernelVerifyAbstract`'s step on the current blob, and `MarkKernel` reads the verdict. `BootLoop` maps onto it with `verdict <- KV!Verdict`, all other variables as they are. Its property `ImplementsAtomicVerify` is `Atomic!BootSpec`. The abstract specification has no fairness, so this refinement is about safety. `BootAttemptEnds` is checked on `BootLoop` itself.

**GptRedundancyProofs**, **GptSelectProofs**, **KernelVerifyProofs**, **KernelVersionProofs**, **BootLoopProofs** and **NandRamdiskProofs** hold the TLAPS proofs.

## Runs

| Run | Config | Result | Shows |
|---|---|---|---|
| gpt_redundancy | MCGptRedundancy.cfg | pass, 8050 states | the properties below over every edit sequence |
| gpt_union | MCGptRedundancy_union.cfg | violation | spec 9's union rule is not what the tests require |
| gpt_select | MCGptSelect.cfg | pass, about 209k states | the selection properties on GPT |
| select_spec_active | MCGptSelect_specactive.cfg | violation | spec 4.5 omits the priority > 0 condition |
| nand_ramdisk | MCNandRamdisk.cfg | pass, 68339 states | the ramdisk properties with in-range page numbers |
| nand_offset_wrap | MCNandRamdisk_offsetwrap.cfg | violation | page -1 (or a huge page) wraps `ofs + sz` below the drive size: the bounds check passes and the copy leaves `nand_drive` (code bug, 1777/1789; latent, no caller in the repository passes such a page) |
| nand_badblock_oob | MCNandRamdisk_badblock.cfg | violation | block 3, past the 3-entry map, is rejected by `nand_erase_block`'s range check but read by `nand_is_bad_block`, which has none (code bug, 1815; latent) |
| nand_erase_wrap | MCNandRamdisk_erasewrap.cfg | violation | erasing a bad block wraps its counter 0 -> max, and the next erase succeeds (code bug, 1807) |
| param_loop | ParameterTests_loop.cfg | violation | the MTD loop is bounded by the GPT table: rows 6-8 are never checked (code bug, 361) |
| kernel_verify | MCKernelVerify.cfg | pass, 3474 states | the chain is sound, the key is always freed, and the three steps implement the one-step verify |
| kernel_keyheader_doc | MCKernelVerify_keyheaderdoc.cfg | violation | read as line 86 states it, the key-signature check accepts an unsigned kernel key outside developer mode |
| boot_loop | MCBootLoop.cfg | pass, 31094 states | selection plus verification: recovery only without a good kernel, every boot attempt ends, and the loop implements the loop over an atomic VerifyKernel |

Properties:

- `RepairRestores`: after a successful check, repair leaves a table whose check reports BOTH for headers and entries.
- `RepairModifiedExact` (action): repair adds to `modified` exactly the copies it changed.
- `OfferOrder`: within a session the offers go by decreasing priority, then increasing index, even with updates in between.
- `NoKernelSkipped`: NO_VALID_KERNEL comes only after every kernel bootable at the start of the session has been offered.
- `MirrorAndModified`: both GPT copies stay identical, and `modified` is empty exactly when the entries equal what was loaded.
- `AttributesOnlyDecay` (action): no step raises priority, tries or successful, and a successful entry never changes.
- `AccessAsRequested`: no call touches memory outside the drive or the map, and an accepted read or write covers exactly `[page*szofpg, page*szofpg + size)` inside the drive.
- `NoProgramWithoutErase` (action): a byte changes only from 0xFF or back to 0xFF.
- `ErasedOnlyWhileGood` (action): no erase of a block whose counter is 0 succeeds.
- `EveryMtdCaseChecked`: the test checks every MTD row. Row 5 of the table (1536-byte pages, 4608-byte blocks) expects SUCCESS, which spec 6's power-of-two rule rejects. `failed` records it, but no run is kept for it: the rule is the spec's wording, not code in `src/`.
- `ChainSound`: a SUCCESS from VerifyKernel means these hold:
  - the preamble and the data are signed by the blob's kernel key;
  - the sanity checks pass;
  - outside developer mode, the kernel key is signed by the firmware key.
- `ImplementsVerifyKernel` (refinement): every call answers success exactly on a blob whose whole chain holds. This includes the converse of `ChainSound`: no valid blob is refused.
- `LogicalVersionLexicographic` (proved, not run): comparing logical versions compares key version, then kernel version.
- `RecoveryOnlyWithoutGoodKernel`: the device falls back to recovery only when no kernel bootable at the start of the session holds a blob that verifies.
- `ImplementsAtomicVerify` (refinement): in the boot loop, a kernel is booted only after a call that accepts its whole chain, and marked BAD only after one that rejects it.
- `BootAttemptEnds` (liveness): `phase = "select" ~> phase \in {"booted", "recovery"}`. It holds even though a successful entry whose blob fails cannot be marked BAD and stays bootable: the session's offered set is what ends the attempt.

Each property has a mutant in `PROJECT.json` that TLC must catch: a plausible bug in the mapped definition. The mutants are an unpatched repaired header, swapped modified bits, ties to the highest index, a scan resuming after the current entry, modified set on every update, and a 4-bit tries wrap.

The mutants of the later modules are:

- a signed counter decrement;
- a range check without the size;
- a write without the 0xFF loop;
- a header check without the preamble;
- the key signature checked in developer mode instead of outside it (the refinement properties of both the verifier and the boot loop);
- the scan resuming after the current entry, inside the boot loop;
- a caller that re-verifies a kernel it has just marked BAD instead of moving on.

**Bounds.**

- Redundancy: three tables and two field values, with one misplaced (table, fields) pair. This covers a good table, a corrupt one and a consistently rewritten one, which is what the fall-back, the mismatched pairs and the cross-correction cases need.
- Selection: three entries, priorities 0..2 and tries 0..2. This gives equal priorities (tie-breaks), priority 0, the last try, and entries that are successful, failed or unused. Every session reaches NO_VALID_KERNEL.
- NAND ramdisk: a 4-byte drive, 1-byte pages, 2-byte blocks, 3 map entries, 4-bit offsets and 2-bit counters.
  - Page numbers 0..4 and block numbers 0..2 include one past the end of the drive.
  - The out-of-map run passes block 3, past the map's last entry.
  - The wrap run adds -1 and 16.
  - The counter reaches 0 after three erases, so a bad block appears within a short trace.
- Kernel verifier: three keys: the firmware key, a kernel key and a foreign key. Every blob over them and every combination of sanity flags is covered. This includes each signature made by a wrong key.
- Boot loop: two partitions, priorities 0..2, tries 0..1, developer mode on or off, and three blobs:
  - one that verifies;
  - one whose key the firmware did not sign (good only in developer mode);
  - one with forged data.

  This is enough for a good kernel of lower priority behind a bad one, and for a successful entry with a bad blob.

**Fairness.** The engine modules assume none: the engine is only called by its user. In `BootLoop` the firmware's own steps have weak fairness: selection, the three verification steps and the TRY/BAD report. Spec 5 makes them synchronous calls with nothing to wait on, so once enabled a step stays enabled until it is taken. `Reboot` is left unfair: whether and when a kernel resets the machine is not the firmware's to decide. `BootAttemptEnds` only needs the fair steps.

## Proofs (TLAPS)

`GptRedundancyProofs` proves the following for all values of `Tables`, `Fields`, `Misplaced`, `T0` and `F0` under `ConstAssumption`:

- `TypeCorrect`: `Spec => []TypeOK`.
- `RepairRestoresThm`: `Spec => []RepairRestores`.

`RepairRestores` is not inductive as it stands: a repair step needs to know that the masks describe the current buffers. The inductive invariant is `IInv == TypeOK /\ MasksCurrent /\ RepairRestores`. In it, `MasksCurrent` says that in phase "checked" the masks and result equal `Sanity(h, e)`. TLC checks `IInv` on the runs above. The key lemmas are:

- `ValidHeadersAgree`: every header kept valid carries the fields and entries CRC of the header the arrays were judged against.
- `RepairLemma`: checking the repaired buffers gives SUCCESS with both copies.

`GptSelectProofs` proves the following for every `Medium`, `N`, `MaxPrio` and `MaxTries` under `SelectAssumption`:

- `SInvInvariant`: `Spec => []SInv`.
- `TypeCorrect`, `OfferOrderThm`, `NoKernelSkippedThm` and `MirrorAndModifiedThm` follow from it.
- `AttributesOnlyDecayThm`: `Spec => AttributesOnlyDecay`.

None of the selection properties is inductive alone. `SInv` (defined in `GptSelect`) adds these facts:

- `OfferedIsOffers`: the offered set is the set of indices in the offers list.
- `CurrentOffered`: the current entry was offered.
- `FrontierBelow`: an unoffered bootable entry ranks below the last offer. This is what makes the next offer continue the order.
- `UntouchedSinceStart`: unoffered entries are as they were when the session began. Updates only touch the current entry.
- `ExhaustedNow`: after NO_VALID_KERNEL no candidate is left.
- `BelowLoaded`: attributes never exceed the loaded ones, and `modified` is empty or all bits. This turns "the entry changed" into "the table differs from the loaded one".

TLC checks `SInv` on both media. The proof has one lemma per action:

- `OfferStep` and `ExhaustStep` for the two branches of GptNextKernelEntry;
- `RejectStep` and `AcceptStep` for GptUpdateKernelEntry;
- `SessionStep` for GptInit.

`BestSpec` shows that the CHOOSE in `Best` picks a best-ranked candidate. It takes the least `15 - priority` with `WFMin` over the well-founded `<` on Nat, then the least index among those of that priority. `UpdatedFacts` says that TRY and BAD only lower attributes, and leave a successful entry alone.

`KernelVerifyProofs` proves the following for every key set, under `KernelVerifyAssumption`:

- `ChainSoundThm`: `Spec => []ChainSound`.

`ChainSound` speaks only of finished calls, so it is not inductive. The strengthening `VInv` adds three facts:

- during a call, the key handed back is the blob's kernel key and the header verified (`HeaderPassed`);
- a fresh call has no result;
- a SUCCESS result was earned by the data check.

`HeaderSuccess` turns a header that verifies into the sanity flags, the preamble signer and, outside developer mode, the key signer.

`KernelVersionProofs` proves the following for every set `Versions` of uint16 values, with `VersionsAreUint16` as the hypothesis. No TLC run is kept for it: a proof over all 2^32 pairs says more than any bounded run.

- `LogicalFitsUint32`: a packed version is below 2^32. The model computes over the integers, that is, in uint32_t arithmetic. The body of GetLogicalKernelVersion is not in the repository. If it shifts a uint16_t field without a cast, C promotes it to int, and a key version of 0x8000 or more overflows; neither the proof nor a run covers that.
- `LogicalVersionLexicographicThm`: `Spec => []LogicalVersionLexicographic`. It rests on `LogicalOrderLex` over all pairs of uint16 fields.

`KernelVerifyProofs` also proves the refinement, `ImplementsVerifyKernelThm`: `Spec => ImplementsVerifyKernel`. The argument:

- `Init` maps to the abstract `Init`, since `Verdict` is "pending".
- Under `RInv == VInv /\ DataVerdict`, every step is an abstract step or a stutter (`RefinementStep`):
  - a header check that fails is the abstract `VerifyKernel` rejecting (`AcceptsHeader`: a blob whose chain holds passes the header);
  - a header check that passes, and the data check, are stutters;
  - the free is the abstract `VerifyKernel`, with SUCCESS exactly when `Accepts` holds (`DoneVerdict`).
- `DataVerdict` is what the data check recorded: a result other than SUCCESS at stage "data" means the data signer is not the kernel key.

`GptRedundancyProofs` also proves the repair's action property, `RepairModifiedExactThm`: `Spec => RepairModifiedExact`. It rests on `IInv` (through `IInvInit` and `IInvStep`) and on `RepairChanges`. `RepairChanges` says that a GptRepair after a check of the current buffers keeps the valid copies and changes every other one. A header that passes CheckHeader but is dropped from `valid_headers` is changed too. `DroppedHeaderDiffers` shows that it disagrees with the header the arrays were judged against: the repaired copy takes that header's fields and entries CRC. Only GptRepair moves from "checked" to "repaired" (`RepairStep`).

`BootLoopProofs` proves the following for every `N`, `MaxPrio`, `MaxTries`, key set and image set, under `SelectAssumption`, `KernelVerifyAssumption` and `BootAssumption` (`Images \subseteq KV!Blob`):

- `BInvInvariant`: `BootSpec => []BInv`;
- `RecoveryOnlyWithoutGoodKernelThm`: `BootSpec => []RecoveryOnlyWithoutGoodKernel`;
- `ImplementsAtomicVerifyThm`: `BootSpec => ImplementsAtomicVerify`.

`BInv` (defined in `BootLoop`, checked by TLC) is `SInv` together with these:

- `BootTypeOK`;
- `VerifyingCurrent`: a call in progress works on the current partition's blob, holds that blob's kernel key, and a finished check other than SUCCESS was given a blob that does not verify;
- `OfferedFailed`: every kernel offered this session and not booted fails verification, except the one being verified;
- `RecoveryOnNoKernel`.

Recovery needs NO_VALID_KERNEL, and by `NoKernelSkipped` every bootable kernel was then offered. `OfferedFailed` then says none of them verifies. `SInv`'s step lemma is reused unchanged: `GptStep` shows every boot-loop step is a GptSelect step or leaves its variables alone.

The refinement adds `VerdictCurrent`: during a call, a passed header check answered SUCCESS alone, and a data result is SUCCESS exactly when the blob verifies. `AcceptsIffVerifies` equates the abstract `Accepts` with `Verifies`. `AtomicGptSame` and `AtomicGptActions` show that the abstract loop's selection operators are BootLoop's own, because both extend GptSelect over the same constants and variables.

`NandRamdiskProofs` proves the following for every drive, page and block size, width and argument set, under `NandAssumption`:

- `NandTypeCorrect`: `Spec => []TypeOK`. This includes the wrapping uint8 counter.
- `NoProgramWithoutEraseThm`: `Spec => NoProgramWithoutErase`. It needs no hypothesis on the arguments.
- `AccessAsRequestedThm`: `ArgsInRange => (Spec => []AccessAsRequested)`.

`NandAssumption` states two bounds the code relies on:

- `DriveSz < 2^Width`: every drive offset is a `uint32_t`;
- `2 < 2^CounterWidth`: a map entry holds the 2 erase cycles MtdFtsTest stores.

The SMT backend cannot derive facts about powers of two, so these bounds are given as assumptions.

`ArgsInRange` is the hypothesis of `AccessAsRequestedThm`. It says the client's page, size and block arguments keep `page * szofpg + size` and `block * szofblk + szofblk` below 2^Width. Without it the property is false, and the nand_offset_wrap run shows the wrap. It also requires every block number to have an entry in `nand_bad_block_map`, since `nand_is_bad_block` has no range check (the nand_badblock_oob run). The theorem states the conditions under which the ramdisk stays inside its buffers; the wrap is not the only way out.

What stays with TLC:

- Liveness (`BootAttemptEnds`) and anything about ENABLED: TLAPS's backends here do not reason about fairness.
- The refinement properties speak only of safety. Fairness of the abstract loops is not carried over.
- The violations (`ErasedOnlyWhileGood` with the wrapped counter, `AccessAsRequested` with wrapping arguments, the spec-wording runs): these are counterexamples, which TLC finds and a proof cannot.
- Induction over data: `ParameterTests` walks fixed tables, and a run covers them exactly.

## Not modelled, and the plan

- **Attribute codec.** Pure bit packing of the 64-bit and 32-bit words. Planned: operators on `% 2^64` words checked against the EntryAttributeGetSetTest table.
- **Header geometry rules and the overlap sweep.** Planned as function modules checked against the MyLba / FirstUsable tables and the 20 cases of OverlappedPartitionTest.
- **GetKernelPreambleLen and GetVBlockHeaderSize** (kernel_image_fw.h 74-83). They compute byte lengths from cryptolib's per-algorithm key and signature sizes, and cryptolib is not in the repository. The blob lengths of VerifyKernel are therefore abstracted away with them.
- **The free of the signing key.** VerifyKernel's body is not in the repository. The model has the single free path its comments describe, so an early return that skips the free cannot be expressed, and no property is stated about it.
- **The MTD medium in TLC.** Selection's operators are the same on both media, so the one selection run uses GPT. `MCGptSelect_mtd.cfg` instantiates the MTD medium but is not a run. The GptSelectProofs theorems hold for both media.
- **A crash between the caller's two per-copy writes.** Planned: the claim to check is that a reload sees either the old or the new table.
- **Out of scope.** The flash timestamp store (only called from MtdFtsTest; its code is not in `src/`), the CRC primitive, RSA/SHA themselves (abstracted to who signed what) and the command-line tool (spec 1).
