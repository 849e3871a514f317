--------------------------- MODULE GptRedundancy ---------------------------
(***************************************************************************)
(* The redundancy engine of the GPT library: GptSanityCheck forms the      *)
(* valid_headers / valid_entries masks from the two copies of the header   *)
(* and of the entry array, GptRepair overwrites an invalid copy with the   *)
(* valid one.  The library (cgptlib.c) is not part of the sources; its     *)
(* behaviour is taken from spec.md section 4.3 and from what               *)
(* tests/cgptlib_test.c pins down (SanityCheckTest, HeaderSameTest).  The  *)
(* environment actions are the buffer edits those tests perform before    *)
(* calling the library.                                                    *)
(*                                                                         *)
(* Data abstraction.  An entry array is a model value of Tables (its 16    *)
(* KiB of bytes).  A header is a record: sane (signature, revision, size,  *)
(* entry size and count are well formed), crc (header_crc32 matches),     *)
(* my / alt / ent (which copy's location my_lba, alternate_lba and         *)
(* entries_lba name), fields (the remaining fields HeaderFieldsSame        *)
(* compares: size, usable LBAs, disk GUID, counts) and ecrc (the entry     *)
(* array whose CRC32 entries_crc32 holds; CRC32 is treated as injective).  *)
(***************************************************************************)
EXTENDS Naturals, FiniteSets

CONSTANTS
    Tables,     \* possible contents of an entry array
    Fields,     \* possible values of the compared header fields
    Misplaced,  \* pairs <<table, fields>>: a CRC-correct array that fails
                \* the region / overlap / duplicate-GUID checks
    T0, F0      \* the table and fields built by BuildTestGptData

ASSUME ConstAssumption ==
    /\ T0 \in Tables
    /\ F0 \in Fields
    /\ Misplaced \subseteq Tables \X Fields
    /\ <<T0, F0>> \notin Misplaced

VARIABLES
    h,              \* h[c]: header copy c (primary_header, secondary_header)
    e,              \* e[c]: entry array copy c
    valid_headers,  \* MASK_* as a subset of Copies
    valid_entries,
    modified,       \* GPT_MODIFIED_* bits as a set of <<structure, copy>>
    result,         \* return value of the last GptSanityCheck
    phase           \* "loaded", "checked" (after GptSanityCheck), "repaired"

vars == <<h, e, valid_headers, valid_entries, modified, result, phase>>

Primary == 1
Secondary == 2
Copies == {Primary, Secondary}
\* Mutant: the other copy computed off by one.
OtherOffByOne(c) == 2 - c

Other(c) == 3 - c

Header == [sane : BOOLEAN, crc : BOOLEAN, my : Copies, alt : Copies,
           ent : Copies, fields : Fields, ecrc : Tables]
ModBits == {"header", "entries"} \X Copies
Results == {"NONE", "SUCCESS", "INVALID_HEADERS", "INVALID_ENTRIES"}
Phases == {"loaded", "checked", "repaired"}

TypeOK ==
    /\ h \in [Copies -> Header]
    /\ e \in [Copies -> Tables]
    /\ valid_headers \subseteq Copies
    /\ valid_entries \subseteq Copies
    /\ modified \subseteq ModBits
    /\ result \in Results
    /\ phase \in Phases

-----------------------------------------------------------------------------
(* Validators *)

\* CheckHeader(h, is_secondary, drive_sectors) == 0: structure and CRC are
\* good, my_lba names this copy's location and the entry array lies on this
\* copy's side; alternate_lba is never looked at.
CheckHeader(hd, c) ==
    /\ hd.sane
    /\ hd.crc
    /\ hd.my = c
    /\ hd.ent = c

\* HeaderFieldsSame(h1, h2) == 0: every field but my_lba, alternate_lba and
\* entries_lba (and the header CRC) agrees.
HeaderFieldsSame(a, b) ==
    /\ a.fields = b.fields
    /\ a.ecrc = b.ecrc

\* CheckEntries(entries, header) == 0: CRC first, then the geometric checks.
EntriesOk(t, hd) ==
    /\ hd.ecrc = t
    /\ <<t, hd.fields>> \notin Misplaced

-----------------------------------------------------------------------------
(* GptSanityCheck, one operator per rule *)

HeadersChecked(hh) == {c \in Copies : CheckHeader(hh[c], c)}

\* The entry arrays are checked against the primary header when it is valid.
GoodHeader(hh, hv) == IF Primary \in hv THEN hh[Primary] ELSE hh[Secondary]

EntriesAgainst(ee, hd) == {c \in Copies : EntriesOk(ee[c], hd)}

\* Both headers valid, yet no array matches the primary: try the secondary.
FallsBack(hh, ee) ==
    /\ HeadersChecked(hh) = Copies
    /\ EntriesAgainst(ee, hh[Primary]) = {}

\* The header the entry arrays are finally judged against.
EntriesHeader(hh, ee) ==
    IF FallsBack(hh, ee) THEN hh[Secondary] ELSE GoodHeader(hh, HeadersChecked(hh))

EntriesChecked(hh, ee) == EntriesAgainst(ee, EntriesHeader(hh, ee))

\* ... and if the secondary matches an array, the primary header is dropped.
HeadersAfterFallback(hh, ee) ==
    IF FallsBack(hh, ee) /\ EntriesChecked(hh, ee) # {}
    THEN {Secondary}
    ELSE HeadersChecked(hh)

\* Two valid headers that differ: the primary wins.
HeadersAfterCompare(hh, ee) ==
    IF /\ HeadersAfterFallback(hh, ee) = Copies
       /\ ~HeaderFieldsSame(hh[Primary], hh[Secondary])
    THEN {Primary}
    ELSE HeadersAfterFallback(hh, ee)

Sanity(hh, ee) ==
    CASE HeadersChecked(hh) = {} ->
            [res |-> "INVALID_HEADERS", vh |-> {}, ve |-> {}]
      [] EntriesChecked(hh, ee) = {} ->
            [res |-> "INVALID_ENTRIES", vh |-> HeadersAfterFallback(hh, ee),
             ve |-> {}]
      [] OTHER ->
            [res |-> "SUCCESS", vh |-> HeadersAfterCompare(hh, ee),
             ve |-> EntriesChecked(hh, ee)]

-----------------------------------------------------------------------------
(* Initial state: BuildTestGptData, a good table in both copies *)

GoodHeaderAt(c) ==
    [sane |-> TRUE, crc |-> TRUE, my |-> c, alt |-> Other(c), ent |-> c,
     fields |-> F0, ecrc |-> T0]

Init ==
    /\ h = [c \in Copies |-> GoodHeaderAt(c)]
    /\ e = [c \in Copies |-> T0]
    /\ valid_headers = Copies
    /\ valid_entries = Copies
    /\ modified = {}
    /\ result = "NONE"
    /\ phase = "loaded"

-----------------------------------------------------------------------------
(* Buffer edits the test harness makes before calling the library *)

\* RefreshCrc32: both headers get the CRC of their own entry array, then
\* their own header CRC.
RefreshCrc32(hh, ee) ==
    [c \in Copies |-> [hh[c] EXCEPT !.ecrc = ee[c], !.crc = TRUE]]

\* gpt->primary_header[0]++: the signature and the CRC break.
CorruptHeader(c) ==
    /\ phase = "loaded"
    /\ h' = [h EXCEPT ![c].sane = FALSE, ![c].crc = FALSE]
    /\ UNCHANGED <<e, valid_headers, valid_entries, modified, result, phase>>

\* gpt->primary_entries[0]++ (or the array aliased to the other copy).
CorruptEntries(c, t) ==
    /\ phase = "loaded"
    /\ t # e[c]
    /\ e' = [e EXCEPT ![c] = t]
    /\ UNCHANGED <<h, valid_headers, valid_entries, modified, result, phase>>

\* h1->size++; RefreshCrc32(gpt): a header field changes, CRCs refreshed.
EditHeaderFields(c, f) ==
    /\ phase = "loaded"
    /\ f # h[c].fields
    /\ h' = RefreshCrc32([h EXCEPT ![c].fields = f], e)
    /\ UNCHANGED <<e, valid_headers, valid_entries, modified, result, phase>>

\* gpt->secondary_entries[0]++; RefreshCrc32(gpt): one half rewritten
\* consistently, as a partial update of the drive leaves it.
EditEntries(c, t) ==
    /\ phase = "loaded"
    /\ t # e[c]
    /\ e' = [e EXCEPT ![c] = t]
    /\ h' = RefreshCrc32(h, e')
    /\ UNCHANGED <<valid_headers, valid_entries, modified, result, phase>>

-----------------------------------------------------------------------------
(* The library *)

GptSanityCheck ==
    LET r == Sanity(h, e) IN
    /\ valid_headers' = r.vh
    /\ valid_entries' = r.ve
    /\ result' = r.res
    /\ phase' = "checked"
    /\ UNCHANGED <<h, e, modified>>

\* Mutant: the valid copy's bytes taken as they are, locations unpatched.
RepairedHeaderNoPatch(src, c) == [src EXCEPT !.crc = TRUE]

\* The invalid copy gets the valid copy's bytes with its own locations
\* patched in and its header CRC recomputed.
RepairedHeader(src, c) ==
    [src EXCEPT !.my = c, !.alt = Other(c), !.ent = c, !.crc = TRUE]

RepairedHeaders(hh, vh) ==
    [c \in Copies |-> IF c \in vh THEN hh[c] ELSE RepairedHeader(hh[Other(c)], c)]

RepairedEntries(ee, ve) ==
    [c \in Copies |-> IF c \in ve THEN ee[c] ELSE ee[Other(c)]]

\* Mutant: the bit of the copy repaired from recorded instead.
RepairBitsSwapped(vh, ve) ==
    {<<"header", Other(c)>> : c \in Copies \ vh}
        \cup {<<"entries", Other(c)>> : c \in Copies \ ve}

RepairBits(vh, ve) ==
    {<<"header", c>> : c \in Copies \ vh} \cup {<<"entries", c>> : c \in Copies \ ve}

GptRepair ==
    /\ phase = "checked"
    /\ phase' = "repaired"
    /\ \/ /\ valid_headers = {} \/ valid_entries = {}
          /\ UNCHANGED <<h, e, modified>>
       \/ /\ valid_headers # {}
          /\ valid_entries # {}
          /\ h' = RepairedHeaders(h, valid_headers)
          /\ e' = RepairedEntries(e, valid_entries)
          /\ modified' = modified \cup RepairBits(valid_headers, valid_entries)
    /\ UNCHANGED <<valid_headers, valid_entries, result>>

Next ==
    \/ \E c \in Copies : CorruptHeader(c)
    \/ \E c \in Copies, t \in Tables : CorruptEntries(c, t)
    \/ \E c \in Copies, f \in Fields : EditHeaderFields(c, f)
    \/ \E c \in Copies, t \in Tables : EditEntries(c, t)
    \/ GptSanityCheck
    \/ GptRepair

Spec == Init /\ [][Next]_vars

-----------------------------------------------------------------------------
(* Properties *)

\* After a successful GptSanityCheck, GptRepair leaves buffers that a new
\* GptSanityCheck finds valid in both copies, headers and entries alike
\* (spec 4.3: "a subsequent SanityCheck must report BOTH"; SanityCheckTest).
RepairRestores ==
    phase = "repaired" /\ result = "SUCCESS" =>
        Sanity(h, e) = [res |-> "SUCCESS", vh |-> Copies, ve |-> Copies]

\* GptRepair adds to modified exactly the header and entry copies whose
\* contents it changed, so a caller that writes back the flagged copies
\* writes every repaired copy and only those (SanityCheckTest checks
\* gpt->modified after each repair).
RepairModifiedExactStep ==
    phase = "checked" /\ phase' = "repaired" =>
        modified' = modified
                    \cup {<<"header", c>> : c \in {d \in Copies : h'[d] # h[d]}}
                    \cup {<<"entries", c>> : c \in {d \in Copies : e'[d] # e[d]}}

RepairModifiedExact == [][RepairModifiedExactStep]_vars

\* Between GptSanityCheck and the next step, the masks and the return value
\* are what a check of the current buffers gives: the strengthening of
\* RepairRestores that makes it inductive.
MasksCurrent ==
    phase = "checked" =>
        [res |-> result, vh |-> valid_headers, ve |-> valid_entries] = Sanity(h, e)

IInv == TypeOK /\ MasksCurrent /\ RepairRestores

\* Spec 9: valid_entries is the union, over every valid header, of the entry
\* arrays that header validates.  SanityCheckTest expects otherwise.
SpecCrossProduct ==
    phase = "checked" /\ result = "SUCCESS" =>
        valid_entries = {c \in Copies :
                            \E hc \in HeadersChecked(h) : EntriesOk(e[c], h[hc])}
=============================================================================
