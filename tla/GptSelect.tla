----------------------------- MODULE GptSelect -----------------------------
(***************************************************************************)
(* Kernel selection: GptInit starts a session, GptNextKernelEntry offers   *)
(* the kernel entries in priority order, GptUpdateKernelEntry records a    *)
(* boot attempt (TRY) or a bad kernel (BAD) in both entry copies.  The     *)
(* library code is not in the sources; the behaviour is spec.md 4.5 as     *)
(* tests/cgptlib_test.c pins it down (GetNext*Test, GptUpdateTest,         *)
(* UpdateInvalidKernelTypeTest) and its MTD twin (MtdGetNext*Test,        *)
(* MtdUpdateTest): MTD keeps one copy and a one-bit modified flag.  Entries *)
(* are the attribute fields the selection reads: type, priority, tries,    *)
(* successful; "other" is the unused type (GPT) or the firmware type (MTD). *)
(***************************************************************************)
EXTENDS Naturals, Sequences, FiniteSets

CONSTANTS
    Medium,     \* "gpt" (GptData) or "mtd" (MtdData)
    N,          \* number of partition entries in play
    MaxPrio,    \* largest priority the initial tables use (field is 4 bits)
    MaxTries    \* largest tries count the initial tables use (4 bits)

ASSUME SelectAssumption ==
    /\ Medium \in {"gpt", "mtd"}
    /\ N \in Nat \ {0}
    /\ MaxPrio \in 1..15
    /\ MaxTries \in 1..15

VARIABLES
    entries,         \* primary entry array: entries[i] for i \in Idx
    entries2,        \* secondary entry array (GPT only)
    current_kernel,  \* index of the entry last offered, or NotFound
    offered,         \* entries offered since GptInit (session state)
    modified,        \* GPT_MODIFIED_* bits set since the table was loaded
    ret,             \* return value of the last call
    (* observation variables, used only by the properties *)
    loaded,          \* the entry array as the caller loaded it
    session_start,   \* the entry array when the session began
    offers           \* the entries offered this session, in order, with
                     \* their priority at the time

vars == <<entries, entries2, current_kernel, offered, modified, ret,
          loaded, session_start, offers>>

Idx == 1..N
NotFound == 0                 \* CGPT_KERNEL_ENTRY_NOT_FOUND (-1)
Kinds == {"TRY", "BAD", "OTHER"}   \* GPT_UPDATE_ENTRY_TRY, _BAD, anything else
\* What an update that changes the table sets in modified: GPT_MODIFIED_*
\* 0x0F, or the single MTD flag 1.
AllBits == IF Medium = "gpt" THEN {"header1", "header2", "entries1", "entries2"}
                             ELSE {"mtd"}

Entry == [type : {"kernel", "other"}, priority : 0..15, tries : 0..15,
          successful : 0..1]
Returns == {"NONE", "SUCCESS", "NO_VALID_KERNEL", "INVALID_UPDATE_TYPE"}

TypeOK ==
    /\ entries \in [Idx -> Entry]
    /\ entries2 \in [Idx -> Entry]
    /\ current_kernel \in Idx \cup {NotFound}
    /\ offered \subseteq Idx
    /\ modified \subseteq {"header1", "header2", "entries1", "entries2", "mtd"}
    /\ ret \in Returns
    /\ loaded \in [Idx -> Entry]
    /\ session_start \in [Idx -> Entry]
    /\ offers \in Seq([idx : Idx, priority : 0..15])

-----------------------------------------------------------------------------
(* GptNextKernelEntry *)

\* A kernel entry may be offered while it is successful or has tries left
\* and its priority is not 0 (GetNextPrioTest: a priority-0 kernel is never
\* offered, even when successful).
Bootable(t, i) ==
    /\ t[i].type = "kernel"
    /\ t[i].successful = 1 \/ t[i].tries > 0
    /\ t[i].priority > 0

\* Mutant: a scan that resumes after the current entry instead of skipping
\* the offered ones.
CandidatesAfterCurrent(t, done) ==
    {i \in Idx \ done : Bootable(t, i) /\ i > current_kernel}

Candidates(t, done) == {i \in Idx \ done : Bootable(t, i)}

\* Mutant: ties go to the highest index.
BestHighIndex(t, S) ==
    CHOOSE i \in S : \A j \in S :
        \/ t[j].priority < t[i].priority
        \/ t[j].priority = t[i].priority /\ i >= j

\* The highest priority wins; ties go to the lowest index.
Best(t, S) ==
    CHOOSE i \in S : \A j \in S :
        \/ t[j].priority < t[i].priority
        \/ t[j].priority = t[i].priority /\ i <= j

GptNextKernelEntry ==
    /\ \/ /\ Candidates(entries, offered) # {}
          /\ LET i == Best(entries, Candidates(entries, offered)) IN
             /\ current_kernel' = i
             /\ offered' = offered \cup {i}
             /\ offers' = Append(offers, [idx |-> i, priority |-> entries[i].priority])
             /\ ret' = "SUCCESS"
       \/ /\ Candidates(entries, offered) = {}
          /\ current_kernel' = NotFound
          /\ ret' = "NO_VALID_KERNEL"
          /\ UNCHANGED <<offered, offers>>
    /\ UNCHANGED <<entries, entries2, modified, loaded, session_start>>

-----------------------------------------------------------------------------
(* GptUpdateKernelEntry *)

\* Mutants: the tries = 0 guard dropped, the decrement done in a signed int
\* (AfterTryUnderflow) or in the 4-bit field (AfterTryWrap).
AfterTryUnderflow(en) ==
    IF en.successful = 1 THEN en
    ELSE [en EXCEPT !.tries = en.tries - 1,
                    !.priority = IF en.tries = 1 THEN 0 ELSE en.priority]

AfterTryWrap(en) ==
    IF en.successful = 1 THEN en
    ELSE [en EXCEPT !.tries = (en.tries + 15) % 16,
                    !.priority = IF en.tries = 1 THEN 0 ELSE en.priority]

\* TRY: a successful entry is left alone; otherwise one try is used up, and
\* using the last one also drops the priority to 0.
AfterTry(en) ==
    IF en.successful = 1 \/ en.tries = 0 THEN en
    ELSE [en EXCEPT !.tries = en.tries - 1,
                    !.priority = IF en.tries = 1 THEN 0 ELSE en.priority]

\* BAD: a successful entry cannot be marked bad; otherwise successful, tries
\* and priority are cleared.
AfterBad(en) ==
    IF en.successful = 1 THEN en
    ELSE [en EXCEPT !.successful = 0, !.tries = 0, !.priority = 0]

Updated(en, kind) == IF kind = "TRY" THEN AfterTry(en) ELSE AfterBad(en)

\* The call is refused unless an entry is current, it is a kernel entry and
\* the update type is TRY or BAD.
UpdateAccepted(kind) ==
    /\ current_kernel # NotFound
    /\ entries[current_kernel].type = "kernel"
    /\ kind \in {"TRY", "BAD"}

\* Mutant: the modified bits set by every accepted update.
ModifiedAlways(old, new) == modified \cup AllBits

\* All four structures are marked modified when the entry's bytes changed.
ModifiedAfter(old, new) == IF new # old THEN modified \cup AllBits ELSE modified

GptUpdateKernelEntry(kind) ==
    /\ \/ /\ ~UpdateAccepted(kind)
          /\ ret' = "INVALID_UPDATE_TYPE"
          /\ UNCHANGED <<entries, entries2, modified>>
       \/ /\ UpdateAccepted(kind)
          /\ LET i   == current_kernel
                 new == Updated(entries[i], kind) IN
             /\ entries' = [entries EXCEPT ![i] = new]
             /\ entries2' = IF Medium = "gpt" THEN [entries2 EXCEPT ![i] = new]
                                               ELSE entries2
             /\ modified' = ModifiedAfter(entries[i], new)
          /\ ret' = "SUCCESS"
    /\ UNCHANGED <<current_kernel, offered, loaded, session_start, offers>>

-----------------------------------------------------------------------------
(* GptInit: a new session over the same table *)

GptInit ==
    /\ current_kernel' = NotFound
    /\ offered' = {}
    /\ offers' = << >>
    /\ session_start' = entries
    /\ ret' = "SUCCESS"
    /\ UNCHANGED <<entries, entries2, modified, loaded>>

-----------------------------------------------------------------------------
(* The tables the tests build: FillEntry on a copy of BuildTestGptData, *)
(* RefreshCrc32, GptInit, gpt->modified = 0.                           *)

InitEntry ==
    [type : {"kernel"}, priority : 0..MaxPrio, tries : 0..MaxTries,
     successful : 0..1]
    \cup {[type |-> "other", priority |-> 0, tries |-> 0, successful |-> 0]}

Init ==
    /\ entries \in [Idx -> InitEntry]
    /\ entries2 = entries
    /\ current_kernel = NotFound
    /\ offered = {}
    /\ modified = {}
    /\ ret = "NONE"
    /\ loaded = entries
    /\ session_start = entries
    /\ offers = << >>

Next ==
    \/ GptNextKernelEntry
    \/ \E kind \in Kinds : GptUpdateKernelEntry(kind)
    \/ GptInit

Spec == Init /\ [][Next]_vars

-----------------------------------------------------------------------------
(* Properties *)

\* Within a session kernels are offered by decreasing priority, equal
\* priorities by increasing index, whatever updates happen in between
\* (GetNextPrioTest: B, Y, A for priorities 3, 4, 0, 4).
OfferOrder ==
    \A k, l \in 1..Len(offers) : k < l =>
        \/ offers[k].priority > offers[l].priority
        \/ /\ offers[k].priority = offers[l].priority
           /\ offers[k].idx < offers[l].idx

\* "No valid kernel" is only answered once every kernel that was bootable
\* when the session began has been offered (no kernel is skipped).
NoKernelSkipped ==
    ret = "NO_VALID_KERNEL" =>
        \A i \in Idx : Bootable(session_start, i) => i \in offered

\* Both GPT entry copies stay identical, and the modified bits are set exactly
\* when the entry array differs from what was loaded: the caller writes the
\* table back if and only if an update changed it (GptUpdateTest).
MirrorAndModified ==
    /\ Medium = "gpt" => entries2 = entries
    /\ (modified = {}) <=> (entries = loaded)

\* The step relation of AttributesOnlyDecay.
Decays ==
    \A i \in Idx :
        /\ entries'[i].priority <= entries[i].priority
        /\ entries'[i].tries <= entries[i].tries
        /\ entries'[i].successful <= entries[i].successful
        /\ entries[i].successful = 1 => entries'[i] = entries[i]

\* No step raises an entry's priority, tries or successful flag, and a
\* successful entry is never changed (TRY and BAD leave it alone).
AttributesOnlyDecay == [][Decays]_vars

(* The strengthening that makes OfferOrder, NoKernelSkipped and           *)
(* MirrorAndModified inductive.                                           *)

\* offered is the set of indices recorded in offers.
OfferedIsOffers == offered = {offers[k].idx : k \in 1..Len(offers)}

\* The current entry, if any, was offered in this session.
CurrentOffered == current_kernel \in offered \cup {NotFound}

\* Every bootable entry not yet offered ranks after every offer so far.
FrontierBelow ==
    \A k \in 1..Len(offers), j \in Idx \ offered :
        Bootable(entries, j) =>
            \/ entries[j].priority < offers[k].priority
            \/ /\ entries[j].priority = offers[k].priority
               /\ offers[k].idx < j

\* Only offered entries can have been updated since the session began.
UntouchedSinceStart == \A j \in Idx \ offered : entries[j] = session_start[j]

\* A NO_VALID_KERNEL answer still describes the table.
ExhaustedNow == ret = "NO_VALID_KERNEL" => Candidates(entries, offered) = {}

\* Entries keep their type and only lose attributes relative to the loaded
\* table, and modified is all or nothing.
BelowLoaded ==
    /\ \A i \in Idx :
          /\ entries[i].type = loaded[i].type
          /\ entries[i].priority <= loaded[i].priority
          /\ entries[i].tries <= loaded[i].tries
          /\ entries[i].successful <= loaded[i].successful
    /\ modified \in {{}, AllBits}

SInv ==
    /\ TypeOK
    /\ OfferedIsOffers
    /\ CurrentOffered
    /\ FrontierBelow
    /\ UntouchedSinceStart
    /\ ExhaustedNow
    /\ BelowLoaded
    /\ OfferOrder
    /\ NoKernelSkipped
    /\ MirrorAndModified

\* Spec 4.5: "no valid kernel" is answered only after every kernel entry that
\* is successful or has tries left was offered.  GetNextPrioTest expects a
\* successful kernel of priority 0 never to be offered.
SpecActiveOffered ==
    ret = "NO_VALID_KERNEL" =>
        \A i \in Idx :
            /\ session_start[i].type = "kernel"
            /\ session_start[i].successful = 1 \/ session_start[i].tries > 0
            => i \in offered
=============================================================================
