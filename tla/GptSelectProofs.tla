--------------------------- MODULE GptSelectProofs ---------------------------
(***************************************************************************)
(* Proofs about the kernel selection state machine (GptSelect), for every  *)
(* medium, number of entries and attribute bound allowed by                *)
(* SelectAssumption.  The order and completeness of the offers and the     *)
(* mirror / modified invariant follow from the inductive invariant SInv.   *)
(***************************************************************************)
EXTENDS GptSelect, SequenceTheorems, WellFoundedInduction, TLAPS

-----------------------------------------------------------------------------
(* Lemmas about the operators of the model *)

\* The less-than relation on Nat as a set of pairs, for WFMin.
NatLess == OpToRel(<, Nat)

LEMMA NatLessFacts ==
    /\ IsWellFoundedOn(NatLess, Nat)
    /\ \A x, y \in Nat : <<y, x>> \in NatLess <=> y < x
<1>1. IsWellFoundedOn(NatLess, Nat)
  BY NatLessThanWellFounded DEF NatLess
<1>2. \A x, y \in Nat : <<y, x>> \in NatLess <=> y < x
  BY DEF NatLess, OpToRel
<1> QED
  BY <1>1, <1>2

\* Best picks a member of a non-empty set of entries that no other member
\* outranks: GptNextKernelEntry always has a well-defined answer.
LEMMA BestSpec ==
    ASSUME NEW t \in [Idx -> Entry], NEW S \in SUBSET Idx, S # {}
    PROVE  /\ Best(t, S) \in S
           /\ \A j \in S :
                 \/ t[j].priority < t[Best(t, S)].priority
                 \/ /\ t[j].priority = t[Best(t, S)].priority
                    /\ Best(t, S) <= j
<1>1. IsWellFoundedOn(NatLess, Nat)
  BY NatLessFacts
<1>2. \A x, y \in Nat : <<y, x>> \in NatLess <=> y < x
  BY NatLessFacts
<1>3. \A i \in S : t[i].priority \in 0..15
  BY DEF Entry, Idx
<1> DEFINE T1 == {15 - t[i].priority : i \in S}
<1>4. T1 \subseteq Nat /\ T1 # {}
  BY <1>3 DEF T1
<1>5. PICK m \in T1 : \A y \in T1 : ~(<<y, m>> \in NatLess)
  BY <1>1, <1>4, WFMin
<1>6. \A i \in S : 15 - t[i].priority >= m
  <2> SUFFICES ASSUME NEW i \in S PROVE 15 - t[i].priority >= m
    OBVIOUS
  <2>1. 15 - t[i].priority \in T1
    BY DEF T1
  <2>2. ~(<<15 - t[i].priority, m>> \in NatLess)
    BY <1>5, <2>1
  <2> QED
    BY <1>2, <1>3, <1>4, <2>2
<1> DEFINE T2 == {i \in S : t[i].priority = 15 - m}
<1>7. T2 \subseteq Nat /\ T2 # {}
  <2>1. PICK i1 \in S : m = 15 - t[i1].priority
    BY <1>5 DEF T1
  <2>2. i1 \in T2
    BY <2>1, <1>3 DEF T2
  <2>3. T2 \subseteq S
    BY DEF T2
  <2>4. S \subseteq Nat
    BY DEF Idx
  <2> QED
    BY <2>2, <2>3, <2>4
<1>8. PICK i0 \in T2 : \A y \in T2 : ~(<<y, i0>> \in NatLess)
  BY <1>1, <1>7, WFMin
<1>9. \A j \in S :
         \/ t[j].priority < t[i0].priority
         \/ t[j].priority = t[i0].priority /\ i0 <= j
  <2> SUFFICES ASSUME NEW j \in S
               PROVE  \/ t[j].priority < t[i0].priority
                      \/ t[j].priority = t[i0].priority /\ i0 <= j
    OBVIOUS
  <2>0. t[i0].priority = 15 - m /\ i0 \in S
    BY <1>8 DEF T2
  <2>1. t[j].priority <= t[i0].priority
    BY <1>3, <1>6, <2>0
  <2>2. CASE t[j].priority = t[i0].priority
    <3>0. t[i0].priority = 15 - m
      BY <1>8 DEF T2
    <3>1. j \in T2
      BY <2>2, <3>0 DEF T2
    <3>2. ~(j < i0)
      BY <3>1, <1>2, <1>7, <1>8
    <3> QED
      BY <2>2, <3>2, <2>0 DEF Idx
  <2> QED
    BY <2>1, <2>2, <2>0, <1>3
<1>10. i0 \in S
  BY <1>8 DEF T2
<1> QED
  BY <1>9, <1>10 DEF Best

\* An entry is the record of its four fields.
LEMMA EntryEta ==
    ASSUME NEW en \in Entry
    PROVE  en = [type |-> en.type, priority |-> en.priority, tries |-> en.tries,
                 successful |-> en.successful]
BY DEF Entry

\* TRY on an entry: a successful or exhausted entry is returned as is,
\* otherwise tries drops by one.
LEMMA AfterTryFacts ==
    ASSUME NEW en \in Entry
    PROVE  /\ AfterTry(en) \in Entry
           /\ AfterTry(en).type = en.type
           /\ AfterTry(en).priority <= en.priority
           /\ AfterTry(en).tries <= en.tries
           /\ AfterTry(en).successful <= en.successful
           /\ en.successful = 1 => AfterTry(en) = en
           /\ AfterTry(en) # en => AfterTry(en).tries < en.tries
<1>0. en.tries \in 0..15 /\ en.priority \in 0..15 /\ en.successful \in 0..1
  BY DEF Entry
<1>1. CASE en.successful = 1 \/ en.tries = 0
  <2>1. AfterTry(en) = en
    BY <1>1 DEF AfterTry
  <2> QED
    BY <2>1, <1>0
<1>2. CASE ~(en.successful = 1 \/ en.tries = 0)
  <2> DEFINE new == AfterTry(en)
  <2>1. new = [en EXCEPT !.tries = en.tries - 1,
                         !.priority = IF en.tries = 1 THEN 0 ELSE en.priority]
    BY <1>2 DEF AfterTry
  <2>2. en.tries \in 1..15 /\ en.priority \in 0..15 /\ en.successful = 0
    BY <1>2 DEF Entry
  <2>3. new.tries = en.tries - 1 /\ new.type = en.type
        /\ new.successful = en.successful
        /\ new.priority \in {0, en.priority}
    BY <2>1 DEF Entry
  <2>4. new = [type |-> en.type,
               priority |-> IF en.tries = 1 THEN 0 ELSE en.priority,
               tries |-> en.tries - 1, successful |-> en.successful]
    BY <2>1, EntryEta
  <2>5. new \in Entry
    BY <2>2, <2>4 DEF Entry
  <2> QED
    BY <2>2, <2>3, <2>5
<1> QED
  BY <1>1, <1>2

\* BAD on an entry: a successful entry is returned as is, otherwise its
\* successful flag, tries and priority become 0.
LEMMA AfterBadFacts ==
    ASSUME NEW en \in Entry
    PROVE  /\ AfterBad(en) \in Entry
           /\ AfterBad(en).type = en.type
           /\ AfterBad(en).priority <= en.priority
           /\ AfterBad(en).tries <= en.tries
           /\ AfterBad(en).successful <= en.successful
           /\ en.successful = 1 => AfterBad(en) = en
           /\ AfterBad(en) # en =>
                 AfterBad(en).priority < en.priority \/ AfterBad(en).tries < en.tries
<1>0. en.tries \in 0..15 /\ en.priority \in 0..15 /\ en.successful \in 0..1
  BY DEF Entry
<1>1. CASE en.successful = 1
  <2>1. AfterBad(en) = en
    BY <1>1 DEF AfterBad
  <2> QED
    BY <2>1, <1>0
<1>2. CASE en.successful # 1
  <2> DEFINE new == AfterBad(en)
  <2>1. new = [en EXCEPT !.successful = 0, !.tries = 0, !.priority = 0]
    BY <1>2 DEF AfterBad
  <2>2. en.successful = 0 /\ en.tries \in 0..15 /\ en.priority \in 0..15
    BY <1>2 DEF Entry
  <2>3. new.type = en.type /\ new.successful = 0 /\ new.tries = 0
        /\ new.priority = 0
    BY <2>1 DEF Entry
  <2>6. new = [type |-> en.type, priority |-> 0, tries |-> 0, successful |-> 0]
    BY <2>1, EntryEta
  <2>4. new \in Entry
    BY <2>6 DEF Entry
  <2>5. en.tries = 0 /\ en.priority = 0 => new = en
    BY <2>2, <2>6, EntryEta
  <2> QED
    BY <2>2, <2>3, <2>4, <2>5
<1> QED
  BY <1>1, <1>2

\* What TRY and BAD do to an entry: its type stays, no attribute grows, a
\* successful entry is left alone, and a change lowers some attribute.
LEMMA UpdatedFacts ==
    ASSUME NEW en \in Entry, NEW kind \in {"TRY", "BAD"}
    PROVE  /\ Updated(en, kind) \in Entry
           /\ Updated(en, kind).type = en.type
           /\ Updated(en, kind).priority <= en.priority
           /\ Updated(en, kind).tries <= en.tries
           /\ Updated(en, kind).successful <= en.successful
           /\ en.successful = 1 => Updated(en, kind) = en
           /\ Updated(en, kind) # en =>
                 \/ Updated(en, kind).priority < en.priority
                 \/ Updated(en, kind).tries < en.tries
                 \/ Updated(en, kind).successful < en.successful
<1>1. CASE kind = "TRY"
  <2>1. Updated(en, kind) = AfterTry(en)
    BY <1>1 DEF Updated
  <2> QED
    BY <2>1, AfterTryFacts
<1>2. CASE kind = "BAD"
  <2>1. Updated(en, kind) = AfterBad(en)
    BY <1>2 DEF Updated
  <2> QED
    BY <2>1, AfterBadFacts
<1> QED
  BY <1>1, <1>2
-----------------------------------------------------------------------------
(* The inductive invariant SInv, one lemma per action *)

OfferRec == [idx : Idx, priority : 0..15]

\* The initial tables satisfy SInv.
LEMMA InitSInv == Init => SInv
<1> SUFFICES ASSUME Init PROVE SInv
  OBVIOUS
<1>1. InitEntry \subseteq Entry
  BY SelectAssumption DEF InitEntry, Entry
<1>2. TypeOK
  BY <1>1 DEF Init, TypeOK, Returns
<1>3. OfferedIsOffers /\ CurrentOffered /\ FrontierBelow /\ UntouchedSinceStart
      /\ ExhaustedNow /\ OfferOrder /\ NoKernelSkipped
  BY DEF Init, OfferedIsOffers, CurrentOffered, FrontierBelow,
         UntouchedSinceStart, ExhaustedNow, OfferOrder, NoKernelSkipped
<1>4. BelowLoaded /\ MirrorAndModified
  BY <1>2 DEF Init, BelowLoaded, MirrorAndModified, TypeOK, Entry
<1> QED
  BY <1>2, <1>3, <1>4 DEF SInv

\* An offer keeps SInv: the offered entry ranks after every earlier offer
\* (FrontierBelow) and before every entry still to be offered (BestSpec).
LEMMA OfferStep ==
    ASSUME SInv, GptNextKernelEntry,
           Candidates(entries, offered) # {}
    PROVE  SInv'
<1> DEFINE C == Candidates(entries, offered)
           i == Best(entries, C)
           rec == [idx |-> i, priority |-> entries[i].priority]
           n == Len(offers)
<1>0. TypeOK
  BY DEF SInv
<1>1. C \subseteq Idx /\ C # {}
  BY DEF Candidates
<1>2. /\ i \in C
      /\ \A j \in C : \/ entries[j].priority < entries[i].priority
                       \/ /\ entries[j].priority = entries[i].priority
                          /\ i <= j
  BY <1>0, <1>1, BestSpec DEF TypeOK
<1>3. i \in Idx /\ i \notin offered /\ Bootable(entries, i)
  BY <1>2 DEF Candidates
<1>4. /\ current_kernel' = i
      /\ offered' = offered \cup {i}
      /\ offers' = Append(offers, rec)
      /\ ret' = "SUCCESS"
      /\ UNCHANGED <<entries, entries2, modified, loaded, session_start>>
  BY DEF GptNextKernelEntry
<1>5. rec \in OfferRec
  BY <1>0, <1>3 DEF TypeOK, Entry, OfferRec
<1>6. /\ offers \in Seq(OfferRec)
      /\ Len(offers') = n + 1
      /\ \A k \in 1..n : offers'[k] = offers[k]
      /\ offers'[n + 1] = rec
      /\ offers' \in Seq(OfferRec)
  <2>1. offers \in Seq(OfferRec)
    BY <1>0 DEF TypeOK, OfferRec
  <2> QED
    BY <1>4, <1>5, <2>1, AppendProperties
<1>7. TypeOK'
  BY <1>0, <1>3, <1>4, <1>6 DEF TypeOK, Returns, OfferRec
<1>8. OfferedIsOffers'
  <2>1. offered = {offers[k].idx : k \in 1..n}
    BY DEF SInv, OfferedIsOffers
  <2>2. {offers'[k].idx : k \in 1..n + 1}
          = {offers'[k].idx : k \in 1..n} \cup {offers'[n + 1].idx}
    BY <1>6
  <2>3. {offers'[k].idx : k \in 1..n} = {offers[k].idx : k \in 1..n}
    BY <1>6
  <2>4. offers'[n + 1].idx = i
    BY <1>6
  <2>5. offered' = {offers'[k].idx : k \in 1..n + 1}
    BY <1>4, <2>1, <2>2, <2>3, <2>4
  <2> QED
    BY <1>6, <2>5 DEF OfferedIsOffers
<1>9. CurrentOffered'
  BY <1>4 DEF CurrentOffered
<1>10. FrontierBelow'
  <2> SUFFICES ASSUME NEW k \in 1..Len(offers'), NEW j \in Idx \ offered',
                      Bootable(entries', j)
               PROVE  \/ entries'[j].priority < offers'[k].priority
                      \/ /\ entries'[j].priority = offers'[k].priority
                         /\ offers'[k].idx < j
    BY DEF FrontierBelow
  <2>1. j \in Idx \ offered /\ j # i /\ Bootable(entries, j)
    BY <1>4 DEF Bootable
  <2>2. CASE k \in 1..n
    <3>1. \/ entries[j].priority < offers[k].priority
          \/ /\ entries[j].priority = offers[k].priority
             /\ offers[k].idx < j
      BY <2>1, <2>2 DEF SInv, FrontierBelow
    <3> QED
      BY <3>1, <2>2, <1>4, <1>6
  <2>3. CASE k = n + 1
    <3>1. j \in C
      BY <2>1 DEF Candidates
    <3>2. \/ entries[j].priority < entries[i].priority
          \/ entries[j].priority = entries[i].priority /\ i < j
      BY <3>1, <1>2, <2>1, <1>3 DEF Idx
    <3> QED
      BY <3>2, <2>3, <1>4, <1>6
  <2> QED
    BY <2>2, <2>3, <1>6
<1>11. UntouchedSinceStart'
  BY <1>4 DEF SInv, UntouchedSinceStart
<1>12. ExhaustedNow' /\ NoKernelSkipped'
  BY <1>4 DEF ExhaustedNow, NoKernelSkipped
<1>13. BelowLoaded' /\ MirrorAndModified'
  BY <1>4 DEF SInv, BelowLoaded, MirrorAndModified, AllBits
<1>14. OfferOrder'
  <2> SUFFICES ASSUME NEW k \in 1..Len(offers'), NEW l \in 1..Len(offers'), k < l
               PROVE  \/ offers'[k].priority > offers'[l].priority
                      \/ /\ offers'[k].priority = offers'[l].priority
                         /\ offers'[k].idx < offers'[l].idx
    BY DEF OfferOrder
  <2>1. CASE l \in 1..n
    BY <2>1, <1>6 DEF SInv, OfferOrder
  <2>2. CASE l = n + 1
    <3>1. k \in 1..n
      BY <2>2, <1>6
    <3>2. \/ entries[i].priority < offers[k].priority
          \/ /\ entries[i].priority = offers[k].priority
             /\ offers[k].idx < i
      BY <3>1, <1>3 DEF SInv, FrontierBelow
    <3> QED
      BY <3>1, <3>2, <2>2, <1>6
  <2> QED
    BY <2>1, <2>2, <1>6
<1> QED
  BY <1>7, <1>8, <1>9, <1>10, <1>11, <1>12, <1>13, <1>14 DEF SInv
\* NO_VALID_KERNEL keeps SInv: an entry never offered is untouched since the
\* session began, so a bootable one would still be a candidate.
LEMMA ExhaustStep ==
    ASSUME SInv, GptNextKernelEntry,
           Candidates(entries, offered) = {}
    PROVE  SInv'
<1>1. /\ current_kernel' = NotFound
      /\ ret' = "NO_VALID_KERNEL"
      /\ UNCHANGED <<offered, offers, entries, entries2, modified, loaded,
                     session_start>>
  BY DEF GptNextKernelEntry
<1>2. TypeOK' /\ CurrentOffered'
  BY <1>1 DEF SInv, TypeOK, Returns, CurrentOffered, NotFound
<1>3. OfferedIsOffers' /\ FrontierBelow' /\ UntouchedSinceStart' /\ OfferOrder'
      /\ BelowLoaded' /\ MirrorAndModified'
  BY <1>1 DEF SInv, OfferedIsOffers, FrontierBelow, UntouchedSinceStart,
              OfferOrder, BelowLoaded, MirrorAndModified, Bootable, AllBits
<1>4. ExhaustedNow'
  BY <1>1 DEF ExhaustedNow, Candidates
<1>5. NoKernelSkipped'
  <2> SUFFICES ASSUME NEW j \in Idx, Bootable(session_start, j), j \notin offered
               PROVE  FALSE
    BY <1>1 DEF NoKernelSkipped
  <2>1. entries[j] = session_start[j]
    BY DEF SInv, UntouchedSinceStart
  <2>2. j \in Candidates(entries, offered)
    BY <2>1 DEF Candidates, Bootable
  <2> QED
    BY <2>2
<1> QED
  BY <1>2, <1>3, <1>4, <1>5 DEF SInv

\* A refused update changes nothing but the return value.
LEMMA RejectStep ==
    ASSUME SInv, NEW kind \in Kinds, GptUpdateKernelEntry(kind),
           ~UpdateAccepted(kind)
    PROVE  SInv'
<1>1. /\ ret' = "INVALID_UPDATE_TYPE"
      /\ UNCHANGED <<entries, entries2, modified, current_kernel, offered,
                     loaded, session_start, offers>>
  BY DEF GptUpdateKernelEntry
<1> QED
  BY <1>1 DEF SInv, TypeOK, Returns, OfferedIsOffers, CurrentOffered,
              FrontierBelow, UntouchedSinceStart, ExhaustedNow, BelowLoaded,
              OfferOrder, NoKernelSkipped, MirrorAndModified, Bootable,
              Candidates, AllBits

\* The attribute fields of an entry are natural numbers.
LEMMA EntryFieldsNat ==
    ASSUME NEW en \in Entry
    PROVE  /\ en.priority \in Nat /\ en.tries \in Nat /\ en.successful \in Nat
BY DEF Entry

\* An accepted TRY or BAD changes only the current entry, which was offered,
\* in both copies; the entry only loses attributes, so the table differs
\* from the loaded one exactly when modified is set.
LEMMA AcceptStep ==
    ASSUME SInv, NEW kind \in Kinds, GptUpdateKernelEntry(kind),
           UpdateAccepted(kind)
    PROVE  SInv'
<1> DEFINE i == current_kernel
           new == Updated(entries[i], kind)
<1>0. TypeOK
  BY DEF SInv
<1>1. i \in offered /\ i \in Idx /\ kind \in {"TRY", "BAD"}
  BY <1>0 DEF SInv, CurrentOffered, UpdateAccepted, TypeOK, NotFound, Idx
<1>2. /\ entries' = [entries EXCEPT ![i] = new]
      /\ entries2' = IF Medium = "gpt" THEN [entries2 EXCEPT ![i] = new]
                                        ELSE entries2
      /\ modified' = ModifiedAfter(entries[i], new)
      /\ ret' = "SUCCESS"
      /\ UNCHANGED <<current_kernel, offered, loaded, session_start, offers>>
  BY DEF GptUpdateKernelEntry
<1>3. /\ new \in Entry
      /\ new.type = entries[i].type
      /\ new.priority <= entries[i].priority
      /\ new.tries <= entries[i].tries
      /\ new.successful <= entries[i].successful
      /\ new # entries[i] =>
            \/ new.priority < entries[i].priority
            \/ new.tries < entries[i].tries
            \/ new.successful < entries[i].successful
  BY <1>0, <1>1, UpdatedFacts DEF TypeOK
<1>11. /\ entries[i] \in Entry /\ loaded[i] \in Entry
  BY <1>0, <1>1 DEF TypeOK
<1>12. /\ entries[i].priority \in Nat /\ entries[i].tries \in Nat
       /\ entries[i].successful \in Nat
       /\ loaded[i].priority \in Nat /\ loaded[i].tries \in Nat
       /\ loaded[i].successful \in Nat
       /\ new.priority \in Nat /\ new.tries \in Nat /\ new.successful \in Nat
  BY <1>3, <1>11, EntryFieldsNat
<1>4. \A j \in Idx \ {i} : entries'[j] = entries[j]
  BY <1>2
<1>5. TypeOK'
  <2>1. entries' \in [Idx -> Entry]
    BY <1>0, <1>1, <1>2, <1>3 DEF TypeOK
  <2>2. entries2' \in [Idx -> Entry]
    BY <1>0, <1>1, <1>2, <1>3 DEF TypeOK
  <2>3. modified' \subseteq {"header1", "header2", "entries1", "entries2", "mtd"}
    BY <1>0, <1>2 DEF TypeOK, ModifiedAfter, AllBits
  <2> QED
    BY <1>0, <1>2, <2>1, <2>2, <2>3 DEF TypeOK, Returns
<1>6. OfferedIsOffers' /\ CurrentOffered' /\ OfferOrder'
  BY <1>2 DEF SInv, OfferedIsOffers, CurrentOffered, OfferOrder
<1>7. FrontierBelow' /\ UntouchedSinceStart'
  <2>1. \A j \in Idx \ offered : entries'[j] = entries[j]
    BY <1>1, <1>4
  <2> QED
    BY <1>2, <2>1 DEF SInv, FrontierBelow, UntouchedSinceStart, Bootable
<1>8. ExhaustedNow' /\ NoKernelSkipped'
  BY <1>2 DEF ExhaustedNow, NoKernelSkipped
<1>9. BelowLoaded'
  <2>1. \A j \in Idx :
          /\ entries'[j].type = loaded[j].type
          /\ entries'[j].priority <= loaded[j].priority
          /\ entries'[j].tries <= loaded[j].tries
          /\ entries'[j].successful <= loaded[j].successful
    <3> SUFFICES ASSUME NEW j \in Idx
                 PROVE  /\ entries'[j].type = loaded[j].type
                        /\ entries'[j].priority <= loaded[j].priority
                        /\ entries'[j].tries <= loaded[j].tries
                        /\ entries'[j].successful <= loaded[j].successful
      OBVIOUS
    <3>1. CASE j = i
      <4>1. entries'[j] = new
        BY <3>1, <1>1, <1>2, <1>0 DEF TypeOK
      <4> QED
        BY <4>1, <1>1, <1>3, <1>12, <3>1 DEF SInv, BelowLoaded
    <3>2. CASE j # i
      BY <3>2, <1>4 DEF SInv, BelowLoaded
    <3> QED
      BY <3>1, <3>2
  <2>2. modified' \in {{}, AllBits}
    BY <1>2 DEF SInv, BelowLoaded, ModifiedAfter
  <2> QED
    BY <1>2, <2>1, <2>2 DEF BelowLoaded
<1>10. MirrorAndModified'
  <2>1. Medium = "gpt" => entries2' = entries'
    BY <1>2 DEF SInv, MirrorAndModified
  <2>2. CASE new = entries[i]
    <3>1. entries' = entries /\ modified' = modified
      BY <2>2, <1>0, <1>1, <1>2 DEF TypeOK, ModifiedAfter
    <3> QED
      BY <3>1, <1>2 DEF SInv, MirrorAndModified
  <2>3. CASE new # entries[i]
    <3>1. modified' = modified \cup AllBits /\ modified' # {}
      BY <2>3, <1>2 DEF ModifiedAfter, AllBits
    <3>2. entries'[i] # loaded[i]
      <4>1. entries'[i] = new
        BY <1>1, <1>2, <1>0 DEF TypeOK
      <4>2. /\ entries[i].priority <= loaded[i].priority
            /\ entries[i].tries <= loaded[i].tries
            /\ entries[i].successful <= loaded[i].successful
        BY <1>1 DEF SInv, BelowLoaded
      <4>4. \/ new.priority < loaded[i].priority
            \/ new.tries < loaded[i].tries
            \/ new.successful < loaded[i].successful
        BY <4>2, <1>12, <1>3, <2>3
      <4> QED
        BY <4>1, <4>4, <1>12
    <3> QED
      BY <1>2, <2>1, <3>1, <3>2 DEF MirrorAndModified
  <2> QED
    BY <2>2, <2>3
<1> QED
  BY <1>5, <1>6, <1>7, <1>8, <1>9, <1>10 DEF SInv

\* GptInit starts an empty session over the current table.
LEMMA SessionStep ==
    ASSUME SInv, GptInit
    PROVE  SInv'
<1>1. /\ current_kernel' = NotFound
      /\ offered' = {}
      /\ offers' = << >>
      /\ session_start' = entries
      /\ ret' = "SUCCESS"
      /\ UNCHANGED <<entries, entries2, modified, loaded>>
  BY DEF GptInit
<1>2. TypeOK'
  BY <1>1 DEF SInv, TypeOK, Returns, NotFound
<1>3. OfferedIsOffers' /\ CurrentOffered' /\ FrontierBelow'
      /\ UntouchedSinceStart' /\ ExhaustedNow' /\ OfferOrder' /\ NoKernelSkipped'
  BY <1>1 DEF OfferedIsOffers, CurrentOffered, FrontierBelow,
              UntouchedSinceStart, ExhaustedNow, OfferOrder, NoKernelSkipped
<1>4. BelowLoaded' /\ MirrorAndModified'
  BY <1>1 DEF SInv, BelowLoaded, MirrorAndModified, AllBits
<1> QED
  BY <1>2, <1>3, <1>4 DEF SInv
\* Every step of the selection state machine, or a stutter, keeps SInv.
LEMMA SInvStep ==
    ASSUME SInv, [Next]_vars
    PROVE  SInv'
<1>1. CASE GptNextKernelEntry
  <2>1. CASE Candidates(entries, offered) # {}
    BY <1>1, <2>1, OfferStep
  <2>2. CASE Candidates(entries, offered) = {}
    BY <1>1, <2>2, ExhaustStep
  <2> QED
    BY <2>1, <2>2
<1>2. ASSUME NEW kind \in Kinds, GptUpdateKernelEntry(kind)
      PROVE  SInv'
  BY <1>2, RejectStep, AcceptStep
<1>3. CASE GptInit
  BY <1>3, SessionStep
<1>4. CASE UNCHANGED vars
  BY <1>4 DEF vars, SInv, TypeOK, OfferedIsOffers, CurrentOffered,
              FrontierBelow, UntouchedSinceStart, ExhaustedNow, BelowLoaded,
              OfferOrder, NoKernelSkipped, MirrorAndModified, Bootable,
              Candidates, AllBits
<1> QED
  BY <1>1, <1>2, <1>3, <1>4 DEF Next

\* The strengthened selection invariant holds in every reachable state: the
\* offered set, the offers list and the untouched frontier of a session stay
\* consistent through every interleaving of next, TRY/BAD and session start.
THEOREM SInvInvariant == Spec => []SInv
<1>1. Init => SInv
  BY InitSInv
<1>2. SInv /\ [Next]_vars => SInv'
  BY SInvStep
<1> QED
  BY <1>1, <1>2, PTL DEF Spec

\* Selection never leaves its types: attribute fields stay 4-bit values,
\* current_kernel stays an index or the not-found sentinel.
THEOREM TypeCorrect == Spec => []TypeOK
BY SInvInvariant, PTL DEF SInv

\* GptNextKernelEntry offers a session's kernels by decreasing priority and
\* equal priorities by increasing index, whatever updates come in between.
THEOREM OfferOrderThm == Spec => []OfferOrder
BY SInvInvariant, PTL DEF SInv

\* NO_VALID_KERNEL is returned only once every kernel that was bootable when
\* the session started has been offered.
THEOREM NoKernelSkippedThm == Spec => []NoKernelSkipped
BY SInvInvariant, PTL DEF SInv

\* GptUpdateKernelEntry keeps the two GPT copies identical, and sets the
\* modified bits exactly when the table differs from the loaded one.
THEOREM MirrorAndModifiedThm == Spec => []MirrorAndModified
BY SInvInvariant, PTL DEF SInv

\* A step of the state machine never raises an attribute and never changes
\* a successful entry.
LEMMA DecaysStep ==
    ASSUME TypeOK, [Next]_vars
    PROVE  [Decays]_vars
<1>1. CASE GptNextKernelEntry \/ GptInit \/ UNCHANGED vars
  <2>1. entries' = entries
    BY <1>1 DEF GptNextKernelEntry, GptInit, vars
  <2> QED
    BY <2>1, EntryFieldsNat DEF Decays, TypeOK
<1>2. ASSUME NEW kind \in Kinds, GptUpdateKernelEntry(kind)
      PROVE  [Decays]_vars
  <2>1. CASE ~UpdateAccepted(kind)
    <3>1. entries' = entries
      BY <2>1, <1>2 DEF GptUpdateKernelEntry
    <3> QED
      BY <3>1, EntryFieldsNat DEF Decays, TypeOK
  <2>2. CASE UpdateAccepted(kind)
    <3>1. current_kernel \in Idx /\ kind \in {"TRY", "BAD"}
      BY <2>2 DEF UpdateAccepted, TypeOK, NotFound, Idx
    <3>2. entries' = [entries EXCEPT ![current_kernel] =
                        Updated(entries[current_kernel], kind)]
      BY <2>2, <1>2 DEF GptUpdateKernelEntry
    <3> SUFFICES ASSUME NEW i \in Idx
                 PROVE  /\ entries'[i].priority <= entries[i].priority
                        /\ entries'[i].tries <= entries[i].tries
                        /\ entries'[i].successful <= entries[i].successful
                        /\ entries[i].successful = 1 => entries'[i] = entries[i]
      BY DEF Decays
    <3>3. entries[i] \in Entry
      BY DEF TypeOK
    <3>4. CASE i = current_kernel
      <4>1. entries'[i] = Updated(entries[i], kind)
        BY <3>1, <3>2, <3>4 DEF TypeOK
      <4> QED
        BY <4>1, <3>1, <3>3, UpdatedFacts
    <3>5. CASE i # current_kernel
      <4>1. entries'[i] = entries[i]
        BY <3>2, <3>5
      <4> QED
        BY <4>1, <3>3, EntryFieldsNat
    <3> QED
      BY <3>4, <3>5
  <2> QED
    BY <2>1, <2>2
<1> QED
  BY <1>1, <1>2 DEF Next

\* No behaviour of the selection state machine raises an entry's priority,
\* tries or successful flag, or changes a successful entry.
THEOREM AttributesOnlyDecayThm == Spec => AttributesOnlyDecay
<1>1. TypeOK /\ [Next]_vars => [Decays]_vars
  BY DecaysStep
<1> QED
  BY <1>1, TypeCorrect, PTL DEF Spec, AttributesOnlyDecay
=============================================================================
