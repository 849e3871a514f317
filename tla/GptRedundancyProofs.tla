------------------------ MODULE GptRedundancyProofs ------------------------
(***************************************************************************)
(* Proofs about GptRedundancy for every choice of the constants.           *)
(***************************************************************************)
EXTENDS GptRedundancy, TLAPS

\* GptSanityCheck always produces masks over the two copies and one of its
\* documented return values.
LEMMA SanityType ==
    ASSUME NEW hh \in [Copies -> Header], NEW ee \in [Copies -> Tables]
    PROVE  /\ Sanity(hh, ee).vh \subseteq Copies
           /\ Sanity(hh, ee).ve \subseteq Copies
           /\ Sanity(hh, ee).res \in Results
  <1>1. HeadersChecked(hh) \subseteq Copies /\ EntriesChecked(hh, ee) \subseteq Copies
    BY DEF HeadersChecked, EntriesChecked, EntriesAgainst
  <1>2. HeadersAfterFallback(hh, ee) \subseteq Copies
    BY <1>1 DEF HeadersAfterFallback, Copies
  <1>3. HeadersAfterCompare(hh, ee) \subseteq Copies
    BY <1>2 DEF HeadersAfterCompare, Copies
  <1>4. QED
    BY <1>1, <1>2, <1>3 DEF Sanity, Results

\* The outcome of GptSanityCheck is a record of the return value and masks.
LEMMA SanityRecord ==
    ASSUME NEW hh, NEW ee
    PROVE  Sanity(hh, ee) = [res |-> Sanity(hh, ee).res, vh |-> Sanity(hh, ee).vh,
                             ve |-> Sanity(hh, ee).ve]
  BY DEF Sanity

\* A patched copy of a header is a header.
LEMMA RepairedHeaderType ==
    ASSUME NEW src \in Header, NEW c \in Copies
    PROVE  RepairedHeader(src, c) \in Header
  <1>1. Other(c) \in Copies
    BY DEF Other, Copies, Primary, Secondary
  <1>2. QED
    BY <1>1 DEF RepairedHeader, Header

\* One step of the specification keeps the types.
LEMMA TypeStep == TypeOK /\ [Next]_vars => TypeOK'
<1> SUFFICES ASSUME TypeOK, [Next]_vars PROVE TypeOK'
  OBVIOUS
<1>1. ASSUME NEW c \in Copies, CorruptHeader(c) PROVE TypeOK'
  BY <1>1 DEF CorruptHeader, TypeOK, Header
<1>2. ASSUME NEW c \in Copies, NEW t \in Tables, CorruptEntries(c, t)
      PROVE TypeOK'
  BY <1>2 DEF CorruptEntries, TypeOK
<1>3. ASSUME NEW c \in Copies, NEW f \in Fields, EditHeaderFields(c, f)
      PROVE TypeOK'
  BY <1>3 DEF EditHeaderFields, RefreshCrc32, TypeOK, Header
<1>4. ASSUME NEW c \in Copies, NEW t \in Tables, EditEntries(c, t)
      PROVE TypeOK'
  BY <1>4 DEF EditEntries, RefreshCrc32, TypeOK, Header
<1>5. CASE GptSanityCheck
  <2>1. /\ Sanity(h, e).vh \subseteq Copies
        /\ Sanity(h, e).ve \subseteq Copies
        /\ Sanity(h, e).res \in Results
    BY SanityType DEF TypeOK
  <2>2. QED
    BY <1>5, <2>1 DEF GptSanityCheck, TypeOK, Phases
<1>6. CASE GptRepair
  <2>1. RepairedHeaders(h, valid_headers) \in [Copies -> Header]
    <3>1. \A c \in Copies : Other(c) \in Copies
      BY DEF Other, Copies, Primary, Secondary
    <3>2. QED
      BY <3>1, RepairedHeaderType DEF TypeOK, RepairedHeaders
  <2>2. RepairedEntries(e, valid_entries) \in [Copies -> Tables]
    <3>1. \A c \in Copies : Other(c) \in Copies
      BY DEF Other, Copies, Primary, Secondary
    <3>2. QED
      BY <3>1 DEF TypeOK, RepairedEntries
  <2>3. RepairBits(valid_headers, valid_entries) \subseteq ModBits
    BY DEF RepairBits, ModBits, TypeOK
  <2>4. CASE valid_headers = {} \/ valid_entries = {}
    BY <1>6, <2>4 DEF GptRepair, TypeOK, Phases
  <2>5. CASE valid_headers # {} /\ valid_entries # {}
    BY <1>6, <2>5, <2>1, <2>2, <2>3 DEF GptRepair, TypeOK, Phases
  <2>6. QED
    BY <2>4, <2>5
<1>7. CASE UNCHANGED vars
  BY <1>7 DEF vars, TypeOK
<1>8. QED
  BY <1>1, <1>2, <1>3, <1>4, <1>5, <1>6, <1>7 DEF Next

\* The buffers, masks and modified bits keep their types (GptRepair only
\* copies one copy's header or array over the other's).
LEMMA TypeCorrect == Spec => []TypeOK
<1>1. Init => TypeOK
  BY ConstAssumption DEF Init, TypeOK, GoodHeaderAt, Header, Copies, Other,
                         Primary, Secondary, Results, Phases
<1>2. TypeOK /\ [Next]_vars => TypeOK'
  BY TypeStep
<1>3. QED
  BY <1>1, <1>2, PTL DEF Spec

-----------------------------------------------------------------------------
(* Repair *)

\* Whether an entry array passes CheckEntries depends only on the
\* header's entries_crc32 and compared fields.
LEMMA EntriesOkAgree ==
    ASSUME NEW t, NEW a, NEW b, a.ecrc = b.ecrc, a.fields = b.fields
    PROVE  EntriesOk(t, a) <=> EntriesOk(t, b)
  BY DEF EntriesOk

\* Every header left valid by a successful check carries the entries CRC
\* and fields of the header the arrays were judged against.
LEMMA ValidHeadersAgree ==
    ASSUME NEW hh \in [Copies -> Header], NEW ee \in [Copies -> Tables],
           HeadersChecked(hh) # {}, EntriesChecked(hh, ee) # {}
    PROVE  /\ HeadersAfterCompare(hh, ee) # {}
           /\ HeadersAfterCompare(hh, ee) \subseteq HeadersChecked(hh)
           /\ \A w \in HeadersAfterCompare(hh, ee) :
                 /\ hh[w].fields = EntriesHeader(hh, ee).fields
                 /\ hh[w].ecrc = EntriesHeader(hh, ee).ecrc
  <1> DEFINE HC == HeadersChecked(hh)
             VH == HeadersAfterCompare(hh, ee)
             G  == EntriesHeader(hh, ee)
  <1>1. HC \subseteq Copies
    BY DEF HeadersChecked
  <1>2. CASE FallsBack(hh, ee)
    <2>1. HeadersAfterFallback(hh, ee) = {Secondary}
      BY <1>2 DEF HeadersAfterFallback
    <2>2. VH = {Secondary}
      BY <2>1 DEF HeadersAfterCompare, Copies, Primary, Secondary
    <2>3. G = hh[Secondary] /\ Secondary \in HC
      BY <1>2 DEF EntriesHeader, FallsBack, Copies
    <2>4. QED
      BY <2>2, <2>3
  <1>3. CASE ~FallsBack(hh, ee) /\ Primary \in HC
    <2>1. G = hh[Primary] /\ HeadersAfterFallback(hh, ee) = HC
      BY <1>3 DEF EntriesHeader, GoodHeader, HeadersAfterFallback
    <2>2. CASE HC = Copies /\ ~HeaderFieldsSame(hh[Primary], hh[Secondary])
      <3>1. VH = {Primary}
        BY <2>1, <2>2 DEF HeadersAfterCompare
      <3>2. QED
        BY <3>1, <2>1, <1>3
    <2>3. CASE HC = Copies /\ HeaderFieldsSame(hh[Primary], hh[Secondary])
      <3>1. VH = Copies
        BY <2>1, <2>3 DEF HeadersAfterCompare
      <3>2. QED
        BY <3>1, <2>1, <2>3 DEF HeaderFieldsSame, Copies
    <2>4. CASE HC # Copies
      <3>1. HC = {Primary}
        BY <2>4, <1>1, <1>3 DEF Copies, Primary, Secondary
      <3>2. VH = {Primary}
        BY <3>1, <2>1, <2>4 DEF HeadersAfterCompare
      <3>3. QED
        BY <3>1, <3>2, <2>1
    <2>5. QED
      BY <2>2, <2>3, <2>4
  <1>4. CASE ~FallsBack(hh, ee) /\ Primary \notin HC
    <2>1. HC = {Secondary}
      BY <1>4, <1>1 DEF Copies, Primary, Secondary
    <2>2. G = hh[Secondary] /\ HeadersAfterFallback(hh, ee) = HC
      BY <1>4, <2>1 DEF EntriesHeader, GoodHeader, HeadersAfterFallback,
                        Primary, Secondary
    <2>3. VH = {Secondary}
      BY <2>1, <2>2 DEF HeadersAfterCompare, Copies, Primary, Secondary
    <2>4. QED
      BY <2>1, <2>2, <2>3
  <1>5. QED
    BY <1>2, <1>3, <1>4

\* GptRepair after a successful GptSanityCheck leaves buffers that check
\* valid in both copies.
LEMMA RepairLemma ==
    ASSUME NEW hh \in [Copies -> Header], NEW ee \in [Copies -> Tables],
           Sanity(hh, ee).res = "SUCCESS"
    PROVE  Sanity(RepairedHeaders(hh, Sanity(hh, ee).vh),
                  RepairedEntries(ee, Sanity(hh, ee).ve))
             = [res |-> "SUCCESS", vh |-> Copies, ve |-> Copies]
  <1> DEFINE VH == HeadersAfterCompare(hh, ee)
             VE == EntriesChecked(hh, ee)
             G  == EntriesHeader(hh, ee)
             H2 == RepairedHeaders(hh, VH)
             E2 == RepairedEntries(ee, VE)
  <1>1. HeadersChecked(hh) # {} /\ VE # {}
    BY DEF Sanity
  <1>2. Sanity(hh, ee).vh = VH /\ Sanity(hh, ee).ve = VE
    BY <1>1 DEF Sanity
  <1>3. /\ VH # {}
        /\ VH \subseteq HeadersChecked(hh)
        /\ \A w \in VH : hh[w].fields = G.fields /\ hh[w].ecrc = G.ecrc
    BY <1>1, ValidHeadersAgree
  <1>4. VE \subseteq Copies /\ \A c \in VE : EntriesOk(ee[c], G)
    BY DEF EntriesChecked, EntriesAgainst
  <1>5. \A c \in Copies : Other(c) \in Copies /\ Other(c) # c
    BY DEF Other, Copies, Primary, Secondary
  <1>6. ASSUME NEW c \in Copies
        PROVE  /\ CheckHeader(H2[c], c)
               /\ H2[c].fields = G.fields
               /\ H2[c].ecrc = G.ecrc
    <2>1. CASE c \in VH
      <3>1. H2[c] = hh[c]
        BY <2>1 DEF RepairedHeaders
      <3>2. QED
        BY <3>1, <2>1, <1>3 DEF HeadersChecked
    <2>2. CASE c \notin VH
      <3>1. Other(c) \in VH
        <4>1. VH \subseteq Copies /\ VH # {}
          BY <1>3 DEF HeadersChecked
        <4>2. QED
          BY <4>1, <2>2 DEF Copies, Other, Primary, Secondary
      <3>2. H2[c] = RepairedHeader(hh[Other(c)], c)
        BY <2>2 DEF RepairedHeaders
      <3>3. CheckHeader(hh[Other(c)], Other(c))
        BY <3>1, <1>3 DEF HeadersChecked
      <3>4. hh[Other(c)] \in Header
        BY <1>5
      <3>5. QED
        BY <3>1, <3>2, <3>3, <3>4, <1>3 DEF RepairedHeader, CheckHeader, Header
    <2>3. QED
      BY <2>1, <2>2
  <1>7. ASSUME NEW c \in Copies PROVE EntriesOk(E2[c], H2[Primary])
    <2>1. E2[c] \in {ee[d] : d \in VE}
      <3>1. CASE c \in VE
        BY <3>1 DEF RepairedEntries
      <3>2. CASE c \notin VE
        BY <3>2, <1>1, <1>4, <1>5 DEF RepairedEntries, Copies, Other, Primary, Secondary
      <3>3. QED
        BY <3>1, <3>2
    <2>2. EntriesOk(E2[c], G)
      BY <2>1, <1>4
    <2>3. H2[Primary].fields = G.fields /\ H2[Primary].ecrc = G.ecrc
      BY <1>6 DEF Copies
    <2>4. QED
      BY <2>2, <2>3, EntriesOkAgree
  <1>8. HeadersChecked(H2) = Copies
    BY <1>6 DEF HeadersChecked
  <1>9. EntriesAgainst(E2, H2[Primary]) = Copies
    BY <1>7 DEF EntriesAgainst
  <1>10. ~FallsBack(H2, E2) /\ EntriesHeader(H2, E2) = H2[Primary]
    BY <1>8, <1>9 DEF FallsBack, EntriesHeader, GoodHeader, Copies
  <1>11. EntriesChecked(H2, E2) = Copies
    BY <1>9, <1>10 DEF EntriesChecked
  <1>12. HeadersAfterFallback(H2, E2) = Copies
    BY <1>8, <1>10 DEF HeadersAfterFallback
  <1>13. HeaderFieldsSame(H2[Primary], H2[Secondary])
    BY <1>6 DEF HeaderFieldsSame, Copies
  <1>14. HeadersAfterCompare(H2, E2) = Copies
    BY <1>12, <1>13 DEF HeadersAfterCompare
  <1>15. QED
    BY <1>2, <1>8, <1>11, <1>14 DEF Sanity, Copies

\* A successful check leaves both masks non-empty.
LEMMA SuccessMasks ==
    ASSUME NEW hh \in [Copies -> Header], NEW ee \in [Copies -> Tables],
           Sanity(hh, ee).res = "SUCCESS"
    PROVE  Sanity(hh, ee).vh # {} /\ Sanity(hh, ee).ve # {}
  <1>1. HeadersChecked(hh) # {} /\ EntriesChecked(hh, ee) # {}
    BY DEF Sanity
  <1>2. Sanity(hh, ee).vh = HeadersAfterCompare(hh, ee)
        /\ Sanity(hh, ee).ve = EntriesChecked(hh, ee)
    BY <1>1 DEF Sanity
  <1>3. QED
    BY <1>1, <1>2, ValidHeadersAgree

-----------------------------------------------------------------------------
(* The inductive invariant *)

LEMMA IInvInit == Init => IInv
BY ConstAssumption DEF Init, IInv, TypeOK, MasksCurrent, RepairRestores,
   GoodHeaderAt, Header, Copies, Other, Primary, Secondary, Results, Phases

LEMMA IInvStep == IInv /\ [Next]_vars => IInv'
<1> SUFFICES ASSUME IInv, [Next]_vars PROVE IInv'
  OBVIOUS
<1>1. TypeOK'
  BY TypeStep DEF IInv
<1>2. CASE \/ \E c \in Copies : CorruptHeader(c)
           \/ \E c \in Copies, t \in Tables : CorruptEntries(c, t)
           \/ \E c \in Copies, f \in Fields : EditHeaderFields(c, f)
           \/ \E c \in Copies, t \in Tables : EditEntries(c, t)
  <2>1. phase' = "loaded"
    BY <1>2 DEF CorruptHeader, CorruptEntries, EditHeaderFields, EditEntries
  <2>2. QED
    BY <1>1, <2>1 DEF IInv, MasksCurrent, RepairRestores
<1>3. CASE GptSanityCheck
  <2>1. h' = h /\ e' = e /\ phase' = "checked"
    BY <1>3 DEF GptSanityCheck
  <2>2. [res |-> result', vh |-> valid_headers', ve |-> valid_entries']
          = Sanity(h, e)
    BY <1>3, SanityRecord DEF GptSanityCheck
  <2>3. QED
    BY <1>1, <2>1, <2>2 DEF IInv, MasksCurrent, RepairRestores
<1>4. CASE GptRepair
  <2>1. phase = "checked" /\ phase' = "repaired" /\ result' = result
    BY <1>4 DEF GptRepair
  <2>2. MasksCurrent'
    BY <2>1 DEF MasksCurrent
  <2>3. ASSUME result = "SUCCESS" PROVE RepairRestores'
    <3>1. Sanity(h, e).res = "SUCCESS"
          /\ valid_headers = Sanity(h, e).vh /\ valid_entries = Sanity(h, e).ve
      BY <2>1, <2>3 DEF IInv, MasksCurrent
    <3>2. valid_headers # {} /\ valid_entries # {}
      BY <3>1, SuccessMasks DEF IInv, TypeOK
    <3>3. h' = RepairedHeaders(h, valid_headers)
          /\ e' = RepairedEntries(e, valid_entries)
      BY <1>4, <3>2 DEF GptRepair
    <3>4. Sanity(h', e') = [res |-> "SUCCESS", vh |-> Copies, ve |-> Copies]
      BY <3>1, <3>3, RepairLemma DEF IInv, TypeOK
    <3>5. QED
      BY <3>4 DEF RepairRestores
  <2>4. ASSUME result # "SUCCESS" PROVE RepairRestores'
    BY <2>1, <2>4 DEF RepairRestores
  <2>5. QED
    BY <1>1, <2>2, <2>3, <2>4 DEF IInv
<1>5. CASE UNCHANGED vars
  BY <1>5 DEF vars, IInv, TypeOK, MasksCurrent, RepairRestores
<1>6. QED
  BY <1>2, <1>3, <1>4, <1>5 DEF Next

\* After GptSanityCheck succeeds, GptRepair leaves buffers that GptSanityCheck
\* finds valid in both copies (the property RepairRestores of the runs).
THEOREM RepairRestoresThm == Spec => []RepairRestores
BY IInvInit, IInvStep, PTL DEF Spec, IInv

-----------------------------------------------------------------------------
(* What a GptRepair step changes *)

\* A header that passes CheckHeader but that GptSanityCheck leaves out of
\* valid_headers (the primary after the fall-back to the secondary, the
\* secondary when the two differ) disagrees with the header the entry
\* arrays were judged against.
LEMMA DroppedHeaderDiffers ==
    ASSUME NEW hh \in [Copies -> Header], NEW ee \in [Copies -> Tables],
           HeadersChecked(hh) # {}, EntriesChecked(hh, ee) # {},
           NEW c \in HeadersChecked(hh) \ HeadersAfterCompare(hh, ee)
    PROVE  ~(/\ hh[c].fields = EntriesHeader(hh, ee).fields
             /\ hh[c].ecrc = EntriesHeader(hh, ee).ecrc)
  <1> DEFINE HC == HeadersChecked(hh)
             VH == HeadersAfterCompare(hh, ee)
             G  == EntriesHeader(hh, ee)
  <1>1. HC \subseteq Copies
    BY DEF HeadersChecked
  <1>2. CASE FallsBack(hh, ee)
    <2>1. VH = {Secondary} /\ G = hh[Secondary]
      BY <1>2 DEF HeadersAfterCompare, HeadersAfterFallback, EntriesHeader,
                  Copies, Primary, Secondary
    <2>2. c = Primary
      BY <1>1, <2>1 DEF Copies
    <2>3. ASSUME hh[c].fields = G.fields, hh[c].ecrc = G.ecrc PROVE FALSE
      <3>1. EntriesAgainst(ee, hh[Primary]) = EntriesAgainst(ee, G)
        BY <2>2, <2>3, EntriesOkAgree DEF EntriesAgainst
      <3>. QED  BY <1>2, <3>1 DEF FallsBack, EntriesChecked
    <2>. QED  BY <2>3
  <1>3. CASE ~FallsBack(hh, ee)
    <2>1. HeadersAfterFallback(hh, ee) = HC
      BY <1>3 DEF HeadersAfterFallback
    <2>2. HC = Copies /\ ~HeaderFieldsSame(hh[Primary], hh[Secondary])
      BY <2>1 DEF HeadersAfterCompare
    <2>3. VH = {Primary} /\ c = Secondary /\ G = hh[Primary]
      BY <1>3, <2>1, <2>2 DEF HeadersAfterCompare, EntriesHeader, GoodHeader,
                              Copies, Primary, Secondary
    <2>. QED  BY <2>2, <2>3 DEF HeaderFieldsSame
  <1>. QED  BY <1>2, <1>3

\* The copy GptRepair rebuilds from a valid one passes CheckHeader at its
\* own location and keeps the source's compared fields and entries CRC.
LEMMA RepairedHeaderChecks ==
    ASSUME NEW src \in Header, NEW d \in Copies, NEW c \in Copies, CheckHeader(src, d)
    PROVE  /\ CheckHeader(RepairedHeader(src, c), c)
           /\ RepairedHeader(src, c).fields = src.fields
           /\ RepairedHeader(src, c).ecrc = src.ecrc
  BY DEF RepairedHeader, CheckHeader, Header

\* GptRepair after a check of the current buffers keeps the copies found
\* valid and changes every other one; a copy it changes is flagged.
LEMMA RepairChanges ==
    ASSUME IInv, GptRepair
    PROVE  /\ \A c \in valid_headers : h'[c] = h[c]
           /\ \A c \in valid_entries : e'[c] = e[c]
           /\ modified' = modified
                          \cup {<<"header", c>> : c \in {d \in Copies : h'[d] # h[d]}}
                          \cup {<<"entries", c>> : c \in {d \in Copies : e'[d] # e[d]}}
  <1>1. CASE valid_headers = {} \/ valid_entries = {}
    <2>1. UNCHANGED <<h, e, modified>>
      BY <1>1 DEF GptRepair
    <2>. QED  BY <1>1, <2>1
  <1>2. CASE valid_headers # {} /\ valid_entries # {}
    <2>. DEFINE VH == HeadersAfterCompare(h, e)
                VE == EntriesChecked(h, e)
                G  == EntriesHeader(h, e)
    <2>1. h \in [Copies -> Header] /\ e \in [Copies -> Tables]
      BY DEF IInv, TypeOK
    <2>2. [res |-> result, vh |-> valid_headers, ve |-> valid_entries] = Sanity(h, e)
      BY DEF GptRepair, IInv, MasksCurrent
    <2>3. HeadersChecked(h) # {} /\ VE # {}
          /\ valid_headers = VH /\ valid_entries = VE
      BY <1>2, <2>2 DEF Sanity
    <2>4. /\ VH \subseteq HeadersChecked(h)
          /\ \A w \in VH : h[w].fields = G.fields /\ h[w].ecrc = G.ecrc
      BY <2>1, <2>3, ValidHeadersAgree
    <2>5. /\ h' = RepairedHeaders(h, VH)
          /\ e' = RepairedEntries(e, VE)
          /\ modified' = modified \cup RepairBits(VH, VE)
      BY <1>2, <2>3 DEF GptRepair
    <2>6. \A c \in Copies : Other(c) \in Copies /\ Other(c) # c
      BY DEF Other, Copies, Primary, Secondary
    <2>7. {d \in Copies : h'[d] # h[d]} = Copies \ VH
      <3>1. ASSUME NEW d \in Copies \ VH PROVE h'[d] # h[d]
        <4>1. Other(d) \in VH
          BY <2>3, <2>4, <2>6, <1>2 DEF HeadersChecked, Copies, Other, Primary, Secondary
        <4>2. h'[d] = RepairedHeader(h[Other(d)], d)
          BY <2>5 DEF RepairedHeaders
        <4>3. /\ CheckHeader(h'[d], d)
              /\ h'[d].fields = G.fields /\ h'[d].ecrc = G.ecrc
          BY <2>1, <2>4, <2>6, <4>1, <4>2, RepairedHeaderChecks DEF HeadersChecked
        <4>4. ASSUME h'[d] = h[d] PROVE FALSE
          <5>1. d \in HeadersChecked(h) \ VH
            BY <4>3, <4>4 DEF HeadersChecked
          <5>. QED  BY <2>1, <2>3, <4>3, <4>4, <5>1, DroppedHeaderDiffers
        <4>. QED  BY <4>4
      <3>2. ASSUME NEW d \in VH PROVE h'[d] = h[d]
        BY <2>4, <2>5 DEF RepairedHeaders, HeadersChecked
      <3>. QED  BY <3>1, <3>2
    <2>8. {d \in Copies : e'[d] # e[d]} = Copies \ VE
      <3>1. ASSUME NEW d \in Copies \ VE PROVE e'[d] # e[d]
        <4>1. Other(d) \in VE
          BY <2>3, <2>6 DEF EntriesChecked, EntriesAgainst, Copies, Other, Primary, Secondary
        <4>2. e'[d] = e[Other(d)]
          BY <2>5 DEF RepairedEntries
        <4>. QED  BY <4>1, <4>2 DEF EntriesChecked, EntriesAgainst
      <3>2. ASSUME NEW d \in VE PROVE e'[d] = e[d]
        BY <2>5 DEF RepairedEntries, EntriesChecked, EntriesAgainst
      <3>. QED  BY <3>1, <3>2
    <2>9. RepairBits(VH, VE) =
            {<<"header", c>> : c \in {d \in Copies : h'[d] # h[d]}}
            \cup {<<"entries", c>> : c \in {d \in Copies : e'[d] # e[d]}}
      BY <2>7, <2>8 DEF RepairBits
    <2>10. /\ \A c \in VH : h'[c] = h[c]
           /\ \A c \in VE : e'[c] = e[c]
      BY <2>4, <2>5 DEF RepairedHeaders, RepairedEntries, HeadersChecked,
                        EntriesChecked, EntriesAgainst
    <2>. QED  BY <2>3, <2>5, <2>9, <2>10
  <1>. QED  BY <1>1, <1>2

\* Only GptRepair moves from "checked" to "repaired".
LEMMA RepairStep ==
    IInv /\ [Next]_vars => [RepairModifiedExactStep]_vars
  <1> SUFFICES ASSUME IInv, [Next]_vars
               PROVE  [RepairModifiedExactStep]_vars
    OBVIOUS
  <1>1. CASE GptRepair
    BY <1>1, RepairChanges DEF RepairModifiedExactStep
  <1>2. CASE ~GptRepair
    <2>1. ~(phase = "checked" /\ phase' = "repaired") \/ UNCHANGED vars
      BY <1>2 DEF Next, CorruptHeader, CorruptEntries, EditHeaderFields, EditEntries,
                  GptSanityCheck
    <2>. QED  BY <2>1 DEF RepairModifiedExactStep
  <1>. QED  BY <1>1, <1>2

\* GptRepair flags in modified exactly the copies whose contents it
\* changed: a caller writing back the flagged copies writes every
\* repaired copy and no other.
THEOREM RepairModifiedExactThm == Spec => RepairModifiedExact
<1>1. Spec => [][RepairModifiedExactStep]_vars
  BY IInvInit, IInvStep, RepairStep, PTL DEF Spec
<1>. QED  BY <1>1, PTL DEF RepairModifiedExact
=============================================================================
