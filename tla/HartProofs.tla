----------------------------- MODULE HartProofs -----------------------------
(***************************************************************************)
(* The hart.  The TLB is coherent for every page table geometry, TLB size  *)
(* and guest (Mmu); then the loops that run it (RunLoop), for every        *)
(* interval, budget and length of a block.                                 *)
(***************************************************************************)
EXTENDS Mmu, RunLoop, TLAPS

\* TLB indices and page table digits are in range (idx = vpn & TLB_INDEX_MASK,
\* vpn[i] = ... & 0x1FF).
LEMMA Digits ==
    \A v \in Vpns : /\ Idx(v) \in TlbIndex
                    /\ Digit0(v) \in 0 .. (Radix - 1)
                    /\ Digit1(v) \in 0 .. (Radix - 1)
                    /\ Digit2(v) \in 0 .. (Radix - 1)
<1> TAKE v \in Vpns
<1>1. /\ Radix \in Nat /\ Radix > 0 /\ TlbSize \in Nat /\ TlbSize > 0
      /\ v \in Nat
  <2>1. Radix * Radix * Radix \in Nat
    BY MmuAssumption
  <2> QED BY <2>1, MmuAssumption DEF Vpns
<1>2. \A a, n \in Nat : n > 0 => a % n \in 0 .. (n - 1)
  OBVIOUS
<1>3. \A a, n \in Nat : n > 0 => a \div n \in Nat
  OBVIOUS
<1>4. Radix * Radix \in Nat /\ Radix * Radix > 0
  BY <1>1
<1>5. v \div Radix \in Nat /\ v \div (Radix * Radix) \in Nat
  BY <1>1, <1>3, <1>4
<1> QED BY <1>1, <1>2, <1>5 DEF Idx, TlbIndex, Digit0, Digit1, Digit2

\* With well-typed tables the slot a walk ends at is a slot of a table.
LEMMA SlotInTables ==
    ASSUME TypeOK, root # Bare, NEW v \in Vpns
    PROVE  /\ Slot2(v) \in Slots
           /\ IsPtr(pte[Slot2(v)]) => Slot1(v) \in Slots
           /\ IsPtr(pte[Slot2(v)]) /\ IsPtr(pte[Slot1(v)]) => Slot0(v) \in Slots
           /\ Slot(v) \in Slots
           /\ Slot(v) \in Path(v)
<1>1. Slot2(v) \in Slots
  BY Digits DEF TypeOK, Slots, Slot2
<1>2. IsPtr(pte[Slot2(v)]) => Slot1(v) \in Slots
  BY <1>1, Digits DEF TypeOK, Slots, Slot1
<1>3. IsPtr(pte[Slot2(v)]) /\ IsPtr(pte[Slot1(v)]) => Slot0(v) \in Slots
  BY <1>2, Digits DEF TypeOK, Slots, Slot0
<1> QED BY <1>1, <1>2, <1>3 DEF Slot, Level, Path

\* An access or a write that leaves the entries on the path of a page as they
\* are, but for A and D, leaves its walk as it is.
LEMMA SameWalk ==
    ASSUME NEW v \in Vpns, root' = root,
           \A s \in Path(v) : /\ pte'[s].v = pte[s].v
                              /\ pte'[s].perm = pte[s].perm
                              /\ pte'[s].ppn = pte[s].ppn
    PROVE  /\ Slot(v)' = Slot(v)
           /\ Level(v)' = Level(v)
           /\ MappedPage(v)' = MappedPage(v)
           /\ Slot(v) \in Path(v)
<1>1. Slot2(v)' = Slot2(v) /\ Slot2(v) \in Path(v)
  BY DEF Slot2, Path
<1>2. IsPtr(pte[Slot2(v)])' <=> IsPtr(pte[Slot2(v)])
  BY <1>1 DEF IsPtr
<1>3. IsPtr(pte[Slot2(v)]) => Slot1(v)' = Slot1(v) /\ Slot1(v) \in Path(v)
  BY <1>1 DEF Slot1, Path
<1>4. IsPtr(pte[Slot2(v)]) => (IsPtr(pte[Slot1(v)])' <=> IsPtr(pte[Slot1(v)]))
  BY <1>3 DEF IsPtr
<1>5. IsPtr(pte[Slot2(v)]) /\ IsPtr(pte[Slot1(v)])
      => Slot0(v)' = Slot0(v) /\ Slot0(v) \in Path(v)
  BY <1>3 DEF Slot0, Path
<1>6. Level(v)' = Level(v)
  BY <1>2, <1>4 DEF Level
<1>7. Slot(v)' = Slot(v) /\ Slot(v) \in Path(v)
  BY <1>1, <1>3, <1>5, <1>6 DEF Slot, Level
<1> QED BY <1>6, <1>7 DEF MappedPage

\* The page a walk finds is a number.
LEMMA MappedIsNat ==
    ASSUME TypeOK, root # Bare, NEW v \in Vpns
    PROVE  MappedPage(v) \in Nat
<1>1. pte[Slot(v)].ppn \in Nat
  BY SlotInTables DEF TypeOK, PteType
<1>2. Span(Level(v)) \in Nat /\ Span(Level(v)) > 0
  <2>1. Radix \in Nat /\ Radix > 0
    BY MmuAssumption
  <2>2. Radix * Radix \in Nat /\ Radix * Radix > 0
    BY <2>1
  <2> QED BY <2>1, <2>2 DEF Span
<1>3. v \in Nat
  <2>1. Radix * Radix * Radix \in Nat
    BY MmuAssumption
  <2> QED BY <2>1 DEF Vpns
<1>4. \A a, n \in Nat : n > 0 => a % n \in Nat
  OBVIOUS
<1> QED BY <1>1, <1>2, <1>3, <1>4 DEF MappedPage

\* Page 0 exists, so that the empty TLB has its type.
LEMMA EmptyTlbType == [i \in TlbIndex |-> NoEntry] \in [TlbIndex -> EntryType]
<1>1. Radix \in Nat /\ Radix > 0
  BY MmuAssumption
<1>2. Radix * Radix \in Nat /\ Radix * Radix > 0
  BY <1>1
<1>3. Radix * Radix * Radix \in Nat /\ Radix * Radix * Radix > 0
  BY <1>1, <1>2
<1>4. 0 \in Vpns
  BY <1>3 DEF Vpns
<1> QED BY <1>4 DEF NoEntry, EntryType

\* The fields of an entry the walk has used.
LEMMA UsedFields ==
    ASSUME NEW e, NEW acc
    PROVE  /\ Used(e, acc).v = e.v
           /\ Used(e, acc).perm = e.perm
           /\ Used(e, acc).ppn = e.ppn
           /\ Used(e, acc).d = (e.d \/ acc = "W")
<1> DEFINE D == (e.d \/ acc = "W")
<1>1. Used(e, acc) = [v |-> e.v, perm |-> e.perm, ppn |-> e.ppn, a |-> TRUE, d |-> D]
  BY DEF Used
<1> HIDE DEF D
<1>2. Used(e, acc).d = D
  BY <1>1
<1>3. Used(e, acc).v = e.v /\ Used(e, acc).perm = e.perm /\ Used(e, acc).ppn = e.ppn
  BY <1>1
<1> QED BY <1>2, <1>3 DEF D

\* What a successful walk of an access does: the A and D bits change, and
\* nothing else of the page tables.
LEMMA TouchedPte ==
    ASSUME TypeOK, root # Bare, NEW v \in Vpns, NEW acc \in Accesses,
           pte' = Touched(v, acc)
    PROVE  /\ pte' \in [Slots -> PteType]
           /\ \A s \in Slots : /\ pte'[s].v = pte[s].v
                               /\ pte'[s].perm = pte[s].perm
                               /\ pte'[s].ppn = pte[s].ppn
                               /\ pte[s].d => pte'[s].d
           /\ acc = "W" => pte'[Slot(v)].d
           /\ pte[Slot(v)].d \/ acc = "W" => pte'[Slot(v)].d
<1>1. Slot(v) \in Slots
  BY SlotInTables
<1>2. pte \in [Slots -> PteType]
  BY DEF TypeOK
<1>3. pte[Slot(v)] \in PteType
  BY <1>1, <1>2
<1>4. (pte[Slot(v)].d \/ acc = "W") \in BOOLEAN
  OBVIOUS
<1>5. Used(pte[Slot(v)], acc) \in PteType
  BY <1>3, <1>4 DEF Used, PteType
<1>6. pte' = [pte EXCEPT ![Slot(v)] = Used(pte[Slot(v)], acc)]
  BY DEF Touched
<1>7. pte' \in [Slots -> PteType]
  BY <1>2, <1>5, <1>6
<1>8. /\ pte'[Slot(v)] = Used(pte[Slot(v)], acc)
      /\ \A s \in Slots : s # Slot(v) => pte'[s] = pte[s]
  BY <1>1, <1>2, <1>6
<1>9. \A s \in Slots : /\ pte'[s].v = pte[s].v
                       /\ pte'[s].perm = pte[s].perm
                       /\ pte'[s].ppn = pte[s].ppn
  BY <1>8, UsedFields
<1>10. pte'[Slot(v)].d = (pte[Slot(v)].d \/ acc = "W")
  BY <1>8, UsedFields
<1>11. ASSUME NEW s \in Slots, pte[s].d PROVE pte'[s].d
  <2>1. CASE s = Slot(v)
    BY <2>1, <1>10, <1>11
  <2>2. CASE s # Slot(v)
    BY <2>2, <1>8, <1>11
  <2> QED BY <2>1, <2>2
<1> QED BY <1>7, <1>9, <1>10, <1>11

\* Every step keeps the types, and the initial state has them.
THEOREM MmuTypeCorrect == Spec => []TypeOK
<1>1. Init => TypeOK
  <2> SUFFICES ASSUME Init PROVE TypeOK
    OBVIOUS
  <2>1. pte \in [Slots -> PteType]
    BY MmuAssumption DEF Init
  <2>2. \A s \in Slots : IsPtr(pte[s]) => pte[s].ppn \in Tables
    BY MmuAssumption DEF Init
  <2>3. tlb \in [TlbIndex -> EntryType]
    BY EmptyTlbType DEF Init
  <2>4. writes \in 0 .. MaxWrites
    BY MmuAssumption DEF Init
  <2> QED BY <2>1, <2>2, <2>3, <2>4 DEF Init, TypeOK
<1>2. TypeOK /\ [Next]_vars => TypeOK'
  <2> SUFFICES ASSUME TypeOK, [Next]_vars PROVE TypeOK'
    OBVIOUS
  <2>1. ASSUME NEW v \in Vpns, NEW acc \in Accesses, Access(v, acc)
        PROVE  TypeOK'
    <3>1. CASE Walks(v, acc) /\ WalkOk(v, acc)
      <4>1. root # Bare
        BY <3>1 DEF Walks, Physical
      <4>2. pte' = Touched(v, acc)
        BY <2>1, <3>1 DEF Access, PteAfter
      <4>3. /\ pte' \in [Slots -> PteType]
            /\ \A s \in Slots : /\ pte'[s].v = pte[s].v
                                /\ pte'[s].perm = pte[s].perm
                                /\ pte'[s].ppn = pte[s].ppn
        BY <4>1, <4>2, TouchedPte
      <4>4. \A s \in Slots : IsPtr(pte'[s]) => pte'[s].ppn \in Tables
        BY <4>3 DEF TypeOK, IsPtr
      <4>5. pte[Slot(v)] \in PteType
        BY <4>1, SlotInTables DEF TypeOK
      <4>6. (pte[Slot(v)].d \/ acc = "W") \in BOOLEAN
        OBVIOUS
      <4>7. NewEntry(v, acc) \in EntryType
        BY <4>1, <4>5, <4>6, MappedIsNat DEF NewEntry, EntryType, PteType
      <4>8. tlb' \in [TlbIndex -> EntryType]
        BY <2>1, <3>1, <4>7, Digits DEF Access, TypeOK
      <4>9. stale' \subseteq Vpns
        BY <2>1, <3>1 DEF Access, TypeOK
      <4> QED BY <2>1, <4>3, <4>4, <4>8, <4>9 DEF Access, TypeOK
    <3>2. CASE ~(Walks(v, acc) /\ WalkOk(v, acc))
      BY <2>1, <3>2 DEF Access, PteAfter, TypeOK
    <3> QED BY <3>1, <3>2
  <2>2. ASSUME NEW r \in Tables \cup {Bare, Unsupported}, WriteSatp(r)
        PROVE  TypeOK'
    BY <2>2, EmptyTlbType DEF WriteSatp, Satp, FlushTlb, TypeOK
  <2>3. CASE Sfence
    BY <2>3, EmptyTlbType DEF Sfence, FlushTlb, TypeOK
  <2>4. ASSUME NEW p \in {"M", "S", "U"}, SetPriv(p)
        PROVE  TypeOK'
    BY <2>4 DEF SetPriv, TypeOK
  <2>5. ASSUME NEW s \in BOOLEAN, NEW m \in BOOLEAN, SetStatus(s, m)
        PROVE  TypeOK'
    BY <2>5 DEF SetStatus, TypeOK
  <2>6. ASSUME NEW s \in Slots, NEW e \in Ptes, WritePte(s, e)
        PROVE  TypeOK'
    <3>1. e \in PteType /\ (IsPtr(e) => e.ppn \in Tables)
      BY MmuAssumption
    <3>2. pte' \in [Slots -> PteType]
      BY <2>6, <3>1 DEF WritePte, TypeOK
    <3>3. \A t \in Slots : pte'[t] = IF t = s THEN e ELSE pte[t]
      BY <2>6 DEF WritePte, TypeOK
    <3>4. \A t \in Slots : IsPtr(pte'[t]) => pte'[t].ppn \in Tables
      BY <3>1, <3>3 DEF TypeOK
    <3>5. stale' \subseteq Vpns
      BY <2>6 DEF WritePte, TypeOK
    <3>6. writes' \in 0 .. MaxWrites
      BY <2>6, MmuAssumption DEF WritePte, TypeOK
    <3> QED BY <2>6, <3>2, <3>4, <3>5, <3>6 DEF WritePte, TypeOK
  <2>7. CASE UNCHANGED vars
    BY <2>7 DEF vars, TypeOK
  <2> QED BY <2>1, <2>2, <2>3, <2>4, <2>5, <2>6, <2>7 DEF Next
<1> QED BY <1>1, <1>2, PTL DEF Spec

\* What leaves the tables, satp and the TLB alone keeps the TLB coherent.
LEMMA UnchangedCoherent ==
    ASSUME TlbCoherent, UNCHANGED <<pte, tlb, stale, root>>
    PROVE  TlbCoherent'
<1>1. \A u : Slot2(u)' = Slot2(u) /\ Slot1(u)' = Slot1(u) /\ Slot0(u)' = Slot0(u)
  BY DEF Slot2, Slot1, Slot0
<1>2. \A u : Level(u)' = Level(u)
  BY <1>1 DEF Level
<1>3. \A u : Slot(u)' = Slot(u)
  BY <1>1, <1>2 DEF Slot
<1>4. \A u : MappedPage(u)' = MappedPage(u)
  BY <1>2, <1>3 DEF MappedPage
<1>5. ASSUME NEW i \in TlbIndex PROVE Coherent(i)'
  <2>1. Coherent(i)
    BY DEF TlbCoherent
  <2> QED BY <2>1, <1>2, <1>3, <1>4 DEF Coherent, Idx, Span
<1>6. BareIsEmpty'
  BY DEF TlbCoherent, BareIsEmpty
<1> QED BY <1>5, <1>6 DEF TlbCoherent

\* The initial state and every step keep the TLB coherent.
THEOREM TlbIsCoherent == Spec => [](TypeOK /\ TlbCoherent)
<1>1. Init => TlbCoherent
  BY DEF Init, TlbCoherent, BareIsEmpty, Coherent, NoEntry
<1>2. TypeOK /\ TypeOK' /\ TlbCoherent /\ [Next]_vars => TlbCoherent'
  <2> SUFFICES ASSUME TypeOK, TypeOK', TlbCoherent, [Next]_vars
               PROVE  TlbCoherent'
    OBVIOUS
  <2>1. ASSUME NEW v \in Vpns, NEW acc \in Accesses, Access(v, acc)
        PROVE  TlbCoherent'
    <3>1. CASE Walks(v, acc) /\ WalkOk(v, acc)
      <4>1. root # Bare /\ root' = root
        BY <2>1, <3>1 DEF Walks, Physical, Access
      <4>2. BareIsEmpty'
        BY <4>1 DEF BareIsEmpty
      <4>3. pte' = Touched(v, acc)
        BY <2>1, <3>1 DEF Access, PteAfter
      <4>4. \A s \in Slots : /\ pte'[s].v = pte[s].v
                             /\ pte'[s].perm = pte[s].perm
                             /\ pte'[s].ppn = pte[s].ppn
                             /\ pte[s].d => pte'[s].d
        BY <4>1, <4>3, TouchedPte
      <4>5. \A u \in Vpns : /\ Slot(u)' = Slot(u) /\ Level(u)' = Level(u)
                            /\ MappedPage(u)' = MappedPage(u)
                            /\ Slot(u) \in Slots
        <5> TAKE u \in Vpns
        <5>1. Path(u) \subseteq Slots
          BY <4>1, SlotInTables DEF Path
        <5> QED BY <4>1, <4>4, <5>1, SameWalk, SlotInTables
      <4>6. ASSUME NEW i \in TlbIndex PROVE Coherent(i)'
        <5>1. CASE i = Idx(v)
          <6>1. tlb'[i] = NewEntry(v, acc)
            BY <2>1, <3>1, <5>1 DEF Access, TypeOK
          <6>2. IsLeaf(pte'[Slot(v)])
            BY <3>1, <4>4, <4>5 DEF WalkOk, IsLeaf
          <6>3. /\ tlb'[i].vpn = v /\ tlb'[i].ppn = MappedPage(v)
                /\ tlb'[i].perm = pte[Slot(v)].perm
            BY <6>1 DEF NewEntry
          <6>4. tlb'[i].dirty => pte'[Slot(v)].d
            <7>1. tlb'[i].dirty = (pte[Slot(v)].d \/ acc = "W")
              BY <6>1 DEF NewEntry
            <7>2. pte[Slot(v)].d \/ acc = "W" => pte'[Slot(v)].d
              BY <4>1, <4>3, TouchedPte
            <7> QED BY <7>1, <7>2
          <6>5. pte'[Slot(v)].ppn % Span(Level(v)) = 0
            BY <3>1, <4>4, <4>5 DEF WalkOk
          <6>6. pte'[Slot(v)].perm = pte[Slot(v)].perm
            BY <4>4, <4>5
          <6> QED BY <4>5, <5>1, <6>2, <6>3, <6>4, <6>5, <6>6 DEF Coherent, Idx, Span
        <5>2. CASE i # Idx(v)
          <6>1. tlb'[i] = tlb[i]
            BY <2>1, <3>1, <5>2 DEF Access, TypeOK
          <6> SUFFICES ASSUME tlb[i].valid PROVE Coherent(i)'
            BY <6>1 DEF Coherent
          <6> DEFINE u == tlb[i].vpn
          <6>2. u \in Vpns
            BY DEF TypeOK, EntryType
          <6>3. Idx(u) = i
            BY DEF TlbCoherent, Coherent
          <6>4. u \notin stale' => u \notin stale
            BY <2>1, <3>1, <5>2, <6>3 DEF Access
          <6> HIDE DEF u
          <6>5. ASSUME u \notin stale'
                PROVE  /\ IsLeaf(pte'[Slot(u)])
                       /\ tlb[i].perm = pte'[Slot(u)].perm
                       /\ pte'[Slot(u)].ppn % Span(Level(u)) = 0
                       /\ tlb[i].ppn = MappedPage(u)
                       /\ tlb[i].dirty => pte'[Slot(u)].d
            <7>1. /\ IsLeaf(pte[Slot(u)])
                  /\ tlb[i].perm = pte[Slot(u)].perm
                  /\ pte[Slot(u)].ppn % Span(Level(u)) = 0
                  /\ tlb[i].ppn = MappedPage(u)
                  /\ tlb[i].dirty => pte[Slot(u)].d
              BY <6>4, <6>5 DEF TlbCoherent, Coherent, u
            <7>2. /\ pte'[Slot(u)].v = pte[Slot(u)].v
                  /\ pte'[Slot(u)].perm = pte[Slot(u)].perm
                  /\ pte'[Slot(u)].ppn = pte[Slot(u)].ppn
                  /\ pte[Slot(u)].d => pte'[Slot(u)].d
              BY <4>4, <4>5, <6>2
            <7> QED BY <7>1, <7>2 DEF IsLeaf
          <6> QED BY <4>5, <6>1, <6>2, <6>3, <6>5 DEF Coherent, Idx, Span, u
        <5> QED BY <5>1, <5>2
      <4> QED BY <4>2, <4>6 DEF TlbCoherent
    <3>2. CASE ~(Walks(v, acc) /\ WalkOk(v, acc))
      <4>1. UNCHANGED <<pte, tlb, stale, root>>
        BY <2>1, <3>2 DEF Access, PteAfter
      <4> QED BY <4>1, UnchangedCoherent
    <3> QED BY <3>1, <3>2
  <2>2. ASSUME FlushTlb PROVE TlbCoherent'
    BY <2>2 DEF FlushTlb, NoEntry, TlbCoherent, BareIsEmpty, Coherent
  <2>3. ASSUME UNCHANGED <<pte, tlb, stale, root>> PROVE TlbCoherent'
    BY <2>3, UnchangedCoherent
  <2>4. ASSUME NEW s \in Slots, NEW e \in Ptes, WritePte(s, e)
        PROVE  TlbCoherent'
    <3>1. root' = root /\ tlb' = tlb
      BY <2>4 DEF WritePte
    <3>2. BareIsEmpty'
      BY <3>1 DEF TlbCoherent, BareIsEmpty
    <3>3. CASE root = Bare
      BY <3>1, <3>2, <3>3 DEF TlbCoherent, BareIsEmpty, Coherent
    <3>4. ASSUME root # Bare, NEW i \in TlbIndex, tlb[i].valid PROVE Coherent(i)'
      <4>0. PICK u \in Vpns : u = tlb[i].vpn
        BY DEF TypeOK, EntryType
      <4>1. Idx(u) = i
        BY <3>4, <4>0 DEF TlbCoherent, Coherent
      <4>2. ASSUME u \notin stale'
            PROVE  /\ u \notin stale
                   /\ \A t \in Path(u) : pte'[t] = pte[t]
        <5>1. u \notin stale /\ s \notin Path(u)
          BY <2>4, <3>4, <4>0, <4>1, <4>2 DEF WritePte, Entry
        <5>2. Path(u) \subseteq Slots
          BY <3>4, <4>1, SlotInTables DEF Path
        <5>3. \A t \in Slots : t # s => pte'[t] = pte[t]
          BY <2>4 DEF WritePte, TypeOK
        <5> QED BY <5>1, <5>2, <5>3
      <4>3. ASSUME u \notin stale'
            PROVE  /\ Slot(u)' = Slot(u) /\ Level(u)' = Level(u)
                   /\ MappedPage(u)' = MappedPage(u)
                   /\ pte'[Slot(u)] = pte[Slot(u)]
        <5>1. \A t \in Path(u) : pte'[t] = pte[t]
          BY <4>2, <4>3
        <5>2. \A t \in Path(u) : /\ pte'[t].v = pte[t].v
                                 /\ pte'[t].perm = pte[t].perm
                                 /\ pte'[t].ppn = pte[t].ppn
          BY <5>1
        <5>3. /\ Slot(u)' = Slot(u) /\ Level(u)' = Level(u)
              /\ MappedPage(u)' = MappedPage(u) /\ Slot(u) \in Path(u)
          BY <3>1, <5>2, SameWalk
        <5> QED BY <5>1, <5>3
      <4>4. ASSUME u \notin stale'
            PROVE  /\ IsLeaf(pte[Slot(u)])
                   /\ tlb[i].perm = pte[Slot(u)].perm
                   /\ pte[Slot(u)].ppn % Span(Level(u)) = 0
                   /\ tlb[i].ppn = MappedPage(u)
                   /\ tlb[i].dirty => pte[Slot(u)].d
        BY <3>4, <4>0, <4>2, <4>4 DEF TlbCoherent, Coherent
      <4> QED BY <3>1, <4>0, <4>1, <4>3, <4>4 DEF Coherent, Idx, Span
    <3> QED BY <3>1, <3>2, <3>3, <3>4 DEF TlbCoherent, Coherent
  <2> QED BY <2>1, <2>2, <2>3, <2>4
          DEF Next, WriteSatp, Sfence, SetPriv, SetStatus, vars
<1> QED BY <1>1, <1>2, MmuTypeCorrect, PTL DEF Spec

\* Whichever path an access takes, it reaches what the walk finds: the fast
\* paths and the TLB lookup agree with the walk on every page not outdated.
THEOREM EveryPathIsTheWalk == Spec => []AccessIsWalk
<1>1. TypeOK /\ TlbCoherent => AccessIsWalk
  <2> SUFFICES ASSUME TypeOK, TlbCoherent, priv # "M",
                      NEW v \in Vpns \ stale, NEW acc \in Accesses
               PROVE  Reached(v, acc) = IF Physical THEN Page(v) ELSE Walk(v, acc)
    BY DEF AccessIsWalk
  <2>1. Idx(v) \in TlbIndex
    BY Digits
  <2>2. ASSUME Hit(v, acc) PROVE ~Physical /\ Walk(v, acc) = Page(Entry(v).ppn)
    <3>1. Entry(v).valid /\ Entry(v).vpn = v /\ Allowed(Entry(v).perm, acc)
      BY <2>2 DEF Hit
    <3>2. ~Physical
      BY <2>1, <3>1 DEF TlbCoherent, BareIsEmpty, Physical, Entry
    <3>3. /\ IsLeaf(pte[Slot(v)])
          /\ Entry(v).perm = pte[Slot(v)].perm
          /\ pte[Slot(v)].ppn % Span(Level(v)) = 0
          /\ Entry(v).ppn = MappedPage(v)
      BY <2>1, <3>1 DEF TlbCoherent, Coherent, Entry
    <3> QED BY <3>1, <3>2, <3>3 DEF Walk, WalkOk
  <2> QED BY <2>2 DEF Reached, FastHit
<1> QED BY <1>1, TlbIsCoherent, PTL

\* No successful store leaves its page clean: D is set by the walk, or the
\* dirty flag that let the store skip the walk stands for a D that is set.
THEOREM NoCleanStore == Spec => []StoreSetsDirty
<1>1. TypeOK /\ TlbCoherent => StoreSetsDirty
  <2> SUFFICES ASSUME TypeOK, TlbCoherent, ~Physical, NEW v \in Vpns \ stale,
                      Reached(v, "W").ok
               PROVE  PteAfter(v, "W")[Slot(v)].d
    BY DEF StoreSetsDirty
  <2>1. Idx(v) \in TlbIndex /\ "W" \in Accesses
    BY Digits DEF Accesses
  <2>2. CASE Hit(v, "W")
    <3>1. Entry(v).valid /\ Entry(v).vpn = v /\ Entry(v).dirty
      BY <2>2 DEF Hit
    <3>2. pte[Slot(v)].d
      BY <2>1, <3>1 DEF TlbCoherent, Coherent, Entry
    <3>3. PteAfter(v, "W") = pte
      BY <2>2 DEF PteAfter, Walks
    <3> QED BY <3>2, <3>3
  <2>3. CASE ~Hit(v, "W")
    <3>1. Walk(v, "W").ok
      BY <2>3 DEF Reached, FastHit
    <3>2. WalkOk(v, "W")
      BY <3>1 DEF Walk, Fault
    <3>3. PteAfter(v, "W") = Touched(v, "W")
      BY <2>3, <3>2 DEF PteAfter, Walks
    <3>4. Slot(v) \in Slots
      BY SlotInTables DEF Physical
    <3>5. Touched(v, "W")[Slot(v)] = Used(pte[Slot(v)], "W")
      BY <3>4 DEF Touched, TypeOK
    <3>6. Used(pte[Slot(v)], "W").d
      BY UsedFields
    <3> QED BY <3>3, <3>5, <3>6
  <2> QED BY <2>2, <2>3
<1> QED BY <1>1, TlbIsCoherent, PTL

-----------------------------------------------------------------------------
(* The loops that run the hart.                                            *)

\* check_interrupts adds to mip only what is asserted, or keeps a timer that
\* was pending before.
LEMMA SamplesAreReal ==
    ASSUME NoPhantomTimer, NEW refresh, mip' = Sampled(refresh),
           asserted' = asserted
    PROVE  NoPhantomTimer'
BY DEF NoPhantomTimer, Sampled

\* Only a write of stimecmp withdraws the timer, and it clears STIP with it.
LEMMA LoopStepKeepsTimers ==
    ASSUME NoPhantomTimer, [LoopNext]_loopVars
    PROVE  NoPhantomTimer'
<1>1. ASSUME Check PROVE NoPhantomTimer'
  BY <1>1, SamplesAreReal DEF Check, CheckInterrupts
<1>2. ASSUME WfiTurn PROVE NoPhantomTimer'
  BY <1>2, SamplesAreReal DEF WfiTurn, CheckInterrupts
<1>3. ASSUME NEW k, RunBlock(k) PROVE NoPhantomTimer'
  BY <1>3 DEF RunBlock, NoPhantomTimer
<1>4. ASSUME NEW s \in Sources, Quiet(s) PROVE NoPhantomTimer'
  BY <1>4 DEF Quiet, Sources, NoPhantomTimer
<1>5. ASSUME NEW s, Assert(s) PROVE NoPhantomTimer'
  BY <1>5 DEF Assert, NoPhantomTimer
<1>6. ASSUME UNCHANGED <<mip, asserted>> PROVE NoPhantomTimer'
  BY <1>6 DEF NoPhantomTimer
<1>7. ASSUME Finish \/ NoCheck \/ WfiEnter \/ WfiTimeout
             \/ Plain \/ Wfi \/ Trap
      PROVE NoPhantomTimer'
  BY <1>6, <1>7 DEF Finish, NoCheck, WfiEnter, WfiTimeout,
                    Plain, Wfi, Trap, hart
<1>8. ASSUME NEW o, NEW csr, SetOpen(o, csr) PROVE NoPhantomTimer'
  BY <1>6, <1>8 DEF SetOpen
<1>9. ASSUME NEW m, SetMie(m) PROVE NoPhantomTimer'
  BY <1>6, <1>9 DEF SetMie
<1>10. ASSUME NEW n, StartRun(n) PROVE NoPhantomTimer'
  BY <1>6, <1>10 DEF StartRun, hart
<1>11. ASSUME NEW n, SetBreakpoint(n) \/ RequestHalt(n)
       PROVE NoPhantomTimer'
  BY <1>6, <1>11 DEF SetBreakpoint, RequestHalt, hart
<1>12. CASE UNCHANGED loopVars
  BY <1>6, <1>12 DEF loopVars, hart
<1> QED
  BY <1>1, <1>2, <1>3, <1>4, <1>5, <1>7, <1>8, <1>9, <1>10, <1>11, <1>12
     DEF LoopNext, RunStep

\* A timer interrupt that the run loops hold pending is one whose time had
\* come when the clock was last read and that the guest has not withdrawn,
\* for every check interval, budget and block length.
THEOREM TimersAreReal == LoopSpec => []NoPhantomTimer
<1>1. LoopInit => NoPhantomTimer
  BY DEF LoopInit, NoPhantomTimer
<1> QED
  BY <1>1, LoopStepKeepsTimers, PTL DEF LoopSpec

\* Every variable of the loops stays in its type: the cycles until the next
\* check never exceed the interval, and neither counter falls below zero.
THEOREM LoopTypeCorrect == LoopSpec => []LoopTypeOK
<1> USE RunLoopAssumption
<1>1. LoopInit => LoopTypeOK
  <2> SUFFICES ASSUME LoopInit PROVE LoopTypeOK
    OBVIOUS
  <2>1. jit \in BOOLEAN /\ 0 \in 0 .. Interval
    BY DEF LoopInit
  <2>2. {jit, halted, open, irqCheck, trapped, atBreak, debugHalt, request} \subseteq BOOLEAN
    BY <2>1 DEF LoopInit
  <2> QED
    BY <2>1, <2>2 DEF LoopInit, LoopTypeOK
<1>2. ASSUME LoopTypeOK, [LoopNext]_loopVars PROVE LoopTypeOK'
  <2>0. USE <1>2
  <2>1. ASSUME NEW k \in Nat, NEW n \in Nat
        PROVE  Minus(n, k) \in Nat /\ Minus(n, k) <= n
    BY <2>1 DEF Minus
  <2>2. ASSUME NEW k \in Nat, Spend(k) PROVE left' \in Nat /\ toCheck' \in 0 .. Interval
    BY <2>1, <2>2 DEF Spend, LoopTypeOK
  <2>3. ASSUME NEW r \in BOOLEAN PROVE Sampled(r) \subseteq Sources
    BY DEF Sampled, LoopTypeOK
  <2>4. CASE Check
    <3>1. mip' \subseteq Sources
      BY <2>3, <2>4 DEF Check, CheckInterrupts
    <3> QED
      BY <2>4, <3>1 DEF Check, CheckInterrupts, LoopTypeOK, debug
  <2>5. CASE WfiTurn
    <3>1. mip' \subseteq Sources
      BY <2>3, <2>5 DEF WfiTurn, CheckInterrupts
    <3>2. left' \in Nat /\ toCheck' \in 0 .. Interval
      BY <2>1, <2>5 DEF WfiTurn, LoopTypeOK
    <3> QED
      BY <2>5, <3>1, <3>2 DEF WfiTurn, CheckInterrupts, LoopTypeOK, debug
  <2>6. CASE Finish \/ NoCheck \/ WfiEnter \/ WfiTimeout
    BY <2>6 DEF Finish, NoCheck, WfiEnter, WfiTimeout, LoopTypeOK,
                hart, debug
  <2>7. ASSUME NEW k \in 1 .. MaxBlock, RunBlock(k) PROVE LoopTypeOK'
    <3>1. left' \in Nat /\ toCheck' \in 0 .. Interval
      BY <2>2, <2>7 DEF RunBlock
    <3> QED
      BY <2>7, <3>1 DEF RunBlock, LoopTypeOK
  <2>8. ASSUME EndStep
        PROVE  /\ place' \in {"stopped", "top"} /\ exit' \in {"NONE", "BUDGET", "DEBUG_HALT", "WFI_TIMEOUT"}
               /\ {debugHalt', atBreak', jit', request'} \subseteq BOOLEAN
               /\ breakHalt' \in {"off", "log", "halt"}
    BY <2>8 DEF EndStep, LoopTypeOK
  <2>9. CASE Plain \/ Wfi \/ Trap
    <3>1. left' \in Nat /\ toCheck' \in 0 .. Interval
      BY <2>2, <2>9 DEF Plain, Wfi, Trap, LoopTypeOK
    <3> QED
      BY <2>8, <2>9, <3>1 DEF Plain, Wfi, Trap, LoopTypeOK
  <2>10. ASSUME NEW o \in BOOLEAN, NEW csr \in BOOLEAN, SetOpen(o, csr) PROVE LoopTypeOK'
    <3>1. left' \in Nat /\ toCheck' \in 0 .. Interval
      BY <2>2, <2>10 DEF SetOpen
    <3> QED
      BY <2>8, <2>10, <3>1 DEF SetOpen, LoopTypeOK
  <2>11. ASSUME NEW m \in SUBSET Sources, SetMie(m) PROVE LoopTypeOK'
    <3>1. left' \in Nat /\ toCheck' \in 0 .. Interval
      BY <2>2, <2>11 DEF SetMie
    <3> QED
      BY <2>8, <2>11, <3>1 DEF SetMie, LoopTypeOK
  <2>12. ASSUME NEW s \in Sources, Quiet(s) PROVE LoopTypeOK'
    <3>1. left' \in Nat /\ toCheck' \in 0 .. Interval
      BY <2>2, <2>12 DEF Quiet
    <3> QED
      BY <2>8, <2>12, <3>1 DEF Quiet, LoopTypeOK
  <2>13. ASSUME NEW n \in Budgets, StartRun(n) PROVE LoopTypeOK'
    BY <2>13 DEF StartRun, LoopTypeOK, hart
  <2>14. ASSUME NEW mode \in {"off", "log", "halt"}, SetBreakpoint(mode) PROVE LoopTypeOK'
    BY <2>14 DEF SetBreakpoint, LoopTypeOK, loop, hart
  <2>15. ASSUME NEW h \in BOOLEAN, RequestHalt(h) PROVE LoopTypeOK'
    BY <2>15 DEF RequestHalt, LoopTypeOK, loop, hart
  <2>16. ASSUME NEW s \in Sources, Assert(s) PROVE LoopTypeOK'
    BY <2>16 DEF Assert, LoopTypeOK, loop, debug
  <2>17. CASE UNCHANGED loopVars
    BY <2>17 DEF loopVars, loop, hart, debug, LoopTypeOK
  <2> QED
    BY <2>4, <2>5, <2>6, <2>7, <2>9, <2>10, <2>11, <2>12, <2>13, <2>14, <2>15, <2>16, <2>17
       DEF LoopNext, RunStep
<1> QED
  BY <1>1, <1>2, PTL DEF LoopSpec

=============================================================================
