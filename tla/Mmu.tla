-------------------------------- MODULE Mmu --------------------------------
(***************************************************************************)
(* Address translation of the emulated hart: the Sv39 walk and its         *)
(* direct-mapped TLB (rv64_mmu.c), and the fast paths of loads and stores, *)
(* which use a TLB entry without asking the MMU (rv64_cpu.c).              *)
(*                                                                         *)
(* Addresses are page numbers: a virtual page is a number of three digits  *)
(* of base Radix (2^9 in the code), one for each level of the page table.  *)
(* A page table page is named by its physical page number, so an entry's   *)
(* ppn is either the next table or the page that is mapped.  The guest may *)
(* change page table entries at any time; a TLB entry made from an entry   *)
(* that has changed is stale until it is flushed or replaced, as the       *)
(* architecture allows.                                                    *)
(***************************************************************************)
EXTENDS Naturals

CONSTANTS
    Radix,      \* entries of a page table page
    TlbSize,    \* entries of the TLB (TLB_SIZE)
    Tables,     \* physical pages used as page tables
    RamPages,   \* physical pages backed by RAM; the others are devices
    Ptes,       \* page table entries the guest may write
    InitPte,    \* the page tables at the start
    Bare,       \* satp in bare mode
    Unsupported,\* satp with a mode the hart does not have (Sv48, Sv57)
    MaxWrites   \* bound: page table entries written by the guest

Rights == {"R", "W", "X", "U"}
Accesses == {"R", "W", "X"}
Vpns == 0 .. (Radix * Radix * Radix - 1)
TlbIndex == 0 .. (TlbSize - 1)
Slots == Tables \X (0 .. (Radix - 1))
PteType == [v : BOOLEAN, perm : SUBSET Rights, ppn : Nat, a : BOOLEAN, d : BOOLEAN]

\* A valid entry without R, W and X points to the next table.
IsPtr(e) == e.v /\ e.perm \cap {"R", "W", "X"} = {}
\* W without R is reserved.
IsLeaf(e) == e.v /\ e.perm \cap {"R", "W", "X"} # {} /\ ("W" \in e.perm => "R" \in e.perm)

ASSUME MmuAssumption ==
    /\ Radix \in Nat \ {0} /\ TlbSize \in Nat \ {0}
    /\ Tables \subseteq Nat /\ Bare \notin Tables
    /\ Unsupported \notin Tables \cup {Bare}
    /\ Ptes \subseteq PteType
    /\ \A e \in Ptes : IsPtr(e) => e.ppn \in Tables
    /\ InitPte \in [Slots -> PteType]
    /\ \A s \in Slots : IsPtr(InitPte[s]) => InitPte[s].ppn \in Tables
    /\ MaxWrites \in Nat

VARIABLES
    pte,        \* the page tables in guest memory
    root,       \* satp: the root table, or Bare
    priv, sum, mxr,   \* privilege level, mstatus.SUM and mstatus.MXR
    tlb,        \* the TLB
    stale,      \* virtual pages whose TLB entry the guest has outdated
    writes      \* page table writes so far

vars == <<pte, root, priv, sum, mxr, tlb, stale, writes>>

NoEntry == [valid |-> FALSE, vpn |-> 0, ppn |-> 0, perm |-> {}, dirty |-> FALSE]
Fault == [ok |-> FALSE, page |-> 0]
Page(p) == [ok |-> TRUE, page |-> p]

Init ==
    /\ pte = InitPte /\ root = Bare
    /\ priv = "M" /\ sum = FALSE /\ mxr = FALSE
    /\ tlb = [i \in TlbIndex |-> NoEntry] /\ stale = {}
    /\ writes = 0

-----------------------------------------------------------------------------
(* The walk.                                                               *)

Digit0(v) == v % Radix
Digit1(v) == (v \div Radix) % Radix
Digit2(v) == (v \div (Radix * Radix)) % Radix

\* The entries the walk may visit, top level first.
Slot2(v) == <<root, Digit2(v)>>
Slot1(v) == <<pte[Slot2(v)].ppn, Digit1(v)>>
Slot0(v) == <<pte[Slot1(v)].ppn, Digit0(v)>>

Level(v) == IF ~IsPtr(pte[Slot2(v)]) THEN 2
            ELSE IF ~IsPtr(pte[Slot1(v)]) THEN 1 ELSE 0

\* The entry at which the walk ends.
Slot(v) == IF Level(v) = 2 THEN Slot2(v)
           ELSE IF Level(v) = 1 THEN Slot1(v) ELSE Slot0(v)

\* The number of pages a leaf at a level maps.
Span(level) == IF level = 2 THEN Radix * Radix
               ELSE IF level = 1 THEN Radix ELSE 1

\* The rights of a page grant the access; MXR makes executable pages readable.
Grants(perm, acc) ==
    /\ acc = "R" => "R" \in perm \/ (mxr /\ "X" \in perm)
    /\ acc = "W" => "W" \in perm
    /\ acc = "X" => "X" \in perm

\* U-mode needs a user page; S-mode may use one only under SUM.
UserRule(perm) ==
    /\ priv = "U" => "U" \in perm
    /\ priv = "S" /\ "U" \in perm => sum

Allowed(perm, acc) == Grants(perm, acc) /\ UserRule(perm)

\* The physical page of a leaf: superpages keep the low digits.
MappedPage(v) == pte[Slot(v)].ppn + (v % Span(Level(v)))

\* The walk succeeds at an aligned leaf that allows the access.  (A
\* table outside RAM faults like one whose entries are all invalid.)
WalkOk(v, acc) ==
    /\ IsLeaf(pte[Slot(v)])
    /\ Allowed(pte[Slot(v)].perm, acc)
    /\ pte[Slot(v)].ppn % Span(Level(v)) = 0

Walk(v, acc) == IF WalkOk(v, acc) THEN Page(MappedPage(v)) ELSE Fault

-----------------------------------------------------------------------------
(* The TLB and the access paths.                                           *)

Idx(v) == v % TlbSize
Entry(v) == tlb[Idx(v)]

\* Mutant: a write may use an entry whose dirty flag is not set.
MutHit(v, acc) ==
    /\ Entry(v).valid /\ Entry(v).vpn = v
    /\ Allowed(Entry(v).perm, acc)

\* A write needs an entry whose page is known to be dirty.
Hit(v, acc) ==
    /\ Entry(v).valid /\ Entry(v).vpn = v
    /\ Allowed(Entry(v).perm, acc)
    /\ acc = "W" => Entry(v).dirty

Physical == priv = "M" \/ root = Bare

\* Mutant: the fast path does not look at the U bit.
MutFastHit(v, acc) ==
    /\ Entry(v).valid /\ Entry(v).vpn = v /\ Entry(v).ppn \in RamPages
    /\ Grants(Entry(v).perm, acc)
    /\ acc = "W" => Entry(v).dirty

\* The fast paths of rv64_cpu_load and cpu_store: a hit on a RAM page.
FastHit(v, acc) == Hit(v, acc) /\ Entry(v).ppn \in RamPages

\* The page an access reaches: by the fast path, else by rv64_translate.
Reached(v, acc) ==
    IF FastHit(v, acc) THEN Page(Entry(v).ppn)
    ELSE IF Physical THEN Page(v)
    ELSE IF Hit(v, acc) THEN Page(Entry(v).ppn)
    ELSE Walk(v, acc)

\* The access needs a walk.
Walks(v, acc) == ~Physical /\ ~Hit(v, acc)

\* Mutant: the entry is marked dirty after a read, too.
MutNewEntry(v, acc) ==
    [valid |-> TRUE, vpn |-> v, ppn |-> MappedPage(v),
     perm |-> pte[Slot(v)].perm, dirty |-> TRUE]

\* What a successful walk leaves in the TLB ...
NewEntry(v, acc) ==
    [valid |-> TRUE, vpn |-> v, ppn |-> MappedPage(v),
     perm |-> pte[Slot(v)].perm,
     dirty |-> pte[Slot(v)].d \/ acc = "W"]

\* ... and in the page table: the A and D bits.
Used(e, acc) == [v |-> e.v, perm |-> e.perm, ppn |-> e.ppn,
                 a |-> TRUE, d |-> (e.d \/ acc = "W")]

Touched(v, acc) == [pte EXCEPT ![Slot(v)] = Used(pte[Slot(v)], acc)]

\* The page tables after an access.
PteAfter(v, acc) ==
    IF Walks(v, acc) /\ WalkOk(v, acc) THEN Touched(v, acc) ELSE pte

\* One load, store or fetch within a page.
Access(v, acc) ==
    /\ pte' = PteAfter(v, acc)
    /\ IF Walks(v, acc) /\ WalkOk(v, acc)
       THEN /\ tlb' = [tlb EXCEPT ![Idx(v)] = NewEntry(v, acc)]
            /\ stale' = {u \in stale : Idx(u) # Idx(v)}
       ELSE UNCHANGED <<tlb, stale>>
    /\ UNCHANGED <<root, priv, sum, mxr, writes>>

\* rv64_tlb_flush
FlushTlb ==
    /\ tlb' = [i \in TlbIndex |-> NoEntry]
    /\ stale' = {}

\* Mutant: an unsupported mode is stored as it is.
MutSatp(r) == r

\* The value satp takes: an unsupported mode is refused by storing Bare.
Satp(r) == IF r = Unsupported THEN Bare ELSE r

\* csr_write(satp)
WriteSatp(r) ==
    /\ root' = Satp(r)
    /\ FlushTlb
    /\ UNCHANGED <<pte, priv, sum, mxr, writes>>

\* SFENCE.VMA flushes everything, whatever its operands.
Sfence ==
    /\ FlushTlb
    /\ UNCHANGED <<pte, root, priv, sum, mxr, writes>>

\* A trap, MRET or SRET: the TLB is kept.
SetPriv(p) ==
    /\ priv' = p
    /\ UNCHANGED <<pte, root, sum, mxr, tlb, stale, writes>>

\* A write of mstatus or sstatus: the TLB is kept.
SetStatus(s, m) ==
    /\ sum' = s /\ mxr' = m
    /\ UNCHANGED <<pte, root, priv, tlb, stale, writes>>

\* The guest writes a page table entry (external): the pages whose walk
\* visits it are stale if the TLB knows them.
Path(v) == {Slot2(v)}
           \cup (IF IsPtr(pte[Slot2(v)]) THEN {Slot1(v)} ELSE {})
           \cup (IF IsPtr(pte[Slot2(v)]) /\ IsPtr(pte[Slot1(v)]) THEN {Slot0(v)} ELSE {})

WritePte(s, e) ==
    /\ writes < MaxWrites
    /\ writes' = writes + 1
    /\ pte' = [pte EXCEPT ![s] = e]
    /\ stale' = IF root = Bare THEN stale
                ELSE stale \cup {v \in Vpns : s \in Path(v) /\ Entry(v).valid /\ Entry(v).vpn = v}
    /\ UNCHANGED <<root, priv, sum, mxr, tlb>>

Next ==
    \/ \E v \in Vpns, acc \in Accesses : Access(v, acc)
    \/ \E r \in Tables \cup {Bare, Unsupported} : WriteSatp(r)
    \/ Sfence
    \/ \E p \in {"M", "S", "U"} : SetPriv(p)
    \/ \E s \in BOOLEAN, m \in BOOLEAN : SetStatus(s, m)
    \/ \E s \in Slots, e \in Ptes : WritePte(s, e)

Spec == Init /\ [][Next]_vars

-----------------------------------------------------------------------------
EntryType == [valid : BOOLEAN, vpn : Vpns, ppn : Nat, perm : SUBSET Rights,
              dirty : BOOLEAN]

\* Every variable stays in its type.
TypeOK ==
    /\ pte \in [Slots -> PteType]
    /\ \A s \in Slots : IsPtr(pte[s]) => pte[s].ppn \in Tables
    /\ root \in Tables \cup {Bare}
    /\ priv \in {"M", "S", "U"} /\ sum \in BOOLEAN /\ mxr \in BOOLEAN
    /\ tlb \in [TlbIndex -> EntryType]
    /\ stale \subseteq Vpns
    /\ writes \in 0 .. MaxWrites

\* In bare mode the TLB is empty.
BareIsEmpty == root = Bare => \A i \in TlbIndex : ~tlb[i].valid

\* A TLB entry sits at the index of its page.  One that is not stale is what
\* the walk would build now, but for the dirty flag, which may lag behind the
\* page table and is never ahead of it.
Coherent(i) ==
    LET e == tlb[i]
    IN  e.valid =>
            /\ Idx(e.vpn) = i
            /\ e.vpn \notin stale =>
                   /\ IsLeaf(pte[Slot(e.vpn)])
                   /\ e.perm = pte[Slot(e.vpn)].perm
                   /\ pte[Slot(e.vpn)].ppn % Span(Level(e.vpn)) = 0
                   /\ e.ppn = MappedPage(e.vpn)
                   /\ e.dirty => pte[Slot(e.vpn)].d

\* The TLB never contradicts the page tables but where the guest has changed
\* them without a fence, and is empty in bare mode.
TlbCoherent == BareIsEmpty /\ \A i \in TlbIndex : Coherent(i)

\* Below M-mode an access to a page that is not stale reaches the page that a
\* walk under the present rights, privilege and status bits finds, or faults
\* when the walk does, whichever of the three paths it takes.
AccessIsWalk ==
    priv # "M" =>
        \A v \in Vpns \ stale, acc \in Accesses :
            Reached(v, acc) = IF Physical THEN Page(v) ELSE Walk(v, acc)

\* A store that succeeds leaves the D bit of its page set (unless the guest
\* has outdated the TLB entry), so that no written page looks clean.
StoreSetsDirty ==
    ~Physical =>
        \A v \in Vpns \ stale :
            Reached(v, "W").ok => PteAfter(v, "W")[Slot(v)].d

=============================================================================
