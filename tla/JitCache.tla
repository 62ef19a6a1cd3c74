------------------------------- MODULE JitCache -------------------------------
(***************************************************************************)
(* The block compiler (rv64_sljit.c), its direct-mapped cache of compiled  *)
(* blocks, what flushes it (rv64_cpu.c, rv64_mmu.c) and the requests by    *)
(* which SQL sessions configure it (rv64_pgext.c).                         *)
(*                                                                         *)
(* Memory is seen at the grain of instructions: an address is the place of *)
(* one, and a word says what kind it is.  The arithmetic a block performs  *)
(* is left out, the order, the ends and the provenance of its instructions *)
(* are kept.  A block is tagged with the virtual address it starts at and  *)
(* with nothing else, so what it was compiled from may have been written   *)
(* since, or mapped elsewhere, or read in another privilege mode.          *)
(***************************************************************************)
EXTENDS Integers, Sequences, FiniteSetsExt

CONSTANTS
    NumPages,   \* pages, virtual and physical
    PageLen,    \* instructions in a page
    CacheSize,  \* JIT_CACHE_SIZE
    MaxInsns,   \* JIT_MAX_BLOCK_INSNS
    ExitLimit,  \* early exits after which a block ends (60)
    Sizes,      \* sizes a session may ask for, besides 0, the default
    Programs,   \* what memory may hold initially
    Maps,       \* page tables the guest may set up
    MaxChanges  \* bound: stores to code, changed mappings, requests and boots

Pages == 0 .. (NumPages - 1)
NoPage == NumPages  \* an unmapped page
Addrs == 0 .. (NumPages * PageLen - 1)
Kinds == {"add", "mul", "mem", "fp", "jump", "sys"}
PageOf(a) == a \div PageLen

ASSUME JitAssumption ==
    /\ NumPages \in Nat \ {0} /\ PageLen \in Nat \ {0} /\ CacheSize \in Nat \ {0}
    /\ MaxInsns \in Nat \ {0} /\ ExitLimit \in Nat /\ MaxChanges \in Nat
    /\ Sizes \subseteq Nat \ {0}
    /\ Programs \subseteq [Addrs -> Kinds]
    /\ Maps \subseteq [Pages -> Pages \cup {NoPage}]

VARIABLES
    \* the machine
    code,     \* the instruction at each physical address
    map,      \* the page tables in use
    paged,    \* addresses are translated (not machine mode, satp not bare)
    pc,
    \* struct jit_state
    jit,      \* there is one: cpu->jit # NULL
    cache,    \* the slots: where a block starts (-1: invalid) and its instructions
    rtMax,    \* rt_max_block_insns
    disabled, \* disabled_ops
    \* SharedVMState and the worker
    sizeReq,  \* jit_block_size_request, -1 for none
    opsReq, opsDirty,  \* jit_disabled_ops, jit_disabled_ops_dirty
    wpc,      \* the worker: between steps, applying requests, running
    \* history
    seen,     \* the frames each page has had since the TLB was flushed
    stale,    \* physical addresses stored to since the cache was flushed
    wanted,   \* the size last asked for
    raced,    \* a request came between its being read and its being reset
    forgot,   \* the settings in force that a boot has undone
    changes

machine == <<code, map, paged, pc>>
config  == <<jit, rtMax, disabled>>
request == <<sizeReq, opsReq, opsDirty, wanted, raced, forgot>>
vars    == <<machine, cache, config, request, wpc, seen, stale, changes>>

Invalid == [start |-> -1, ops |-> <<>>]
NoBlocks == [i \in 0 .. (CacheSize - 1) |-> Invalid]

\* The frame of a page.
Frame(m, on, p) == IF on THEN m[p] ELSE p

\* rv64_init in machine mode, and the shared state as the launch leaves it.
\* (Requests made before the first boot are among those before a later one.)
Init ==
    /\ code \in Programs /\ map \in Maps /\ paged = FALSE /\ pc = 0
    /\ jit = TRUE /\ cache = NoBlocks /\ rtMax = 0 /\ disabled = {}
    /\ sizeReq = -1 /\ opsReq = {} /\ opsDirty = FALSE /\ wpc = "idle"
    /\ seen = [p \in Pages |-> {p}] /\ stale = {}
    /\ wanted = 0 /\ raced = FALSE /\ forgot = {} /\ changes = 0

-----------------------------------------------------------------------------
(* Fetching and compiling.                                                 *)

\* The frames a fetch may find for each page: the present one, or an earlier
\* one the TLB still holds.
Views == {v \in [Pages -> Pages \cup {NoPage}] :
             \A p \in Pages : v[p] = Frame(map, paged, p)
                              \/ v[p] \in seen[p] \ {NoPage}}

Fetchable(v, a) == a \in Addrs /\ v[PageOf(a)] # NoPage
Place(f, a) == f * PageLen + (a % PageLen)  \* of virtual address a in frame f
Fetch(v, a) == code[Place(v[PageOf(a)], a)]

\* The opcode that disabled_ops knows an instruction by.
Opcode(w) == IF w = "mul" THEN "add" ELSE w

\* What is emitted for an instruction: OP with funct7 = 1 is not told apart.
Emit(w) == IF w = "mul" THEN "add" ELSE w

Compilable(v, a) ==
    /\ Fetchable(v, a) /\ Fetch(v, a) # "sys"
    /\ Opcode(Fetch(v, a)) \notin disabled

\* Instructions that may leave a block early.
Exits(v, first, n) == {i \in 0 .. (n - 1) : Fetch(v, first + i) \in {"mem", "fp"}}

\* The n-th instruction of a block ends it.
EndsBlock(v, first, n) ==
    \/ Fetch(v, first + n - 1) = "jump"
    \/ /\ Fetch(v, first + n - 1) \in {"mem", "fp"}
       /\ Cardinality(Exits(v, first, n)) > ExitLimit

Limit == IF rtMax > 0 THEN rtMax ELSE MaxInsns

\* jit_compile_block: as many instructions as can be fetched and compiled, up
\* to one that ends the block.  None at all makes a block without code, which
\* leaves this address to the interpreter.
Compiled(v, first) ==
    LET fits(n) == \A i \in 1 .. n : /\ Compilable(v, first + i - 1)
                                     /\ i < n => ~EndsBlock(v, first, i)
        len == Max({n \in 0 .. Limit : fits(n)})
    IN  [i \in 1 .. len |-> Emit(Fetch(v, first + i - 1))]

Slot(a) == a % CacheSize

\* jit_exec finds no block for pc and compiles one.
Compile ==
    /\ wpc = "run" /\ jit /\ pc \in Addrs
    /\ cache[Slot(pc)].start # pc
    /\ \E v \in Views :
          cache' = [cache EXCEPT ![Slot(pc)] = [start |-> pc, ops |-> Compiled(v, pc)]]
    /\ UNCHANGED <<machine, config, request, wpc, seen, stale, changes>>

-----------------------------------------------------------------------------
(* Executing.                                                              *)

\* Instructions that access memory, or may fault for another reason.
Access(w) == w \in {"mem", "fp"}

NoStore == UNCHANGED <<code, map, stale, changes>>

\* A store, to memory that holds code, to a page table or elsewhere.
Store ==
    \/ NoStore
    \/ /\ changes < MaxChanges /\ changes' = changes + 1
       /\ \/ \E a \in Addrs, w \in {"add", "jump"} :
                /\ code' = [code EXCEPT ![a] = w] /\ stale' = stale \cup {a}
                /\ UNCHANGED map
          \/ map' \in Maps /\ UNCHANGED <<code, stale>>

\* The TLB may come to hold what the page tables say, before and after a
\* change of mode; nothing is flushed.
Track == seen' = [p \in Pages |->
                     seen[p] \cup {Frame(map', paged, p), Frame(map', paged', p)}]

\* Where execution continues when a block has run n of its instructions: at
\* the one it left, at the target of a jump.  A block that ends for its
\* number of exits leaves pc at its last instruction.
Continue(first, ops, n) ==
    IF n < Len(ops) THEN {first + n}
    ELSE CASE ops[n] = "jump" -> Addrs
           [] Cardinality({i \in 1 .. n : Access(ops[i])}) > ExitLimit -> {first + n - 1}
           [] OTHER -> {first + n}

\* jit_exec runs the block of pc: to its end, or to an access that faults; a
\* floating-point access also takes the trap.  With no instruction completed
\* the loop turns to the interpreter.
RunBlock ==
    /\ wpc = "run" /\ jit /\ pc \in Addrs
    /\ LET b == cache[Slot(pc)]
       IN  /\ b.start = pc /\ b.ops # <<>>
           /\ \E n \in 0 .. Len(b.ops) :
                 /\ n < Len(b.ops) => Access(b.ops[n + 1])
                 /\ \/ pc' \in Continue(pc, b.ops, n) /\ UNCHANGED paged
                    \/ /\ n < Len(b.ops) /\ b.ops[n + 1] = "fp"
                       /\ pc' \in Addrs /\ paged' \in BOOLEAN
                 /\ IF \E i \in 1 .. n : Access(b.ops[i]) THEN Store ELSE NoStore
                 /\ Track
    /\ UNCHANGED <<cache, config, request, wpc>>

\* Mutant: the cache survives a change of address space.
MutTlbFlush ==
    /\ cache' = cache
    /\ seen' = [p \in Pages |-> {Frame(map', paged, p)}]

\* rv64_tlb_flush.
TlbFlush ==
    /\ cache' = NoBlocks
    /\ seen' = [p \in Pages |-> {Frame(map', paged, p)}]

\* The interpreter executes an instruction the compiler does not know:
\* FENCE.I, SFENCE.VMA or a write of satp, ECALL or a return, an atomic one.
System ==
    \/ /\ cache' = NoBlocks /\ stale' = {} /\ pc' = pc + 1
       /\ UNCHANGED <<code, map, paged, seen, changes>>
    \/ /\ map' \in Maps /\ TlbFlush /\ stale' = {} /\ pc' = pc + 1
       /\ UNCHANGED <<code, paged, changes>>
    \/ /\ paged' \in BOOLEAN /\ pc' \in Addrs /\ NoStore /\ Track
       /\ UNCHANGED cache
    \/ pc' = pc + 1 /\ Store /\ UNCHANGED <<paged, cache>> /\ Track

\* rv64_step, when there is no block or an interrupt is pending and enabled.
Interpret ==
    /\ wpc = "run"
    /\ \E v \in Views :
          /\ Fetchable(v, pc)
          /\ \/ Fetch(v, pc) = "sys" /\ System
             \/ /\ Fetch(v, pc) # "sys"
                /\ IF Fetch(v, pc) = "jump" THEN pc' \in Addrs ELSE pc' = pc + 1
                /\ IF Access(Fetch(v, pc)) THEN Store ELSE NoStore
                /\ UNCHANGED <<paged, cache>> /\ Track
    /\ UNCHANGED <<config, request, wpc>>

\* A trap, by an interrupt or an exception, to either mode.
Trap ==
    /\ wpc = "run"
    /\ paged' \in BOOLEAN /\ pc' \in Addrs /\ NoStore /\ Track
    /\ UNCHANGED <<cache, config, request, wpc>>

-----------------------------------------------------------------------------
(* The requests of sessions, made under the lock at any time, and the      *)
(* worker, which serves them without it when a step begins.                *)

\* vm_jit_block_size.
AskSize(n) ==
    /\ changes < MaxChanges /\ changes' = changes + 1
    /\ sizeReq' = n /\ wanted' = n
    /\ raced' = (raced \/ wpc = "sized") /\ forgot' = forgot \ {"size"}
    /\ UNCHANGED <<machine, cache, config, opsReq, opsDirty, wpc, seen, stale>>

\* vm_jit_disable_op and vm_jit_enable_op.
AskOps(ops) ==
    /\ changes < MaxChanges /\ changes' = changes + 1
    /\ opsReq' = ops /\ opsDirty' = TRUE
    /\ raced' = (raced \/ wpc = "opsRead") /\ forgot' = forgot \ {"ops"}
    /\ UNCHANGED <<machine, cache, config, sizeReq, wanted, wpc, seen, stale>>

\* The worker begins a step: it reads the size and flushes ...
ReadSize ==
    /\ wpc = "idle"
    /\ IF sizeReq >= 0 /\ jit
       THEN wpc' = "sized" /\ rtMax' = sizeReq /\ cache' = NoBlocks /\ stale' = {}
       ELSE wpc' = "ops" /\ UNCHANGED <<rtMax, cache, stale>>
    /\ UNCHANGED <<machine, jit, disabled, request, seen, changes>>

\* ... resets the request ...
ResetSize ==
    /\ wpc = "sized" /\ wpc' = "ops"
    /\ sizeReq' = -1
    /\ UNCHANGED <<machine, cache, config, opsReq, opsDirty, wanted, raced, forgot>>
    /\ UNCHANGED <<seen, stale, changes>>

\* Mutant: the blocks compiled so far are kept.
MutReadOps ==
    /\ wpc = "ops"
    /\ IF opsDirty /\ jit
       THEN wpc' = "opsRead" /\ disabled' = opsReq
       ELSE wpc' = "run" /\ UNCHANGED disabled
    /\ UNCHANGED <<machine, cache, stale, jit, rtMax, request, seen, changes>>

\* ... does the same for the opcodes ...
ReadOps ==
    /\ wpc = "ops"
    /\ IF opsDirty /\ jit
       THEN wpc' = "opsRead" /\ disabled' = opsReq /\ cache' = NoBlocks /\ stale' = {}
       ELSE wpc' = "run" /\ UNCHANGED <<disabled, cache, stale>>
    /\ UNCHANGED <<machine, jit, rtMax, request, seen, changes>>

\* Mutant: a request for opcodes also cancels one for a size.
MutResetOps ==
    /\ wpc = "opsRead" /\ wpc' = "run"
    /\ opsDirty' = FALSE /\ sizeReq' = -1
    /\ UNCHANGED <<machine, cache, config, opsReq, wanted, raced, forgot>>
    /\ UNCHANGED <<seen, stale, changes>>

ResetOps ==
    /\ wpc = "opsRead" /\ wpc' = "run"
    /\ opsDirty' = FALSE
    /\ UNCHANGED <<machine, cache, config, sizeReq, opsReq, wanted, raced, forgot>>
    /\ UNCHANGED <<seen, stale, changes>>

\* ... runs, and ends the step.
EndStep ==
    /\ wpc = "run" /\ wpc' = "idle"
    /\ UNCHANGED <<machine, cache, config, request, seen, stale, changes>>

\* The worker serves VM_CMD_BOOT: rv64_init, in machine mode, with a zeroed
\* compiler state unless there is no memory for one, or the registers of a
\* snapshot and no compiler.  The TLB is empty.  The requests in the shared
\* state stay what they are: one that was in force is in force no more.
Boot ==
    /\ wpc = "idle"
    /\ changes < MaxChanges /\ changes' = changes + 1
    /\ code' \in Programs /\ map' \in Maps
    /\ \/ paged' = FALSE /\ pc' = 0 /\ jit' \in BOOLEAN
       \/ paged' \in BOOLEAN /\ pc' \in Addrs /\ jit' = FALSE
    /\ cache' = NoBlocks /\ rtMax' = 0 /\ disabled' = {}
    /\ seen' = [p \in Pages |-> {Frame(map', paged', p)}] /\ stale' = {}
    /\ forgot' = (IF sizeReq = -1 THEN {"size"} ELSE {})
                 \cup (IF opsDirty THEN {} ELSE {"ops"})
    /\ UNCHANGED <<sizeReq, opsReq, opsDirty, wanted, raced, wpc>>

\* A boot that fails for want of an asset has replaced the RAM; the machine
\* and its compiler go on in it, and nothing is flushed.
FailedBoot ==
    /\ wpc = "idle"
    /\ changes < MaxChanges /\ changes' = changes + 1
    /\ code' \in Programs /\ stale' = Addrs
    /\ UNCHANGED <<map, paged, pc, cache, config, request, wpc, seen>>

-----------------------------------------------------------------------------
Next ==
    \/ Compile \/ RunBlock \/ Interpret \/ Trap
    \/ \E n \in Sizes \cup {0} : AskSize(n)
    \/ \E ops \in SUBSET {"add", "mem"} : AskOps(ops)
    \/ ReadSize \/ ResetSize \/ ReadOps \/ ResetOps \/ EndStep
    \/ Boot \/ FailedBoot

Spec == Init /\ [][Next]_vars

-----------------------------------------------------------------------------
\* Every variable stays in its type.
TypeOK ==
    /\ code \in [Addrs -> Kinds] /\ map \in Maps /\ paged \in BOOLEAN
    /\ pc \in Addrs \cup {NumPages * PageLen}
    /\ cache \in [0 .. (CacheSize - 1) ->
                    [start : Addrs \cup {-1}, ops : Seq(Kinds \ {"sys"})]]
    /\ jit \in BOOLEAN /\ rtMax \in Sizes \cup {0} /\ disabled \subseteq Kinds
    /\ sizeReq \in Sizes \cup {-1, 0} /\ opsReq \subseteq Kinds /\ opsDirty \in BOOLEAN
    /\ wpc \in {"idle", "sized", "ops", "opsRead", "run"}
    /\ seen \in [Pages -> SUBSET (Pages \cup {NoPage})] /\ stale \subseteq Addrs
    /\ wanted \in Sizes \cup {0} /\ raced \in BOOLEAN /\ forgot \subseteq {"size", "ops"}
    /\ changes \in 0 .. MaxChanges

\* The cached instructions: slot, place in the block.
Cached == {si \in (0 .. (CacheSize - 1)) \X (1 .. (NumPages * PageLen)) :
              si[2] <= Len(cache[si[1]].ops)}

\* The compiled code is the program: an instruction of a cached block is what
\* is emitted for the word that stands at its address, whatever was compiled,
\* evicted, stored, remapped and executed since, as long as the guest fences
\* as the architecture asks: the page has had one frame since SFENCE.VMA or
\* satp, and the word has not been stored to since a fence.  (A page that
\* machine mode and the page tables see in different frames has two.)
BlockIsCode ==
    \A si \in Cached :
        LET a == cache[si[1]].start + si[2] - 1
            frames == seen[PageOf(a)] \ {NoPage}
        IN  \A f \in frames :
                LET phys == Place(f, a)
                IN  frames = {f} /\ phys \notin stale =>
                        cache[si[1]].ops[si[2]] = Emit(code[phys])

\* What a session has configured holds of every block in the cache, also of
\* those compiled before: none is longer than the size in force, none contains
\* an opcode that is disabled, none goes on behind an instruction that ends it.
BlocksObeyConfig ==
    /\ \A si \in Cached :
          LET b == cache[si[1]]
          IN  /\ si[2] <= IF rtMax > 0 THEN rtMax ELSE MaxInsns
              /\ b.ops[si[2]] \notin disabled
              /\ si[2] < Len(b.ops) => b.ops[si[2]] # "jump"

\* A request that is no longer outstanding is in force, unless it came in the
\* window between the worker's reading the last one and resetting it, or the
\* machine has been booted since it was applied: then the default is in force,
\* although jit_disabled_ops still shows the request.  One that is outstanding
\* when the machine is booted is not lost.
RequestsApplied ==
    ~raced => /\ sizeReq = -1 => rtMax = IF "size" \in forgot THEN 0 ELSE wanted
              /\ opsDirty \/ disabled = IF "ops" \in forgot THEN {} ELSE opsReq

=============================================================================
