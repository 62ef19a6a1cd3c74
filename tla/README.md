# A verification project for pglinux

pglinux runs a Linux guest on an emulated RISC-V machine inside PostgreSQL. A
background worker owns the machine; SQL functions in ordinary sessions drive it
through a shared-memory segment. This directory holds TLA+ models of the parts
of that program whose correctness depends on order, interleaving or failure,
TLC configurations that check them on small instances, and TLAPS proofs for all
instances.

All source paths below are relative to `src/extension/`.

## 1. Inventory

| Part | State | Operations | Hard because |
|---|---|---|---|
| Command channel (`rv64_pgext.c` 85-138, 382-550, 1416-1499) | one command slot, argument, result, client latch, worker latch, ready and shutdown flags | a session posts, signals, waits; the worker fetches, executes, answers | two kinds of process, latches, state read outside the lock, worker exit |
| Worker launch and attachment (`rv64_pgext.c` 147-234, 1501-1640, 2960-3040) | segment and process of each worker, the one row of `vm_state`, what each session is attached to | launch, attach, halt, reset, disconnect | two sessions launch at once, records not yet committed, workers that fail or die, pids used again |
| Disk persistence (69-81, 267-275, 324-377, 1161-1414) | disk image, dirty bitmap, tables `vm_blocks` and `vm_state` | write, flush, boot, save, reset, snapshot | crash between write and flush, bounded flush, several owners of one table |
| virtio block device (`rv64_virtio.c`, `rv64_bus.c` 346-361) | queue registers, last index, interrupt status | notify, acknowledge, reset, MMIO loads | rings shared with the guest, wrapping indices, partial failure in a chain |
| MMU (`rv64_mmu.c`, `rv64_cpu.c` 50-187) | page tables in RAM, direct-mapped TLB, satp, mstatus bits | translate, flush, fast paths of load and store | cached translations and a cached dirty flag |
| Run loops (`rv64_cpu.c` 1457-1654) | cycle budget, next check, WFI, debug flags | run, check, wait, step, run a compiled block | liveness: budget, timer, wake-up |
| Traps, CSRs, PLIC, CLINT (`rv64_cpu.c` 300-583, 1319-1417; `rv64_bus.c`) | mstatus stacks, mie, mip, pending sources | trap, MRET, SRET, CSR writes, claim | nesting of handlers of two modes |
| UART and console (`rv64_bus.c` 55-175, 346-395; `rv64_pgext.c` 236-265, 2330-2480) | receive ring, interrupt enables, console buffer | receive, read, transmit, clear, `vm_step_until` | ring at its limit, bytes that arrive inside the handler, a buffer shared without a lock |
| virtio network device (`rv64_virtio_net.c`, `rv64_virtio.c`) | ring of packets, queues, interrupt status | poll, transmit, drain, reset | rings at their limits, flag and interrupt line set in different places |
| Block compiler (`rv64_sljit.c`) and its requests (`rv64_pgext.c` 430-460) | block cache, block size, disabled opcodes | compile, run, flush, configure | code that was stored to, remapped or reconfigured; requests read without the lock |
| Interpreter, FPU, decompressor | registers | one instruction | data, no ordering |
| Snapshots (`vm_state_save`, the resume in `worker_handle_cmd_boot`) | RAM, registers and their shared copy, the row of `vm_state` | save, resume | the machine may run meanwhile; parts saved at different moments |

Sessions and the worker share only the segment and the database: the C static
variables (`vm_cpu`, `vm_disk`, `vm_disk_dirty`) exist once in each process and
only the worker's copies are those of the machine. The device, the MMU and the
interrupt logic run inside the worker's `rv64_run`, so for them concurrency is
between the guest's driver, the host's clock and the device's callbacks.

The hazards this gives rise to are listed, each at its line, in `PROJECT.json`.

## 2. Modules

| Module | Models | Map to the code |
|---|---|---|
| `VmIpc` | the command channel | a variable `wpc` is the place of the worker in `linuxsql_vm_worker_main`, `pc[c]` that of session `c` in `ipc_send_and_wait`; each access to shared memory outside the spin lock, each critical section and each latch operation is one step |
| `CommandService` | what the channel promises | a call is served once, then answered with the result of that service |
| `MCVmIpc` | TLC instance | symmetry of sessions |
| `VmIpcProofs` | proofs | |
| `GuestDisk` | the disk that device and worker share | its size, `disk_data`, the `mark_dirty` pointer |
| `DiskPersist` | write-back of the disk | sectors grouped into blocks; `rows` and `saved` are the tables, `disk` the device's buffer, `image` the worker's `vm_disk`, `dirty` the bitmap, `hook` the `mark_dirty` pointer |
| `VirtioBlk` | device, rings, interrupt line | a request is a header, a sector and a sequence of segments; `Walk` applies `Segment` to each descriptor of the chain; the guest's driver (`Publish`, `Take`) is external |
| `BlockService` | what the device promises | requests are served in order, all or nothing reported truthfully |
| `MCVirtioBlk` | TLC instance | the requests |
| `DiskProofs` | proofs about `VirtioBlk` and `DiskPersist` | |
| `Mmu` | translation | page numbers in base `Radix` (512 in the code), three levels, a TLB of `TlbSize` entries; `Reached` is the page an access really touches through the fast path, the TLB or the walk; `stale` remembers pages whose tables the guest changed since the last fence |
| `MCMmu` | TLC instance | |
| `HartProofs` | proofs about `Mmu` and `RunLoop` | |
| `RunLoop` | `rv64_run`, `rv64_run_jit` | cycles left, cycles to the next check; an instruction is what it does to the loop; a compiled block is a number of cycles |
| `Traps` | `trap`, `check_interrupts`, MRET, SRET, the CSR writes, CLINT, PLIC | the mstatus bits, mie, mip, mideleg and their views through sstatus, sie and sip; which timers are due, after a change of mtime or of a compare register; a PLIC with its two contexts; `sFrame` and `mFrame` are history: the context a running handler interrupted. User programs are assumed to write no CSR |
| `TrapsProofs` | proofs | |
| `Uart` | `uart_load`, `uart_store`, `rv64_uart_rx`, the UART's PLIC source, `pg_uart_tx`, `vm_console_clear`, the scan of `vm_step_until` | `rxBuf`, `rxHead`, `rxTail`, `ier`, `thre` are the fields of `struct rv64_uart`; `gpc` is the place of the guest's 8250 handler (external: it echoes what it reads), and a byte may arrive between any two of its accesses; `pg_uart_tx` and `vm_console_clear` each touch the shared buffer in two steps |
| `VirtioNet` | `virtio_net_poll`, `slirp_send_packet`, `virtio_net_process_queue`, the registers and the PLIC source | packets are numbered as they come; `Poll` is the arrival of up to two packets and the drain into the guest's buffers, at any moment of the driver; `Raise` is what `bus_store` does after every store; driver and libslirp external |
| `JitCache` | `jit_exec`, `jit_compile_block`, every flush, the size and opcode requests, what a boot does to them | memory at the grain of instructions, a word is its kind; `cache` is `block_cache`, tagged with a virtual address only; `Views` are the frames a fetch may find, through the TLB too; `seen` and `stale` are history: what the guest has to fence for; `forgot` too: the settings that a boot has undone |
| `VmLifecycle` | launch, attachment, halt, reset, death of workers, `vm_state_save` and resume | `ses[s]` holds the C static variables of a session's process, `wrk[g]` a worker with its segment, `row` the committed row of `vm_state`, `ses[s].reg` an UPDATE not yet committed; RAM and registers are the instant of the machine they belong to, with one of its own for a0, a1 and the virtio devices (`dev`, 0 behind a resume) |
| `MCUart`, `MCJitCache`, `MCVmLifecycle` | TLC instances | pattern; programs and page tables; symmetry of sessions |
| `UartProofs`, `VirtioNetProofs`, `JitCacheProofs`, `VmLifecycleProofs` | proofs | |

`VmIpc` and `VirtioBlk` each `INSTANCE` their abstract specification. The
models meet at three places: `VmIpc`'s `WRun` and `WFlush` are `DiskPersist`'s
`Step` to `Flush` and `RunLoop`'s run; `VirtioBlk`'s `marked` and `hook` are
what `DiskPersist`'s `GuestWrite` relies on; `VirtioBlk`'s, `VirtioNet`'s and
`Uart`'s `pending` are PLIC sources of `Traps` and the `ext` source of
`RunLoop`. `VmLifecycle` stands above `VmIpc`: it takes a call as a command and
its answer and adds which worker it reaches. `JitCache`'s `seen` is, for the
compiler, what `Mmu`'s `stale` is for the TLB, and its blocks are the numbers of
cycles that `RunLoop` runs. `DiskPersist` and `VmLifecycle` share the row of
`vm_state`, the one for its blocks, the other for memory and registers.

## 3. What TLC checks

Each passing run explores its whole state space; each of its properties has a
mutant of the model, a plausible bug in the code, that breaks it. Every module
states the types of its variables in `TypeOK`; all of them are proved, and the
runs of `DiskPersist` and `Mmu` check theirs as well.

| Run | Shows |
|---|---|
| `vmipc_turns` | with calls that do not overlap the channel implements `CommandService`: an acknowledged call was served, once, and a step returns its own count |
| `vmipc_returns` | with HALT, SIGTERM and cancelled statements, so that a call meets what another left in the slot: a sleeping worker with a command in the slot has its latch set or about to be set, a sleeping session whose latch is in the slot will be signalled, every call returns |
| `disk_write_back` | no unflushed write is forgotten while the worker tracks the disk (`TrackedIsMarked`), a reboot shows what was stored, and once the guest stops writing, what a marked block holds is in the table in the end |
| `blk_service` | completions are announced, writes reported, every request answered, and the device implements `BlockService`, across the wrap of the indices and a reset |
| `mmu_coherence` | the TLB agrees with the page tables, all paths of an access agree, a store leaves its page dirty |
| `run_loops` | both loops return, WFI wakes, an interrupt is taken, no timer interrupt is pending after it was withdrawn |
| `traps_handlers` | contexts of nested handlers are kept, handlers run masked, returns resume |
| `uart_console` | the receive ring is a queue also when it is full and when it wraps, input the guest listens for is always announced, and read in the end; the console holds the first bytes of the output; `vm_step_until` misses no occurrence of its pattern, however its batches cut it |
| `net_service` | packets reach the driver in order, none that entered the ring is lost unless the driver offers a buffer without room for a header; whatever the device used is flagged, a transmission also reaches the PLIC, and what is pending is taken |
| `jit_code` | a cached instruction is what memory holds as long as the guest fences as the architecture asks, also over boots and failed boots; blocks obey the size and the opcodes in force; a request that was taken off is in force, until a boot undoes it |
| `lifecycle` | a session only uses workers that were ready; a second worker beside another has one of four causes, which `OneWorker` names; RAM, registers and snapshot are of one instant unless a command overlapped the save or a boot failed, and a0, a1 and the devices are of that instant or go back to a resume |

One run checks a sentence of the sources against the code and finds it false;
`PROJECT.json` quotes it under `findings`:

* `disk_reset`: a device reset by the guest's driver (Linux resets a virtio
  device when it probes it) clears `mark_dirty`; later writes are not persisted.

### Other disagreements

These were met while modelling. Each is the reason for a restriction in a
property or a cfg and has no run of its own.

The channel and the loops:

* The slot is overwritten without looking at it (`rv64_pgext.c` 1422), so of two
  overlapping `vm_step` one may return the other's count (1588).
* A session looks whether the worker is alive only after a wake-up (1450), and a
  worker ended by an error wakes nobody; 1440 says the session notices.
  `vmipc_returns` therefore has no such error.
* An instruction that traps costs no cycle (`rv64_cpu.c` 1329), so a guest whose
  handler faults at its first instruction keeps `rv64_run` for ever
  (`rv64_pgext.c` 1587 promises at most the cycles asked for). `run_loops`
  therefore sets `TrapLoops` to FALSE.
* A session that posts while the worker leaves after a HALT gets `cmd_result`
  0 for a command nobody read (`rv64_pgext.c` 1436; 110 says 0 is OK).
  `vmipc_turns` therefore has no HALT.
* When calls overlap, a session whose latch was overwritten in the slot may not
  be woken; `vmipc_returns` therefore lets sessions take turns.
* Blocks are stored under `vm_id` 1 (359) and read under the booted id (1372).
  `Tracked` and `Storing` therefore demand machine 1.
* A boot that fails for want of an asset has already replaced `vm_disk` (1283):
  the flush then clears marks and stores blocks of the wrong buffer. `Tracked`
  and `Storing` exclude it.
* A flush takes the lowest marked blocks up to its limit (343-370), so a guest
  that keeps writing low blocks keeps the higher ones from ever being stored:
  without its premise `WritesEnd`, TLC finds `MarkedIsStored` violated.
* `vm_snapshot_create` ("instant multi-tenancy", `linuxsql_vm--1.0.sql` 175)
  cannot make a second machine: `vm_state` has CHECK (id = 1). From 1 to 1 it
  deletes the stored blocks before it copies them (213-216). `Tracked` excludes
  it.
* `vm_state_save` leaves the disk to `vm_blocks`, whose contents change after
  the save, and a resume sets up a0, a1 and the virtio devices anew (1393-1403);
  the SQL file (159) says a snapshot "resumes identically". In `VmLifecycle` the
  registers have a second instant for these, which no snapshot brings back.
* `vm_disk_flush` looks at the session's own empty variables (3948) and stores
  nothing; 3937 says it persists all dirty blocks.
* The length in a used element counts, for a write, what the device read
  (`rv64_virtio.c` 161); `rv64_virtio.h` 95 says "bytes written by device".
* The fast path of load and store looks in the TLB in machine mode too
  (`rv64_cpu.c` 57); `rv64_mmu.c` 47 says machine mode always uses physical
  addresses. `AccessIsWalk` speaks of the other modes.
* The interval to the next interrupt check starts anew with each run
  (`rv64_cpu.c` 1466, 1562): steps shorter than it never see an interrupt.
  `run_loops` therefore uses a budget larger than the interval.
* A compiled block never tests the breakpoint (1622), and `debug_halt` without
  `break_halt` is cleared after an instruction (1533).
* A PLIC claim returns the lowest source number (`rv64_bus.c` 204); 203 says
  the highest priority. The priority registers are never read and not modelled.
* CSR instructions check no privilege (`rv64_cpu.c` 300-480): user code may
  write any of them. `Traps` leaves CSR writes to the other two modes.
* An eight-byte load of mtime or of mtimecmp returns its low word only
  (`rv64_bus.c` 124-132), and a store to msip is ignored (142), although the
  CLINT is said to give "timer + software interrupts".

The UART, the network and the compiler:

* `vm_step_until` may find output older than its call, and may miss a pattern
  that begins less than its length from the start of the buffer (2430).
  `SearchComplete` leaves these out.
* `vm_console_clear` takes no lock: an output that overlaps it restores the old
  position. `ConsoleIsOutput` says "unless raced".
* A packet that is delivered sets the device's flag but not the PLIC's source
  (`rv64_virtio_net.c` 279): the guest hears of it at its next store to the
  device. `UsedAnnounced` speaks of the flag, `PendingIsTaken` starts from the
  source.
* A driver's reset, which Linux does when it probes, clears the pointer to the
  network stack (`rv64_virtio.c` 350); nothing is received after it.
* The network is polled only when the cycle counter is a multiple of 100000 at a
  check (`rv64_cpu.c` 528).
* A source with a lower number that is raised again and again starves the others;
  `PendingIsTaken` excludes it.
* The compiler does not tell OP and OP-32 with funct7 = 1 (MUL, DIV) from ADD and
  the others (`rv64_sljit.c` 444-465, 490-502); the interpreter does
  (`rv64_cpu.c` 1162), and misa announces M. `Emit` models it, and `BlockIsCode`
  compares with what is emitted.
* A block that ends for its number of exits leaves pc at its last access, which
  is then made again (`rv64_sljit.c` 651). `Continue` models it.
* A request that comes between its being read (436, 441) and its being reset
  (438, 444) is lost. `RequestsApplied` says "unless raced".
* A boot makes a compiler with the default settings (`rv64_cpu.c` 623) and leaves
  the requests in the shared state as they are: settings that were in force are
  not any more, without an outstanding request, while `vm_jit_disabled_ops` goes
  on showing them; `rv64_pgext.c` 4224 says what it shows "may be stale until
  next step applies it". `RequestsApplied` keeps track of it in `forgot`.
* A resumed machine has no compiler (1347), and a request waits for one (435,
  440): it stays outstanding for ever; 4125 says the "worker applies it before
  next run".
* Blocks are tagged by virtual address and survive a change of mode: a page that
  machine mode and the page tables see in different frames shares its blocks.
  `BlockIsCode` speaks of pages with one frame.

Launch and snapshots:

* `vm_state` is empty after installation and a launch records its worker with an
  UPDATE (1556), which then changes no row: every session launches a worker of
  its own. `OneWorker` names this case.
* A launch waits for ever if the worker fails before it is ready (1541).
* A session attached to a worker that died of an error can neither boot nor halt
  until it disconnects.
* `vm_halt` and `vm_reset` in a session that never attached read through a null
  pointer (2981, 3010). `vm_reset` leaves the worker running.
* A resume starts the guest's clock at zero (1356) while the restored compare
  value is of the old one: guest time goes back, and the timer is not due for as
  long as the machine had been running.
* The SQL file (1243) says the state is saved when the backend disconnects;
  nothing saves it then.

### Bounds

* `VmIpc`: two sessions with two calls each, so that a command left by a
  cancelled or halted call meets a new one. Sessions take turns in both runs;
  overlapping calls, any number of them, are the matter of the proof of
  `NoLostWakeup`.
* `DiskPersist`: three sectors in blocks of two, so that the last block is
  short and a write may straddle two; a flush stores one block, so that two
  marked blocks need two flushes; two machines; two contents of a sector.
  Nothing counts the writes.
* `VirtioBlk`: a ring of two with indices modulo four, so that four requests
  fill the ring and wrap the indices; the requests cover every type, a range
  that leaves the disk, a buffer outside RAM in the first segment, a chain
  without a readable header; one reset.
* `Mmu`: radix two with three levels (eight pages), three tables, a TLB of two
  entries with conflicts, leaves at every level, one store to a page table.
* `RunLoop`: interval two, blocks up to two cycles, a budget of four, so that
  each run holds at least one check and a block may pass over it.
* `Traps`: one machine and one supervisor line, each delegated or not as the
  guest likes, one PLIC source, two contexts. The state space is finite without
  a bound.
* `Uart`: a ring of three slots, which four bytes overfill and wrap; a console of
  four cells, which they overfill too; a pattern of two bytes, which a batch may
  cut.
* `VirtioNet`: a ring of two, two buffers, two transmissions, four packets that
  come up to two at a time: ring and buffers run full and the indices wrap.
* `JitCache`: two pages of two instructions and a cache of two slots, so that
  blocks cross a page and evict each other; blocks of at most three instructions
  with at most one exit; three page tables; two changes among stores to code,
  remappings, requests and boots, the least that lets one meet another.
* `VmLifecycle`: two sessions, two launches, two boots and two instants: enough
  for two workers side by side, for a resume in new memory and for a save that
  mixes two instants. TLC's view of a state leaves out which instants a snapshot
  or machine mixes that is torn already: no property and no guard depends on it,
  and what is copied from it is torn as well.

### Fairness

* `VmIpc`: weak fairness of the worker and of each session that has called.
  Both are processes of the operating system; the spin lock is held for a few
  instructions, and the worker's wait ends by itself after a second. Nothing is
  assumed about new calls or faults.
* `DiskPersist`: a session keeps stepping, and a step is served to its flush.
  This is the condition under which the code promises to write back.
  `MarkedIsStored` supposes besides that the guest stops writing at some time.
* `VirtioBlk`: the hart keeps running. The handler and the driver's
  notification are strongly fair, because a nested store to the device
  disables them for a moment.
* `RunLoop`: the loop runs, and a session keeps stepping. The guest is free in
  what it executes, but for `TrapLoops`.
* `Uart`: the handler's accesses are weakly fair, the claim strongly, since the
  driver may hold its interrupt off again and again for a moment. Nothing is
  assumed about typing, clearing or searching.
* `VirtioNet`: the handler is weakly fair. Nothing is assumed about polls.
* `JitCache` and `VmLifecycle` state safety only. `lifecycle` does not check for
  deadlock: sessions whose workers failed before they were ready wait for ever.

## 4. What is proved

Every invariant, every action property and both refinements that a passing run
checks are theorems: TLAPS proves them for every value of the constants. The
assumptions on the constants are named and stand in the modules that declare
them; they say that sizes are positive, that special values are distinct from
the ordinary ones, and that the inputs a cfg lists have the shape of inputs.
`DiskProofs` and `HartProofs` each extend two components, whose specifications
are proved about separately; that is why `DiskPersist` and `RunLoop` call theirs
`DiskSpec` and `LoopSpec`.

A property is seldom inductive as it stands. For each theorem, what had to be
added, and why:

* **Channel** (`VmIpcProofs`). `TypeCorrect`: the worker's handler must be that
  of the command it read (`HandlerMatches`) and a session inside a call has
  counted it (`CallCounted`). `NoLostWakeup` and `ClientsAreWoken`, for any
  number of overlapping sessions: the strengthening says, for each place of the
  worker between the reset of its latch and its sleep, that a command it has not
  seen comes with a set latch or a session about to set it.
  `TurnsAreAService`: `Quiet => (Spec => ImplementsService)`. `Quiet` says that
  sessions take turns, that nobody halts the machine and that the one fault is a
  database error; section 3 tells why each is needed, and `vmipc_turns` is an
  instance of it. The invariant `Turns` follows the one call under way: its
  command is in the slot and not served (`Open`), served with its outcome in the
  slot (`Closed`), or the worker is gone and nobody served it (`Lost`). The
  mapping needs `NoReq` to differ from every request, which
  `ConstantsAssumption` states.
* **Disk, device** (`DiskProofs`). `BlkTypeCorrect`, `WritesReachTheBitmap`,
  `CompletionsAreAnnounced` and `DeviceIsAService`, for every size of the disk
  and of the queue and every modulus of the indices that is a larger multiple of
  it. `Ring` is the heart: the heads that the device holds are the window of the
  available ring between `seen` and `availIdx`, each once; the used ring repeats
  that window up to `lastAvail`. It rests on lemmas on remainders, because a
  slot is an index modulo the queue and the index itself is taken modulo
  `IdxMod`. `Walked` says what the walk along the first n segments has done to
  disk, data and bitmap. `Awaited` is `CompletionAnnounced` inside a
  notification, where `start_avail` stands for the interrupt to come. The
  refinement maps a publication to `Submit`, the service of a chain to `Serve`,
  the driver's look at a used element to `Deliver`, the reset to `Reset`, and
  every other step to a stutter; it needs `Untouched`, that a status byte which
  the device has not reached does not say "OK", because a chain without a
  readable header gets no status at all.
* **Disk, worker** (`DiskProofs`). `DiskTypeCorrect`: in particular the rounding
  in `vm_dirty_callback` covers the written range and never leaves the bitmap
  (`MarkedCovers`, from four lemmas about integer division). `NothingForgotten`
  and `RebootIsFaithful`: `TrackedIsMarked` is inductive with the types and the
  fact that `vm_disk` is the device's buffer unless a boot failed half-way.
* **Translation** (`HartProofs`). `MmuTypeCorrect`, `TlbIsCoherent`,
  `EveryPathIsTheWalk`, `NoCleanStore`. `TlbCoherent` is inductive with the
  types: setting A and D in a leaf changes no translation, so entries of other
  pages stay right, and a store to a page table outdates exactly the pages whose
  walk passes the slot. The other two follow from it state by state.
* **Loops** (`HartProofs`). `TimersAreReal` (inductive by itself) and
  `LoopTypeCorrect`, for every interval, budget and length of a block.
* **Traps** (`TrapsProofs`). `TrapsTypeCorrect`, `HandlersStayMasked`,
  `ContextsAreKept` and `ReturnsResume`, for any set of lines and any
  delegation. `ContextsKept` needs `HandlersMasked`: a handler's own mode is
  masked while it runs, and what interrupts a supervisor handler is machine
  mode, which returns to it.
* **UART** (`UartProofs`). `UartTypeCorrect`; `RingIsAQueue`, from remainders
  again: head and tail determine the length, and a byte enters one slot behind
  the last; `InputIsAnnounced`, inductive by itself. `ConsoleHoldsOutput` needs
  `ConsoleInv`: the copy of `console_pos` that `pg_uart_tx` holds is current
  unless a clear came between. `SearchMissesNothing` needs `SearchInv`: what has
  been searched lies below `console_pos`, where no output changes it, also while
  an output is under way.
* **Network** (`VirtioNetProofs`). `NetTypeCorrect` needs `Held`: a slot between
  the indices holds a packet that has come. `PacketsInOrder` needs `Stream`: the
  packets taken, used and in the ring, one behind the other, rise, and are all
  that entered while no buffer was too short. `UsedIsAnnounced` and
  `TransmissionsAreAnnounced` follow the handler's places.
* **Block compiler** (`JitCacheProofs`). `JitTypeCorrect`. `BlocksAreTheProgram`
  and `BlocksObey` share `BlockInv`: each page has been seen in the frame it has
  now, and each instruction of each block is the word there if its page has had
  one frame only and the word is not stale. `RequestsAreApplied` needs
  `Requests`: an outstanding request is the last one made, and what the worker
  has read is what it is about to reset; settings that a boot has undone are the
  default.
* **Workers and snapshots** (`VmLifecycleProofs`). `LifecycleTypeCorrect` and
  `AttachmentsWereReady` go together (`Base`). `OneWorkerAtATime` needs `Homes`:
  a worker that runs without an excuse is known to the session that waits for
  it, to the row, or to an update of the row not yet committed, which is why a
  later launch finds it. `MachinesAreOfOneInstant` needs that no two workers
  share memory (`OwnRam`), that nobody else knows a worker still starting
  (`Fresh`), and `Pieces`: what a save has read half-way goes with what it has
  still to read. A resume and a step keep registers that go with their RAM
  (`RestoredFacts`, `RegsFacts`), whatever becomes of the devices.

Two definitions are by recursion or by a maximum: the walk along a chain and the
length of a block. What they compute is proved by induction over a set of
numbers: the set of the n for which the claim fails would have a least element.
The library's induction theorems, which take the claim as a parameter, are out
of the provers' reach; the theorem that a well-founded relation has least
elements is not.

Only model-checked: the liveness properties (`EveryCallReturns`,
`MarkedIsStored`, `EveryRequestAnswered`, `RunReturns`, `WfiWakes`,
`InterruptTaken`, `InputIsRead`, `PendingIsTaken`), since the prover does not
handle fairness. The violation that `disk_reset` shows is TLC's as well.

## 5. What is not modelled

Instruction semantics, floating point, the host code that is emitted for an
instruction and disassembly are data transformations. (Reading them showed that
the compressed word 0, which the architecture calls illegal, is executed as an
addition, `rv64_cpu.c` 698, and that the 32-bit AMOMIN and AMOMAX compare all 64
bits of their register, 1265-1296.) `rv64_jit.c` is not built and
`rv64_jit_parallel_worker` never launched; `vm_jit_compare` raises an error
before it does anything. The inspection functions only read.

At the edges of what is modelled: `VirtioBlk`'s driver builds chains as the
virtio specification asks, so the walk does not meet the limit of its loop
(`rv64_virtio.c` 98), a descriptor outside RAM behind the header (100), a
writable descriptor of one byte that is not the last (119), a length that is no
multiple of a sector or a status byte outside RAM (199). A table of `Mmu` that
lies outside RAM would fault (`rv64_mmu.c` 143-149), as one whose entries are
all invalid does. The exit RUN_EXIT_ERROR of the loops (`rv64_cpu.c` 1522) needs a
negative result of `rv64_step`, which returns 0 on every path. A boot also sets
`console_pos` to 0 (`rv64_pgext.c` 1236), which begins a new life of `Uart`.
`Overlay` leaves out the test that a stored block fits the disk (1385), which
fails only if the asset is replaced by a smaller one.

The older `vm_boot(fw, kernel, ...)`, which loads images from files, and
`vm_load` build a machine in the session's own process, which no other function
runs or shows: `vm_step` goes to the worker. `vm_load` works only after such a
`vm_boot`, since it reads into a machine it does not allocate (2793-2803).
`vm_save` writes the shared copy of the registers and the RAM to a file, as
`vm_state_save` does to a table, and only `vm_load` reads it.

`linuxsql.c`, `lds_symbols.c` and `pg_process.c`, which no Makefile links, belong
to an earlier approach around a kernel library that is not in the repository.
Guest
programs and images run inside the machine. libslirp is a library; so is sljit,
whose vendored sources under `sljit_src/` are four fifths of the repository's C
lines and encode instructions of a dozen processors.

## 6. Plan

Done: the channel, the disk, the block device, translation, the loops, traps,
the UART and the console, the network device, the block cache, the life of
workers and snapshots, each modelled and checked; all safety properties, action
properties and refinements proved. Left:

1. The safety part of the liveness arguments, as invariants with proofs: for
   `RunReturns` that every turn of the loop but a trap brings the budget down,
   for `EveryRequestAnswered` that a notified request is at most the length of
   the queue away from its service.
2. The join of `VirtioBlk` and `DiskPersist`: that what `GuestWrite` marks are
   the blocks of the sectors that `Serve` reports.
3. A service specification for the console, of which `RingIsQueue`,
   `ConsoleIsOutput` and `SearchComplete` are consequences.
