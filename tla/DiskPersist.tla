---------------------------- MODULE DiskPersist ----------------------------
(***************************************************************************)
(* Write-back persistence of the guest's disk (rv64_pgext.c).  The disk    *)
(* image is loaded into the worker's memory at boot, the rows of table     *)
(* vm_blocks are laid over it, and a bitmap marks the blocks that the      *)
(* guest has written since.  After each vm_step the worker stores marked   *)
(* blocks in vm_blocks.  Whatever is neither stored nor marked is lost     *)
(* when the worker ends.                                                   *)
(*                                                                         *)
(* The image is a sequence of sectors, SPB of them to a block; the last    *)
(* block may be short.  After the end of a worker the variables disk,      *)
(* image and dirty keep their last values: they are then history, what     *)
(* the guest has last seen and what had not been stored.                   *)
(***************************************************************************)
EXTENDS Naturals, FiniteSets, GuestDisk

CONSTANTS
    SPB,         \* DISK_BLOCK_SIZE, in sectors
    Contents,    \* contents of a sector
    BaseValue,   \* the contents of every sector of the disk asset
    NoRow,       \* no row of vm_blocks covers the sector
    Vms,         \* the vm_id arguments given to vm_boot
    FlushLimit,  \* blocks stored by one flush (256 in the code)
    Events       \* what may happen beside boot, step, halt: see EventKinds

\* "driver_reset": the guest resets the virtio device; "failed_boot": a boot
\* of a running machine fails; "snapshot": vm_state_save, vm_snapshot_create
\* and vm_reset; "error": the database refuses a flush; "crash": the worker is
\* killed.
EventKinds == {"driver_reset", "failed_boot", "snapshot", "error", "crash"}

NBlocks == (NSectors + SPB - 1) \div SPB
Blocks == 0 .. (NBlocks - 1)
BlockOf(s) == s \div SPB

ASSUME DiskAssumption ==
    /\ NSectors \in Nat \ {0}
    /\ SPB \in Nat \ {0}
    /\ BaseValue \in Contents
    /\ NoRow \notin Contents
    /\ 1 \in Vms
    /\ FlushLimit \in Nat \ {0}
    /\ Events \subseteq EventKinds

VARIABLES
    rows,     \* table vm_blocks: the stored contents, for each vm_id
    saved,    \* table vm_state: the vm_id that have a snapshot
    place,    \* where the worker is: "off", "idle", "run", "flush"
    vmId,     \* cpu.id: the machine the worker runs
    image,    \* the buffer vm_disk: the same one, except after a failed boot
    split,    \* vm_disk is no longer the device's buffer
    dirty,    \* vm_disk_dirty
    cloned    \* vm_snapshot_create has replaced this machine's rows

diskVars == <<rows, saved, place, vmId, disk, image, split, dirty, hook, cloned>>

DiskInit ==
    /\ rows = [v \in Vms |-> [s \in Sectors |-> NoRow]]
    /\ saved = {}
    /\ place = "off" /\ vmId = 1
    /\ disk = [s \in Sectors |-> BaseValue] /\ image = disk
    /\ split = FALSE /\ dirty = {} /\ hook = FALSE
    /\ cloned = FALSE

-----------------------------------------------------------------------------
\* Mutant: the stored blocks are not laid over the image.
MutOverlay(v) == [s \in Sectors |-> BaseValue]

\* The disk that a boot of machine v builds: the asset under the stored rows.
\* (A row that does not fit is skipped; the asset's size is fixed here, and
\* every row was cut to it when it was stored, so each one fits.)
Overlay(v) ==
    [s \in Sectors |-> IF rows[v][s] = NoRow THEN BaseValue ELSE rows[v][s]]

\* vm_boot(v): the worker, a new one or the one that already runs a machine,
\* loads the image, lays the rows over it and starts with a clear bitmap.
\* With a snapshot of v it restores memory and CPU, but not the disk.
Boot(v) ==
    /\ place \in {"off", "idle"}
    /\ place' = "idle"
    /\ vmId' = v
    /\ disk' = Overlay(v) /\ image' = Overlay(v)
    /\ split' = FALSE
    /\ dirty' = {}
    /\ hook' = TRUE
    /\ cloned' = FALSE
    /\ UNCHANGED <<rows, saved>>

\* vm_boot(v) of a running machine without a snapshot fails for want of an
\* asset: vm_disk is already the plain image, the machine, its device and the
\* bitmap are still the old ones.
FailedBoot(v) ==
    /\ "failed_boot" \in Events
    /\ place = "idle"
    /\ v \notin saved
    /\ image' = [s \in Sectors |-> BaseValue]
    /\ split' = TRUE
    /\ UNCHANGED <<rows, saved, place, vmId, disk, dirty, hook, cloned>>

\* VM_CMD_STEP
Step ==
    /\ place = "idle"
    /\ place' = "run"
    /\ UNCHANGED <<rows, saved, vmId, disk, image, split, dirty, hook, cloned>>

\* Mutant: the end of the range is rounded down to a block.
MutMarked(off, len) == (off \div SPB) .. (((off + len) \div SPB) - 1)

\* Mutant: blk_end itself is marked too.
MutMarkedWide(off, len) == (off \div SPB) .. ((off + len + SPB - 1) \div SPB)

\* vm_dirty_callback: the blocks of a written range, blk_start .. blk_end - 1.
Marked(off, len) == (off \div SPB) .. (((off + len + SPB - 1) \div SPB) - 1)

\* VIRTIO_BLK_T_OUT of len sectors from off on, within the disk.  After a
\* failed boot the guest has lost its memory and sends no such request.
GuestWrite(off, len, val) ==
    /\ place = "run" /\ ~split
    /\ len > 0 /\ off + len <= NSectors
    /\ disk' = [s \in Sectors |-> IF s \in off .. (off + len - 1) THEN val ELSE disk[s]]
    /\ image' = disk'
    /\ dirty' = IF hook THEN dirty \cup Marked(off, len) ELSE dirty
    /\ UNCHANGED <<rows, saved, place, vmId, split, hook, cloned>>

\* VIRTIO_MMIO_STATUS := 0 clears the device, the hook included.
DriverReset ==
    /\ "driver_reset" \in Events
    /\ place = "run"
    /\ hook' = FALSE
    /\ UNCHANGED <<rows, saved, place, vmId, disk, image, split, dirty, cloned>>

\* rv64_run returns and the session gets its answer.
EndStep ==
    /\ place = "run"
    /\ place' = "flush"
    /\ UNCHANGED <<rows, saved, vmId, disk, image, split, dirty, hook, cloned>>

\* The blocks one flush stores: the lowest marked ones, up to the limit.
Batch == {b \in dirty : Cardinality({d \in dirty : d < b}) < FlushLimit}

\* Mutant: the flush stores its blocks but leaves the bits set.
MutFlushKeep ==
    /\ place = "flush"
    /\ place' = "idle"
    /\ rows' = [rows EXCEPT ![1] =
                  [s \in Sectors |-> IF BlockOf(s) \in Batch THEN image[s] ELSE @[s]]]
    /\ UNCHANGED <<saved, vmId, disk, image, split, dirty, hook, cloned>>

\* worker_flush_dirty_blocks: one transaction that copies the blocks from
\* vm_disk to the rows of vm_id 1 and clears their bits.
Flush ==
    /\ place = "flush"
    /\ place' = "idle"
    /\ rows' = [rows EXCEPT ![1] =
                  [s \in Sectors |-> IF BlockOf(s) \in Batch THEN image[s] ELSE @[s]]]
    /\ dirty' = dirty \ Batch
    /\ UNCHANGED <<saved, vmId, disk, image, split, hook, cloned>>

\* An error in the flush aborts its transaction and ends the worker.
FlushError ==
    /\ "error" \in Events
    /\ place = "flush"
    /\ place' = "off"
    /\ UNCHANGED <<rows, saved, vmId, disk, image, split, dirty, hook, cloned>>

\* vm_halt: VM_CMD_HALT ends the worker; nothing is stored.
Halt ==
    /\ place = "idle"
    /\ place' = "off"
    /\ UNCHANGED <<rows, saved, vmId, disk, image, split, dirty, hook, cloned>>

\* The worker is killed in the middle of something.
Crash ==
    /\ "crash" \in Events
    /\ place \in {"run", "flush"}
    /\ place' = "off"
    /\ UNCHANGED <<rows, saved, vmId, disk, image, split, dirty, hook, cloned>>

\* The machines that table vm_state has room for: CHECK (id = 1).
RowIds == {1}

\* vm_state_save(v), by a session at any time: memory and CPU of whatever
\* machine runs become the snapshot of v; the disk is left to vm_blocks.  For
\* any other v the table refuses the row and the statement has no effect.
StateSave(v) ==
    /\ "snapshot" \in Events
    /\ place # "off"
    /\ v \in RowIds
    /\ saved' = saved \cup {v}
    /\ UNCHANGED <<rows, place, vmId, disk, image, split, dirty, hook, cloned>>

\* vm_reset() deletes the snapshot of machine 1; the other variables it clears
\* are the session's own.
StateReset ==
    /\ "snapshot" \in Events
    /\ saved' = saved \ {1}
    /\ UNCHANGED <<rows, place, vmId, disk, image, split, dirty, hook, cloned>>

\* vm_snapshot_create(src, dst), by a session at any time, copies the snapshot
\* of src to dst, deletes the rows of dst and then copies those of src.  The
\* table refuses any dst but 1, and only 1 has a snapshot to copy: what is left
\* of the function deletes the rows that it should have copied.
SnapshotCreate(src, dst) ==
    /\ src \in saved
    /\ dst \in RowIds
    /\ saved' = saved \cup {dst}
    /\ rows' = [rows EXCEPT ![dst] = IF src = dst THEN [s \in Sectors |-> NoRow]
                                                 ELSE rows[src]]
    /\ cloned' = (cloned \/ dst = vmId)
    /\ UNCHANGED <<place, vmId, disk, image, split, dirty, hook>>

-----------------------------------------------------------------------------
DiskNext ==
    \/ \E v \in Vms : Boot(v)
    \/ \E v \in Vms : FailedBoot(v)
    \/ Step
    \/ \E off \in Sectors, len \in 1 .. NSectors, val \in Contents :
          GuestWrite(off, len, val)
    \/ DriverReset
    \/ EndStep
    \/ Flush
    \/ FlushError
    \/ Halt
    \/ Crash
    \/ \E v \in Vms : StateSave(v)
    \/ StateReset
    \/ \E src \in Vms, dst \in Vms : SnapshotCreate(src, dst)

DiskSpec == DiskInit /\ [][DiskNext]_diskVars

\* A session keeps stepping the machine and the worker serves each step to
\* the end; nobody has to boot, halt or write.
DiskFairness == WF_diskVars(Step) /\ WF_diskVars(EndStep) /\ WF_diskVars(Flush)

DiskFairSpec == DiskSpec /\ DiskFairness

-----------------------------------------------------------------------------
Image == [Sectors -> Contents]

\* Every variable stays in its type; only blocks of the disk are marked.
DiskTypeOK ==
    /\ rows \in [Vms -> [Sectors -> Contents \cup {NoRow}]]
    /\ saved \subseteq Vms
    /\ place \in {"off", "idle", "run", "flush"}
    /\ vmId \in Vms
    /\ disk \in Image /\ image \in Image
    /\ split \in BOOLEAN /\ hook \in BOOLEAN /\ cloned \in BOOLEAN
    /\ dirty \subseteq Blocks

\* What a boot would build differs from the guest's disk only in marked
\* blocks: "one bit per 4KB block; set on every virtio write".
UnstoredIsMarked ==
    \A s \in Sectors : disk[s] = Overlay(vmId)[s] \/ BlockOf(s) \in dirty

\* The worker can account for the disk: the device reports writes to it, its
\* vm_disk is the device's buffer, it runs the machine it stores blocks for,
\* and nobody else has changed the stored rows.
Tracked == hook /\ ~split /\ vmId = 1 /\ ~cloned

\* While that is so, no write is forgotten, whatever the order of writes,
\* partial flushes, boots, halts and failures, and whatever happened before.
TrackedIsMarked == Tracked => UnstoredIsMarked

\* A boot of a machine that was tracked to its end shows the guest every
\* sector as it was, except those of blocks that were still marked.
RebootKeepsStored ==
    [][\A v \in Vms : Boot(v) /\ v = vmId /\ Tracked =>
          \A s \in Sectors : disk'[s] = disk[s] \/ BlockOf(s) \in dirty]_diskVars

\* From some moment on the guest writes no more.
WritesEnd == <>[][\A off \in Sectors, len \in 1 .. NSectors, val \in Contents :
                     ~GuestWrite(off, len, val)]_diskVars

\* What a flush stores is this machine's disk: the worker runs the machine it
\* stores blocks for, from the device's buffer.
Storing == place # "off" /\ ~split /\ vmId = 1

\* As long as a session steps the machine, the contents of a marked block are
\* stored in the end, so that a boot would find them, or the guest replaces
\* them, or the machine ends or is booted anew.  The guest has to stop writing:
\* each flush takes the lowest marked blocks first, and one that keeps
\* FlushLimit of them marked starves the blocks above.
MarkedIsStored ==
    WritesEnd =>
        \A s \in Sectors, c \in Contents :
            Storing /\ BlockOf(s) \in dirty /\ disk[s] = c
                ~> Overlay(1)[s] = c \/ disk[s] # c \/ ~Storing

=============================================================================
