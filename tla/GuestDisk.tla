----------------------------- MODULE GuestDisk -----------------------------
(***************************************************************************)
(* The guest's disk in the worker's memory, as the virtio device and the   *)
(* code that persists it share it (struct virtio_mmio_dev).                *)
(***************************************************************************)
EXTENDS Naturals

CONSTANT NSectors    \* disk_size, in sectors

Sectors == 0 .. (NSectors - 1)

VARIABLES
    disk,    \* disk_data: the buffer the device uses
    hook     \* mark_dirty # NULL
=============================================================================
