----------------------------- MODULE VirtioBlk -----------------------------
(***************************************************************************)
(* The virtio-blk device (rv64_virtio.c), its MMIO registers, the two      *)
(* rings in guest memory and its line to the PLIC (rv64_bus.c).  The       *)
(* device has no thread of its own: it works inside the guest's store to   *)
(* QUEUE_NOTIFY.  The guest's driver (virtio_blk of Linux) is external and *)
(* is modelled by how it uses the rings and the registers.                 *)
(*                                                                         *)
(* Ring indices are counters modulo IdxMod (2^16 in the code).  A request  *)
(* has an identity of its own; a write stores that identity.               *)
(***************************************************************************)
EXTENDS Naturals, Sequences, GuestDisk

CONSTANTS
    Num,          \* QUEUE_NUM
    IdxMod,       \* the modulus of the ring indices
    MaxRequests,  \* bound: requests published in a behaviour
    Templates,    \* what the n-th request may be: [type, sector, segs, hdr]
    MaxResets     \* bound: device resets

Types == {"IN", "OUT", "FLUSH", "OTHER"}
Heads == 0 .. (Num - 1)
Ids == 1 .. MaxRequests
Values == 0 .. MaxRequests    \* 0: never written

ASSUME VirtioAssumption ==
    /\ NSectors \in Nat \ {0}
    /\ Num \in Nat \ {0}
    /\ IdxMod \in Nat /\ IdxMod % Num = 0 /\ IdxMod > Num
    /\ \A n \in Ids : \A t \in Templates[n] :
          /\ t.type \in Types /\ t.sector \in Nat /\ t.hdr \in BOOLEAN
          /\ t.segs \in Seq([len : Nat \ {0}, ok : BOOLEAN])
    /\ MaxRequests \in Nat /\ MaxResets \in Nat

Request(t, n) == [id |-> n, type |-> t.type, sector |-> t.sector,
                  segs |-> t.segs, hdr |-> t.hdr]
Requests == UNION {{Request(t, n) : t \in Templates[n]} : n \in Ids}

VARIABLES
    \* guest memory
    chain,      \* the request whose descriptor chain starts at each head
    buffer,     \* its data, if it reads from the disk
    status,     \* its status byte
    avail, availIdx,  \* the available ring
    used, usedIdx,    \* the used ring
    \* the driver
    busy,       \* heads given to the device and not yet taken back
    seen,       \* how far it has read the used ring
    nreq,       \* number of requests published
    answers,    \* what it has learned: [req, status, data]
    irq,        \* where its interrupt handler is, "none" outside
    isr,        \* the INT_STATUS the handler has read
    \* the device
    ready, lastAvail, intStatus,
    at,         \* "idle", or "serve" inside process_queue
    start, target,    \* start_avail and avail_idx of process_queue
    marked,     \* sectors reported to mark_dirty
    resets,
    \* the PLIC
    pending     \* the pending bit of the device's irq

memory == <<chain, buffer, status, avail, availIdx, used, usedIdx>>
driver == <<busy, seen, nreq, answers, irq, isr>>
device == <<ready, lastAvail, intStatus, at, start, target, disk, hook, marked,
            resets>>
vars == <<memory, driver, device, pending>>

\* The 16-bit increment of a ring index.
Next1(i) == (i + 1) % IdxMod
Behind(i, j) == (j + IdxMod - i) % IdxMod    \* how far i is behind j

None == [id |-> 0, type |-> "FLUSH", sector |-> 0, segs |-> <<>>, hdr |-> FALSE]

ClearRings ==
    /\ chain' = [h \in Heads |-> None]
    /\ buffer' = [h \in Heads |-> <<>>]
    /\ status' = [h \in Heads |-> "none"]
    /\ avail' = [i \in Heads |-> 0] /\ availIdx' = 0
    /\ used' = [i \in Heads |-> [head |-> 0, len |-> 0]] /\ usedIdx' = 0
    /\ busy' = {} /\ seen' = 0

Init ==
    /\ chain = [h \in Heads |-> None]
    /\ buffer = [h \in Heads |-> <<>>]
    /\ status = [h \in Heads |-> "none"]
    /\ avail = [i \in Heads |-> 0] /\ availIdx = 0
    /\ used = [i \in Heads |-> [head |-> 0, len |-> 0]] /\ usedIdx = 0
    /\ busy = {} /\ seen = 0 /\ nreq = 0 /\ answers = {}
    /\ irq = "none" /\ isr = FALSE
    /\ ready = FALSE /\ lastAvail = 0 /\ intStatus = FALSE
    /\ at = "idle" /\ start = 0 /\ target = 0
    /\ disk = [s \in Sectors |-> 0] /\ hook = TRUE /\ marked = {} /\ resets = 0
    /\ pending = FALSE

-----------------------------------------------------------------------------
(* The driver (external): set-up, submission and the interrupt handler.    *)

\* bus_store raises the PLIC line after any store to the device while
\* int_status is set.
Raise(int) == pending' = (pending \/ int)

\* The driver fills the queue registers and sets QUEUE_READY.
Setup ==
    /\ ~ready /\ irq = "none"
    /\ ready' = TRUE
    /\ Raise(intStatus)
    /\ UNCHANGED <<memory, driver, lastAvail, intStatus, at, start, target, disk,
                   hook, marked, resets>>

\* It writes a descriptor chain and puts its head into the available ring.
Publish(h) ==
    /\ ready /\ at = "idle"
    /\ nreq < MaxRequests /\ h \notin busy
    /\ nreq' = nreq + 1
    /\ busy' = busy \cup {h}
    /\ \E t \in Templates[nreq + 1] :
          chain' = [chain EXCEPT ![h] = Request(t, nreq + 1)]
    /\ buffer' = [buffer EXCEPT ![h] = <<>>]
    /\ status' = [status EXCEPT ![h] = "none"]
    /\ avail' = [avail EXCEPT ![availIdx % Num] = h]
    /\ availIdx' = Next1(availIdx)
    /\ UNCHANGED <<used, usedIdx, seen, answers, irq, isr, device, pending>>

\* The interrupt is taken and claimed from the PLIC.
Claim ==
    /\ pending /\ irq = "none" /\ at = "idle"
    /\ pending' = FALSE
    /\ irq' = "read"
    /\ UNCHANGED <<memory, busy, seen, nreq, answers, isr, device>>

ReadIsr ==
    /\ irq = "read" /\ at = "idle"
    /\ irq' = "ack"
    /\ isr' = intStatus
    /\ UNCHANGED <<memory, busy, seen, nreq, answers, device, pending>>

\* It looks at the used ring after a used-ring interrupt only.
Ack ==
    /\ irq = "ack" /\ at = "idle"
    /\ irq' = IF isr THEN "take" ELSE "none"
    /\ intStatus' = (intStatus /\ ~isr)
    /\ Raise(intStatus')
    /\ UNCHANGED <<memory, busy, seen, nreq, answers, isr, ready, lastAvail, at,
                   start, target, disk, hook, marked, resets>>

Take ==
    /\ irq = "take" /\ at = "idle"
    /\ IF seen = usedIdx
       THEN irq' = "none" /\ UNCHANGED <<busy, seen, answers>>
       ELSE LET h == used[seen % Num].head
            IN  /\ answers' = answers \cup
                       {[req |-> chain[h], status |-> status[h],
                         data |-> buffer[h]]}
                /\ busy' = busy \ {h}
                /\ seen' = Next1(seen)
                /\ irq' = irq
    /\ UNCHANGED <<memory, nreq, isr, device, pending>>

-----------------------------------------------------------------------------
(* The device: virtio_blk_process_queue and virtio_mmio_store.             *)

\* One data descriptor of a chain, given the walk so far.  A segment that
\* leaves the disk or the guest's memory moves nothing; its sectors are
\* skipped all the same.
Segment(type, w, seg) ==
    LET fits  == w.sector + seg.len <= NSectors /\ seg.ok
        range == {s \in Sectors : s >= w.sector /\ s < w.sector + seg.len}
        moved == [w EXCEPT !.sector = @ + seg.len, !.len = @ + seg.len]
    IN  CASE type = "FLUSH" -> [w EXCEPT !.status = "OK"]
          [] type = "OTHER" -> [w EXCEPT !.status = "UNSUPP"]
          [] type \in {"IN", "OUT"} /\ ~fits ->
                [w EXCEPT !.sector = @ + seg.len, !.status = "IOERR"]
          [] type = "IN" /\ fits ->
                [moved EXCEPT !.data = @ \o [i \in 1 .. seg.len |->
                                                w.disk[w.sector + i - 1]]]
          [] OTHER ->
                [moved EXCEPT
                    !.disk = [s \in Sectors |-> IF s \in range THEN w.id ELSE @[s]],
                    !.marked = IF hook THEN @ \cup range ELSE @]

\* The walk before the first data descriptor.
Begin(r) == [id |-> r.id, sector |-> r.sector, status |-> "OK", len |-> 0,
             data |-> <<>>, disk |-> disk, marked |-> marked]

\* Mutant: an error is forgotten when a later segment succeeds.
MutWalk(r) ==
    LET walk[n \in 0 .. Len(r.segs)] ==
          IF n = 0 THEN Begin(r)
          ELSE Segment(r.type, [walk[n - 1] EXCEPT !.status = "OK"], r.segs[n])
    IN  walk[Len(r.segs)]

\* Mutant: writes are not reported to mark_dirty.
MutWalkUnmarked(r) ==
    LET walk[n \in 0 .. Len(r.segs)] ==
          IF n = 0 THEN Begin(r) ELSE Segment(r.type, walk[n - 1], r.segs[n])
    IN  [walk[Len(r.segs)] EXCEPT !.marked = marked]

\* The walk along the chain.  The driver's chains are those of the virtio
\* specification: in RAM, no longer than the queue, whole sectors between a
\* header and a last descriptor of one byte, which can be written.
Walk(r) ==
    LET walk[n \in 0 .. Len(r.segs)] ==
          IF n = 0 THEN Begin(r) ELSE Segment(r.type, walk[n - 1], r.segs[n])
    IN  walk[Len(r.segs)]

\* A store to QUEUE_NOTIFY enters process_queue, which reads avail.idx once.
Notify ==
    /\ ready /\ at = "idle"
    /\ at' = "serve"
    /\ start' = lastAvail
    /\ target' = availIdx
    /\ UNCHANGED <<memory, driver, ready, lastAvail, intStatus, disk, hook, marked,
                   resets, pending>>

\* Mutant: the index is not reduced to the size of the ring.
MutUsedSlot == usedIdx

\* used.idx % num, the slot of the next used element.
UsedSlot == usedIdx % Num

\* One request: the chain is walked, its status written, its head appended
\* to the used ring.  Without a readable header nothing is done or reported.
Serve ==
    /\ at = "serve" /\ lastAvail # target
    /\ LET h == avail[lastAvail % Num]
           r == chain[h]
           w == Walk(r)
       IN  /\ IF r.hdr
              THEN /\ disk' = w.disk
                   /\ marked' = w.marked
                   /\ buffer' = [buffer EXCEPT ![h] = w.data]
                   /\ status' = [status EXCEPT ![h] = w.status]
              ELSE UNCHANGED <<disk, marked, buffer, status>>
           /\ used' = [used EXCEPT ![UsedSlot] =
                          [head |-> h, len |-> IF r.hdr THEN w.len ELSE 0]]
    /\ usedIdx' = Next1(usedIdx)
    /\ lastAvail' = Next1(lastAvail)
    /\ UNCHANGED <<chain, avail, availIdx, driver, ready, intStatus, at, start,
                   target, hook, resets, pending>>

\* Mutant: the interrupt status is set, the PLIC line is not raised.
MutEndNotify ==
    /\ at = "serve" /\ lastAvail = target
    /\ at' = "idle"
    /\ intStatus' = (intStatus \/ lastAvail # start)
    /\ UNCHANGED <<memory, driver, ready, lastAvail, start, target, disk, hook,
                   marked, resets, pending>>

\* The end of process_queue and of the store.
EndNotify ==
    /\ at = "serve" /\ lastAvail = target
    /\ at' = "idle"
    /\ intStatus' = (intStatus \/ lastAvail # start)
    /\ Raise(intStatus')
    /\ UNCHANGED <<memory, driver, ready, lastAvail, start, target, disk, hook,
                   marked, resets>>

\* A store of 0 to STATUS clears the device but for its identity; the driver
\* gives up what is under way and starts with empty rings.
Reset ==
    /\ at = "idle" /\ irq = "none"
    /\ resets < MaxResets
    /\ resets' = resets + 1
    /\ ready' = FALSE
    /\ lastAvail' = 0
    /\ intStatus' = FALSE
    /\ hook' = FALSE
    /\ ClearRings
    /\ Raise(intStatus')
    /\ UNCHANGED <<nreq, answers, irq, isr, at, start, target, disk, marked>>

-----------------------------------------------------------------------------
Handler == Claim \/ ReadIsr \/ Ack \/ Take
Processing == Serve \/ EndNotify

Next ==
    \/ Setup
    \/ \E h \in Heads : Publish(h)
    \/ Notify
    \/ Claim \/ ReadIsr \/ Ack \/ Take
    \/ Serve \/ EndNotify
    \/ Reset

Spec == Init /\ [][Next]_vars

\* The hart runs on: a store completes, an interrupt is taken and handled,
\* and a driver that has published notifies.
Fairness ==
    /\ WF_vars(Processing)
    /\ SF_vars(Handler)
    /\ SF_vars(Notify /\ availIdx # lastAvail)

FairSpec == Spec /\ Fairness

-----------------------------------------------------------------------------
Statuses == {"none", "OK", "IOERR", "UNSUPP"}

\* Every variable stays in its type: indices stay below their modulus, heads
\* are those of the table, sectors those of the disk.
TypeOK ==
    /\ chain \in [Heads -> Requests \cup {None}]
    /\ status \in [Heads -> Statuses]
    /\ avail \in [Heads -> Heads] /\ availIdx \in 0 .. (IdxMod - 1)
    /\ used \in [Heads -> [head : Heads, len : Nat]] /\ usedIdx \in 0 .. (IdxMod - 1)
    /\ busy \subseteq Heads /\ seen \in 0 .. (IdxMod - 1)
    /\ nreq \in 0 .. MaxRequests
    /\ irq \in {"none", "read", "ack", "take"} /\ isr \in BOOLEAN
    /\ ready \in BOOLEAN /\ intStatus \in BOOLEAN /\ pending \in BOOLEAN
    /\ lastAvail \in 0 .. (IdxMod - 1)
    /\ at \in {"idle", "serve"}
    /\ disk \in [Sectors -> Values]
    /\ marked \subseteq Sectors

\* A used element that the driver has not taken is announced: the PLIC line
\* and int_status are up, or the handler is on its way to the used ring.  No
\* order of submissions, notifications and acknowledgements loses it.
CompletionAnnounced ==
    seen # usedIdx /\ at = "idle" =>
        \/ pending /\ intStatus
        \/ irq = "read" /\ intStatus
        \/ irq = "ack" /\ isr
        \/ irq = "take"

\* As long as the driver has not reset the device, every sector that differs
\* from the image has been reported to mark_dirty.
WritesAreReported ==
    hook => \A s \in Sectors : disk[s] # 0 => s \in marked

\* The device implements BlockService: the unserved part of the available
\* ring is its queue, the untaken part of the used ring its answers.
Answer(h) == [req |-> chain[h], status |-> status[h], data |-> buffer[h]]

Service == INSTANCE BlockService WITH
    store   <- disk,
    queue   <- [i \in 1 .. Behind(lastAvail, availIdx) |->
                  chain[avail[(lastAvail + i - 1) % Num]]],
    done    <- [i \in 1 .. Behind(seen, usedIdx) |->
                  Answer(used[(seen + i - 1) % Num].head)]

\* Requests are served once, in order, and answered truthfully, across the
\* wrap of the ring indices.
ImplementsBlockService == Service!Spec

\* Each published request is answered, unless the driver resets the device.
EveryRequestAnswered ==
    \A n \in Ids : nreq = n ~> (\E a \in answers : a.req.id = n) \/ resets > 0

=============================================================================
