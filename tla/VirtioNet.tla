------------------------------ MODULE VirtioNet ------------------------------
(***************************************************************************)
(* The virtio network device (rv64_virtio_net.c), its registers            *)
(* (rv64_virtio.c) and its interrupt source in the PLIC (rv64_bus.c).      *)
(*                                                                         *)
(* The user-mode network stack hands packets to slirp_send_packet, which   *)
(* puts them in a ring; virtio_net_poll, called from the interrupt check   *)
(* of the hart, moves them to the buffers the guest has made available.    *)
(* Packets are numbered in the order they come from the network.  The      *)
(* driver and the network stack are external: the driver is modelled by    *)
(* its accesses, and a packet may arrive whenever the stack is called.     *)
(***************************************************************************)
EXTENDS Naturals, Sequences, FiniteSetsExt

CONSTANTS
    RingSize,   \* slots of rx_ring_buffers (256)
    NumBufs,    \* receive buffers the driver has
    MaxTx,      \* transmissions outstanding at a time
    MaxPackets  \* bound: packets that arrive in a behaviour

ASSUME NetAssumption ==
    /\ RingSize \in Nat \ {0}
    /\ NumBufs \in Nat /\ MaxTx \in Nat /\ MaxPackets \in Nat

Slots == 0 .. (RingSize - 1)
Packets == 1 .. MaxPackets
Sources == {"blk", "net"}  \* in the order of their numbers, 8 and 9

VARIABLES
    \* struct virtio_mmio_dev
    slirp,      \* the network stack exists
    ringBuf, rxHead, rxTail,  \* rx_ring_buffers and its free-running indices
    ready,      \* the queues are set up
    intStatus,  \* int_status
    \* the queues in guest memory
    avail,      \* receive buffers available: "ok" or "short" (no header fits)
    usedRx,     \* the packets in used receive buffers
    txAvail, txUsed,  \* transmissions available, and used
    \* the PLIC and the driver
    pending,    \* the sources pending
    gpc,        \* where the driver is
    \* history
    arrived,    \* packets that have come from the network
    accepted,   \* those that entered the ring, in order
    taken,      \* those the driver has taken, in order
    short       \* a buffer too short for a header was made available

host    == <<slirp, ringBuf, rxHead, rxTail>>
queues  == <<avail, usedRx, txAvail, txUsed>>
history == <<arrived, accepted, taken, short>>
vars    == <<host, ready, intStatus, queues, pending, gpc, history>>

\* virtio_net_init, and a driver that has not yet found the device.
Init ==
    /\ slirp = TRUE /\ rxHead = 0 /\ rxTail = 0
    /\ ringBuf = [i \in Slots |-> 0]
    /\ ready = FALSE /\ intStatus = FALSE
    /\ avail = <<>> /\ usedRx = <<>> /\ txAvail = 0 /\ txUsed = 0
    /\ pending = {} /\ gpc = "user"
    /\ arrived = 0 /\ accepted = <<>> /\ taken = <<>> /\ short = FALSE

-----------------------------------------------------------------------------
(* The device.                                                             *)

\* Mutant: the ring is taken for full one packet too late.
MutFits(n) == n <= RingSize + 1 - (rxHead - rxTail)

\* slirp_send_packet keeps the n-th of the packets that arrive together.
Fits(n) == n <= RingSize - (rxHead - rxTail)

\* k packets arrive: slirp_send_packet for each, those beyond the ring dropped.
Receive(k) ==
    LET kept == {n \in 1 .. k : Fits(n)}
    IN  /\ arrived' = arrived + k
        /\ rxHead' = rxHead + Cardinality(kept)
        /\ ringBuf' = [i \in Slots |->
                          LET here == {n \in kept : (rxHead + n - 1) % RingSize = i}
                          IN  IF here = {} THEN ringBuf[i] ELSE arrived + Max(here)]
        /\ accepted' = accepted \o [n \in 1 .. Cardinality(kept) |-> arrived + n]

\* What lies in the ring after the packets have arrived, oldest first.
Waiting == [n \in 1 .. (rxHead' - rxTail) |-> ringBuf'[(rxTail + n - 1) % RingSize]]

\* The buffers a drain can use: those before the first short one.
Usable == {m \in 0 .. Len(avail) : \A n \in 1 .. m : avail[n] = "ok"}

\* Mutant: the driver is told only when the ring has been emptied.
MutDrain ==
    LET m == Min({Len(Waiting), Max(Usable)})
        blocked == m < Len(Waiting) /\ m < Len(avail)
    IN  /\ usedRx' = usedRx \o SubSeq(Waiting, 1, m)
        /\ avail' = SubSeq(avail, m + 1, Len(avail))
        /\ rxTail' = IF blocked THEN rxHead' ELSE rxTail + m
        /\ intStatus' = (intStatus \/ (m > 0 /\ rxTail' = rxHead'))

\* The drain of virtio_net_poll: packets go to buffers one by one.  A buffer
\* too short for the header is not consumed: every packet that is left is
\* dropped on it.  The driver's flag is set if anything was moved; the PLIC
\* is not told.
Drain ==
    LET m == Min({Len(Waiting), Max(Usable)})
        blocked == m < Len(Waiting) /\ m < Len(avail)
    IN  /\ usedRx' = usedRx \o SubSeq(Waiting, 1, m)
        /\ avail' = SubSeq(avail, m + 1, Len(avail))
        /\ rxTail' = IF blocked THEN rxHead' ELSE rxTail + m
        /\ intStatus' = (intStatus \/ m > 0)

\* virtio_net_poll, from the interrupt check: whatever the driver is doing.
Poll ==
    /\ slirp /\ UNCHANGED slirp
    /\ \E k \in 0 .. 2 : arrived + k <= MaxPackets /\ Receive(k)
    /\ IF ready THEN Drain ELSE UNCHANGED <<rxTail, intStatus, avail, usedRx>>
    /\ UNCHANGED <<ready, txAvail, txUsed, pending, gpc, taken, short>>

\* Mutant: the source is raised for what the device had to say before the store.
MutRaise == pending' = IF intStatus THEN pending \cup {"net"} ELSE pending

\* bus_store: after any store to the device its source is raised if
\* int_status is set.
Raise == pending' = IF intStatus' THEN pending \cup {"net"} ELSE pending

\* virtio_net_process_queue for queue 1: every chain is passed to the stack,
\* if there is one, and used.
Transmit ==
    /\ txUsed' = txUsed + txAvail /\ txAvail' = 0
    /\ intStatus' = (intStatus \/ txAvail > 0)

-----------------------------------------------------------------------------
(* The driver.                                                             *)

Goto(a, b) == gpc = a /\ gpc' = b

\* It sets up the queues, with a number of receive buffers.
SetUp ==
    /\ gpc = "user" /\ ~ready /\ ready' = TRUE
    /\ \E n \in 0 .. NumBufs : avail' = [i \in 1 .. n |-> "ok"]
    /\ UNCHANGED intStatus /\ Raise
    /\ UNCHANGED <<host, usedRx, txAvail, txUsed, gpc, history>>

\* It resets the device (STATUS = 0): memset of all but identity and disk,
\* the network stack included, at any time.  The driver gives up its queues;
\* the packets in them and in the ring are lost.
Reset ==
    /\ gpc = "user" /\ ready' = FALSE
    /\ slirp' = FALSE /\ rxHead' = 0 /\ rxTail' = 0
    /\ ringBuf' = [i \in Slots |-> 0]
    /\ intStatus' = FALSE
    /\ avail' = <<>> /\ usedRx' = <<>> /\ txAvail' = 0 /\ txUsed' = 0
    /\ accepted' = taken
    /\ Raise
    /\ UNCHANGED <<gpc, arrived, taken, short>>

\* It makes chains available for transmission.
Queue ==
    /\ gpc = "user" /\ ready /\ txAvail + txUsed < MaxTx
    /\ txAvail' = txAvail + 1
    /\ UNCHANGED <<host, ready, intStatus, avail, usedRx, txUsed, pending, gpc, history>>

\* It notifies queue 1.  The stack may answer from within slirp_input.
KickTx ==
    /\ gpc = "user" /\ ready
    /\ Transmit
    /\ \E k \in 0 .. 1 : /\ k = 0 \/ (slirp /\ txAvail > 0 /\ arrived < MaxPackets)
                         /\ Receive(k)
    /\ Raise
    /\ UNCHANGED <<slirp, rxTail, ready, avail, usedRx, gpc, taken, short>>

\* Mutant: a claim clears all that is pending.
MutClaimed == [src |-> CHOOSE s \in pending : s = "net" => pending = {"net"},
               left |-> {}]

\* plic_load of the claim register: the lowest number pending, and what stays
\* pending.
Claimed ==
    LET s == IF "blk" \in pending THEN "blk" ELSE "net"
    IN  [src |-> s, left |-> pending \ {s}]

Claim ==
    /\ pending # {} /\ gpc = "user"
    /\ gpc' = Claimed.src /\ pending' = Claimed.left
    /\ UNCHANGED <<host, ready, intStatus, queues, history>>

\* The handler reads INT_STATUS and returns if it is clear ...
ReadStatus ==
    /\ gpc = "net" /\ gpc' = IF intStatus THEN "ack" ELSE "eoi"
    /\ UNCHANGED <<host, ready, intStatus, queues, pending, history>>

\* ... else acknowledges what it read ...
Ack ==
    /\ Goto("ack", "take")
    /\ intStatus' = FALSE
    /\ Raise
    /\ UNCHANGED <<host, ready, queues, history>>

\* ... takes everything used ...
Take ==
    /\ Goto("take", "refill")
    /\ taken' = taken \o usedRx
    /\ usedRx' = <<>> /\ txUsed' = 0
    /\ UNCHANGED <<host, ready, intStatus, avail, txAvail, pending, arrived, accepted, short>>

\* ... and makes buffers available again, with or without notifying queue 0;
\* the notification does nothing, but the store raises the source.
Refill ==
    /\ Goto("refill", "eoi")
    /\ \E n \in 0 .. (NumBufs - Len(avail)), b \in {"ok", "short"} :
          /\ avail' = avail \o [i \in 1 .. n |-> b]
          /\ short' = (short \/ (n > 0 /\ b = "short"))
    /\ UNCHANGED intStatus
    /\ Raise \/ UNCHANGED pending
    /\ UNCHANGED <<host, ready, usedRx, txAvail, txUsed, arrived, accepted, taken>>

\* The disk's handler, and the end of either.
Finish ==
    /\ gpc \in {"blk", "eoi"} /\ gpc' = "user"
    /\ UNCHANGED <<host, ready, intStatus, queues, pending, history>>

\* The disk raises its source.
RaiseBlk ==
    /\ pending' = pending \cup {"blk"}
    /\ UNCHANGED <<host, ready, intStatus, queues, gpc, history>>

-----------------------------------------------------------------------------
Driver == Claim \/ ReadStatus \/ Ack \/ Take \/ Refill \/ Finish

Next ==
    \/ Poll \/ Driver
    \/ SetUp \/ Reset \/ Queue \/ KickTx
    \/ RaiseBlk

Spec == Init /\ [][Next]_vars

\* A session keeps running the machine and the hart executes its handlers.
FairSpec == Spec /\ WF_vars(Driver)

-----------------------------------------------------------------------------
\* Every variable stays in its type; the ring holds no more than it has slots.
TypeOK ==
    /\ slirp \in BOOLEAN /\ ready \in BOOLEAN /\ intStatus \in BOOLEAN
    /\ rxHead \in 0 .. MaxPackets /\ rxTail \in 0 .. rxHead
    /\ rxHead - rxTail <= RingSize
    /\ ringBuf \in [Slots -> 0 .. MaxPackets]
    /\ avail \in Seq({"ok", "short"}) /\ Len(avail) <= NumBufs
    /\ usedRx \in Seq(Packets) /\ txAvail \in 0 .. MaxTx /\ txUsed \in 0 .. MaxTx
    /\ pending \subseteq Sources
    /\ gpc \in {"user", "blk", "net", "ack", "take", "refill", "eoi"}
    /\ arrived \in 0 .. MaxPackets
    /\ accepted \in Seq(Packets) /\ taken \in Seq(Packets) /\ short \in BOOLEAN

\* The packets in the ring.
InRing == [n \in 1 .. (rxHead - rxTail) |-> ringBuf[(rxTail + n - 1) % RingSize]]

\* Packets reach the driver in the order they came, none twice; and as long
\* as the driver never offered a buffer too short for a header, none that
\* entered the ring is lost on the way, however arrivals, drains, refills and
\* wrapping indices interleave.  What was on its way when the driver reset the
\* device is lost with the ring and does not count as accepted.
RxIsQueue ==
    LET on == taken \o usedRx \o InRing
    IN  /\ \A i \in 1 .. Len(on) - 1 : on[i] < on[i + 1]
        /\ ~short => on = accepted

\* Whatever the device has used and the driver not taken is announced: the
\* flag is set, or the handler is past its acknowledgement and about to look.
UsedAnnounced ==
    usedRx # <<>> \/ txUsed > 0 => intStatus \/ gpc = "take"

\* A transmission that is complete also reaches the PLIC, since it completes
\* inside a store: the source is pending or the handler is on its way.
TxAnnounced ==
    txUsed > 0 => "net" \in pending \/ gpc \in {"net", "ack", "take"}

\* Once the source of the device is pending, what it has used is taken, unless
\* the disk's source, which has the lower number, is raised again and again.
PendingIsTaken ==
    \/ []<>("blk" \in pending)
    \/ ("net" \in pending /\ usedRx # <<>>) ~> (usedRx = <<>>)

=============================================================================
