-------------------------------- MODULE Uart --------------------------------
(***************************************************************************)
(* The 16550 UART (rv64_bus.c), its interrupt source in the PLIC, the      *)
(* console buffer its transmitter fills (rv64_pgext.c) and the SQL         *)
(* functions that type into the one and read the other.                    *)
(*                                                                         *)
(* vm_send and vm_type reach rv64_uart_rx between two runs of the machine, *)
(* and a run may end after any instruction, so the guest sees a byte       *)
(* arrive between any two of its accesses.  The guest is a terminal: the   *)
(* interrupt handler of its driver (external code, modelled by its         *)
(* accesses) reads what arrives and writes it back.  Input bytes are       *)
(* numbered in the order they are typed; 0 is the NUL byte.                *)
(***************************************************************************)
EXTENDS Naturals, Sequences

CONSTANTS
    RingSize,  \* slots of rx_buf (256)
    ConSize,   \* CONSOLE_BUF_SIZE
    Pattern,   \* the pattern given to vm_step_until
    MaxInput   \* bound: bytes typed in a behaviour

ASSUME UartAssumption ==
    /\ RingSize \in Nat \ {0, 1}
    /\ ConSize \in Nat \ {0}
    /\ MaxInput \in Nat
    /\ Pattern \in Seq(1 .. MaxInput) /\ Pattern # <<>>

Slots == 0 .. (RingSize - 1)
Bytes == 0 .. MaxInput
Cells == 0 .. (ConSize - 1)
PatLen == Len(Pattern)

VARIABLES
    \* struct rv64_uart
    rxBuf, rxHead, rxTail,  \* the receive ring
    rxReady,  \* rx_ready
    ier,      \* the enabled interrupts: "rx" (bit 0), "thre" (bit 1)
    thre,     \* thre_pending
    dlab,     \* bit 7 of lcr
    pending,  \* the UART's bit in plic.pending
    \* the guest
    gpc,      \* where its driver is
    echoed,   \* how many of the bytes it read it has written back
    \* SharedVMState
    conBuf, conPos,  \* console_buf, console_pos
    \* the processes
    txPos,    \* pg_uart_tx: its local copy of console_pos
    clearing, \* vm_console_clear has reset console_pos but not console_buf
    upc,      \* vm_step_until: "off" or "step"
    from,     \* its search_from
    \* history
    sent,     \* bytes typed
    accepted, \* those that entered the ring, in order
    got,      \* those the guest has read, in order
    out,      \* what the guest has written since the console was cleared
    raced,    \* a clear and an output have overlapped
    start,    \* where the console ended when vm_step_until was called
    clean     \* the console has not been cleared since

ring    == <<rxBuf, rxHead, rxTail, rxReady>>
lines   == <<ier, thre, dlab, pending>>
guest   == <<gpc, echoed>>
console == <<conBuf, conPos, txPos, clearing, out, raced>>
search  == <<upc, from, start, clean>>
input   == <<sent, accepted, got>>
vars    == <<ring, lines, guest, console, search, input>>

Init ==
    /\ rxBuf = [i \in Slots |-> 0] /\ rxHead = 0 /\ rxTail = 0 /\ rxReady = FALSE
    /\ ier = {} /\ thre = FALSE /\ dlab = FALSE /\ pending = FALSE
    /\ gpc = "user" /\ echoed = 0
    /\ conBuf = [i \in Cells |-> 0] /\ conPos = 0 /\ txPos = 0
    /\ clearing = FALSE /\ out = <<>> /\ raced = FALSE
    /\ upc = "off" /\ from = 0 /\ start = 0 /\ clean = FALSE
    /\ sent = 0 /\ accepted = <<>> /\ got = <<>>

-----------------------------------------------------------------------------
(* The device.                                                             *)

Next1(i) == (i + 1) % RingSize

\* Mutant: the ring may be filled to its last slot.
MutRx ==
    /\ sent < MaxInput /\ gpc # "put"
    /\ sent' = sent + 1
    /\ rxBuf' = [rxBuf EXCEPT ![rxHead] = sent + 1]
    /\ rxHead' = Next1(rxHead)
    /\ rxReady' = TRUE
    /\ accepted' = Append(accepted, sent + 1)
    /\ pending' = TRUE
    /\ UNCHANGED <<rxTail, ier, thre, dlab, guest, console, search, got>>

\* rv64_uart_rx: the byte enters the ring unless that would make it look
\* empty; the interrupt source is raised either way, enabled or not.
Rx ==
    /\ sent < MaxInput /\ gpc # "put"
    /\ sent' = sent + 1
    /\ pending' = TRUE
    /\ IF Next1(rxHead) # rxTail
       THEN /\ rxBuf' = [rxBuf EXCEPT ![rxHead] = sent + 1]
            /\ rxHead' = Next1(rxHead)
            /\ rxReady' = TRUE
            /\ accepted' = Append(accepted, sent + 1)
       ELSE UNCHANGED <<ring, accepted>>
    /\ UNCHANGED <<rxTail, ier, thre, dlab, guest, console, search, got>>

\* uart_load of RBR with DLAB clear, with data in the ring.
LoadRbr ==
    /\ got' = Append(got, rxBuf[rxTail])
    /\ rxTail' = Next1(rxTail)
    /\ rxReady' = (rxHead # Next1(rxTail))
    /\ UNCHANGED <<rxBuf, rxHead>>

\* uart_load of IIR: what it returns.
Iir == IF rxReady /\ "rx" \in ier THEN "rx"
       ELSE IF "thre" \in ier THEN "thre" ELSE "none"

\* Mutant: a store to the UART raises its source for the transmitter only.
MutRaise == pending' = (pending \/ thre')

\* bus_store: after any store to the UART its source is raised if the device
\* has something to say.
Raise == pending' = (pending \/ thre' \/ (rxReady /\ "rx" \in ier'))

\* uart_store of IER with DLAB clear.
StoreIer(e) ==
    /\ ier' = e
    /\ thre' = ("thre" \in e)
    /\ Raise
    /\ UNCHANGED dlab

\* uart_store of LCR.
StoreLcr(d) ==
    /\ dlab' = d
    /\ UNCHANGED <<ier, thre>>
    /\ Raise

-----------------------------------------------------------------------------
(* The guest's driver.                                                     *)

Goto(a, b) == gpc = a /\ gpc' = b

\* The supervisor takes the external interrupt and claims its source.
Claim ==
    /\ pending
    /\ Goto("user", "isr")
    /\ pending' = FALSE
    /\ UNCHANGED <<ring, ier, thre, dlab, echoed, console, search, input>>

\* The handler reads IIR until it says that there is nothing; a read that
\* answers "thre" clears thre_pending.
ReadIir ==
    /\ gpc = "isr"
    /\ gpc' = CASE Iir = "rx" -> "drain" [] Iir = "thre" -> "tx" [] OTHER -> "eoi"
    /\ thre' = (thre /\ Iir # "thre")
    /\ UNCHANGED <<ring, ier, dlab, pending, echoed, console, search, input>>

\* The handler reads RBR as long as LSR says that there is data.
Drain ==
    /\ gpc = "drain" /\ rxReady
    /\ LoadRbr
    /\ UNCHANGED <<lines, guest, console, search, sent, accepted>>

Drained ==
    /\ ~rxReady
    /\ Goto("drain", "isr")
    /\ UNCHANGED <<ring, lines, echoed, console, search, input>>

\* It has something to write: uart_store of THR calls pg_uart_tx, which
\* reads console_pos ...
TxRead ==
    /\ echoed < Len(got)
    /\ Goto("tx", "put")
    /\ txPos' = conPos
    /\ raced' = (raced \/ clearing)
    /\ UNCHANGED <<ring, lines, echoed, conBuf, conPos, clearing, out, search, input>>

\* Mutant: the buffer is used as a ring.
MutPutWrap(b) ==
    /\ conBuf' = [conBuf EXCEPT ![txPos] = b]
    /\ conPos' = (txPos + 1) % ConSize

\* ... and stores the byte, a NUL behind it and the new position, unless the
\* buffer is full.
PutByte(b) ==
    IF txPos < ConSize - 1
    THEN /\ conBuf' = [i \in Cells |-> IF i = txPos THEN b
                                       ELSE IF i = txPos + 1 THEN 0 ELSE conBuf[i]]
         /\ conPos' = txPos + 1
    ELSE UNCHANGED <<conBuf, conPos>>

TxPut ==
    /\ Goto("put", "isr")
    /\ PutByte(got[echoed + 1])
    /\ out' = Append(out, got[echoed + 1])
    /\ echoed' = echoed + 1
    /\ thre' = (thre \/ "thre" \in ier)
    /\ Raise
    /\ raced' = (raced \/ clearing)
    /\ UNCHANGED <<ring, ier, dlab, txPos, clearing, search, input>>

\* Nothing to write: the handler disables the transmitter's interrupt.
TxStop ==
    /\ echoed = Len(got)
    /\ Goto("tx", "isr")
    /\ StoreIer(ier \ {"thre"})
    /\ UNCHANGED <<ring, echoed, console, search, input>>

\* plic_store of the completion.
Eoi ==
    /\ Goto("eoi", "user")
    /\ UNCHANGED <<ring, lines, echoed, console, search, input>>

\* Outside its handler the driver changes the enabled interrupts.
SetIer(e) ==
    /\ gpc = "user" /\ gpc' = gpc
    /\ StoreIer(e)
    /\ UNCHANGED <<ring, echoed, console, search, input>>

\* It sets the baud rate, with its interrupt held off: LCR selects the
\* divisor latches and then the data registers again.
SelectDivisor ==
    /\ Goto("user", "divisor")
    /\ StoreLcr(TRUE)
    /\ UNCHANGED <<ring, echoed, console, search, input>>

DeselectDivisor ==
    /\ Goto("divisor", "user")
    /\ StoreLcr(FALSE)
    /\ UNCHANGED <<ring, echoed, console, search, input>>

-----------------------------------------------------------------------------
(* SQL sessions.                                                           *)

\* vm_console_clear, by any session at any time and without the lock: first
\* console_pos, then the first byte of console_buf.  (A boot sets console_pos
\* to 0 too; the machine begins anew then, and Init is the state behind it.)
ClearPos ==
    /\ ~clearing /\ clearing' = TRUE
    /\ conPos' = 0
    /\ out' = <<>>
    /\ raced' = (gpc = "put")
    /\ clean' = FALSE
    /\ UNCHANGED <<ring, lines, guest, conBuf, txPos, upc, from, start, input>>

ClearBuf ==
    /\ clearing /\ clearing' = FALSE
    /\ conBuf' = [conBuf EXCEPT ![0] = 0]
    /\ UNCHANGED <<ring, lines, guest, conPos, txPos, out, raced, search, input>>

\* vm_step_until begins: only output beyond the present end is of interest.
StepUntil ==
    /\ upc = "off" /\ upc' = "step"
    /\ from' = conPos /\ start' = conPos
    /\ clean' = TRUE
    /\ UNCHANGED <<ring, lines, guest, console, input>>

\* The pattern stands in the console from position i on.
Match(i) == \A k \in 1 .. PatLen : conBuf[i + k - 1] = Pattern[k]

\* Mutant: the search does not go back over output already searched.
MutScanFrom == from

\* The first position a scan looks at.
ScanFrom == IF from >= PatLen THEN from - PatLen ELSE from

Found == \E i \in ScanFrom .. conPos : i + PatLen <= conPos /\ Match(i)

\* A batch of cycles is over: vm_step_until scans the console.  It ends when
\* it finds the pattern or its cycles are spent, or starts another batch.
Scan ==
    /\ upc = "step" /\ gpc # "put"
    /\ LET scans == conPos > from
       IN  /\ upc' \in IF scans /\ Found THEN {"off"} ELSE {"off", "step"}
           /\ from' = IF scans THEN conPos ELSE from
    /\ UNCHANGED <<ring, lines, guest, console, start, clean, input>>

-----------------------------------------------------------------------------
\* Everything the guest does on its own once an interrupt is pending.
Driver ==
    \/ Claim \/ ReadIir \/ Drain \/ Drained \/ TxRead \/ TxPut \/ TxStop \/ Eoi
    \/ DeselectDivisor

Next ==
    \/ Rx
    \/ Driver
    \/ \E e \in SUBSET {"rx", "thre"} : SetIer(e)
    \/ SelectDivisor
    \/ ClearPos \/ ClearBuf
    \/ StepUntil \/ Scan

Spec == Init /\ [][Next]_vars

\* A session keeps running the machine, and the guest's hart then executes
\* its handler.  It need not change its enables or the baud rate; the latter
\* cannot keep the interrupt out for ever.
FairSpec == Spec /\ WF_vars(Driver) /\ SF_vars(Claim)

-----------------------------------------------------------------------------
\* Every variable stays in its type; in particular console_pos never reaches
\* the last cell, which is kept for the terminating NUL.
TypeOK ==
    /\ rxBuf \in [Slots -> Bytes] /\ rxHead \in Slots /\ rxTail \in Slots
    /\ rxReady \in BOOLEAN
    /\ ier \subseteq {"rx", "thre"}
    /\ thre \in BOOLEAN /\ dlab \in BOOLEAN /\ pending \in BOOLEAN
    /\ gpc \in {"user", "isr", "drain", "tx", "put", "eoi", "divisor"}
    /\ echoed \in Nat
    /\ conBuf \in [Cells -> Bytes] /\ conPos \in Cells /\ txPos \in Cells
    /\ clearing \in BOOLEAN /\ raced \in BOOLEAN /\ clean \in BOOLEAN
    /\ upc \in {"off", "step"} /\ from \in Cells /\ start \in Cells
    /\ sent \in Bytes
    /\ accepted \in Seq(Bytes) /\ got \in Seq(Bytes) /\ out \in Seq(Bytes)

\* The number of bytes in the ring.
Filled == (rxHead + RingSize - rxTail) % RingSize

\* The receive ring is a queue: what the guest has read, followed by what
\* lies in the ring between the indices, is what was accepted, in order and
\* once, also when an index wraps and when the ring is full; and LSR and IIR
\* report data exactly when there is some.
RingIsQueue ==
    /\ Len(accepted) = Len(got) + Filled
    /\ \A i \in 1 .. Len(got) : got[i] = accepted[i]
    /\ \A i \in 1 .. Filled :
          rxBuf[(rxTail + i - 1) % RingSize] = accepted[Len(got) + i]
    /\ rxReady = (Filled # 0)

\* Data that the guest wants to hear of never lies in the ring unannounced:
\* the source is pending, or the handler has still to ask the device.  A byte
\* that arrives while the handler runs, while the interrupt is disabled or
\* while the divisor latches are selected is announced later.
InputAnnounced ==
    rxReady /\ "rx" \in ier =>
        pending \/ gpc \in {"isr", "drain", "tx", "put"}

\* As long as no clear overlapped an output, the console holds the first
\* bytes the guest has written since it was cleared, as many as fit.
ConsoleIsOutput ==
    ~raced /\ gpc # "put" =>
        /\ conPos = IF Len(out) < ConSize THEN Len(out) ELSE ConSize - 1
        /\ \A i \in 1 .. conPos : clearing \/ conBuf[i - 1] = out[i]

\* vm_step_until misses nothing: what it has searched holds no occurrence of
\* the pattern in the output since its call, wherever the batches ended and
\* however they cut the pattern.  Only an occurrence near the very start of
\* the buffer, less than a pattern's length from it, may escape.
SearchComplete ==
    upc = "step" /\ clean /\ ~clearing /\ gpc # "put" /\ ~raced =>
        \A i \in start .. from :
            i + PatLen <= from /\ i >= PatLen - 1 => ~Match(i)

\* What is typed and accepted is read, unless the guest disables the
\* interrupt.
InputIsRead ==
    (Len(got) < Len(accepted)) ~> (got = accepted \/ "rx" \notin ier)

=============================================================================
