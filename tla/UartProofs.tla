----------------------------- MODULE UartProofs -----------------------------
(***************************************************************************)
(* Proofs about Uart, for every size of the ring and of the console and    *)
(* for every pattern: type correctness, that the receive ring is a queue,  *)
(* that input is announced, that the console holds the guest's output and  *)
(* that vm_step_until misses no occurrence of its pattern.                 *)
(***************************************************************************)
EXTENDS Uart, TLAPS

-----------------------------------------------------------------------------
(* Indices of the ring.                                                    *)

\* A remainder and its quotient.
LEMMA ModDef ==
    ASSUME NEW a \in Nat, NEW b \in Nat \ {0}
    PROVE  /\ a \div b \in Nat /\ a % b \in 0 .. (b - 1)
           /\ a = (b * (a \div b)) + (a % b)
  BY SMT

\* Below twice the size, wrapping is one subtraction.
LEMMA Wrap ==
    ASSUME NEW b \in Nat \ {0}, NEW a \in 0 .. (2 * b - 1)
    PROVE  a % b = IF a < b THEN a ELSE a - b
<1> DEFINE q == a \div b
           r == a % b
<1>0. a \in Nat
  OBVIOUS
<1>1. q \in Nat /\ r \in 0 .. (b - 1) /\ a = (b * q) + r
  BY <1>0, ModDef
<1> HIDE DEF q, r
<1>2. CASE q = 0
  BY <1>1, <1>2 DEF r
<1>3. CASE q = 1
  BY <1>1, <1>3 DEF r
<1>4. CASE q > 1
  <2>1. PICK p \in Nat : q = 2 + p
    <3>1. q - 2 \in Nat /\ q = 2 + (q - 2)
      BY <1>1, <1>4
    <3> QED
      BY <3>1
  <2>2. b * q = 2 * b + b * p /\ b * p \in Nat
    BY <2>1
  <2> QED
    BY <1>1, <2>2
<1> QED
  BY <1>1, <1>2, <1>3, <1>4

\* The slot behind a slot.
LEMMA Next1Slot ==
    ASSUME NEW i \in Slots
    PROVE  Next1(i) \in Slots /\ Next1(i) = IF i = RingSize - 1 THEN 0 ELSE i + 1
<1> DEFINE j == i + 1
<1>1. RingSize \in Nat \ {0} /\ i \in Nat /\ j \in 0 .. (2 * RingSize - 1)
  BY UartAssumption DEF Slots
<1> HIDE DEF j
<1>2. j % RingSize = IF j < RingSize THEN j ELSE j - RingSize
  BY <1>1, Wrap
<1> QED
  BY <1>1, <1>2 DEF Next1, Slots, j

-----------------------------------------------------------------------------
(* Type correctness.                                                       *)

\* The types, and that what the driver is about to write back it has read.
Typed ==
    /\ TypeOK
    /\ gpc = "put" => echoed < Len(got)

\* There is a first cell and a NUL byte.
LEMMA ZeroFits == 0 \in Cells /\ 0 \in Bytes
  BY UartAssumption DEF Cells, Bytes

\* The first state has the types.
LEMMA InitTyped == Init => Typed
  BY UartAssumption DEF Init, Typed, TypeOK, Slots, Bytes, Cells

\* Every step keeps the types.
LEMMA NextTyped == Typed /\ [Next]_vars => Typed'
<1> SUFFICES ASSUME Typed, [Next]_vars PROVE Typed'
  OBVIOUS
<1>1. CASE Rx
  <2>1. Next1(rxHead) \in Slots /\ sent + 1 \in Bytes
    BY <1>1, UartAssumption, Next1Slot DEF Rx, Typed, TypeOK, Bytes
  <2>2. /\ rxBuf' \in [Slots -> Bytes] /\ rxHead' \in Slots /\ rxReady' \in BOOLEAN
        /\ accepted' \in Seq(Bytes) /\ sent' \in Bytes /\ pending' \in BOOLEAN
    <3>1. CASE Next1(rxHead) # rxTail
      <4>1. /\ rxBuf' = [rxBuf EXCEPT ![rxHead] = sent + 1] /\ rxHead' = Next1(rxHead)
            /\ rxReady' = TRUE /\ accepted' = Append(accepted, sent + 1)
            /\ sent' = sent + 1 /\ pending' = TRUE
        BY <1>1, <3>1 DEF Rx
      <4>2. accepted' \in Seq(Bytes)
        BY <2>1, <4>1 DEF Typed, TypeOK
      <4> QED
        BY <2>1, <4>1, <4>2 DEF Typed, TypeOK
    <3>2. CASE Next1(rxHead) = rxTail
      BY <1>1, <2>1, <3>2 DEF Rx, Typed, TypeOK, ring
    <3> QED
      BY <3>1, <3>2
  <2> QED
    BY <1>1, <2>2 DEF Rx, Typed, TypeOK, guest, console, search
<1>2. CASE Claim
  BY <1>2 DEF Claim, Goto, Typed, TypeOK, ring, console, search, input
<1>3. CASE ReadIir
  BY <1>3 DEF ReadIir, Typed, TypeOK, ring, console, search, input
<1>4. CASE Drain
  <2>1. Next1(rxTail) \in Slots /\ rxBuf[rxTail] \in Bytes
    BY Next1Slot DEF Typed, TypeOK
  <2> QED
    BY <1>4, <2>1 DEF Drain, LoadRbr, Typed, TypeOK, lines, guest, console, search
<1>5. CASE Drained
  BY <1>5 DEF Drained, Goto, Typed, TypeOK, ring, lines, console, search, input
<1>6. CASE TxRead
  BY <1>6 DEF TxRead, Goto, Typed, TypeOK, ring, lines, search, input
<1>7. CASE TxPut
  <2>1. got[echoed + 1] \in Bytes
    <3>1. got \in Seq(Bytes) /\ echoed + 1 \in 1 .. Len(got)
      BY <1>7 DEF TxPut, Goto, Typed, TypeOK
    <3> QED
      BY <3>1
  <2>2. conBuf' \in [Cells -> Bytes] /\ conPos' \in Cells
    <3>1. CASE txPos < ConSize - 1
      <4>1. txPos + 1 \in Cells
        BY <3>1, UartAssumption DEF Typed, TypeOK, Cells
      <4> QED
        BY <1>7, <2>1, <3>1, <4>1, ZeroFits DEF TxPut, PutByte, Typed, TypeOK
    <3>2. CASE ~(txPos < ConSize - 1)
      BY <1>7, <3>2 DEF TxPut, PutByte, Typed, TypeOK
    <3> QED
      BY <3>1, <3>2
  <2>3. pending' \in BOOLEAN
    BY <1>7 DEF TxPut, Raise
  <2> QED
    BY <1>7, <2>1, <2>2, <2>3 DEF TxPut, Goto, Typed, TypeOK, ring, search, input
<1>8. CASE TxStop
  BY <1>8 DEF TxStop, Goto, StoreIer, Raise, Typed, TypeOK, ring, console, search, input
<1>9. CASE Eoi
  BY <1>9 DEF Eoi, Goto, Typed, TypeOK, ring, lines, console, search, input
<1>10. ASSUME NEW e \in SUBSET {"rx", "thre"}, SetIer(e) PROVE Typed'
  BY <1>10 DEF SetIer, StoreIer, Raise, Typed, TypeOK, ring, console, search, input
<1>11. CASE SelectDivisor
  <2>1. pending' \in BOOLEAN
    BY <1>11 DEF SelectDivisor, StoreLcr, Raise
  <2> QED
    BY <1>11, <2>1 DEF SelectDivisor, StoreLcr, Goto, Typed, TypeOK, ring, console, search, input
<1>12. CASE DeselectDivisor
  <2>1. pending' \in BOOLEAN
    BY <1>12 DEF DeselectDivisor, StoreLcr, Raise
  <2> QED
    BY <1>12, <2>1 DEF DeselectDivisor, StoreLcr, Goto, Typed, TypeOK, ring, console, search, input
<1>13. CASE ClearPos
  <2>1. raced' \in BOOLEAN
    BY <1>13 DEF ClearPos
  <2>2. out' \in Seq(Bytes) /\ conPos' \in Cells /\ clearing' \in BOOLEAN /\ clean' \in BOOLEAN
    <3>1. out' = <<>> /\ conPos' = 0 /\ clearing' = TRUE /\ clean' = FALSE
      BY <1>13, Zenon DEF ClearPos
    <3>2. out' \in Seq(Bytes)
      BY <3>1
    <3> QED
      BY <3>1, <3>2, ZeroFits, Zenon
  <2>3. UNCHANGED <<ring, lines, guest, conBuf, txPos, upc, from, start, input>>
    BY <1>13 DEF ClearPos
  <2> QED
    BY <2>1, <2>2, <2>3 DEF Typed, TypeOK, ring, lines, guest, input
<1>14. CASE ClearBuf
  BY <1>14, ZeroFits DEF ClearBuf, Typed, TypeOK, ring, lines, guest, search, input
<1>15. CASE StepUntil
  BY <1>15 DEF StepUntil, Typed, TypeOK, ring, lines, guest, console, input
<1>16. CASE Scan
  BY <1>16 DEF Scan, Typed, TypeOK, ring, lines, guest, console, input
<1>17. CASE UNCHANGED vars
  BY <1>17 DEF vars, Typed, TypeOK, ring, lines, guest, console, search, input
<1> QED
  BY <1>1, <1>2, <1>3, <1>4, <1>5, <1>6, <1>7, <1>8, <1>9, <1>10, <1>11, <1>12,
     <1>13, <1>14, <1>15, <1>16, <1>17 DEF Next, Driver

\* Every variable of the UART and the console stays in its type: no index
\* leaves its buffer, and console_pos never reaches the last cell's end.
THEOREM UartTypeCorrect == Spec => []TypeOK
<1>1. Typed => TypeOK
  BY DEF Typed
<1> QED
  BY <1>1, InitTyped, NextTyped, PTL DEF Spec

-----------------------------------------------------------------------------
(* Input is announced.                                                     *)

\* The step of every action; a store to a register of the UART is announced
\* by the check behind it, a byte by rv64_uart_rx itself.
LEMMA NextAnnounced == TypeOK /\ InputAnnounced /\ [Next]_vars => InputAnnounced'
<1> SUFFICES ASSUME TypeOK, InputAnnounced, [Next]_vars, rxReady', "rx" \in ier'
             PROVE  pending' \/ gpc' \in {"isr", "drain", "tx", "put"}
  BY DEF InputAnnounced
<1>1. CASE Rx
  BY <1>1 DEF Rx
<1>2. CASE Claim
  BY <1>2 DEF Claim, Goto
<1>3. CASE ReadIir
  BY <1>3 DEF ReadIir, Iir, ring
<1>4. CASE Drain
  BY <1>4 DEF Drain, guest
<1>5. CASE Drained \/ TxRead \/ TxPut \/ TxStop
  BY <1>5 DEF Drained, TxRead, TxPut, TxStop, Goto
<1>6. CASE Eoi
  <2>1. gpc = "eoi" /\ pending' = pending /\ rxReady' = rxReady /\ ier' = ier
    BY <1>6, Zenon DEF Eoi, Goto, ring, lines
  <2> QED
    BY <2>1 DEF InputAnnounced
<1>7. CASE SelectDivisor \/ DeselectDivisor \/ \E e \in SUBSET {"rx", "thre"} : SetIer(e)
  <2>1. Raise /\ rxReady' = rxReady
    BY <1>7, Zenon DEF SelectDivisor, DeselectDivisor, SetIer, StoreIer, StoreLcr, ring
  <2> QED
    BY <2>1 DEF Raise
<1>8. CASE ClearPos \/ ClearBuf \/ StepUntil \/ Scan \/ UNCHANGED vars
  <2>1. gpc' = gpc /\ pending' = pending /\ rxReady' = rxReady /\ ier' = ier
    BY <1>8, Zenon DEF ClearPos, ClearBuf, StepUntil, Scan, vars, ring, lines, guest
  <2> QED
    BY <2>1 DEF InputAnnounced
<1> QED
  BY <1>1, <1>2, <1>3, <1>4, <1>5, <1>6, <1>7, <1>8 DEF Next, Driver

\* A byte in the ring that the guest wants to hear of is announced or about
\* to be found, whenever it arrived.
THEOREM InputIsAnnounced == Spec => []InputAnnounced
<1>1. Init => InputAnnounced
  BY DEF Init, InputAnnounced
<1> QED
  BY <1>1, UartTypeCorrect, NextAnnounced, PTL DEF Spec

-----------------------------------------------------------------------------
(* The console.                                                            *)

\* What makes ConsoleIsOutput inductive: pg_uart_tx's copy of console_pos is
\* current unless a clear came between, and between the two steps of a clear
\* nothing has been written.
ConsoleInv ==
    ~raced =>
        /\ conPos = IF Len(out) < ConSize THEN Len(out) ELSE ConSize - 1
        /\ \A i \in 1 .. conPos : conBuf[i - 1] = out[i]
        /\ gpc = "put" => txPos = conPos /\ ~clearing
        /\ clearing => out = <<>>

\* Actions that touch neither the console nor the place of the output.
LEMMA SameConsole ==
    ASSUME ConsoleInv, UNCHANGED console, gpc' = "put" => gpc = "put"
    PROVE  ConsoleInv'
  BY DEF ConsoleInv, console

\* The step of every action.
LEMMA NextConsole == Typed /\ ConsoleInv /\ [Next]_vars => ConsoleInv'
<1> SUFFICES ASSUME Typed, ConsoleInv, [Next]_vars PROVE ConsoleInv'
  OBVIOUS
<1>1. CASE TxRead
  <2>1. /\ gpc = "tx" /\ gpc' = "put" /\ txPos' = conPos /\ raced' = (raced \/ clearing)
        /\ UNCHANGED <<conBuf, conPos, clearing, out>>
    BY <1>1, Zenon DEF TxRead, Goto
  <2> QED
    BY <2>1 DEF ConsoleInv
<1>2. CASE TxPut
  <2> DEFINE b == got[echoed + 1]
  <2>1. SUFFICES ASSUME ~raced'
                 PROVE  /\ conPos' = IF Len(out') < ConSize THEN Len(out') ELSE ConSize - 1
                        /\ \A i \in 1 .. conPos' : conBuf'[i - 1] = out'[i]
                        /\ gpc' # "put" /\ ~clearing'
    BY DEF ConsoleInv
  <2>2. ~raced /\ ~clearing /\ ~clearing'
    BY <1>2, <2>1, Zenon DEF TxPut
  <2>3. /\ gpc = "put" /\ gpc' = "isr" /\ out' = Append(out, b) /\ PutByte(b)
    BY <1>2 DEF TxPut, Goto
  <2>4. /\ txPos = conPos /\ conPos \in 0 .. (ConSize - 1) /\ ConSize \in Nat \ {0}
        /\ conPos = IF Len(out) < ConSize THEN Len(out) ELSE ConSize - 1
        /\ out \in Seq(Bytes) /\ conBuf \in [Cells -> Bytes]
        /\ \A i \in 1 .. conPos : conBuf[i - 1] = out[i]
    BY <2>2, <2>3, UartAssumption DEF ConsoleInv, Typed, TypeOK, Cells
  <2>5. b \in Bytes
    <3>1. got \in Seq(Bytes) /\ echoed + 1 \in 1 .. Len(got)
      BY <2>3 DEF Typed, TypeOK
    <3> QED
      BY <3>1
  <2> HIDE DEF b
  <2>6. /\ Len(out') = Len(out) + 1 /\ out'[Len(out) + 1] = b
        /\ \A i \in 1 .. Len(out) : out'[i] = out[i]
    BY <2>3, <2>4, <2>5
  <2>7. CASE txPos < ConSize - 1
    <3>1. conPos' = txPos + 1 /\ conPos = Len(out) /\ Len(out) + 1 < ConSize
      BY <2>3, <2>4, <2>7 DEF PutByte
    <3>2. ASSUME NEW i \in 1 .. conPos' PROVE conBuf'[i - 1] = out'[i]
      <4>1. i - 1 \in Cells /\ conBuf'[i - 1] = IF i - 1 = txPos THEN b ELSE conBuf[i - 1]
        BY <2>3, <2>4, <2>7, <3>1 DEF PutByte, Cells
      <4>2. CASE i = conPos'
        BY <2>4, <2>6, <3>1, <4>1, <4>2
      <4>3. CASE i # conPos'
        <5>1. i \in 1 .. conPos /\ i \in 1 .. Len(out) /\ i - 1 # txPos
          BY <2>4, <3>1, <4>3
        <5> QED
          BY <2>4, <2>6, <4>1, <5>1
      <4> QED
        BY <4>2, <4>3
    <3> QED
      BY <2>2, <2>3, <2>4, <2>6, <3>1, <3>2
  <2>8. CASE ~(txPos < ConSize - 1)
    <3>1. conPos' = conPos /\ conBuf' = conBuf
      BY <2>3, <2>8 DEF PutByte
    <3>2. conPos = ConSize - 1 /\ conPos <= Len(out) /\ Len(out) \in Nat
      BY <2>4, <2>8
    <3> QED
      BY <2>2, <2>3, <2>4, <2>6, <3>1, <3>2
  <2> QED
    BY <2>7, <2>8
<1>3. CASE ClearPos
  <2>1. conPos' = 0 /\ out' = <<>> /\ raced' = (gpc = "put") /\ gpc' = gpc
    BY <1>3, Zenon DEF ClearPos, guest
  <2>2. gpc' = "put" => raced'
    BY <2>1, Zenon
  <2>3. Len(out') = 0 /\ 0 < ConSize
    BY <2>1, UartAssumption
  <2> QED
    BY <2>1, <2>2, <2>3 DEF ConsoleInv
<1>4. CASE ClearBuf
  <2>1. /\ clearing /\ ~clearing' /\ UNCHANGED <<gpc, conPos, txPos, out, raced>>
    BY <1>4, Zenon DEF ClearBuf, guest
  <2>2. SUFFICES ASSUME ~raced PROVE conPos = 0 /\ out = <<>> /\ gpc # "put"
    BY <2>1, UartAssumption DEF ConsoleInv
  <2> QED
    BY <2>1, <2>2, UartAssumption DEF ConsoleInv
<1>5. CASE \/ Rx \/ Claim \/ ReadIir \/ Drain \/ Drained \/ TxStop \/ Eoi \/ SelectDivisor
           \/ DeselectDivisor \/ (\E e \in SUBSET {"rx", "thre"} : SetIer(e))
           \/ StepUntil \/ Scan \/ UNCHANGED vars
  <2>1. UNCHANGED console
    BY <1>5, Zenon DEF Rx, Claim, ReadIir, Drain, Drained, TxStop, Eoi, SelectDivisor,
       DeselectDivisor, SetIer, StepUntil, Scan, vars
  <2>2. gpc' = "put" => gpc = "put"
    BY <1>5 DEF Rx, Claim, ReadIir, Drain, Drained, TxStop, Eoi, SelectDivisor,
       DeselectDivisor, SetIer, StepUntil, Scan, vars, Goto, guest
  <2> QED
    BY <2>1, <2>2, SameConsole
<1> QED
  BY <1>1, <1>2, <1>3, <1>4, <1>5 DEF Next, Driver

\* The console holds the beginning of the guest's output, as much as fits,
\* whatever sessions clear, unless a clear and an output overlapped.
THEOREM ConsoleHoldsOutput == Spec => []ConsoleIsOutput
<1>1. Init => ConsoleInv
  BY UartAssumption DEF Init, ConsoleInv
<1>2. ConsoleInv => ConsoleIsOutput
  BY DEF ConsoleInv, ConsoleIsOutput
<1> QED
  BY <1>1, <1>2, InitTyped, NextTyped, NextConsole, PTL DEF Spec

-----------------------------------------------------------------------------
(* The search of vm_step_until.                                            *)

\* What makes SearchComplete inductive: the searched part lies below
\* console_pos, where no output changes it, also while an output is under way.
SearchInv ==
    upc = "step" /\ clean /\ ~raced =>
        /\ from <= conPos
        /\ \A i \in start .. from :
              i + PatLen <= from /\ i >= PatLen - 1 => ~Match(i)

\* The pattern has a length.
LEMMA PatternFacts == PatLen \in Nat \ {0} /\ ConSize \in Nat \ {0}
  BY UartAssumption DEF PatLen

\* Cells below the searched end that stay keep what was found out about them.
LEMMA SearchKept ==
    ASSUME TypeOK, SearchInv, upc' = upc, start' = start, from' = from,
           clean' => clean, raced => raced',
           conPos' \in Nat, conPos <= conPos',
           \A c \in 0 .. (from - 1) : conBuf'[c] = conBuf[c]
    PROVE  SearchInv'
<1> SUFFICES ASSUME upc = "step", clean, ~raced
             PROVE  /\ from <= conPos'
                    /\ \A i \in start .. from :
                          i + PatLen <= from /\ i >= PatLen - 1 => ~Match(i)'
  BY DEF SearchInv
<1>1. from \in Nat /\ conPos \in Nat /\ start \in Nat /\ PatLen \in Nat \ {0}
  BY PatternFacts DEF TypeOK, Cells
<1>2. ASSUME NEW i \in start .. from, i + PatLen <= from, i >= PatLen - 1
      PROVE  ~Match(i)'
  <2>1. PICK k \in 1 .. PatLen : conBuf[i + k - 1] # Pattern[k]
    BY <1>1, <1>2 DEF SearchInv, Match
  <2>2. i + k - 1 \in 0 .. (from - 1)
    BY <1>1, <1>2
  <2>3. conBuf'[i + k - 1] # Pattern[k]
    BY <2>1, <2>2
  <2> QED
    BY <2>1, <2>3 DEF Match
<1>3. from <= conPos
  BY DEF SearchInv
<1> QED
  BY <1>1, <1>2, <1>3

\* The step of every action.
LEMMA NextSearch == Typed /\ ConsoleInv /\ SearchInv /\ [Next]_vars => SearchInv'
<1> SUFFICES ASSUME Typed, ConsoleInv, SearchInv, [Next]_vars PROVE SearchInv'
  OBVIOUS
<1>0. /\ TypeOK /\ conPos \in Nat /\ conPos' \in Nat /\ from \in Nat /\ start \in Nat
      /\ txPos \in Nat
  BY NextTyped, PatternFacts DEF Typed, TypeOK, Cells
<1>1. CASE TxPut
  <2>1. SUFFICES ASSUME upc' = "step", clean', ~raced' PROVE SearchInv'
    BY DEF SearchInv
  <2>2. ~raced /\ gpc = "put" /\ UNCHANGED <<upc, from, start, clean>>
    BY <1>1, <2>1, Zenon DEF TxPut, Goto, search
  <2>3. txPos = conPos /\ from <= conPos
    BY <2>1, <2>2 DEF ConsoleInv, SearchInv
  <2>4. PutByte(got[echoed + 1])
    BY <1>1 DEF TxPut
  <2>5. conPos <= conPos'
    BY <1>0, <2>3, <2>4 DEF PutByte
  <2>6. ASSUME NEW c \in 0 .. (from - 1) PROVE conBuf'[c] = conBuf[c]
    <3>1. c # txPos /\ c # txPos + 1 /\ c \in Cells
      BY <1>0, <2>3, PatternFacts DEF TypeOK, Cells
    <3> QED
      BY <2>4, <3>1 DEF PutByte
  <2> QED
    BY <1>0, <2>1, <2>2, <2>5, <2>6, SearchKept
<1>2. CASE ClearPos
  BY <1>2 DEF ClearPos, SearchInv
<1>3. CASE ClearBuf
  <2>1. SUFFICES ASSUME upc' = "step", clean', ~raced' PROVE SearchInv'
    BY DEF SearchInv
  <2>2. ~raced /\ clearing /\ UNCHANGED <<conPos, raced, upc, from, start, clean>>
    BY <1>3, <2>1, Zenon DEF ClearBuf, search
  <2>3. conPos = 0 /\ from = 0
    BY <1>0, <2>1, <2>2, UartAssumption DEF ConsoleInv, SearchInv
  <2> QED
    BY <1>0, <2>1, <2>2, <2>3, SearchKept
<1>4. CASE StepUntil
  BY <1>0, <1>4, PatternFacts DEF StepUntil, SearchInv, console
<1>5. CASE Scan
  <2>1. SUFFICES ASSUME upc' = "step", clean', ~raced' PROVE SearchInv'
    BY DEF SearchInv
  <2>2. /\ ~raced /\ clean /\ upc = "step"
        /\ UNCHANGED <<conBuf, conPos, raced, start, clean>>
    BY <1>5, <2>1, Zenon DEF Scan, console
  <2>3. CASE ~(conPos > from)
    <3>1. from' = from
      BY <1>5, <2>3 DEF Scan
    <3> QED
      BY <1>0, <2>1, <2>2, <3>1, SearchKept
  <2>4. CASE conPos > from
    <3>1. from' = conPos /\ ~Found
      BY <1>5, <2>1, <2>4 DEF Scan
    <3>2. ASSUME NEW i \in start .. conPos, i + PatLen <= conPos, i >= PatLen - 1
          PROVE  ~Match(i)
      <4>1. i \in Nat /\ PatLen \in Nat \ {0}
        BY <1>0, PatternFacts
      <4>2. CASE i >= ScanFrom
        BY <1>0, <3>1, <3>2, <4>1, <4>2 DEF Found, ScanFrom
      <4>3. CASE ~(i >= ScanFrom)
        <5>1. i \in start .. from /\ i + PatLen <= from
          BY <1>0, <3>2, <4>1, <4>3 DEF ScanFrom
        <5> QED
          BY <2>2, <3>2, <5>1 DEF SearchInv
      <4> QED
        BY <4>2, <4>3
    <3>3. \A i \in start .. conPos : Match(i)' <=> Match(i)
      BY <2>2 DEF Match
    <3> QED
      BY <1>0, <2>2, <3>1, <3>2, <3>3 DEF SearchInv
  <2> QED
    BY <2>3, <2>4
<1>6. CASE \/ Rx \/ Claim \/ ReadIir \/ Drain \/ Drained \/ TxStop \/ Eoi \/ SelectDivisor
           \/ DeselectDivisor \/ (\E e \in SUBSET {"rx", "thre"} : SetIer(e))
           \/ UNCHANGED vars
  <2>1. UNCHANGED <<console, search>>
    BY <1>6, Zenon DEF Rx, Claim, ReadIir, Drain, Drained, TxStop, Eoi, SelectDivisor,
       DeselectDivisor, SetIer, vars
  <2> QED
    BY <1>0, <2>1, SearchKept DEF console, search
<1>7. CASE TxRead
  <2>1. UNCHANGED <<conBuf, conPos, upc, from, start, clean>> /\ (raced => raced')
    BY <1>7, Zenon DEF TxRead, search
  <2> QED
    BY <1>0, <2>1, SearchKept
<1> QED
  BY <1>1, <1>2, <1>3, <1>4, <1>5, <1>6, <1>7 DEF Next, Driver

\* vm_step_until overlooks no occurrence of its pattern, however the batches
\* cut the output, but for one that begins less than a pattern's length from
\* the start of the buffer.
THEOREM SearchMissesNothing == Spec => []SearchComplete
<1>1. Init => ConsoleInv /\ SearchInv
  BY UartAssumption DEF Init, ConsoleInv, SearchInv
<1>2. SearchInv => SearchComplete
  BY DEF SearchInv, SearchComplete
<1> QED
  BY <1>1, <1>2, InitTyped, NextTyped, NextConsole, NextSearch, PTL DEF Spec

-----------------------------------------------------------------------------
(* The receive ring.                                                       *)

\* The number of bytes from index t to index h.
Between(h, t) == (h + RingSize - t) % RingSize

\* The slot of the i-th byte behind index t.
SlotAt(t, i) == (t + i - 1) % RingSize

\* Both without the remainder.
LEMMA BetweenIs ==
    ASSUME NEW h \in Slots, NEW t \in Slots
    PROVE  /\ Between(h, t) \in 0 .. (RingSize - 1)
           /\ Between(h, t) = IF h >= t THEN h - t ELSE h + RingSize - t
<1> DEFINE j == h + RingSize - t
<1>1. RingSize \in Nat \ {0} /\ h \in Nat /\ t \in Nat /\ j \in 0 .. (2 * RingSize - 1)
  BY UartAssumption DEF Slots
<1> HIDE DEF j
<1>2. j % RingSize = IF j < RingSize THEN j ELSE j - RingSize
  BY <1>1, Wrap
<1>3. Between(h, t) = j % RingSize
  BY DEF Between, j
<1> QED
  BY <1>1, <1>2, <1>3 DEF Slots, j

LEMMA SlotAtIs ==
    ASSUME NEW t \in Slots, NEW i \in 1 .. RingSize
    PROVE  /\ SlotAt(t, i) \in Slots
           /\ SlotAt(t, i) = IF t + i - 1 < RingSize THEN t + i - 1 ELSE t + i - 1 - RingSize
<1> DEFINE j == t + i - 1
<1>1. RingSize \in Nat \ {0} /\ i \in Nat /\ t \in Nat /\ j \in 0 .. (2 * RingSize - 1)
  BY UartAssumption DEF Slots
<1> HIDE DEF j
<1>2. j % RingSize = IF j < RingSize THEN j ELSE j - RingSize
  BY <1>1, Wrap
<1>3. SlotAt(t, i) = j % RingSize
  BY DEF SlotAt, j
<1> QED
  BY <1>1, <1>2, <1>3 DEF Slots, j

\* RingIsQueue in these terms.
LEMMA RingTerms ==
    RingIsQueue <=>
        /\ Len(accepted) = Len(got) + Between(rxHead, rxTail)
        /\ \A i \in 1 .. Len(got) : got[i] = accepted[i]
        /\ \A i \in 1 .. Between(rxHead, rxTail) :
              rxBuf[SlotAt(rxTail, i)] = accepted[Len(got) + i]
        /\ rxReady = (Between(rxHead, rxTail) # 0)
  BY DEF RingIsQueue, Filled, Between, SlotAt

\* The byte behind the last goes to the slot at the head, and makes one more.
LEMMA HeadMoves ==
    ASSUME NEW h \in Slots, NEW t \in Slots, Next1(h) # t
    PROVE  /\ Between(Next1(h), t) = Between(h, t) + 1
           /\ SlotAt(t, Between(h, t) + 1) = h
           /\ \A i \in 1 .. Between(h, t) : SlotAt(t, i) # h
<1>1. RingSize \in Nat \ {0, 1} /\ h \in 0 .. (RingSize - 1) /\ t \in 0 .. (RingSize - 1)
  BY UartAssumption DEF Slots
<1>2. Next1(h) \in Slots /\ Next1(h) = IF h = RingSize - 1 THEN 0 ELSE h + 1
  BY Next1Slot
<1>3. /\ Between(h, t) \in 0 .. (RingSize - 1)
      /\ Between(h, t) = IF h >= t THEN h - t ELSE h + RingSize - t
  BY BetweenIs
<1>4. Between(Next1(h), t) = IF Next1(h) >= t THEN Next1(h) - t ELSE Next1(h) + RingSize - t
  BY <1>2, BetweenIs
<1>5. Between(Next1(h), t) = Between(h, t) + 1
  BY <1>1, <1>2, <1>3, <1>4
<1> DEFINE n == Between(h, t)
<1>6. n \in 0 .. (RingSize - 1) /\ n = IF h >= t THEN h - t ELSE h + RingSize - t
  BY <1>3
<1> HIDE DEF n
<1>7. SlotAt(t, n + 1) = h
  <2> DEFINE j == n + 1
  <2>1. j \in 1 .. RingSize /\ j = n + 1
    BY <1>1, <1>6
  <2> HIDE DEF j
  <2>2. SlotAt(t, j) = IF t + j - 1 < RingSize THEN t + j - 1 ELSE t + j - 1 - RingSize
    BY <2>1, SlotAtIs
  <2>3. SlotAt(t, j) = h
    BY <1>1, <1>6, <2>1, <2>2
  <2> QED
    BY <2>3 DEF j
<1>8. ASSUME NEW i \in 1 .. n PROVE SlotAt(t, i) # h
  <2>1. i \in 1 .. RingSize
    BY <1>1, <1>6
  <2>2. SlotAt(t, i) = IF t + i - 1 < RingSize THEN t + i - 1 ELSE t + i - 1 - RingSize
    BY <2>1, SlotAtIs
  <2> QED
    BY <1>1, <1>6, <2>1, <2>2
<1> QED
  BY <1>5, <1>7, <1>8 DEF n

\* The first byte lies in the slot at the tail; without it there is one less
\* and the others move up.
LEMMA TailMoves ==
    ASSUME NEW h \in Slots, NEW t \in Slots, Between(h, t) # 0
    PROVE  /\ Between(h, Next1(t)) = Between(h, t) - 1
           /\ SlotAt(t, 1) = t
           /\ \A i \in 1 .. (Between(h, t) - 1) : SlotAt(Next1(t), i) = SlotAt(t, i + 1)
           /\ h # Next1(t) <=> Between(h, t) - 1 # 0
<1>1. RingSize \in Nat \ {0, 1} /\ h \in 0 .. (RingSize - 1) /\ t \in 0 .. (RingSize - 1)
  BY UartAssumption DEF Slots
<1>2. Next1(t) \in Slots /\ Next1(t) = IF t = RingSize - 1 THEN 0 ELSE t + 1
  BY Next1Slot
<1>3. /\ Between(h, t) \in 0 .. (RingSize - 1)
      /\ Between(h, t) = IF h >= t THEN h - t ELSE h + RingSize - t
  BY BetweenIs
<1>4. Between(h, Next1(t)) = IF h >= Next1(t) THEN h - Next1(t) ELSE h + RingSize - Next1(t)
  BY <1>2, BetweenIs
<1>5. /\ Between(h, Next1(t)) = Between(h, t) - 1
      /\ h # Next1(t) <=> Between(h, t) - 1 # 0
  BY <1>1, <1>2, <1>3, <1>4
<1>6. SlotAt(t, 1) = t
  BY <1>1, SlotAtIs
<1> DEFINE n == Between(h, t)
<1>7. n \in 0 .. (RingSize - 1)
  BY <1>3
<1> HIDE DEF n
<1>8. ASSUME NEW i \in 1 .. (n - 1) PROVE SlotAt(Next1(t), i) = SlotAt(t, i + 1)
  <2> DEFINE j == i + 1
             u == Next1(t)
  <2>1. i \in 1 .. RingSize /\ j \in 1 .. RingSize /\ j = i + 1 /\ u \in Slots
        /\ u = IF t = RingSize - 1 THEN 0 ELSE t + 1
    BY <1>1, <1>2, <1>7
  <2> HIDE DEF j, u
  <2>2. SlotAt(t, j) = IF t + j - 1 < RingSize THEN t + j - 1 ELSE t + j - 1 - RingSize
    BY <2>1, SlotAtIs
  <2>3. SlotAt(u, i) = IF u + i - 1 < RingSize THEN u + i - 1 ELSE u + i - 1 - RingSize
    BY <2>1, SlotAtIs
  <2>4. SlotAt(u, i) = SlotAt(t, j)
    BY <1>1, <2>1, <2>2, <2>3
  <2> QED
    BY <2>4 DEF j, u
<1> QED
  BY <1>5, <1>6, <1>8 DEF n

\* The step of every action.
LEMMA NextRing == TypeOK /\ RingIsQueue /\ [Next]_vars => RingIsQueue'
<1> SUFFICES ASSUME TypeOK, RingIsQueue, [Next]_vars PROVE RingIsQueue'
  OBVIOUS
<1> DEFINE n == Between(rxHead, rxTail)
<1>0. /\ rxHead \in Slots /\ rxTail \in Slots /\ rxBuf \in [Slots -> Bytes]
      /\ accepted \in Seq(Bytes) /\ got \in Seq(Bytes) /\ sent \in Bytes
      /\ RingSize \in Nat \ {0, 1} /\ n \in 0 .. (RingSize - 1)
  BY UartAssumption, BetweenIs DEF TypeOK
<1>i. /\ Len(accepted) = Len(got) + n
      /\ \A i \in 1 .. Len(got) : got[i] = accepted[i]
      /\ \A i \in 1 .. n : rxBuf[SlotAt(rxTail, i)] = accepted[Len(got) + i]
      /\ rxReady = (n # 0)
  BY RingTerms
<1>1. CASE Rx
  <2>1. CASE Next1(rxHead) = rxTail
    <3>1. UNCHANGED <<rxBuf, rxHead, rxTail, rxReady, accepted, got>>
      BY <1>1, <2>1 DEF Rx, ring
    <3> QED
      BY <3>1 DEF RingIsQueue, Filled
  <2>2. CASE Next1(rxHead) # rxTail
    <3> DEFINE b == sent + 1
    <3>1. /\ rxBuf' = [rxBuf EXCEPT ![rxHead] = b] /\ rxHead' = Next1(rxHead)
          /\ rxTail' = rxTail /\ rxReady' = TRUE /\ accepted' = Append(accepted, b)
          /\ got' = got
      BY <1>1, <2>2, Zenon DEF Rx
    <3>2. b \in Bytes
      BY <1>0, <1>1, UartAssumption DEF Rx, Bytes
    <3> HIDE DEF b, n
    <3>3. /\ Between(rxHead', rxTail') = n + 1
          /\ SlotAt(rxTail, n + 1) = rxHead
          /\ \A i \in 1 .. n : SlotAt(rxTail, i) # rxHead
      BY <1>0, <2>2, <3>1, HeadMoves DEF n
    <3>4. /\ Len(accepted') = Len(accepted) + 1
          /\ \A i \in 1 .. Len(accepted) : accepted'[i] = accepted[i]
          /\ accepted'[Len(accepted) + 1] = b
      BY <1>0, <3>1, <3>2
    <3>5. ASSUME NEW i \in 1 .. (n + 1)
          PROVE  rxBuf'[SlotAt(rxTail, i)] = accepted'[Len(got) + i]
      <4>1. SlotAt(rxTail, i) \in Slots
        <5>1. i \in 1 .. RingSize
          BY <1>0
        <5> QED
          BY <1>0, <5>1, SlotAtIs
      <4>2. CASE i = n + 1
        BY <1>0, <1>i, <3>1, <3>3, <3>4, <4>2
      <4>3. CASE i # n + 1
        <5>1. i \in 1 .. n /\ Len(got) + i \in 1 .. Len(accepted)
          BY <1>0, <1>i, <4>3
        <5> QED
          BY <1>0, <1>i, <3>1, <3>3, <3>4, <4>1, <5>1
      <4> QED
        BY <4>2, <4>3
    <3>6. \A i \in 1 .. Len(got) : got[i] = accepted'[i]
      <4>1. Len(got) \in Nat /\ Len(got) <= Len(accepted)
        BY <1>0, <1>i
      <4> QED
        BY <1>0, <1>i, <3>4, <4>1
    <3>7. RingIsQueue' <=>
            /\ Len(accepted') = Len(got') + Between(rxHead', rxTail')
            /\ \A i \in 1 .. Len(got') : got'[i] = accepted'[i]
            /\ \A i \in 1 .. Between(rxHead', rxTail') :
                  rxBuf'[SlotAt(rxTail', i)] = accepted'[Len(got') + i]
            /\ rxReady' = (Between(rxHead', rxTail') # 0)
      BY DEF RingIsQueue, Filled, Between, SlotAt
    <3>8. Len(accepted') = Len(got') + (n + 1)
      BY <1>0, <1>i, <3>1, <3>4
    <3>9. rxReady' = (n + 1 # 0)
      <4>1. n + 1 # 0
        BY <1>0
      <4> QED
        BY <3>1, <4>1, Zenon
    <3> QED
      BY <3>1, <3>3, <3>5, <3>6, <3>7, <3>8, <3>9
  <2> QED
    BY <2>1, <2>2
<1>2. CASE Drain
  <2>1. /\ rxReady /\ got' = Append(got, rxBuf[rxTail]) /\ rxTail' = Next1(rxTail)
        /\ rxReady' = (rxHead # Next1(rxTail))
        /\ UNCHANGED <<rxBuf, rxHead, accepted>>
    BY <1>2, Zenon DEF Drain, LoadRbr
  <2>2. n # 0
    BY <1>i, <2>1
  <2> HIDE DEF n
  <2>3. /\ Between(rxHead', rxTail') = n - 1
        /\ SlotAt(rxTail, 1) = rxTail
        /\ \A i \in 1 .. (n - 1) : SlotAt(rxTail', i) = SlotAt(rxTail, i + 1)
        /\ rxReady' <=> n - 1 # 0
    BY <1>0, <2>1, <2>2, TailMoves DEF n
  <2>4. /\ Len(got') = Len(got) + 1 /\ got'[Len(got) + 1] = rxBuf[rxTail]
        /\ \A i \in 1 .. Len(got) : got'[i] = got[i]
    BY <1>0, <2>1
  <2>5. rxBuf[rxTail] = accepted[Len(got) + 1]
    BY <1>0, <1>i, <2>2, <2>3
  <2>6. ASSUME NEW i \in 1 .. (n - 1)
        PROVE  rxBuf'[SlotAt(rxTail', i)] = accepted'[Len(got') + i]
    <3>1. i + 1 \in 1 .. n
      BY <1>0
    <3>2. rxBuf[SlotAt(rxTail, i + 1)] = accepted[Len(got) + (i + 1)]
      BY <1>i, <3>1
    <3>3. Len(got') + i = Len(got) + (i + 1)
      BY <1>0, <2>4
    <3> QED
      BY <2>1, <2>3, <3>2, <3>3
  <2>7. \A i \in 1 .. Len(got') : got'[i] = accepted'[i]
    BY <1>0, <1>i, <2>1, <2>4, <2>5
  <2>8. Len(accepted') = Len(got') + (n - 1)
    BY <1>0, <1>i, <2>1, <2>4
  <2>9. RingIsQueue' <=>
          /\ Len(accepted') = Len(got') + Between(rxHead', rxTail')
          /\ \A i \in 1 .. Len(got') : got'[i] = accepted'[i]
          /\ \A i \in 1 .. Between(rxHead', rxTail') :
                rxBuf'[SlotAt(rxTail', i)] = accepted'[Len(got') + i]
          /\ rxReady' = (Between(rxHead', rxTail') # 0)
    BY DEF RingIsQueue, Filled, Between, SlotAt
  <2>10. rxReady' = (n - 1 # 0)
    BY <2>1, <2>3
  <2> QED
    BY <2>3, <2>6, <2>7, <2>8, <2>9, <2>10
<1>3. CASE \/ Claim \/ ReadIir \/ Drained \/ TxRead \/ TxPut \/ TxStop \/ Eoi
           \/ SelectDivisor \/ DeselectDivisor
           \/ (\E e \in SUBSET {"rx", "thre"} : SetIer(e))
           \/ ClearPos \/ ClearBuf \/ StepUntil \/ Scan \/ UNCHANGED vars
  <2>1. UNCHANGED <<ring, input>>
    BY <1>3, Zenon DEF Claim, ReadIir, Drained, TxRead, TxPut, TxStop, Eoi, SelectDivisor,
       DeselectDivisor, SetIer, ClearPos, ClearBuf, StepUntil, Scan, vars
  <2> QED
    BY <2>1 DEF RingIsQueue, Filled, ring, input
<1> QED
  BY <1>1, <1>2, <1>3 DEF Next, Driver

\* The guest reads what was typed and accepted, in order and once, also when
\* the indices wrap and when the ring is full; rx_ready tells when there is
\* something.
THEOREM RingIsAQueue == Spec => []RingIsQueue
<1>1. Init => RingIsQueue
  <2> SUFFICES ASSUME Init PROVE RingIsQueue
    OBVIOUS
  <2>1. /\ rxHead = 0 /\ rxTail = 0 /\ rxReady = FALSE /\ accepted = <<>> /\ got = <<>>
        /\ 0 \in Slots
    BY UartAssumption DEF Init, Slots
  <2>2. Between(0, 0) = 0
    BY <2>1, UartAssumption, BetweenIs DEF Slots
  <2>3. rxReady = (Between(rxHead, rxTail) # 0)
    BY <2>1, <2>2, Zenon
  <2>4. /\ Len(accepted) = Len(got) + Between(rxHead, rxTail)
        /\ \A i \in 1 .. Len(got) : got[i] = accepted[i]
        /\ \A i \in 1 .. Between(rxHead, rxTail) :
              rxBuf[SlotAt(rxTail, i)] = accepted[Len(got) + i]
    BY <2>1, <2>2
  <2> QED
    BY <2>3, <2>4, RingTerms, Zenon
<1> QED
  BY <1>1, UartTypeCorrect, NextRing, PTL DEF Spec

=============================================================================
