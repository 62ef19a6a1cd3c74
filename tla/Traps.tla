------------------------------- MODULE Traps -------------------------------
(***************************************************************************)
(* Traps of the emulated hart: interrupts and exceptions, their delivery   *)
(* to S- or M-mode, the returns SRET and MRET and the writes of the        *)
(* registers that govern them (rv64_cpu.c), and the PLIC and the CLINT,    *)
(* from which the interrupts come (rv64_bus.c).                            *)
(*                                                                         *)
(* mstatus holds one saved context for each of the two modes.  A trap puts *)
(* the interrupted context there; the guest's handler returns to it, or    *)
(* saves it elsewhere and then writes mstatus.  The variables sFrame and   *)
(* mFrame remember the context for as long as only the hart keeps it.      *)
(* Whether an exception is delegated (medeleg) is left open.  The code     *)
(* lets any mode write any register; the guest's user programs write none. *)
(***************************************************************************)
EXTENDS Naturals, Sequences

CONSTANTS
    Lines,      \* the interrupt lines this instance uses, of Order
    Irqs,       \* PLIC sources
    None        \* no context

\* The order in which check_interrupts looks at the lines.
Order == <<"MEI", "MSI", "MTI", "SEI", "SSI", "STI">>
MLevel == {"MEI", "MSI", "MTI"}
Timers == Lines \cap {"MTI", "STI"}
Contexts == {"M", "S"}  \* of the PLIC
Privs == {"U", "S", "M"}

ASSUME TrapsAssumption ==
    /\ Lines \subseteq {Order[i] : i \in 1 .. 6}
    /\ Irqs \subseteq Nat \ {0}
    /\ None \notin [priv : Privs, ie : BOOLEAN]

VARIABLES
    priv,
    sie, spie, spp,     \* mstatus: SIE, SPIE, SPP
    mie, mpie, mpp,     \* mstatus: MIE, MPIE, MPP
    enabled,            \* the mie register
    mip,                \* the mip register
    deleg,              \* the mideleg register
    due,                \* timers whose compare value mtime has reached
    plic,               \* PLIC: the pending sources
    plicEnable,         \* PLIC: the sources enabled for each context
    sFrame, mFrame      \* the interrupted context: [priv, ie], or None

status == <<sie, spie, spp, mie, mpie, mpp>>
irqs   == <<enabled, mip, deleg, due>>
pl     == <<plic, plicEnable>>
frames == <<sFrame, mFrame>>
vars   == <<priv, status, irqs, pl, frames>>

Init ==
    /\ priv = "M"
    /\ sie = FALSE /\ spie = FALSE /\ spp = "U"
    /\ mie = FALSE /\ mpie = FALSE /\ mpp = "U"
    /\ enabled = {} /\ mip = {} /\ deleg = {} /\ due = {}
    /\ plic = {} /\ plicEnable = [x \in Contexts |-> {}]
    /\ sFrame = None /\ mFrame = None

-----------------------------------------------------------------------------
(* trap().                                                                 *)

\* The context a trap has to keep: the interrupted one, unless that one is
\* itself a handler whose own context is still only in mstatus.
Kept(frame, ie) == IF frame = None THEN [priv |-> priv, ie |-> ie] ELSE frame

\* Mutant: the handler starts with interrupts as they were.
MutTrapS ==
    /\ spie' = sie /\ sie' = sie /\ spp' = priv
    /\ priv' = "S"
    /\ sFrame' = Kept(sFrame, sie)
    /\ UNCHANGED <<mie, mpie, mpp, mFrame>>

TrapS ==
    /\ spie' = sie /\ sie' = FALSE /\ spp' = priv
    /\ priv' = "S"
    /\ sFrame' = Kept(sFrame, sie)
    /\ UNCHANGED <<mie, mpie, mpp, mFrame>>

TrapM ==
    /\ mpie' = mie /\ mie' = FALSE /\ mpp' = priv
    /\ priv' = "M"
    /\ mFrame' = Kept(mFrame, mie)
    /\ UNCHANGED <<sie, spie, spp, sFrame>>

\* A trap from M-mode stays there; one from below goes to S-mode if delegated.
TrapTo(delegated) == IF priv # "M" /\ delegated THEN TrapS ELSE TrapM

\* An exception.  A handler whose context is only in mstatus causes none of
\* the kind that would come back to its own mode.
Exception(delegated) ==
    /\ IF priv # "M" /\ delegated THEN sFrame = None ELSE mFrame = None
    /\ TrapTo(delegated)
    /\ UNCHANGED <<irqs, pl>>

-----------------------------------------------------------------------------
(* check_interrupts().                                                     *)

\* The sources a context of the PLIC may claim.
Claimable(x) == plic \cap plicEnable[x]

\* mip as the check sees it: MTIP and SEIP follow their level, STIP is only
\* ever set here, and only the S-mode context of the PLIC counts.
Sampled ==
    (mip \ {"MTI", "SEI"})
    \cup due
    \cup (IF Claimable("S") # {} THEN {"SEI"} \cap Lines ELSE {})

\* Mutant: an S-level line is taken in S-mode whether or not SIE is set.
MutTakes(l) ==
    /\ l \in Sampled \cap enabled
    /\ \/ l \in MLevel \ deleg /\ (priv # "M" \/ mie)
       \/ l \in deleg /\ priv # "M"

\* A line may interrupt: an M-level one that is not delegated below M-mode or
\* under MIE, a delegated one in U-mode or in S-mode under SIE.
Takes(l) ==
    /\ l \in Sampled \cap enabled
    /\ \/ l \in MLevel \ deleg /\ (priv # "M" \/ mie)
       \/ l \in deleg /\ (priv = "U" \/ (priv = "S" /\ sie))

\* The first line, in the order of priority, that may interrupt.
First(l) ==
    /\ Takes(l)
    /\ \A i, j \in 1 .. 6 : Order[j] = l /\ i < j => ~Takes(Order[i])

CheckInterrupts ==
    /\ mip' = Sampled
    /\ \/ \E l \in Lines : First(l) /\ TrapTo(l \in deleg)
       \/ (\A l \in Lines : ~Takes(l)) /\ UNCHANGED <<priv, status, frames>>
    /\ UNCHANGED <<enabled, deleg, due, pl>>

-----------------------------------------------------------------------------
(* Instructions of the guest.                                              *)

Mret ==
    /\ priv = "M"
    /\ mie' = mpie /\ mpie' = TRUE /\ mpp' = "U"
    /\ priv' = mpp
    /\ mFrame' = None
    /\ UNCHANGED <<sie, spie, spp, sFrame, irqs, pl>>

\* Mutant: SRET keeps interrupts off.
MutSret ==
    /\ priv # "U"
    /\ sie' = FALSE /\ spie' = TRUE /\ spp' = "U"
    /\ priv' = spp
    /\ sFrame' = None
    /\ mFrame' = IF priv = "M" THEN None ELSE mFrame
    /\ UNCHANGED <<mie, mpie, mpp, irqs, pl>>

\* SRET, also in M-mode, which then has left its handler.
Sret ==
    /\ priv # "U"
    /\ sie' = spie /\ spie' = TRUE /\ spp' = "U"
    /\ priv' = spp
    /\ sFrame' = None
    /\ mFrame' = IF priv = "M" THEN None ELSE mFrame
    /\ UNCHANGED <<mie, mpie, mpp, irqs, pl>>

\* A write of sstatus: from here on the guest looks after its context.
WriteSstatus(s) ==
    /\ priv # "U"
    /\ sie' = s.ie /\ spie' = s.pie /\ spp' = s.pp
    /\ sFrame' = None
    /\ UNCHANGED <<priv, mie, mpie, mpp, mFrame, irqs, pl>>

\* A write of mstatus by the firmware: the bits of both modes.
WriteMstatus(s, m) ==
    /\ priv = "M"
    /\ sie' = s.ie /\ spie' = s.pie /\ spp' = s.pp
    /\ mie' = m.ie /\ mpie' = m.pie /\ mpp' = m.pp
    /\ sFrame' = None /\ mFrame' = None
    /\ UNCHANGED <<priv, irqs, pl>>

\* Writes of mie and mideleg, and of mip, the only way to raise a software
\* interrupt: the CLINT's msip is not there.
WriteMie(E) ==
    /\ priv = "M" /\ enabled' = E
    /\ UNCHANGED <<priv, status, mip, deleg, due, pl, frames>>

WriteMideleg(E) ==
    /\ priv = "M" /\ deleg' = E
    /\ UNCHANGED <<priv, status, enabled, mip, due, pl, frames>>

WriteMip(E) ==
    /\ priv = "M" /\ mip' = E
    /\ UNCHANGED <<priv, status, enabled, deleg, due, pl, frames>>

\* sie and sip are the delegated parts of mie and mip, each of which a write
\* replaces.
Delegated(old, new) == (old \ deleg) \cup (new \cap deleg)

WriteSie(E) ==
    /\ priv # "U" /\ enabled' = Delegated(enabled, E)
    /\ UNCHANGED <<priv, status, mip, deleg, due, pl, frames>>

WriteSip(E) ==
    /\ priv # "U" /\ mip' = Delegated(mip, E)
    /\ UNCHANGED <<priv, status, enabled, deleg, due, pl, frames>>

-----------------------------------------------------------------------------
(* The timers: those of due have mtime at or beyond their compare value.   *)

\* mtime changes: the run loop sets it from the host's clock, the guest writes
\* it in the CLINT, and the one overrides the other; mip is left to the check.
SetMtime(D) ==
    /\ due' = D
    /\ UNCHANGED <<priv, status, enabled, mip, deleg, pl, frames>>

\* A write of mtimecmp, or of stimecmp, which also withdraws what is pending.
WriteTimecmp(l, d) ==
    /\ priv # "U"
    /\ due' = IF d THEN due \cup {l} ELSE due \ {l}
    /\ mip' = IF l = "STI" THEN mip \ {l} ELSE mip
    /\ UNCHANGED <<priv, status, enabled, deleg, pl, frames>>

-----------------------------------------------------------------------------
(* The PLIC.                                                               *)

RaiseIrq(i) ==
    /\ plic' = plic \cup {i}
    /\ UNCHANGED <<priv, status, irqs, plicEnable, frames>>

WritePlicEnable(x, E) ==
    /\ priv # "U"
    /\ plicEnable' = [plicEnable EXCEPT ![x] = E]
    /\ UNCHANGED <<priv, status, irqs, plic, frames>>

\* A claim returns the pending source, enabled for the context, that has the
\* lowest number; priorities and thresholds are stored and never read.
Winner(x) == CHOOSE i \in Claimable(x) : \A j \in Claimable(x) : i <= j

Claim(x) ==
    /\ priv # "U" /\ Claimable(x) # {}
    /\ plic' = plic \ {Winner(x)}
    /\ UNCHANGED <<priv, status, irqs, plicEnable, frames>>

-----------------------------------------------------------------------------
\* What a guest writes to the three bits of a mode in mstatus.
SBits == [ie : BOOLEAN, pie : BOOLEAN, pp : {"U", "S"}]
MBits == [ie : BOOLEAN, pie : BOOLEAN, pp : Privs]

\* Writes of the registers that say which interrupts there are.
WriteIrqs(E) ==
    WriteMie(E) \/ WriteMideleg(E) \/ WriteMip(E) \/ WriteSie(E) \/ WriteSip(E)

Next ==
    \/ \E d \in BOOLEAN : Exception(d)
    \/ CheckInterrupts
    \/ Mret \/ Sret
    \/ \E s \in SBits : WriteSstatus(s)
    \/ \E s \in SBits, m \in MBits : WriteMstatus(s, m)
    \/ \E E \in SUBSET Lines : WriteIrqs(E)
    \/ \E D \in SUBSET Timers : SetMtime(D)
    \/ \E l \in Timers, d \in BOOLEAN : WriteTimecmp(l, d)
    \/ \E i \in Irqs : RaiseIrq(i)
    \/ \E x \in Contexts, E \in SUBSET Irqs : WritePlicEnable(x, E)
    \/ \E x \in Contexts : Claim(x)

Spec == Init /\ [][Next]_vars

-----------------------------------------------------------------------------
Frame == [priv : Privs, ie : BOOLEAN]

\* Every variable stays in its type; S-mode never saves M-mode's context.
TypeOK ==
    /\ priv \in Privs
    /\ sie \in BOOLEAN /\ spie \in BOOLEAN /\ spp \in {"U", "S"}
    /\ mie \in BOOLEAN /\ mpie \in BOOLEAN /\ mpp \in Privs
    /\ enabled \subseteq Lines /\ mip \subseteq Lines
    /\ deleg \subseteq Lines /\ due \subseteq Timers
    /\ plic \subseteq Irqs /\ plicEnable \in [Contexts -> SUBSET Irqs]
    /\ sFrame \in Frame \cup {None} /\ mFrame \in Frame \cup {None}

\* The interrupted context is still in mstatus: no interrupt is taken on top
\* of a handler that has not saved it, whatever M-mode traps come between.
SContextKept == sFrame # None => spp = sFrame.priv /\ spie = sFrame.ie
MContextKept == mFrame # None => mpp = mFrame.priv /\ mpie = mFrame.ie
ContextsKept == SContextKept /\ MContextKept

\* Why they are kept: a handler runs with its interrupts off, and what
\* interrupts an S-mode handler is M-mode, which returns to it.
HandlersMasked ==
    /\ sFrame # None =>
          /\ ~sie
          /\ priv = "S" \/ (priv = "M" /\ mFrame # None /\ mFrame.priv = "S")
    /\ mFrame # None => priv = "M" /\ ~mie

\* A return from a trap resumes the interrupted mode with its interrupts as
\* they were.
ReturnResumes ==
    [][/\ Sret /\ sFrame # None /\ priv = "S" =>
             priv' = sFrame.priv /\ sie' = sFrame.ie
       /\ Mret /\ mFrame # None =>
             priv' = mFrame.priv /\ mie' = mFrame.ie]_vars

=============================================================================
