---------------------------- MODULE TrapsProofs ----------------------------
(***************************************************************************)
(* Traps never overwrite a context that only mstatus holds, for any set of *)
(* lines, any delegation and any PLIC.                                     *)
(***************************************************************************)
EXTENDS Traps, TLAPS

\* What the proofs need of the types: the parts of mstatus and the frames.
StatusOK ==
    /\ priv \in Privs
    /\ sie \in BOOLEAN /\ spie \in BOOLEAN /\ spp \in {"U", "S"}
    /\ mie \in BOOLEAN /\ mpie \in BOOLEAN /\ mpp \in Privs
    /\ sFrame \in Frame \cup {None} /\ mFrame \in Frame \cup {None}

Inv == StatusOK /\ ContextsKept /\ HandlersMasked

\* A context is a frame, and no frame is None.
LEMMA FrameFacts ==
    \A p \in Privs, b \in BOOLEAN :
        /\ [priv |-> p, ie |-> b] \in Frame
        /\ [priv |-> p, ie |-> b] # None
        /\ [priv |-> p, ie |-> b].priv = p
        /\ [priv |-> p, ie |-> b].ie = b
BY TrapsAssumption DEF Frame

\* A trap to S-mode from below M-mode, when mstatus holds no context of its own
\* (or interrupts are on, which says the same), keeps the invariant.
LEMMA TrapSKeeps ==
    ASSUME Inv, TrapS, priv # "M", sFrame = None
    PROVE  Inv'
<1>1. mFrame = None
  BY DEF Inv, HandlersMasked
<1>2. mFrame' = None /\ sFrame' = [priv |-> priv, ie |-> sie]
  BY <1>1 DEF TrapS, Kept
<1>3. sFrame'.priv = priv /\ sFrame'.ie = sie /\ sFrame' # None /\ sFrame' \in Frame
  BY <1>2, FrameFacts DEF Inv, StatusOK
<1>4. StatusOK'
  BY <1>2, <1>3 DEF Inv, StatusOK, TrapS, Privs
<1>5. ContextsKept'
  BY <1>2, <1>3 DEF ContextsKept, SContextKept, MContextKept, TrapS
<1>6. HandlersMasked'
  BY <1>2, <1>3 DEF HandlersMasked, TrapS
<1> QED BY <1>4, <1>5, <1>6 DEF Inv

\* A trap to M-mode, when no M-mode handler is under way, keeps it.
LEMMA TrapMKeeps ==
    ASSUME Inv, TrapM, mFrame = None
    PROVE  Inv'
<1>1. sFrame' = sFrame /\ mFrame' = [priv |-> priv, ie |-> mie]
  BY DEF TrapM, Kept
<1>2. mFrame'.priv = priv /\ mFrame'.ie = mie /\ mFrame' # None /\ mFrame' \in Frame
  BY <1>1, FrameFacts DEF Inv, StatusOK
<1>3. StatusOK'
  BY <1>1, <1>2 DEF Inv, StatusOK, TrapM, Privs
<1>4. ContextsKept'
  BY <1>1, <1>2 DEF Inv, ContextsKept, SContextKept, MContextKept, TrapM
<1>5. HandlersMasked'
  <2>1. mFrame' # None => priv' = "M" /\ ~mie'
    BY DEF TrapM
  <2>2. ASSUME sFrame' # None
        PROVE  /\ ~sie'
               /\ priv' = "M" /\ mFrame' # None /\ mFrame'.priv = "S"
    <3>1. sFrame # None
      BY <1>1, <2>2
    <3>2. ~sie /\ priv = "S"
      BY <3>1 DEF Inv, HandlersMasked
    <3>3. sie' = sie /\ priv' = "M"
      BY DEF TrapM
    <3> QED BY <1>2, <3>2, <3>3
  <2> QED BY <2>1, <2>2 DEF HandlersMasked
<1> QED BY <1>3, <1>4, <1>5 DEF Inv

\* Interrupts meet the conditions of the two lemmas: a line is taken into
\* S-mode only in U-mode or under SIE, into M-mode only below it or under MIE.
LEMMA InterruptKeeps ==
    ASSUME Inv, NEW l \in Lines, Takes(l), TrapTo(l \in deleg)
    PROVE  Inv'
<1>1. CASE priv # "M" /\ l \in deleg
  <2>1. TrapS
    BY <1>1 DEF TrapTo
  <2>2. priv = "U" \/ (priv = "S" /\ sie)
    BY <1>1 DEF Takes
  <2>3. sFrame = None
    BY <2>2 DEF Inv, HandlersMasked
  <2> QED BY <1>1, <2>1, <2>3, TrapSKeeps
<1>2. CASE ~(priv # "M" /\ l \in deleg)
  <2>1. TrapM
    BY <1>2 DEF TrapTo
  <2>2. priv # "M" \/ mie
    BY <1>2 DEF Takes
  <2>3. mFrame = None
    BY <2>2 DEF Inv, HandlersMasked
  <2> QED BY <2>1, <2>3, TrapMKeeps
<1> QED BY <1>1, <1>2

\* The saved contexts stay in mstatus until the guest takes them over.
THEOREM ContextsAreKept == Spec => [](ContextsKept /\ HandlersMasked)
<1>1. Init => Inv
  BY DEF Init, Inv, StatusOK, Privs, ContextsKept, SContextKept, MContextKept,
         HandlersMasked
<1>2. Inv /\ [Next]_vars => Inv'
  <2> SUFFICES ASSUME Inv, [Next]_vars PROVE Inv'
    OBVIOUS
  <2>1. ASSUME NEW d \in BOOLEAN, Exception(d) PROVE Inv'
    BY <2>1, TrapSKeeps, TrapMKeeps DEF Exception, TrapTo
  <2>2. ASSUME UNCHANGED <<priv, status, frames>> PROVE Inv'
    BY <2>2 DEF status, frames, Inv, StatusOK, ContextsKept, SContextKept,
                MContextKept, HandlersMasked
  <2>3. CASE CheckInterrupts
    BY <2>2, <2>3, InterruptKeeps DEF CheckInterrupts, First
  <2>4. CASE Mret
    <3>1. StatusOK'
      BY <2>4 DEF Mret, Inv, StatusOK, Privs
    <3>2. ContextsKept'
      BY <2>4 DEF Mret, Inv, ContextsKept, SContextKept, MContextKept
    <3>3. HandlersMasked'
      <4>1. mFrame' = None /\ sFrame' = sFrame /\ sie' = sie /\ priv' = mpp
        BY <2>4 DEF Mret
      <4>2. sFrame # None => mFrame # None /\ mFrame.priv = "S" /\ ~sie
        BY <2>4 DEF Mret, Inv, HandlersMasked
      <4>3. sFrame # None => mpp = "S"
        BY <4>2 DEF Inv, ContextsKept, MContextKept
      <4> QED BY <4>1, <4>2, <4>3 DEF HandlersMasked
    <3> QED BY <3>1, <3>2, <3>3 DEF Inv
  <2>5. CASE Sret
    <3>1. sFrame' = None /\ mFrame' = None
      BY <2>5 DEF Sret, Inv, HandlersMasked
    <3>2. StatusOK'
      BY <2>5, <3>1 DEF Sret, Inv, StatusOK, Privs
    <3> QED BY <3>1, <3>2 DEF Inv, ContextsKept, SContextKept, MContextKept,
                              HandlersMasked
  <2>6. ASSUME NEW s \in SBits, WriteSstatus(s)
        PROVE  Inv'
    <3>1. /\ sFrame' = None /\ mFrame' = mFrame
          /\ UNCHANGED <<priv, mie, mpie, mpp>>
      BY <2>6 DEF WriteSstatus
    <3>2. StatusOK'
      BY <2>6, <3>1 DEF WriteSstatus, Inv, StatusOK, SBits
    <3> QED BY <3>1, <3>2 DEF Inv, ContextsKept, SContextKept, MContextKept,
                              HandlersMasked
  <2>7. ASSUME NEW s \in SBits, NEW m \in MBits, WriteMstatus(s, m)
        PROVE  Inv'
    <3>1. sFrame' = None /\ mFrame' = None
      BY <2>7 DEF WriteMstatus
    <3>2. StatusOK'
      BY <2>7, <3>1 DEF WriteMstatus, Inv, StatusOK, SBits, MBits
    <3> QED BY <3>1, <3>2 DEF Inv, ContextsKept, SContextKept, MContextKept,
                              HandlersMasked
  <2>8. ASSUME NEW E, WriteIrqs(E)
        PROVE  Inv'
    BY <2>2, <2>8 DEF WriteIrqs, WriteMie, WriteMideleg, WriteMip, WriteSie, WriteSip
  <2>9. ASSUME \/ \E D \in SUBSET Timers : SetMtime(D)
               \/ \E l \in Timers, d \in BOOLEAN : WriteTimecmp(l, d)
               \/ \E i \in Irqs : RaiseIrq(i)
               \/ \E x \in Contexts, E \in SUBSET Irqs : WritePlicEnable(x, E)
               \/ \E x \in Contexts : Claim(x)
               \/ UNCHANGED vars
        PROVE  Inv'
    BY <2>2, <2>9 DEF SetMtime, WriteTimecmp, RaiseIrq, WritePlicEnable, Claim, vars
  <2> QED BY <2>1, <2>3, <2>4, <2>5, <2>6, <2>7, <2>8, <2>9 DEF Next
<1>3. Inv => ContextsKept /\ HandlersMasked
  BY DEF Inv
<1> QED BY <1>1, <1>2, <1>3, PTL DEF Spec

\* In particular no handler is interrupted in its own mode before the guest
\* has taken over its context.
THEOREM HandlersStayMasked == Spec => []HandlersMasked
<1>1. ContextsKept /\ HandlersMasked => HandlersMasked
  OBVIOUS
<1> QED BY <1>1, ContextsAreKept, PTL

\* The registers and devices keep their types: in particular a write of sie or
\* sip touches nothing that is not delegated, and the check adds only lines.
THEOREM TrapsTypeCorrect == Spec => []TypeOK
<1>1. Init => TypeOK
  BY DEF Init, TypeOK, Privs, Timers, Contexts
<1>2. TypeOK /\ [Next]_vars => TypeOK'
  <2> SUFFICES ASSUME TypeOK, [Next]_vars PROVE TypeOK'
    OBVIOUS
  <2> DEFINE IrqsOK == /\ enabled \subseteq Lines /\ mip \subseteq Lines
                       /\ deleg \subseteq Lines /\ due \subseteq Timers
             PlicOK == plic \subseteq Irqs /\ plicEnable \in [Contexts -> SUBSET Irqs]
  <2>0. TypeOK <=> StatusOK /\ IrqsOK /\ PlicOK
    BY DEF TypeOK, StatusOK
  <2>1. StatusOK'
    <3>1. ASSUME UNCHANGED <<priv, status, frames>> PROVE StatusOK'
      BY <2>0, <3>1 DEF status, frames, StatusOK
    <3>2. ASSUME NEW d \in BOOLEAN, TrapTo(d) PROVE StatusOK'
      <4>1. CASE TrapS /\ priv # "M"
        <5>1. sFrame' \in Frame \cup {None} /\ mFrame' = mFrame
          BY <2>0, <4>1, FrameFacts DEF TrapS, Kept, StatusOK
        <5> QED BY <2>0, <4>1, <5>1 DEF TrapS, StatusOK, Privs
      <4>2. CASE TrapM
        <5>1. mFrame' \in Frame \cup {None} /\ sFrame' = sFrame
          BY <2>0, <4>2, FrameFacts DEF TrapM, Kept, StatusOK
        <5> QED BY <2>0, <4>2, <5>1 DEF TrapM, StatusOK, Privs
      <4> QED BY <3>2, <4>1, <4>2 DEF TrapTo
    <3>3. CASE Mret \/ Sret
      BY <2>0, <3>3 DEF Mret, Sret, StatusOK, Privs
    <3>4. CASE \E s \in SBits : WriteSstatus(s)
      BY <2>0, <3>4 DEF WriteSstatus, StatusOK, SBits
    <3>5. CASE \E s \in SBits, m \in MBits : WriteMstatus(s, m)
      BY <2>0, <3>5 DEF WriteMstatus, StatusOK, SBits, MBits
    <3>6. CASE \E d \in BOOLEAN : Exception(d)
      BY <3>2, <3>6 DEF Exception
    <3>7. CASE CheckInterrupts
      <4>1. ASSUME NEW l \in Lines, TrapTo(l \in deleg) PROVE StatusOK'
        <5>1. (l \in deleg) \in BOOLEAN
          OBVIOUS
        <5> QED BY <3>2, <4>1, <5>1
      <4> QED BY <3>1, <3>7, <4>1 DEF CheckInterrupts
    <3>8. CASE \E E \in SUBSET Lines : WriteIrqs(E)
      BY <3>1, <3>8 DEF WriteIrqs, WriteMie, WriteMideleg, WriteMip, WriteSie, WriteSip
    <3>9. CASE \/ \E D \in SUBSET Timers : SetMtime(D)
               \/ \E l \in Timers, d \in BOOLEAN : WriteTimecmp(l, d)
               \/ \E i \in Irqs : RaiseIrq(i)
               \/ \E x \in Contexts, E \in SUBSET Irqs : WritePlicEnable(x, E)
               \/ \E x \in Contexts : Claim(x)
               \/ UNCHANGED vars
      BY <3>1, <3>9 DEF SetMtime, WriteTimecmp, RaiseIrq, WritePlicEnable, Claim, vars
    <3> QED BY <3>3, <3>4, <3>5, <3>6, <3>7, <3>8, <3>9 DEF Next
  <2>2. IrqsOK'
    <3>1. ASSUME UNCHANGED irqs PROVE IrqsOK'
      BY <2>0, <3>1 DEF irqs
    <3>2. CASE CheckInterrupts
      <4>1. Sampled \subseteq Lines
        BY <2>0 DEF Sampled, Timers
      <4> QED BY <2>0, <3>2, <4>1 DEF CheckInterrupts
    <3>3. ASSUME NEW E \in SUBSET Lines, WriteIrqs(E) PROVE IrqsOK'
      BY <2>0, <3>3 DEF WriteIrqs, WriteMie, WriteMideleg, WriteMip, WriteSie,
                        WriteSip, Delegated
    <3>4. CASE \E D \in SUBSET Timers : SetMtime(D)
      BY <2>0, <3>4 DEF SetMtime
    <3>5. ASSUME NEW l \in Timers, NEW d \in BOOLEAN, WriteTimecmp(l, d)
          PROVE  IrqsOK'
      BY <2>0, <3>5 DEF WriteTimecmp
    <3> QED
      BY <3>1, <3>2, <3>3, <3>4, <3>5
         DEF Next, Exception, Mret, Sret, WriteSstatus, WriteMstatus, RaiseIrq,
             WritePlicEnable, Claim, vars
  <2>3. PlicOK'
    <3>1. ASSUME UNCHANGED pl PROVE PlicOK'
      BY <2>0, <3>1 DEF pl
    <3>2. CASE \/ \E i \in Irqs : RaiseIrq(i)
               \/ \E x \in Contexts, E \in SUBSET Irqs : WritePlicEnable(x, E)
               \/ \E x \in Contexts : Claim(x)
      BY <2>0, <3>2 DEF RaiseIrq, WritePlicEnable, Claim
    <3> QED
      BY <3>1, <3>2
         DEF Next, Exception, CheckInterrupts, Mret, Sret, WriteSstatus, WriteMstatus,
             WriteIrqs, WriteMie, WriteMideleg, WriteMip, WriteSie, WriteSip,
             SetMtime, WriteTimecmp, vars
  <2> QED BY <2>1, <2>2, <2>3 DEF TypeOK, StatusOK
<1> QED BY <1>1, <1>2, PTL DEF Spec

\* So a return resumes what was interrupted.
THEOREM ReturnsResume == Spec => ReturnResumes
<1>1. ContextsKept /\ [Next]_vars =>
        [/\ Sret /\ sFrame # None /\ priv = "S" =>
               priv' = sFrame.priv /\ sie' = sFrame.ie
         /\ Mret /\ mFrame # None =>
               priv' = mFrame.priv /\ mie' = mFrame.ie]_vars
  BY DEF ContextsKept, SContextKept, MContextKept, Sret, Mret
<1> QED BY <1>1, ContextsAreKept, PTL DEF Spec, ReturnResumes

=============================================================================
