------------------------------ MODULE RunLoop ------------------------------
(***************************************************************************)
(* The loops that run the hart for one vm_step: rv64_run, which interprets *)
(* one instruction at a time, and rv64_run_jit, which tries a compiled     *)
(* block first (rv64_cpu.c).  Both look at the clock and at the interrupts *)
(* only once in check_interval cycles, and wait in WFI by the clock.       *)
(*                                                                         *)
(* What the guest executes is left open; an instruction is what it does to *)
(* the loop: it retires, traps, waits, or changes what interrupts it takes.*)
(* An interrupt source is "ext", a PLIC source, or "tim", the supervisor   *)
(* timer; the mode and status bits that decide whether the hart takes an   *)
(* interrupt now are abstracted to open.                                   *)
(***************************************************************************)
EXTENDS Naturals

CONSTANTS
    Compilers,  \* {TRUE}: rv64_init gets a block compiler; {FALSE}: it gets none
    Interval,   \* check_interval
    Budgets,    \* the cycles given to rv64_run
    MaxBlock,   \* cycles of the longest compiled block
    Debugging,  \* TRUE: sessions set breakpoints and use vm_step_until
    TrapLoops   \* TRUE: the guest may trap at the first instruction of a handler

Sources == {"ext", "tim"}

ASSUME RunLoopAssumption ==
    /\ Compilers \subseteq BOOLEAN /\ {Debugging, TrapLoops} \subseteq BOOLEAN
    /\ Interval \in Nat \ {0} /\ MaxBlock \in Nat \ {0}
    /\ Budgets \subseteq Nat \ {0}

VARIABLES
    place,      \* "stopped", or "top", "body", "wfi" in the loop
    left,       \* cycles of the budget that are left
    toCheck,    \* cycles until next_check_cycle
    exit,       \* run_exit_reason
    jit,        \* jit->enabled: the loop is rv64_run_jit
    \* the hart
    halted,     \* in WFI
    mie, mip,   \* enabled and pending sources
    asserted,   \* sources that the devices and the host's clock assert now
    open,       \* the hart takes an enabled, pending interrupt
    irqCheck,   \* pending_irq_check
    trapped,    \* the last instruction trapped
    \* debugging
    atBreak,    \* pc = break_pc
    breakHalt,  \* the breakpoint: "off", "log" or "halt"
    debugHalt,  \* dbg.debug_halt of the worker's hart
    request     \* dbg.debug_halt of the shared copy, written by sessions

loop  == <<place, left, toCheck, exit, jit>>
hart  == <<halted, mie, mip, asserted, open, irqCheck, trapped>>
debug == <<atBreak, breakHalt, debugHalt, request>>
loopVars == <<loop, hart, debug>>

LoopInit ==
    /\ place = "stopped" /\ left = 0 /\ toCheck = 0 /\ exit = "NONE"
    /\ jit \in Compilers
    /\ halted = FALSE /\ mie = {} /\ mip = {} /\ asserted = {}
    /\ open = FALSE /\ irqCheck = FALSE /\ trapped = FALSE
    /\ atBreak = FALSE /\ breakHalt = "off" /\ debugHalt = FALSE
    /\ request = FALSE

Minus(n, k) == IF n > k THEN n - k ELSE 0

-----------------------------------------------------------------------------
(* Sessions, devices and the host's clock (external).                      *)

\* VM_CMD_STEP: the halt flag comes from the shared copy.
StartRun(n) ==
    /\ place = "stopped"
    /\ place' = "top" /\ left' = n /\ toCheck' = Interval /\ exit' = "NONE"
    /\ debugHalt' = request
    /\ UNCHANGED <<jit, hart, atBreak, breakHalt, request>>

\* VM_CMD_BREAKPOINT
SetBreakpoint(mode) ==
    /\ Debugging /\ place = "stopped"
    /\ breakHalt' = mode /\ debugHalt' = FALSE
    /\ UNCHANGED <<loop, hart, atBreak, request>>

\* vm_step_until has found its pattern; vm_resume.
RequestHalt(h) ==
    /\ Debugging /\ place = "stopped"
    /\ request' = h
    /\ UNCHANGED <<loop, hart, atBreak, breakHalt, debugHalt>>

Assert(s) ==
    /\ s \notin asserted
    /\ asserted' = asserted \cup {s}
    /\ UNCHANGED <<loop, halted, mie, mip, open, irqCheck, trapped, debug>>

-----------------------------------------------------------------------------
(* check_interrupts.                                                       *)

\* What is pending after the check: the external line as it is, the timer if
\* mtime was refreshed from the clock; a pending timer stays so.
Sampled(refresh) ==
    {s \in asserted : s = "ext" \/ refresh} \cup (mip \cap {"tim"})

Takes(refresh) == open /\ Sampled(refresh) \cap mie # {}

\* A trap leaves the hart in its handler with interrupts off, and awake.
CheckInterrupts(refresh) ==
    /\ mip' = Sampled(refresh)
    /\ open' = (open /\ ~Takes(refresh))

-----------------------------------------------------------------------------
(* The loop.                                                               *)

\* The budget is used up.  (RUN_EXIT_ERROR would follow a negative result of
\* rv64_step, which returns 0 on every path.)
Finish ==
    /\ place = "top" /\ left = 0
    /\ place' = "stopped"
    /\ exit' = IF ~jit /\ debugHalt THEN "DEBUG_HALT" ELSE "BUDGET"
    /\ UNCHANGED <<left, toCheck, jit, hart, debug>>

DueCheck == toCheck = 0 \/ (~jit /\ irqCheck)

\* Mutant: the clock is not read.
MutCheck ==
    /\ place = "top" /\ left > 0 /\ DueCheck
    /\ LET refresh == toCheck = 0
       IN  /\ CheckInterrupts(FALSE)
           /\ toCheck' = IF refresh THEN Interval ELSE toCheck
           /\ halted' = (halted /\ ~Takes(FALSE))
           /\ place' = IF Takes(FALSE) THEN "top" ELSE "body"
           /\ trapped' = (trapped \/ Takes(FALSE))
    /\ irqCheck' = (irqCheck /\ jit)
    /\ UNCHANGED <<left, exit, jit, mie, asserted, debug>>

\* The periodic check, or the one asked for by an instruction that set SIE
\* (which only rv64_run honours, and which does not read the clock).
Check ==
    /\ place = "top" /\ left > 0 /\ DueCheck
    /\ LET refresh == toCheck = 0
       IN  /\ CheckInterrupts(refresh)
           /\ toCheck' = IF refresh THEN Interval ELSE toCheck
           /\ halted' = (halted /\ ~Takes(refresh))
           /\ place' = IF Takes(refresh) THEN "top" ELSE "body"
           /\ trapped' = (trapped \/ Takes(refresh))
    /\ irqCheck' = (irqCheck /\ jit)
    /\ UNCHANGED <<left, exit, jit, mie, asserted, debug>>

NoCheck ==
    /\ place = "top" /\ left > 0 /\ ~DueCheck
    /\ place' = "body"
    /\ UNCHANGED <<left, toCheck, exit, jit, hart, debug>>

\* In WFI without any enabled interrupt, the hart goes on.
WfiEnter ==
    /\ place = "body" /\ halted
    /\ IF mie = {} THEN place' = "top" /\ halted' = FALSE
                   ELSE place' = "wfi" /\ halted' = halted
    /\ UNCHANGED <<left, toCheck, exit, jit, mie, mip, asserted, open, irqCheck,
                   trapped, debug>>

\* Mutant: only an interrupt that is taken ends the wait.
MutWakes == Takes(TRUE)

\* An enabled interrupt that is pending ends the wait, even one that is not
\* taken because interrupts are off.
Wakes == Sampled(TRUE) \cap mie # {}

\* One turn of the waiting loop: it costs check_interval cycles.
WfiTurn ==
    /\ place = "wfi" /\ left > 0
    /\ left' = Minus(left, Interval)
    /\ toCheck' = Minus(toCheck, Interval)
    /\ CheckInterrupts(TRUE)
    /\ halted' = ~Wakes
    /\ place' = IF Wakes THEN "top" ELSE "wfi"
    /\ trapped' = (trapped \/ Takes(TRUE))
    /\ UNCHANGED <<exit, jit, mie, asserted, irqCheck, debug>>

WfiTimeout ==
    /\ place = "wfi" /\ left = 0
    /\ place' = "stopped"
    /\ exit' = "WFI_TIMEOUT"
    /\ UNCHANGED <<left, toCheck, jit, hart, debug>>

\* Mutant: a retired instruction costs nothing.
MutSpend(k) == UNCHANGED <<left, toCheck>>

\* The cycles of retired instructions.
Spend(k) == left' = Minus(left, k) /\ toCheck' = Minus(toCheck, k)

\* jit_exec has run a compiled block.  It is tried while no enabled interrupt
\* is pending, and knows nothing of breakpoints.  A block reaches devices; it
\* ends before an access that faults, which the interpreter then repeats.
RunBlock(k) ==
    /\ jit /\ place = "body" /\ ~halted
    /\ mip \cap mie = {}
    /\ place' = "top"
    /\ Spend(k)
    /\ asserted' \in {asserted, asserted \ {"ext"}}
    /\ trapped' = FALSE
    /\ atBreak' \in IF Debugging THEN BOOLEAN ELSE {FALSE}
    /\ UNCHANGED <<exit, jit, halted, mie, mip, open, irqCheck, breakHalt,
                   debugHalt, request>>

\* The end of an interpreted step: the breakpoint it met, and the halt flag,
\* which counts only with a halting breakpoint and is dropped otherwise.
EndStep ==
    LET hit == atBreak /\ breakHalt = "halt"
        stop == (debugHalt \/ hit) /\ breakHalt = "halt"
    IN  /\ place' = IF stop THEN "stopped" ELSE "top"
        /\ exit' = IF stop THEN "DEBUG_HALT" ELSE exit
        /\ debugHalt' = stop
        /\ atBreak' \in IF Debugging THEN BOOLEAN ELSE {FALSE}
        /\ UNCHANGED <<jit, breakHalt, request>>

Interprets == place = "body" /\ ~halted

\* An instruction retires: one without effect on the loop, ...
Plain ==
    /\ Interprets /\ EndStep /\ Spend(1)
    /\ trapped' = FALSE
    /\ UNCHANGED <<halted, mie, mip, asserted, open, irqCheck>>

\* ... WFI, ...
Wfi ==
    /\ Interprets /\ EndStep /\ Spend(1)
    /\ halted' = TRUE /\ trapped' = FALSE
    /\ UNCHANGED <<mie, mip, asserted, open, irqCheck>>

\* ... a CSR write that sets or clears SIE, or a return from a trap, which
\* does not ask for a check, ...
SetOpen(o, csr) ==
    /\ Interprets /\ EndStep /\ Spend(1)
    /\ open' = o /\ trapped' = FALSE
    /\ irqCheck' = (irqCheck \/ (csr /\ o /\ ~open))
    /\ UNCHANGED <<halted, mie, mip, asserted>>

\* ... a write of sie, ...
SetMie(m) ==
    /\ Interprets /\ EndStep /\ Spend(1)
    /\ mie' = m /\ trapped' = FALSE
    /\ UNCHANGED <<halted, mip, asserted, open, irqCheck>>

\* Mutant: a write of stimecmp leaves STIP pending.
MutQuiet(s) ==
    /\ Interprets /\ EndStep /\ Spend(1)
    /\ asserted' = asserted \ {s}
    /\ trapped' = FALSE
    /\ UNCHANGED <<halted, mie, mip, open, irqCheck>>

\* ... a write of stimecmp, which withdraws the timer, or a claim.
Quiet(s) ==
    /\ Interprets /\ EndStep /\ Spend(1)
    /\ asserted' = asserted \ {s}
    /\ mip' = IF s = "tim" THEN mip \ {s} ELSE mip
    /\ trapped' = FALSE
    /\ UNCHANGED <<halted, mie, open, irqCheck>>

\* An exception: trap() returns before the cycle counter is advanced.
Trap ==
    /\ Interprets /\ EndStep
    /\ TrapLoops \/ ~trapped
    /\ open' = FALSE /\ trapped' = TRUE
    /\ UNCHANGED <<left, toCheck, halted, mie, mip, asserted, irqCheck>>

-----------------------------------------------------------------------------
RunStep ==
    \/ Finish \/ Check \/ NoCheck \/ WfiEnter \/ WfiTurn \/ WfiTimeout
    \/ \E k \in 1 .. MaxBlock : RunBlock(k)
    \/ Plain \/ Wfi \/ Trap
    \/ \E o \in BOOLEAN, csr \in BOOLEAN : SetOpen(o, csr)
    \/ \E m \in SUBSET Sources : SetMie(m)
    \/ \E s \in Sources : Quiet(s)

LoopNext ==
    \/ RunStep
    \/ \E n \in Budgets : StartRun(n)
    \/ \E mode \in {"off", "log", "halt"} : SetBreakpoint(mode)
    \/ \E h \in BOOLEAN : RequestHalt(h)
    \/ \E s \in Sources : Assert(s)

LoopSpec == LoopInit /\ [][LoopNext]_loopVars

\* The worker's loop runs, and a session keeps stepping the machine.
LoopFairness == WF_loopVars(RunStep) /\ WF_loopVars(\E n \in Budgets : StartRun(n))

LoopFairSpec == LoopSpec /\ LoopFairness

-----------------------------------------------------------------------------
\* Every variable stays in its type.
LoopTypeOK ==
    /\ place \in {"stopped", "top", "body", "wfi"}
    /\ left \in Nat /\ toCheck \in 0 .. Interval
    /\ exit \in {"NONE", "BUDGET", "DEBUG_HALT", "WFI_TIMEOUT"}
    /\ {jit, halted, open, irqCheck, trapped, atBreak, debugHalt, request}
          \subseteq BOOLEAN
    /\ mie \subseteq Sources /\ mip \subseteq Sources /\ asserted \subseteq Sources
    /\ breakHalt \in {"off", "log", "halt"}

\* rv64_run returns, whatever instructions, waits, interrupts and exceptions
\* the guest makes of its budget.
RunReturns == place # "stopped" ~> place = "stopped"

\* A hart in WFI goes on once an enabled source is asserted, interrupts on or
\* off and however small the budgets of the steps are.
WfiWakes == halted /\ asserted \cap mie # {} ~> ~halted

\* An enabled source that is asserted and that the hart would take is not left
\* waiting for ever: the guest takes it, masks it or withdraws it, unless a
\* halting breakpoint cuts the runs short.
InterruptTaken ==
    []<>~(~halted /\ open /\ asserted \cap mie # {} /\ breakHalt # "halt")

\* A pending timer is one whose time had come when the clock was last read:
\* the guest's own writes of stimecmp withdraw it for good.
NoPhantomTimer == "tim" \in mip => "tim" \in asserted

=============================================================================
