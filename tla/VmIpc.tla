------------------------------- MODULE VmIpc -------------------------------
(***************************************************************************)
(* The command channel between SQL sessions and the background worker that *)
(* runs the virtual machine (rv64_pgext.c).  All sessions share ONE slot   *)
(* in SharedVMState: cmd, its arguments, its result and the latch of the   *)
(* session to wake.  A session writes the slot, sets the worker's latch    *)
(* and sleeps on its own latch; the worker serves the command, writes      *)
(* VM_CMD_IDLE into the slot and sets the latch it finds there.            *)
(*                                                                         *)
(* The module covers one life of the worker: from the moment it published  *)
(* worker_ready to its exit.  What a command does to the machine is        *)
(* abstracted to the fact that the handler ran with a certain argument:    *)
(* every call has an argument of its own, the request <<client, n>>, so a  *)
(* mixed-up argument or result is visible.                                 *)
(***************************************************************************)
EXTENDS Naturals

CONSTANTS
    Clients,    \* SQL sessions attached to the shared segment
    Ops,        \* the commands the sessions issue in this instance
    Faults,     \* what may go wrong: see FaultKinds
    Exclusive,  \* TRUE: sessions take turns, no two calls overlap
    MaxCalls,   \* bound: calls made by one session
    NoClient,   \* the null client_latch
    NoReq       \* no request: the value of a never written argument

CmdNames == {"BOOT", "STEP", "HALT", "SEND", "WATCHPOINT", "BREAKPOINT"}

\* "error": a database error ends the worker process without its shutdown
\* code; "sigterm": the postmaster terminates the worker; "cancel": a
\* session's statement is cancelled while it waits.
FaultKinds == {"error", "sigterm", "cancel"}

Requests == Clients \X (1 .. MaxCalls)

ASSUME ConstantsAssumption ==
    /\ Ops \subseteq CmdNames
    /\ Faults \subseteq FaultKinds
    /\ Exclusive \in BOOLEAN
    /\ MaxCalls \in Nat
    /\ NoClient \notin Clients
    /\ NoReq \notin Requests /\ NoReq \notin [op : CmdNames, req : Requests]

VARIABLES
    \* SharedVMState
    cmd,          \* the command in the slot, "IDLE" when it is free
    arg,          \* cmd_arg and cmd_arg_ext: the request that wrote them
    text,         \* input_buf: the request that wrote it
    clientLatch,  \* client_latch: the session the worker will wake
    result,       \* cmd_result: "OK" (0) or "ERR" (-1)
    ret,          \* cmd_return: the request whose run it counts
    ready,        \* worker_ready
    shutdown,     \* shutdown_requested
    \* the worker process
    wpc,          \* where linuxsql_vm_worker_main is
    wcmd,         \* its local copy of cmd
    wreq,         \* the request whose argument its last STEP ran with
    wclient,      \* its local copy of client_latch
    wlatch,       \* its latch
    sigterm,      \* got_sigterm
    vmUp,         \* vm_cpu # NULL
    \* the sessions
    pc,           \* where each session is in ipc_send_and_wait
    op,           \* the command each session is sending
    calls,        \* number of calls each session has made
    latch,        \* the latch of each session
    outcome,      \* what the last finished call told its caller
    \* history
    served        \* every handler run: the command, the request it used, success

shared  == <<cmd, arg, text, clientLatch, result, ret, ready, shutdown>>
worker  == <<wpc, wcmd, wreq, wclient, wlatch, sigterm, vmUp>>
session == <<pc, op, calls, latch, outcome>>
vars    == <<shared, worker, session, served>>

\* The argument of the call the session is making.
Req(c) == <<c, calls[c]>>
Outcome == [status : {"none", "ok", "error", "skipped"}, op : CmdNames,
            req : Requests \cup {NoReq}, ret : Requests \cup {NoReq}]
Service == [op : CmdNames, req : Requests \cup {NoReq}, ok : BOOLEAN]
NoOutcome == [status |-> "none", op |-> "STEP", req |-> NoReq, ret |-> NoReq]

Init ==
    /\ cmd = "IDLE" /\ arg = NoReq /\ text = NoReq /\ clientLatch = NoClient
    /\ result = "OK" /\ ret = NoReq /\ ready = TRUE /\ shutdown = FALSE
    /\ wpc = "top" /\ wcmd = "IDLE" /\ wreq = NoReq /\ wclient = NoClient
    /\ wlatch = FALSE /\ sigterm = FALSE /\ vmUp = FALSE
    /\ pc = [c \in Clients |-> "idle"]
    /\ op = [c \in Clients |-> "STEP"]
    /\ calls = [c \in Clients |-> 0]
    /\ latch = [c \in Clients |-> FALSE]
    /\ outcome = [c \in Clients |-> NoOutcome]
    /\ served = {}

-----------------------------------------------------------------------------
(* A session: vm_step, vm_boot, vm_send, vm_type, vm_watchpoint,           *)
(* vm_breakpoint and vm_halt, all through ipc_send_and_wait[_ext].         *)

Goto(c, from, to) == pc[c] = from /\ pc' = [pc EXCEPT ![c] = to]

\* The SQL function is called.  vm_send and vm_type write input_buf before
\* they enter ipc_send_and_wait, without the lock, and only while the worker
\* is ready.
Call(c, o) ==
    /\ calls[c] < MaxCalls
    /\ Exclusive => \A d \in Clients : pc[d] = "idle"
    /\ Goto(c, "idle", "enter")
    /\ op' = [op EXCEPT ![c] = o]
    /\ calls' = [calls EXCEPT ![c] = @ + 1]
    /\ text' = IF o = "SEND" /\ ready THEN <<c, calls[c] + 1>> ELSE text
    /\ UNCHANGED <<cmd, arg, clientLatch, result, ret, ready, shutdown>>
    /\ UNCHANGED <<worker, latch, outcome, served>>

\* The unlocked test of worker_ready at the top of ipc_send_and_wait.
Enter(c) ==
    /\ ready
    /\ Goto(c, "enter", "post")
    /\ UNCHANGED <<shared, worker, op, calls, latch, outcome, served>>

Finish(c, status) ==
    outcome' = [outcome EXCEPT ![c] =
        [status |-> status, op |-> op[c], req |-> Req(c), ret |-> ret]]

\* The worker is not ready: most calls raise an error.  vm_halt then sends
\* nothing and goes on, vm_boot starts another worker with another segment.
Refuse(c) ==
    /\ ~ready
    /\ Goto(c, "enter", "idle")
    /\ Finish(c, IF op[c] \in {"HALT", "BOOT"} THEN "skipped" ELSE "error")
    /\ UNCHANGED <<shared, worker, op, calls, latch, served>>

\* The critical section that fills the slot, whatever it holds.
Post(c) ==
    /\ Goto(c, "post", "signal")
    /\ cmd' = op[c]
    /\ arg' = Req(c)
    /\ clientLatch' = c
    /\ result' = "OK"
    /\ UNCHANGED <<text, ret, ready, shutdown, worker>>
    /\ UNCHANGED <<op, calls, latch, outcome, served>>

\* SetLatch(worker_latch)
Signal(c) ==
    /\ Goto(c, "signal", "reset")
    /\ wlatch' = TRUE
    /\ UNCHANGED <<shared, wpc, wcmd, wreq, wclient, sigterm, vmUp>>
    /\ UNCHANGED <<op, calls, latch, outcome, served>>

\* ResetLatch(MyLatch)
ResetOwn(c) ==
    /\ Goto(c, "reset", "check")
    /\ latch' = [latch EXCEPT ![c] = FALSE]
    /\ UNCHANGED <<shared, worker, op, calls, outcome, served>>

\* kill(worker_pid, 0): the worker process exists.
WorkerAlive == wpc # "gone"

\* The critical section that decides whether the wait is over.
Check(c) ==
    /\ \/ /\ cmd = "IDLE" \/ shutdown
          /\ Goto(c, "check", "return")
          /\ result' = result
       \/ /\ ~(cmd = "IDLE" \/ shutdown)
          /\ ~WorkerAlive
          /\ Goto(c, "check", "return")
          /\ result' = "ERR"
       \/ /\ ~(cmd = "IDLE" \/ shutdown)
          /\ WorkerAlive
          /\ Goto(c, "check", "wait")
          /\ result' = result
    /\ UNCHANGED <<cmd, arg, text, clientLatch, ret, ready, shutdown>>
    /\ UNCHANGED <<worker, op, calls, latch, outcome, served>>

\* WaitLatch(MyLatch, WL_LATCH_SET, -1): no timeout.
Wake(c) ==
    /\ latch[c]
    /\ Goto(c, "wait", "reset")
    /\ UNCHANGED <<shared, worker, op, calls, latch, outcome, served>>

\* CHECK_FOR_INTERRUPTS raises: the call fails, its command stays behind.
Cancel(c) ==
    /\ "cancel" \in Faults
    /\ pc[c] \in {"reset", "wait"}
    /\ pc' = [pc EXCEPT ![c] = "idle"]
    /\ latch' = [latch EXCEPT ![c] = FALSE]
    /\ Finish(c, "error")
    /\ UNCHANGED <<shared, worker, op, calls, served>>

\* cmd_result, then cmd_return, are read after the lock is released.
Return(c) ==
    /\ Goto(c, "return", "idle")
    /\ Finish(c, IF result = "ERR" THEN "error" ELSE "ok")
    /\ UNCHANGED <<shared, worker, op, calls, latch, served>>

-----------------------------------------------------------------------------
(* The worker: linuxsql_vm_worker_main.                                    *)

WGoto(from, to) == wpc = from /\ wpc' = to

Serve(o, r, ok) == served' = served \cup {[op |-> o, req |-> r, ok |-> ok]}

\* while (running && !got_sigterm)
WTop ==
    /\ WGoto("top", IF sigterm THEN "exit" ELSE "reset")
    /\ UNCHANGED <<shared, wcmd, wreq, wclient, wlatch, sigterm, vmUp>>
    /\ UNCHANGED <<session, served>>

WReset ==
    /\ WGoto("reset", "fetch")
    /\ wlatch' = FALSE
    /\ UNCHANGED <<shared, wcmd, wreq, wclient, sigterm, vmUp, session, served>>

Handler(command) ==
    CASE command = "IDLE" -> "sleep"
      [] command = "BOOT" -> "boot"
      [] command = "STEP" -> "run"
      [] OTHER            -> "exec"

\* The critical section that reads the command; its arguments are read later.
WFetch ==
    /\ wcmd' = cmd
    /\ WGoto("fetch", IF shutdown THEN "exit" ELSE Handler(cmd))
    /\ UNCHANGED <<shared, wreq, wclient, wlatch, sigterm, vmUp>>
    /\ UNCHANGED <<session, served>>

\* worker_handle_cmd_boot: cold boot or restore, or one of its error returns,
\* which leave vm_cpu as it was.
WBoot ==
    /\ WGoto("boot", "idle")
    /\ \E ok \in BOOLEAN :
          /\ vmUp' = (vmUp \/ ok)
          /\ result' = IF ok THEN "OK" ELSE "ERR"
          /\ Serve("BOOT", arg, ok)
    /\ UNCHANGED <<cmd, arg, text, clientLatch, ret, ready, shutdown>>
    /\ UNCHANGED <<wcmd, wreq, wclient, wlatch, sigterm, session>>

\* rv64_run(vm_cpu, cmd_arg)
WRun ==
    /\ WGoto("run", "publish")
    /\ wreq' = arg
    /\ Serve("STEP", arg, vmUp)
    /\ UNCHANGED <<shared, wcmd, wclient, wlatch, sigterm, vmUp, session>>

\* The critical section after rv64_run, or the one that reports no machine.
WPublish ==
    /\ WGoto("publish", "idle")
    /\ ret' = IF vmUp THEN wreq ELSE ret
    /\ result' = IF vmUp THEN "OK" ELSE "ERR"
    /\ UNCHANGED <<cmd, arg, text, clientLatch, ready, shutdown>>
    /\ UNCHANGED <<wcmd, wreq, wclient, wlatch, sigterm, vmUp, session, served>>

\* HALT, SEND, WATCHPOINT and BREAKPOINT.  Only the last two report that
\* there is no machine.
WExec ==
    /\ WGoto("exec", "idle")
    /\ LET reports == wcmd \in {"WATCHPOINT", "BREAKPOINT"}
           ok == reports => vmUp
       IN  /\ result' = IF reports THEN (IF vmUp THEN "OK" ELSE "ERR") ELSE result
           /\ Serve(wcmd, IF wcmd = "SEND" THEN text ELSE arg, ok)
    /\ UNCHANGED <<cmd, arg, text, clientLatch, ret, ready, shutdown>>
    /\ UNCHANGED <<wcmd, wreq, wclient, wlatch, sigterm, vmUp, session>>

\* Mutant: the slot is freed, but the latch read for an earlier command is kept.
MutWIdleStale ==
    /\ WGoto("idle", "signal")
    /\ cmd' = "IDLE"
    /\ UNCHANGED <<arg, text, clientLatch, result, ret, ready, shutdown>>
    /\ UNCHANGED <<wcmd, wreq, wclient, wlatch, sigterm, vmUp, session, served>>

\* Mutant: the client is woken, but the command stays in the slot.
MutWIdleKeep ==
    /\ WGoto("idle", "signal")
    /\ wclient' = clientLatch
    /\ UNCHANGED <<shared, wcmd, wreq, wlatch, sigterm, vmUp, session, served>>

\* The critical section that frees the slot and picks the latch to set.
WIdle ==
    /\ WGoto("idle", "signal")
    /\ cmd' = "IDLE"
    /\ wclient' = clientLatch
    /\ UNCHANGED <<arg, text, clientLatch, result, ret, ready, shutdown>>
    /\ UNCHANGED <<wcmd, wreq, wlatch, sigterm, vmUp, session, served>>

SetClientLatch ==
    latch' = [c \in Clients |-> latch[c] \/ c = wclient]

\* SetLatch(client); STEP goes on to the dirty-block flush and the timed
\* wait, HALT leaves the loop, the others start it again at once.
WSignal ==
    /\ WGoto("signal", CASE wcmd = "STEP" -> "flush"
                         [] wcmd = "HALT" -> "exit"
                         [] OTHER         -> "top")
    /\ SetClientLatch
    /\ UNCHANGED <<shared, wcmd, wreq, wclient, wlatch, sigterm, vmUp>>
    /\ UNCHANGED <<pc, op, calls, outcome, served>>

\* Mutant: the latch is reset on the way to the wait.
MutWFlush ==
    /\ WGoto("flush", "sleep")
    /\ wlatch' = FALSE
    /\ UNCHANGED <<shared, wcmd, wreq, wclient, sigterm, vmUp>>
    /\ UNCHANGED <<session, served>>

\* worker_flush_dirty_blocks: see DiskPersist.
WFlush ==
    /\ WGoto("flush", "sleep")
    /\ UNCHANGED <<shared, wcmd, wreq, wclient, wlatch, sigterm, vmUp>>
    /\ UNCHANGED <<session, served>>

\* WaitLatch(MyLatch, WL_LATCH_SET | WL_TIMEOUT, 1000)
WWake ==
    /\ wlatch
    /\ WGoto("sleep", "top")
    /\ UNCHANGED <<shared, wcmd, wreq, wclient, wlatch, sigterm, vmUp>>
    /\ UNCHANGED <<session, served>>

WTimeout ==
    /\ ~wlatch
    /\ WGoto("sleep", "top")
    /\ UNCHANGED <<shared, wcmd, wreq, wclient, wlatch, sigterm, vmUp>>
    /\ UNCHANGED <<session, served>>

\* The shutdown code after the loop.
WExit ==
    /\ WGoto("exit", "bye")
    /\ ready' = FALSE
    /\ shutdown' = TRUE
    /\ wclient' = clientLatch
    /\ UNCHANGED <<cmd, arg, text, clientLatch, result, ret>>
    /\ UNCHANGED <<wcmd, wreq, wlatch, sigterm, vmUp, session, served>>

\* Mutant: the worker leaves without waking the client.
MutWBye ==
    /\ WGoto("bye", "gone")
    /\ vmUp' = FALSE
    /\ UNCHANGED <<shared, wcmd, wreq, wclient, wlatch, sigterm>>
    /\ UNCHANGED <<session, served>>

WBye ==
    /\ WGoto("bye", "gone")
    /\ SetClientLatch
    /\ vmUp' = FALSE
    /\ UNCHANGED <<shared, wcmd, wreq, wclient, wlatch, sigterm>>
    /\ UNCHANGED <<pc, op, calls, outcome, served>>

\* elog(ERROR) in SPI or large-object code: a background worker without a
\* handler exits at once.  The shared segment keeps worker_ready and cmd.
\* The flush after a step touches the database only when a disk is loaded.
WError ==
    /\ "error" \in Faults
    /\ wpc = "boot" \/ (wpc = "flush" /\ vmUp)
    /\ wpc' = "gone"
    /\ UNCHANGED <<shared, wcmd, wreq, wclient, wlatch, sigterm, vmUp>>
    /\ UNCHANGED <<session, served>>

\* vm_worker_sigterm
Sigterm ==
    /\ "sigterm" \in Faults
    /\ WorkerAlive /\ ~sigterm
    /\ sigterm' = TRUE
    /\ wlatch' = TRUE
    /\ UNCHANGED <<shared, wpc, wcmd, wreq, wclient, vmUp, session, served>>

-----------------------------------------------------------------------------
WorkerStep ==
    \/ WTop \/ WReset \/ WFetch \/ WBoot \/ WRun \/ WPublish \/ WExec \/ WIdle
    \/ WSignal \/ WFlush \/ WWake \/ WTimeout \/ WExit \/ WBye

\* What a session does on its own once it has called.
SessionStep(c) ==
    \/ Enter(c) \/ Refuse(c) \/ Post(c) \/ Signal(c) \/ ResetOwn(c)
    \/ Check(c) \/ Wake(c) \/ Return(c)

\* The worker has left and no session can go on: the end of this segment.
Done ==
    /\ ~WorkerAlive
    /\ \A c \in Clients : pc[c] \in {"idle", "wait"}
    /\ UNCHANGED vars

Next ==
    \/ WorkerStep
    \/ WError
    \/ Sigterm
    \/ \E c \in Clients : SessionStep(c)
    \/ \E c \in Clients : Cancel(c)
    \/ \E c \in Clients, o \in Ops : Call(c, o)
    \/ Done

Spec == Init /\ [][Next]_vars

\* Both processes are scheduled by the operating system; the timed wait ends
\* by itself.  Nobody has to make a call, and no fault has to happen.
Fairness ==
    /\ WF_vars(WorkerStep)
    /\ \A c \in Clients : WF_vars(SessionStep(c))

FairSpec == Spec /\ Fairness

-----------------------------------------------------------------------------
WorkerPlaces == {"top", "reset", "fetch", "boot", "run", "publish", "exec",
                 "idle", "signal", "flush", "sleep", "exit", "bye", "gone"}
SessionPlaces == {"idle", "enter", "post", "signal", "reset", "check", "wait",
                  "return"}

SharedTypes ==
    /\ cmd \in CmdNames \cup {"IDLE"}
    /\ arg \in Requests \cup {NoReq}
    /\ text \in Requests \cup {NoReq}
    /\ clientLatch \in Clients \cup {NoClient}
    /\ result \in {"OK", "ERR"}
    /\ ret \in Requests \cup {NoReq}
    /\ ready \in BOOLEAN
    /\ shutdown \in BOOLEAN

WorkerTypes ==
    /\ wpc \in WorkerPlaces
    /\ wcmd \in CmdNames \cup {"IDLE"}
    /\ wreq \in Requests \cup {NoReq}
    /\ wclient \in Clients \cup {NoClient}
    /\ wlatch \in BOOLEAN
    /\ sigterm \in BOOLEAN
    /\ vmUp \in BOOLEAN

SessionTypes ==
    /\ pc \in [Clients -> SessionPlaces]
    /\ op \in [Clients -> CmdNames]
    /\ calls \in [Clients -> 0 .. MaxCalls]
    /\ latch \in [Clients -> BOOLEAN]
    /\ outcome \in [Clients -> Outcome]

\* Every variable stays in its type; arguments, counts and outcomes belong to
\* calls that sessions can make, or are still unwritten.
TypeOK == SharedTypes /\ WorkerTypes /\ SessionTypes /\ served \subseteq Service

\* A session in a call has counted that call.
CallCounted == \A c \in Clients : pc[c] # "idle" => calls[c] # 0

\* The worker's local copy of the command is the one its handler is for.
HandlerMatches ==
    /\ wpc = "boot" => wcmd = "BOOT"
    /\ wpc \in {"run", "publish", "flush"} => wcmd = "STEP"
    /\ wpc = "exec" => wcmd \in CmdNames \ {"BOOT", "STEP"}
    /\ wpc \in {"idle", "signal"} => wcmd # "IDLE"

\* A worker asleep beside a filled slot has been woken, or the session that
\* filled it is about to wake it: resetting its latch before it reads the
\* slot, the worker never sleeps through a command, even without the
\* one-second timeout and however the sessions overlap.
WorkerWakeup ==
    wpc = "sleep" /\ cmd # "IDLE" =>
        wlatch \/ \E c \in Clients : pc[c] = "signal"

\* A session asleep whose latch is the one in the slot still has an unserved
\* command there, or the worker is on its way to set that latch: the free
\* slot and the shutdown are never announced to nobody.
ClientWakeup ==
    \A c \in Clients :
        pc[c] = "wait" /\ ~latch[c] /\ clientLatch = c =>
            \/ cmd # "IDLE" /\ ~shutdown
            \/ wpc \in {"signal", "bye"} /\ wclient = c

\* The channel implements CommandService: a session in a call waits for it,
\* and an answer counts instructions only when it answers a step.
Channel == INSTANCE CommandService WITH
    NoCall  <- NoReq,
    calling <- [c \in Clients |-> IF pc[c] = "idle" THEN NoReq
                                  ELSE [op |-> op[c], req |-> Req(c)]],
    answer  <- [c \in Clients |->
                  [outcome[c] EXCEPT !.ret =
                      IF outcome[c].status = "ok" /\ outcome[c].op = "STEP"
                      THEN @ ELSE NoReq]]

\* Taking turns, sessions see a service: each call is served exactly once
\* before it is answered, with its own argument, and the answer is the outcome
\* of that service.
ImplementsService == Channel!Spec

\* Every call of a session comes back, with an answer or with an error.
EveryCallReturns ==
    \A c \in Clients : pc[c] # "idle" ~> pc[c] = "idle"

=============================================================================
