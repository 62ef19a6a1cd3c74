----------------------------- MODULE VmLifecycle -----------------------------
(***************************************************************************)
(* How sessions launch, find, stop and lose the VM worker, and how the     *)
(* machine is saved to and resumed from the table vm_state                 *)
(* (rv64_pgext.c).                                                         *)
(*                                                                         *)
(* A launch creates a shared segment and a worker that serves it, and      *)
(* records both in the one row of vm_state, by which other sessions find   *)
(* them.  Workers are named by their segments.  The contents of RAM and of *)
(* the registers are abstracted to the instant of the machine they belong  *)
(* to; instant 0 is what has only been zeroed or set up.  struct rv64_cpu  *)
(* has two parts that a resume treats apart: what it restores, and the     *)
(* arguments a0 and a1 and the virtio devices, which it sets up anew.      *)
(* Calls to one worker do not overlap here (VmIpc has the channel);        *)
(* everything else does: the steps of a launch, of a save and of the       *)
(* worker interleave.                                                      *)
(***************************************************************************)
EXTENDS Naturals

CONSTANTS
    Sessions,    \* database sessions
    MaxSegs,     \* bound: launches
    MaxRams,     \* bound: boots
    MaxInstants  \* bound: instants of the machines' execution

ASSUME LifecycleAssumption ==
    MaxSegs \in Nat /\ MaxRams \in Nat /\ MaxInstants \in Nat \ {0}

Segs == 1 .. MaxSegs
Rams == 1 .. MaxRams
Instants == 0 .. MaxInstants
None == 0  \* no segment, no RAM

\* The instants of the registers and of a0, a1 and the virtio devices, 0 when
\* these go back to a resume, which sets them up anew under a running guest.
Regs == [at : Instants, dev : Instants]
RegsAt(i) == [at |-> i, dev |-> i]

VARIABLES
    ses,   \* each session: its process-local variables and where it is
           \*   att   vm_dsm, the segment it is attached to
           \*   map   frontend_ram, the RAM it has mapped
           \*   at    "idle", "launch", "call" or "save"
           \*   ends  what it does when the call is answered
           \*   reg   the segment its uncommitted UPDATE puts in the row
           \*   buf   the RAM that vm_state_save has read
    wrk,   \* each worker with its segment
           \*   st    "unused", "starting", "ready", "gone", "dead" of an
           \*         error, "failed" before it was ready, "lost" with the server
           \*   cmd   the command in the slot, "loading" and "ran" halfway
           \*   ram   the RAM segment whose handle it has exported
           \*   mapped  vm_ram points to it
           \*   cpu   vm_cpu; hasCpu: it is not NULL
           \*   copy  the copy of it in the segment
    ram,   \* what each RAM segment holds
    row,   \* the committed row of vm_state: exists, handle, saved, and the
           \* RAM and registers saved
    now,   \* the latest instant
    rams,  \* RAM segments made
    \* history
    overlap, \* a command ran while the session saved, or its RAM was old
    torn,    \* the row's snapshot was taken in an overlap or of a spoiled machine
    spoiled, \* workers whose machine comes from a torn snapshot or a failed boot
    excused  \* workers that came to be beside another, or that no session finds

vars == <<ses, wrk, ram, row, now, rams, overlap, torn, spoiled, excused>>

Detached == [att |-> None, map |-> None, at |-> "idle", ends |-> "none",
             reg |-> None, buf |-> 0]
Unused == [st |-> "unused", cmd |-> "idle", ram |-> None,
           mapped |-> FALSE, cpu |-> RegsAt(0), hasCpu |-> FALSE, copy |-> RegsAt(0)]

NoRow == [exists |-> FALSE, handle |-> None, saved |-> FALSE, ram |-> 0,
          cpu |-> RegsAt(0)]
SavedRow(i) == [exists |-> TRUE, handle |-> None, saved |-> TRUE, ram |-> i,
                cpu |-> RegsAt(i)]

\* A new installation, whose vm_state is empty, or one that has a machine
\* saved but none running.
Init ==
    /\ ses = [s \in Sessions |-> Detached]
    /\ wrk = [g \in Segs |-> Unused]
    /\ ram = [r \in Rams |-> 0]
    /\ \/ row = NoRow /\ now = 0
       \/ row = SavedRow(1) /\ now = 1
    /\ rams = 0
    /\ overlap = {} /\ torn = FALSE /\ spoiled = {} /\ excused = {}

\* worker_ready: it stays set when an error ends the worker.
Ready(g) == g # None /\ wrk[g].st \in {"ready", "dead"}
Live == {g \in Segs : wrk[g].st = "ready"}

-----------------------------------------------------------------------------
(* Finding a worker.                                                       *)

\* Mutant: the row is not looked at.
MutFound(s) == IF ses[s].att # None THEN {ses[s].att} ELSE {None}

\* ensure_worker_attached: a session keeps the segment it has, ready or not;
\* else it takes the one in the row if a process has that pid (the worker, or
\* another one once it is gone) and the segment still exists.
Found(s) ==
    IF ses[s].att # None THEN {ses[s].att}
    ELSE IF row.handle = None \/ wrk[row.handle].st = "lost" THEN {None}
    ELSE IF row.handle \in Live THEN {row.handle} ELSE {row.handle, None}

Post(g, c) == wrk' = [wrk EXCEPT ![g].cmd = c]

\* ipc_send_and_wait posts a command and the session waits, or finds that the
\* process is gone and fails at once.
Call(s, g, c, ends) ==
    \/ /\ g \in Live /\ wrk[g].cmd = "idle"
       /\ Post(g, c)
       /\ ses' = [ses EXCEPT ![s].att = g, ![s].at = "call", ![s].ends = ends]
    \/ /\ g \notin Live
       /\ ses' = [ses EXCEPT ![s].att = g]
       /\ UNCHANGED wrk

-----------------------------------------------------------------------------
(* vm_boot.                                                                *)

\* A launch that may start a second worker: another launch is under way, or
\* the session sits on a dead segment and does not look.
Unaware(s) ==
    \/ \E t \in Sessions \ {s} : ses[t].at = "launch" \/ ses[t].reg # None
    \/ ses[s].att # None

\* launch_native_worker finds no ready worker: a new segment and a new worker.
Launch(s) ==
    /\ ses[s].at = "idle"
    /\ \E a \in Found(s), g \in Segs :
          /\ ~Ready(a)
          /\ wrk[g].st = "unused" /\ \A h \in 1 .. (g - 1) : wrk[h].st # "unused"
          /\ wrk' = [wrk EXCEPT ![g].st = "starting"]
          /\ ses' = [ses EXCEPT ![s].att = g, ![s].at = "launch"]
          /\ excused' = IF Unaware(s) THEN excused \cup {g} ELSE excused
    /\ UNCHANGED <<ram, row, now, rams, overlap, torn, spoiled>>

\* There is no room for a worker: an error; the segment is given up.
LaunchRefused(s) ==
    /\ ses[s].at = "idle"
    /\ \E a \in Found(s) : ~Ready(a)
    /\ ses' = [ses EXCEPT ![s].att = None]
    /\ UNCHANGED <<wrk, ram, row, now, rams, overlap, torn, spoiled, excused>>

\* It finds one: the boot goes to that.
BootFound(s) ==
    /\ ses[s].at = "idle"
    /\ \E a \in Found(s) : Ready(a) /\ Call(s, a, "boot", "return")
    /\ UNCHANGED <<ram, row, now, rams, overlap, torn, spoiled, excused>>

\* Mutant: the worker is recorded, and the boot posted, before it is ready.
MutLaunched(s) ==
    /\ ses[s].at = "launch"
    /\ wrk[ses[s].att].st # "gone"
    /\ Post(ses[s].att, "boot")
    /\ ses' = [ses EXCEPT ![s].at = "call", ![s].ends = "return",
                          ![s].reg = IF row.exists THEN ses[s].att ELSE None]
    /\ excused' = IF row.exists THEN excused ELSE excused \cup {ses[s].att}
    /\ UNCHANGED <<ram, row, now, rams, overlap, torn, spoiled>>

\* The worker is ready: the UPDATE that records it, which changes nothing if
\* there is no row and waits for another's to commit, and the boot command.
Launched(s) ==
    /\ ses[s].at = "launch" /\ Ready(ses[s].att)
    /\ row.exists => \A t \in Sessions : ses[t].reg = None
    /\ Post(ses[s].att, "boot")
    /\ ses' = [ses EXCEPT ![s].at = "call", ![s].ends = "return",
                          ![s].reg = IF row.exists THEN ses[s].att ELSE None]
    /\ excused' = IF row.exists THEN excused ELSE excused \cup {ses[s].att}
    /\ UNCHANGED <<ram, row, now, rams, overlap, torn, spoiled>>

\* The worker has already shut down: an error; the session keeps the segment.
LaunchError(s) ==
    /\ ses[s].at = "launch" /\ wrk[ses[s].att].st = "gone"
    /\ ses' = [ses EXCEPT ![s].at = "idle"]
    /\ UNCHANGED <<wrk, ram, row, now, rams, overlap, torn, spoiled, excused>>

-----------------------------------------------------------------------------
(* The end of a call.                                                      *)

\* The call is over: the transaction commits, or fails and is rolled back when
\* the command failed or the worker died over it.  A worker that ended in
\* order counts as an answer.  vm_halt then detaches, unless its call failed.
Return(s) ==
    LET g == ses[s].att
        committed == ses[s].reg # None /\ row.exists  \* the UPDATE hit the row
    IN  /\ ses[s].at = "call"
        /\ wrk[g].cmd = "idle" \/ wrk[g].st # "ready"
        /\ \E ok \in BOOLEAN :
              /\ wrk[g].st = "dead" /\ wrk[g].cmd # "idle" => ~ok
              /\ row' = IF ok /\ committed THEN [row EXCEPT !.handle = ses[s].reg] ELSE row
              /\ excused' = IF ses[s].reg = None THEN excused
                            ELSE IF ok /\ committed THEN excused \cup ({row.handle} \cap Live)
                            ELSE excused \cup {ses[s].reg}
        /\ ses' = [ses EXCEPT ![s].at = "idle", ![s].ends = "none", ![s].reg = None,
                              ![s].att = IF ses[s].ends = "detach" /\ wrk[g].st # "dead"
                                         THEN None ELSE g]
        /\ UNCHANGED <<wrk, ram, now, rams, overlap, torn, spoiled>>

-----------------------------------------------------------------------------
(* The other calls.                                                        *)

\* vm_step, or an error if the worker it found is not ready.
Step(s) ==
    /\ ses[s].at = "idle"
    /\ \E a \in Found(s) :
          IF Ready(a) THEN Call(s, a, "step", "return")
          ELSE ses' = [ses EXCEPT ![s].att = a] /\ UNCHANGED wrk
    /\ UNCHANGED <<ram, row, now, rams, overlap, torn, spoiled, excused>>

\* vm_halt in a session that is attached: the command, if the worker is
\* ready, and the end of the attachment.  The mapped RAM stays.
Halt(s) ==
    LET g == ses[s].att
    IN  /\ ses[s].at = "idle" /\ g # None
        /\ IF Ready(g) THEN Call(s, g, "halt", "detach")
           ELSE ses' = [ses EXCEPT ![s].att = None] /\ UNCHANGED wrk
        /\ UNCHANGED <<ram, row, now, rams, overlap, torn, spoiled, excused>>

\* vm_reset in a session that is attached: the row goes, the worker stays.
Reset(s) ==
    /\ ses[s].at = "idle" /\ ses[s].att # None
    /\ row.exists => \A t \in Sessions : ses[t].reg = None
    /\ row' = NoRow
    /\ torn' = FALSE
    /\ excused' = excused \cup Live
    /\ UNCHANGED <<ses, wrk, ram, now, rams, overlap, spoiled>>

\* vm_halt or vm_reset in a session that never attached reads through a null
\* pointer, a step after a boot without RAM through a stale one: the server
\* takes every process down and comes back without the segments; what was not
\* committed is gone.
ServerCrash ==
    /\ \/ \E s \in Sessions : ses[s].at = "idle" /\ ses[s].att = None
       \/ \E g \in Live : wrk[g].cmd = "step" /\ wrk[g].hasCpu /\ ~wrk[g].mapped
    /\ ses' = [s \in Sessions |-> Detached]
    /\ wrk' = [g \in Segs |-> IF wrk[g].st = "unused" THEN Unused
                              ELSE [Unused EXCEPT !.st = "lost"]]
    /\ ram' = [r \in Rams |-> 0]
    /\ overlap' = {} /\ spoiled' = {} /\ excused' = {}
    /\ UNCHANGED <<row, now, rams, torn>>

\* A session ends, and with it its attachments.
Disconnect(s) ==
    /\ ses[s].at = "idle"
    /\ ses' = [ses EXCEPT ![s] = Detached]
    /\ UNCHANGED <<wrk, ram, row, now, rams, overlap, torn, spoiled, excused>>

\* vm_state_save: RAM is mapped once per session and read while the worker
\* goes on ...
SaveRam(s) ==
    /\ ses[s].at = "idle"
    /\ \E a \in Found(s) :
          /\ Ready(a) /\ wrk[a].ram # None
          /\ LET m == IF ses[s].map = None THEN wrk[a].ram ELSE ses[s].map
             IN  /\ ses' = [ses EXCEPT ![s].att = a, ![s].map = m, ![s].at = "save",
                                       ![s].buf = ram[m]]
                 /\ overlap' = IF wrk[a].cmd \in {"loading", "ran"} \/ m # wrk[a].ram
                               THEN overlap \cup {s} ELSE overlap
    /\ UNCHANGED <<wrk, ram, row, now, rams, torn, spoiled, excused>>

\* ... and then the copy of the registers; the row is inserted, or updated
\* with its handle kept.
SaveCpu(s) ==
    LET g == ses[s].att
    IN  /\ ses[s].at = "save"
        /\ row.exists => \A t \in Sessions : ses[t].reg = None
        /\ row' = [exists |-> TRUE, handle |-> row.handle, saved |-> TRUE,
                   ram |-> ses[s].buf, cpu |-> wrk[g].copy]
        /\ torn' = (s \in overlap \/ g \in spoiled)
        /\ ses' = [ses EXCEPT ![s].at = "idle", ![s].buf = 0]
        /\ overlap' = overlap \ {s}
        /\ UNCHANGED <<wrk, ram, now, rams, spoiled, excused>>

-----------------------------------------------------------------------------
(* The worker.                                                             *)

\* Sessions that are saving this worker's machine.
Saving(g) == {s \in Sessions : ses[s].at = "save" /\ ses[s].att = g}

\* linuxsql_vm_worker_main publishes its pid and latch, or ends by an error
\* before that.
WorkerStart(g) ==
    /\ wrk[g].st = "starting"
    /\ \E st \in {"ready", "failed"} : wrk' = [wrk EXCEPT ![g].st = st]
    /\ UNCHANGED <<ses, ram, row, now, rams, overlap, torn, spoiled, excused>>

\* The end of its main function.  Of what is left in the segment only the copy
\* of the registers may still be read, by a save under way.
Stopped(g) ==
    /\ wrk' = [wrk EXCEPT ![g] = [Unused EXCEPT !.st = "gone",
                                    !.copy = IF Saving(g) = {} THEN RegsAt(0)
                                             ELSE wrk[g].copy]]
    /\ excused' = excused \ {g}
    /\ spoiled' = IF Saving(g) = {} THEN spoiled \ {g} ELSE spoiled
    /\ UNCHANGED <<ses, ram, row, now, rams, overlap, torn>>

\* It leaves its loop for the command ...
WorkerHalt(g) == g \in Live /\ wrk[g].cmd = "halt" /\ Stopped(g)

\* ... or, at its head, for SIGTERM.
WorkerTerm(g) == g \in Live /\ wrk[g].cmd \notin {"loading", "ran"} /\ Stopped(g)

\* An error in the database code of a boot or of the flush behind a step ends
\* the process at once; what it has left in the segment
\* stays (of the command only that there is one).
WorkerError(g) ==
    /\ g \in Live
    /\ wrk[g].cmd \in {"boot", "loading"} \/ (wrk[g].hasCpu /\ wrk[g].cmd # "ran")
    /\ wrk' = [wrk EXCEPT ![g] = [Unused EXCEPT !.st = "dead", !.ram = wrk[g].ram,
                                    !.copy = wrk[g].copy,
                                    !.cmd = IF wrk[g].cmd = "idle" THEN "idle"
                                            ELSE "boot"]]
    /\ excused' = excused \ {g}
    /\ spoiled' = IF wrk[g].cmd = "loading" THEN spoiled \cup {g} ELSE spoiled
    /\ UNCHANGED <<ses, ram, row, now, rams, overlap, torn>>

\* worker_handle_cmd_boot: new RAM, zeroed and exported ...
BootLoad(g) ==
    /\ g \in Live /\ wrk[g].cmd = "boot" /\ rams < MaxRams
    /\ rams' = rams + 1
    /\ wrk' = [wrk EXCEPT ![g].cmd = "loading", ![g].ram = rams + 1,
                          ![g].mapped = TRUE]
    /\ overlap' = overlap \cup Saving(g)
    /\ UNCHANGED <<ses, ram, row, now, torn, spoiled, excused>>

\* ... or no memory for it: an error, the old RAM already unmapped ...
BootNoRam(g) ==
    /\ g \in Live /\ wrk[g].cmd = "boot"
    /\ wrk' = [wrk EXCEPT ![g].cmd = "idle", ![g].mapped = FALSE]
    /\ UNCHANGED <<ses, ram, row, now, rams, overlap, torn, spoiled, excused>>

\* The registers of a snapshot as a boot restores them: a0, a1 and the virtio
\* devices become those of a machine that starts.
Restored(c) == [c EXCEPT !.dev = 0]

\* ... filled from the snapshot, with the registers saved with it ...
Resume(g) ==
    /\ g \in Live /\ wrk[g].cmd = "loading" /\ row.saved
    /\ ram' = [ram EXCEPT ![wrk[g].ram] = row.ram]
    /\ wrk' = [wrk EXCEPT ![g].cmd = "idle", ![g].cpu = Restored(row.cpu), ![g].hasCpu = TRUE,
                          ![g].copy = Restored(row.cpu)]
    /\ spoiled' = IF torn THEN spoiled \cup {g} ELSE spoiled \ {g}
    /\ overlap' = overlap \cup Saving(g)
    /\ UNCHANGED <<ses, row, now, rams, torn, excused>>

\* ... or, without one, from the assets ...
ColdBoot(g) ==
    /\ g \in Live /\ wrk[g].cmd = "loading" /\ ~row.saved /\ now < MaxInstants
    /\ now' = now + 1
    /\ ram' = [ram EXCEPT ![wrk[g].ram] = now + 1]
    /\ wrk' = [wrk EXCEPT ![g].cmd = "idle", ![g].cpu = RegsAt(now + 1), ![g].hasCpu = TRUE,
                          ![g].copy = RegsAt(now + 1)]
    /\ spoiled' = spoiled \ {g}
    /\ overlap' = overlap \cup Saving(g)
    /\ UNCHANGED <<ses, row, rams, torn, excused>>

\* ... or not at all when an asset is missing: the registers of the machine
\* there was stay, beside the new RAM.
BootError(g) ==
    /\ g \in Live /\ wrk[g].cmd = "loading" /\ ~row.saved
    /\ wrk' = [wrk EXCEPT ![g].cmd = "idle",
                          ![g].copy = IF wrk[g].hasCpu THEN wrk[g].cpu ELSE wrk[g].copy]
    /\ spoiled' = spoiled \cup {g}
    /\ UNCHANGED <<ses, ram, row, now, rams, overlap, torn, excused>>

\* The registers after a step from c to instant i.
Stepped(c, i) == [at |-> i, dev |-> IF c.dev = 0 THEN 0 ELSE i]

\* A step runs the machine, in RAM and registers ...
StepRun(g) ==
    /\ g \in Live /\ wrk[g].cmd = "step" /\ (wrk[g].hasCpu => wrk[g].mapped)
    /\ IF wrk[g].hasCpu
       THEN /\ now < MaxInstants /\ now' = now + 1
            /\ ram' = [ram EXCEPT ![wrk[g].ram] = now + 1]
            /\ wrk' = [wrk EXCEPT ![g].cmd = "ran",
                                  ![g].cpu = Stepped(wrk[g].cpu, now + 1)]
       ELSE /\ wrk' = [wrk EXCEPT ![g].cmd = "idle"]
            /\ UNCHANGED <<ram, now>>
    /\ overlap' = overlap \cup Saving(g)
    /\ UNCHANGED <<ses, row, rams, torn, spoiled, excused>>

\* Mutant: the answer leaves out the copy of the registers.
MutStepAnswer(g) ==
    /\ g \in Live /\ wrk[g].cmd = "ran"
    /\ wrk' = [wrk EXCEPT ![g].cmd = "idle"]
    /\ UNCHANGED <<ses, ram, row, now, rams, overlap, torn, spoiled, excused>>

\* ... and is answered with a copy of the registers, under the lock.
StepAnswer(g) ==
    /\ g \in Live /\ wrk[g].cmd = "ran"
    /\ wrk' = [wrk EXCEPT ![g].cmd = "idle", ![g].copy = wrk[g].cpu]
    /\ overlap' = overlap \cup Saving(g)
    /\ UNCHANGED <<ses, ram, row, now, rams, torn, spoiled, excused>>

-----------------------------------------------------------------------------
\* The worker serves a command.
Serve(g) ==
    \/ WorkerHalt(g)
    \/ BootLoad(g) \/ BootNoRam(g) \/ Resume(g) \/ ColdBoot(g) \/ BootError(g)
    \/ StepRun(g) \/ StepAnswer(g)

Next ==
    \/ \E s \in Sessions :
          \/ Launch(s) \/ LaunchRefused(s) \/ Launched(s) \/ LaunchError(s)
          \/ BootFound(s) \/ Return(s) \/ Step(s) \/ Halt(s) \/ Reset(s) \/ Disconnect(s)
          \/ SaveRam(s) \/ SaveCpu(s)
    \/ \E g \in Segs : WorkerStart(g) \/ WorkerTerm(g) \/ WorkerError(g) \/ Serve(g)
    \/ ServerCrash

Spec == Init /\ [][Next]_vars

-----------------------------------------------------------------------------
\* Every variable stays in its type, and a worker has registers only with RAM.
TypeOK ==
    /\ ses \in [Sessions -> [att : Segs \cup {None}, map : Rams \cup {None},
                             at : {"idle", "launch", "call", "save"},
                             ends : {"none", "return", "detach"},
                             reg : Segs \cup {None}, buf : Instants]]
    /\ wrk \in [Segs -> [st : {"unused", "starting", "ready", "gone", "dead", "failed", "lost"},
                         cmd : {"idle", "boot", "loading", "step", "ran", "halt"},
                         ram : Rams \cup {None}, mapped : BOOLEAN,
                         cpu : Regs, hasCpu : BOOLEAN, copy : Regs]]
    /\ \A g \in Segs : wrk[g].hasCpu \/ wrk[g].mapped => wrk[g].ram # None
    /\ ram \in [Rams -> Instants]
    /\ row \in [exists : BOOLEAN, handle : Segs \cup {None}, saved : BOOLEAN,
                ram : Instants, cpu : Regs]
    /\ now \in Instants /\ rams \in Rams \cup {0}
    /\ overlap \subseteq Sessions /\ spoiled \subseteq Segs
    /\ excused \subseteq Segs /\ torn \in BOOLEAN

\* A session that is not itself waiting for a launch is attached only to a
\* worker that has published its pid and its latch, which every call uses, or
\* that has done so and ended; and so is the one it would find in the row.
AttachedWasReady ==
    /\ \A s \in Sessions :
          ses[s].at # "launch" /\ ses[s].att # None =>
              wrk[ses[s].att].st \in {"ready", "gone", "dead"}
    /\ row.handle # None => wrk[row.handle].st \in {"ready", "gone", "dead", "lost"}

\* Two workers do not run two machines side by side, except for a worker that
\* was launched while another launch was under way or from a session that sat
\* on a dead segment, and one that no session finds any more: it was recorded
\* while vm_state had no row, its record was rolled back or replaced, or the
\* row was deleted.  No other sequence of calls, errors, crashes and lost
\* sessions leads there.
OneWorker == \A g, h \in Live \ excused : g = h

\* RAM and registers are of one machine.
OfOne(m, c) == c.at = m /\ c.dev \in {m, 0}

\* A machine is of one piece: RAM, the registers that a snapshot restores and
\* their copy are of the same instant when no command is under way, and a saved
\* RAM goes with the saved registers, through saves, resumes, halts and crashes,
\* unless a command overlapped a save, the saving session had mapped an older
\* RAM, or a boot failed halfway.  a0, a1 and the virtio devices are of that
\* instant too, or they go back to those that a resume has set up: no snapshot
\* brings back its own, nor older ones.
OneInstant ==
    /\ row.saved /\ ~torn => OfOne(row.ram, row.cpu)
    /\ \A g \in Live \ spoiled :
          wrk[g].hasCpu /\ wrk[g].cmd \in {"idle", "boot", "step", "halt"} =>
              OfOne(ram[wrk[g].ram], wrk[g].cpu) /\ wrk[g].cpu = wrk[g].copy

=============================================================================
