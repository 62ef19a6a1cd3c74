------------------------- MODULE VmLifecycleProofs -------------------------
(***************************************************************************)
(* Proofs about VmLifecycle, for every number of sessions, launches, boots *)
(* and instants: type correctness, that a session is attached only to a    *)
(* worker that was ready, that two workers do not run side by side unless  *)
(* for one of the named reasons, and that a machine is of one instant.     *)
(***************************************************************************)
EXTENDS VmLifecycle, TLAPS

-----------------------------------------------------------------------------
(* Type correctness.                                                       *)

\* The process-local variables of a session.
Session == [att : Segs \cup {None}, map : Rams \cup {None},
            at : {"idle", "launch", "call", "save"},
            ends : {"none", "return", "detach"},
            reg : Segs \cup {None}, buf : Instants]

\* A worker with its segment.
Worker == [st : {"unused", "starting", "ready", "gone", "dead", "failed", "lost"},
           cmd : {"idle", "boot", "loading", "step", "ran", "halt"},
           ram : Rams \cup {None}, mapped : BOOLEAN,
           cpu : Regs, hasCpu : BOOLEAN, copy : Regs]

\* The row of vm_state.
Row == [exists : BOOLEAN, handle : Segs \cup {None}, saved : BOOLEAN,
        ram : Instants, cpu : Regs]

\* A session that waits for something has a segment; the one it has recorded
\* belongs to a worker that was ready when it did.
WasReady == {"ready", "gone", "dead"}
Waits ==
    \A s \in Sessions :
        /\ ses[s].at # "idle" => ses[s].att # None
        /\ ses[s].reg # None => ses[s].at = "call" /\ wrk[ses[s].reg].st \in WasReady

\* A worker halfway through a boot or a step has RAM.
Halfway == \A g \in Segs : wrk[g].cmd \in {"loading", "ran"} => wrk[g].ram # None

\* The types, by variable.
Typed ==
    /\ ses \in [Sessions -> Session]
    /\ wrk \in [Segs -> Worker]
    /\ \A g \in Segs : wrk[g].hasCpu \/ wrk[g].mapped => wrk[g].ram # None
    /\ ram \in [Rams -> Instants] /\ row \in Row
    /\ now \in Instants /\ rams \in Rams \cup {0}
    /\ overlap \subseteq Sessions /\ spoiled \subseteq Segs
    /\ excused \subseteq Segs /\ torn \in BOOLEAN

LEMMA TypedIsTypeOK == Typed <=> TypeOK
  BY DEF Typed, TypeOK, Session, Worker, Row

\* None is no segment; instant 0 exists.
LEMMA NoneFacts == None \notin Segs /\ None \notin Rams /\ 0 \in Instants
  BY LifecycleAssumption DEF None, Segs, Rams, Instants

\* The registers a boot or a step leaves, and how they go with the RAM.
LEMMA RegsFacts ==
    /\ \A i \in Instants : RegsAt(i) \in Regs /\ OfOne(i, RegsAt(i))
    /\ \A i \in Instants, c \in Regs : Stepped(c, i) \in Regs /\ OfOne(i, Stepped(c, i))
  BY NoneFacts DEF Regs, RegsAt, OfOne, Stepped

LEMMA RestoredFacts ==
    ASSUME NEW c \in Regs
    PROVE  Restored(c) \in Regs /\ \A i \in Instants : OfOne(i, c) => OfOne(i, Restored(c))
  BY NoneFacts DEF Regs, OfOne, Restored

LEMMA Constants ==
    /\ Detached \in Session /\ Unused \in Worker /\ NoRow \in Row
    /\ \A st \in {"gone", "lost"} : [Unused EXCEPT !.st = st] \in Worker
  BY NoneFacts, RegsFacts DEF Detached, Unused, NoRow, Session, Worker, Row, None

\* The worker a session finds is one.
LEMMA FoundIsSeg ==
    ASSUME Typed, NEW s \in Sessions, NEW a \in Found(s)
    PROVE  a \in Segs \cup {None} /\ (Ready(a) => a \in Segs)
<1>1. ses[s].att \in Segs \cup {None} /\ row.handle \in Segs \cup {None}
  BY DEF Typed, Session, Row
<1> QED
  BY <1>1 DEF Found, Ready

\* A step leaves session s, or worker g, with these values and the others alone.
SesIs(s, att, map, at, ends, reg, buf) ==
    /\ ses' \in [Sessions -> Session] /\ \A t \in Sessions \ {s} : ses'[t] = ses[t]
    /\ ses'[s].att = att /\ ses'[s].map = map /\ ses'[s].at = at
    /\ ses'[s].ends = ends /\ ses'[s].reg = reg /\ ses'[s].buf = buf
WrkIs(g, st, cmd, r, mapped, cpu, hasCpu, copy) ==
    /\ wrk' \in [Segs -> Worker] /\ \A h \in Segs \ {g} : wrk'[h] = wrk[h]
    /\ wrk'[g].st = st /\ wrk'[g].cmd = cmd /\ wrk'[g].ram = r /\ wrk'[g].mapped = mapped
    /\ wrk'[g].cpu = cpu /\ wrk'[g].hasCpu = hasCpu /\ wrk'[g].copy = copy

\* The same with a whole record.
SesTo(s, e) ==
    /\ ses' \in [Sessions -> Session] /\ ses'[s] = e
    /\ \A t \in Sessions \ {s} : ses'[t] = ses[t]
WrkTo(g, w) ==
    /\ wrk' \in [Segs -> Worker] /\ wrk'[g] = w
    /\ \A h \in Segs \ {g} : wrk'[h] = wrk[h]

LEMMA SesSet ==
    ASSUME Typed, NEW s \in Sessions, NEW e \in Session, ses' = [ses EXCEPT ![s] = e]
    PROVE  SesTo(s, e)
  BY DEF Typed, SesTo

LEMMA WrkSet ==
    ASSUME Typed, NEW g \in Segs, NEW w \in Worker, wrk' = [wrk EXCEPT ![g] = w]
    PROVE  WrkTo(g, w)
  BY DEF Typed, WrkTo

\* What a call does to the session and to the worker.
LEMMA CallEffect ==
    ASSUME Typed, NEW s \in Sessions, NEW g \in Segs, NEW c \in {"boot", "step", "halt"},
           NEW ends \in {"return", "detach"}, Call(s, g, c, ends)
    PROVE  \/ /\ g \in Live /\ wrk[g].cmd = "idle"
              /\ SesIs(s, g, ses[s].map, "call", ends, ses[s].reg, ses[s].buf)
              /\ WrkIs(g, wrk[g].st, c, wrk[g].ram, wrk[g].mapped, wrk[g].cpu,
                       wrk[g].hasCpu, wrk[g].copy)
           \/ SesIs(s, g, ses[s].map, ses[s].at, ses[s].ends, ses[s].reg,
                    ses[s].buf) /\ UNCHANGED wrk
<1>0. ses[s] \in Session /\ wrk[g] \in Worker
  BY DEF Typed
<1>1. CASE g \in Live /\ wrk[g].cmd = "idle" /\ Post(g, c)
           /\ ses' = [ses EXCEPT ![s].att = g, ![s].at = "call", ![s].ends = ends]
  <2> DEFINE e == [ses[s] EXCEPT !.att = g, !.at = "call", !.ends = ends]
             w == [wrk[g] EXCEPT !.cmd = c]
  <2>1. ses' = [ses EXCEPT ![s] = e] /\ wrk' = [wrk EXCEPT ![g] = w]
    BY <1>0, <1>1 DEF Post, Typed
  <2>2. e \in Session /\ w \in Worker
    BY <1>0 DEF Session, Worker
  <2> HIDE DEF e, w
  <2>3. SesTo(s, e) /\ WrkTo(g, w)
    BY <2>1, <2>2, SesSet, WrkSet
  <2> QED
    BY <1>0, <1>1, <2>3 DEF e, w, SesTo, SesIs, Session, WrkTo, WrkIs, Worker
<1>2. CASE ses' = [ses EXCEPT ![s].att = g] /\ UNCHANGED wrk
  <2> DEFINE e == [ses[s] EXCEPT !.att = g]
  <2>1. ses' = [ses EXCEPT ![s] = e] /\ e \in Session
    BY <1>0, <1>2 DEF Typed, Session
  <2> HIDE DEF e
  <2>2. SesTo(s, e)
    BY <2>1, SesSet
  <2> QED
    BY <1>0, <1>2, <2>2 DEF e, SesTo, SesIs, Session
<1> QED
  BY <1>1, <1>2 DEF Call

\* What the actions of a worker leave of it.
LEMMA StoppedEffect ==
    ASSUME Typed, NEW g \in Segs, Stopped(g)
    PROVE  WrkIs(g, "gone", "idle", None, FALSE, RegsAt(0), FALSE,
                 IF Saving(g) = {} THEN RegsAt(0) ELSE wrk[g].copy)
<1> DEFINE w == [Unused EXCEPT !.st = "gone",
                              !.copy = IF Saving(g) = {} THEN RegsAt(0) ELSE wrk[g].copy]
<1>0. wrk[g] \in Worker
  BY DEF Typed
<1>1. w \in Worker
  BY <1>0, NoneFacts, RegsFacts DEF Stopped, Typed, Worker, Unused, None
<1>2. wrk' = [wrk EXCEPT ![g] = w]
  BY <1>0 DEF Stopped, Typed, Unused, None
<1> HIDE DEF w
<1>3. WrkTo(g, w)
  BY <1>1, <1>2, WrkSet
<1> QED
  BY <1>0, <1>3 DEF w, WrkTo, WrkIs, Worker, Unused

LEMMA WorkerErrorEffect ==
    ASSUME Typed, NEW g \in Segs, WorkerError(g)
    PROVE  WrkIs(g, "dead", IF wrk[g].cmd = "idle" THEN "idle" ELSE "boot", wrk[g].ram,
                 FALSE, RegsAt(0), FALSE, wrk[g].copy)
<1> DEFINE w == [Unused EXCEPT !.st = "dead", !.ram = wrk[g].ram, !.copy = wrk[g].copy,
                              !.cmd = IF wrk[g].cmd = "idle" THEN "idle" ELSE "boot"]
<1>0. wrk[g] \in Worker
  BY DEF Typed
<1>1. w \in Worker
  BY <1>0, NoneFacts, RegsFacts DEF WorkerError, Typed, Worker, Unused, None
<1>2. wrk' = [wrk EXCEPT ![g] = w]
  BY <1>0 DEF WorkerError, Typed, Unused, None
<1> HIDE DEF w
<1>3. WrkTo(g, w)
  BY <1>1, <1>2, WrkSet
<1> QED
  BY <1>0, <1>3 DEF w, WrkTo, WrkIs, Worker, Unused

LEMMA BootLoadEffect ==
    ASSUME Typed, NEW g \in Segs, BootLoad(g)
    PROVE  WrkIs(g, wrk[g].st, "loading", rams + 1, TRUE, wrk[g].cpu, wrk[g].hasCpu,
                 wrk[g].copy)
<1> DEFINE w == [wrk[g] EXCEPT !.cmd = "loading", !.ram = rams + 1, !.mapped = TRUE]
<1>0. wrk[g] \in Worker
  BY DEF Typed
<1>1. w \in Worker
  <2>1. rams + 1 \in Rams
    BY LifecycleAssumption DEF BootLoad, Typed, Rams
  <2> QED
    BY <1>0, <2>1 DEF Worker
<1>2. wrk' = [wrk EXCEPT ![g] = w]
  BY <1>0 DEF BootLoad, Typed
<1> HIDE DEF w
<1>3. WrkTo(g, w)
  BY <1>1, <1>2, WrkSet
<1> QED
  BY <1>0, <1>3 DEF w, WrkTo, WrkIs, Worker, Unused

LEMMA BootNoRamEffect ==
    ASSUME Typed, NEW g \in Segs, BootNoRam(g)
    PROVE  WrkIs(g, wrk[g].st, "idle", wrk[g].ram, FALSE, wrk[g].cpu, wrk[g].hasCpu,
                 wrk[g].copy)
<1> DEFINE w == [wrk[g] EXCEPT !.cmd = "idle", !.mapped = FALSE]
<1>0. wrk[g] \in Worker
  BY DEF Typed
<1>1. w \in Worker
  BY <1>0 DEF BootNoRam, Typed, Worker
<1>2. wrk' = [wrk EXCEPT ![g] = w]
  BY <1>0 DEF BootNoRam, Typed
<1> HIDE DEF w
<1>3. WrkTo(g, w)
  BY <1>1, <1>2, WrkSet
<1> QED
  BY <1>0, <1>3 DEF w, WrkTo, WrkIs, Worker, Unused

LEMMA ResumeEffect ==
    ASSUME Typed, NEW g \in Segs, Resume(g)
    PROVE  WrkIs(g, wrk[g].st, "idle", wrk[g].ram, wrk[g].mapped, Restored(row.cpu), TRUE,
                 Restored(row.cpu))
<1>a. row.cpu \in Regs
  BY DEF Typed, Row
<1>b. Restored(row.cpu) \in Regs
  BY <1>a, RestoredFacts, Zenon
<1>c. PICK c \in Regs : c = Restored(row.cpu)
  BY <1>b
<1> DEFINE w == [wrk[g] EXCEPT !.cmd = "idle", !.cpu = c, !.hasCpu = TRUE, !.copy = c]
<1>0. wrk[g] \in Worker
  BY DEF Typed
<1>1. w \in Worker
  BY <1>0 DEF Worker
<1>d. wrk' = [wrk EXCEPT ![g].cmd = "idle", ![g].cpu = c, ![g].hasCpu = TRUE, ![g].copy = c]
  BY <1>c, Zenon DEF Resume
<1>2. wrk' = [wrk EXCEPT ![g] = w]
  BY <1>0, <1>d DEF Typed
<1> HIDE DEF w
<1>3. WrkTo(g, w)
  BY <1>1, <1>2, WrkSet
<1>4. WrkIs(g, wrk[g].st, "idle", wrk[g].ram, wrk[g].mapped, c, TRUE, c)
  BY <1>0, <1>3 DEF w, WrkTo, WrkIs, Worker, Unused
<1> QED
  BY <1>c, <1>4, Zenon

LEMMA ColdBootEffect ==
    ASSUME Typed, NEW g \in Segs, ColdBoot(g)
    PROVE  WrkIs(g, wrk[g].st, "idle", wrk[g].ram, wrk[g].mapped, RegsAt(now + 1), TRUE,
                 RegsAt(now + 1))
<1> DEFINE w == [wrk[g] EXCEPT !.cmd = "idle", !.cpu = RegsAt(now + 1), !.hasCpu = TRUE,
                               !.copy = RegsAt(now + 1)]
<1>0. wrk[g] \in Worker
  BY DEF Typed
<1>1. w \in Worker
  <2>1. now + 1 \in Instants
    BY LifecycleAssumption DEF ColdBoot, Typed, Instants
  <2>2. RegsAt(now + 1) \in Regs
    BY <2>1, RegsFacts
  <2> QED
    BY <1>0, <2>2 DEF Worker
<1>2. wrk' = [wrk EXCEPT ![g] = w]
  BY <1>0 DEF ColdBoot, Typed
<1> HIDE DEF w
<1>3. WrkTo(g, w)
  BY <1>1, <1>2, WrkSet
<1> QED
  BY <1>0, <1>3 DEF w, WrkTo, WrkIs, Worker, Unused

LEMMA BootErrorEffect ==
    ASSUME Typed, NEW g \in Segs, BootError(g)
    PROVE  WrkIs(g, wrk[g].st, "idle", wrk[g].ram, wrk[g].mapped, wrk[g].cpu, wrk[g].hasCpu,
                 IF wrk[g].hasCpu THEN wrk[g].cpu ELSE wrk[g].copy)
<1> DEFINE w == [wrk[g] EXCEPT !.cmd = "idle",
                        !.copy = IF wrk[g].hasCpu THEN wrk[g].cpu ELSE wrk[g].copy]
<1>0. wrk[g] \in Worker
  BY DEF Typed
<1>1. w \in Worker
  BY <1>0 DEF BootError, Typed, Worker
<1>2. wrk' = [wrk EXCEPT ![g] = w]
  BY <1>0 DEF BootError, Typed
<1> HIDE DEF w
<1>3. WrkTo(g, w)
  BY <1>1, <1>2, WrkSet
<1> QED
  BY <1>0, <1>3 DEF w, WrkTo, WrkIs, Worker, Unused

LEMMA StepAnswerEffect ==
    ASSUME Typed, NEW g \in Segs, StepAnswer(g)
    PROVE  WrkIs(g, wrk[g].st, "idle", wrk[g].ram, wrk[g].mapped, wrk[g].cpu, wrk[g].hasCpu,
                 wrk[g].cpu)
<1> DEFINE w == [wrk[g] EXCEPT !.cmd = "idle", !.copy = wrk[g].cpu]
<1>0. wrk[g] \in Worker
  BY DEF Typed
<1>1. w \in Worker
  BY <1>0 DEF StepAnswer, Typed, Worker
<1>2. wrk' = [wrk EXCEPT ![g] = w]
  BY <1>0 DEF StepAnswer, Typed
<1> HIDE DEF w
<1>3. WrkTo(g, w)
  BY <1>1, <1>2, WrkSet
<1> QED
  BY <1>0, <1>3 DEF w, WrkTo, WrkIs, Worker, Unused

LEMMA WorkerStartEffect ==
    ASSUME Typed, NEW g \in Segs, WorkerStart(g)
    PROVE  \E st \in {"ready", "failed"} :
              WrkIs(g, st, wrk[g].cmd, wrk[g].ram, wrk[g].mapped, wrk[g].cpu,
                    wrk[g].hasCpu, wrk[g].copy)
<1>1. PICK st \in {"ready", "failed"} : wrk' = [wrk EXCEPT ![g].st = st]
  BY DEF WorkerStart
<1> DEFINE w == [wrk[g] EXCEPT !.st = st]
<1>2. wrk' = [wrk EXCEPT ![g] = w] /\ w \in Worker
  BY <1>1 DEF Typed, Worker
<1> HIDE DEF w
<1>3. WrkTo(g, w)
  BY <1>2, WrkSet
<1> QED
  BY <1>3 DEF w, Typed, WrkTo, WrkIs, Worker

LEMMA StepRunEffect ==
    ASSUME Typed, NEW g \in Segs, StepRun(g)
    PROVE  IF wrk[g].hasCpu THEN /\ WrkIs(g, wrk[g].st, "ran", wrk[g].ram, wrk[g].mapped,
                                          Stepped(wrk[g].cpu, now + 1), wrk[g].hasCpu,
                                          wrk[g].copy)
                                 /\ now + 1 \in Instants
           ELSE WrkIs(g, wrk[g].st, "idle", wrk[g].ram, wrk[g].mapped, wrk[g].cpu,
                      wrk[g].hasCpu, wrk[g].copy)
<1>0. wrk[g] \in Worker
  BY DEF Typed
<1>1. CASE wrk[g].hasCpu
  <2> DEFINE w == [wrk[g] EXCEPT !.cmd = "ran", !.cpu = Stepped(wrk[g].cpu, now + 1)]
  <2>1. now + 1 \in Instants
    BY <1>1, LifecycleAssumption DEF StepRun, Typed, Instants
  <2>a. Stepped(wrk[g].cpu, now + 1) \in Regs
    BY <1>0, <2>1, RegsFacts DEF Worker
  <2>2. w \in Worker
    BY <1>0, <2>a DEF Worker
  <2>3. wrk' = [wrk EXCEPT ![g] = w]
    BY <1>0, <1>1 DEF StepRun, Typed
  <2> HIDE DEF w
  <2>4. WrkTo(g, w)
    BY <2>2, <2>3, WrkSet
  <2>5. WrkIs(g, wrk[g].st, "ran", wrk[g].ram, wrk[g].mapped,
              Stepped(wrk[g].cpu, now + 1), wrk[g].hasCpu, wrk[g].copy)
    BY <1>0, <2>4 DEF w, WrkTo, WrkIs, Worker
  <2> QED
    BY <1>1, <2>1, <2>5
<1>2. CASE ~wrk[g].hasCpu
  <2> DEFINE w == [wrk[g] EXCEPT !.cmd = "idle"]
  <2>1. wrk' = [wrk EXCEPT ![g] = w] /\ w \in Worker
    BY <1>0, <1>2 DEF StepRun, Typed, Worker
  <2> HIDE DEF w
  <2>2. WrkTo(g, w)
    BY <2>1, WrkSet
  <2> QED
    BY <1>0, <1>2, <2>2 DEF w, WrkTo, WrkIs, Worker
<1> QED
  BY <1>1, <1>2

\* What the actions of a session leave of it.
LEMMA LaunchEffect ==
    ASSUME Typed, NEW s \in Sessions, Launch(s)
    PROVE  \E a \in Found(s), g \in Segs :
              /\ ~Ready(a) /\ wrk[g].st = "unused"
              /\ WrkIs(g, "starting", wrk[g].cmd, wrk[g].ram, wrk[g].mapped, wrk[g].cpu,
                       wrk[g].hasCpu, wrk[g].copy)
              /\ SesIs(s, g, ses[s].map, "launch", ses[s].ends, ses[s].reg, ses[s].buf)
              /\ excused' = IF Unaware(s) THEN excused \cup {g} ELSE excused
<1>1. PICK a \in Found(s), g \in Segs :
         /\ ~Ready(a) /\ wrk[g].st = "unused"
         /\ wrk' = [wrk EXCEPT ![g].st = "starting"]
         /\ ses' = [ses EXCEPT ![s].att = g, ![s].at = "launch"]
         /\ excused' = IF Unaware(s) THEN excused \cup {g} ELSE excused
  BY DEF Launch
<1> DEFINE e == [ses[s] EXCEPT !.att = g, !.at = "launch"]
           w == [wrk[g] EXCEPT !.st = "starting"]
<1>2. ses' = [ses EXCEPT ![s] = e] /\ e \in Session
  BY <1>1 DEF Typed, Session
<1>3. wrk' = [wrk EXCEPT ![g] = w] /\ w \in Worker
  BY <1>1 DEF Typed, Worker
<1> HIDE DEF e, w
<1>4. SesTo(s, e) /\ WrkTo(g, w)
  BY <1>2, <1>3, SesSet, WrkSet
<1>5. SesIs(s, g, ses[s].map, "launch", ses[s].ends, ses[s].reg, ses[s].buf)
  BY <1>4 DEF e, Typed, SesTo, SesIs, Session
<1>6. WrkIs(g, "starting", wrk[g].cmd, wrk[g].ram, wrk[g].mapped, wrk[g].cpu,
            wrk[g].hasCpu, wrk[g].copy)
  BY <1>4 DEF w, Typed, WrkTo, WrkIs, Worker
<1> QED
  BY <1>1, <1>5, <1>6

LEMMA LaunchedEffect ==
    ASSUME Typed, Waits, NEW s \in Sessions, Launched(s)
    PROVE  LET g == ses[s].att
           IN  /\ g \in Segs /\ wrk[g].st \in {"ready", "dead"}
               /\ WrkIs(g, wrk[g].st, "boot", wrk[g].ram, wrk[g].mapped, wrk[g].cpu,
                        wrk[g].hasCpu, wrk[g].copy)
               /\ SesIs(s, ses[s].att, ses[s].map, "call", "return",
                        IF row.exists THEN g ELSE None, ses[s].buf)
<1> DEFINE g == ses[s].att
           e == [ses[s] EXCEPT !.at = "call", !.ends = "return",
                               !.reg = IF row.exists THEN g ELSE None]
           w == [wrk[g] EXCEPT !.cmd = "boot"]
<1>0. ses[s] \in Session /\ g \in Segs /\ wrk[g] \in Worker
  BY DEF Typed, Launched, Waits, Session, Ready
<1>1. ses' = [ses EXCEPT ![s] = e]
  BY DEF Launched, Typed
<1>2. e \in Session
  BY <1>0 DEF Session
<1>3. wrk' = [wrk EXCEPT ![g] = w] /\ w \in Worker
  BY <1>0 DEF Launched, Post, Typed, Worker
<1>4. wrk[g].st \in {"ready", "dead"}
  BY DEF Launched, Ready
<1> HIDE DEF e, w
<1>5. SesTo(s, e) /\ WrkTo(g, w)
  BY <1>0, <1>1, <1>2, <1>3, SesSet, WrkSet
<1> QED
  BY <1>0, <1>4, <1>5 DEF e, w, SesTo, SesIs, Session, WrkTo, WrkIs, Worker

LEMMA ReturnEffect ==
    ASSUME Typed, NEW s \in Sessions, Return(s)
    PROVE  \E a \in {None, ses[s].att} :
              SesIs(s, a, ses[s].map, "idle", "none", None, ses[s].buf)
<1> DEFINE a == IF ses[s].ends = "detach" /\ wrk[ses[s].att].st # "dead"
                THEN None ELSE ses[s].att
           e == [ses[s] EXCEPT !.at = "idle", !.ends = "none", !.reg = None, !.att = a]
<1>1. ses' = [ses EXCEPT ![s] = e]
  BY DEF Return, Typed
<1>2. a \in {None, ses[s].att}
  OBVIOUS
<1> HIDE DEF a
<1>3. e \in Session
  BY <1>2 DEF Typed, Session
<1> HIDE DEF e
<1>4. SesTo(s, e)
  BY <1>1, <1>3, SesSet
<1> QED
  BY <1>2, <1>4 DEF e, Typed, SesTo, SesIs, Session

LEMMA LaunchErrorEffect ==
    ASSUME Typed, NEW s \in Sessions, LaunchError(s)
    PROVE  SesIs(s, ses[s].att, ses[s].map, "idle", ses[s].ends, ses[s].reg, ses[s].buf)
<1> DEFINE e == [ses[s] EXCEPT !.at = "idle"]
<1>1. ses' = [ses EXCEPT ![s] = e] /\ e \in Session
  BY DEF LaunchError, Typed, Session
<1> HIDE DEF e
<1>2. SesTo(s, e)
  BY <1>1, SesSet
<1> QED
  BY <1>2 DEF e, Typed, SesTo, SesIs, Session

LEMMA SaveRamEffect ==
    ASSUME Typed, NEW s \in Sessions, SaveRam(s)
    PROVE  \E a \in Found(s), m \in Rams :
              /\ a \in Segs /\ wrk[a].st \in {"ready", "dead"} /\ wrk[a].ram # None
              /\ SesIs(s, a, m, "save", ses[s].ends, ses[s].reg, ram[m])
              /\ overlap' = IF wrk[a].cmd \in {"loading", "ran"} \/ m # wrk[a].ram
                            THEN overlap \cup {s} ELSE overlap
<1>1. PICK a \in Found(s) :
         /\ Ready(a) /\ wrk[a].ram # None
         /\ LET m == IF ses[s].map = None THEN wrk[a].ram ELSE ses[s].map
            IN  /\ ses' = [ses EXCEPT ![s].att = a, ![s].map = m, ![s].at = "save",
                                      ![s].buf = ram[m]]
                /\ overlap' = IF wrk[a].cmd \in {"loading", "ran"} \/ m # wrk[a].ram
                              THEN overlap \cup {s} ELSE overlap
  BY DEF SaveRam
<1> DEFINE m == IF ses[s].map = None THEN wrk[a].ram ELSE ses[s].map
           e == [ses[s] EXCEPT !.att = a, !.map = m, !.at = "save", !.buf = ram[m]]
<1>2. a \in Segs /\ wrk[a].st \in {"ready", "dead"}
  BY <1>1, FoundIsSeg DEF Ready
<1>3. m \in Rams
  BY <1>1, <1>2 DEF Typed, Session, Worker
<1>4. ses' = [ses EXCEPT ![s] = e]
  BY <1>1 DEF Typed
<1>5. overlap' = IF wrk[a].cmd \in {"loading", "ran"} \/ m # wrk[a].ram
                 THEN overlap \cup {s} ELSE overlap
  BY <1>1
<1> HIDE DEF m
<1>6. ram[m] \in Instants /\ ses[s] \in Session
  BY <1>3 DEF Typed
<1>7. e \in Session
  BY <1>2, <1>3, <1>6 DEF Session
<1> HIDE DEF e
<1>8. SesTo(s, e)
  BY <1>4, <1>7, SesSet
<1>9. SesIs(s, a, m, "save", ses[s].ends, ses[s].reg, ram[m])
  BY <1>6, <1>8 DEF e, SesTo, SesIs, Session
<1> QED
  BY <1>1, <1>2, <1>3, <1>5, <1>9

LEMMA SaveCpuEffect ==
    ASSUME Typed, NEW s \in Sessions, SaveCpu(s)
    PROVE  SesIs(s, ses[s].att, ses[s].map, "idle", ses[s].ends, ses[s].reg, 0)
<1> DEFINE e == [ses[s] EXCEPT !.at = "idle", !.buf = 0]
<1>1. ses' = [ses EXCEPT ![s] = e]
  BY DEF SaveCpu, Typed
<1>2. e \in Session
  BY NoneFacts DEF Typed, Session
<1> HIDE DEF e
<1>3. SesTo(s, e)
  BY <1>1, <1>2, SesSet
<1> QED
  BY <1>3 DEF e, Typed, SesTo, SesIs, Session

\* A session may be attached to another segment, or to none.
LEMMA AttachEffect ==
    ASSUME Typed, NEW s \in Sessions, NEW a \in Segs \cup {None},
           ses' = [ses EXCEPT ![s].att = a]
    PROVE  SesIs(s, a, ses[s].map, ses[s].at, ses[s].ends, ses[s].reg, ses[s].buf)
<1> DEFINE e == [ses[s] EXCEPT !.att = a]
<1>1. ses' = [ses EXCEPT ![s] = e] /\ e \in Session
  BY DEF Typed, Session
<1> HIDE DEF e
<1>2. SesTo(s, e)
  BY <1>1, SesSet
<1> QED
  BY <1>2 DEF e, Typed, SesTo, SesIs, Session

\* The calls that post a command, or only find that they cannot.
LEMMA AskEffect ==
    ASSUME Typed, NEW s \in Sessions,
           BootFound(s) \/ Step(s) \/ Halt(s) \/ LaunchRefused(s)
    PROVE  /\ ses[s].at = "idle"
           /\ UNCHANGED <<ram, row, now, rams, overlap, torn, spoiled, excused>>
           /\ \/ \E g \in Segs, c \in {"boot", "step", "halt"}, ends \in {"return", "detach"} :
                    /\ g \in Found(s) /\ g \in Live /\ wrk[g].cmd = "idle"
                    /\ SesIs(s, g, ses[s].map, "call", ends, ses[s].reg, ses[s].buf)
                    /\ WrkIs(g, wrk[g].st, c, wrk[g].ram, wrk[g].mapped, wrk[g].cpu,
                             wrk[g].hasCpu, wrk[g].copy)
              \/ \E a \in Found(s) \cup {None} :
                    /\ a \in Segs \cup {None}
                    /\ SesIs(s, a, ses[s].map, ses[s].at, ses[s].ends, ses[s].reg, ses[s].buf)
                    /\ UNCHANGED wrk
<1>1. /\ ses[s].at = "idle"
      /\ UNCHANGED <<ram, row, now, rams, overlap, torn, spoiled, excused>>
  BY DEF BootFound, Step, Halt, LaunchRefused
<1>2. ASSUME NEW a \in Found(s), Ready(a), NEW c \in {"boot", "step", "halt"},
             NEW ends \in {"return", "detach"}, Call(s, a, c, ends)
      PROVE  \/ /\ a \in Segs /\ a \in Live /\ wrk[a].cmd = "idle"
                /\ SesIs(s, a, ses[s].map, "call", ends, ses[s].reg, ses[s].buf)
                /\ WrkIs(a, wrk[a].st, c, wrk[a].ram, wrk[a].mapped, wrk[a].cpu,
                         wrk[a].hasCpu, wrk[a].copy)
             \/ /\ a \in Segs
                /\ SesIs(s, a, ses[s].map, ses[s].at, ses[s].ends, ses[s].reg, ses[s].buf)
                /\ UNCHANGED wrk
  <2>1. a \in Segs
    BY <1>2, FoundIsSeg
  <2> QED
    BY <1>2, <2>1, CallEffect
<1>3. ASSUME NEW a \in Found(s) \cup {None}, ses' = [ses EXCEPT ![s].att = a], UNCHANGED wrk
      PROVE  a \in Segs \cup {None} /\ SesIs(s, a, ses[s].map, ses[s].at, ses[s].ends,
                                             ses[s].reg, ses[s].buf)
  <2>1. a \in Segs \cup {None}
    BY FoundIsSeg
  <2> QED
    BY <1>3, <2>1, AttachEffect
<1>4. CASE BootFound(s)
  <2>1. PICK a \in Found(s) : Ready(a) /\ Call(s, a, "boot", "return")
    BY <1>4 DEF BootFound
  <2> QED
    BY <1>1, <1>2, <2>1
<1>5. CASE Step(s)
  <2>1. PICK a \in Found(s) :
           IF Ready(a) THEN Call(s, a, "step", "return")
           ELSE ses' = [ses EXCEPT ![s].att = a] /\ UNCHANGED wrk
    BY <1>5 DEF Step
  <2>2. CASE Ready(a)
    BY <1>1, <1>2, <2>1, <2>2
  <2>3. CASE ~Ready(a)
    BY <1>1, <1>3, <2>1, <2>3
  <2> QED
    BY <2>2, <2>3
<1>6. CASE Halt(s)
  <2>1. ses[s].att \in Found(s)
    BY <1>6 DEF Halt, Found
  <2>2. CASE Ready(ses[s].att)
    <3>1. Call(s, ses[s].att, "halt", "detach")
      BY <1>6, <2>2 DEF Halt
    <3> QED
      BY <1>1, <1>2, <2>1, <2>2, <3>1
  <2>3. CASE ~Ready(ses[s].att)
    <3>1. ses' = [ses EXCEPT ![s].att = None] /\ UNCHANGED wrk
      BY <1>6, <2>3 DEF Halt
    <3> QED
      BY <1>1, <1>3, <3>1
  <2> QED
    BY <2>2, <2>3
<1>7. CASE LaunchRefused(s)
  <2>1. ses' = [ses EXCEPT ![s].att = None] /\ UNCHANGED wrk
    BY <1>7 DEF LaunchRefused
  <2> QED
    BY <1>1, <1>3, <2>1
<1> QED
  BY <1>4, <1>5, <1>6, <1>7

\* The first state has the types.
LEMMA InitTyped == Init => Typed /\ Waits /\ Halfway
<1> SUFFICES ASSUME Init PROVE Typed /\ Waits /\ Halfway
  OBVIOUS
<1>1. ses \in [Sessions -> Session] /\ wrk \in [Segs -> Worker]
  BY Constants DEF Init
<1>2. row \in Row /\ now \in Instants
  <2>1. 0 \in Instants /\ 1 \in Instants
    BY LifecycleAssumption DEF Instants
  <2>2. NoRow \in Row /\ SavedRow(1) \in Row
    BY <2>1, RegsFacts DEF NoRow, SavedRow, Row
  <2> QED
    BY <2>1, <2>2 DEF Init
<1>3. ram \in [Rams -> Instants] /\ rams = 0 /\ overlap = {} /\ spoiled = {} /\ excused = {}
      /\ torn = FALSE
  BY NoneFacts DEF Init
<1>4. \A g \in Segs : ~wrk[g].hasCpu /\ ~wrk[g].mapped
  BY DEF Init, Unused
<1>5. Waits /\ Halfway
  BY DEF Init, Waits, Halfway, Detached, Unused
<1> QED
  BY <1>1, <1>2, <1>3, <1>4, <1>5 DEF Typed

\* Every step keeps the types.
LEMMA NextTyped == Typed /\ Waits /\ Halfway /\ [Next]_vars => Typed'
<1> SUFFICES ASSUME Typed, Waits, Halfway, [Next]_vars PROVE Typed'
  OBVIOUS
<1>a. ASSUME NEW s \in Sessions PROVE ses[s] \in Session
  BY DEF Typed
<1>b. ASSUME NEW g \in Segs
      PROVE  wrk[g] \in Worker /\ (wrk[g].hasCpu \/ wrk[g].mapped => wrk[g].ram # None)
  BY DEF Typed
<1>c. ASSUME NEW g \in Segs, \A h \in Segs \ {g} : wrk'[h] = wrk[h],
             wrk'[g].hasCpu \/ wrk'[g].mapped => wrk'[g].ram # None
      PROVE  \A h \in Segs : wrk'[h].hasCpu \/ wrk'[h].mapped => wrk'[h].ram # None
  BY <1>b, <1>c
<1>1. ASSUME NEW s \in Sessions, Launch(s) PROVE Typed'
  <2>1. PICK g \in Segs :
           /\ WrkIs(g, "starting", wrk[g].cmd, wrk[g].ram, wrk[g].mapped, wrk[g].cpu,
                    wrk[g].hasCpu, wrk[g].copy)
           /\ ses' \in [Sessions -> Session]
           /\ excused' \subseteq excused \cup {g}
    BY <1>1, LaunchEffect DEF SesIs
  <2>2. \A h \in Segs : wrk'[h].hasCpu \/ wrk'[h].mapped => wrk'[h].ram # None
    BY <1>b, <1>c, <2>1 DEF WrkIs
  <2> QED
    BY <1>1, <2>1, <2>2 DEF Launch, Typed, WrkIs
<1>2. ASSUME NEW s \in Sessions, BootFound(s) \/ Step(s) \/ Halt(s) \/ LaunchRefused(s)
      PROVE  Typed'
  <2>1. /\ ses' \in [Sessions -> Session]
        /\ UNCHANGED <<ram, row, now, rams, overlap, torn, spoiled, excused>>
        /\ \/ UNCHANGED wrk
           \/ \E g \in Segs, c \in {"boot", "step", "halt"} :
                 WrkIs(g, wrk[g].st, c, wrk[g].ram, wrk[g].mapped, wrk[g].cpu,
                       wrk[g].hasCpu, wrk[g].copy)
    BY <1>2, AskEffect DEF SesIs
  <2>2. CASE UNCHANGED wrk
    BY <2>1, <2>2 DEF Typed
  <2>3. ASSUME NEW g \in Segs, NEW c \in {"boot", "step", "halt"},
               WrkIs(g, wrk[g].st, c, wrk[g].ram, wrk[g].mapped, wrk[g].cpu,
                     wrk[g].hasCpu, wrk[g].copy)
        PROVE  Typed'
    <3>1. \A h \in Segs : wrk'[h].hasCpu \/ wrk'[h].mapped => wrk'[h].ram # None
      BY <1>b, <1>c, <2>3 DEF WrkIs
    <3> QED
      BY <2>1, <2>3, <3>1 DEF Typed, WrkIs
  <2> QED
    BY <2>1, <2>2, <2>3
<1>3. ASSUME NEW s \in Sessions, Launched(s) PROVE Typed'
  <2> DEFINE g == ses[s].att
  <2>1. /\ g \in Segs /\ ses' \in [Sessions -> Session]
        /\ WrkIs(g, wrk[g].st, "boot", wrk[g].ram, wrk[g].mapped, wrk[g].cpu,
                 wrk[g].hasCpu, wrk[g].copy)
    BY <1>3, LaunchedEffect DEF SesIs
  <2>2. excused' \subseteq excused \cup {g}
        /\ UNCHANGED <<ram, row, now, rams, overlap, torn, spoiled>>
    BY <1>3 DEF Launched
  <2> HIDE DEF g
  <2>3. \A h \in Segs : wrk'[h].hasCpu \/ wrk'[h].mapped => wrk'[h].ram # None
    BY <1>b, <1>c, <2>1 DEF WrkIs
  <2> QED
    BY <2>1, <2>2, <2>3 DEF Typed, WrkIs
<1>4. ASSUME NEW s \in Sessions, LaunchError(s) PROVE Typed'
  BY <1>4, LaunchErrorEffect DEF LaunchError, SesIs, Typed
<1>5. ASSUME NEW s \in Sessions, Return(s) PROVE Typed'
  <2>1. ses' \in [Sessions -> Session]
    BY <1>5, ReturnEffect DEF SesIs
  <2>2. ses[s].reg \in Segs \cup {None} /\ row.handle \in Segs \cup {None}
    BY <1>a DEF Typed, Session, Row
  <2>3. row' \in Row /\ excused' \subseteq Segs
    <3>1. row' = row \/ (ses[s].reg # None /\ row' = [row EXCEPT !.handle = ses[s].reg])
      BY <1>5 DEF Return
    <3>2. row' \in Row
      BY <2>2, <3>1 DEF Typed, Row
    <3>3. \/ excused' = excused
          \/ excused' = excused \cup ({row.handle} \cap Live)
          \/ ses[s].reg # None /\ excused' = excused \cup {ses[s].reg}
      BY <1>5 DEF Return
    <3> QED
      BY <2>2, <3>2, <3>3 DEF Typed, Live
  <2> QED
    BY <1>5, <2>1, <2>3 DEF Return, Typed
<1>6. ASSUME NEW s \in Sessions, Reset(s) PROVE Typed'
  BY <1>6, Constants DEF Reset, Typed, Live
<1>7. ASSUME NEW s \in Sessions, Disconnect(s) PROVE Typed'
  BY <1>7, Constants DEF Disconnect, Typed
<1>8. ASSUME NEW s \in Sessions, SaveRam(s) PROVE Typed'
  <2>1. ses' \in [Sessions -> Session] /\ overlap' \subseteq overlap \cup {s}
    BY <1>8, SaveRamEffect DEF SesIs
  <2> QED
    BY <1>8, <2>1 DEF SaveRam, Typed
<1>9. ASSUME NEW s \in Sessions, SaveCpu(s) PROVE Typed'
  <2>1. ses' \in [Sessions -> Session]
    BY <1>9, SaveCpuEffect DEF SesIs
  <2>2. ses[s].att \in Segs /\ ses[s].buf \in Instants /\ row.handle \in Segs \cup {None}
    BY <1>9, <1>a DEF SaveCpu, Waits, Session, Typed, Row
  <2>3. wrk[ses[s].att].copy \in Regs
    BY <1>b, <2>2 DEF Worker
  <2>4. row' \in Row
    BY <1>9, <2>2, <2>3 DEF SaveCpu, Row
  <2>5. torn' \in BOOLEAN
    BY <1>9 DEF SaveCpu
  <2>6. overlap' \subseteq Sessions /\ UNCHANGED <<wrk, ram, now, rams, spoiled, excused>>
    BY <1>9 DEF SaveCpu, Typed
  <2> QED
    BY <2>1, <2>4, <2>5, <2>6 DEF Typed
<1>10. CASE ServerCrash
  <2>1. ses' \in [Sessions -> Session]
    BY <1>10, Constants DEF ServerCrash
  <2>2. /\ wrk' \in [Segs -> Worker]
        /\ \A h \in Segs : wrk'[h].hasCpu \/ wrk'[h].mapped => wrk'[h].ram # None
    BY <1>10, Constants DEF ServerCrash, Unused, None, Worker
  <2>3. ram' \in [Rams -> Instants]
    BY <1>10, NoneFacts DEF ServerCrash
  <2> QED
    BY <1>10, <2>1, <2>2, <2>3 DEF ServerCrash, Typed
<1>11. ASSUME NEW g \in Segs, WorkerStart(g) PROVE Typed'
  <2>1. PICK st \in {"ready", "failed"} :
           WrkIs(g, st, wrk[g].cmd, wrk[g].ram, wrk[g].mapped, wrk[g].cpu,
                 wrk[g].hasCpu, wrk[g].copy)
    BY <1>11, WorkerStartEffect
  <2>2. \A h \in Segs : wrk'[h].hasCpu \/ wrk'[h].mapped => wrk'[h].ram # None
    BY <1>b, <1>c, <2>1 DEF WrkIs
  <2> QED
    BY <1>11, <2>1, <2>2 DEF WorkerStart, Typed, WrkIs
<1>12. ASSUME NEW g \in Segs, WorkerTerm(g) \/ WorkerHalt(g) PROVE Typed'
  <2>0. Stopped(g)
    BY <1>12 DEF WorkerTerm, WorkerHalt
  <2>1. wrk' \in [Segs -> Worker] /\ \A h \in Segs \ {g} : wrk'[h] = wrk[h]
    BY <2>0, StoppedEffect DEF WrkIs
  <2>2. wrk'[g].hasCpu \/ wrk'[g].mapped => wrk'[g].ram # None
    BY <2>0, <1>b, StoppedEffect DEF WrkIs
  <2>3. \A h \in Segs : wrk'[h].hasCpu \/ wrk'[h].mapped => wrk'[h].ram # None
    BY <1>c, <2>1, <2>2
  <2> QED
    BY <2>0, <2>1, <2>3 DEF Stopped, Typed
<1>13. ASSUME NEW g \in Segs, WorkerError(g) PROVE Typed'
  <2>1. wrk' \in [Segs -> Worker] /\ \A h \in Segs \ {g} : wrk'[h] = wrk[h]
    BY <1>13, WorkerErrorEffect DEF WrkIs
  <2>2. wrk'[g].hasCpu \/ wrk'[g].mapped => wrk'[g].ram # None
    BY <1>13, <1>b, WorkerErrorEffect DEF WrkIs
  <2>3. \A h \in Segs : wrk'[h].hasCpu \/ wrk'[h].mapped => wrk'[h].ram # None
    BY <1>c, <2>1, <2>2
  <2> QED
    BY <1>13, <2>1, <2>3 DEF WorkerError, Typed
<1>14. ASSUME NEW g \in Segs, BootLoad(g) PROVE Typed'
  <2>0. rams + 1 \in Rams /\ rams + 1 # None
    BY <1>14, LifecycleAssumption DEF BootLoad, Typed, Rams, None
  <2>1. wrk' \in [Segs -> Worker] /\ \A h \in Segs \ {g} : wrk'[h] = wrk[h]
    BY <1>14, BootLoadEffect DEF WrkIs
  <2>2. wrk'[g].hasCpu \/ wrk'[g].mapped => wrk'[g].ram # None
    BY <1>14, <1>b, BootLoadEffect, <2>0 DEF WrkIs
  <2>3. \A h \in Segs : wrk'[h].hasCpu \/ wrk'[h].mapped => wrk'[h].ram # None
    BY <1>c, <2>1, <2>2
  <2> QED
    BY <1>14, <2>1, <2>3, <2>0 DEF BootLoad, Typed, Saving
<1>15. ASSUME NEW g \in Segs, BootNoRam(g) PROVE Typed'
  <2>1. wrk' \in [Segs -> Worker] /\ \A h \in Segs \ {g} : wrk'[h] = wrk[h]
    BY <1>15, BootNoRamEffect DEF WrkIs
  <2>2. wrk'[g].hasCpu \/ wrk'[g].mapped => wrk'[g].ram # None
    BY <1>15, <1>b, BootNoRamEffect DEF WrkIs
  <2>3. \A h \in Segs : wrk'[h].hasCpu \/ wrk'[h].mapped => wrk'[h].ram # None
    BY <1>c, <2>1, <2>2
  <2> QED
    BY <1>15, <2>1, <2>3 DEF BootNoRam, Typed
<1>16. ASSUME NEW g \in Segs, Resume(g) PROVE Typed'
  <2>1. wrk' \in [Segs -> Worker] /\ \A h \in Segs \ {g} : wrk'[h] = wrk[h]
    BY <1>16, ResumeEffect DEF WrkIs
  <2>2. wrk'[g].hasCpu \/ wrk'[g].mapped => wrk'[g].ram # None
    <3>1. wrk[g].ram # None
      BY <1>16 DEF Halfway, Resume
    <3> QED
      BY <1>16, <3>1, ResumeEffect DEF WrkIs
  <2>3. \A h \in Segs : wrk'[h].hasCpu \/ wrk'[h].mapped => wrk'[h].ram # None
    BY <1>c, <2>1, <2>2
  <2>4. ram' \in [Rams -> Instants] /\ overlap' \subseteq Sessions /\ spoiled' \subseteq Segs
    BY <1>16 DEF Resume, Typed, Saving, Row
  <2> QED
    BY <1>16, <2>1, <2>3, <2>4 DEF Resume, Typed
<1>17. ASSUME NEW g \in Segs, ColdBoot(g) PROVE Typed'
  <2>0. now + 1 \in Instants
    BY <1>17, LifecycleAssumption DEF ColdBoot, Typed, Instants
  <2>1. wrk' \in [Segs -> Worker] /\ \A h \in Segs \ {g} : wrk'[h] = wrk[h]
    BY <1>17, ColdBootEffect DEF WrkIs
  <2>2. wrk'[g].hasCpu \/ wrk'[g].mapped => wrk'[g].ram # None
    <3>1. wrk[g].ram # None
      BY <1>17 DEF Halfway, ColdBoot
    <3> QED
      BY <1>17, <3>1, ColdBootEffect DEF WrkIs
  <2>3. \A h \in Segs : wrk'[h].hasCpu \/ wrk'[h].mapped => wrk'[h].ram # None
    BY <1>c, <2>1, <2>2
  <2>4. ram' \in [Rams -> Instants] /\ overlap' \subseteq Sessions /\ spoiled' \subseteq Segs
    BY <1>17, <2>0 DEF ColdBoot, Typed, Saving
  <2> QED
    BY <1>17, <2>1, <2>3, <2>0, <2>4 DEF ColdBoot, Typed
<1>18. ASSUME NEW g \in Segs, BootError(g) PROVE Typed'
  <2>1. wrk' \in [Segs -> Worker] /\ \A h \in Segs \ {g} : wrk'[h] = wrk[h]
    BY <1>18, BootErrorEffect DEF WrkIs
  <2>2. wrk'[g].hasCpu \/ wrk'[g].mapped => wrk'[g].ram # None
    BY <1>18, <1>b, BootErrorEffect DEF WrkIs
  <2>3. \A h \in Segs : wrk'[h].hasCpu \/ wrk'[h].mapped => wrk'[h].ram # None
    BY <1>c, <2>1, <2>2
  <2> QED
    BY <1>18, <2>1, <2>3 DEF BootError, Typed
<1>19. ASSUME NEW g \in Segs, StepAnswer(g) PROVE Typed'
  <2>1. wrk' \in [Segs -> Worker] /\ \A h \in Segs \ {g} : wrk'[h] = wrk[h]
    BY <1>19, StepAnswerEffect DEF WrkIs
  <2>2. wrk'[g].hasCpu \/ wrk'[g].mapped => wrk'[g].ram # None
    BY <1>19, <1>b, StepAnswerEffect DEF WrkIs
  <2>3. \A h \in Segs : wrk'[h].hasCpu \/ wrk'[h].mapped => wrk'[h].ram # None
    BY <1>c, <2>1, <2>2
  <2> QED
    BY <1>19, <2>1, <2>3 DEF StepAnswer, Typed, Saving
<1>20. ASSUME NEW g \in Segs, StepRun(g) PROVE Typed'
  <2>1. /\ wrk' \in [Segs -> Worker] /\ \A h \in Segs \ {g} : wrk'[h] = wrk[h]
        /\ wrk'[g].hasCpu \/ wrk'[g].mapped => wrk'[g].ram # None
        /\ wrk[g].hasCpu => now + 1 \in Instants
    BY <1>20, <1>b, StepRunEffect DEF WrkIs
  <2>2. \A h \in Segs : wrk'[h].hasCpu \/ wrk'[h].mapped => wrk'[h].ram # None
    BY <1>c, <2>1
  <2>3. now' \in Instants /\ ram' \in [Rams -> Instants]
    BY <1>20, <2>1 DEF StepRun, Typed
  <2> QED
    BY <1>20, <2>1, <2>2, <2>3 DEF StepRun, Typed, Saving
<1>21. CASE UNCHANGED vars
  BY <1>21 DEF vars, Typed
<1> QED
  BY <1>1, <1>2, <1>3, <1>4, <1>5, <1>6, <1>7, <1>8, <1>9, <1>10, <1>11, <1>12, <1>13,
     <1>14, <1>15, <1>16, <1>17, <1>18, <1>19, <1>20, <1>21 DEF Next, Serve

-----------------------------------------------------------------------------
(* A worker that was ready stays one that was ready, until the server goes *)
(* down.                                                                   *)

\* A worker that serves a command other than the halt leaves every worker's
\* state alone, and the other workers in everything.
LEMMA WorkIsOwn ==
    ASSUME Typed, NEW g \in Segs,
           \/ BootLoad(g) \/ BootNoRam(g) \/ Resume(g) \/ ColdBoot(g) \/ BootError(g)
           \/ StepRun(g) \/ StepAnswer(g)
    PROVE  /\ \A h \in Segs : wrk'[h].st = wrk[h].st
           /\ \A h \in Segs \ {g} : wrk'[h] = wrk[h]
<1>1. BootLoad(g) => wrk'[g].st = wrk[g].st /\ \A h \in Segs \ {g} : wrk'[h] = wrk[h]
  BY BootLoadEffect DEF WrkIs
<1>2. BootNoRam(g) => wrk'[g].st = wrk[g].st /\ \A h \in Segs \ {g} : wrk'[h] = wrk[h]
  BY BootNoRamEffect DEF WrkIs
<1>3. Resume(g) => wrk'[g].st = wrk[g].st /\ \A h \in Segs \ {g} : wrk'[h] = wrk[h]
  BY ResumeEffect DEF WrkIs
<1>4. ColdBoot(g) => wrk'[g].st = wrk[g].st /\ \A h \in Segs \ {g} : wrk'[h] = wrk[h]
  BY ColdBootEffect DEF WrkIs
<1>5. BootError(g) => wrk'[g].st = wrk[g].st /\ \A h \in Segs \ {g} : wrk'[h] = wrk[h]
  BY BootErrorEffect DEF WrkIs
<1>6. StepRun(g) => wrk'[g].st = wrk[g].st /\ \A h \in Segs \ {g} : wrk'[h] = wrk[h]
  BY StepRunEffect DEF WrkIs
<1>7. StepAnswer(g) => wrk'[g].st = wrk[g].st /\ \A h \in Segs \ {g} : wrk'[h] = wrk[h]
  BY StepAnswerEffect DEF WrkIs
<1> QED
  BY <1>1, <1>2, <1>3, <1>4, <1>5, <1>6, <1>7

LEMMA StatusSteps ==
    ASSUME Typed, Waits, Halfway, [Next]_vars, ~ServerCrash
    PROVE  \A h \in Segs :
              /\ wrk[h].st \in WasReady => wrk'[h].st \in WasReady
              /\ wrk[h].st = "lost" => wrk'[h].st = "lost"
<1> DEFINE Keeps == \A h \in Segs :
                       /\ wrk[h].st \in WasReady => wrk'[h].st \in WasReady
                       /\ wrk[h].st = "lost" => wrk'[h].st = "lost"
<1> SUFFICES Keeps
  OBVIOUS
<1>0. CASE \A h \in Segs : wrk'[h].st = wrk[h].st
  BY <1>0
<1>1. ASSUME NEW s \in Sessions, Launch(s) PROVE Keeps
  <2>1. PICK g \in Segs : /\ wrk[g].st = "unused" /\ \A h \in Segs \ {g} : wrk'[h] = wrk[h]
    BY <1>1, LaunchEffect DEF WrkIs
  <2> QED
    BY <2>1 DEF WasReady
<1>2. ASSUME NEW s \in Sessions, BootFound(s) \/ Step(s) \/ Halt(s) \/ LaunchRefused(s)
      PROVE  \A h \in Segs : wrk'[h].st = wrk[h].st
  BY <1>2, AskEffect DEF WrkIs
<1>3. ASSUME NEW s \in Sessions, Launched(s) PROVE \A h \in Segs : wrk'[h].st = wrk[h].st
  BY <1>3, LaunchedEffect DEF WrkIs
<1>4. ASSUME NEW s \in Sessions,
             LaunchError(s) \/ Return(s) \/ Reset(s) \/ Disconnect(s) \/ SaveRam(s) \/ SaveCpu(s)
      PROVE  \A h \in Segs : wrk'[h].st = wrk[h].st
  BY <1>4 DEF LaunchError, Return, Reset, Disconnect, SaveRam, SaveCpu
<1>5. ASSUME NEW g \in Segs, WorkerStart(g) PROVE Keeps
  <2>1. wrk[g].st = "starting" /\ \A h \in Segs \ {g} : wrk'[h] = wrk[h]
    <3>1. \A h \in Segs \ {g} : wrk'[h] = wrk[h]
      BY <1>5, WorkerStartEffect DEF WrkIs
    <3> QED
      BY <1>5, <3>1 DEF WorkerStart
  <2> QED
    BY <2>1 DEF WasReady
<1>6. ASSUME NEW g \in Segs, WorkerTerm(g) \/ WorkerHalt(g) PROVE Keeps
  <2>0. Stopped(g) /\ wrk[g].st = "ready"
    BY <1>6 DEF WorkerTerm, WorkerHalt, Live
  <2>1. wrk'[g].st = "gone" /\ \A h \in Segs \ {g} : wrk'[h] = wrk[h]
    BY <2>0, StoppedEffect DEF WrkIs
  <2> QED
    BY <2>0, <2>1 DEF WasReady
<1>7. ASSUME NEW g \in Segs, WorkerError(g) PROVE Keeps
  <2>0. wrk[g].st = "ready"
    BY <1>7 DEF WorkerError, Live
  <2>1. wrk'[g].st = "dead" /\ \A h \in Segs \ {g} : wrk'[h] = wrk[h]
    BY <1>7, WorkerErrorEffect DEF WrkIs
  <2> QED
    BY <2>0, <2>1 DEF WasReady
<1>8. ASSUME NEW g \in Segs, BootLoad(g) \/ BootNoRam(g) \/ Resume(g) \/ ColdBoot(g)
                             \/ BootError(g) \/ StepRun(g) \/ StepAnswer(g)
      PROVE  \A h \in Segs : wrk'[h].st = wrk[h].st
  BY <1>8, WorkIsOwn
<1>9. CASE UNCHANGED vars
  BY <1>9 DEF vars
<1> QED
  BY <1>0, <1>1, <1>2, <1>3, <1>4, <1>5, <1>6, <1>7, <1>8, <1>9 DEF Next, Serve

\* What a session has found, or would find in the row, was ready.
LEMMA FoundWasReady ==
    ASSUME Typed, AttachedWasReady, NEW s \in Sessions, ses[s].at # "launch",
           NEW a \in Found(s), a # None
    PROVE  a \in Segs /\ wrk[a].st \in WasReady
<1>1. a \in Segs
  BY FoundIsSeg
<1>2. CASE ses[s].att # None
  BY <1>1, <1>2 DEF Found, AttachedWasReady, WasReady
<1>3. CASE ses[s].att = None
  BY <1>1, <1>3 DEF Found, AttachedWasReady, WasReady
<1> QED
  BY <1>2, <1>3

\* What Waits and AttachedWasReady say of one session and of the row.
Settled(s) ==
    /\ ses[s].at # "idle" => ses[s].att # None
    /\ ses[s].reg # None => ses[s].at = "call" /\ wrk[ses[s].reg].st \in WasReady
    /\ ses[s].at # "launch" /\ ses[s].att # None => wrk[ses[s].att].st \in WasReady
Recorded == row.handle # None => wrk[row.handle].st \in WasReady \cup {"lost"}

LEMMA SettledAll == Waits /\ AttachedWasReady <=> Recorded /\ \A s \in Sessions : Settled(s)
  BY DEF Waits, AttachedWasReady, Recorded, Settled, WasReady

\* Every step keeps that.
LEMMA NextAttached ==
    Typed /\ Waits /\ Halfway /\ AttachedWasReady /\ [Next]_vars => Waits' /\ AttachedWasReady'
<1> SUFFICES ASSUME Typed, Waits, Halfway, AttachedWasReady, [Next]_vars
             PROVE  Recorded' /\ \A s \in Sessions : Settled(s)'
  BY DEF Waits, AttachedWasReady, Recorded, Settled, WasReady
<1>0. Recorded /\ \A s \in Sessions : Settled(s)
  BY SettledAll
<1>a. /\ \A s \in Sessions : ses[s].att \in Segs \cup {None} /\ ses[s].reg \in Segs \cup {None}
      /\ row.handle \in Segs \cup {None}
  BY DEF Typed, Session, Row
<1>1. CASE ServerCrash
  <2>1. \A s \in Sessions : ses'[s].at = "idle" /\ ses'[s].att = None /\ ses'[s].reg = None
    BY <1>1 DEF ServerCrash, Detached
  <2>2. \A h \in Segs : wrk[h].st # "unused" => wrk'[h].st = "lost"
    BY <1>1 DEF ServerCrash, Unused
  <2>3. row' = row
    BY <1>1 DEF ServerCrash
  <2> QED
    BY <1>0, <1>a, <2>1, <2>2, <2>3 DEF Recorded, Settled, WasReady
<1>2. CASE ~ServerCrash
  <2>1. \A h \in Segs : /\ wrk[h].st \in WasReady => wrk'[h].st \in WasReady
                        /\ wrk[h].st = "lost" => wrk'[h].st = "lost"
    BY <1>2, StatusSteps
  <2>2. ASSUME row' = row PROVE Recorded'
    BY <1>0, <1>a, <2>1, <2>2 DEF Recorded
  <2>3. ASSUME NEW t \in Sessions, ses'[t] = ses[t] PROVE Settled(t)'
    BY <1>0, <1>a, <2>1, <2>3 DEF Settled
  \* a step that changes session s only
  <2>4. ASSUME NEW s \in Sessions, \A t \in Sessions \ {s} : ses'[t] = ses[t], Settled(s)'
        PROVE  \A t \in Sessions : Settled(t)'
    BY <2>3, <2>4
  <2>5. ASSUME NEW s \in Sessions, Launch(s) PROVE Recorded' /\ \A t \in Sessions : Settled(t)'
    <3>1. ses[s].at = "idle" /\ row' = row
      BY <2>5 DEF Launch
    <3>2. PICK g \in Segs : SesIs(s, g, ses[s].map, "launch", ses[s].ends, ses[s].reg, ses[s].buf)
      BY <2>5, LaunchEffect
    <3>3. Settled(s)'
      BY <1>0, <3>1, <3>2, NoneFacts DEF Settled, SesIs
    <3> QED
      BY <2>2, <2>4, <3>1, <3>2, <3>3 DEF SesIs
  <2>6. ASSUME NEW s \in Sessions, BootFound(s) \/ Step(s) \/ Halt(s) \/ LaunchRefused(s)
        PROVE  Recorded' /\ \A t \in Sessions : Settled(t)'
    <3>1. ses[s].at = "idle" /\ row' = row
      BY <2>6, AskEffect
    <3>2. PICK a \in Found(s) \cup {None}, at \in {"call", "idle"}, ends \in {"return", "detach", ses[s].ends} :
             /\ at = "call" => a # None
             /\ SesIs(s, a, ses[s].map, at, ends, ses[s].reg, ses[s].buf)
      BY <2>6, <3>1, AskEffect, NoneFacts
    <3>3. a # None => a \in Segs /\ wrk[a].st \in WasReady
      BY <3>1, <3>2, FoundWasReady
    <3>4. Settled(s)'
      BY <1>0, <2>1, <3>1, <3>2, <3>3 DEF Settled, SesIs
    <3> QED
      BY <2>2, <2>4, <3>1, <3>2, <3>4 DEF SesIs
  <2>7. ASSUME NEW s \in Sessions, Launched(s) PROVE Recorded' /\ \A t \in Sessions : Settled(t)'
    <3>1. row' = row
      BY <2>7 DEF Launched
    <3>2. /\ ses[s].att \in Segs /\ wrk[ses[s].att].st \in {"ready", "dead"}
          /\ SesIs(s, ses[s].att, ses[s].map, "call", "return",
                   IF row.exists THEN ses[s].att ELSE None, ses[s].buf)
      BY <2>7, LaunchedEffect
    <3>3. Settled(s)'
      BY <2>1, <3>2, NoneFacts DEF Settled, SesIs, WasReady
    <3> QED
      BY <2>2, <2>4, <3>1, <3>2, <3>3 DEF SesIs
  <2>8. ASSUME NEW s \in Sessions, LaunchError(s)
        PROVE  Recorded' /\ \A t \in Sessions : Settled(t)'
    <3>1. row' = row /\ wrk[ses[s].att].st = "gone" /\ ses[s].at = "launch"
      BY <2>8 DEF LaunchError
    <3>2. SesIs(s, ses[s].att, ses[s].map, "idle", ses[s].ends, ses[s].reg, ses[s].buf)
      BY <2>8, LaunchErrorEffect
    <3>3. Settled(s)'
      BY <1>0, <1>a, <2>1, <3>1, <3>2 DEF Settled, SesIs, WasReady
    <3> QED
      BY <2>2, <2>4, <3>1, <3>2, <3>3 DEF SesIs
  <2>9. ASSUME NEW s \in Sessions, Return(s) PROVE Recorded' /\ \A t \in Sessions : Settled(t)'
    <3>1. ses[s].at = "call"
      BY <2>9 DEF Return
    <3>2. PICK a \in {None, ses[s].att} : SesIs(s, a, ses[s].map, "idle", "none", None, ses[s].buf)
      BY <2>9, ReturnEffect
    <3>3. Settled(s)'
      BY <1>0, <1>a, <2>1, <3>1, <3>2 DEF Settled, SesIs
    <3>4. row' = row \/ (ses[s].reg # None /\ row'.handle = ses[s].reg)
      BY <2>9 DEF Return, Typed, Row
    <3>5. Recorded'
      BY <1>0, <1>a, <2>1, <2>2, <3>4 DEF Recorded, Settled
    <3> QED
      BY <2>4, <3>2, <3>3, <3>5 DEF SesIs
  <2>10. ASSUME NEW s \in Sessions, Reset(s) PROVE Recorded' /\ \A t \in Sessions : Settled(t)'
    BY <2>3, <2>10 DEF Reset, NoRow, Recorded
  <2>11. ASSUME NEW s \in Sessions, Disconnect(s)
         PROVE  Recorded' /\ \A t \in Sessions : Settled(t)'
    <3>1. row' = row /\ ses'[s] = Detached /\ \A t \in Sessions \ {s} : ses'[t] = ses[t]
      BY <2>11 DEF Disconnect, Typed
    <3>2. Settled(s)'
      BY <3>1 DEF Settled, Detached
    <3> QED
      BY <2>2, <2>4, <3>1, <3>2
  <2>12. ASSUME NEW s \in Sessions, SaveRam(s) PROVE Recorded' /\ \A t \in Sessions : Settled(t)'
    <3>1. row' = row /\ ses[s].at = "idle"
      BY <2>12 DEF SaveRam
    <3>2. PICK a \in Segs, m \in Rams : /\ wrk[a].st \in {"ready", "dead"}
                         /\ SesIs(s, a, m, "save", ses[s].ends, ses[s].reg, ram[m])
      BY <2>12, SaveRamEffect
    <3>3. Settled(s)'
      BY <1>0, <2>1, <3>1, <3>2, NoneFacts DEF Settled, SesIs, WasReady
    <3> QED
      BY <2>2, <2>4, <3>1, <3>2, <3>3 DEF SesIs
  <2>13. ASSUME NEW s \in Sessions, SaveCpu(s) PROVE Recorded' /\ \A t \in Sessions : Settled(t)'
    <3>1. row'.handle = row.handle /\ ses[s].at = "save"
      BY <2>13 DEF SaveCpu
    <3>2. SesIs(s, ses[s].att, ses[s].map, "idle", ses[s].ends, ses[s].reg, 0)
      BY <2>13, SaveCpuEffect
    <3>3. Settled(s)'
      BY <1>0, <1>a, <2>1, <3>1, <3>2 DEF Settled, SesIs
    <3>4. Recorded'
      BY <1>0, <1>a, <2>1, <3>1 DEF Recorded
    <3> QED
      BY <2>4, <3>2, <3>3, <3>4 DEF SesIs
  <2>14. ASSUME UNCHANGED <<ses, row>> PROVE Recorded' /\ \A t \in Sessions : Settled(t)'
    BY <2>2, <2>3, <2>14
  <2>15. ASSUME NEW g \in Segs, WorkerStart(g) \/ WorkerTerm(g) \/ WorkerError(g) \/ Serve(g)
         PROVE  UNCHANGED <<ses, row>>
    BY <2>15 DEF WorkerStart, WorkerTerm, WorkerError, Serve, WorkerHalt, Stopped, BootLoad,
                 BootNoRam, Resume, ColdBoot, BootError, StepRun, StepAnswer
  <2>16. CASE UNCHANGED vars
    BY <2>14, <2>16 DEF vars
  <2> QED
    BY <1>2, <2>5, <2>6, <2>7, <2>8, <2>9, <2>10, <2>11, <2>12, <2>13, <2>14, <2>15, <2>16
       DEF Next
<1> QED
  BY <1>1, <1>2

\* A worker gets halfway through a command only with RAM, and keeps that RAM.
LEMMA NextHalfway == Typed /\ Waits /\ Halfway /\ [Next]_vars => Halfway'
<1> SUFFICES ASSUME Typed, Waits, Halfway, [Next]_vars PROVE Halfway'
  OBVIOUS
<1>0. ASSUME NEW g \in Segs, \A h \in Segs \ {g} : wrk'[h] = wrk[h],
             wrk'[g].cmd \in {"loading", "ran"} => wrk'[g].ram # None
      PROVE  Halfway'
  BY <1>0 DEF Halfway
<1>1. ASSUME NEW s \in Sessions, Launch(s) PROVE Halfway'
  <2>1. PICK g \in Segs : WrkIs(g, "starting", wrk[g].cmd, wrk[g].ram, wrk[g].mapped,
                                wrk[g].cpu, wrk[g].hasCpu, wrk[g].copy)
    BY <1>1, LaunchEffect
  <2> QED
    BY <2>1 DEF WrkIs, Halfway
<1>2. ASSUME NEW s \in Sessions, BootFound(s) \/ Step(s) \/ Halt(s) \/ LaunchRefused(s)
      PROVE  Halfway'
  <2>1. \/ UNCHANGED wrk
        \/ \E g \in Segs, c \in {"boot", "step", "halt"} :
              WrkIs(g, wrk[g].st, c, wrk[g].ram, wrk[g].mapped, wrk[g].cpu,
                    wrk[g].hasCpu, wrk[g].copy)
    BY <1>2, AskEffect
  <2> QED
    BY <1>0, <2>1 DEF WrkIs, Halfway
<1>3. ASSUME NEW s \in Sessions, Launched(s) PROVE Halfway'
  <2>1. PICK g \in Segs : wrk'[g].cmd = "boot" /\ \A h \in Segs \ {g} : wrk'[h] = wrk[h]
    BY <1>3, LaunchedEffect DEF WrkIs
  <2> QED
    BY <1>0, <2>1
<1>4. ASSUME NEW s \in Sessions,
             LaunchError(s) \/ Return(s) \/ Reset(s) \/ Disconnect(s) \/ SaveRam(s) \/ SaveCpu(s)
      PROVE  Halfway'
  BY <1>4 DEF LaunchError, Return, Reset, Disconnect, SaveRam, SaveCpu, Halfway
<1>5. ASSUME NEW g \in Segs, WorkerStart(g) PROVE Halfway'
  <2>1. wrk'[g].cmd = wrk[g].cmd /\ wrk'[g].ram = wrk[g].ram
        /\ \A h \in Segs \ {g} : wrk'[h] = wrk[h]
    BY <1>5, WorkerStartEffect DEF WrkIs
  <2> QED
    BY <1>0, <2>1 DEF Halfway
<1>6. ASSUME NEW g \in Segs, WorkerTerm(g) \/ WorkerHalt(g) PROVE Halfway'
  <2>0. Stopped(g)
    BY <1>6 DEF WorkerTerm, WorkerHalt
  <2> QED
    BY <1>0, <2>0, StoppedEffect DEF WrkIs
<1>7. ASSUME NEW g \in Segs, WorkerError(g) PROVE Halfway'
  BY <1>0, <1>7, WorkerErrorEffect DEF WrkIs
<1>8. ASSUME NEW g \in Segs, BootLoad(g) PROVE Halfway'
  <2>1. rams + 1 # None
    BY LifecycleAssumption DEF Typed, Rams, None
  <2>2. wrk'[g].ram = rams + 1 /\ \A h \in Segs \ {g} : wrk'[h] = wrk[h]
    BY <1>8, BootLoadEffect DEF WrkIs
  <2> QED
    BY <1>0, <2>1, <2>2
<1>9. ASSUME NEW g \in Segs, BootNoRam(g) PROVE Halfway'
  BY <1>0, <1>9, BootNoRamEffect DEF WrkIs
<1>10. ASSUME NEW g \in Segs, Resume(g) PROVE Halfway'
  BY <1>0, <1>10, ResumeEffect DEF WrkIs
<1>11. ASSUME NEW g \in Segs, ColdBoot(g) PROVE Halfway'
  BY <1>0, <1>11, ColdBootEffect DEF WrkIs
<1>12. ASSUME NEW g \in Segs, BootError(g) PROVE Halfway'
  BY <1>0, <1>12, BootErrorEffect DEF WrkIs
<1>13. ASSUME NEW g \in Segs, StepRun(g) PROVE Halfway'
  <2>1. /\ \A h \in Segs \ {g} : wrk'[h] = wrk[h]
        /\ wrk'[g].cmd = "idle" \/ (wrk[g].hasCpu /\ wrk'[g].ram = wrk[g].ram)
    BY <1>13, StepRunEffect DEF WrkIs
  <2> QED
    BY <1>0, <2>1 DEF Typed
<1>14. ASSUME NEW g \in Segs, StepAnswer(g) PROVE Halfway'
  BY <1>0, <1>14, StepAnswerEffect DEF WrkIs
<1>15. CASE ServerCrash
  BY <1>15 DEF ServerCrash, Halfway, Unused
<1>16. CASE UNCHANGED vars
  BY <1>16 DEF vars, Halfway
<1> QED
  BY <1>1, <1>2, <1>3, <1>4, <1>5, <1>6, <1>7, <1>8, <1>9, <1>10, <1>11, <1>12,
     <1>13, <1>14, <1>15, <1>16 DEF Next, Serve

\* What all steps keep so far.
Base == Typed /\ Waits /\ Halfway /\ AttachedWasReady

LEMMA BaseHolds == Spec => []Base
<1>1. Init => Base
  <2>1. Init => AttachedWasReady
    BY DEF Init, AttachedWasReady, Detached, NoRow, SavedRow
  <2> QED
    BY <2>1, InitTyped DEF Base
<1>2. Base /\ [Next]_vars => Base'
  BY NextTyped, NextAttached, NextHalfway DEF Base
<1> QED
  BY <1>1, <1>2, PTL DEF Spec

\* Every variable of sessions, workers, RAM segments and row keeps its type,
\* and a worker has registers or a mapping only beside RAM.
THEOREM LifecycleTypeCorrect == Spec => []TypeOK
<1>1. Base => TypeOK
  BY TypedIsTypeOK DEF Base
<1> QED
  BY <1>1, BaseHolds, PTL

\* ensure_worker_attached and launch_native_worker never leave a session, or
\* the row, with a worker that has not published its pid and latch.
THEOREM AttachmentsWereReady == Spec => []AttachedWasReady
<1>1. Base => AttachedWasReady
  BY DEF Base
<1> QED
  BY <1>1, BaseHolds, PTL

-----------------------------------------------------------------------------
(* One worker at a time.                                                   *)

\* The workers that run, or will, without one of the excuses.
Alive == {g \in Segs : wrk[g].st \in {"starting", "ready"}} \ excused

\* Such a worker is known: to the session that waits for it, or, once it is
\* ready, by the row or by an update of the row that is not committed.
Homed(g) ==
    \/ \E t \in Sessions : ses[t].at = "launch" /\ ses[t].att = g
    \/ g \in Live /\ (row.handle = g \/ \E t \in Sessions : ses[t].reg = g)

\* The inductive invariant of OneWorker: that is why a later launch finds it.
Homes ==
    /\ \A g \in Alive : Homed(g)
    /\ \A g, h \in Alive : g = h

\* A launch that looks in the row and sees no other finds no worker alive.
LEMMA LaunchAlone ==
    ASSUME Base, Homes, NEW s \in Sessions, ses[s].at = "idle", ~Unaware(s),
           NEW a \in Found(s), ~Ready(a)
    PROVE  Alive = {}
<1> SUFFICES ASSUME NEW h \in Alive PROVE FALSE
  OBVIOUS
<1>1. ses[s].att = None /\ ses[s].reg = None
  BY DEF Unaware, Base, Waits
<1>2. \A t \in Sessions : ses[t].at # "launch" /\ ses[t].reg = None
  BY <1>1 DEF Unaware
<1>3. h \in Segs /\ h # None
  BY NoneFacts DEF Alive
<1>4. h \in Live /\ row.handle = h
  BY <1>2, <1>3 DEF Homes, Homed
<1>5. a = h
  BY <1>1, <1>3, <1>4 DEF Found, Live
<1> QED
  BY <1>3, <1>4, <1>5 DEF Ready, Live

LEMMA NextHomes == Base /\ Homes /\ [Next]_vars => Homes'
<1> SUFFICES ASSUME Base, Homes, [Next]_vars PROVE Homes'
  OBVIOUS
<1> USE DEF Base
<1>0. ASSUME \A g \in Alive' : g \in Alive /\ Homed(g)' PROVE Homes'
  BY <1>0 DEF Homes
\* a step that leaves the workers' states and their excuses alone
<1>a. ASSUME \A h \in Segs : wrk'[h].st = wrk[h].st, excused \subseteq excused',
             NEW s \in Sessions, \A t \in Sessions \ {s} : ses'[t] = ses[t],
             row'.handle = row.handle, ses[s].reg \in {None, ses'[s].reg},
             \A g \in Alive' : ses[s].at = "launch" /\ ses[s].att = g => Homed(g)'
      PROVE  Homes'
  <2>1. Alive' \subseteq Alive /\ Live' = Live
    BY <1>a DEF Alive, Live
  <2>2. ASSUME NEW g \in Alive' PROVE Homed(g)'
    <3>1. Homed(g) /\ g # None
      BY <2>1, <2>2, NoneFacts DEF Homes, Alive
    <3>2. CASE \E t \in Sessions : ses[t].at = "launch" /\ ses[t].att = g
      BY <1>a, <2>2, <3>2 DEF Homed
    <3>3. CASE g \in Live /\ (row.handle = g \/ \E t \in Sessions : ses[t].reg = g)
      BY <1>a, <2>1, <3>1, <3>3 DEF Homed
    <3> QED
      BY <3>1, <3>2, <3>3 DEF Homed
  <2> QED
    BY <1>0, <2>1, <2>2
\* a step of a worker that changes its state and no session
<1>b. ASSUME NEW g \in Segs, \A h \in Segs \ {g} : wrk'[h].st = wrk[h].st, UNCHANGED <<ses, row>>,
             excused \ {g} \subseteq excused'
      PROVE  \A h \in Alive' : h # g => h \in Alive /\ Homed(h)'
  <2> SUFFICES ASSUME NEW h \in Alive', h # g PROVE h \in Alive /\ Homed(h)'
    OBVIOUS
  <2>1. h \in Alive /\ h \in Segs
    BY <1>b DEF Alive
  <2>2. Homed(h)
    BY <2>1 DEF Homes
  <2>3. h \in Live => h \in Live'
    BY <1>b, <2>1 DEF Live
  <2> QED
    BY <1>b, <2>1, <2>2, <2>3 DEF Homed
<1>1. ASSUME NEW s \in Sessions, Launch(s) PROVE Homes'
  <2>1. PICK a \in Found(s), g \in Segs :
           /\ ~Ready(a) /\ wrk[g].st = "unused"
           /\ wrk'[g].st = "starting" /\ \A h \in Segs \ {g} : wrk'[h] = wrk[h]
           /\ SesIs(s, g, ses[s].map, "launch", ses[s].ends, ses[s].reg, ses[s].buf)
           /\ excused' = IF Unaware(s) THEN excused \cup {g} ELSE excused
    BY <1>1, LaunchEffect DEF WrkIs
  <2>2. ses[s].at = "idle" /\ row' = row
    BY <1>1 DEF Launch
  <2>3. CASE Unaware(s)
    <3>1. Alive' \subseteq Alive /\ Live' = Live
      BY <2>1, <2>3 DEF Alive, Live
    <3>2. ASSUME NEW h \in Alive' PROVE Homed(h)'
      <4>1. Homed(h)
        BY <3>1 DEF Homes
      <4> QED
        BY <2>1, <2>2, <3>1, <4>1 DEF Homed, SesIs
    <3> QED
      BY <1>0, <3>1, <3>2
  <2>4. CASE ~Unaware(s)
    <3>1. Alive = {}
      BY <2>1, <2>2, <2>4, LaunchAlone
    <3>2. Alive' \subseteq {g}
      BY <2>1, <2>4, <3>1 DEF Alive
    <3>3. Homed(g)'
      BY <2>1 DEF Homed, SesIs
    <3> QED
      BY <3>2, <3>3 DEF Homes
  <2> QED
    BY <2>3, <2>4
<1>2. ASSUME NEW s \in Sessions, BootFound(s) \/ Step(s) \/ Halt(s) \/ LaunchRefused(s)
      PROVE  Homes'
  <2>1. /\ \A h \in Segs : wrk'[h].st = wrk[h].st
        /\ \A t \in Sessions \ {s} : ses'[t] = ses[t]
        /\ ses'[s].reg = ses[s].reg /\ ses[s].at = "idle" /\ UNCHANGED <<row, excused>>
    BY <1>2, AskEffect DEF SesIs, WrkIs
  <2> QED
    BY <1>a, <2>1
<1>3. ASSUME NEW s \in Sessions, Launched(s) PROVE Homes'
  <2>0. PICK g : g = ses[s].att
    OBVIOUS
  <2>1. /\ g \in Segs /\ wrk[g].st \in {"ready", "dead"} /\ ses[s].reg = None
        /\ \A h \in Segs : wrk'[h].st = wrk[h].st
        /\ \A t \in Sessions \ {s} : ses'[t] = ses[t]
        /\ ses'[s].reg = IF row.exists THEN g ELSE None
    <3>1. ses[s].reg = None
      BY <1>3 DEF Launched, Waits
    <3> QED
      BY <1>3, <2>0, <3>1, LaunchedEffect DEF SesIs, WrkIs
  <2>2. row' = row /\ excused' = IF row.exists THEN excused ELSE excused \cup {g}
    BY <1>3, <2>0 DEF Launched
  <2>3. ASSUME g \in Alive' PROVE Homed(g)'
    BY <2>1, <2>2, <2>3 DEF Alive, Homed, Live
  <2>4. \A h \in Alive' : ses[s].at = "launch" /\ ses[s].att = h => Homed(h)'
    BY <2>0, <2>3
  <2> QED
    BY <1>a, <2>1, <2>2, <2>4
<1>4. ASSUME NEW s \in Sessions, LaunchError(s) PROVE Homes'
  <2>1. /\ \A t \in Sessions \ {s} : ses'[t] = ses[t]
        /\ ses'[s].reg = ses[s].reg
    BY <1>4, LaunchErrorEffect DEF SesIs
  <2>2. wrk[ses[s].att].st = "gone" /\ UNCHANGED <<wrk, row, excused>>
    BY <1>4 DEF LaunchError
  <2>3. ses[s].att \notin Alive'
    BY <2>2 DEF Alive
  <2> QED
    BY <1>a, <2>1, <2>2, <2>3
<1>5. ASSUME NEW s \in Sessions, Return(s) PROVE Homes'
  <2>1. /\ \A t \in Sessions \ {s} : ses'[t] = ses[t]
        /\ ses'[s].reg = None
    BY <1>5, ReturnEffect DEF SesIs
  <2>2. UNCHANGED wrk /\ ses[s].at = "call"
    BY <1>5 DEF Return
  <2>3. \/ ses[s].reg = None /\ excused' = excused /\ row' = row
        \/ row'.handle = ses[s].reg /\ excused' = excused \cup ({row.handle} \cap Live)
        \/ row' = row /\ excused' = excused \cup {ses[s].reg}
    BY <1>5 DEF Return, Typed, Row
  <2>4. Alive' \subseteq Alive /\ Live' = Live
    BY <2>2, <2>3 DEF Alive, Live
  <2>5. ASSUME NEW h \in Alive' PROVE Homed(h)'
    <3>1. Homed(h) /\ h # None
      BY <2>4, NoneFacts DEF Homes, Alive
    <3>2. CASE \E t \in Sessions : ses[t].at = "launch" /\ ses[t].att = h
      BY <2>1, <2>2, <3>2 DEF Homed
    <3>3. CASE h \in Live /\ row.handle = h
      <4>1. row' = row
        BY <2>3, <2>5, <3>1, <3>3 DEF Alive
      <4> QED
        BY <2>4, <3>3, <4>1 DEF Homed
    <3>4. CASE h \in Live /\ \E t \in Sessions : ses[t].reg = h
      <4>1. CASE ses[s].reg = h
        <5>1. row'.handle = h
          BY <2>3, <2>5, <3>1, <4>1 DEF Alive
        <5> QED
          BY <2>4, <3>4, <5>1 DEF Homed
      <4>2. CASE ses[s].reg # h
        BY <2>1, <2>4, <3>4, <4>2 DEF Homed
      <4> QED
        BY <4>1, <4>2
    <3> QED
      BY <3>1, <3>2, <3>3, <3>4 DEF Homed
  <2> QED
    BY <1>0, <2>4, <2>5
<1>6. ASSUME NEW s \in Sessions, Reset(s) PROVE Homes'
  <2>1. UNCHANGED <<ses, wrk>> /\ excused' = excused \cup Live
    BY <1>6 DEF Reset
  <2>2. \A h \in Alive' : h \in Alive /\ h \notin Live
    BY <2>1 DEF Alive
  <2> QED
    BY <1>0, <2>1, <2>2 DEF Homes, Homed
<1>7. ASSUME NEW s \in Sessions, Disconnect(s) PROVE Homes'
  <2>1. /\ UNCHANGED <<wrk, row, excused>> /\ ses[s].at = "idle" /\ ses[s].reg = None
        /\ \A t \in Sessions \ {s} : ses'[t] = ses[t]
    BY <1>7 DEF Disconnect, Waits, Typed
  <2> QED
    BY <1>a, <2>1
<1>8. ASSUME NEW s \in Sessions, SaveRam(s) PROVE Homes'
  <2>1. UNCHANGED <<wrk, row, excused>> /\ ses[s].at = "idle"
    BY <1>8 DEF SaveRam
  <2>2. ses'[s].reg = ses[s].reg /\ \A t \in Sessions \ {s} : ses'[t] = ses[t]
    BY <1>8, SaveRamEffect DEF SesIs
  <2> QED
    BY <1>a, <2>1, <2>2
<1>9. ASSUME NEW s \in Sessions, SaveCpu(s) PROVE Homes'
  <2>1. UNCHANGED <<wrk, excused>> /\ row'.handle = row.handle /\ ses[s].at = "save"
    BY <1>9 DEF SaveCpu
  <2>2. ses'[s].reg = ses[s].reg /\ \A t \in Sessions \ {s} : ses'[t] = ses[t]
    BY <1>9, SaveCpuEffect DEF SesIs
  <2> QED
    BY <1>a, <2>1, <2>2
<1>10. CASE ServerCrash
  <2>1. Alive' = {}
    BY <1>10 DEF ServerCrash, Alive, Unused
  <2> QED
    BY <2>1 DEF Homes
<1>11. ASSUME NEW g \in Segs, WorkerStart(g) PROVE Homes'
  <2>1. wrk'[g].st \in {"ready", "failed"} /\ \A h \in Segs \ {g} : wrk'[h] = wrk[h]
    BY <1>11, WorkerStartEffect DEF WrkIs
  <2>2. wrk[g].st = "starting" /\ UNCHANGED <<ses, row, excused>>
    BY <1>11 DEF WorkerStart
  <2>3. \A h \in Alive' : h # g => h \in Alive /\ Homed(h)'
    BY <1>b, <2>1, <2>2
  <2>4. g \in Alive' => g \in Alive /\ Homed(g)'
    BY <2>1, <2>2 DEF Alive, Homes, Homed, Live
  <2> QED
    BY <1>0, <2>3, <2>4
<1>12. ASSUME NEW g \in Segs, WorkerTerm(g) \/ WorkerHalt(g) PROVE Homes'
  <2>0. Stopped(g)
    BY <1>12 DEF WorkerTerm, WorkerHalt
  <2>1. wrk'[g].st = "gone" /\ \A h \in Segs \ {g} : wrk'[h] = wrk[h]
    BY <2>0, StoppedEffect DEF WrkIs
  <2>2. excused' = excused \ {g} /\ UNCHANGED <<ses, row>>
    BY <2>0 DEF Stopped
  <2>3. \A h \in Alive' : h # g => h \in Alive /\ Homed(h)'
    BY <1>b, <2>1, <2>2
  <2>4. g \notin Alive'
    BY <2>1 DEF Alive
  <2> QED
    BY <1>0, <2>3, <2>4
<1>13. ASSUME NEW g \in Segs, WorkerError(g) PROVE Homes'
  <2>1. wrk'[g].st = "dead" /\ \A h \in Segs \ {g} : wrk'[h] = wrk[h]
    BY <1>13, WorkerErrorEffect DEF WrkIs
  <2>2. excused' = excused \ {g} /\ UNCHANGED <<ses, row>>
    BY <1>13 DEF WorkerError
  <2>3. \A h \in Alive' : h # g => h \in Alive /\ Homed(h)'
    BY <1>b, <2>1, <2>2
  <2>4. g \notin Alive'
    BY <2>1 DEF Alive
  <2> QED
    BY <1>0, <2>3, <2>4
\* the worker at work
<1>14. ASSUME \A h \in Segs : wrk'[h].st = wrk[h].st, UNCHANGED <<ses, row, excused>>
       PROVE  Homes'
  <2>1. Alive' = Alive /\ Live' = Live
    BY <1>14 DEF Alive, Live
  <2> QED
    BY <1>14, <2>1 DEF Homes, Homed
<1>15. ASSUME NEW g \in Segs, BootLoad(g) \/ BootNoRam(g) \/ Resume(g) \/ ColdBoot(g)
                              \/ BootError(g) \/ StepRun(g) \/ StepAnswer(g)
       PROVE  Homes'
  <2>1. UNCHANGED <<ses, row, excused>>
    BY <1>15 DEF BootLoad, BootNoRam, Resume, ColdBoot, BootError, StepRun, StepAnswer
  <2>2. \A h \in Segs : wrk'[h].st = wrk[h].st
    BY <1>15, WorkIsOwn
  <2> QED
    BY <1>14, <2>1, <2>2
<1>16. CASE UNCHANGED vars
  BY <1>14, <1>16 DEF vars
<1> QED
  BY <1>1, <1>2, <1>3, <1>4, <1>5, <1>6, <1>7, <1>8, <1>9, <1>10, <1>11, <1>12, <1>13,
     <1>15, <1>16 DEF Next, Serve

\* Whatever sessions call, and wherever workers, sessions and the server fail,
\* two workers run side by side only for one of the reasons in excused.
THEOREM OneWorkerAtATime == Spec => []OneWorker
<1>1. Init => Homes
  BY DEF Init, Homes, Alive, Unused
<1>2. Base /\ Homes => OneWorker
  BY DEF Homes, OneWorker, Alive, Live
<1> QED
  BY <1>1, <1>2, NextHomes, BaseHolds, PTL DEF Spec

-----------------------------------------------------------------------------
(* A machine of one instant.                                               *)

\* Two workers never share a RAM segment, and one that is not ready yet has
\* none and no command.
OwnRam ==
    \A g \in Segs :
        /\ wrk[g].ram <= rams
        /\ \A h \in Segs \ {g} : wrk[g].ram # None => wrk[h].ram # wrk[g].ram
        /\ wrk[g].st \in {"unused", "starting"} => wrk[g].ram = None /\ wrk[g].cmd = "idle"

LEMMA NextOwnRam == Base /\ OwnRam /\ [Next]_vars => OwnRam'
<1> SUFFICES ASSUME Base, OwnRam, [Next]_vars PROVE OwnRam'
  OBVIOUS
<1> USE DEF Base
<1> DEFINE Kept(h) == /\ wrk'[h].ram \in {wrk[h].ram, None}
                      /\ wrk'[h].st \in {"unused", "starting"} =>
                           wrk[h].st \in {"unused", "starting"} /\ wrk'[h].cmd = wrk[h].cmd
<1>a. rams \in Nat
  BY DEF Typed, Rams
<1>0. ASSUME rams' = rams, \A h \in Segs : Kept(h) PROVE OwnRam'
  BY <1>0, <1>a DEF OwnRam, None
<1>b. ASSUME rams' = rams, NEW g \in Segs, \A h \in Segs \ {g} : wrk'[h] = wrk[h], Kept(g)
      PROVE  OwnRam'
  BY <1>0, <1>b
<1>1. ASSUME NEW s \in Sessions, Launch(s) PROVE OwnRam'
  <2>1. PICK g \in Segs : /\ wrk[g].st = "unused"
                          /\ WrkIs(g, "starting", wrk[g].cmd, wrk[g].ram, wrk[g].mapped,
                                   wrk[g].cpu, wrk[g].hasCpu, wrk[g].copy)
    BY <1>1, LaunchEffect
  <2> QED
    BY <1>1, <1>b, <2>1 DEF WrkIs, Launch
<1>2. ASSUME NEW s \in Sessions, BootFound(s) \/ Step(s) \/ Halt(s) \/ LaunchRefused(s)
      PROVE  OwnRam'
  <2>1. /\ rams' = rams
        /\ \/ UNCHANGED wrk
           \/ \E g \in Segs, c \in {"boot", "step", "halt"} :
                 /\ g \in Live
                 /\ WrkIs(g, wrk[g].st, c, wrk[g].ram, wrk[g].mapped, wrk[g].cpu,
                          wrk[g].hasCpu, wrk[g].copy)
    BY <1>2, AskEffect
  <2> QED
    BY <1>0, <1>b, <2>1 DEF WrkIs, Live
<1>3. ASSUME NEW s \in Sessions, Launched(s) PROVE OwnRam'
  <2>1. PICK g \in Segs : /\ wrk'[g].st \in {"ready", "dead"} /\ wrk'[g].ram = wrk[g].ram
                          /\ \A h \in Segs \ {g} : wrk'[h] = wrk[h]
    BY <1>3, LaunchedEffect DEF WrkIs
  <2> QED
    BY <1>3, <1>b, <2>1 DEF Launched
<1>4. ASSUME NEW s \in Sessions,
             LaunchError(s) \/ Return(s) \/ Reset(s) \/ Disconnect(s) \/ SaveRam(s) \/ SaveCpu(s)
      PROVE  OwnRam'
  BY <1>4, <1>0 DEF LaunchError, Return, Reset, Disconnect, SaveRam, SaveCpu
<1>5. ASSUME NEW g \in Segs, WorkerStart(g) PROVE OwnRam'
  <2>1. /\ wrk'[g].st \in {"ready", "failed"} /\ wrk'[g].ram = wrk[g].ram
        /\ \A h \in Segs \ {g} : wrk'[h] = wrk[h]
    BY <1>5, WorkerStartEffect DEF WrkIs
  <2> QED
    BY <1>5, <1>b, <2>1 DEF WorkerStart
<1>6. ASSUME NEW g \in Segs, WorkerTerm(g) \/ WorkerHalt(g) PROVE OwnRam'
  <2>0. Stopped(g)
    BY <1>6 DEF WorkerTerm, WorkerHalt
  <2>1. /\ wrk'[g].st = "gone" /\ wrk'[g].ram = None
        /\ \A h \in Segs \ {g} : wrk'[h] = wrk[h]
    BY <2>0, StoppedEffect DEF WrkIs
  <2>2. rams' = rams
    BY <2>0 DEF Stopped
  <2> QED
    BY <1>b, <2>1, <2>2
<1>7. ASSUME NEW g \in Segs, WorkerError(g) PROVE OwnRam'
  <2>1. /\ wrk'[g].st = "dead" /\ wrk'[g].ram = wrk[g].ram
        /\ \A h \in Segs \ {g} : wrk'[h] = wrk[h]
    BY <1>7, WorkerErrorEffect DEF WrkIs
  <2> QED
    BY <1>7, <1>b, <2>1 DEF WorkerError
<1>8. ASSUME NEW g \in Segs, BootLoad(g) PROVE OwnRam'
  <2>1. /\ wrk'[g].st = wrk[g].st /\ wrk'[g].ram = rams + 1
        /\ \A h \in Segs \ {g} : wrk'[h] = wrk[h]
    BY <1>8, BootLoadEffect DEF WrkIs
  <2>2. rams' = rams + 1 /\ wrk[g].st = "ready"
    BY <1>8 DEF BootLoad, Live
  <2>3. \A h \in Segs : wrk[h].ram \in Nat /\ wrk[h].ram <= rams
    BY DEF OwnRam, Typed, Worker, Rams, None
  <2>4. \A h \in Segs : wrk'[h].ram <= rams'
    BY <1>a, <2>1, <2>2, <2>3
  <2>5. \A h \in Segs : wrk'[h].st \in {"unused", "starting"} =>
                           wrk'[h].ram = None /\ wrk'[h].cmd = "idle"
    BY <2>1, <2>2 DEF OwnRam
  <2>6. ASSUME NEW h \in Segs, NEW k \in Segs \ {h}, wrk'[h].ram # None
        PROVE  wrk'[k].ram # wrk'[h].ram
    <3>1. CASE h = g
      BY <1>a, <2>1, <2>3, <3>1
    <3>2. CASE k = g
      BY <1>a, <2>1, <2>3, <3>2
    <3>3. CASE h # g /\ k # g
      BY <2>1, <2>6, <3>3 DEF OwnRam
    <3> QED
      BY <3>1, <3>2, <3>3
  <2> QED
    BY <2>4, <2>5, <2>6 DEF OwnRam
<1>9. ASSUME NEW g \in Segs, BootNoRam(g) \/ Resume(g) \/ ColdBoot(g) \/ BootError(g)
                             \/ StepRun(g) \/ StepAnswer(g)
      PROVE  OwnRam'
  <2>0. wrk[g].st = "ready" /\ rams' = rams
    BY <1>9 DEF BootNoRam, Resume, ColdBoot, BootError, StepRun, StepAnswer, Live
  <2>1. BootNoRam(g) => wrk'[g].ram = wrk[g].ram /\ \A h \in Segs \ {g} : wrk'[h] = wrk[h]
    BY BootNoRamEffect DEF WrkIs
  <2>2. Resume(g) => wrk'[g].ram = wrk[g].ram /\ \A h \in Segs \ {g} : wrk'[h] = wrk[h]
    BY ResumeEffect DEF WrkIs
  <2>3. ColdBoot(g) => wrk'[g].ram = wrk[g].ram /\ \A h \in Segs \ {g} : wrk'[h] = wrk[h]
    BY ColdBootEffect DEF WrkIs
  <2>4. BootError(g) => wrk'[g].ram = wrk[g].ram /\ \A h \in Segs \ {g} : wrk'[h] = wrk[h]
    BY BootErrorEffect DEF WrkIs
  <2>5. StepRun(g) => wrk'[g].ram = wrk[g].ram /\ \A h \in Segs \ {g} : wrk'[h] = wrk[h]
    BY StepRunEffect DEF WrkIs
  <2>6. StepAnswer(g) => wrk'[g].ram = wrk[g].ram /\ \A h \in Segs \ {g} : wrk'[h] = wrk[h]
    BY StepAnswerEffect DEF WrkIs
  <2>7. wrk'[g].st = wrk[g].st
    BY <1>9, WorkIsOwn
  <2> QED
    BY <1>9, <1>b, <2>0, <2>1, <2>2, <2>3, <2>4, <2>5, <2>6, <2>7
<1>10. CASE ServerCrash
  <2>1. /\ rams' = rams
        /\ \A h \in Segs : wrk'[h].ram = None /\ wrk'[h].cmd = "idle"
    BY <1>10 DEF ServerCrash, Unused
  <2> QED
    BY <1>a, <2>1 DEF OwnRam, None
<1>11. CASE UNCHANGED vars
  BY <1>0, <1>11 DEF vars
<1> QED
  BY <1>1, <1>2, <1>3, <1>4, <1>5, <1>6, <1>7, <1>8, <1>9, <1>10, <1>11 DEF Next, Serve

\* Nobody but the session that launched it knows a worker that it waits for,
\* and that worker has not had a command.
Fresh ==
    \A s \in Sessions : ses[s].at = "launch" =>
        /\ wrk[ses[s].att].st # "unused"
        /\ wrk[ses[s].att].cmd = "idle" /\ wrk[ses[s].att].ram = None
        /\ row.handle # ses[s].att
        /\ \A t \in Sessions : /\ ses[t].reg # ses[s].att
                               /\ t # s => ses[t].att # ses[s].att

LEMMA NextFresh == Base /\ OwnRam /\ Fresh /\ [Next]_vars => Fresh'
<1> SUFFICES ASSUME Base, OwnRam, Fresh, [Next]_vars PROVE Fresh'
  OBVIOUS
<1> USE DEF Base
<1>a. ASSUME NEW s \in Sessions, ses[s].at = "launch" PROVE ses[s].att \in Segs /\ ses[s].att # None
  BY <1>a DEF Typed, Waits, Session
\* a step of session s that does not launch
<1>0. ASSUME NEW s \in Sessions, \A t \in Sessions \ {s} : ses'[t] = ses[t],
             ses'[s].at # "launch", ses'[s].att \in {ses[s].att, row.handle, None},
             ses'[s].reg \in {ses[s].reg, ses[s].att, None},
             row'.handle \in {row.handle, ses[s].reg, None},
             \A h \in Segs \ {ses[s].att, row.handle} : wrk'[h] = wrk[h]
      PROVE  Fresh'
  <2> SUFFICES ASSUME NEW t \in Sessions, ses'[t].at = "launch"
               PROVE  /\ wrk'[ses'[t].att].st # "unused"
                      /\ wrk'[ses'[t].att].cmd = "idle" /\ wrk'[ses'[t].att].ram = None
                      /\ row'.handle # ses'[t].att
                      /\ \A u \in Sessions : /\ ses'[u].reg # ses'[t].att
                                             /\ u # t => ses'[u].att # ses'[t].att
    BY DEF Fresh
  <2>1. t # s /\ ses'[t] = ses[t] /\ ses[t].at = "launch"
    BY <1>0
  <2>2. PICK h \in Segs : h = ses[t].att /\ h # None
    BY <1>a, <2>1
  <2>3. h # ses[s].att /\ h # row.handle /\ h # ses[s].reg
    BY <2>1, <2>2 DEF Fresh
  <2>4. wrk'[h] = wrk[h]
    BY <1>0, <2>3
  <2>5. \A u \in Sessions : ses'[u].reg # h /\ (u # t => ses'[u].att # h)
    BY <1>0, <2>1, <2>2, <2>3 DEF Fresh
  <2> QED
    BY <1>0, <2>1, <2>2, <2>3, <2>4, <2>5 DEF Fresh
<1>1. ASSUME NEW s \in Sessions, Launch(s) PROVE Fresh'
  <2>1. PICK g \in Segs : /\ wrk[g].st = "unused"
                          /\ WrkIs(g, "starting", wrk[g].cmd, wrk[g].ram, wrk[g].mapped,
                                   wrk[g].cpu, wrk[g].hasCpu, wrk[g].copy)
                          /\ SesIs(s, g, ses[s].map, "launch", ses[s].ends, ses[s].reg, ses[s].buf)
    BY <1>1, LaunchEffect
  <2>2. row' = row /\ ses[s].at = "idle" /\ g # None
    BY <1>1, NoneFacts DEF Launch
  <2>3. wrk[g].cmd = "idle" /\ wrk[g].ram = None
    BY <2>1 DEF OwnRam
  <2>4. \A t \in Sessions : ses[t].att # g /\ ses[t].reg # g
    BY <2>1, <2>2 DEF Fresh, Waits, AttachedWasReady, WasReady
  <2>5. row.handle # g
    BY <2>1, <2>2 DEF AttachedWasReady
  <2> SUFFICES ASSUME NEW t \in Sessions, ses'[t].at = "launch"
               PROVE  /\ wrk'[ses'[t].att].st # "unused"
                      /\ wrk'[ses'[t].att].cmd = "idle" /\ wrk'[ses'[t].att].ram = None
                      /\ row'.handle # ses'[t].att
                      /\ \A u \in Sessions : /\ ses'[u].reg # ses'[t].att
                                             /\ u # t => ses'[u].att # ses'[t].att
    BY DEF Fresh
  <2>6. CASE t = s
    BY <2>1, <2>2, <2>3, <2>4, <2>5, <2>6 DEF SesIs, WrkIs
  <2>7. CASE t # s
    <3>1. ses'[t] = ses[t]
      BY <2>1, <2>7 DEF SesIs
    <3>2. PICK h \in Segs : h = ses[t].att
      BY <1>a, <3>1
    <3>3. h # g /\ wrk'[h] = wrk[h]
      BY <2>1, <2>4, <3>2 DEF WrkIs
    <3>4. \A u \in Sessions : ses'[u].reg = ses[u].reg
      BY <2>1 DEF SesIs
    <3>5. \A u \in Sessions : u # t => ses'[u].att # h
      BY <2>1, <2>7, <3>1, <3>2, <3>3 DEF SesIs, Fresh
    <3> QED
      BY <2>2, <3>1, <3>2, <3>3, <3>4, <3>5 DEF Fresh
  <2> QED
    BY <2>6, <2>7
<1>2. ASSUME NEW s \in Sessions, BootFound(s) \/ Step(s) \/ Halt(s) \/ LaunchRefused(s)
      PROVE  Fresh'
  <2>1. Found(s) \subseteq {ses[s].att, row.handle, None}
    BY DEF Found
  <2>2. ses[s].at = "idle" /\ row' = row
    BY <1>2, AskEffect
  <2>3. /\ \A t \in Sessions \ {s} : ses'[t] = ses[t]
        /\ ses'[s].at \in {"call", "idle"} /\ ses'[s].att \in {ses[s].att, row.handle, None}
        /\ ses'[s].reg = ses[s].reg
        /\ \A h \in Segs \ {ses[s].att, row.handle} : wrk'[h] = wrk[h]
    BY <1>2, <2>1, <2>2, AskEffect, NoneFacts DEF SesIs, WrkIs
  <2> QED
    BY <1>0, <2>2, <2>3
<1>3. ASSUME NEW s \in Sessions, Launched(s) PROVE Fresh'
  <2>1. /\ \A t \in Sessions \ {s} : ses'[t] = ses[t]
        /\ ses'[s].at = "call" /\ ses'[s].att = ses[s].att /\ ses'[s].reg \in {ses[s].att, None}
        /\ \A h \in Segs \ {ses[s].att, row.handle} : wrk'[h] = wrk[h]
    BY <1>3, LaunchedEffect DEF SesIs, WrkIs
  <2>2. row' = row
    BY <1>3 DEF Launched
  <2> QED
    BY <1>0, <2>1, <2>2
<1>4. ASSUME NEW s \in Sessions, LaunchError(s) PROVE Fresh'
  <2>1. /\ \A t \in Sessions \ {s} : ses'[t] = ses[t]
        /\ ses'[s].at = "idle" /\ ses'[s].att = ses[s].att /\ ses'[s].reg = ses[s].reg
    BY <1>4, LaunchErrorEffect DEF SesIs
  <2>2. UNCHANGED <<row, wrk>>
    BY <1>4 DEF LaunchError
  <2> QED
    BY <1>0, <2>1, <2>2
<1>5. ASSUME NEW s \in Sessions, Return(s) PROVE Fresh'
  <2>1. /\ \A t \in Sessions \ {s} : ses'[t] = ses[t]
        /\ ses'[s].at = "idle" /\ ses'[s].att \in {ses[s].att, None} /\ ses'[s].reg = None
    BY <1>5, ReturnEffect DEF SesIs
  <2>2. UNCHANGED wrk /\ row'.handle \in {row.handle, ses[s].reg}
    BY <1>5 DEF Return, Typed, Row
  <2> QED
    BY <1>0, <2>1, <2>2
<1>6. ASSUME NEW s \in Sessions, Reset(s) PROVE Fresh'
  <2>1. UNCHANGED <<ses, wrk>> /\ row'.handle = None
    BY <1>6 DEF Reset, NoRow
  <2> QED
    BY <1>a, <2>1 DEF Fresh
<1>7. ASSUME NEW s \in Sessions, Disconnect(s) PROVE Fresh'
  <2>1. /\ \A t \in Sessions \ {s} : ses'[t] = ses[t]
        /\ ses'[s].at = "idle" /\ ses'[s].att = None /\ ses'[s].reg = None
    BY <1>7 DEF Disconnect, Detached, Typed
  <2>2. UNCHANGED <<row, wrk>>
    BY <1>7 DEF Disconnect
  <2> QED
    BY <1>0, <2>1, <2>2
<1>8. ASSUME NEW s \in Sessions, SaveRam(s) PROVE Fresh'
  <2>1. Found(s) \subseteq {ses[s].att, row.handle, None}
    BY DEF Found
  <2>2. /\ \A t \in Sessions \ {s} : ses'[t] = ses[t]
        /\ ses'[s].at = "save" /\ ses'[s].att \in Found(s) /\ ses'[s].reg = ses[s].reg
    BY <1>8, SaveRamEffect DEF SesIs
  <2>3. UNCHANGED <<row, wrk>>
    BY <1>8 DEF SaveRam
  <2> QED
    BY <1>0, <2>1, <2>2, <2>3
<1>9. ASSUME NEW s \in Sessions, SaveCpu(s) PROVE Fresh'
  <2>1. /\ \A t \in Sessions \ {s} : ses'[t] = ses[t]
        /\ ses'[s].at = "idle" /\ ses'[s].att = ses[s].att /\ ses'[s].reg = ses[s].reg
    BY <1>9, SaveCpuEffect DEF SesIs
  <2>2. UNCHANGED wrk /\ row'.handle = row.handle
    BY <1>9 DEF SaveCpu
  <2> QED
    BY <1>0, <2>1, <2>2
<1>10. CASE ServerCrash
  BY <1>10 DEF ServerCrash, Detached, Fresh
\* a step of a worker
<1>b. ASSUME NEW g \in Segs, UNCHANGED <<ses, row>>, \A h \in Segs \ {g} : wrk'[h] = wrk[h],
             wrk[g].cmd = "idle" /\ wrk[g].ram = None /\ wrk[g].st # "unused" =>
                wrk'[g].cmd = "idle" /\ wrk'[g].ram = None /\ wrk'[g].st # "unused"
      PROVE  Fresh'
  <2>1. \A h \in Segs : wrk[h].cmd = "idle" /\ wrk[h].ram = None /\ wrk[h].st # "unused" =>
                           wrk'[h].cmd = "idle" /\ wrk'[h].ram = None /\ wrk'[h].st # "unused"
    BY <1>b
  <2> QED
    BY <1>a, <1>b, <2>1 DEF Fresh
<1>11. ASSUME NEW g \in Segs, WorkerStart(g) PROVE Fresh'
  <2>1. /\ wrk'[g].st \in {"ready", "failed"} /\ wrk'[g].ram = wrk[g].ram
        /\ wrk'[g].cmd = wrk[g].cmd /\ \A h \in Segs \ {g} : wrk'[h] = wrk[h]
    BY <1>11, WorkerStartEffect DEF WrkIs
  <2> QED
    BY <1>11, <1>b, <2>1 DEF WorkerStart
<1>12. ASSUME NEW g \in Segs, WorkerTerm(g) \/ WorkerHalt(g) PROVE Fresh'
  <2>0. Stopped(g)
    BY <1>12 DEF WorkerTerm, WorkerHalt
  <2>1. /\ wrk'[g].st = "gone" /\ wrk'[g].ram = None /\ wrk'[g].cmd = "idle"
        /\ \A h \in Segs \ {g} : wrk'[h] = wrk[h]
    BY <2>0, StoppedEffect DEF WrkIs
  <2>2. UNCHANGED <<ses, row>>
    BY <2>0 DEF Stopped
  <2> QED
    BY <1>b, <2>1, <2>2
<1>13. ASSUME NEW g \in Segs, WorkerError(g) PROVE Fresh'
  <2>1. \A h \in Segs \ {g} : wrk'[h] = wrk[h]
    BY <1>13, WorkerErrorEffect DEF WrkIs
  <2>2. UNCHANGED <<ses, row>> /\ (wrk[g].cmd # "idle" \/ wrk[g].ram # None)
    BY <1>13 DEF WorkerError, Typed
  <2> QED
    BY <1>b, <2>1, <2>2
<1>14. ASSUME NEW g \in Segs, BootLoad(g) \/ BootNoRam(g) \/ Resume(g) \/ ColdBoot(g)
                              \/ BootError(g) \/ StepRun(g) \/ StepAnswer(g)
       PROVE  Fresh'
  <2>1. UNCHANGED <<ses, row>> /\ wrk[g].cmd # "idle"
    BY <1>14 DEF BootLoad, BootNoRam, Resume, ColdBoot, BootError, StepRun, StepAnswer
  <2>2. \A h \in Segs \ {g} : wrk'[h] = wrk[h]
    BY <1>14, WorkIsOwn
  <2> QED
    BY <1>b, <2>1, <2>2
<1>15. CASE UNCHANGED vars
  BY <1>15 DEF vars, Fresh
<1> QED
  BY <1>1, <1>2, <1>3, <1>4, <1>5, <1>6, <1>7, <1>8, <1>9, <1>10, <1>11, <1>12, <1>13,
     <1>14, <1>15 DEF Next, Serve

\* The machine of a worker is of one piece, but for the RAM and the registers
\* of a step that is not answered, whose copy is still the old one.
WholeAt(g) ==
    g \notin spoiled =>
        /\ wrk[g].st \in {"ready", "dead"} /\ wrk[g].ram # None
           /\ wrk[g].cmd \notin {"loading", "ran"} =>
             OfOne(ram[wrk[g].ram], wrk[g].copy) /\ (wrk[g].hasCpu => wrk[g].cpu = wrk[g].copy)
        /\ wrk[g].st = "ready" /\ wrk[g].cmd = "ran" =>
             OfOne(ram[wrk[g].ram], wrk[g].cpu) /\ wrk[g].hasCpu

\* What a save under way has read of the RAM goes with the copy of the
\* registers that it will read.
ReadWhole(s) ==
    s \notin overlap /\ ses[s].at = "save" /\ ses[s].att \notin spoiled =>
        OfOne(ses[s].buf, wrk[ses[s].att].copy)

\* So does what is in the row.
RowWhole == row.saved /\ ~torn => OfOne(row.ram, row.cpu)

\* The inductive invariant of OneInstant.
Pieces ==
    /\ OwnRam /\ Fresh /\ RowWhole
    /\ \A g \in Segs : WholeAt(g)
    /\ \A s \in Sessions : ReadWhole(s)

\* A worker that a step leaves alone, with the RAM it has.
LEMMA OthersWhole ==
    ASSUME Base, Pieces, NEW h \in Segs, wrk'[h] = wrk[h], h \in spoiled => h \in spoiled',
           wrk[h].ram # None => ram'[wrk[h].ram] = ram[wrk[h].ram]
    PROVE  WholeAt(h)'
<1>1. WholeAt(h) /\ (wrk[h].cmd = "ran" => wrk[h].ram # None)
  BY DEF Pieces, Base, Halfway
<1> QED
  BY <1>1 DEF WholeAt

\* The other workers have other RAM.
LEMMA RamElsewhere ==
    ASSUME Base, OwnRam, NEW g \in Segs, NEW h \in Segs \ {g}, NEW i,
           wrk[g].ram # None, wrk[h].ram # None, ram' = [ram EXCEPT ![wrk[g].ram] = i]
    PROVE  ram'[wrk[h].ram] = ram[wrk[h].ram]
<1>1. wrk[h].ram \in Rams /\ wrk[h].ram # wrk[g].ram
  BY DEF Base, Typed, Worker, OwnRam
<1> QED
  BY <1>1 DEF Base, Typed

LEMMA NextWhole == Base /\ Pieces /\ [Next]_vars => \A g \in Segs : WholeAt(g)'
<1> SUFFICES ASSUME Base, Pieces, [Next]_vars PROVE \A g \in Segs : WholeAt(g)'
  OBVIOUS
<1> DEFINE AllWhole == \A g \in Segs : WholeAt(g)'
<1>0. ASSUME UNCHANGED <<wrk, ram, spoiled>> PROVE AllWhole
  BY <1>0, OthersWhole
\* a step that touches worker g, and no RAM
<1>a. ASSUME NEW g \in Segs, \A h \in Segs \ {g} : wrk'[h] = wrk[h], UNCHANGED ram,
             spoiled \ {g} \subseteq spoiled', WholeAt(g)'
      PROVE  AllWhole
  BY <1>a, OthersWhole
\* a step that touches worker g, and its RAM
<1>b. ASSUME NEW g \in Segs, \A h \in Segs \ {g} : wrk'[h] = wrk[h], NEW i,
             wrk[g].ram # None, ram' = [ram EXCEPT ![wrk[g].ram] = i],
             spoiled \ {g} \subseteq spoiled', WholeAt(g)'
      PROVE  AllWhole
  <2> SUFFICES ASSUME NEW h \in Segs \ {g} PROVE WholeAt(h)'
    BY <1>b
  <2>1. wrk[h].ram # None => ram'[wrk[h].ram] = ram[wrk[h].ram]
    BY <1>b, RamElsewhere DEF Pieces
  <2> QED
    BY <1>b, <2>1, OthersWhole
<1>c. ASSUME NEW g \in Segs, wrk[g].ram # None, NEW i, ram' = [ram EXCEPT ![wrk[g].ram] = i]
      PROVE  ram'[wrk[g].ram] = i
  <2>1. wrk[g].ram \in Rams
    BY <1>c DEF Base, Typed, Worker
  <2> QED
    BY <1>c, <2>1 DEF Base, Typed
<1>1. ASSUME NEW s \in Sessions, Launch(s) PROVE AllWhole
  <2>1. PICK g \in Segs : wrk'[g].st = "starting" /\ \A h \in Segs \ {g} : wrk'[h] = wrk[h]
    BY <1>1, LaunchEffect DEF WrkIs, Base
  <2>2. UNCHANGED <<ram, spoiled>>
    BY <1>1 DEF Launch
  <2> QED
    BY <1>a, <2>1, <2>2 DEF WholeAt
<1>2. ASSUME NEW s \in Sessions, BootFound(s) \/ Step(s) \/ Halt(s) \/ LaunchRefused(s)
      PROVE  AllWhole
  <2>1. /\ UNCHANGED <<ram, spoiled>>
        /\ \/ UNCHANGED wrk
           \/ \E g \in Segs, c \in {"boot", "step", "halt"} :
                 /\ g \in Live /\ wrk[g].cmd = "idle"
                 /\ WrkIs(g, wrk[g].st, c, wrk[g].ram, wrk[g].mapped, wrk[g].cpu,
                          wrk[g].hasCpu, wrk[g].copy)
    BY <1>2, AskEffect DEF Base
  <2>2. ASSUME NEW g \in Segs, NEW c \in {"boot", "step", "halt"}, wrk[g].cmd = "idle",
               WrkIs(g, wrk[g].st, c, wrk[g].ram, wrk[g].mapped, wrk[g].cpu,
                     wrk[g].hasCpu, wrk[g].copy)
        PROVE  AllWhole
    <3>1. WholeAt(g)
      BY DEF Pieces
    <3>2. WholeAt(g)'
      BY <2>1, <2>2, <3>1 DEF WholeAt, WrkIs
    <3> QED
      BY <1>a, <2>1, <2>2, <3>2 DEF WrkIs
  <2> QED
    BY <1>0, <2>1, <2>2
<1>3. ASSUME NEW s \in Sessions, Launched(s) PROVE AllWhole
  <2>1. PICK g \in Segs : /\ g = ses[s].att /\ wrk'[g].cmd = "boot" /\ wrk'[g].ram = wrk[g].ram
                          /\ \A h \in Segs \ {g} : wrk'[h] = wrk[h]
    BY <1>3, LaunchedEffect DEF WrkIs, Base
  <2>2. UNCHANGED <<ram, spoiled>> /\ ses[s].at = "launch"
    BY <1>3 DEF Launched
  <2>3. wrk[g].ram = None
    BY <2>1, <2>2 DEF Pieces, Fresh
  <2>4. WholeAt(g)'
    BY <2>1, <2>3 DEF WholeAt
  <2> QED
    BY <1>a, <2>1, <2>2, <2>4
<1>4. ASSUME NEW s \in Sessions,
             LaunchError(s) \/ Return(s) \/ Reset(s) \/ Disconnect(s) \/ SaveRam(s) \/ SaveCpu(s)
      PROVE  AllWhole
  BY <1>4, <1>0 DEF LaunchError, Return, Reset, Disconnect, SaveRam, SaveCpu
<1>5. ASSUME NEW g \in Segs, WorkerStart(g) PROVE AllWhole
  <2>1. /\ wrk'[g].ram = wrk[g].ram /\ wrk'[g].cmd = wrk[g].cmd
        /\ \A h \in Segs \ {g} : wrk'[h] = wrk[h]
    BY <1>5, WorkerStartEffect DEF WrkIs, Base
  <2>2. UNCHANGED <<ram, spoiled>> /\ wrk[g].st = "starting"
    BY <1>5 DEF WorkerStart
  <2>3. WholeAt(g)'
    BY <2>1, <2>2 DEF WholeAt, Pieces, OwnRam
  <2> QED
    BY <1>a, <2>1, <2>2, <2>3
<1>6. ASSUME NEW g \in Segs, WorkerTerm(g) \/ WorkerHalt(g) PROVE AllWhole
  <2>0. Stopped(g)
    BY <1>6 DEF WorkerTerm, WorkerHalt
  <2>1. wrk'[g].st = "gone" /\ \A h \in Segs \ {g} : wrk'[h] = wrk[h]
    BY <2>0, StoppedEffect DEF WrkIs, Base
  <2>2. UNCHANGED ram /\ spoiled \ {g} \subseteq spoiled'
    BY <2>0 DEF Stopped
  <2> QED
    BY <1>a, <2>1, <2>2 DEF WholeAt
<1>7. ASSUME NEW g \in Segs, WorkerError(g) PROVE AllWhole
  <2>1. WrkIs(g, "dead", IF wrk[g].cmd = "idle" THEN "idle" ELSE "boot", wrk[g].ram,
              FALSE, RegsAt(0), FALSE, wrk[g].copy)
    BY <1>7, WorkerErrorEffect DEF Base
  <2>2. /\ UNCHANGED ram /\ spoiled \subseteq spoiled' /\ wrk[g].st = "ready"
        /\ wrk[g].cmd = "loading" => g \in spoiled'
        /\ wrk[g].cmd # "ran"
    BY <1>7 DEF WorkerError, Live
  <2>3. WholeAt(g)
    BY DEF Pieces
  <2>4. WholeAt(g)'
    BY <2>1, <2>2, <2>3 DEF WholeAt, WrkIs
  <2> QED
    BY <1>a, <2>1, <2>2, <2>4 DEF WrkIs
<1>8. ASSUME NEW g \in Segs, BootLoad(g) PROVE AllWhole
  <2>1. wrk'[g].cmd = "loading" /\ \A h \in Segs \ {g} : wrk'[h] = wrk[h]
    BY <1>8, BootLoadEffect DEF WrkIs, Base
  <2>2. UNCHANGED <<ram, spoiled>>
    BY <1>8 DEF BootLoad
  <2> QED
    BY <1>a, <2>1, <2>2 DEF WholeAt
<1>9. ASSUME NEW g \in Segs, BootNoRam(g) PROVE AllWhole
  <2>1. WrkIs(g, wrk[g].st, "idle", wrk[g].ram, FALSE, wrk[g].cpu, wrk[g].hasCpu, wrk[g].copy)
    BY <1>9, BootNoRamEffect DEF Base
  <2>2. UNCHANGED <<ram, spoiled>> /\ wrk[g].cmd = "boot"
    BY <1>9 DEF BootNoRam
  <2>3. WholeAt(g)
    BY DEF Pieces
  <2>4. WholeAt(g)'
    BY <2>1, <2>2, <2>3 DEF WholeAt, WrkIs
  <2> QED
    BY <1>a, <2>1, <2>2, <2>4 DEF WrkIs
<1>10. ASSUME NEW g \in Segs, Resume(g) PROVE AllWhole
  <2>1. WrkIs(g, wrk[g].st, "idle", wrk[g].ram, wrk[g].mapped, Restored(row.cpu), TRUE,
              Restored(row.cpu))
    BY <1>10, ResumeEffect DEF Base
  <2>2. /\ ram' = [ram EXCEPT ![wrk[g].ram] = row.ram] /\ wrk[g].cmd = "loading" /\ row.saved
        /\ spoiled \ {g} \subseteq spoiled' /\ (torn => g \in spoiled')
    BY <1>10 DEF Resume, Base, Typed
  <2>3. wrk[g].ram # None
    BY <2>2 DEF Base, Halfway
  <2>a. ram'[wrk[g].ram] = row.ram /\ (g \notin spoiled' => OfOne(row.ram, row.cpu))
    BY <1>c, <2>2, <2>3 DEF Pieces, RowWhole
  <2>b. row.ram \in Instants /\ row.cpu \in Regs
    BY DEF Base, Typed, Row
  <2>4. g \notin spoiled' => OfOne(ram'[wrk[g].ram], Restored(row.cpu))
    <3>1. OfOne(row.ram, row.cpu) => OfOne(row.ram, Restored(row.cpu))
      BY <2>b, RestoredFacts, Zenon
    <3> QED
      BY <2>a, <3>1, Zenon
  <2>5. WholeAt(g)'
    BY <2>1, <2>4 DEF WholeAt, WrkIs
  <2> QED
    BY <1>b, <2>1, <2>2, <2>3, <2>5 DEF WrkIs
<1>11. ASSUME NEW g \in Segs, ColdBoot(g) PROVE AllWhole
  <2> DEFINE i == now + 1
  <2>1. WrkIs(g, wrk[g].st, "idle", wrk[g].ram, wrk[g].mapped, RegsAt(i), TRUE, RegsAt(i))
    BY <1>11, ColdBootEffect DEF Base
  <2>2. /\ ram' = [ram EXCEPT ![wrk[g].ram] = i] /\ wrk[g].cmd = "loading"
        /\ spoiled \ {g} \subseteq spoiled'
    BY <1>11 DEF ColdBoot
  <2>a. OfOne(i, RegsAt(i))
    <3>1. i \in Instants
      BY <1>11, LifecycleAssumption DEF ColdBoot, Base, Typed, Instants
    <3> QED
      BY <3>1, RegsFacts
  <2> HIDE DEF i
  <2>3. wrk[g].ram # None
    BY <2>2 DEF Base, Halfway
  <2>4. ram'[wrk[g].ram] = i
    BY <1>c, <2>2, <2>3
  <2>5. WholeAt(g)'
    BY <2>1, <2>4, <2>a DEF WholeAt, WrkIs
  <2> QED
    BY <1>b, <2>1, <2>2, <2>3, <2>5 DEF WrkIs
<1>12. ASSUME NEW g \in Segs, BootError(g) PROVE AllWhole
  <2>1. \A h \in Segs \ {g} : wrk'[h] = wrk[h]
    BY <1>12, WorkIsOwn DEF Base
  <2>2. UNCHANGED ram /\ spoiled' = spoiled \cup {g}
    BY <1>12 DEF BootError
  <2> QED
    BY <1>a, <2>1, <2>2 DEF WholeAt
<1>13. ASSUME NEW g \in Segs, StepRun(g) PROVE AllWhole
  <2>1. CASE wrk[g].hasCpu
    <3> DEFINE i == now + 1
               c == Stepped(wrk[g].cpu, i)
    <3>1. /\ WrkIs(g, wrk[g].st, "ran", wrk[g].ram, wrk[g].mapped, c, wrk[g].hasCpu, wrk[g].copy)
          /\ i \in Instants
      BY <1>13, <2>1, StepRunEffect DEF Base
    <3>a. OfOne(i, c)
      <4>1. wrk[g].cpu \in Regs
        BY DEF Base, Typed, Worker
      <4> QED
        BY <3>1, <4>1, RegsFacts
    <3>2. ram' = [ram EXCEPT ![wrk[g].ram] = i] /\ UNCHANGED spoiled
      BY <1>13, <2>1 DEF StepRun
    <3> HIDE DEF i, c
    <3>3. wrk[g].ram # None
      BY <2>1 DEF Base, Typed
    <3>4. ram'[wrk[g].ram] = i
      BY <1>c, <3>2, <3>3
    <3>5. WholeAt(g)'
      BY <2>1, <3>1, <3>4, <3>a DEF WholeAt, WrkIs
    <3> QED
      BY <1>b, <3>1, <3>2, <3>3, <3>5 DEF WrkIs
  <2>2. CASE ~wrk[g].hasCpu
    <3>1. WrkIs(g, wrk[g].st, "idle", wrk[g].ram, wrk[g].mapped, wrk[g].cpu, wrk[g].hasCpu,
                wrk[g].copy)
      BY <1>13, <2>2, StepRunEffect DEF Base
    <3>2. UNCHANGED <<ram, spoiled>> /\ wrk[g].cmd = "step"
      BY <1>13, <2>2 DEF StepRun
    <3>3. WholeAt(g)
      BY DEF Pieces
    <3>4. WholeAt(g)'
      BY <3>1, <3>2, <3>3 DEF WholeAt, WrkIs
    <3> QED
      BY <1>a, <3>1, <3>2, <3>4 DEF WrkIs
  <2> QED
    BY <2>1, <2>2
<1>14. ASSUME NEW g \in Segs, StepAnswer(g) PROVE AllWhole
  <2>1. WrkIs(g, wrk[g].st, "idle", wrk[g].ram, wrk[g].mapped, wrk[g].cpu, wrk[g].hasCpu,
              wrk[g].cpu)
    BY <1>14, StepAnswerEffect DEF Base
  <2>2. UNCHANGED <<ram, spoiled>> /\ wrk[g].cmd = "ran" /\ wrk[g].st = "ready"
    BY <1>14 DEF StepAnswer, Live
  <2>3. WholeAt(g)
    BY DEF Pieces
  <2>4. WholeAt(g)'
    BY <2>1, <2>2, <2>3 DEF WholeAt, WrkIs
  <2> QED
    BY <1>a, <2>1, <2>2, <2>4 DEF WrkIs
<1>15. CASE ServerCrash
  BY <1>15 DEF ServerCrash, Unused, WholeAt
<1>16. CASE UNCHANGED vars
  BY <1>0, <1>16 DEF vars
<1> QED
  BY <1>1, <1>2, <1>3, <1>4, <1>5, <1>6, <1>7, <1>8, <1>9, <1>10, <1>11, <1>12,
     <1>13, <1>14, <1>15, <1>16 DEF Next, Serve

\* A snapshot that is being taken, or is in the row, stays of one piece.
LEMMA NextSnapshots ==
    Base /\ Pieces /\ [Next]_vars => RowWhole' /\ \A s \in Sessions : ReadWhole(s)'
<1> SUFFICES ASSUME Base, Pieces, [Next]_vars
             PROVE  RowWhole' /\ \A s \in Sessions : ReadWhole(s)'
  OBVIOUS
<1> DEFINE AllRead == \A s \in Sessions : ReadWhole(s)'
<1>a. \A s \in Sessions : ses[s].at = "save" => ses[s].att \in Segs
  BY DEF Base, Typed, Waits, Session
<1>b. ASSUME UNCHANGED <<row, torn>> PROVE RowWhole'
  BY <1>b DEF Pieces, RowWhole
\* a step of session s that keeps every copy of the registers
<1>c. ASSUME NEW s \in Sessions, \A t \in Sessions \ {s} : ses'[t] = ses[t],
             ses'[s].at # "save", \A h \in Segs : wrk'[h].copy = wrk[h].copy,
             UNCHANGED spoiled, overlap \ {s} \subseteq overlap'
      PROVE  AllRead
  BY <1>a, <1>c DEF Pieces, ReadWhole
\* a step of worker g
<1>d. ASSUME NEW g \in Segs, UNCHANGED ses, \A h \in Segs \ {g} : wrk'[h] = wrk[h],
             spoiled \ {g} \subseteq spoiled', overlap \subseteq overlap',
             \/ Saving(g) \subseteq overlap'
             \/ wrk'[g].copy = wrk[g].copy /\ spoiled \subseteq spoiled'
             \/ g \in spoiled'
      PROVE  AllRead
  <2> SUFFICES ASSUME NEW s \in Sessions, s \notin overlap', ses[s].at = "save",
                      ses[s].att \notin spoiled'
               PROVE  OfOne(ses[s].buf, wrk'[ses[s].att].copy)
    BY <1>d DEF ReadWhole
  <2>1. ses[s].att \in Segs /\ s \notin overlap /\ ReadWhole(s)
    BY <1>a, <1>d DEF Pieces
  <2>2. CASE ses[s].att # g
    BY <1>d, <2>1, <2>2 DEF ReadWhole
  <2>3. CASE ses[s].att = g
    BY <1>d, <2>1, <2>3 DEF ReadWhole, Saving
  <2> QED
    BY <2>2, <2>3
<1>1. ASSUME NEW s \in Sessions, Launch(s) PROVE RowWhole' /\ AllRead
  <2>1. /\ \A t \in Sessions \ {s} : ses'[t] = ses[t]
        /\ ses'[s].at = "launch" /\ \A h \in Segs : wrk'[h].copy = wrk[h].copy
    BY <1>1, LaunchEffect DEF SesIs, WrkIs, Base
  <2>2. UNCHANGED <<row, torn, spoiled, overlap>>
    BY <1>1 DEF Launch
  <2> QED
    BY <1>b, <1>c, <2>1, <2>2
<1>2. ASSUME NEW s \in Sessions, BootFound(s) \/ Step(s) \/ Halt(s) \/ LaunchRefused(s)
      PROVE  RowWhole' /\ AllRead
  <2>1. /\ \A t \in Sessions \ {s} : ses'[t] = ses[t]
        /\ ses'[s].at # "save" /\ \A h \in Segs : wrk'[h].copy = wrk[h].copy
        /\ UNCHANGED <<row, torn, spoiled, overlap>>
    BY <1>2, AskEffect DEF SesIs, WrkIs, Base
  <2> QED
    BY <1>b, <1>c, <2>1
<1>3. ASSUME NEW s \in Sessions, Launched(s) PROVE RowWhole' /\ AllRead
  <2>1. /\ \A t \in Sessions \ {s} : ses'[t] = ses[t]
        /\ ses'[s].at = "call" /\ \A h \in Segs : wrk'[h].copy = wrk[h].copy
    BY <1>3, LaunchedEffect DEF SesIs, WrkIs, Base
  <2>2. UNCHANGED <<row, torn, spoiled, overlap>>
    BY <1>3 DEF Launched
  <2> QED
    BY <1>b, <1>c, <2>1, <2>2
<1>4. ASSUME NEW s \in Sessions, LaunchError(s) PROVE RowWhole' /\ AllRead
  <2>1. ses'[s].at = "idle" /\ \A t \in Sessions \ {s} : ses'[t] = ses[t]
    BY <1>4, LaunchErrorEffect DEF SesIs, Base
  <2>2. UNCHANGED <<wrk, row, torn, spoiled, overlap>>
    BY <1>4 DEF LaunchError
  <2> QED
    BY <1>b, <1>c, <2>1, <2>2
<1>5. ASSUME NEW s \in Sessions, Return(s) PROVE RowWhole' /\ AllRead
  <2>1. ses'[s].at = "idle" /\ \A t \in Sessions \ {s} : ses'[t] = ses[t]
    BY <1>5, ReturnEffect DEF SesIs, Base
  <2>2. UNCHANGED <<wrk, torn, spoiled, overlap>>
    BY <1>5 DEF Return
  <2>3. row'.saved = row.saved /\ row'.ram = row.ram /\ row'.cpu = row.cpu
    <3>1. row' = row \/ row' = [row EXCEPT !.handle = ses[s].reg]
      BY <1>5 DEF Return
    <3> QED
      BY <3>1 DEF Base, Typed, Row
  <2>4. RowWhole'
    BY <2>2, <2>3 DEF RowWhole, Pieces
  <2> QED
    BY <1>c, <2>1, <2>2, <2>4
<1>6. ASSUME NEW s \in Sessions, Reset(s) PROVE RowWhole' /\ AllRead
  BY <1>6 DEF Reset, NoRow, RowWhole, Pieces, ReadWhole
<1>7. ASSUME NEW s \in Sessions, Disconnect(s) PROVE RowWhole' /\ AllRead
  <2>1. ses'[s].at = "idle" /\ \A t \in Sessions \ {s} : ses'[t] = ses[t]
    BY <1>7 DEF Disconnect, Detached, Base, Typed
  <2>2. UNCHANGED <<wrk, row, torn, spoiled, overlap>>
    BY <1>7 DEF Disconnect
  <2> QED
    BY <1>b, <1>c, <2>1, <2>2
<1>8. ASSUME NEW s \in Sessions, SaveRam(s) PROVE RowWhole' /\ AllRead
  <2>1. PICK a \in Segs, m \in Rams :
           /\ wrk[a].st \in {"ready", "dead"} /\ wrk[a].ram # None
           /\ SesIs(s, a, m, "save", ses[s].ends, ses[s].reg, ram[m])
           /\ overlap' = IF wrk[a].cmd \in {"loading", "ran"} \/ m # wrk[a].ram
                         THEN overlap \cup {s} ELSE overlap
    BY <1>8, SaveRamEffect DEF Base
  <2>2. UNCHANGED <<wrk, row, torn, spoiled>>
    BY <1>8 DEF SaveRam
  <2>3. WholeAt(a)
    BY DEF Pieces
  <2>4. ReadWhole(s)'
    BY <2>1, <2>2, <2>3 DEF ReadWhole, WholeAt, SesIs
  <2>5. \A t \in Sessions \ {s} : ReadWhole(t)'
    BY <2>1, <2>2 DEF Pieces, ReadWhole, SesIs
  <2> QED
    BY <1>b, <2>2, <2>4, <2>5
<1>9. ASSUME NEW s \in Sessions, SaveCpu(s) PROVE RowWhole' /\ AllRead
  <2>1. ses'[s].at = "idle" /\ \A t \in Sessions \ {s} : ses'[t] = ses[t]
    BY <1>9, SaveCpuEffect DEF SesIs, Base
  <2>2. /\ UNCHANGED <<wrk, spoiled>> /\ overlap' = overlap \ {s} /\ ses[s].at = "save"
        /\ row'.ram = ses[s].buf /\ row'.cpu = wrk[ses[s].att].copy
        /\ s \in overlap \/ ses[s].att \in spoiled => torn'
    BY <1>9 DEF SaveCpu
  <2>3. RowWhole'
    BY <2>2 DEF Pieces, ReadWhole, RowWhole
  <2> QED
    BY <1>c, <2>1, <2>2, <2>3
<1>10. CASE ServerCrash
  <2>1. RowWhole'
    BY <1>b, <1>10 DEF ServerCrash
  <2>2. AllRead
    BY <1>10 DEF ServerCrash, Detached, ReadWhole
  <2> QED
    BY <2>1, <2>2
<1>11. ASSUME NEW g \in Segs, WorkerStart(g) PROVE RowWhole' /\ AllRead
  <2>1. wrk'[g].copy = wrk[g].copy /\ \A h \in Segs \ {g} : wrk'[h] = wrk[h]
    BY <1>11, WorkerStartEffect DEF WrkIs, Base
  <2>2. UNCHANGED <<ses, row, torn, spoiled, overlap>>
    BY <1>11 DEF WorkerStart
  <2> QED
    BY <1>b, <1>d, <2>1, <2>2
<1>12. ASSUME NEW g \in Segs, WorkerTerm(g) \/ WorkerHalt(g) PROVE RowWhole' /\ AllRead
  <2>0. Stopped(g)
    BY <1>12 DEF WorkerTerm, WorkerHalt
  <2>1. /\ wrk'[g].copy = IF Saving(g) = {} THEN RegsAt(0) ELSE wrk[g].copy
        /\ \A h \in Segs \ {g} : wrk'[h] = wrk[h]
    BY <2>0, StoppedEffect DEF WrkIs, Base
  <2>2. /\ UNCHANGED <<ses, row, torn, overlap>>
        /\ spoiled' = IF Saving(g) = {} THEN spoiled \ {g} ELSE spoiled
    BY <2>0 DEF Stopped
  <2>3. CASE Saving(g) = {}
    BY <1>b, <1>d, <2>1, <2>2, <2>3
  <2>4. CASE Saving(g) # {}
    BY <1>b, <1>d, <2>1, <2>2, <2>4
  <2> QED
    BY <2>3, <2>4
<1>13. ASSUME NEW g \in Segs, WorkerError(g) PROVE RowWhole' /\ AllRead
  <2>1. wrk'[g].copy = wrk[g].copy /\ \A h \in Segs \ {g} : wrk'[h] = wrk[h]
    BY <1>13, WorkerErrorEffect DEF WrkIs, Base
  <2>2. UNCHANGED <<ses, row, torn, overlap>> /\ spoiled \subseteq spoiled'
    BY <1>13 DEF WorkerError
  <2> QED
    BY <1>b, <1>d, <2>1, <2>2
<1>14. ASSUME NEW g \in Segs, BootNoRam(g) PROVE RowWhole' /\ AllRead
  <2>1. wrk'[g].copy = wrk[g].copy /\ \A h \in Segs \ {g} : wrk'[h] = wrk[h]
    BY <1>14, BootNoRamEffect DEF WrkIs, Base
  <2>2. UNCHANGED <<ses, row, torn, spoiled, overlap>>
    BY <1>14 DEF BootNoRam
  <2> QED
    BY <1>b, <1>d, <2>1, <2>2
<1>15. ASSUME NEW g \in Segs,
              BootLoad(g) \/ Resume(g) \/ ColdBoot(g) \/ StepRun(g) \/ StepAnswer(g)
       PROVE  RowWhole' /\ AllRead
  <2>1. \A h \in Segs \ {g} : wrk'[h] = wrk[h]
    BY <1>15, WorkIsOwn DEF Base
  <2>2. /\ UNCHANGED <<ses, row, torn>> /\ overlap' = overlap \cup Saving(g)
        /\ spoiled \ {g} \subseteq spoiled'
    BY <1>15 DEF BootLoad, Resume, ColdBoot, StepRun, StepAnswer
  <2> QED
    BY <1>b, <1>d, <2>1, <2>2
<1>16. ASSUME NEW g \in Segs, BootError(g) PROVE RowWhole' /\ AllRead
  <2>1. \A h \in Segs \ {g} : wrk'[h] = wrk[h]
    BY <1>16, WorkIsOwn DEF Base
  <2>2. UNCHANGED <<ses, row, torn, overlap>> /\ spoiled' = spoiled \cup {g}
    BY <1>16 DEF BootError
  <2> QED
    BY <1>b, <1>d, <2>1, <2>2
<1>17. CASE UNCHANGED vars
  BY <1>17 DEF vars, Pieces, RowWhole, ReadWhole
<1> QED
  BY <1>1, <1>2, <1>3, <1>4, <1>5, <1>6, <1>7, <1>8, <1>9, <1>10, <1>11, <1>12, <1>13,
     <1>14, <1>15, <1>16, <1>17 DEF Next, Serve

\* RAM, registers and copy of a running machine, and the RAM and registers of
\* the snapshot in vm_state, belong to one instant, through any interleaving of
\* saves, boots, steps, errors and crashes but the named ones.
THEOREM MachinesAreOfOneInstant == Spec => []OneInstant
<1>1. Init => Pieces
  <2>1. Init => OwnRam /\ Fresh
    BY DEF Init, OwnRam, Fresh, Detached, Unused, None
  <2>2. Init => RowWhole
    BY DEF Init, RowWhole, NoRow, SavedRow, OfOne, RegsAt
  <2>3. Init => (\A g \in Segs : WholeAt(g)) /\ \A s \in Sessions : ReadWhole(s)
    BY DEF Init, WholeAt, ReadWhole, Detached, Unused
  <2> QED
    BY <2>1, <2>2, <2>3 DEF Pieces
<1>2. Base /\ Pieces /\ [Next]_vars => Pieces'
  <2> SUFFICES ASSUME Base, Pieces, [Next]_vars PROVE Pieces'
    OBVIOUS
  <2>1. OwnRam' /\ Fresh'
    BY NextOwnRam, NextFresh DEF Pieces
  <2>2. \A g \in Segs : WholeAt(g)'
    BY NextWhole
  <2>3. RowWhole' /\ \A s \in Sessions : ReadWhole(s)'
    BY NextSnapshots
  <2> QED
    BY <2>1, <2>2, <2>3 DEF Pieces
<1>3. Base /\ Pieces => OneInstant
  <2> SUFFICES ASSUME Base, Pieces PROVE OneInstant
    OBVIOUS
  <2>1. ASSUME NEW g \in Live \ spoiled, wrk[g].hasCpu,
               wrk[g].cmd \in {"idle", "boot", "step", "halt"}
        PROVE  OfOne(ram[wrk[g].ram], wrk[g].cpu) /\ wrk[g].cpu = wrk[g].copy
    <3>1. g \in Segs /\ wrk[g].st = "ready" /\ wrk[g].ram # None
      BY <2>1 DEF Live, Base, Typed
    <3>2. WholeAt(g)
      BY <3>1 DEF Pieces
    <3> QED
      BY <2>1, <3>1, <3>2 DEF WholeAt
  <2> QED
    BY <2>1 DEF OneInstant, Pieces, RowWhole
<1> QED
  BY <1>1, <1>2, <1>3, BaseHolds, PTL DEF Spec

=============================================================================
