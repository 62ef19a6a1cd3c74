---------------------------- MODULE VmIpcProofs ----------------------------
(* Proofs about the command channel, for any set of sessions, any number   *)
(* of calls and any combination of commands and faults.                    *)
EXTENDS VmIpc, TLAPS

\* The initial state is well typed, and no session is in a call.
LEMMA InitTyped == Init => TypeOK /\ CallCounted
<1> SUFFICES ASSUME Init PROVE TypeOK /\ CallCounted
    OBVIOUS
<1>1. NoOutcome \in Outcome
    BY DEF NoOutcome, Outcome, CmdNames
<1>2. outcome \in [Clients -> Outcome]
    BY <1>1 DEF Init
<1>3. calls \in [Clients -> 0 .. MaxCalls]
    BY ConstantsAssumption DEF Init
<1>4. QED
    BY <1>2, <1>3 DEF Init, TypeOK, SharedTypes, WorkerTypes, SessionTypes, CallCounted, CmdNames, WorkerPlaces,
                     SessionPlaces

\* A request a session has made is one of the requests.
LEMMA ReqIsRequest ==
    ASSUME TypeOK, NEW c \in Clients, calls[c] # 0
    PROVE  Req(c) \in Requests
BY ConstantsAssumption DEF TypeOK, SessionTypes, Req, Requests

\* What a call tells its caller is well typed.
LEMMA FinishTyped ==
    ASSUME TypeOK, CallCounted, NEW c \in Clients, pc[c] # "idle",
           NEW status \in {"ok", "error", "skipped"}, Finish(c, status)
    PROVE  outcome' \in [Clients -> Outcome]
<1>1. Req(c) \in Requests
    BY ReqIsRequest DEF CallCounted
<1>2. [status |-> status, op |-> op[c], req |-> Req(c), ret |-> ret] \in Outcome
    BY <1>1 DEF TypeOK, SharedTypes, SessionTypes, Outcome
<1>3. QED
    BY <1>2 DEF TypeOK, SessionTypes, Finish

\* What a handler records is well typed.
LEMMA ServeTyped ==
    ASSUME TypeOK, NEW o \in CmdNames, NEW r \in Requests \cup {NoReq},
           NEW ok \in BOOLEAN, Serve(o, r, ok)
    PROVE  served' \subseteq Service
<1>1. [op |-> o, req |-> r, ok |-> ok] \in Service
    BY DEF Service
<1>2. QED
    BY <1>1 DEF TypeOK, Serve

\* The handler the worker is in fits the command it fetched.
LEMMA NextHandlerMatches ==
    ASSUME TypeOK, HandlerMatches, [Next]_vars
    PROVE  HandlerMatches'
<1> USE DEF HandlerMatches, worker, session, shared
<1>1. ASSUME NEW c \in Clients, SessionStep(c) \/ Cancel(c) PROVE HandlerMatches'
    BY <1>1 DEF SessionStep, Cancel, Enter, Refuse, Post, Signal, ResetOwn, Check,
                Wake, Return
<1>2. ASSUME NEW c \in Clients, NEW o \in Ops, Call(c, o) PROVE HandlerMatches'
    BY <1>2 DEF Call
<1>3. CASE WFetch
    BY <1>3 DEF WFetch, WGoto, Handler, TypeOK, SharedTypes
<1>4. CASE WBoot \/ WRun \/ WPublish \/ WExec \/ WIdle \/ WSignal
    BY <1>4 DEF WBoot, WRun, WPublish, WExec, WIdle, WSignal, WGoto, CmdNames
<1>5. CASE WTop \/ WReset \/ WFlush \/ WWake \/ WTimeout \/ WExit \/ WBye
    BY <1>5 DEF WTop, WReset, WFlush, WWake, WTimeout, WExit, WBye, WGoto
<1>6. CASE WError \/ Sigterm
    BY <1>6 DEF WError, Sigterm
<1>7. CASE UNCHANGED vars
    BY <1>7 DEF vars
<1> QED
    BY <1>1, <1>2, <1>3, <1>4, <1>5, <1>6, <1>7 DEF Next, WorkerStep, Done

\* Every step keeps the types.
LEMMA NextTyped ==
    ASSUME TypeOK, CallCounted, HandlerMatches, [Next]_vars
    PROVE  TypeOK' /\ CallCounted'
<1>1. ASSUME NEW c \in Clients, Enter(c) PROVE TypeOK' /\ CallCounted'
    <2>1. SharedTypes'
        BY <1>1 DEF TypeOK, SharedTypes, Enter, Goto, shared, worker, session
    <2>2. WorkerTypes'
        BY <1>1 DEF TypeOK, WorkerTypes, WorkerPlaces, Enter, Goto, shared, worker, session
    <2>3. SessionTypes' /\ CallCounted'
        BY <1>1 DEF TypeOK, SessionTypes, SessionPlaces, CallCounted, Enter, Goto, shared, worker, session
    <2>4. QED
        BY <1>1, <2>1, <2>2, <2>3 DEF TypeOK, Enter, Goto, shared, worker, session
<1>2. ASSUME NEW c \in Clients, Refuse(c) PROVE TypeOK' /\ CallCounted'
    <2>1. pc[c] # "idle"
        BY <1>2 DEF Refuse, Goto
    <2>2. PICK status \in {"ok", "error", "skipped"} : Finish(c, status)
        BY <1>2 DEF Refuse
    <2>3. outcome' \in [Clients -> Outcome]
        BY <2>1, <2>2, FinishTyped
    <2>4. SharedTypes'
        BY <1>2, <2>3 DEF TypeOK, SharedTypes, Refuse, Goto, shared, worker, session
    <2>5. WorkerTypes'
        BY <1>2, <2>3 DEF TypeOK, WorkerTypes, WorkerPlaces, Refuse, Goto, shared, worker, session
    <2>6. SessionTypes' /\ CallCounted'
        BY <1>2, <2>3 DEF TypeOK, SessionTypes, SessionPlaces, CallCounted, Refuse, Goto, shared, worker, session
    <2>7. QED
        BY <1>2, <2>4, <2>5, <2>6 DEF TypeOK, Refuse, Goto, shared, worker, session
<1>3. ASSUME NEW c \in Clients, Post(c) PROVE TypeOK' /\ CallCounted'
    <2>1. Req(c) \in Requests
        BY <1>3, ReqIsRequest DEF CallCounted, Post, Goto
    <2>2. op[c] \in CmdNames
        BY DEF TypeOK, SessionTypes
    <2>3. SharedTypes'
        BY <1>3, <2>1, <2>2 DEF TypeOK, SharedTypes, Post, Goto, shared, worker, session
    <2>4. WorkerTypes'
        BY <1>3, <2>1, <2>2 DEF TypeOK, WorkerTypes, WorkerPlaces, Post, Goto, shared, worker, session
    <2>5. SessionTypes' /\ CallCounted'
        BY <1>3, <2>1, <2>2 DEF TypeOK, SessionTypes, SessionPlaces, CallCounted, Post, Goto, shared, worker, session
    <2>6. QED
        BY <1>3, <2>3, <2>4, <2>5 DEF TypeOK, Post, Goto, shared, worker, session
<1>4. ASSUME NEW c \in Clients, Signal(c) PROVE TypeOK' /\ CallCounted'
    <2>1. SharedTypes'
        BY <1>4 DEF TypeOK, SharedTypes, Signal, Goto, shared, worker, session
    <2>2. WorkerTypes'
        BY <1>4 DEF TypeOK, WorkerTypes, WorkerPlaces, Signal, Goto, shared, worker, session
    <2>3. SessionTypes' /\ CallCounted'
        BY <1>4 DEF TypeOK, SessionTypes, SessionPlaces, CallCounted, Signal, Goto, shared, worker, session
    <2>4. QED
        BY <1>4, <2>1, <2>2, <2>3 DEF TypeOK, Signal, Goto, shared, worker, session
<1>5. ASSUME NEW c \in Clients, ResetOwn(c) PROVE TypeOK' /\ CallCounted'
    <2>1. SharedTypes'
        BY <1>5 DEF TypeOK, SharedTypes, ResetOwn, Goto, shared, worker, session
    <2>2. WorkerTypes'
        BY <1>5 DEF TypeOK, WorkerTypes, WorkerPlaces, ResetOwn, Goto, shared, worker, session
    <2>3. SessionTypes' /\ CallCounted'
        BY <1>5 DEF TypeOK, SessionTypes, SessionPlaces, CallCounted, ResetOwn, Goto, shared, worker, session
    <2>4. QED
        BY <1>5, <2>1, <2>2, <2>3 DEF TypeOK, ResetOwn, Goto, shared, worker, session
<1>6. ASSUME NEW c \in Clients, Check(c) PROVE TypeOK' /\ CallCounted'
    <2>1. SharedTypes'
        BY <1>6 DEF TypeOK, SharedTypes, Check, Goto, shared, worker, session
    <2>2. WorkerTypes'
        BY <1>6 DEF TypeOK, WorkerTypes, WorkerPlaces, Check, Goto, shared, worker, session
    <2>3. SessionTypes' /\ CallCounted'
        BY <1>6 DEF TypeOK, SessionTypes, SessionPlaces, CallCounted, Check, Goto, shared, worker, session
    <2>4. QED
        BY <1>6, <2>1, <2>2, <2>3 DEF TypeOK, Check, Goto, shared, worker, session
<1>7. ASSUME NEW c \in Clients, Wake(c) PROVE TypeOK' /\ CallCounted'
    <2>1. SharedTypes'
        BY <1>7 DEF TypeOK, SharedTypes, Wake, Goto, shared, worker, session
    <2>2. WorkerTypes'
        BY <1>7 DEF TypeOK, WorkerTypes, WorkerPlaces, Wake, Goto, shared, worker, session
    <2>3. SessionTypes' /\ CallCounted'
        BY <1>7 DEF TypeOK, SessionTypes, SessionPlaces, CallCounted, Wake, Goto, shared, worker, session
    <2>4. QED
        BY <1>7, <2>1, <2>2, <2>3 DEF TypeOK, Wake, Goto, shared, worker, session
<1>8. ASSUME NEW c \in Clients, Cancel(c) PROVE TypeOK' /\ CallCounted'
    <2>1. pc[c] # "idle"
        BY <1>8 DEF Cancel
    <2>2. PICK status \in {"ok", "error", "skipped"} : Finish(c, status)
        BY <1>8 DEF Cancel
    <2>3. outcome' \in [Clients -> Outcome]
        BY <2>1, <2>2, FinishTyped
    <2>4. SharedTypes'
        BY <1>8, <2>3 DEF TypeOK, SharedTypes, Cancel, Goto, shared, worker, session
    <2>5. WorkerTypes'
        BY <1>8, <2>3 DEF TypeOK, WorkerTypes, WorkerPlaces, Cancel, Goto, shared, worker, session
    <2>6. SessionTypes' /\ CallCounted'
        BY <1>8, <2>3 DEF TypeOK, SessionTypes, SessionPlaces, CallCounted, Cancel, Goto, shared, worker, session
    <2>7. QED
        BY <1>8, <2>4, <2>5, <2>6 DEF TypeOK, Cancel, Goto, shared, worker, session
<1>9. ASSUME NEW c \in Clients, Return(c) PROVE TypeOK' /\ CallCounted'
    <2>1. pc[c] # "idle"
        BY <1>9 DEF Return, Goto
    <2>2. PICK status \in {"ok", "error", "skipped"} : Finish(c, status)
        BY <1>9 DEF Return
    <2>3. outcome' \in [Clients -> Outcome]
        BY <2>1, <2>2, FinishTyped
    <2>4. SharedTypes'
        BY <1>9, <2>3 DEF TypeOK, SharedTypes, Return, Goto, shared, worker, session
    <2>5. WorkerTypes'
        BY <1>9, <2>3 DEF TypeOK, WorkerTypes, WorkerPlaces, Return, Goto, shared, worker, session
    <2>6. SessionTypes' /\ CallCounted'
        BY <1>9, <2>3 DEF TypeOK, SessionTypes, SessionPlaces, CallCounted, Return, Goto, shared, worker, session
    <2>7. QED
        BY <1>9, <2>4, <2>5, <2>6 DEF TypeOK, Return, Goto, shared, worker, session
<1>10. ASSUME NEW c \in Clients, NEW o \in Ops, Call(c, o)
      PROVE TypeOK' /\ CallCounted'
    <2>1. calls' \in [Clients -> 0 .. MaxCalls]
        BY <1>10, ConstantsAssumption DEF TypeOK, SessionTypes, Call
    <2>2. <<c, calls[c] + 1>> \in Requests
        BY <1>10, ConstantsAssumption DEF TypeOK, SessionTypes, Call, Requests
    <2>3. calls'[c] # 0 /\ \A d \in Clients : d # c => calls'[d] = calls[d]
        BY <1>10 DEF TypeOK, SessionTypes, Call
    <2>4. o \in CmdNames
        BY ConstantsAssumption
    <2>5. SharedTypes'
        BY <1>10, <2>1, <2>2, <2>3, <2>4 DEF TypeOK, SharedTypes, Call, Goto, shared, worker, session
    <2>6. WorkerTypes'
        BY <1>10, <2>1, <2>2, <2>3, <2>4 DEF TypeOK, WorkerTypes, WorkerPlaces, Call, Goto, shared, worker, session
    <2>7. SessionTypes' /\ CallCounted'
        BY <1>10, <2>1, <2>2, <2>3, <2>4 DEF TypeOK, SessionTypes, SessionPlaces, CallCounted, Call, Goto, shared, worker, session
    <2>8. QED
        BY <1>10, <2>5, <2>6, <2>7 DEF TypeOK, Call, Goto, shared, worker, session
<1>11. ASSUME WTop PROVE TypeOK' /\ CallCounted'
    <2>1. SharedTypes'
        BY <1>11 DEF TypeOK, SharedTypes, WTop, WGoto, shared, worker, session
    <2>2. WorkerTypes'
        BY <1>11 DEF TypeOK, WorkerTypes, WorkerPlaces, WTop, WGoto, shared, worker, session
    <2>3. SessionTypes' /\ CallCounted'
        BY <1>11 DEF TypeOK, SessionTypes, SessionPlaces, CallCounted, WTop, WGoto, shared, worker, session
    <2>4. QED
        BY <1>11, <2>1, <2>2, <2>3 DEF TypeOK, WTop, WGoto, shared, worker, session
<1>12. ASSUME WReset PROVE TypeOK' /\ CallCounted'
    <2>1. SharedTypes'
        BY <1>12 DEF TypeOK, SharedTypes, WReset, WGoto, shared, worker, session
    <2>2. WorkerTypes'
        BY <1>12 DEF TypeOK, WorkerTypes, WorkerPlaces, WReset, WGoto, shared, worker, session
    <2>3. SessionTypes' /\ CallCounted'
        BY <1>12 DEF TypeOK, SessionTypes, SessionPlaces, CallCounted, WReset, WGoto, shared, worker, session
    <2>4. QED
        BY <1>12, <2>1, <2>2, <2>3 DEF TypeOK, WReset, WGoto, shared, worker, session
<1>13. ASSUME WFetch PROVE TypeOK' /\ CallCounted'
    <2>1. SharedTypes'
        BY <1>13 DEF TypeOK, SharedTypes, WFetch, WGoto, Handler, CmdNames, shared, worker, session
    <2>2. WorkerTypes'
        BY <1>13 DEF TypeOK, SharedTypes, WorkerTypes, WorkerPlaces, WFetch, WGoto, Handler, CmdNames, shared, worker, session
    <2>3. SessionTypes' /\ CallCounted'
        BY <1>13 DEF TypeOK, SessionTypes, SessionPlaces, CallCounted, WFetch, WGoto, Handler, CmdNames, shared, worker, session
    <2>4. QED
        BY <1>13, <2>1, <2>2, <2>3 DEF TypeOK, WFetch, WGoto, Handler, CmdNames, shared, worker, session
<1>14. ASSUME WBoot PROVE TypeOK' /\ CallCounted'
    <2>1. served' \subseteq Service
        BY <1>14, ServeTyped DEF WBoot, TypeOK, SharedTypes, WorkerTypes, CmdNames
    <2>2. SharedTypes'
        BY <1>14 DEF TypeOK, SharedTypes, WBoot, WGoto, shared, worker, session
    <2>3. WorkerTypes'
        BY <1>14 DEF TypeOK, WorkerTypes, WorkerPlaces, WBoot, WGoto, shared, worker, session
    <2>4. SessionTypes' /\ CallCounted'
        BY <1>14 DEF TypeOK, SessionTypes, SessionPlaces, CallCounted, WBoot, WGoto, shared, worker, session
    <2>5. QED
        BY <1>14, <2>1, <2>2, <2>3, <2>4 DEF TypeOK, WBoot, WGoto, shared, worker, session
<1>15. ASSUME WRun PROVE TypeOK' /\ CallCounted'
    <2>1. served' \subseteq Service
        BY <1>15, ServeTyped DEF WRun, TypeOK, SharedTypes, WorkerTypes, CmdNames
    <2>2. SharedTypes'
        BY <1>15 DEF TypeOK, SharedTypes, WRun, WGoto, shared, worker, session
    <2>3. WorkerTypes'
        BY <1>15 DEF TypeOK, SharedTypes, WorkerTypes, WorkerPlaces, WRun, WGoto, shared, worker, session
    <2>4. SessionTypes' /\ CallCounted'
        BY <1>15 DEF TypeOK, SessionTypes, SessionPlaces, CallCounted, WRun, WGoto, shared, worker, session
    <2>5. QED
        BY <1>15, <2>1, <2>2, <2>3, <2>4 DEF TypeOK, WRun, WGoto, shared, worker, session
<1>16. ASSUME WPublish PROVE TypeOK' /\ CallCounted'
    <2>1. SharedTypes'
        BY <1>16 DEF TypeOK, SharedTypes, WorkerTypes, WPublish, WGoto, shared, worker, session
    <2>2. WorkerTypes'
        BY <1>16 DEF TypeOK, WorkerTypes, WorkerPlaces, WPublish, WGoto, shared, worker, session
    <2>3. SessionTypes' /\ CallCounted'
        BY <1>16 DEF TypeOK, SessionTypes, SessionPlaces, CallCounted, WPublish, WGoto, shared, worker, session
    <2>4. QED
        BY <1>16, <2>1, <2>2, <2>3 DEF TypeOK, WPublish, WGoto, shared, worker, session
<1>17. ASSUME WExec PROVE TypeOK' /\ CallCounted'
    <2>1. wcmd \in CmdNames
        BY <1>17 DEF HandlerMatches, WExec, WGoto
    <2>2. PICK r \in Requests \cup {NoReq}, ok \in BOOLEAN : Serve(wcmd, r, ok)
        BY <1>17 DEF WExec, TypeOK, SharedTypes, WorkerTypes
    <2>3. served' \subseteq Service
        BY <2>1, <2>2, ServeTyped
    <2>4. SharedTypes'
        BY <1>17 DEF TypeOK, SharedTypes, WExec, WGoto, shared, worker, session
    <2>5. WorkerTypes'
        BY <1>17 DEF TypeOK, WorkerTypes, WorkerPlaces, WExec, WGoto, shared, worker, session
    <2>6. SessionTypes' /\ CallCounted'
        BY <1>17 DEF TypeOK, SessionTypes, SessionPlaces, CallCounted, WExec, WGoto, shared, worker, session
    <2>7. QED
        BY <1>17, <2>3, <2>4, <2>5, <2>6 DEF TypeOK, WExec, WGoto, shared, worker, session
<1>18. ASSUME WIdle PROVE TypeOK' /\ CallCounted'
    <2>1. SharedTypes'
        BY <1>18 DEF TypeOK, SharedTypes, WIdle, WGoto, shared, worker, session
    <2>2. WorkerTypes'
        BY <1>18 DEF TypeOK, SharedTypes, WorkerTypes, WorkerPlaces, WIdle, WGoto, shared, worker, session
    <2>3. SessionTypes' /\ CallCounted'
        BY <1>18 DEF TypeOK, SessionTypes, SessionPlaces, CallCounted, WIdle, WGoto, shared, worker, session
    <2>4. QED
        BY <1>18, <2>1, <2>2, <2>3 DEF TypeOK, WIdle, WGoto, shared, worker, session
<1>19. ASSUME WSignal PROVE TypeOK' /\ CallCounted'
    <2>1. SharedTypes'
        BY <1>19 DEF TypeOK, SharedTypes, WSignal, WGoto, SetClientLatch, shared, worker, session
    <2>2. WorkerTypes'
        BY <1>19 DEF TypeOK, WorkerTypes, WorkerPlaces, WSignal, WGoto, SetClientLatch, shared, worker, session
    <2>3. SessionTypes' /\ CallCounted'
        BY <1>19 DEF TypeOK, SessionTypes, SessionPlaces, CallCounted, WSignal, WGoto, SetClientLatch, shared, worker, session
    <2>4. QED
        BY <1>19, <2>1, <2>2, <2>3 DEF TypeOK, WSignal, WGoto, SetClientLatch, shared, worker, session
<1>20. ASSUME WFlush PROVE TypeOK' /\ CallCounted'
    <2>1. SharedTypes'
        BY <1>20 DEF TypeOK, SharedTypes, WFlush, WGoto, shared, worker, session
    <2>2. WorkerTypes'
        BY <1>20 DEF TypeOK, WorkerTypes, WorkerPlaces, WFlush, WGoto, shared, worker, session
    <2>3. SessionTypes' /\ CallCounted'
        BY <1>20 DEF TypeOK, SessionTypes, SessionPlaces, CallCounted, WFlush, WGoto, shared, worker, session
    <2>4. QED
        BY <1>20, <2>1, <2>2, <2>3 DEF TypeOK, WFlush, WGoto, shared, worker, session
<1>21. ASSUME WWake PROVE TypeOK' /\ CallCounted'
    <2>1. SharedTypes'
        BY <1>21 DEF TypeOK, SharedTypes, WWake, WGoto, shared, worker, session
    <2>2. WorkerTypes'
        BY <1>21 DEF TypeOK, WorkerTypes, WorkerPlaces, WWake, WGoto, shared, worker, session
    <2>3. SessionTypes' /\ CallCounted'
        BY <1>21 DEF TypeOK, SessionTypes, SessionPlaces, CallCounted, WWake, WGoto, shared, worker, session
    <2>4. QED
        BY <1>21, <2>1, <2>2, <2>3 DEF TypeOK, WWake, WGoto, shared, worker, session
<1>22. ASSUME WTimeout PROVE TypeOK' /\ CallCounted'
    <2>1. SharedTypes'
        BY <1>22 DEF TypeOK, SharedTypes, WTimeout, WGoto, shared, worker, session
    <2>2. WorkerTypes'
        BY <1>22 DEF TypeOK, WorkerTypes, WorkerPlaces, WTimeout, WGoto, shared, worker, session
    <2>3. SessionTypes' /\ CallCounted'
        BY <1>22 DEF TypeOK, SessionTypes, SessionPlaces, CallCounted, WTimeout, WGoto, shared, worker, session
    <2>4. QED
        BY <1>22, <2>1, <2>2, <2>3 DEF TypeOK, WTimeout, WGoto, shared, worker, session
<1>23. ASSUME WExit PROVE TypeOK' /\ CallCounted'
    <2>1. SharedTypes'
        BY <1>23 DEF TypeOK, SharedTypes, WExit, WGoto, shared, worker, session
    <2>2. WorkerTypes'
        BY <1>23 DEF TypeOK, SharedTypes, WorkerTypes, WorkerPlaces, WExit, WGoto, shared, worker, session
    <2>3. SessionTypes' /\ CallCounted'
        BY <1>23 DEF TypeOK, SessionTypes, SessionPlaces, CallCounted, WExit, WGoto, shared, worker, session
    <2>4. QED
        BY <1>23, <2>1, <2>2, <2>3 DEF TypeOK, WExit, WGoto, shared, worker, session
<1>24. ASSUME WBye PROVE TypeOK' /\ CallCounted'
    <2>1. SharedTypes'
        BY <1>24 DEF TypeOK, SharedTypes, WBye, WGoto, SetClientLatch, shared, worker, session
    <2>2. WorkerTypes'
        BY <1>24 DEF TypeOK, WorkerTypes, WorkerPlaces, WBye, WGoto, SetClientLatch, shared, worker, session
    <2>3. SessionTypes' /\ CallCounted'
        BY <1>24 DEF TypeOK, SessionTypes, SessionPlaces, CallCounted, WBye, WGoto, SetClientLatch, shared, worker, session
    <2>4. QED
        BY <1>24, <2>1, <2>2, <2>3 DEF TypeOK, WBye, WGoto, SetClientLatch, shared, worker, session
<1>25. ASSUME WError PROVE TypeOK' /\ CallCounted'
    <2>1. SharedTypes'
        BY <1>25 DEF TypeOK, SharedTypes, WError, shared, worker, session
    <2>2. WorkerTypes'
        BY <1>25 DEF TypeOK, WorkerTypes, WorkerPlaces, WError, shared, worker, session
    <2>3. SessionTypes' /\ CallCounted'
        BY <1>25 DEF TypeOK, SessionTypes, SessionPlaces, CallCounted, WError, shared, worker, session
    <2>4. QED
        BY <1>25, <2>1, <2>2, <2>3 DEF TypeOK, WError, shared, worker, session
<1>26. ASSUME Sigterm PROVE TypeOK' /\ CallCounted'
    <2>1. SharedTypes'
        BY <1>26 DEF TypeOK, SharedTypes, Sigterm, shared, worker, session
    <2>2. WorkerTypes'
        BY <1>26 DEF TypeOK, WorkerTypes, WorkerPlaces, Sigterm, shared, worker, session
    <2>3. SessionTypes' /\ CallCounted'
        BY <1>26 DEF TypeOK, SessionTypes, SessionPlaces, CallCounted, Sigterm, shared, worker, session
    <2>4. QED
        BY <1>26, <2>1, <2>2, <2>3 DEF TypeOK, Sigterm, shared, worker, session
<1>27. ASSUME UNCHANGED vars PROVE TypeOK' /\ CallCounted'
    <2>1. SharedTypes'
        BY <1>27 DEF TypeOK, SharedTypes, vars, shared, worker, session
    <2>2. WorkerTypes'
        BY <1>27 DEF TypeOK, WorkerTypes, WorkerPlaces, vars, shared, worker, session
    <2>3. SessionTypes' /\ CallCounted'
        BY <1>27 DEF TypeOK, SessionTypes, SessionPlaces, CallCounted, vars, shared, worker, session
    <2>4. QED
        BY <1>27, <2>1, <2>2, <2>3 DEF TypeOK, vars, shared, worker, session
<1> QED
    BY <1>1, <1>2, <1>3, <1>4, <1>5, <1>6, <1>7, <1>8, <1>9, <1>10, <1>11, <1>12, <1>13, <1>14, <1>15, <1>16, <1>17, <1>18, <1>19, <1>20, <1>21, <1>22, <1>23, <1>24, <1>25, <1>26, <1>27 DEF Next, WorkerStep, SessionStep, Done

\* Type correctness of the command channel: SharedVMState, the worker and the
\* sessions keep their types whatever the sessions call and whatever fails.
THEOREM TypeCorrect == Spec => []TypeOK
<1> DEFINE Typed == TypeOK /\ CallCounted /\ HandlerMatches
<1>1. Init => Typed
    BY InitTyped DEF Init, HandlerMatches
<1>2. Typed /\ [Next]_vars => Typed'
    BY NextTyped, NextHandlerMatches
<1> QED
    BY <1>1, <1>2, PTL DEF Spec

-----------------------------------------------------------------------------
(* No wake-up is lost.                                                     *)

\* The worker's side, strengthened to the places from which it goes to sleep
\* without looking at the slot again.
WorkerWakeupInv ==
    wpc \in {"signal", "flush", "sleep"} /\ cmd # "IDLE" =>
        wlatch \/ \E c \in Clients : pc[c] = "signal"

LEMMA NextWorkerWakeup ==
    ASSUME TypeOK, WorkerWakeupInv, [Next]_vars
    PROVE  WorkerWakeupInv'
<1> USE DEF WorkerWakeupInv, worker, session, shared
<1>1. ASSUME NEW c \in Clients, Post(c) PROVE WorkerWakeupInv'
    BY <1>1 DEF Post, Goto, TypeOK, SessionTypes
<1>2. ASSUME NEW c \in Clients, Signal(c) PROVE WorkerWakeupInv'
    BY <1>2 DEF Signal
<1>3. ASSUME NEW c \in Clients,
             Enter(c) \/ Refuse(c) \/ ResetOwn(c) \/ Check(c) \/ Wake(c)
               \/ Return(c) \/ Cancel(c)
      PROVE  WorkerWakeupInv'
    <2>1. \A d \in Clients : pc[d] = "signal" => pc'[d] = "signal"
        BY <1>3 DEF Enter, Refuse, ResetOwn, Check, Wake, Return, Cancel, Goto,
                    TypeOK, SessionTypes
    <2>2. UNCHANGED <<wpc, cmd, wlatch>>
        BY <1>3 DEF Enter, Refuse, ResetOwn, Check, Wake, Return, Cancel
    <2> QED
        BY <2>1, <2>2
<1>4. ASSUME NEW c \in Clients, NEW o \in Ops, Call(c, o) PROVE WorkerWakeupInv'
    BY <1>4 DEF Call, Goto, TypeOK, SessionTypes
<1>5. CASE WFetch
    BY <1>5 DEF WFetch, WGoto, Handler
<1>6. CASE WIdle \/ Sigterm
    BY <1>6 DEF WIdle, Sigterm
<1>7. CASE WSignal \/ WFlush
    BY <1>7 DEF WSignal, WFlush, WGoto
<1>8. CASE WTop \/ WReset \/ WBoot \/ WRun \/ WPublish \/ WExec \/ WWake \/ WTimeout
              \/ WExit \/ WBye \/ WError
    BY <1>8 DEF WTop, WReset, WBoot, WRun, WPublish, WExec, WWake, WTimeout, WExit,
                WBye, WError, WGoto
<1>9. CASE UNCHANGED vars
    BY <1>9 DEF vars
<1> QED
    BY <1>1, <1>2, <1>3, <1>4, <1>5, <1>6, <1>7, <1>8, <1>9
    DEF Next, WorkerStep, SessionStep, Done

\* The session's side is inductive as it stands.
LEMMA NextClientWakeup ==
    ASSUME TypeOK, ClientWakeup, [Next]_vars
    PROVE  ClientWakeup'
<1> USE DEF ClientWakeup, worker, session, shared
<1>1. ASSUME NEW c \in Clients, Post(c) PROVE ClientWakeup'
    BY <1>1 DEF Post, Goto, TypeOK, SessionTypes
<1>2. ASSUME NEW c \in Clients, Check(c) PROVE ClientWakeup'
    BY <1>2 DEF Check, Goto, TypeOK, SessionTypes
<1>3. ASSUME NEW c \in Clients,
             Enter(c) \/ Refuse(c) \/ Signal(c) \/ ResetOwn(c) \/ Wake(c)
               \/ Return(c) \/ Cancel(c)
      PROVE  ClientWakeup'
    <2>1. \A d \in Clients : pc'[d] = "wait" /\ ~latch'[d] => pc[d] = "wait" /\ ~latch[d]
        BY <1>3 DEF Enter, Refuse, Signal, ResetOwn, Wake, Return, Cancel, Goto,
                    TypeOK, SessionTypes
    <2>2. UNCHANGED <<wpc, wclient, cmd, shutdown, clientLatch>>
        BY <1>3 DEF Enter, Refuse, Signal, ResetOwn, Wake, Return, Cancel
    <2> QED
        BY <2>1, <2>2
<1>4. ASSUME NEW c \in Clients, NEW o \in Ops, Call(c, o) PROVE ClientWakeup'
    BY <1>4 DEF Call, Goto, TypeOK, SessionTypes
<1>5. CASE WIdle \/ WExit
    BY <1>5 DEF WIdle, WExit, WGoto
<1>6. CASE WSignal \/ WBye
    BY <1>6 DEF WSignal, WBye, WGoto, SetClientLatch
<1>7. CASE WTop \/ WReset \/ WFetch \/ WBoot \/ WRun \/ WPublish \/ WExec \/ WFlush
              \/ WWake \/ WTimeout
    BY <1>7 DEF WTop, WReset, WFetch, WBoot, WRun, WPublish, WExec, WFlush, WWake,
                WTimeout, WGoto
<1>8. CASE WError \/ Sigterm
    BY <1>8 DEF WError, Sigterm
<1>9. CASE UNCHANGED vars
    BY <1>9 DEF vars
<1> QED
    BY <1>1, <1>2, <1>3, <1>4, <1>5, <1>6, <1>7, <1>8, <1>9
    DEF Next, WorkerStep, SessionStep, Done

\* The worker never sleeps through a command and a waiting session whose latch
\* is in the slot is never forgotten, for any number of overlapping sessions.
THEOREM NoLostWakeup == Spec => [](WorkerWakeup /\ ClientWakeup)
<1>1. Init => WorkerWakeupInv /\ ClientWakeup
    BY DEF Init, WorkerWakeupInv, ClientWakeup
<1>2. TypeOK /\ WorkerWakeupInv /\ ClientWakeup /\ [Next]_vars
        => WorkerWakeupInv' /\ ClientWakeup'
    BY NextWorkerWakeup, NextClientWakeup
<1>3. WorkerWakeupInv => WorkerWakeup
    BY DEF WorkerWakeupInv, WorkerWakeup
<1> QED
    BY <1>1, <1>2, <1>3, TypeCorrect, PTL DEF Spec

\* The session's half of it by itself: ipc_send_and_wait never sleeps on an
\* answer that is already there.
THEOREM ClientsAreWoken == Spec => []ClientWakeup
<1>1. WorkerWakeup /\ ClientWakeup => ClientWakeup
    OBVIOUS
<1> QED
    BY <1>1, NoLostWakeup, PTL

-----------------------------------------------------------------------------
(* Taking turns, the sessions see a service.                               *)

\* Sessions take turns, nobody halts the worker, and nothing but a database
\* error ends it.
Quiet == Exclusive = TRUE /\ Faults \subseteq {"error"} /\ "HALT" \notin Ops

\* Where a session is between its command and the answer, and where the
\* worker is in a handler.
Sent == {"signal", "reset", "check", "wait"}
Busy == {"boot", "run", "publish", "exec", "idle"}

\* The worker does not leave through its shutdown code.
NoStop ==
    /\ ready = TRUE /\ shutdown = FALSE /\ sigterm = FALSE /\ wpc \notin {"exit", "bye"}
    /\ wcmd # "HALT" /\ cmd # "HALT"
    /\ \A c \in Clients : op[c] # "HALT"

\* What was served was called.
Past == \A s \in served : \E d \in Clients : \E n \in 1 .. calls[d] : s.req = <<d, n>>

\* The call of a session has not been served; it has, and the slot holds the
\* outcome.
NotServed(c) == \A s \in served : s.req # Req(c)
Answered(c) ==
    \E s \in served :
        /\ s.req = Req(c) /\ s.op = op[c]
        /\ result = IF s.ok THEN "OK" ELSE "ERR"
        /\ (s.ok /\ s.op = "STEP" => ret = Req(c))

\* The command is in the slot with its arguments, and how far the worker is.
Open(c) ==
    /\ cmd = op[c] /\ arg = Req(c)
    /\ (op[c] = "SEND" => text = Req(c))
    /\ (wpc \notin {"publish", "idle"} => NotServed(c) /\ result = "OK")
    /\ (wpc = "publish" =>
           wreq = Req(c) /\ [op |-> "STEP", req |-> Req(c), ok |-> vmUp] \in served)
    /\ (wpc = "idle" => Answered(c))

\* The slot is free again; the worker is gone and took no notice of the call.
Closed(c) == cmd = "IDLE" /\ Answered(c)
Lost(c) == wpc = "gone" /\ result = "ERR" /\ NotServed(c)

OneCall == \A c, d \in Clients : pc[c] # "idle" /\ pc[d] # "idle" => c = d

\* A live worker finds in the slot only what a waiting session put there.
SlotOwned == wpc # "gone" /\ cmd # "IDLE" => \E c \in Clients : pc[c] \in Sent
BusyMatches == wpc \in Busy => cmd = wcmd /\ cmd # "IDLE"

\* How far the call of a session is.
Phase(c) ==
    /\ (pc[c] \in {"enter", "post"} => NotServed(c) /\ (op[c] = "SEND" => text = Req(c)))
    /\ (pc[c] \in Sent => Open(c) \/ Closed(c))
    /\ (pc[c] = "return" => Closed(c) \/ Lost(c))

Turns ==
    /\ NoStop /\ Past /\ OneCall /\ SlotOwned /\ BusyMatches
    /\ \A c \in Clients : Phase(c)

Typed == TypeOK /\ CallCounted /\ HandlerMatches

\* A step of a session in a call is a step of the only session in a call.
LEMMA SessionTurns ==
    ASSUME Quiet, Typed, Turns, NEW c \in Clients, pc[c] # "idle",
           pc' \in [Clients -> SessionPlaces], \A d \in Clients \ {c} : pc'[d] = pc[d],
           NoStop', Past', SlotOwned', BusyMatches', Phase(c)'
    PROVE  Turns'
<1>1. \A d \in Clients \ {c} : pc[d] = "idle" /\ pc'[d] = "idle"
    BY DEF Turns, OneCall
<1>2. OneCall'
    BY <1>1 DEF OneCall
<1>3. ASSUME NEW d \in Clients PROVE Phase(d)'
    BY <1>1 DEF Phase, Sent
<1> QED
    BY <1>2, <1>3 DEF Turns

\* A new call starts when no other is under way, and has not been served.
LEMMA CallTurns ==
    ASSUME Quiet, Typed, Turns, NEW c \in Clients, NEW o \in Ops, Call(c, o)
    PROVE  Turns'
<1>1. /\ \A d \in Clients : pc[d] = "idle"
      /\ pc'[c] = "enter" /\ \A d \in Clients \ {c} : pc'[d] = "idle"
    BY DEF Quiet, Call, Goto, Typed, TypeOK, SessionTypes
<1>2. /\ op'[c] = o /\ \A d \in Clients \ {c} : op'[d] = op[d]
      /\ calls'[c] = calls[c] + 1 /\ calls[c] \in Nat
      /\ \A d \in Clients \ {c} : calls'[d] = calls[d]
      /\ \A d \in Clients : calls[d] \in Nat
    BY DEF Call, Typed, TypeOK, SessionTypes
<1>3. NoStop'
    BY <1>2 DEF Call, worker, Turns, NoStop, Quiet
<1>4. Past'
    <2> SUFFICES ASSUME NEW s \in served
                 PROVE  \E d \in Clients : \E n \in 1 .. calls'[d] : s.req = <<d, n>>
        BY DEF Call, Past
    <2>1. PICK d \in Clients : \E n \in 1 .. calls[d] : s.req = <<d, n>>
        BY DEF Turns, Past
    <2>2. PICK n \in 1 .. calls[d] : s.req = <<d, n>>
        BY <2>1
    <2>3. n \in 1 .. calls'[d]
        BY <1>2
    <2> QED
        BY <2>2, <2>3
<1>5. OneCall'
    BY <1>1 DEF OneCall
<1>6. SlotOwned' /\ BusyMatches'
    BY <1>1 DEF Call, worker, Turns, SlotOwned, BusyMatches, Sent
<1>7. Phase(c)'
    <2>1. NotServed(c)'
        <3> SUFFICES ASSUME NEW s \in served PROVE s.req # <<c, calls[c] + 1>>
            BY <1>2 DEF Call, NotServed, Req
        <3>1. PICK d \in Clients : \E n \in 1 .. calls[d] : s.req = <<d, n>>
            BY DEF Turns, Past
        <3>2. PICK n \in 1 .. calls[d] : s.req = <<d, n>>
            BY <3>1
        <3> QED
            BY <1>2, <3>2
    <2>2. op'[c] = "SEND" => text' = Req(c)'
        BY <1>2 DEF Call, Req, Turns, NoStop
    <2> QED
        BY <1>1, <2>1, <2>2 DEF Phase, Sent
<1>8. ASSUME NEW d \in Clients \ {c} PROVE Phase(d)'
    BY <1>1 DEF Phase, Sent
<1> QED
    BY <1>3, <1>4, <1>5, <1>6, <1>7, <1>8 DEF Turns

\* The worker outside its handlers.
LEMMA LoopTurns ==
    ASSUME Quiet, Typed, Turns,
           WTop \/ WReset \/ WFetch \/ WSignal \/ WFlush \/ WWake \/ WTimeout
    PROVE  Turns'
<1>1. UNCHANGED <<shared, wreq, sigterm, vmUp, pc, op, calls, served>>
    BY DEF WTop, WReset, WFetch, WSignal, WFlush, WWake, WTimeout, session
<1>2. /\ wpc \notin Busy /\ wpc # "gone"
      /\ wpc' \notin {"publish", "idle", "gone", "exit", "bye"}
    BY DEF WTop, WReset, WFetch, WSignal, WFlush, WWake, WTimeout, WGoto, Handler, Turns,
           NoStop, Busy
<1>3. BusyMatches' /\ wcmd' # "HALT"
    BY DEF WTop, WReset, WFetch, WSignal, WFlush, WWake, WTimeout, WGoto, Handler, shared,
           Turns, NoStop, BusyMatches, Busy
<1>4. NoStop' /\ Past' /\ OneCall' /\ SlotOwned'
    BY <1>1, <1>2, <1>3 DEF shared, Turns, NoStop, Past, OneCall, SlotOwned
<1>5. ASSUME NEW c \in Clients PROVE Phase(c)'
    <2>1. Phase(c)
        BY DEF Turns
    <2>2. /\ NotServed(c)' = NotServed(c) /\ Closed(c)' = Closed(c) /\ ~Lost(c)
          /\ (Open(c) => Open(c)')
        BY <1>1, <1>2 DEF shared, NotServed, Closed, Answered, Lost, Open, Req, Busy
    <2> QED
        BY <1>1, <2>1, <2>2 DEF shared, Phase, Req
<1> QED
    BY <1>3, <1>4, <1>5 DEF Turns

\* In a handler, the worker serves the command of the session that waits.
LEMMA HandlerServes ==
    ASSUME Typed, Turns, wpc \in Busy
    PROVE  \E c \in Clients :
              pc[c] \in Sent /\ pc[c] # "idle" /\ Open(c) /\ wcmd = op[c] /\ Req(c) \in Requests
<1>1. PICK c \in Clients : pc[c] \in Sent
    BY DEF Turns, SlotOwned, BusyMatches, Busy
<1>2. Open(c) /\ wcmd = op[c]
    BY <1>1 DEF Turns, Phase, Closed, BusyMatches, Open
<1>3. pc[c] # "idle"
    BY <1>1 DEF Sent
<1>4. Req(c) \in Requests
    BY <1>3, ReqIsRequest DEF Typed, CallCounted
<1> QED
    BY <1>1, <1>2, <1>3, <1>4

\* What is served was called.
LEMMA ServePast ==
    ASSUME Typed, Turns, NEW c \in Clients, pc[c] # "idle", UNCHANGED calls,
           NEW o, NEW ok, Serve(o, Req(c), ok)
    PROVE  Past'
<1>1. calls[c] \in Nat /\ calls[c] # 0
    BY DEF Typed, TypeOK, SessionTypes, CallCounted
<1>2. \E d \in Clients : \E n \in 1 .. calls[d] : Req(c) = <<d, n>>
    BY <1>1 DEF Req
<1> QED
    BY <1>2 DEF Serve, Past, Turns

\* A service whose outcome is in the slot answers the call.
LEMMA ServeAnswers ==
    ASSUME NEW c \in Clients, NEW ok \in BOOLEAN, op[c] # "STEP", UNCHANGED <<op, calls>>,
           Serve(op[c], Req(c), ok), result' = IF ok THEN "OK" ELSE "ERR"
    PROVE  Answered(c)'
<1>p. PICK s : s = [op |-> op[c], req |-> Req(c), ok |-> ok]
    OBVIOUS
<1>1. s \in served' /\ s.req = Req(c) /\ s.op = op[c]
    BY <1>p DEF Serve
<1>2. s.ok = ok
    BY <1>p
<1>3. result' = IF s.ok THEN "OK" ELSE "ERR"
    BY <1>2
<1>4. (Req(c))' = Req(c) /\ op'[c] = op[c]
    BY DEF Req
<1> QED
    BY <1>1, <1>3, <1>4 DEF Answered

\* The worker in its handlers.
LEMMA HandlerTurns ==
    ASSUME Quiet, Typed, Turns, WBoot \/ WRun \/ WPublish \/ WExec \/ WIdle
    PROVE  Turns'
<1>0. wpc \in Busy
    BY DEF WBoot, WRun, WPublish, WExec, WIdle, WGoto, Busy
<1>1. PICK c \in Clients :
         pc[c] \in Sent /\ pc[c] # "idle" /\ Open(c) /\ wcmd = op[c] /\ Req(c) \in Requests
    BY <1>0, HandlerServes
<1>2. /\ UNCHANGED <<arg, text, ready, shutdown, wcmd, sigterm, pc, op, calls>>
      /\ pc' \in [Clients -> SessionPlaces] /\ pc \in [Clients -> SessionPlaces]
    BY DEF WBoot, WRun, WPublish, WExec, WIdle, shared, session, Typed, TypeOK, SessionTypes
<1>3. (Req(c) = Req(c)') /\ op[c] # "IDLE"
    BY <1>2 DEF Req, Typed, TypeOK, SessionTypes, CmdNames
<1>a. ASSUME cmd' = cmd, wpc' \in {"publish", "idle"}, Past', Open(c)'
      PROVE  Turns'
    <2>1. NoStop'
        BY <1>2, <1>a DEF Turns, NoStop
    <2>2. SlotOwned' /\ BusyMatches'
        BY <1>0, <1>1, <1>2, <1>a DEF Turns, SlotOwned, BusyMatches
    <2>3. Phase(c)'
        BY <1>1, <1>2, <1>a DEF Phase, Sent
    <2> QED
        BY <1>1, <1>2, <1>a, <2>1, <2>2, <2>3, SessionTurns
<1>4. CASE WBoot
    <2>1. PICK ok \in BOOLEAN : /\ result' = IF ok THEN "OK" ELSE "ERR"
                                /\ Serve("BOOT", arg, ok)
        BY <1>4 DEF WBoot
    <2>2. wpc = "boot" /\ wpc' = "idle" /\ cmd' = cmd /\ ret' = ret
        BY <1>4 DEF WBoot, WGoto
    <2>3. op[c] = "BOOT" /\ arg = Req(c) /\ cmd = op[c]
        BY <1>1, <2>2 DEF Typed, HandlerMatches, Open
    <2>4. Past'
        BY <1>1, <1>2, <2>1, <2>3, ServePast
    <2>5. Answered(c)'
        BY <1>2, <2>1, <2>3, ServeAnswers
    <2>6. Open(c)'
        BY <1>2, <1>3, <2>2, <2>3, <2>5 DEF Open
    <2> QED
        BY <1>a, <2>2, <2>4, <2>6
<1>5. CASE WRun
    <2>1. /\ wpc = "run" /\ wpc' = "publish" /\ UNCHANGED <<shared, vmUp>> /\ wreq' = arg
          /\ Serve("STEP", arg, vmUp)
        BY <1>5 DEF WRun, WGoto
    <2>2. op[c] = "STEP" /\ arg = Req(c) /\ cmd = op[c]
        BY <1>1, <2>1 DEF Typed, HandlerMatches, Open
    <2>3. Past'
        BY <1>1, <1>2, <2>1, <2>2, ServePast
    <2>4. Open(c)'
        BY <1>2, <1>3, <2>1, <2>2 DEF shared, Serve, Open
    <2>5. cmd' = cmd
        BY <2>1 DEF shared
    <2> QED
        BY <1>a, <2>1, <2>3, <2>4, <2>5
<1>6. CASE WPublish
    <2>1. /\ wpc = "publish" /\ wpc' = "idle" /\ cmd' = cmd /\ served' = served
          /\ ret' = (IF vmUp THEN wreq ELSE ret) /\ result' = IF vmUp THEN "OK" ELSE "ERR"
        BY <1>6 DEF WPublish, WGoto
    <2>2. /\ op[c] = "STEP" /\ arg = Req(c) /\ cmd = op[c] /\ wreq = Req(c)
          /\ [op |-> "STEP", req |-> Req(c), ok |-> vmUp] \in served
        BY <1>1, <2>1 DEF Typed, HandlerMatches, Open
    <2>3. Past'
        BY <1>2, <2>1 DEF Turns, Past
    <2>4. Answered(c)'
        BY <1>2, <1>3, <2>1, <2>2 DEF Answered
    <2>5. Open(c)'
        BY <1>2, <1>3, <2>1, <2>2, <2>4 DEF Open
    <2> QED
        BY <1>a, <2>1, <2>3, <2>5
<1>7. CASE WExec
    <2> DEFINE reports == wcmd \in {"WATCHPOINT", "BREAKPOINT"}
               ok == reports => vmUp
    <2>1. /\ wpc = "exec" /\ wpc' = "idle" /\ cmd' = cmd /\ ret' = ret
          /\ result' = IF reports THEN (IF vmUp THEN "OK" ELSE "ERR") ELSE result
          /\ Serve(wcmd, IF wcmd = "SEND" THEN text ELSE arg, ok)
        BY <1>7 DEF WExec, WGoto
    <2>2. /\ arg = Req(c) /\ cmd = op[c] /\ (op[c] = "SEND" => text = Req(c)) /\ result = "OK"
          /\ wcmd # "STEP" /\ wcmd = op[c]
        BY <1>1, <2>1 DEF Typed, HandlerMatches, Open
    <2>3. Serve(op[c], Req(c), ok)
        BY <2>1, <2>2
    <2>4. Past'
        BY <1>1, <1>2, <2>3, ServePast
    <2>5. result' = IF ok THEN "OK" ELSE "ERR"
        BY <2>1, <2>2
    <2>6. Answered(c)'
        <3>1. ok \in BOOLEAN
            BY DEF Typed, TypeOK, WorkerTypes
        <3> HIDE DEF ok
        <3> QED
            BY <1>2, <2>2, <2>3, <2>5, <3>1, ServeAnswers
    <2>7. Open(c)'
        BY <1>2, <1>3, <2>1, <2>2, <2>6 DEF Open
    <2> QED
        BY <1>a, <2>1, <2>4, <2>7
<1>8. CASE WIdle
    <2>1. /\ wpc = "idle" /\ wpc' = "signal" /\ cmd' = "IDLE"
          /\ UNCHANGED <<result, ret, served>>
        BY <1>8 DEF WIdle, WGoto
    <2>2. Closed(c)'
        BY <1>1, <1>2, <1>3, <2>1 DEF Open, Closed, Answered
    <2>3. NoStop' /\ Past' /\ SlotOwned' /\ BusyMatches'
        BY <1>2, <2>1 DEF Turns, NoStop, Past, SlotOwned, BusyMatches, Busy
    <2>4. Phase(c)'
        BY <1>1, <1>2, <2>2 DEF Phase, Sent
    <2> QED
        BY <1>1, <1>2, <2>3, <2>4, SessionTurns
<1> QED
    BY <1>4, <1>5, <1>6, <1>7, <1>8

\* Every step keeps the turns.
LEMMA NextTurns ==
    ASSUME Quiet, Typed, Turns, [Next]_vars
    PROVE  Turns'
<1>0. TypeOK
    BY DEF Typed
<1>1. ASSUME NEW c \in Clients, Enter(c) PROVE Turns'
    <2>1. /\ pc[c] # "idle" /\ pc' \in [Clients -> SessionPlaces] /\ pc'[c] = "post"
          /\ \A d \in Clients \ {c} : pc'[d] = pc[d]
        BY <1>0, <1>1 DEF Enter, Goto, TypeOK, SessionTypes, SessionPlaces
    <2>2. NoStop' /\ Past' /\ BusyMatches'
        BY <1>1 DEF Enter, shared, worker, Turns, NoStop, Past, BusyMatches
    <2>3. SlotOwned'
        BY <1>1, <2>1 DEF Enter, Goto, shared, worker, Turns, SlotOwned, Sent
    <2>4. Phase(c)'
        BY <1>1, <2>1 DEF Enter, Goto, shared, Turns, Phase, NotServed, Req, Sent
    <2> QED
        BY <2>1, <2>2, <2>3, <2>4, SessionTurns
<1>2. ASSUME NEW c \in Clients, Refuse(c) PROVE Turns'
    BY <1>2 DEF Refuse, Turns, NoStop
<1>3. ASSUME NEW c \in Clients, Post(c) PROVE Turns'
    <2>1. /\ pc[c] = "post" /\ pc' \in [Clients -> SessionPlaces] /\ pc'[c] = "signal"
          /\ \A d \in Clients \ {c} : pc'[d] = pc[d]
        BY <1>0, <1>3 DEF Post, Goto, TypeOK, SessionTypes, SessionPlaces
    <2>2. NoStop' /\ Past'
        BY <1>3 DEF Post, worker, Turns, NoStop, Past
    <2>3. wpc \notin Busy
        BY <2>1 DEF Turns, BusyMatches, SlotOwned, OneCall, Sent, Busy
    <2>4. BusyMatches' /\ SlotOwned'
        BY <1>3, <2>1, <2>3 DEF Post, worker, BusyMatches, SlotOwned, Sent
    <2>5. Open(c)'
        BY <1>3, <2>1, <2>3 DEF Post, worker, Turns, Phase, Open, NotServed, Req, Busy
    <2> QED
        BY <2>1, <2>2, <2>4, <2>5, SessionTurns DEF Phase, Sent
<1>4. ASSUME NEW c \in Clients, Signal(c) \/ ResetOwn(c) \/ Wake(c) PROVE Turns'
    <2>1. /\ pc[c] \in Sent /\ pc' \in [Clients -> SessionPlaces] /\ pc'[c] \in Sent
          /\ \A d \in Clients \ {c} : pc'[d] = pc[d]
        BY <1>0, <1>4 DEF Signal, ResetOwn, Wake, Goto, TypeOK, SessionTypes, SessionPlaces, Sent
    <2>2. UNCHANGED <<shared, wpc, wcmd, wreq, sigterm, vmUp, op, calls, served>>
        BY <1>4 DEF Signal, ResetOwn, Wake, worker
    <2>3. NoStop' /\ Past' /\ BusyMatches' /\ SlotOwned'
        BY <2>1, <2>2 DEF shared, Turns, NoStop, Past, BusyMatches, SlotOwned
    <2>4. Phase(c)'
        <3>1. Open(c) \/ Closed(c)
            BY <2>1 DEF Turns, Phase
        <3>2. Open(c)' \/ Closed(c)'
            BY <2>2, <3>1 DEF shared, Open, Closed, Answered, NotServed, Req
        <3> QED
            BY <2>1, <3>2 DEF Phase, Sent
    <2>5. pc[c] # "idle"
        BY <2>1 DEF Sent
    <2> QED
        BY <2>1, <2>3, <2>4, <2>5, SessionTurns
<1>5. ASSUME NEW c \in Clients, Check(c) PROVE Turns'
    <2>1. /\ pc[c] = "check" /\ pc' \in [Clients -> SessionPlaces] /\ pc'[c] \in {"return", "wait"}
          /\ \A d \in Clients \ {c} : pc'[d] = pc[d]
        BY <1>0, <1>5 DEF Check, Goto, TypeOK, SessionTypes, SessionPlaces
    <2>2. UNCHANGED <<cmd, arg, text, ret, ready, shutdown, worker, op, calls, served>>
        BY <1>5 DEF Check
    <2>3. NoStop' /\ Past' /\ BusyMatches'
        BY <2>2 DEF worker, Turns, NoStop, Past, BusyMatches
    <2>4. Open(c) \/ Closed(c)
        BY <2>1 DEF Turns, Phase, Sent
    <2>5. op[c] # "IDLE"
        BY <1>0 DEF TypeOK, SessionTypes, CmdNames
    <2>6. CASE Closed(c)
        <3>1. pc'[c] = "return" /\ result' = result
            BY <1>0, <1>5, <2>1, <2>6 DEF Check, Goto, Closed, TypeOK, SessionTypes
        <3>2. Closed(c)'
            BY <2>2, <2>6, <3>1 DEF Closed, Answered, Req
        <3>3. SlotOwned'
            BY <3>2 DEF SlotOwned, Closed
        <3>4. Phase(c)'
            BY <3>1, <3>2 DEF Phase, Sent
        <3> QED
            BY <2>1, <2>3, <3>3, <3>4, SessionTurns
    <2>7. CASE Open(c) /\ WorkerAlive
        <3>1. pc'[c] = "wait" /\ result' = result
            BY <1>0, <1>5, <2>1, <2>5, <2>7 DEF Check, Goto, Open, Turns, NoStop, TypeOK, SessionTypes
        <3>2. Open(c)'
            BY <2>2, <2>7, <3>1 DEF worker, Open, Answered, NotServed, Req
        <3>3. SlotOwned'
            BY <3>1 DEF SlotOwned, Sent
        <3>4. Phase(c)'
            BY <3>1, <3>2 DEF Phase, Sent
        <3> QED
            BY <2>1, <2>3, <3>3, <3>4, SessionTurns
    <2>8. CASE Open(c) /\ ~WorkerAlive
        <3>1. pc'[c] = "return" /\ result' = "ERR" /\ wpc' = "gone"
            BY <1>0, <1>5, <2>1, <2>2, <2>5, <2>8
            DEF Check, Goto, Open, Turns, NoStop, TypeOK, SessionTypes, WorkerAlive, worker
        <3>2. Lost(c)'
            BY <2>2, <2>8, <3>1 DEF WorkerAlive, Open, Lost, NotServed, Req
        <3>3. SlotOwned'
            BY <3>1 DEF SlotOwned
        <3>4. Phase(c)'
            BY <3>1, <3>2 DEF Phase, Sent
        <3> QED
            BY <2>1, <2>3, <3>3, <3>4, SessionTurns
    <2> QED
        BY <2>4, <2>6, <2>7, <2>8
<1>6. ASSUME NEW c \in Clients, Return(c) PROVE Turns'
    <2>1. /\ pc[c] = "return" /\ pc' \in [Clients -> SessionPlaces] /\ pc'[c] = "idle"
          /\ \A d \in Clients \ {c} : pc'[d] = pc[d]
        BY <1>0, <1>6 DEF Return, Goto, TypeOK, SessionTypes, SessionPlaces
    <2>2. NoStop' /\ Past' /\ BusyMatches'
        BY <1>6 DEF Return, shared, worker, Turns, NoStop, Past, BusyMatches
    <2>3. SlotOwned'
        BY <1>6, <2>1 DEF Return, shared, worker, Turns, Phase, Closed, Lost, SlotOwned
    <2>4. Phase(c)'
        BY <2>1 DEF Phase, Sent
    <2> QED
        BY <2>1, <2>2, <2>3, <2>4, SessionTurns
<1>7. ASSUME NEW c \in Clients, Cancel(c) PROVE Turns'
    BY <1>7 DEF Cancel, Quiet
<1>8. ASSUME NEW c \in Clients, NEW o \in Ops, Call(c, o) PROVE Turns'
    BY <1>8, CallTurns
<1>9. CASE WTop \/ WReset \/ WFetch \/ WSignal \/ WFlush \/ WWake \/ WTimeout
    BY <1>9, LoopTurns
<1>10. CASE WBoot \/ WRun \/ WPublish \/ WExec \/ WIdle
    BY <1>10, HandlerTurns
<1>11. CASE WExit \/ WBye
    BY <1>11 DEF WExit, WBye, WGoto, Turns, NoStop
<1>12. CASE Sigterm
    BY <1>12 DEF Sigterm, Quiet
<1>13. CASE WError
    <2>1. UNCHANGED <<shared, wcmd, wreq, sigterm, vmUp, session, served>>
        BY <1>13 DEF WError
    <2>2. wpc' = "gone" /\ wpc \notin {"publish", "idle", "gone"}
        BY <1>13 DEF WError
    <2>3. NoStop' /\ Past' /\ OneCall' /\ SlotOwned' /\ BusyMatches'
        BY <2>1, <2>2 DEF shared, session, Turns, NoStop, Past, OneCall, SlotOwned,
                          BusyMatches, Busy
    <2>4. ASSUME NEW c \in Clients PROVE Phase(c)'
        <3>1. Phase(c)
            BY DEF Turns
        <3>2. /\ NotServed(c)' = NotServed(c) /\ Closed(c)' = Closed(c) /\ ~Lost(c)
              /\ (Open(c) => Open(c)')
            BY <2>1, <2>2 DEF shared, session, NotServed, Closed, Answered, Lost, Open, Req
        <3> QED
            BY <2>1, <3>1, <3>2 DEF session, shared, Phase, Req
    <2> QED
        BY <2>3, <2>4 DEF Turns
<1>14. CASE UNCHANGED vars
    <2>1. NoStop' /\ Past' /\ OneCall' /\ SlotOwned' /\ BusyMatches'
        BY <1>14 DEF vars, shared, worker, session, Turns, NoStop, Past, OneCall, SlotOwned,
                     BusyMatches
    <2>2. ASSUME NEW c \in Clients PROVE Phase(c)'
        BY <1>14 DEF vars, shared, worker, session, Turns, Phase, NotServed, Closed, Answered,
                     Lost, Open, Req
    <2> QED
        BY <2>1, <2>2 DEF Turns
<1> QED
    BY <1>1, <1>2, <1>3, <1>4, <1>5, <1>6, <1>7, <1>8, <1>9, <1>10, <1>11, <1>12, <1>13,
       <1>14
    DEF Next, WorkerStep, SessionStep, Done

\* The first state: nobody has called.
LEMMA InitTurns == Quiet /\ Init => Turns
<1> SUFFICES ASSUME Quiet, Init PROVE Turns
    OBVIOUS
<1>1. NoStop /\ Past /\ OneCall /\ SlotOwned /\ BusyMatches
    BY DEF Init, NoStop, Past, OneCall, SlotOwned, BusyMatches, Busy
<1>2. ASSUME NEW c \in Clients PROVE Phase(c)
    BY DEF Init, Phase, Sent
<1> QED
    BY <1>1, <1>2 DEF Turns

-----------------------------------------------------------------------------
(* The refinement.  A session that enters a call invokes the service, a    *)
(* handler serves, and the return of the call is its answer; every other   *)
(* step is invisible.                                                      *)

\* What the service sees of a session's call and of its last answer.
CallOf(c) == IF pc[c] = "idle" THEN NoReq ELSE [op |-> op[c], req |-> Req(c)]
AnswerOf(c) ==
    [outcome[c] EXCEPT !.ret = IF outcome[c].status = "ok" /\ outcome[c].op = "STEP"
                               THEN @ ELSE NoReq]
Calling == [c \in Clients |-> CallOf(c)]
Answers == [c \in Clients |-> AnswerOf(c)]

\* A call is not the absence of one.
LEMMA CallIsCall ==
    ASSUME Typed, NEW c \in Clients, pc[c] # "idle"
    PROVE  Calling[c] = [op |-> op[c], req |-> Req(c)] /\ Calling[c] # NoReq
<1>1. Req(c) \in Requests /\ op[c] \in CmdNames
    BY ReqIsRequest DEF Typed, CallCounted, TypeOK, SessionTypes
<1>2. [op |-> op[c], req |-> Req(c)] \in [op : CmdNames, req : Requests]
    BY <1>1
<1> QED
    BY <1>2, ConstantsAssumption DEF Calling, CallOf

\* A step that leaves the calls, the services and the answers alone is
\* invisible to the service.
LEMMA Invisible ==
    ASSUME Calling' = Calling, served' = served, Answers' = Answers
    PROVE  UNCHANGED Channel!vars
  BY DEF Channel!vars, Calling, CallOf, Answers, AnswerOf, Req

\* A service that is done is a service promised.
LEMMA ServesChannel ==
    ASSUME Typed, NEW c \in Clients, pc[c] # "idle", NotServed(c), NEW ok \in BOOLEAN,
           Serve(op[c], Req(c), ok), Calling' = Calling, Answers' = Answers
    PROVE  Channel!Next
<1>1. Calling[c] = [op |-> op[c], req |-> Req(c)] /\ Calling[c] # NoReq
    BY CallIsCall
<1>2. Channel!Serve(c)
    BY <1>1 DEF Channel!Serve, Calling, CallOf, Answers, AnswerOf, NotServed, Serve, Req
<1> QED
    BY <1>2 DEF Channel!Next

\* Calls and answers that a step leaves alone.
LEMMA CallingSame ==
    ASSUME \A d \in Clients : pc'[d] = "idle" <=> pc[d] = "idle", UNCHANGED <<op, calls>>
    PROVE  Calling' = Calling
<1>1. ASSUME NEW d \in Clients PROVE CallOf(d)' = CallOf(d)
    BY DEF CallOf, Req
<1> QED
    BY <1>1 DEF Calling

LEMMA AnswersSame ==
    ASSUME UNCHANGED outcome
    PROVE  Answers' = Answers
  BY DEF Answers, AnswerOf

\* What the return of a call makes of the calls and the answers.
LEMMA ReturnAnswers ==
    ASSUME Typed, NEW c \in Clients, Return(c),
           NEW status, status = IF result = "ERR" THEN "error" ELSE "ok",
           NEW count, count = IF status = "ok" /\ op[c] = "STEP" THEN ret ELSE NoReq
    PROVE  Channel!Answer(c, status, count)
<1>1. pc[c] = "return" /\ pc'[c] = "idle" /\ \A d \in Clients \ {c} : pc'[d] = pc[d]
    BY DEF Return, Goto, Typed, TypeOK, SessionTypes
<1>2. UNCHANGED <<op, calls, served>>
    BY DEF Return
<1>3. Calling' = [Calling EXCEPT ![c] = NoReq]
    <2>1. CallOf(c)' = NoReq
        BY <1>1 DEF CallOf
    <2>2. ASSUME NEW d \in Clients \ {c} PROVE CallOf(d)' = CallOf(d)
        BY <1>1, <1>2 DEF CallOf, Req
    <2> QED
        BY <2>1, <2>2 DEF Calling
<1>4. Calling[c] = [op |-> op[c], req |-> Req(c)]
    BY <1>1, CallIsCall
<1>p. PICK o, a : /\ o = [status |-> status, op |-> op[c], req |-> Req(c), ret |-> ret]
                  /\ a = [status |-> status, op |-> op[c], req |-> Req(c), ret |-> count]
    OBVIOUS
<1>5. outcome'[c] = o /\ \A d \in Clients \ {c} : outcome'[d] = outcome[d]
    BY <1>p DEF Return, Finish, Typed, TypeOK, SessionTypes
<1>6. Answers' = [Answers EXCEPT ![c] = a]
    <2>1. AnswerOf(c)' = a
        BY <1>5, <1>p DEF AnswerOf
    <2>2. ASSUME NEW d \in Clients \ {c} PROVE AnswerOf(d)' = AnswerOf(d)
        BY <1>5 DEF AnswerOf
    <2> QED
        BY <2>1, <2>2 DEF Answers
<1>7. a = [status |-> status, op |-> Calling[c].op, req |-> Calling[c].req, ret |-> count]
    BY <1>4, <1>p
<1>8. Answers' = [Answers EXCEPT ![c] = [status |-> status, op |-> Calling[c].op,
                                         req |-> Calling[c].req, ret |-> count]]
    BY <1>6, <1>7, Zenon
<1> QED
    BY <1>2, <1>3, <1>8, Zenon
    DEF Channel!Answer, Calling, CallOf, Answers, AnswerOf, Req

\* Every step is a step of the service or invisible to it.
LEMMA NextService ==
    ASSUME Quiet, Typed, Turns, [Next]_vars
    PROVE  [Channel!Next]_(Channel!vars)
<1>0. TypeOK
    BY DEF Typed
<1>1. ASSUME NEW c \in Clients,
             Enter(c) \/ Post(c) \/ Signal(c) \/ ResetOwn(c) \/ Check(c) \/ Wake(c)
      PROVE  UNCHANGED Channel!vars
    <2>1. /\ \A d \in Clients : pc'[d] = "idle" <=> pc[d] = "idle"
          /\ UNCHANGED <<op, calls>>
        BY <1>0, <1>1 DEF Enter, Post, Signal, ResetOwn, Check, Wake, Goto, TypeOK, SessionTypes
    <2>2. UNCHANGED <<outcome, served>>
        BY <1>1 DEF Enter, Post, Signal, ResetOwn, Check, Wake
    <2> QED
        BY <2>1, <2>2, CallingSame, AnswersSame, Invisible
<1>2. ASSUME NEW c \in Clients, Refuse(c) \/ Cancel(c) PROVE FALSE
    BY <1>2 DEF Refuse, Cancel, Quiet, Turns, NoStop
<1>3. ASSUME NEW c \in Clients, Return(c) PROVE Channel!Next
    <2>p. PICK status, count :
            /\ status = IF result = "ERR" THEN "error" ELSE "ok"
            /\ count = IF status = "ok" /\ op[c] = "STEP" THEN ret ELSE NoReq
        OBVIOUS
    <2>1. Channel!Answer(c, status, count)
        BY <1>3, <2>p, ReturnAnswers
    <2>2. pc[c] = "return" /\ pc[c] # "idle"
        BY <1>3 DEF Return, Goto
    <2>3. Calling[c] = [op |-> op[c], req |-> Req(c)] /\ Calling[c] # NoReq
        BY <2>2, CallIsCall
    <2>4. CASE Answered(c)
        <3>1. PICK s \in served :
                /\ s.req = Req(c) /\ s.op = op[c]
                /\ result = IF s.ok THEN "OK" ELSE "ERR"
                /\ (s.ok /\ s.op = "STEP" => ret = Req(c))
            BY <2>4 DEF Answered
        <3>2. /\ status = IF s.ok THEN "ok" ELSE "error"
              /\ count = IF s.ok /\ s.op = "STEP" THEN s.req ELSE NoReq
            BY <2>p, <3>1
        <3>3. Channel!Reply(c)
            BY <2>1, <2>3, <3>1, <3>2 DEF Channel!Reply, Calling, CallOf
        <3> QED
            BY <3>3 DEF Channel!Next
    <2>5. CASE Lost(c)
        <3>1. status = "error" /\ count = NoReq /\ NotServed(c)
            BY <2>p, <2>5 DEF Lost
        <3>2. Channel!Refuse(c)
            BY <2>1, <2>3, <3>1 DEF Channel!Refuse, NotServed, Calling, CallOf
        <3> QED
            BY <3>2 DEF Channel!Next
    <2> QED
        BY <2>2, <2>4, <2>5 DEF Turns, Phase, Closed
<1>4. ASSUME NEW c \in Clients, NEW o \in Ops, Call(c, o) PROVE Channel!Next
    <2>1. /\ pc[c] = "idle" /\ pc'[c] = "enter" /\ \A d \in Clients \ {c} : pc'[d] = pc[d]
          /\ op'[c] = o /\ \A d \in Clients \ {c} : op'[d] = op[d]
          /\ calls'[c] = calls[c] + 1 /\ \A d \in Clients \ {c} : calls'[d] = calls[d]
          /\ UNCHANGED <<outcome, served>> /\ calls[c] \in Nat /\ calls[c] < MaxCalls
        BY <1>0, <1>4 DEF Call, Goto, TypeOK, SessionTypes
    <2>p. PICK r : r = <<c, calls[c] + 1>>
        OBVIOUS
    <2>2. r \in Requests /\ o \in CmdNames
        BY <2>1, <2>p, ConstantsAssumption DEF Requests
    <2>3. \A s \in served : s.req # r
        <3> SUFFICES ASSUME NEW s \in served PROVE s.req # r
            OBVIOUS
        <3>1. PICK d \in Clients : \E n \in 1 .. calls[d] : s.req = <<d, n>>
            BY DEF Turns, Past
        <3>2. PICK n \in 1 .. calls[d] : s.req = <<d, n>>
            BY <3>1
        <3> QED
            BY <2>1, <2>p, <3>2
    <2>4. Calling[c] = NoReq /\ Calling' = [Calling EXCEPT ![c] = [op |-> o, req |-> r]]
        <3>1. CallOf(c)' = [op |-> o, req |-> r] /\ CallOf(c) = NoReq
            BY <2>1, <2>p DEF CallOf, Req
        <3>2. ASSUME NEW d \in Clients \ {c} PROVE CallOf(d)' = CallOf(d)
            BY <2>1 DEF CallOf, Req
        <3> QED
            BY <3>1, <3>2 DEF Calling
    <2>5. Channel!Invoke(c)
        BY <2>1, <2>2, <2>3, <2>4 DEF Channel!Invoke, Calling, CallOf
    <2> QED
        BY <2>5 DEF Channel!Next
<1>5. ASSUME WBoot \/ WRun \/ WExec PROVE Channel!Next
    <2>0. wpc \in Busy /\ wpc \notin {"publish", "idle"}
        BY <1>5 DEF WBoot, WRun, WExec, WGoto, Busy
    <2>1. PICK c \in Clients :
             pc[c] \in Sent /\ pc[c] # "idle" /\ Open(c) /\ wcmd = op[c] /\ Req(c) \in Requests
        BY <2>0, HandlerServes
    <2>2. NotServed(c) /\ arg = Req(c) /\ (op[c] = "SEND" => text = Req(c))
        BY <2>0, <2>1 DEF Open
    <2>3. Calling' = Calling /\ Answers' = Answers
        <3>1. UNCHANGED session
            BY <1>5 DEF WBoot, WRun, WExec
        <3> QED
            BY <3>1, CallingSame, AnswersSame DEF session
    <2>4. PICK ok \in BOOLEAN : Serve(op[c], Req(c), ok)
        <3>1. CASE WBoot
            BY <2>1, <2>2, <3>1 DEF WBoot, WGoto, Typed, HandlerMatches
        <3>2. CASE WRun
            BY <1>0, <2>1, <2>2, <3>2 DEF WRun, WGoto, Typed, HandlerMatches, TypeOK, WorkerTypes
        <3>3. CASE WExec
            <4>1. PICK ok \in BOOLEAN : Serve(wcmd, IF wcmd = "SEND" THEN text ELSE arg, ok)
                BY <1>0, <3>3 DEF WExec, TypeOK, WorkerTypes
            <4> QED
                BY <2>1, <2>2, <4>1
        <3> QED
            BY <1>5, <3>1, <3>2, <3>3
    <2> QED
        BY <2>1, <2>2, <2>3, <2>4, ServesChannel
<1>6. ASSUME WTop \/ WReset \/ WFetch \/ WPublish \/ WIdle \/ WSignal \/ WFlush \/ WWake
               \/ WTimeout \/ WExit \/ WBye \/ WError \/ Sigterm \/ UNCHANGED vars
      PROVE  UNCHANGED Channel!vars
    <2>1. UNCHANGED <<pc, op, calls, outcome, served>>
        BY <1>6 DEF WTop, WReset, WFetch, WPublish, WIdle, WSignal, WFlush, WWake, WTimeout,
                    WExit, WBye, WError, Sigterm, vars, session
    <2> QED
        BY <2>1, CallingSame, AnswersSame, Invisible
<1> QED
    BY <1>1, <1>2, <1>3, <1>4, <1>5, <1>6 DEF Next, WorkerStep, SessionStep, Done

\* The first states.
LEMMA InitService == Init => Channel!Init
<1> SUFFICES ASSUME Init PROVE Channel!Init
    OBVIOUS
<1>1. Calling = [c \in Clients |-> NoReq]
    BY DEF Init, Calling, CallOf
<1>2. Answers = [c \in Clients |->
                    [status |-> "none", op |-> "STEP", req |-> NoReq, ret |-> NoReq]]
    BY DEF Init, NoOutcome, Answers, AnswerOf
<1> QED
    BY <1>1, <1>2 DEF Init, Channel!Init, Calling, CallOf, Answers, AnswerOf

\* Taking turns, sessions see a service, for any number of sessions and calls:
\* ipc_send_and_wait answers a call after the worker has served it exactly
\* once with its own argument, and answers with the outcome of that service;
\* or, when a database error has ended the worker, with an error and without
\* having served it.
THEOREM TurnsAreAService == Quiet => (Spec => ImplementsService)
<1> SUFFICES ASSUME Quiet PROVE Spec => ImplementsService
    OBVIOUS
<1>1. Init => Typed /\ Turns
    BY InitTyped, InitTurns DEF Init, Typed, HandlerMatches
<1>2. Typed /\ Turns /\ [Next]_vars => Typed' /\ Turns'
    BY NextTyped, NextHandlerMatches, NextTurns DEF Typed
<1>3. Typed /\ Turns /\ [Next]_vars => [Channel!Next]_(Channel!vars)
    BY NextService
<1> QED
    BY <1>1, <1>2, <1>3, InitService, PTL DEF Spec, ImplementsService, Channel!Spec

=============================================================================
