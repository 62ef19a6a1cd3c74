--------------------------- MODULE CommandService ---------------------------
(***************************************************************************)
(* What the command channel promises a SQL session: a call is served once, *)
(* with its own argument, before it is answered, and the answer is the     *)
(* outcome of that service.  A call may also be refused without having     *)
(* been served.  VmIpc implements this when sessions take turns and the    *)
(* worker stays alive.                                                     *)
(***************************************************************************)
CONSTANTS Clients, CmdNames, Requests, NoCall, NoReq

VARIABLES
    calling,  \* the call each session waits for: [op, req], or NoCall
    served,   \* the services done: [op, req, ok]
    answer    \* the last answer each session got: [status, op, req, ret]

vars == <<calling, served, answer>>

Init ==
    /\ calling = [c \in Clients |-> NoCall]
    /\ served = {}
    /\ answer = [c \in Clients |->
                    [status |-> "none", op |-> "STEP", req |-> NoReq, ret |-> NoReq]]

\* A session makes a call; no two calls have the same argument.
Invoke(c) ==
    /\ calling[c] = NoCall
    /\ \E o \in CmdNames, r \in Requests :
          /\ \A s \in served : s.req # r
          /\ calling' = [calling EXCEPT ![c] = [op |-> o, req |-> r]]
    /\ UNCHANGED <<served, answer>>

\* A call that waits is served, once, and succeeds or fails.
Serve(c) ==
    /\ calling[c] # NoCall
    /\ \A s \in served : s.req # calling[c].req
    /\ \E ok \in BOOLEAN :
          served' = served \cup
              {[op |-> calling[c].op, req |-> calling[c].req, ok |-> ok]}
    /\ UNCHANGED <<calling, answer>>

Answer(c, status, count) ==
    /\ calling' = [calling EXCEPT ![c] = NoCall]
    /\ answer' = [answer EXCEPT ![c] = [status |-> status, op |-> calling[c].op,
                                        req |-> calling[c].req, ret |-> count]]
    /\ UNCHANGED served

\* The answer is the outcome of the service; a step that succeeded returns
\* the count of its own run.
Reply(c) ==
    /\ calling[c] # NoCall
    /\ \E s \in served :
          /\ s.req = calling[c].req
          /\ Answer(c, IF s.ok THEN "ok" ELSE "error",
                    IF s.ok /\ s.op = "STEP" THEN s.req ELSE NoReq)

\* The machine is not running.
Refuse(c) ==
    /\ calling[c] # NoCall
    /\ \A s \in served : s.req # calling[c].req
    /\ Answer(c, "error", NoReq)

Next == \E c \in Clients : Invoke(c) \/ Serve(c) \/ Reply(c) \/ Refuse(c)

Spec == Init /\ [][Next]_vars
=============================================================================
