---------------------------- MODULE BlockService ----------------------------
(***************************************************************************)
(* What a block device promises its driver: requests are served in the     *)
(* order in which they were submitted, each exactly once; a request        *)
(* answered "OK" has been done in full, one answered with an error has     *)
(* changed nothing outside its range; answers come back in the same order. *)
(***************************************************************************)
EXTENDS Naturals, Sequences

CONSTANTS Requests, Values, NSectors

VARIABLES
    store,    \* the contents of the sectors
    queue,    \* requests submitted and not yet served
    done,     \* served requests with their answers, not yet delivered
    answers   \* what has been delivered

vars == <<store, queue, done, answers>>

Sectors == 0 .. (NSectors - 1)

\* The number of sectors a request is about, and which ones they are.
Length(r) == LET sum[i \in 0 .. Len(r.segs)] ==
                     IF i = 0 THEN 0 ELSE sum[i - 1] + r.segs[i].len
             IN  sum[Len(r.segs)]
RangeOf(r) == {s \in Sectors : s \in r.sector .. (r.sector + Length(r) - 1)}

Init ==
    /\ store \in [Sectors -> Values]
    /\ queue = <<>> /\ done = <<>> /\ answers = {}

Submit(r) == queue' = Append(queue, r) /\ UNCHANGED <<store, done, answers>>

\* The answer of a served request and what it does to the store.
Serves(r, status, data) ==
    /\ status = "OK" /\ r.type = "OUT" =>
          store' = [s \in Sectors |-> IF s \in RangeOf(r) THEN r.id ELSE store[s]]
    /\ status = "OK" /\ r.type = "IN" =>
          data = [i \in 1 .. Length(r) |-> store[r.sector + i - 1]]
    /\ status # "OK" /\ r.type = "OUT" =>
          \A s \in Sectors \ RangeOf(r) : store'[s] = store[s]
    /\ r.type # "OUT" => store' = store

Serve ==
    /\ queue # <<>>
    /\ done' # <<>>
    /\ LET a == done'[Len(done')]
       IN  /\ done' = Append(done, a)
           /\ a.req = Head(queue)
           /\ Serves(a.req, a.status, a.data)
    /\ queue' = Tail(queue)
    /\ UNCHANGED answers

Deliver ==
    /\ done # <<>>
    /\ answers' = answers \cup {Head(done)}
    /\ done' = Tail(done)
    /\ UNCHANGED <<store, queue>>

\* The driver gives up what is under way.
Reset == queue' = <<>> /\ done' = <<>> /\ UNCHANGED <<store, answers>>

Next == (\E r \in Requests : Submit(r)) \/ Serve \/ Deliver \/ Reset

Spec == Init /\ [][Next]_vars
=============================================================================
