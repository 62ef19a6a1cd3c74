---------------------------- MODULE MCVmLifecycle ----------------------------
(* An instance of VmLifecycle for TLC.                                     *)
EXTENDS VmLifecycle, TLC

SessionSymmetry == Permutations(Sessions)

\* What tells states apart.  Of a machine or snapshot that is already torn no
\* property says from which instants it is, and its registers reach others only
\* by a save or a resume that passes on the mark.
MachineSeen(g) ==
    IF g \in spoiled THEN [wrk[g] EXCEPT !.cpu = RegsAt(0), !.copy = RegsAt(0)] ELSE wrk[g]
RowSeen == IF torn THEN [row EXCEPT !.ram = 0, !.cpu = RegsAt(0)] ELSE row
Seen == <<ses, [g \in Segs |-> MachineSeen(g)], ram, RowSeen, now, rams, overlap, torn,
          spoiled, excused>>
=============================================================================
