------------------------------- MODULE MCMmu -------------------------------
(* Page tables for TLC: table 0 leads to table 2, which leads to table 4;   *)
(* Radix is 2, so a virtual page is a number below 8.                       *)
EXTENDS Mmu

Leaf(perm, ppn) == [v |-> TRUE, perm |-> perm, ppn |-> ppn, a |-> FALSE, d |-> FALSE]
Ptr(ppn) == Leaf({}, ppn)
Invalid == [v |-> FALSE, perm |-> {}, ppn |-> 0, a |-> FALSE, d |-> FALSE]

\* A user page, a supervisor page, a superpage of each size; the small one may
\* only be executed, the large one reaches devices.
MCInitPte ==
    [s \in Slots |->
        CASE s = <<0, 0>> -> Ptr(2)
          [] s = <<0, 1>> -> Leaf({"R", "W"}, 8)
          [] s = <<2, 0>> -> Ptr(4)
          [] s = <<2, 1>> -> Leaf({"X"}, 6)
          [] s = <<4, 0>> -> Leaf({"R", "W", "U"}, 3)
          [] s = <<4, 1>> -> Leaf({"R", "X"}, 5)]

\* What the guest writes: an invalid entry, a device page (misaligned when it
\* is written above the last level), a reserved entry, a pointer.
MCPtes == {Invalid, Leaf({"R", "W"}, 9), Leaf({"W"}, 8), Ptr(4)}

=============================================================================
