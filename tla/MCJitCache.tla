------------------------------ MODULE MCJitCache ------------------------------
(* An instance of JitCache for TLC.                                        *)
EXTENDS JitCache, TLC

\* Two pages of two instructions: straight code with accesses that cross the
\* page, and code that fences and changes modes.
TwoPrograms == {(0 :> "mem" @@ 1 :> "mul" @@ 2 :> "mem" @@ 3 :> "sys"),
                (0 :> "sys" @@ 1 :> "add" @@ 2 :> "fp" @@ 3 :> "jump")}

\* The identity, the pages exchanged, the second unmapped.
ThreeMaps == {(0 :> 0 @@ 1 :> 1), (0 :> 1 @@ 1 :> 0), (0 :> 0 @@ 1 :> 2)}
=============================================================================
