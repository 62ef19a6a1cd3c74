------------------------------ MODULE MCVmIpc ------------------------------
(* Instances of VmIpc for TLC.                                             *)
EXTENDS VmIpc, TLC

\* Sessions are interchangeable.
ClientSymmetry == Permutations(Clients)
=============================================================================
