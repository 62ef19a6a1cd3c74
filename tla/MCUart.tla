------------------------------- MODULE MCUart -------------------------------
(* An instance of Uart for TLC.                                            *)
EXTENDS Uart

\* The second and third byte typed.
TypedPattern == <<2, 3>>
=============================================================================
