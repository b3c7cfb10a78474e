------------------------------- MODULE MCUdpx -------------------------------
(* Model checking instances of Udpx: one or two clients, identifiers that   *)
(* repeat or not, and allocations that fail or not.                         *)
EXTENDS Udpx
=============================================================================
