------------------------------ MODULE MCKernel ------------------------------
(***************************************************************************)
(* Small instances of the parts of Kernel: a heap of seven bytes, with two *)
(* or three blocks and a collection every one or two releases; three       *)
(* threads around the receiver; two versions of a firmware of two pages    *)
(* and two failures at any point.                                          *)
(***************************************************************************)
EXTENDS Kernel
ThreeThreads == 1 .. 3
=============================================================================
