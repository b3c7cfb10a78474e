----------------------------- MODULE MCFwUpdate -----------------------------
(* Model checking instance of FwUpdate: two versions of a firmware of two   *)
(* pages, and two failures at any point.                                    *)
EXTENDS FwUpdate
=============================================================================
