------------------------------- MODULE Kernel -------------------------------
(***************************************************************************)
(* What a node runs on: the heap, the scheduler with the radio's           *)
(* interrupt, and the boot loader with the firmware update.                *)
(*                                                                         *)
(* A behavior is one of the part in `part', the others rest: they share    *)
(* neither constants nor variables.                                        *)
(***************************************************************************)
EXTENDS FwUpdate, Memory, Scheduler

VARIABLE part

kernelVars == <<part, memVars, threadVars, fwVars>>

\* A part at rest is in one of its initial states, always the same one.
KernelInit ==
    /\ part \in {"memory", "scheduler", "loader"}
    /\ SchedInit /\ MemInit /\ FwInit
    /\ part # "memory" => written = [h \in Handles |-> CHOOSE c \in Contents : TRUE]
    /\ part # "loader" =>
          /\ internal = [p \in Pages |-> CHOOSE v \in Versions : TRUE]
          /\ partition = internal
          /\ command = "NONE" /\ bootMode = "NORMAL" /\ ~attended

MemStep(step) == part = "memory" /\ step /\ UNCHANGED <<part, threadVars, fwVars>>
SchedStep(step) == part = "scheduler" /\ step /\ UNCHANGED <<part, memVars, fwVars>>
FwStep(step) == part = "loader" /\ step /\ UNCHANGED <<part, memVars, threadVars>>

KernelNext == MemStep(MemNext) \/ SchedStep(SchedNext) \/ FwStep(FwNext)

KernelSpec == KernelInit /\ [][KernelNext]_kernelVars

-----------------------------------------------------------------------------
(* Liveness of each part, under its own fairness, see the modules *)

HeapIsReclaimed == part = "memory" /\ GcFair => DirtySpaceReclaimed
NoThreadStarves == part = "scheduler" /\ SchedFair => ThreadsKeepRunning
NodeComesBack == part = "loader" /\ FwFair => ComesBack
=============================================================================
