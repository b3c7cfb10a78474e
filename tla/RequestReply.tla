---------------------------- MODULE RequestReply ----------------------------
(***************************************************************************)
(* What a UDPX client socket promises the program that uses it (src/src/   *)
(* sockets.c): every request that it has taken comes to an end, with an    *)
(* answer to a request of this client or with a timeout, unless an         *)
(* assertion halts the node while it waits.                                *)
(***************************************************************************)
EXTENDS Integers

CONSTANTS
    Clients,     \* the clients
    MaxRequests  \* bound: requests of a client

VARIABLES
    asked,   \* how many requests each client has given to its socket
    waiting, \* whether it waits for the end of the last one
    outcome, \* how the last one that ended did
    halted   \* whether its node has halted, and the request will never end

vars == <<asked, waiting, outcome, halted>>

Timeout == 0
Numbers == 1 .. MaxRequests

Init ==
    /\ asked = [c \in Clients |-> 0]
    /\ waiting = [c \in Clients |-> FALSE]
    /\ outcome = [c \in Clients |-> Timeout]
    /\ halted = [c \in Clients |-> FALSE]

Ask(c) ==
    /\ ~waiting[c] /\ ~halted[c]
    /\ asked[c] < MaxRequests
    /\ asked' = [asked EXCEPT ![c] = @ + 1]
    /\ waiting' = [waiting EXCEPT ![c] = TRUE]
    /\ UNCHANGED <<outcome, halted>>

End(c) ==
    /\ waiting[c] /\ ~halted[c]
    /\ \E result \in {Timeout} \cup 1 .. asked[c] : outcome' = [outcome EXCEPT ![c] = result]
    /\ waiting' = [waiting EXCEPT ![c] = FALSE]
    /\ UNCHANGED <<asked, halted>>

Halt(c) ==
    /\ waiting[c]
    /\ halted' = [halted EXCEPT ![c] = TRUE]
    /\ UNCHANGED <<asked, waiting, outcome>>

Next == \E c \in Clients : Ask(c) \/ End(c) \/ Halt(c)

Safe == Init /\ [][Next]_vars
Fair == \A c \in Clients : WF_vars(End(c))

Spec == Safe /\ Fair
=============================================================================
