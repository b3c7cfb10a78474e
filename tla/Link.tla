-------------------------------- MODULE Link --------------------------------
(***************************************************************************)
(* What the MAC promises to the protocols above it about one neighbor: a   *)
(* channel that may lose frames, but hands over each at most once and in   *)
(* the order of their creation, and that reports success only for a frame  *)
(* the radio of the neighbor heard.                                        *)
(***************************************************************************)
EXTENDS Integers, Sequences, SequencesExt

VARIABLES
    sent,       \* the frames created, in order; each says whether it asks for an acknowledgment
    heard,      \* the numbers of the frames the neighbor's radio heard
    delivered,  \* the numbers of the frames handed over there, in this order
    report      \* what the sender was told of each frame

LinkInit ==
    /\ sent = <<>>
    /\ heard = {}
    /\ delivered = <<>>
    /\ report = <<>>

\* A new frame has no report yet.
Create ==
    /\ \E ack \in BOOLEAN : sent' = Append(sent, ack)
    /\ report' = Append(report, "none")
    /\ UNCHANGED <<heard, delivered>>

Hear ==
    /\ \E i \in DOMAIN sent : heard' = heard \cup {i}
    /\ UNCHANGED <<sent, delivered, report>>

HandOver ==
    /\ \E i \in heard :
          /\ \A k \in DOMAIN delivered : delivered[k] < i
          /\ delivered' = Append(delivered, i)
    /\ UNCHANGED <<sent, heard, report>>

Report ==
    /\ \E i \in DOMAIN sent :
          /\ report[i] = "none"
          /\ \/ report' = [report EXCEPT ![i] = "FAILED"]
             \/ /\ sent[i] => i \in heard
                /\ report' = [report EXCEPT ![i] = "OK"]
    /\ UNCHANGED <<sent, heard, delivered>>

LinkNext == Create \/ Hear \/ HandOver \/ Report

LinkSpec == LinkInit /\ [][LinkNext]_<<sent, heard, delivered, report>>
=============================================================================
