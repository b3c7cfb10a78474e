----------------------------- MODULE MCRouting -----------------------------
(* Four nodes: na and nd have two routers between them that also hear each other. *)
EXTENDS Routing

CONSTANTS na, nb, nc, nd

MCNodes == {na, nb, nc, nd}
Cheap == {<<na, nb>>, <<nb, nc>>, <<nc, nd>>}
Costly == {<<na, nc>>}
MCLinkCost == [l \in {<<x, y>> \in MCNodes \X MCNodes :
                         {<<x, y>>, <<y, x>>} \cap (Cheap \cup Costly) # {}} |->
                  IF {l, <<l[2], l[1]>>} \cap Costly # {} THEN 200 ELSE 16]
MCFlows == {<<na, nd>>}
MCUnsteady == {nc}
MCFragile == {<<nc, nd>>, <<na, nc>>}
=============================================================================
