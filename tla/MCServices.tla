---------------------------- MODULE MCServices -----------------------------
(***************************************************************************)
(* Small instances of the parts of Services.  For those that need numbers  *)
(* and simple sets only, see MCServices.cfg.                               *)
(***************************************************************************)
EXTENDS Services, TLC

\* A thunder, a data frame and a broadcast or a thunder; a second thunder makes the cache
\* of one entry forget the first.
MCPlan == <<{"thunder"}, {"data"}, {"broadcast", "thunder"}>>

\* Two nodes and a gateway that has room for one of them.
MCCapacity == "g" :> 1 @@ "a" :> 2 @@ "b" :> 2

\* Three stations in a row; one end sends two broadcasts of two fragments each, and there is
\* one tag, which comes round with every message.
MCAddress == [n \in {"a", "b", "c"} |-> n]
MCInReach == {<<"a", "b">>, <<"b", "a">>, <<"b", "c">>, <<"c", "b">>}
MCPackets == <<[from |-> "a", dest |-> "all"], [from |-> "a", dest |-> "all"]>>

\* Two nodes, of which one has a manual address, and a table that just holds them.
MCManualIp == "q" :> "ip9"

\* Two gateways between the same mesh and the same Ethernet.
MCBridgedBy == "g1" :> {"p"} @@ "g2" :> {"q"}
MCIpPackets ==
    [origin : {"lan", "mesh"}, dest : {"broadcast"}, port : {"local", "open"}, radio : {TRUE}]
    \cup [origin : {"g1"}, dest : {"broadcast"}, port : {"local", "open"}, radio : {FALSE}]
    \cup [origin : {"lan", "mesh", "g2"}, dest : {"p", "host", "broadcast"},
          port : {"closed"}, radio : {TRUE}]

\* Two nodes below the gateway, in a row, or with each other as upstream.
MCTrees == {"a" :> "g" @@ "b" :> "g", "a" :> "g" @@ "b" :> "a", "a" :> "b" @@ "b" :> "a"}

\* One parameter goes with the next version, one of two blocks gets another type; a block is
\* left for writing.
MCLength == "version" :> 1 @@ "count" :> 1 @@ "key" :> 2
MCKnownTo == 1 :> {"version", "count", "key"} @@ 2 :> {"version", "key"}
MCTypeIn == 1 :> [p \in {"version", "count", "key"} |-> "u16"]
            @@ 2 :> ("version" :> "u16" @@ "key" :> "key128")
MCDefaults == 1 :> << <<"count", 7>>, <<"key", 7>>, <<"version", 1>> >>
              @@ 2 :> << <<"key", 7>>, <<"version", 2>> >>

\* An upload over a longer file, of a full and an empty block, and one that deletes a file it created.
MCCases == {<< <<"a", "b", "c">>, <<"x", "y">> >>, << <<"absent">>, <<>> >>}
MCTransfers == 1 .. 4

\* A value of two cells, which lie on one page or on two, and two of a single cell.
MCWidth == "a" :> 2 @@ "b" :> 1 @@ "c" :> 1
=============================================================================
