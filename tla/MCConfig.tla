------------------------------ MODULE MCConfig ------------------------------
(***************************************************************************)
(* Two versions of the firmware.  One parameter goes with the second, one  *)
(* of two blocks gets another type; a block is left for writing.           *)
(***************************************************************************)
EXTENDS Config, TLC
MCLength == "version" :> 1 @@ "count" :> 1 @@ "key" :> 2
MCKnownTo == 1 :> {"version", "count", "key"} @@ 2 :> {"version", "key"}
MCTypeIn == 1 :> [p \in {"version", "count", "key"} |-> "u16"]
            @@ 2 :> ("version" :> "u16" @@ "key" :> "key128")
MCDefaults == 1 :> << <<"count", 7>>, <<"key", 7>>, <<"version", 1>> >>
              @@ 2 :> << <<"key", 7>>, <<"version", 2>> >>
=============================================================================
