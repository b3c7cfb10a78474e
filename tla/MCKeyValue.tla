----------------------------- MODULE MCKeyValue -----------------------------
(***************************************************************************)
(* Two parameters, of which one fills its record.                          *)
(***************************************************************************)
EXTENDS KeyValue, TLC
MCWidth == "a" :> 2 @@ "b" :> 1
=============================================================================
