------------------------------ MODULE MCExport ------------------------------
(* Three records for TLC; the one with the earliest date, which has none, has *)
(* the call that comes second.                                             *)
EXTENDS Export, TLC

MCCallRank == (1 :> 2) @@ (2 :> 3) @@ (3 :> 1)
=============================================================================
