------------------------------ MODULE MCHelper ------------------------------
(* A helper with three sensors: one is asked for by the id it was minted   *)
(* with, one by an id that got a suffix, one is of a kind nobody knows.    *)
(* List() finds all of them or, while the hardware is not there, none.     *)
EXTENDS Helper

MCRecords == {"cpu", "raw", "gpu"}
MCReports == {<<"cpu", "raw", "gpu">>, <<>>}
MCMinted == [r \in MCRecords |->
   CASE r = "cpu" -> <<1>> [] r = "gpu" -> <<2>> [] OTHER -> Unmapped]
MCReadIds == {<<1>>, <<2, 0>>}
=============================================================================
