----------------------------- MODULE MCReports -----------------------------
(***************************************************************************)
(* An instance of Reports for TLC.                                         *)
(***************************************************************************)
EXTENDS Reports

MCCountry == [u \in User |-> "NG"]
MCLength  == [today |-> 1, week |-> 2]
MCAsset   == {<<"usdt", "bsc">>}
=============================================================================
