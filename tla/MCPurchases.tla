---------------------------- MODULE MCPurchases ----------------------------
(***************************************************************************)
(* Instances of Purchases for TLC.                                         *)
(***************************************************************************)
EXTENDS Purchases, TLC

\* Every purchase costs the same; funds cover all but one of several.
MCPrice == [p \in Purchase |-> 2]
MCFunds == IF Cardinality(Purchase) = 1 THEN 2 ELSE 2 * (Cardinality(Purchase) - 1) + 1
=============================================================================
