--------------------------- MODULE MCWithdrawals ---------------------------
(***************************************************************************)
(* Instances of Withdrawals for TLC.                                       *)
(***************************************************************************)
EXTENDS Withdrawals, TLC

\* Two withdrawals and a transfer compete for funds that do not cover all three.
MCAmount  == [q \in Request |-> IF q \in Transfer THEN 1 ELSE 2]
MCFunds   == 4

\* The ceiling of an unverified account admits one withdrawal, that of a
\* verified one both; the account is verified between the two requests.
MCCeiling == [w \in Withdrawal |-> IF w = "w1" THEN 3 ELSE 4]

Symmetry == Permutations(Run) \cup Permutations(Hook)
=============================================================================
