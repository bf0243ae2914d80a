----------------------------- MODULE MCSpending -----------------------------
(***************************************************************************)
(* Spending for TLC: two runs, or two requests at a time, on each of the   *)
(* seven chains.                                                           *)
(***************************************************************************)
EXTENDS Spending, TLC

CONSTANTS evm, sol, tron, xrp, btc, doge, ada

MCPrice  == [p \in Purchase |-> 2]
MCBuffer == [c \in AccountChain |-> IF c = evm THEN 1 ELSE IF c = xrp THEN 2 ELSE 0]

\* Bitcoin's fee may be more than the reserve.
MCDust    == [c \in OutputChain |-> 1]
MCReserve == [c \in OutputChain |-> IF c = btc THEN 3 ELSE 4]
MCRate    == [c \in OutputChain |-> IF c = btc THEN {1, 3} ELSE {1}]
MCCoins   == <<3, 5>>

\* A chain is left open in its own part only.
OneChain ==
  /\ AllInit
  /\ part # "accounts" => chain = evm
  /\ part # "outputs" => utxoChain = btc

SpecOfOneChain == OneChain /\ [][AllNext]_allVars

Symmetry == Permutations(Run)
=============================================================================
