----------------------------- MODULE MCPayouts -----------------------------
(***************************************************************************)
(* Safety of Withdrawals for TLC.  Either two runs of the job and two      *)
(* webhooks race on one withdrawal ("race"), or two withdrawals and a      *)
(* transfer compete for the funds of the account with one run and one      *)
(* webhook at a time ("account"): each behaviour is one of a single part,  *)
(* chosen at the start, and a behaviour of Withdrawals.                    *)
(***************************************************************************)
EXTENDS Withdrawals, TLC

VARIABLE part

\* The funds do not cover all three requests.  The ceiling of an unverified
\* account admits one withdrawal, that of a verified one both; the account is
\* verified between the two.
AccountAmount  == [q \in Request |-> IF q \in Transfer THEN 1 ELSE 2]
AccountCeiling == [w \in Withdrawal |-> IF w = "w1" THEN 3 ELSE 4]

Idle(q) == handler[q].pc = "idle"

\* The share of the state each part explores.
Confined ==
  \/ part = "race" /\ \A q \in Request \ {"w1"} : Idle(q)
  \/ /\ part = "account"
     /\ \A w \in Withdrawal : tx[w].retry <= 1
     /\ Cardinality({r \in Run : run[r].pc # "idle"}) <= 1
     /\ Cardinality({h \in Hook : hook[h].pc # "idle"}) <= 1

AllInit == part \in {"race", "account"} /\ Init
AllNext == Next /\ UNCHANGED part /\ Confined'
AllSpec == AllInit /\ [][AllNext]_<<part, vars>>

Symmetry == Permutations(Run) \cup Permutations(Hook)
=============================================================================
