--------------------------- MODULE MCDepositsAll ---------------------------
(***************************************************************************)
(* Deposits for TLC: one deposit on which three deliveries race, with      *)
(* failing statements, a hold and a restart ("race", the constants of the  *)
(* configuration), or two deposits handled one delivery at a time, fairly  *)
(* ("calm").  The two share no state: each behaviour is one of a single    *)
(* part, chosen at the start.                                              *)
(***************************************************************************)
EXTENDS Deposits

CONSTANTS d1, d2, w1

VARIABLES part, calmQuidax, calmSent, calmAcked, calmMarker, calmHooked, calmTx, calmRows, calmFees,
          calmWorker, calmErrors, calmCrashes

Calm == INSTANCE Deposits WITH
  Deposit <- {d1, d2}, Worker <- {w1}, Known <- {d1}, Closed <- {}, Exempt <- {},
  MaxErrors <- 0, MaxCrashes <- 0, Env <- {"noPrice"},
  quidax <- calmQuidax, sent <- calmSent, acked <- calmAcked, marker <- calmMarker,
  hooked <- calmHooked, tx <- calmTx, rows <- calmRows, fees <- calmFees, worker <- calmWorker,
  errors <- calmErrors, crashes <- calmCrashes

calm == <<calmQuidax, calmSent, calmAcked, calmMarker, calmHooked, calmTx, calmRows, calmFees,
          calmWorker, calmErrors, calmCrashes>>
allVars == <<part, vars, calm>>

AllInit == part \in {"race", "calm"} /\ Init /\ Calm!Init

InCalm == part = "calm" /\ UNCHANGED <<part, vars>>

AllNext ==
  \/ part = "race" /\ Next /\ UNCHANGED <<part, calm>>
  \/ InCalm /\ Calm!Next

\* Less fairness than Deposits states: only the event that a deposit was
\* successful comes again until it is acknowledged, the others may be lost.
AllFairSpec ==
  /\ AllInit /\ [][AllNext]_allVars
  /\ SF_allVars(InCalm /\ "successful" \notin calmAcked[d1] /\ Calm!Deliver(w1, d1, "successful"))
  /\ WF_allVars(InCalm /\ Calm!Handle(w1))

\* A deposit Quidax has called successful is credited in the end, whether or
\* not its confirmation was handled before.
CalmIsCredited == Calm!SuccessfulIsCredited
=============================================================================
