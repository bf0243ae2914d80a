---------------------------- MODULE MCSettlement ----------------------------
(***************************************************************************)
(* What becomes in the end of money sent out, for TLC: Purchases (two      *)
(* bills, one of which the funds do not cover, pay requests that do not    *)
(* reach VTPass, a deleted account or a restart) and Withdrawals (one      *)
(* withdrawal that Nomba may refund and the account may stop covering, a   *)
(* restart).  They share no state: each behaviour is one of a single part, *)
(* chosen at the start.                                                    *)
(***************************************************************************)
EXTENDS Purchases

CONSTANTS Withdrawal, Hook, NoOne

VARIABLES part, tx, lock, handler, job, hook, bank, event, late, funds, notified, claims, restarts

MCPrice == [p \in Purchase |-> 2]

Payouts == INSTANCE Withdrawals WITH
  Transfer <- {}, Amount <- [w \in Withdrawal |-> 1], Funds <- 1,
  Ceiling <- [w \in Withdrawal |-> 1], Env <- {"refund", "spend"}, run <- job, crashes <- restarts

payouts == <<tx, lock, handler, job, hook, bank, event, late, funds, notified, claims, restarts>>
allVars == <<part, vars, payouts>>

AllInit == part \in {"payouts", "bills"} /\ Init /\ Payouts!Init

InPayouts == part = "payouts" /\ UNCHANGED <<part, vars>>
InBills   == part = "bills" /\ UNCHANGED <<part, payouts>>

\* Bound: the account is not deleted in a behaviour with a restart.
OneMishap == gone' => crashes' = 0

AllNext == (InPayouts /\ Payouts!Next) \/ (InBills /\ Next /\ OneMishap)

\* The fairness of each part.
PayoutFairness ==
  /\ \A w \in Withdrawal :
       /\ WF_allVars(InPayouts /\ Payouts!HandlerStep(w))
       /\ WF_allVars(InPayouts /\ Payouts!PayoutStep(w))
       /\ WF_allVars(InPayouts /\ (Payouts!NombaPay(w) \/ Payouts!NombaReject(w)))
  /\ \A r \in Run : /\ WF_allVars(InPayouts /\ Payouts!RunStep(r))
                    /\ SF_allVars(InPayouts /\ Payouts!RunLock(r))
                    /\ \A w \in Withdrawal : SF_allVars(InPayouts /\ Payouts!ClearAnswer(r, w))
  /\ \A h \in Hook :
       WF_allVars(InPayouts /\ (Payouts!HookSuccess(h) \/ Payouts!HookNotify(h) \/ Payouts!HookFail(h)))
  /\ \A a \in Withdrawal \cup Run : WF_allVars(InPayouts /\ Payouts!NombaAnswer(a))

BillFairness ==
  /\ \A p \in Purchase :
       WF_allVars(InBills /\ CreateStep(p)) /\ WF_allVars(InBills /\ VtSettle(p))
  /\ \A r \in Run : /\ WF_allVars(InBills /\ RunStep(r))
                    /\ \A p \in Purchase :
                         /\ SF_allVars(InBills /\ run[r].at = p /\ RunRequery(r, "delivered"))
                         /\ SF_allVars(InBills /\ run[r].at = p /\ Heard(r))
  /\ \A a \in Purchase \cup Run : WF_allVars(InBills /\ (VtTake(a) \/ VtRefuse(a)))

AllFairSpec == AllInit /\ [][AllNext]_allVars /\ PayoutFairness /\ BillFairness

\* Every withdrawal the account has paid for succeeds, fails or is flagged for
\* manual review, unless other features keep taking the funds it needs, and a
\* payout Nomba has paid, and does not take back, is recorded as successful in the
\* end (verifyTransactionJob).
PayoutsSettle == Payouts!PayoutsSettle

\* Every payout that becomes successful is announced to the user, whichever of
\* the job and the webhook settles it, unless the process restarted (an
\* announcement that fails is not admitted here).
SuccessIsAnnounced == Payouts!SuccessIsAnnounced
=============================================================================
