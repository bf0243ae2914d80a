---------------------------- MODULE PayoutLedger ----------------------------
(***************************************************************************)
(* What the account is promised, without saying how: a request is accepted *)
(* only if funds and ceiling cover it with everything still held; money    *)
(* leaves against a held withdrawal only, and once; a withdrawal ends in   *)
(* success if it left and in failure, its amount given back, if it did not *)
(* and never will.  Withdrawals implements it.                             *)
(***************************************************************************)
EXTENDS Integers, Functions

CONSTANTS
  Withdrawal, Transfer,   \* the requests of the account
  Amount,                 \* what each takes
  Funds,                  \* what the account has
  Ceiling                 \* per withdrawal: its daily ceiling

VARIABLES
  status,    \* per request: none, processing, success or failed
  left       \* withdrawals whose money has left

ledger == <<status, left>>

Total(S) == SumFunctionOnSet(Amount, S)
Held     == {q \in DOMAIN status : status[q] \in {"processing", "success"}}

Init ==
  /\ status = [q \in Withdrawal \cup Transfer |-> "none"]
  /\ left = {}

\* The request fits into the funds with all that is held.
Fits(q) == status[q] = "none" /\ Total(Held \cup {q}) <= Funds

Withdraw(w) ==
  /\ Fits(w)
  /\ Total((Held \cup {w}) \cap Withdrawal) <= Ceiling[w]
  /\ status' = [status EXCEPT ![w] = "processing"]
  /\ UNCHANGED left

Send(t) ==
  /\ Fits(t)
  /\ status' = [status EXCEPT ![t] = "success"]
  /\ UNCHANGED left

Leave(w) ==
  /\ status[w] = "processing" /\ w \notin left
  /\ left' = left \cup {w}
  /\ UNCHANGED status

Succeed(w) ==
  /\ status[w] = "processing" /\ w \in left
  /\ status' = [status EXCEPT ![w] = "success"]
  /\ UNCHANGED left

GiveBack(w) ==
  /\ status[w] = "processing" /\ w \notin left
  /\ status' = [status EXCEPT ![w] = "failed"]
  /\ UNCHANGED left

Next ==
  \/ \E w \in Withdrawal : Withdraw(w) \/ Leave(w) \/ Succeed(w) \/ GiveBack(w)
  \/ \E t \in Transfer : Send(t)

Spec == Init /\ [][Next]_ledger
=============================================================================
