--------------------------- MODULE ReferralLedger ---------------------------
(***************************************************************************)
(* What the referral programme promises, without saying how: a referee     *)
(* earns their referrer one reward, and a reward is moved to the           *)
(* referrer's main balance at most once, in one credit with whatever else  *)
(* is waiting.  Referrals implements it.                                   *)
(***************************************************************************)
EXTENDS Integers

CONSTANTS
  Referee,   \* users who signed up with somebody's code
  User,      \* users whose code was used
  Referrer   \* the user whose code each referee used

VARIABLES
  earned,    \* referees whose reward exists
  moved,     \* referees whose reward has left the earning account
  credits    \* credits to main balances: the user, and the rewards credited

ledger == <<earned, moved, credits>>

Init == earned = {} /\ moved = {} /\ credits = {}

Earn(r) ==
  /\ r \notin earned
  /\ earned' = earned \cup {r}
  /\ UNCHANGED <<moved, credits>>

\* A user's rewards go together, but one earned meanwhile may stay behind.
Move(u, S) ==
  /\ S # {} /\ S \subseteq earned \ moved
  /\ \A r \in S : Referrer[r] = u
  /\ moved' = moved \cup S
  /\ credits' = credits \cup {[user |-> u, rewards |-> S]}
  /\ UNCHANGED earned

Next ==
  \/ \E r \in Referee : Earn(r)
  \/ \E u \in User, S \in SUBSET Referee : Move(u, S)

Spec == Init /\ [][Next]_ledger
=============================================================================
