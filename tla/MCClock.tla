------------------------------ MODULE MCClock ------------------------------
(***************************************************************************)
(* Clock for TLC: two users and two pairs, two members of staff, one of    *)
(* whose invitations may be renewed, and two requests, restarts and        *)
(* failures.                                                               *)
(***************************************************************************)
EXTENDS Clock

\* No account is invited twice while requests overlap, or after a restart; and
\* there are two failures only as long as one user has not signed up.
Confined ==
  /\ \/ \A a \in Admin : staff[a].made <= 1
     \/ restarts = 0 /\ \E s \in Slot : \A t \in Slot \ {s} : serving[t] = Accounts!Idle
  /\ failures <= 1 \/ \E u \in User : ~SignedUp(u)

\* The fairness of each part.
AllFairSpec ==
  /\ AllInit /\ [][AllNext /\ Confined']_allVars
  /\ \A s \in Slot : WF_allVars(InAccounts /\ Accounts!Serve(s) /\ Confined')
  /\ \A a \in Admin : WF_allVars(InAccounts /\ Accounts!Expire(a))
  /\ \A u \in User : WF_allVars(InAddresses /\ SetupStep(u) /\ Confined')
  /\ WF_allVars(InAddresses /\ StartTick) /\ WF_allVars(InAddresses /\ TickStep /\ Confined')
  /\ WF_allVars(InSweep /\ Sweep!CronTick) /\ WF_allVars(InSweep /\ Sweep!RunStep)
  /\ WF_allVars(InToken /\ Nomba!Tick)
  /\ \A a \in Reader \cup {Timer} : WF_allVars(InToken /\ Nomba!Step(a))
=============================================================================
