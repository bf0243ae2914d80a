-------------------------- MODULE SubAccountSweep --------------------------
(***************************************************************************)
(* How deposits leave the users' sub-accounts for the master account: each *)
(* deposit's webhook asks Quidax to move its amount, once and without      *)
(* waiting (public.service handleDepositSuccessful), and every half hour   *)
(* a run moves whatever balance it finds (quidax-wallet.cron               *)
(* sweepSubAccountsToMaster), one run at a time by a flag in memory.       *)
(***************************************************************************)
EXTENDS Naturals

CONSTANTS
  User,         \* users with a quidax_id; one coin each
  Broken,       \* those whose wallets Quidax never lists
  MaxDeposits,  \* deposits per user, of one unit each
  MaxFailures,  \* other failed calls
  MaxCrashes    \* process restarts

VARIABLES
  balance,       \* in the sub-accounts
  came,          \* deposits so far
  asking,        \* users whose webhook's sweep is under way
  sweepRunning,  \* the flag
  run,           \* the run that holds it
  failed, crashes

vars == <<balance, came, asking, sweepRunning, run, failed, crashes>>

\* amount is the balance as listed; a call that hangs has no time limit, the
\* one quidax.service asks for is not passed on by axiosClient.
Run   == [pc : {"users", "next", "list", "sweep", "hung"}, todo : SUBSET User, user : User, amount : 0 .. MaxDeposits]
NoRun == [pc |-> "idle"]

Init ==
  /\ balance = [u \in User |-> 0]
  /\ came = [u \in User |-> 0]
  /\ asking = {}
  /\ sweepRunning = FALSE
  /\ run = NoRun
  /\ failed = 0 /\ crashes = 0

Goto(pc) == run' = [run EXCEPT !.pc = pc]
End      == run' = NoRun /\ sweepRunning' = FALSE
Fails    == failed < MaxFailures /\ failed' = failed + 1

\* Mutant: Quidax pays out more than there is.
BugWithdraw(u, n) == balance' = [balance EXCEPT ![u] = @ - n]

\* A withdrawal of Quidax: all of the amount or nothing.
Withdraw(u, n) ==
  balance' = IF n <= balance[u] THEN [balance EXCEPT ![u] = @ - n] ELSE balance

-----------------------------------------------------------------------------

Deposit(u) ==
  /\ came[u] < MaxDeposits
  /\ came' = [came EXCEPT ![u] = @ + 1]
  /\ balance' = [balance EXCEPT ![u] = @ + 1]
  /\ asking' \in {asking, asking \cup {u}}    \* its webhook may not come
  /\ UNCHANGED <<sweepRunning, run, failed, crashes>>

\* The webhook's sweep, whose failure is only logged.
HookSweep(u) ==
  /\ u \in asking
  /\ asking' = asking \ {u}
  /\ Withdraw(u, 1) \/ UNCHANGED balance
  /\ UNCHANGED <<came, sweepRunning, run, failed, crashes>>

\* Every half hour, unless the last run goes on.
CronTick ==
  /\ ~sweepRunning
  /\ sweepRunning' = TRUE
  /\ run' = [pc |-> "users", todo |-> {}, user |-> CHOOSE u \in User : TRUE, amount |-> 0]
  /\ UNCHANGED <<balance, came, asking, failed, crashes>>

\* Mutant: without the finally, a failed query leaves the flag up.
BugListUsers ==
  /\ run.pc = "users"
  /\ \/ /\ run' = [run EXCEPT !.pc = "next", !.todo = User]
        /\ UNCHANGED <<sweepRunning, failed>>
     \/ /\ Fails /\ run' = NoRun /\ UNCHANGED sweepRunning
  /\ UNCHANGED <<balance, came, asking, crashes>>

ListUsers ==
  /\ run.pc = "users"
  /\ \/ /\ run' = [run EXCEPT !.pc = "next", !.todo = User]
        /\ UNCHANGED <<sweepRunning, failed>>
     \/ Fails /\ End
  /\ UNCHANGED <<balance, came, asking, crashes>>

NextUser ==
  /\ run.pc = "next"
  /\ IF run.todo = {}
     THEN End
     ELSE /\ \E u \in run.todo : run' = [run EXCEPT !.pc = "list", !.user = u, !.todo = @ \ {u}]
          /\ UNCHANGED sweepRunning
  /\ UNCHANGED <<balance, came, asking, failed, crashes>>

\* A user whose wallets cannot be listed is left for the next run.
ListWallets ==
  /\ run.pc = "list"
  /\ \/ /\ run.user \notin Broken
        /\ run' = [run EXCEPT !.pc = IF balance[run.user] > 0 THEN "sweep" ELSE "next",
                              !.amount = balance[run.user]]
        /\ UNCHANGED failed
     \/ run.user \in Broken /\ Goto("next") /\ UNCHANGED failed
     \/ run.user \notin Broken /\ Fails /\ Goto("next")
  /\ UNCHANGED <<balance, came, asking, sweepRunning, crashes>>

SweepWallet ==
  /\ run.pc = "sweep"
  /\ run' = [run EXCEPT !.pc = "next", !.amount = 0]
  /\ \/ Withdraw(run.user, run.amount) /\ UNCHANGED failed
     \/ Fails /\ UNCHANGED balance
  /\ UNCHANGED <<came, asking, sweepRunning, crashes>>

Hang ==
  /\ run.pc \in {"list", "sweep"}
  /\ Fails /\ Goto("hung")
  /\ UNCHANGED <<balance, came, asking, sweepRunning, crashes>>

\* The flag is in memory, and so are the webhooks' sweeps.
Crash ==
  /\ crashes < MaxCrashes
  /\ crashes' = crashes + 1
  /\ End /\ asking' = {}
  /\ UNCHANGED <<balance, came, failed>>

RunStep == ListUsers \/ NextUser \/ ListWallets \/ SweepWallet

Next ==
  \/ \E u \in User : Deposit(u) \/ HookSweep(u)
  \/ CronTick \/ RunStep \/ Hang \/ Crash

Spec == Init /\ [][Next]_vars

\* The clock ticks and the run goes on; webhooks and their sweeps may not.
FairSpec == Spec /\ WF_vars(CronTick) /\ WF_vars(RunStep)

-----------------------------------------------------------------------------

TypeOK ==
  /\ balance \in [User -> 0 .. MaxDeposits] /\ came \in [User -> 0 .. MaxDeposits]
  /\ asking \subseteq User
  /\ sweepRunning \in BOOLEAN
  /\ run \in Run \cup {NoRun}
  /\ failed \in 0 .. MaxFailures /\ crashes \in 0 .. MaxCrashes

\* Every deposit leaves its sub-account in the end, whether its webhook came or
\* not, while another user's wallets cannot be listed at all, amounts go stale
\* under the run and restarts interrupt it; unless a call hangs for good.
EveryBalanceSwept ==
  \/ <>[](run.pc = "hung")
  \/ \A u \in User \ Broken : balance[u] > 0 ~> balance[u] = 0
=============================================================================
