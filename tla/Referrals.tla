----------------------------- MODULE Referrals ------------------------------
(***************************************************************************)
(* The referral programme of referrals.service.ts.  A reward is a row of   *)
(* referral_earnings, inserted when the referee's successful deposits      *)
(* reach a threshold, by the handler of a deposit or by the nightly job,   *)
(* which run concurrently.  Withdrawing flips the rows and credits the     *)
(* main balance in one transaction that locks the rows it read.  Every     *)
(* other statement is a transaction of its own.                            *)
(***************************************************************************)
EXTENDS Integers, Sequences

CONSTANTS
  Referee,      \* users who signed up with somebody's code
  User,         \* users whose code was used
  Referrer,     \* referred_by_id of each referee
  Worker,       \* evaluations that may be in progress at the same time
  Nightly,      \* the one of them that is the nightly job's
  NoReferee,    \* no referee being evaluated
  Request,      \* taps of the withdraw button
  Threshold,    \* REFERRAL_QUALIFYING_DEPOSIT_USD, in deposits
  Figures,      \* values REFERRAL_REWARD_NGN has from one release to another
  Leaving,      \* referees who may delete their account
  Unsettled,    \* referees whose deposits may be put on hold after their success
  MaxDeposits,  \* bound on the deposits of a referee
  MaxErrors,    \* bound on database statements that fail
  MaxCrashes    \* bound on process restarts

ASSUME ConstantsAssumption ==
  /\ Referrer \in [Referee -> User]
  /\ NoReferee \notin Referee
  /\ Nightly \in Worker
  /\ Leaving \subseteq Referee /\ Unsettled \subseteq Referee
  /\ Threshold \in Nat \ {0} /\ MaxDeposits \in Nat
  /\ Figures \subseteq Nat \ {0} /\ Figures # {}
  /\ MaxErrors \in Nat /\ MaxCrashes \in Nat

VARIABLES
  deposits,  \* deposit rows of each referee, counted by status
  reached,   \* history: referees whose successful deposits ever reached the threshold
  closed,    \* referees whose account is soft-deleted
  figure,    \* REFERRAL_REWARD_NGN of the running release
  earnings,  \* the referral_earnings rows in order of id
  worker,    \* evaluateQualification in progress
  queue,     \* candidates the nightly job has still to evaluate
  request,   \* withdrawToMainAccount of each tap
  paid,      \* earning_ids of the main-balance credit each tap wrote
  errors,
  crashes

vars == <<deposits, reached, closed, figure, earnings, worker, queue, request, paid, errors, crashes>>

Account    == [processing : Nat, pending : Nat, success : Nat]
Earning    == [referee : Referee, amount : Figures, withdrawal_status : BOOLEAN]
Evaluation == [pc : {"idle", "hook", "sum", "insert"}, of : Referee \cup {NoReferee}]
Idle       == [pc |-> "idle", of |-> NoReferee]
Withdrawal == [pc : {"free", "locking", "writing", "done", "refused"}, by : User,
               want : SUBSET Nat, locked : SUBSET Nat, pending : SUBSET Nat]

Init ==
  /\ deposits = [r \in Referee |-> [processing |-> 0, pending |-> 0, success |-> 0]]
  /\ reached = {} /\ closed = {} /\ figure \in Figures
  /\ earnings = << >>
  /\ worker = [w \in Worker |-> Idle] /\ queue = {}
  /\ request \in [Request -> {[pc |-> "free", by |-> u, want |-> {}, locked |-> {}, pending |-> {}] : u \in User}]
  /\ paid = [q \in Request |-> {}]
  /\ errors = 0 /\ crashes = 0

-----------------------------------------------------------------------------
(* Deposits and accounts *)

money == <<earnings, request, paid>>

\* lifetimeDepositUsd: successful deposits only.
LifetimeDeposits(r) == deposits[r].success
Qualifies(r) == LifetimeDeposits(r) >= Threshold

Detect(r) ==
  /\ deposits[r].processing + deposits[r].pending + deposits[r].success < MaxDeposits
  /\ deposits' = [deposits EXCEPT ![r].processing = @ + 1]
  /\ UNCHANGED <<reached, closed, figure, worker, queue, errors, crashes, money>>

\* The handler of a deposit has written its success and comes to the hook.
\* (For a deleted account it throws before; the hook would do nothing.)
Confirm(w, r) ==
  /\ w # Nightly /\ worker[w] = Idle
  /\ deposits[r].processing > 0
  /\ deposits' = [deposits EXCEPT ![r].processing = @ - 1, ![r].success = @ + 1]
  /\ reached' = IF deposits[r].success + 1 >= Threshold THEN reached \cup {r} ELSE reached
  /\ worker' = [worker EXCEPT ![w] = [pc |-> "hook", of |-> r]]
  /\ UNCHANGED <<closed, figure, queue, errors, crashes, money>>

\* An on_hold that arrives after the success turns the row to pending.
Downgrade(r) ==
  /\ r \in Unsettled /\ deposits[r].success > 0
  /\ deposits' = [deposits EXCEPT ![r].success = @ - 1, ![r].pending = @ + 1]
  /\ UNCHANGED <<reached, closed, figure, worker, queue, errors, crashes, money>>

\* confirmAccountDeletion of a referee.
Close(r) ==
  /\ r \in Leaving \ closed
  /\ closed' = closed \cup {r}
  /\ UNCHANGED <<deposits, reached, figure, worker, queue, errors, crashes, money>>

-----------------------------------------------------------------------------
(* evaluateQualification *)

Row == 1..Len(earnings)
Rewarded(r) == \E i \in Row : earnings[i].referee = r
\* Mutant: no unique constraint.
BugViolates(r) == FALSE

\* UQ_referral_earnings_user_referee; the referrer of a referee never changes.
Violates(r) == Rewarded(r)

evaluationUnchanged == <<deposits, reached, closed, figure, queue, errors, crashes, request, paid>>

\* The referee's row, and whether a reward exists already.  A deleted
\* account is not found.
Look(w) ==
  LET r == worker[w].of
  IN  /\ worker[w].pc = "hook"
      /\ worker' = [worker EXCEPT ![w] = IF r \in closed \/ Rewarded(r) THEN Idle ELSE [@ EXCEPT !.pc = "sum"]]
      /\ UNCHANGED <<evaluationUnchanged, earnings>>

Sum(w) ==
  /\ worker[w].pc = "sum"
  /\ worker' = [worker EXCEPT ![w] = IF Qualifies(worker[w].of) THEN [@ EXCEPT !.pc = "insert"] ELSE Idle]
  /\ UNCHANGED <<evaluationUnchanged, earnings>>

\* The unique violation is swallowed: somebody else awarded the reward.
Award(w) ==
  LET r == worker[w].of
  IN  /\ worker[w].pc = "insert"
      /\ earnings' = IF Violates(r) THEN earnings
                     ELSE Append(earnings, [referee |-> r, amount |-> figure, withdrawal_status |-> FALSE])
      /\ worker' = [worker EXCEPT ![w] = Idle]
      /\ UNCHANGED evaluationUnchanged

\* A failing statement is logged; before the hook it is the handler that throws.
EvaluationFails(w) ==
  /\ worker[w] # Idle /\ errors < MaxErrors
  /\ worker' = [worker EXCEPT ![w] = Idle]
  /\ errors' = errors + 1
  /\ UNCHANGED <<deposits, reached, closed, figure, queue, crashes, money>>

\* Mutant: the threshold itself is not enough.
BugCandidates == {r \in Referee \ closed : ~Rewarded(r) /\ LifetimeDeposits(r) > Threshold}

\* awardMissedQualifications: the candidates, read by one query.
Candidates == {r \in Referee \ closed : ~Rewarded(r) /\ Qualifies(r)}

NightlyScan ==
  /\ worker[Nightly] = Idle /\ queue = {}
  /\ queue' = Candidates
  /\ UNCHANGED <<deposits, reached, closed, figure, worker, errors, crashes, money>>

NightlyNext(r) ==
  /\ worker[Nightly] = Idle /\ r \in queue
  /\ queue' = queue \ {r}
  /\ worker' = [worker EXCEPT ![Nightly] = [pc |-> "hook", of |-> r]]
  /\ UNCHANGED <<deposits, reached, closed, figure, errors, crashes, money>>

-----------------------------------------------------------------------------
(* withdrawToMainAccount *)

Mine(u) == {i \in Row : Referrer[earnings[i].referee] = u}

withdrawalUnchanged == <<deposits, reached, closed, figure, worker, queue, crashes>>

\* SELECT ... FOR UPDATE: the rows its snapshot holds, to be locked one by one.
Tap(q) ==
  /\ request[q].pc = "free"
  /\ request' = [request EXCEPT ![q].pc = "locking",
                   ![q].want = {i \in Mine(request[q].by) : ~earnings[i].withdrawal_status}]
  /\ UNCHANGED <<withdrawalUnchanged, earnings, paid, errors>>

\* Mutant: no pessimistic lock.
BugLocked(i, q) == FALSE

Locked(i, q) == \E p \in Request \ {q} : i \in request[p].locked

\* Once a row is locked, PostgreSQL evaluates the WHERE again on the row as it
\* is now.
Read(i) == IF earnings[i].withdrawal_status THEN {} ELSE {i}

\* A row somebody else has locked is waited for.
LockRow(q, i) ==
  /\ request[q].pc = "locking" /\ i \in request[q].want
  /\ ~Locked(i, q)
  /\ request' = [request EXCEPT ![q] =
                   [request[q] EXCEPT !.want = @ \ {i}, !.locked = @ \cup {i}, !.pending = @ \cup Read(i)]]
  /\ UNCHANGED <<withdrawalUnchanged, earnings, paid, errors>>

Ended(pc, q) == [request[q] EXCEPT !.pc = pc, !.want = {}, !.locked = {}, !.pending = {}]

Selected(q) ==
  /\ request[q].pc = "locking" /\ request[q].want = {}
  /\ request' = [request EXCEPT ![q] = IF request[q].pending = {} THEN Ended("refused", q)
                                       ELSE [@ EXCEPT !.pc = "writing"]]
  /\ UNCHANGED <<withdrawalUnchanged, earnings, paid, errors>>

\* Mutant: every row of the user is flipped, not the rows read.
BugFlipped(q) == Mine(request[q].by)

\* The update by id and the credit, visible to others when the transaction
\* commits; whoever waits for the locks goes on then.
Flipped(q) == request[q].pending

Commit(q) ==
  /\ request[q].pc = "writing"
  /\ earnings' = [i \in Row |-> IF i \in Flipped(q) THEN [earnings[i] EXCEPT !.withdrawal_status = TRUE]
                                ELSE earnings[i]]
  /\ paid' = [paid EXCEPT ![q] = request[q].pending]
  /\ request' = [request EXCEPT ![q] = Ended("done", q)]
  /\ UNCHANGED <<withdrawalUnchanged, errors>>

\* Mutant: no rollback, so the locks are kept.
BugAbortWithdrawal(q) == request' = [request EXCEPT ![q].pc = "refused"]

\* Rollback, which also releases the locks.
AbortWithdrawal(q) == request' = [request EXCEPT ![q] = Ended("refused", q)]

WithdrawalFails(q) ==
  /\ request[q].pc \in {"locking", "writing"} /\ errors < MaxErrors
  /\ AbortWithdrawal(q)
  /\ errors' = errors + 1
  /\ UNCHANGED <<withdrawalUnchanged, earnings, paid>>

WaitsFor(q, p) == q # p /\ request[q].pc = "locking" /\ request[q].want \cap request[p].locked # {}

\* Without an ORDER BY two taps may lock each other's rows; PostgreSQL then
\* aborts one of them.
Deadlocked(q) ==
  /\ \E p \in Request : WaitsFor(q, p) /\ WaitsFor(p, q)
  /\ AbortWithdrawal(q)
  /\ UNCHANGED <<withdrawalUnchanged, earnings, paid, errors>>

-----------------------------------------------------------------------------
\* A restart loses the evaluations and rolls open transactions back; the
\* release that starts may have another figure.
Restart ==
  /\ crashes < MaxCrashes
  /\ crashes' = crashes + 1
  /\ figure' \in Figures
  /\ worker' = [w \in Worker |-> Idle] /\ queue' = {}
  /\ request' = [q \in Request |-> IF request[q].pc \in {"locking", "writing"}
                                   THEN Ended("refused", q) ELSE request[q]]
  /\ UNCHANGED <<deposits, reached, closed, earnings, paid, errors>>

Next ==
  \/ \E r \in Referee : Detect(r)
  \/ \E w \in Worker, r \in Referee : Confirm(w, r)
  \/ \E r \in Referee : Downgrade(r)
  \/ \E r \in Referee : Close(r)
  \/ \E w \in Worker : Look(w)
  \/ \E w \in Worker : Sum(w)
  \/ \E w \in Worker : Award(w)
  \/ \E w \in Worker : EvaluationFails(w)
  \/ NightlyScan
  \/ \E r \in Referee : NightlyNext(r)
  \/ \E q \in Request : Tap(q)
  \/ \E q \in Request : \E i \in request[q].want : LockRow(q, i)
  \/ \E q \in Request : Selected(q)
  \/ \E q \in Request : Commit(q)
  \/ \E q \in Request : WithdrawalFails(q)
  \/ \E q \in Request : Deadlocked(q)
  \/ Restart

Spec == Init /\ [][Next]_vars

\* The nightly job runs every night, started statements end, and PostgreSQL
\* resolves deadlocks.  Deposits and taps need not happen.
Fairness ==
  /\ WF_vars(NightlyScan) /\ WF_vars(\E r \in Referee : NightlyNext(r))
  /\ \A w \in Worker : WF_vars(Look(w) \/ Sum(w) \/ Award(w))
  /\ \A q \in Request : WF_vars((\E i \in request[q].want : LockRow(q, i)) \/ Selected(q) \/ Commit(q))
  /\ \A q \in Request : WF_vars(Deadlocked(q))

FairSpec == Spec /\ Fairness

-----------------------------------------------------------------------------
(* Properties *)

TypeOK ==
  /\ deposits \in [Referee -> Account]
  /\ reached \subseteq Referee /\ closed \subseteq Referee /\ queue \subseteq Referee
  /\ figure \in Figures
  /\ earnings \in Seq(Earning)
  /\ worker \in [Worker -> Evaluation]
  /\ \A w \in Worker : worker[w].pc # "idle" => worker[w].of \in Referee
  /\ request \in [Request -> Withdrawal]
  /\ paid \in [Request -> SUBSET Nat]
  /\ errors \in 0..MaxErrors /\ crashes \in 0..MaxCrashes

RewardOnce          == \A i, j \in Row : earnings[i].referee = earnings[j].referee => i = j
RewardOnlyIfReached == \A i \in Row : earnings[i].referee \in reached

\* However many deposits confirm at the same moment, a referee earns their
\* referrer one reward; and nobody is rewarded for a referee whose successful
\* deposits never reached the threshold, whatever happened to them since.
RewardsAreDue == RewardOnce /\ RewardOnlyIfReached

\* A reward is marked withdrawn exactly when one credit to the main balance
\* contains it, a credit contains rewards of the user credited only, and no
\* reward is in two credits.
EarningsConserved ==
  /\ \A i \in Row : earnings[i].withdrawal_status <=> \E q \in Request : i \in paid[q]
  /\ \A q \in Request : paid[q] \subseteq Mine(request[q].by)
  /\ \A p, q \in Request : p # q => paid[p] \cap paid[q] = {}

\* A referee who reaches the threshold for good earns the reward, though the
\* hook of the deposit was lost, failed or was never reached.
QualifiedIsRewarded ==
  \A r \in Referee : <>[](Qualifies(r) /\ r \notin closed) => <>Rewarded(r)

\* Every tap ends: in the credit, refused, or rolled back.
TapEnds == \A q \in Request : [](request[q].pc # "free" => <>(request[q].pc \in {"done", "refused"}))

\* The programme keeps the promise ReferralLedger states.
Ledger == INSTANCE ReferralLedger WITH
  earned  <- {earnings[i].referee : i \in Row},
  moved   <- {earnings[i].referee : i \in {j \in Row : earnings[j].withdrawal_status}},
  credits <- {[user |-> request[q].by, rewards |-> {earnings[i].referee : i \in paid[q]}] :
                q \in {p \in Request : paid[p] # {}}}

ImplementsLedger == Ledger!Spec
=============================================================================
