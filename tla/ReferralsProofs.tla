-------------------------- MODULE ReferralsProofs ---------------------------
(***************************************************************************)
(* Proofs about Referrals, for any numbers of referees, evaluations and    *)
(* taps.                                                                   *)
(***************************************************************************)
EXTENDS Referrals, TLAPS

LEMMA InitType == Init => TypeOK
BY ConstantsAssumption DEF Init, TypeOK, Account, Idle, Evaluation, Withdrawal

LEMMA AccountUpdates ==
  ASSUME NEW a \in Account
  PROVE  /\ [a EXCEPT !.processing = @ + 1] \in Account
         /\ a.processing > 0 => [[a EXCEPT !.processing = @ - 1] EXCEPT !.success = @ + 1] \in Account
         /\ a.success > 0 => [[a EXCEPT !.success = @ - 1] EXCEPT !.pending = @ + 1] \in Account
<1>1. /\ a.processing \in Nat /\ a.pending \in Nat /\ a.success \in Nat
      /\ DOMAIN a = {"processing", "pending", "success"}
  BY DEF Account
<1>2. \A n \in Nat : [a EXCEPT !.processing = n] \in Account
  BY DEF Account
<1>3. a.processing + 1 \in Nat /\ a.pending + 1 \in Nat /\ a.success + 1 \in Nat
  BY <1>1
<1>4. \A m, n \in Nat : [[a EXCEPT !.processing = m] EXCEPT !.success = n] \in Account
  BY DEF Account
<1>5. \A m, n \in Nat : [[a EXCEPT !.success = m] EXCEPT !.pending = n] \in Account
  BY DEF Account
<1>6. a.processing > 0 => [[a EXCEPT !.processing = @ - 1] EXCEPT !.success = @ + 1] \in Account
  <2>1. a.processing > 0 => a.processing - 1 \in Nat
    BY <1>1
  <2>2. [a EXCEPT !.processing = @ - 1].success = a.success
    BY <1>1
  <2>. QED  BY <1>3, <1>4, <2>1, <2>2
<1>7. a.success > 0 => [[a EXCEPT !.success = @ - 1] EXCEPT !.pending = @ + 1] \in Account
  <2>1. a.success > 0 => a.success - 1 \in Nat
    BY <1>1
  <2>2. [a EXCEPT !.success = @ - 1].pending = a.pending
    BY <1>1
  <2>. QED  BY <1>3, <1>5, <2>1, <2>2
<1>. QED  BY <1>2, <1>3, <1>6, <1>7

\* The rows of the table are rewards, and stay rewards when one is withdrawn.
LEMMA EarningRows ==
  ASSUME TypeOK
  PROVE  /\ Len(earnings) \in Nat
         /\ \A i \in Row : i \in Nat /\ earnings[i] \in Earning
                         /\ [earnings[i] EXCEPT !.withdrawal_status = TRUE] \in Earning
<1>1. earnings \in Seq(Earning)
  BY DEF TypeOK
<1>2. Len(earnings) \in Nat /\ \A i \in 1 .. Len(earnings) : earnings[i] \in Earning
  BY <1>1
<1>3. \A e \in Earning : [e EXCEPT !.withdrawal_status = TRUE] \in Earning
  BY DEF Earning
<1>. QED  BY <1>2, <1>3 DEF Row

LEMMA DepositType ==
  ASSUME TypeOK, NEW r \in Referee, (\E w \in Worker : Confirm(w, r)) \/ Detect(r) \/ Downgrade(r)
  PROVE  TypeOK'
<1> USE DEF TypeOK, money
<1>0. deposits[r] \in Account
  OBVIOUS
<1>1. CASE Detect(r)
  <2>1. deposits' = [deposits EXCEPT ![r] = [deposits[r] EXCEPT !.processing = @ + 1]]
    BY <1>1 DEF Detect
  <2>2. deposits' \in [Referee -> Account]
    BY <1>0, <2>1, AccountUpdates
  <2>. QED  BY <1>1, <2>2 DEF Detect
<1>2. ASSUME NEW w \in Worker, Confirm(w, r)
      PROVE  TypeOK'
  <2>1. [pc |-> "hook", of |-> r] \in Evaluation
    BY DEF Evaluation
  <2> DEFINE new == [[deposits[r] EXCEPT !.processing = @ - 1] EXCEPT !.success = @ + 1]
  <2>2. deposits' = [deposits EXCEPT ![r] = new] /\ deposits[r].processing > 0
    BY <1>0, <1>2 DEF Confirm, Account
  <2>3. new \in Account
    BY <1>0, <2>2, AccountUpdates
  <2> HIDE DEF new
  <2>4. deposits' \in [Referee -> Account]
    BY <2>2, <2>3
  <2>. QED  BY <1>2, <2>1, <2>4 DEF Confirm
<1>3. CASE Downgrade(r)
  <2> DEFINE new == [[deposits[r] EXCEPT !.success = @ - 1] EXCEPT !.pending = @ + 1]
  <2>1. deposits' = [deposits EXCEPT ![r] = new] /\ deposits[r].success > 0
    BY <1>0, <1>3 DEF Downgrade, Account
  <2>2. new \in Account
    BY <1>0, <2>1, AccountUpdates
  <2> HIDE DEF new
  <2>3. deposits' \in [Referee -> Account]
    BY <2>1, <2>2
  <2>. QED  BY <1>3, <2>3 DEF Downgrade
<1>. QED  BY <1>1, <1>2, <1>3

LEMMA EvaluationType ==
  ASSUME TypeOK, NEW w \in Worker, Look(w) \/ Sum(w) \/ Award(w) \/ EvaluationFails(w)
  PROVE  TypeOK'
<1> USE DEF TypeOK, money, evaluationUnchanged
<1>0. /\ Idle \in Evaluation /\ Idle.pc = "idle"
      /\ worker[w] \in Evaluation
      /\ [worker[w] EXCEPT !.pc = "sum"] \in Evaluation
      /\ [worker[w] EXCEPT !.pc = "insert"] \in Evaluation
      /\ [worker[w] EXCEPT !.pc = "sum"].of = worker[w].of
      /\ [worker[w] EXCEPT !.pc = "insert"].of = worker[w].of
  BY DEF Idle, Evaluation
<1>1. CASE Look(w)
  BY <1>0, <1>1 DEF Look
<1>2. CASE Sum(w)
  BY <1>0, <1>2 DEF Sum
<1>3. CASE Award(w)
  <2> DEFINE row == [referee |-> worker[w].of, amount |-> figure, withdrawal_status |-> FALSE]
  <2>1. row \in Earning
    BY <1>3 DEF Award, Earning
  <2>2. Append(earnings, row) \in Seq(Earning)
    BY <2>1
  <2>. QED  BY <1>0, <1>3, <2>2 DEF Award
<1>4. CASE EvaluationFails(w)
  BY <1>0, <1>4, ConstantsAssumption DEF EvaluationFails
<1>. QED  BY <1>1, <1>2, <1>3, <1>4

LEMMA NightlyType ==
  ASSUME TypeOK, NightlyScan \/ \E r \in Referee : NightlyNext(r)
  PROVE  TypeOK'
<1> USE DEF TypeOK, money
<1>1. CASE NightlyScan
  BY <1>1 DEF NightlyScan, Candidates
<1>2. ASSUME NEW r \in Referee, NightlyNext(r)
      PROVE  TypeOK'
  <2>1. [pc |-> "hook", of |-> r] \in Evaluation
    BY DEF Evaluation
  <2>. QED  BY <1>2, <2>1 DEF NightlyNext
<1>. QED  BY <1>1, <1>2

\* What ends a tap is a tap's record, with nothing locked.
LEMMA EndedType ==
  ASSUME TypeOK, NEW q \in Request, NEW pc \in {"done", "refused"}
  PROVE  Ended(pc, q) \in Withdrawal
BY DEF TypeOK, Ended, Withdrawal

WithdrawalStep(q) ==
  \/ Tap(q)
  \/ \E i \in request[q].want : LockRow(q, i)
  \/ Selected(q)
  \/ Commit(q)
  \/ WithdrawalFails(q)
  \/ Deadlocked(q)

LEMMA WithdrawalType ==
  ASSUME TypeOK, NEW q \in Request, WithdrawalStep(q)
  PROVE  TypeOK'
<1> USE DEF TypeOK, withdrawalUnchanged
<1>0. request[q] \in Withdrawal /\ Ended("done", q) \in Withdrawal /\ Ended("refused", q) \in Withdrawal
  BY EndedType
<1>1. CASE Tap(q)
  <2>1. {i \in Mine(request[q].by) : ~earnings[i].withdrawal_status} \in SUBSET Nat
    BY DEF Mine, Row
  <2> DEFINE rec == [[request[q] EXCEPT !.pc = "locking"] EXCEPT
                      !.want = {i \in Mine(request[q].by) : ~earnings[i].withdrawal_status}]
  <2>2. rec \in Withdrawal
    BY <1>0, <2>1 DEF Withdrawal
  <2>3. request' = [request EXCEPT ![q] = rec]
    BY <1>0, <1>1 DEF Tap, Withdrawal
  <2> HIDE DEF rec
  <2>. QED  BY <1>0, <1>1, <2>2, <2>3 DEF Tap
<1>2. ASSUME NEW i \in request[q].want, LockRow(q, i)
      PROVE  TypeOK'
  <2>1. i \in Nat
    BY <1>0 DEF Withdrawal
  <2> DEFINE rec == [request[q] EXCEPT !.want = @ \ {i}, !.locked = @ \cup {i}, !.pending = @ \cup Read(i)]
  <2>2. Read(i) \in SUBSET Nat
    BY <2>1 DEF Read
  <2>3. rec \in Withdrawal
    BY <1>0, <2>1, <2>2 DEF Withdrawal
  <2>4. request' = [request EXCEPT ![q] = rec]
    BY <1>2 DEF LockRow
  <2>5. request' \in [Request -> Withdrawal]
    <3> HIDE DEF rec
    <3>. QED  BY <2>3, <2>4
  <2>. QED  BY <1>2, <2>5 DEF LockRow
<1>3. CASE Selected(q)
  <2>1. [request[q] EXCEPT !.pc = "writing"] \in Withdrawal
    BY <1>0 DEF Withdrawal
  <2>. QED  BY <1>0, <1>3, <2>1 DEF Selected
<1>4. CASE Commit(q)
  <2>2. earnings' \in [1 .. Len(earnings) -> Earning] /\ Len(earnings) \in Nat
    BY <1>4, EarningRows DEF Commit, Row
  <2>3. earnings' \in Seq(Earning)
    BY <2>2
  <2>4. request[q].pending \in SUBSET Nat
    BY <1>0 DEF Withdrawal
  <2>. QED  BY <1>0, <1>4, <2>3, <2>4 DEF Commit
<1>5. CASE WithdrawalFails(q)
  BY <1>0, <1>5, ConstantsAssumption DEF WithdrawalFails, AbortWithdrawal
<1>6. CASE Deadlocked(q)
  BY <1>0, <1>6 DEF Deadlocked, AbortWithdrawal
<1>. QED  BY <1>1, <1>2, <1>3, <1>4, <1>5, <1>6 DEF WithdrawalStep

LEMMA RestartType == TypeOK /\ Restart => TypeOK'
<1> SUFFICES ASSUME TypeOK, Restart PROVE TypeOK'
  OBVIOUS
<1> USE DEF TypeOK
<1>1. Idle \in Evaluation /\ Idle.pc = "idle"
  BY DEF Idle, Evaluation
<1>2. \A q \in Request : Ended("refused", q) \in Withdrawal
  BY EndedType
<1>. QED  BY <1>1, <1>2, ConstantsAssumption DEF Restart

\* The actions in the groups the lemmas treat.
LEMMA Steps ==
  ASSUME Next
  PROVE  \/ \E r \in Referee : (\E w \in Worker : Confirm(w, r)) \/ Detect(r) \/ Downgrade(r)
         \/ \E r \in Referee : Close(r)
         \/ \E w \in Worker : Look(w) \/ Sum(w) \/ Award(w) \/ EvaluationFails(w)
         \/ NightlyScan \/ \E r \in Referee : NightlyNext(r)
         \/ \E q \in Request : WithdrawalStep(q)
         \/ Restart
BY DEF Next, WithdrawalStep

LEMMA StepType == TypeOK /\ [Next]_vars => TypeOK'
<1> SUFFICES ASSUME TypeOK, [Next]_vars PROVE TypeOK'
  OBVIOUS
<1>1. CASE UNCHANGED vars
  BY <1>1 DEF vars, TypeOK
<1>2. ASSUME NEW r \in Referee, Close(r)
      PROVE  TypeOK'
  BY <1>2 DEF Close, TypeOK, money
<1>. QED  BY <1>1, <1>2, DepositType, EvaluationType, NightlyType, WithdrawalType, RestartType, Steps

\* Every variable keeps its type.
THEOREM TypeCorrect == Spec => []TypeOK
BY InitType, StepType, PTL DEF Spec

-----------------------------------------------------------------------------
(* Qualification *)

\* Whoever has enough deposits now has reached the threshold, and so has
\* whoever an evaluation found to have enough.
Reached ==
  /\ \A r \in Referee : Qualifies(r) => r \in reached
  /\ \A w \in Worker : worker[w].pc = "insert" => worker[w].of \in reached

\* What a step does to the table: nothing, one more reward for a referee who
\* has none and has reached the threshold, or rewards marked as withdrawn.
Inserted(r) ==
  earnings' = Append(earnings, [referee |-> r, amount |-> figure, withdrawal_status |-> FALSE])

Same == UNCHANGED earnings

Marked(S) ==
  earnings' = [i \in Row |-> IF i \in S THEN [earnings[i] EXCEPT !.withdrawal_status = TRUE] ELSE earnings[i]]

LEMMA ReachedInit == ASSUME Init PROVE Reached
BY ConstantsAssumption DEF Init, Reached, Qualifies, LifetimeDeposits, Idle

LEMMA ReachedStep ==
  ASSUME TypeOK, Reached, [Next]_vars
  PROVE  Reached'
<1> USE DEF Reached, Qualifies, LifetimeDeposits
<1>0. \A r \in Referee : deposits[r] \in Account
  BY DEF TypeOK
<1>1. CASE UNCHANGED vars
  BY <1>1 DEF vars
<1>2. ASSUME NEW r \in Referee, Detect(r)
      PROVE  Reached'
  <2>1. \A s \in Referee : deposits'[s].success = deposits[s].success
    BY <1>0, <1>2 DEF Detect, TypeOK, Account
  <2>. QED  BY <1>2, <2>1 DEF Detect
<1>3. ASSUME NEW r \in Referee, NEW w \in Worker, Confirm(w, r)
      PROVE  Reached'
  <2>1. \A s \in Referee : deposits'[s].success = IF s = r THEN deposits[s].success + 1 ELSE deposits[s].success
    BY <1>0, <1>3 DEF Confirm, TypeOK, Account
  <2>2. reached \subseteq reached' /\ (deposits'[r].success >= Threshold => r \in reached')
    BY <1>3, <2>1 DEF Confirm
  <2>3. \A v \in Worker : worker'[v].pc = "insert" => v # w /\ worker'[v] = worker[v]
    BY <1>3 DEF Confirm, TypeOK
  <2>. QED  BY <2>1, <2>2, <2>3
<1>4. ASSUME NEW r \in Referee, Downgrade(r)
      PROVE  Reached'
  <2>1. \A s \in Referee : deposits'[s].success <= deposits[s].success
    BY <1>0, <1>4 DEF Downgrade, TypeOK, Account
  <2>2. \A s \in Referee : deposits[s].success \in Nat /\ deposits'[s].success \in Int
    BY <1>0, <1>4 DEF Downgrade, TypeOK, Account
  <2>3. Threshold \in Nat
    BY ConstantsAssumption
  <2>4. \A s \in Referee : deposits'[s].success >= Threshold => deposits[s].success >= Threshold
    BY <2>1, <2>2, <2>3
  <2>5. UNCHANGED <<worker, reached>>
    BY <1>4 DEF Downgrade
  <2>. QED  BY <2>4, <2>5
<1>5. ASSUME NEW w \in Worker, Look(w) \/ Award(w) \/ EvaluationFails(w)
      PROVE  Reached'
  <2>0. worker[w] \in Evaluation
    BY DEF TypeOK
  <2>1. \A v \in Worker : worker'[v].pc = "insert" => worker'[v] = worker[v]
    <3>1. CASE Look(w)
      BY <2>0, <3>1 DEF Look, TypeOK, Idle, Evaluation
    <3>2. CASE Award(w)
      BY <3>2 DEF Award, TypeOK, Idle
    <3>3. CASE EvaluationFails(w)
      BY <3>3 DEF EvaluationFails, TypeOK, Idle
    <3>. QED  BY <1>5, <3>1, <3>2, <3>3
  <2>2. UNCHANGED <<deposits, reached>>
    BY <1>5 DEF Look, Award, EvaluationFails, evaluationUnchanged
  <2>. QED  BY <2>1, <2>2
<1>6. ASSUME NEW w \in Worker, Sum(w)
      PROVE  Reached'
  <2>1. UNCHANGED <<deposits, reached>> /\ worker[w].of \in Referee
    BY <1>6 DEF Sum, evaluationUnchanged, TypeOK
  <2>2. \A v \in Worker \ {w} : worker'[v] = worker[v]
    BY <1>6 DEF Sum, TypeOK
  <2>3. worker'[w].pc = "insert" => worker'[w].of = worker[w].of /\ Qualifies(worker[w].of)
    <3>1. worker[w] \in Evaluation
      BY DEF TypeOK
    <3>2. CASE Qualifies(worker[w].of)
      BY <1>6, <3>1, <3>2 DEF Sum, TypeOK, Evaluation
    <3>3. CASE ~Qualifies(worker[w].of)
      BY <1>6, <3>3 DEF Sum, TypeOK, Idle
    <3>. QED  BY <3>2, <3>3
  <2>. QED  BY <2>1, <2>2, <2>3
<1>7. CASE NightlyScan \/ \E r \in Referee : Close(r)
  BY <1>7 DEF NightlyScan, Close
<1>8. ASSUME NEW r \in Referee, NightlyNext(r)
      PROVE  Reached'
  BY <1>8 DEF NightlyNext, TypeOK
<1>9. ASSUME NEW q \in Request, WithdrawalStep(q)
      PROVE  Reached'
  BY <1>9 DEF WithdrawalStep, Tap, LockRow, Selected, Commit, WithdrawalFails, Deadlocked, withdrawalUnchanged
<1>10. CASE Restart
  BY <1>10 DEF Restart, Idle
<1>. QED
  BY <1>1, <1>2, <1>3, <1>4, <1>5, <1>6, <1>7, <1>8, <1>9, <1>10, Steps

-----------------------------------------------------------------------------
(* The table, the locks and the credits *)

\* What a tap holds: rows of its user, locked against every other tap, and
\* among them rows not withdrawn yet; nothing outside the transaction; and a
\* credit only once it has committed.
Holding ==
  /\ \A q \in Request :
       /\ request[q].want \subseteq Mine(request[q].by)
       /\ request[q].pending \subseteq request[q].locked \cap Mine(request[q].by)
       /\ \A i \in request[q].pending : ~earnings[i].withdrawal_status
       /\ request[q].pc \notin {"locking", "writing"} => request[q].pending = {}
       /\ request[q].pc = "writing" => request[q].pending # {}
       /\ request[q].pc # "done" => paid[q] = {}
  /\ \A p, q \in Request : p # q => request[p].locked \cap request[q].locked = {}

Safe == RewardOnce /\ RewardOnlyIfReached /\ Holding /\ EarningsConserved

LEMMA SafeInit == ASSUME Init PROVE Safe
<1>1. Row = {} /\ \A u \in User : Mine(u) = {}
  BY DEF Init, Row, Mine
<1>2. \A q \in Request : /\ request[q].want = {} /\ request[q].pending = {} /\ request[q].locked = {}
                         /\ request[q].pc = "free" /\ request[q].by \in User /\ paid[q] = {}
  BY DEF Init
<1>. QED  BY <1>1, <1>2 DEF Safe, RewardOnce, RewardOnlyIfReached, Holding, EarningsConserved

\* A step that leaves the table, the taps and the credits alone.
LEMMA SafeIdle ==
  ASSUME Safe, UNCHANGED money, reached \subseteq reached'
  PROVE  Safe'
BY DEF Safe, money, RewardOnce, RewardOnlyIfReached, Holding, EarningsConserved, Row, Mine

\* After the award of a reward, the old rows are as they were.
LEMMA Appended ==
  ASSUME TypeOK, NEW r \in Referee, Inserted(r)
  PROVE  /\ Row' = Row \cup {Len(earnings) + 1} /\ Len(earnings) + 1 \notin Row
         /\ \A i \in Row : earnings'[i] = earnings[i]
         /\ earnings'[Len(earnings) + 1].referee = r
         /\ earnings'[Len(earnings) + 1].withdrawal_status = FALSE
<1> DEFINE row == [referee |-> r, amount |-> figure, withdrawal_status |-> FALSE]
<1>1. earnings \in Seq(Earning) /\ Len(earnings) \in Nat
  BY DEF TypeOK
<1>2. row \in Earning /\ row.referee = r /\ row.withdrawal_status = FALSE
  BY DEF TypeOK, Earning
<1>3. earnings' = Append(earnings, row)
  BY DEF Inserted
<1> HIDE DEF row
<1>4. /\ Len(earnings') = Len(earnings) + 1
      /\ \A i \in 1 .. Len(earnings) : earnings'[i] = earnings[i]
      /\ earnings'[Len(earnings) + 1] = row
  BY <1>1, <1>2, <1>3
<1>5. 1 .. (Len(earnings) + 1) = (1 .. Len(earnings)) \cup {Len(earnings) + 1}
  BY <1>1
<1>6. Len(earnings) + 1 \notin 1 .. Len(earnings)
  BY <1>1
<1>. QED  BY <1>2, <1>4, <1>5, <1>6 DEF Row

LEMMA SafeInserted ==
  ASSUME TypeOK, Safe, NEW r \in Referee, Inserted(r), ~Rewarded(r), r \in reached,
         UNCHANGED <<request, paid, reached>>
  PROVE  Safe'
<1> DEFINE n == Len(earnings) + 1
<1>1. /\ Row' = Row \cup {n} /\ n \notin Row
      /\ \A i \in Row : earnings'[i] = earnings[i]
      /\ earnings'[n].referee = r /\ earnings'[n].withdrawal_status = FALSE
  BY Appended
<1> HIDE DEF n
<1>2. \A u : Mine(u) \subseteq Mine(u)' /\ Mine(u) \subseteq Row
  BY <1>1 DEF Mine
<1>3. RewardOnce'
  BY <1>1 DEF Safe, RewardOnce, Rewarded
<1>4. RewardOnlyIfReached'
  BY <1>1 DEF Safe, RewardOnlyIfReached
<1>5. Holding'
  <2>1. \A q \in Request : request[q].pending \subseteq Row
    BY <1>2 DEF Safe, Holding
  <2>. QED  BY <1>1, <1>2, <2>1 DEF Safe, Holding
<1>6. EarningsConserved'
  <2>1. \A q \in Request : n \notin paid[q]
    BY <1>1, <1>2 DEF Safe, EarningsConserved
  <2>. QED  BY <1>1, <1>2, <2>1 DEF Safe, EarningsConserved
<1>. QED  BY <1>3, <1>4, <1>5, <1>6 DEF Safe

\* After a commit the rows are those there were, with other flags.
LEMMA Flagged ==
  ASSUME TypeOK, NEW S, Marked(S)
  PROVE  /\ Row' = Row
         /\ \A i \in Row : /\ earnings'[i].referee = earnings[i].referee
                           /\ earnings'[i].withdrawal_status = (i \in S \/ earnings[i].withdrawal_status)
         /\ \A u : Mine(u)' = Mine(u)
<1>1. /\ Len(earnings) \in Nat
      /\ \A i \in Row : i \in Nat /\ earnings[i] \in Earning
                        /\ [earnings[i] EXCEPT !.withdrawal_status = TRUE] \in Earning
  BY EarningRows
<1>2. earnings' \in Seq(Earning) /\ Len(earnings') = Len(earnings)
  <2>1. earnings' \in [1 .. Len(earnings) -> Earning]
    BY <1>1 DEF Marked, Row
  <2>. QED  BY <1>1, <2>1
<1>3. Row' = Row
  BY <1>2 DEF Row
<1>4. \A i \in Row : earnings'[i] = IF i \in S THEN [earnings[i] EXCEPT !.withdrawal_status = TRUE] ELSE earnings[i]
  BY DEF Marked
<1>5. \A i \in Row : /\ earnings'[i].referee = earnings[i].referee
                     /\ earnings'[i].withdrawal_status = (i \in S \/ earnings[i].withdrawal_status)
  BY <1>1, <1>4 DEF Earning
<1>. QED  BY <1>3, <1>5 DEF Mine

\* A tap that moves within its transaction.
LEMMA SafeRequest ==
  ASSUME TypeOK, Safe, NEW q \in Request, NEW rec,
         request' = [request EXCEPT ![q] = rec], UNCHANGED <<earnings, paid, reached>>,
         rec.by = request[q].by, request[q].pc # "done",
         rec.want \subseteq Mine(rec.by),
         rec.pending \subseteq rec.locked \cap Mine(rec.by),
         \A i \in rec.pending : ~earnings[i].withdrawal_status,
         rec.pc \notin {"locking", "writing"} => rec.pending = {},
         rec.pc = "writing" => rec.pending # {},
         \A p \in Request \ {q} : request[p].locked \cap rec.locked = {}
  PROVE  Safe'
<1>1. request'[q] = rec /\ \A p \in Request \ {q} : request'[p] = request[p]
  BY DEF TypeOK
<1>2. \A p \in Request : request'[p].by = request[p].by
  BY <1>1
<1>3. Row' = Row /\ \A u : Mine(u)' = Mine(u)
  BY DEF Row, Mine
<1>4. RewardOnce' /\ RewardOnlyIfReached'
  BY <1>3 DEF Safe, RewardOnce, RewardOnlyIfReached
<1>5. EarningsConserved'
  BY <1>2, <1>3 DEF Safe, EarningsConserved
<1>6. paid[q] = {}
  BY DEF Safe, Holding
<1>7. Holding'
  BY <1>1, <1>3, <1>6 DEF Safe, Holding
<1>. QED  BY <1>4, <1>5, <1>7 DEF Safe

\* A tap that ends without a credit.
LEMMA SafeEnded ==
  ASSUME TypeOK, Safe, NEW q \in Request, request' = [request EXCEPT ![q] = Ended("refused", q)],
         request[q].pc # "done", UNCHANGED <<earnings, paid, reached>>
  PROVE  Safe'
<1> DEFINE rec == Ended("refused", q)
<1>1. request[q] \in Withdrawal
  BY DEF TypeOK
<1>2. /\ rec.by = request[q].by /\ rec.pc = "refused"
      /\ rec.want = {} /\ rec.pending = {} /\ rec.locked = {}
  BY <1>1 DEF Ended, Withdrawal
<1>3. request' = [request EXCEPT ![q] = rec]
  OBVIOUS
<1> HIDE DEF rec
<1>. QED  BY <1>2, <1>3, SafeRequest

LEMMA SafeCommit ==
  ASSUME TypeOK, Safe, NEW q \in Request, Commit(q)
  PROVE  Safe'
<1> DEFINE S == request[q].pending
<1>1. /\ request[q] \in Withdrawal /\ request[q].pc = "writing" /\ Marked(S)
      /\ paid' = [paid EXCEPT ![q] = S]
      /\ request' = [request EXCEPT ![q] = Ended("done", q)] /\ UNCHANGED reached
  BY DEF Commit, Marked, Flipped, withdrawalUnchanged, TypeOK
<1>2. /\ Row' = Row
      /\ \A i \in Row : /\ earnings'[i].referee = earnings[i].referee
                        /\ earnings'[i].withdrawal_status = (i \in S \/ earnings[i].withdrawal_status)
      /\ \A u : Mine(u)' = Mine(u) /\ Mine(u) \subseteq Row
  BY <1>1, Flagged DEF Mine
<1>3. /\ S # {} /\ S \subseteq Mine(request[q].by) /\ paid[q] = {}
      /\ \A i \in S : ~earnings[i].withdrawal_status
      /\ \A p \in Request \ {q} : S \cap request[p].pending = {}
  BY <1>1 DEF Safe, Holding
<1>4. /\ Ended("done", q).pc = "done" /\ Ended("done", q).by = request[q].by
      /\ Ended("done", q).want = {} /\ Ended("done", q).pending = {} /\ Ended("done", q).locked = {}
  BY <1>1 DEF Ended, Withdrawal
<1>5. /\ request'[q] = Ended("done", q) /\ paid'[q] = S
      /\ \A p \in Request \ {q} : request'[p] = request[p] /\ paid'[p] = paid[p]
  BY <1>1 DEF TypeOK
<1>6. \A p \in Request : request'[p].by = request[p].by
  BY <1>4, <1>5
<1> HIDE DEF S
<1>7. RewardOnce' /\ RewardOnlyIfReached'
  BY <1>1, <1>2 DEF Safe, RewardOnce, RewardOnlyIfReached
<1>8. Holding'
  <2>1. \A p \in Request \ {q} : \A i \in request[p].pending : i \in Row /\ i \notin S
    BY <1>2, <1>3 DEF Safe, Holding
  <2>2. \A p \in Request \ {q} : \A i \in request[p].pending : ~earnings'[i].withdrawal_status
    BY <1>2, <2>1 DEF Safe, Holding
  <2>3. \A p \in Request : \A i \in request'[p].pending : ~earnings'[i].withdrawal_status
    BY <1>4, <1>5, <2>2
  <2>. QED  BY <1>2, <1>4, <1>5, <2>3 DEF Safe, Holding
<1>9. EarningsConserved'
  <2>1. \A i \in S : i \in Row /\ \A p \in Request : i \notin paid[p]
    BY <1>2, <1>3 DEF Safe, EarningsConserved
  <2>2. \A i \in Row : earnings'[i].withdrawal_status <=> \E p \in Request : i \in paid'[p]
    <3> SUFFICES ASSUME NEW i \in Row
                 PROVE  earnings'[i].withdrawal_status <=> \E p \in Request : i \in paid'[p]
      OBVIOUS
    <3>1. CASE i \in S
      BY <1>2, <1>5, <3>1
    <3>2. CASE i \notin S
      <4>1. earnings'[i].withdrawal_status <=> earnings[i].withdrawal_status
        BY <1>2, <3>2
      <4>2. \A p \in Request : i \in paid'[p] <=> i \in paid[p]
        BY <1>3, <1>5, <3>2
      <4>. QED  BY <4>1, <4>2 DEF Safe, EarningsConserved
    <3>. QED  BY <3>1, <3>2
  <2>3. \A p \in Request : (paid[p] \subseteq Mine(request[p].by))'
    BY <1>2, <1>3, <1>5, <1>6 DEF Safe, EarningsConserved
  <2>4. \A p, r \in Request : p # r => paid'[p] \cap paid'[r] = {}
    BY <1>5, <2>1 DEF Safe, EarningsConserved
  <2>. QED  BY <1>2, <2>2, <2>3, <2>4 DEF EarningsConserved
<1>. QED  BY <1>7, <1>8, <1>9 DEF Safe

LEMMA SafeWithdrawal ==
  ASSUME TypeOK, Safe, NEW q \in Request, WithdrawalStep(q)
  PROVE  Safe'
<1>0. request[q] \in Withdrawal
  BY DEF TypeOK
<1>1. CASE Tap(q)
  <2> DEFINE rec == [[request[q] EXCEPT !.pc = "locking"] EXCEPT
                      !.want = {i \in Mine(request[q].by) : ~earnings[i].withdrawal_status}]
  <2>1. request' = [request EXCEPT ![q] = rec] /\ UNCHANGED <<earnings, paid, reached>> /\ request[q].pc = "free"
    BY <1>0, <1>1 DEF Tap, Withdrawal, withdrawalUnchanged
  <2>2. /\ rec.by = request[q].by /\ rec.pc = "locking" /\ rec.want \subseteq Mine(rec.by)
        /\ rec.pending = request[q].pending /\ rec.locked = request[q].locked
    BY <1>0 DEF Withdrawal
  <2> HIDE DEF rec
  <2>3. /\ rec.pending \subseteq rec.locked \cap Mine(rec.by)
        /\ \A i \in rec.pending : ~earnings[i].withdrawal_status
        /\ \A p \in Request \ {q} : request[p].locked \cap rec.locked = {}
    BY <2>2 DEF Safe, Holding
  <2>. QED  BY <2>1, <2>2, <2>3, SafeRequest
<1>2. ASSUME NEW i \in request[q].want, LockRow(q, i)
      PROVE  Safe'
  <2> DEFINE rec == [request[q] EXCEPT !.want = @ \ {i}, !.locked = @ \cup {i}, !.pending = @ \cup Read(i)]
  <2>1. request' = [request EXCEPT ![q] = rec] /\ UNCHANGED <<earnings, paid, reached>> /\ request[q].pc = "locking"
    BY <1>2 DEF LockRow, withdrawalUnchanged
  <2>2. /\ rec.by = request[q].by /\ rec.pc = "locking" /\ rec.want = request[q].want \ {i}
        /\ rec.pending = request[q].pending \cup Read(i) /\ rec.locked = request[q].locked \cup {i}
    BY <1>0, <2>1 DEF Withdrawal
  <2> HIDE DEF rec
  <2>3. i \in Mine(request[q].by) /\ Read(i) \subseteq {i} /\ \A j \in Read(i) : ~earnings[j].withdrawal_status
    BY DEF Safe, Holding, Read
  <2>4. \A p \in Request \ {q} : i \notin request[p].locked
    BY <1>2 DEF LockRow, Locked
  <2>5. rec.want \subseteq Mine(rec.by) /\ rec.pending \subseteq rec.locked \cap Mine(rec.by)
    BY <2>2, <2>3 DEF Safe, Holding
  <2>6. /\ \A j \in rec.pending : ~earnings[j].withdrawal_status
        /\ \A p \in Request \ {q} : request[p].locked \cap rec.locked = {}
    BY <2>2, <2>3, <2>4 DEF Safe, Holding
  <2>. QED  BY <2>1, <2>2, <2>5, <2>6, SafeRequest
<1>3. CASE Selected(q)
  <2>1. request[q].pc = "locking" /\ UNCHANGED <<earnings, paid, reached>>
    BY <1>3 DEF Selected, withdrawalUnchanged
  <2>2. CASE request[q].pending = {}
    <3>1. request' = [request EXCEPT ![q] = Ended("refused", q)]
      BY <1>3, <2>2 DEF Selected
    <3>. QED  BY <2>1, <3>1, SafeEnded
  <2>3. CASE request[q].pending # {}
    <3> DEFINE rec == [request[q] EXCEPT !.pc = "writing"]
    <3>1. request' = [request EXCEPT ![q] = rec]
      BY <1>3, <2>3 DEF Selected
    <3>2. /\ rec.by = request[q].by /\ rec.pc = "writing" /\ rec.want = request[q].want
          /\ rec.pending = request[q].pending /\ rec.locked = request[q].locked
      BY <1>0 DEF Withdrawal
    <3> HIDE DEF rec
    <3>3. /\ rec.want \subseteq Mine(rec.by) /\ rec.pending \subseteq rec.locked \cap Mine(rec.by)
          /\ \A i \in rec.pending : ~earnings[i].withdrawal_status
          /\ \A p \in Request \ {q} : request[p].locked \cap rec.locked = {}
      BY <3>2 DEF Safe, Holding
    <3>. QED  BY <2>1, <2>3, <3>1, <3>2, <3>3, SafeRequest
  <2>. QED  BY <2>2, <2>3
<1>4. CASE Commit(q)
  BY <1>4, SafeCommit
<1>5. CASE WithdrawalFails(q)
  BY <1>5, SafeEnded DEF WithdrawalFails, AbortWithdrawal, withdrawalUnchanged
<1>6. CASE Deadlocked(q)
  BY <1>6, SafeEnded DEF Deadlocked, WaitsFor, AbortWithdrawal, withdrawalUnchanged
<1>. QED  BY <1>1, <1>2, <1>3, <1>4, <1>5, <1>6 DEF WithdrawalStep

LEMMA SafeRestart ==
  ASSUME TypeOK, Safe, Restart
  PROVE  Safe'
<1>1. \A q \in Request : request'[q] = IF request[q].pc \in {"locking", "writing"} THEN Ended("refused", q) ELSE request[q]
  BY DEF Restart
<1>2. UNCHANGED <<earnings, paid, reached>>
  BY DEF Restart
<1>3. \A q \in Request : /\ Ended("refused", q).by = request[q].by /\ Ended("refused", q).pc = "refused"
                         /\ Ended("refused", q).want = {} /\ Ended("refused", q).pending = {}
                         /\ Ended("refused", q).locked = {}
  BY DEF TypeOK, Ended, Withdrawal
<1>4. \A q \in Request : /\ request'[q].by = request[q].by
                         /\ request'[q].want \subseteq request[q].want
                         /\ request'[q].locked \subseteq request[q].locked
                         /\ request'[q].pending \subseteq request[q].pending
                         /\ request'[q].pc = "writing" => request'[q].pending # {}
                         /\ request'[q].pc \notin {"locking", "writing"} => request'[q].pending = {}
                         /\ request'[q].pc # "done" => request[q].pc # "done"
                         /\ request'[q].pending \subseteq request'[q].locked
  BY <1>1, <1>3 DEF Safe, Holding
<1>5. Row' = Row /\ \A u : Mine(u)' = Mine(u)
  BY <1>2 DEF Row, Mine
<1>6. RewardOnce' /\ RewardOnlyIfReached' /\ EarningsConserved'
  BY <1>2, <1>4, <1>5 DEF Safe, RewardOnce, RewardOnlyIfReached, EarningsConserved
<1>7. Holding'
  BY <1>2, <1>4, <1>5 DEF Safe, Holding
<1>. QED  BY <1>6, <1>7 DEF Safe

\* What an evaluation does to the table.
LEMMA Awarded ==
  ASSUME TypeOK, Reached, NEW w \in Worker, Award(w)
  PROVE  /\ UNCHANGED <<request, paid, reached>>
         /\ \/ UNCHANGED earnings
            \/ \E r \in Referee : Inserted(r) /\ ~Rewarded(r) /\ r \in reached
BY DEF TypeOK, Reached, Award, Violates, Inserted, evaluationUnchanged

LEMMA Untouched ==
  ASSUME Next, ~\E w \in Worker : Award(w), ~\E q \in Request : WithdrawalStep(q), ~Restart
  PROVE  UNCHANGED money /\ reached \subseteq reached'
<1>1. ASSUME NEW r \in Referee, (\E w \in Worker : Confirm(w, r)) \/ Detect(r) \/ Downgrade(r) \/ Close(r) \/ NightlyNext(r)
      PROVE  UNCHANGED money /\ reached \subseteq reached'
  BY <1>1 DEF Confirm, Detect, Downgrade, Close, NightlyNext, money
<1>2. ASSUME NEW w \in Worker, Look(w) \/ Sum(w) \/ EvaluationFails(w)
      PROVE  UNCHANGED money /\ reached \subseteq reached'
  BY <1>2 DEF Look, Sum, EvaluationFails, evaluationUnchanged, money
<1>3. CASE NightlyScan
  BY <1>3 DEF NightlyScan, money
<1>. QED  BY <1>1, <1>2, <1>3, Steps

IInv == TypeOK /\ Reached /\ Safe

LEMMA Inductive == IInv /\ [Next]_vars => IInv'
<1> SUFFICES ASSUME IInv, [Next]_vars PROVE IInv'
  OBVIOUS
<1> USE DEF IInv
<1>1. TypeOK' /\ Reached'
  BY StepType, ReachedStep
<1>2. UNCHANGED vars => Safe'
  <2>1. UNCHANGED vars => UNCHANGED money /\ reached \subseteq reached'
    BY DEF vars, money
  <2>. QED  BY <2>1, SafeIdle
<1>3. ASSUME NEW w \in Worker, Award(w)
      PROVE  Safe'
  <2>1. CASE UNCHANGED earnings
    <3>1. UNCHANGED money /\ reached \subseteq reached'
      BY <1>3, <2>1, Awarded DEF money
    <3>. QED  BY <3>1, SafeIdle
  <2>2. ASSUME NEW r \in Referee, Inserted(r), ~Rewarded(r), r \in reached
        PROVE  Safe'
    BY <1>3, <2>2, Awarded, SafeInserted
  <2>. QED  BY <1>3, <2>1, <2>2, Awarded
<1>4. ASSUME NEW q \in Request, WithdrawalStep(q)
      PROVE  Safe'
  BY <1>4, SafeWithdrawal
<1>5. Restart => Safe'
  BY SafeRestart
<1>6. Next => Safe'
  <2>1. UNCHANGED money /\ reached \subseteq reached' => Safe'
    BY SafeIdle
  <2>. QED  BY <1>3, <1>4, <1>5, <2>1, Untouched
<1>. QED  BY <1>1, <1>2, <1>6

LEMMA Invariant == Spec => []IInv
<1>1. Init => IInv
  BY InitType, ReachedInit, SafeInit DEF IInv
<1>. QED  BY <1>1, Inductive, PTL DEF Spec

\* One reward per referee, for any number of concurrent evaluations, and none
\* for a referee who never reached the threshold.
THEOREM RewardedWhenDue == Spec => []RewardsAreDue
<1>1. IInv => RewardsAreDue
  BY DEF IInv, Safe, RewardsAreDue
<1>. QED  BY <1>1, Invariant, PTL

\* Withdrawn rewards and main-balance credits agree, for any number of taps.
THEOREM Conservation == Spec => []EarningsConserved
<1>1. IInv => EarningsConserved
  BY DEF IInv, Safe
<1>. QED  BY <1>1, Invariant, PTL

-----------------------------------------------------------------------------
(* The refinement *)

\* The abstract state.
EarnedNow == {earnings[i].referee : i \in Row}
MovedNow  == {earnings[i].referee : i \in {j \in Row : earnings[j].withdrawal_status}}
Credited  == {[user |-> request[q].by, rewards |-> {earnings[i].referee : i \in paid[q]}] :
                q \in {p \in Request : paid[p] # {}}}

LEMMA LedgerInit == Init => Ledger!Init
<1> SUFFICES ASSUME Init PROVE Ledger!Init
  OBVIOUS
<1>1. Row = {}
  BY DEF Init, Row
<1>2. EarnedNow = {} /\ MovedNow = {}
  BY <1>1 DEF EarnedNow, MovedNow
<1>3. Credited = {}
  BY DEF Init, Credited
<1>. QED  BY <1>2, <1>3 DEF Ledger!Init, EarnedNow, MovedNow, Credited

\* A step that keeps the rows, the credits and whose taps they are.
LEMMA LedgerIdle ==
  ASSUME UNCHANGED <<earnings, paid>>, \A q \in Request : request'[q].by = request[q].by
  PROVE  UNCHANGED Ledger!ledger
<1>1. UNCHANGED <<EarnedNow, MovedNow>>
  BY DEF EarnedNow, MovedNow, Row
<1>2. UNCHANGED Credited
  BY DEF Credited
<1>. QED  BY <1>1, <1>2 DEF Ledger!ledger, EarnedNow, MovedNow, Credited

LEMMA LedgerEarn ==
  ASSUME IInv, NEW r \in Referee, Inserted(r), ~Rewarded(r), UNCHANGED <<request, paid>>
  PROVE  Ledger!Earn(r)
<1> DEFINE n == Len(earnings) + 1
<1>1. /\ Row' = Row \cup {n} /\ n \notin Row
      /\ \A i \in Row : earnings'[i] = earnings[i]
      /\ earnings'[n].referee = r /\ earnings'[n].withdrawal_status = FALSE
  BY Appended DEF IInv
<1> HIDE DEF n
<1>2. r \notin EarnedNow
  BY DEF EarnedNow, Rewarded
<1>3. EarnedNow' = EarnedNow \cup {r}
  BY <1>1 DEF EarnedNow
<1>4. MovedNow' = MovedNow
  BY <1>1 DEF MovedNow
<1>5. \A q \in Request : paid[q] \subseteq Row
  BY DEF IInv, Safe, EarningsConserved, Mine
<1>6. \A q \in Request : {earnings'[i].referee : i \in paid'[q]} = {earnings[i].referee : i \in paid[q]}
  BY <1>1, <1>5
<1>7. Credited' = Credited
  BY <1>6 DEF Credited
<1>. QED  BY <1>2, <1>3, <1>4, <1>7 DEF Ledger!Earn, EarnedNow, MovedNow, Credited

LEMMA LedgerMove ==
  ASSUME IInv, NEW q \in Request, Commit(q)
  PROVE  Ledger!Next
<1> DEFINE S == request[q].pending
           u == request[q].by
           R == {earnings[i].referee : i \in S}
<1>1. /\ request[q] \in Withdrawal /\ request[q].pc = "writing" /\ Marked(S)
      /\ paid' = [paid EXCEPT ![q] = S]
      /\ request' = [request EXCEPT ![q] = Ended("done", q)]
  BY DEF Commit, Marked, Flipped, IInv, TypeOK
<1>2. /\ Row' = Row
      /\ \A i \in Row : /\ earnings'[i].referee = earnings[i].referee
                        /\ earnings'[i].withdrawal_status = (i \in S \/ earnings[i].withdrawal_status)
      /\ Mine(u) \subseteq Row
  BY <1>1, Flagged DEF Mine, IInv
<1>3. /\ S # {} /\ S \subseteq Mine(u) /\ paid[q] = {}
      /\ \A i \in S : ~earnings[i].withdrawal_status
  BY <1>1 DEF IInv, Safe, Holding
<1>4. /\ paid'[q] = S /\ \A p \in Request \ {q} : paid'[p] = paid[p]
      /\ \A p \in Request : request'[p].by = request[p].by
  BY <1>1 DEF IInv, TypeOK, Ended, Withdrawal
<1>5. u \in User /\ R \in SUBSET Referee /\ R # {} /\ \A r \in R : Referrer[r] = u
  <2>1. \A i \in Row : earnings[i].referee \in Referee
    BY EarningRows DEF IInv, Earning
  <2>. QED  BY <1>1, <1>2, <1>3, <2>1 DEF Withdrawal, Mine
<1> HIDE DEF S, u
<1>6. R \subseteq EarnedNow \ MovedNow
  BY <1>2, <1>3 DEF EarnedNow, MovedNow, IInv, Safe, RewardOnce
<1>7. EarnedNow' = EarnedNow
  BY <1>2 DEF EarnedNow
<1>8. MovedNow' = MovedNow \cup R
  <2>1. {j \in Row : earnings[j].withdrawal_status}' = {j \in Row : earnings[j].withdrawal_status} \cup S
    BY <1>2, <1>3
  <2>2. \A j \in {j \in Row : earnings[j].withdrawal_status}' : earnings'[j].referee = earnings[j].referee
    BY <1>2
  <2>. QED  BY <2>1, <2>2 DEF MovedNow
<1>9. \A p \in Request : {earnings'[i].referee : i \in paid'[p]} = IF p = q THEN R ELSE {earnings[i].referee : i \in paid[p]}
  <2>1. \A p \in Request : paid[p] \subseteq Row
    BY DEF IInv, Safe, EarningsConserved, Mine
  <2>. QED  BY <1>2, <1>3, <1>4, <2>1
<1>10. Credited' = Credited \cup {[user |-> u, rewards |-> R]}
  <2> DEFINE credit(p) == [user |-> request[p].by, rewards |-> {earnings[i].referee : i \in paid[p]}]
             new(p) == [user |-> request'[p].by, rewards |-> {earnings'[i].referee : i \in paid'[p]}]
  <2>1. new(q) = [user |-> u, rewards |-> R] /\ \A p \in Request \ {q} : new(p) = credit(p)
    BY <1>4, <1>9 DEF u
  <2>2. /\ {p \in Request : paid'[p] # {}} = {p \in Request : paid[p] # {}} \cup {q}
        /\ q \notin {p \in Request : paid[p] # {}}
    BY <1>3, <1>4
  <2>3. /\ Credited = {credit(p) : p \in {p \in Request : paid[p] # {}}}
        /\ Credited' = {new(p) : p \in {p \in Request : paid'[p] # {}}}
    BY DEF Credited
  <2> HIDE DEF credit, new, R
  <2>. QED  BY <2>1, <2>2, <2>3
<1> HIDE DEF R
<1>11. Ledger!Move(u, R)
  BY <1>5, <1>6, <1>7, <1>8, <1>10 DEF Ledger!Move, EarnedNow, MovedNow, Credited
<1>12. \E v \in User, T \in SUBSET Referee : Ledger!Move(v, T)
  <2>1. u \in User /\ R \in SUBSET Referee
    BY <1>5
  <2>. QED  BY <2>1, <1>11 DEF Ledger!Move
<1>. QED  BY <1>12 DEF Ledger!Next

\* Taps move within their transaction, and evaluations up to the insert,
\* without the ledger seeing it.
LEMMA LedgerStep == IInv /\ [Next]_vars => [Ledger!Next]_(Ledger!ledger)
<1> SUFFICES ASSUME IInv, [Next]_vars PROVE Ledger!Next \/ UNCHANGED Ledger!ledger
  OBVIOUS
<1>0. \A q \in Request : request[q] \in Withdrawal
  BY DEF IInv, TypeOK
<1>1. UNCHANGED vars => UNCHANGED Ledger!ledger
  BY LedgerIdle DEF vars
<1>2. UNCHANGED money => UNCHANGED Ledger!ledger
  BY LedgerIdle DEF money
<1>3. ASSUME NEW w \in Worker, Award(w)
      PROVE  Ledger!Next \/ UNCHANGED Ledger!ledger
  <2>1. UNCHANGED earnings => UNCHANGED Ledger!ledger
    BY <1>3, Awarded, LedgerIdle DEF IInv
  <2>2. ASSUME NEW r \in Referee, Inserted(r), ~Rewarded(r)
        PROVE  Ledger!Next
    BY <1>3, <2>2, Awarded, LedgerEarn DEF IInv, Ledger!Next
  <2>. QED  BY <1>3, <2>1, <2>2, Awarded DEF IInv
<1>4. ASSUME NEW q \in Request, WithdrawalStep(q)
      PROVE  Ledger!Next \/ UNCHANGED Ledger!ledger
  <2>1. CASE Commit(q)
    BY <2>1, LedgerMove
  <2>2. CASE ~Commit(q)
    <3>1. UNCHANGED <<earnings, paid>>
      BY <1>4, <2>2 DEF WithdrawalStep, Tap, LockRow, Selected, WithdrawalFails, Deadlocked
    <3>2. \A pc : Ended(pc, q).by = request[q].by
      BY <1>0 DEF Ended, Withdrawal
    <3>3. \A p \in Request : request'[p].by = request[p].by
      <4>1. CASE Tap(q)
        BY <1>0, <4>1 DEF Tap, Withdrawal, IInv, TypeOK
      <4>2. CASE \E i \in request[q].want : LockRow(q, i)
        BY <1>0, <4>2 DEF LockRow, Withdrawal, IInv, TypeOK
      <4>3. CASE Selected(q)
        <5>1. request'[q].by = request[q].by
          BY <1>0, <3>2, <4>3 DEF Selected, Withdrawal, IInv, TypeOK
        <5>. QED  BY <4>3, <5>1 DEF Selected, IInv, TypeOK
      <4>4. CASE WithdrawalFails(q) \/ Deadlocked(q)
        BY <3>2, <4>4 DEF WithdrawalFails, Deadlocked, AbortWithdrawal, IInv, TypeOK
      <4>. QED  BY <1>4, <2>2, <4>1, <4>2, <4>3, <4>4 DEF WithdrawalStep
    <3>. QED  BY <3>1, <3>3, LedgerIdle
  <2>. QED  BY <2>1, <2>2
<1>5. CASE Restart
  <2>1. \A q \in Request : Ended("refused", q).by = request[q].by
    BY <1>0 DEF Ended, Withdrawal
  <2>2. \A q \in Request : request'[q].by = request[q].by
    BY <1>5, <2>1 DEF Restart
  <2>. QED  BY <1>5, <2>2, LedgerIdle DEF Restart
<1>6. Next => Ledger!Next \/ UNCHANGED Ledger!ledger
  BY <1>2, <1>3, <1>4, <1>5, Untouched
<1>. QED  BY <1>1, <1>6

\* The programme as coded implements the abstract ledger.
THEOREM Refinement == Spec => ImplementsLedger
<1>1. Spec => Ledger!Spec
  BY LedgerInit, LedgerStep, Invariant, PTL DEF Spec, Ledger!Spec
<1>. QED  BY <1>1 DEF ImplementsLedger
=============================================================================
