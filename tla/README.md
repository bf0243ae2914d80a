# Formal verification of the MasaMasa backend

This directory holds TLA+ specifications of the MasaMasa backend (NestJS,
TypeORM, PostgreSQL; the code is under `src/src`), TLC configurations that
model-check them on small instances, and proofs checked by the TLA+ proof
system. It is about money and about who may do what when: payouts, purchases,
deposits, referral rewards, and the executions that race over their rows.

## The system

One Node.js process per instance serves HTTP requests, webhooks and timers over
one PostgreSQL database. A handler runs until its next `await`; between two
awaits nothing else runs in that process, and at every await anything may. Rows
are changed with single UPDATE statements, mostly from copies read earlier and
without a condition on what the row says now; the exceptions take a row lock
(`SELECT ... FOR UPDATE`) inside a transaction. Timers (`@Interval`) start a job
without waiting for the previous one.

| Part | State | Operations | What makes it correct |
|---|---|---|---|
| Withdrawals and transfers (`users.service`, `cron.job`, `public.service`) | `transactions` rows (status, retry, metadata), user row lock | `withdrawal`, `transfer`, `verifyTransactionJob`, `retryWithdrawal`, `nombaTransferWebhook` | no overdraft, daily cap, a live payout keeps its debit, one claim per attempt, final statuses, every payout resolved, recorded and announced (once) |
| Purchases (`purchases.service`, `providers.service`, `cron.job`) | `purchases` rows, their debit, VTPass' record of the request id | `createAirtime`, `createData`, `createElectricity`, `verifyProcessingVtpassTransactions`, `retryPurchaseInitiation`, `ensurePurchaseDebit` | charged only for what was delivered, once, and always in the end; retries bounded |
| Quidax deposits (`public.service`) | `webhooks` rows (unique hash), deposit and fee `transactions` rows | `handleQuidaxWebhook` and the four deposit handlers | a deposit is credited once and only if it succeeded, whatever order and however often events arrive |
| Referrals (`referrals.service`) | referrals, earnings, `transactions` | sign-up attribution, qualification by webhook and nightly job, withdrawal of earnings | one reward per referred user, earnings paid out once |
| Authentication and account settings (`auth.service`, `users.service`, guards) | user row: password, pin, one code column, mfa, deletion request in the cache | sign-up, login, verification, reset, MFA, PIN and password change, deletion | a code opens something once; only a verified address gets a session; a deleted account stays deleted |
| Bank verification, KYC (`bank-verification.service`, `users.service`, `administrator.service`) | BVN records, `kyc_status` | submit a BVN, upload a document, verify, decline | a BVN verifies one user; a verification rests on evidence and is lost to an administrator or an older document only |
| Staff (`administrator.service`, `admin-auth.service`, guards) | administrator rows, copies of them in the Redis cache, invitations | invite, resend, accept, log in, enable, disable | a disabled member of staff is out, and comes back by enabling alone |
| Analytics (`analytics.service`) | none of its own; reads users and `transactions` | eight reports of several queries each | the figures of one answer agree with each other |
| Quidax provisioning (`quidax.service`, `quidax-wallet.cron`, `auth.service`, `public.service`) | `users.quidax_id`, wallet rows, Quidax' sub-accounts | set-up at sign-up, hourly backfill, webhook | every user gets an address for each currency, of the sub-account that is swept |
| Sub-account sweeps (`quidax-wallet.cron`, `public.service`) | Quidax' balances, a flag in memory | sweep after a deposit, half-hourly run | every deposit leaves its sub-account |
| Disposable and legacy wallets (`disposable-wallet.service`, `web3.service`, `transactionWebhook`) | disposable wallet rows, wallet rows, `webhooks`, credits | create, check, sweep one or all, track, webhook | a coin is credited once, and after it moved; what says swept was paid in |
| On-chain treasury (`web3.service`, the HD wallets) | balances and unspent outputs on seven chains | sweep, top up gas, withdraw | no credit beyond what came in; change comes back; rows only for what was carried out |
| Nomba token, balance monitor (`cron.job`) | one token row | refresh, read, generate if absent | there is a token again in the end |
| Exchange rates, beneficiaries, notifications, mail, push, uploads, migrations | single rows, or external | | |

`PROJECT.json` lists the parts with their status, and every hazard with the
source line where it bites and the properties that watch it.

### What is hard here

* Overlapping executions of timers, webhooks and handlers write whole fields of
  a row (status, retry, metadata) from copies read before an external call.
* The external call (Nomba, VTPass, Quidax) may succeed while its answer is
  lost; `axiosClient` drops the `timeout` option, so an answer may also take
  arbitrarily long.
* Webhooks are delivered late, twice, out of order, or never.
* The process may stop between a commit, an external call and the next write.
* What is put right by time only (cache entries that run out, hourly and
  half-hourly runs, the token timer) is right in the end or not at all.
* A report is several queries outside a transaction, over windows whose days are
  those of Lagos while the database's are those of UTC.
* Locks exist only in withdrawals, transfers and referral payouts; deduplication
  elsewhere is a read followed by an insert, sometimes with a unique column.

## Runs

Parts of the system that share no state are checked together: the initial state
chooses one `part`, and a behaviour is one of that part alone. This loses nothing
(a behaviour of one part is a behaviour of the whole in which the others stand
still) and no property relates two parts. `Requests`, `Clock` and `Spending` put
components together in this way, with constants the theorems are about, and
`MCRequests`, `MCClock` and `MCSpending` give them values; in `MCPayouts`,
`MCSettlement` and `MCDepositsAll` the parts are shares of the state of one or two
components.

| Run | Module: parts | Shows |
|---|---|---|
| `payout_race` | `MCPayouts`: one withdrawal with 2 runs, 2 webhooks, 2 retries, announcements that may fail and a restart; two withdrawals and a transfer over the funds of two of them, the account verified in between | `PaidStaysDebited`, `AttemptClaimedOnce`, `SuccessOnlyIfPaid`, `ImplementsPayoutLedger`, `NoOverdraft`, `WithinDailyCap` |
| `settlement_live` | `MCSettlement`, fair: one withdrawal with refunds, 2 retries, an account whose funds others take and return, and a restart; two bills (one of them electricity) over funds for one, pay requests that do not arrive, a restart or a deleted account | `GivingUpIsSafe`, `PayoutsSettle`, `SuccessIsAnnounced`, `BillsSettle` |
| `payout_duplicate` | `MCWithdrawals`: the job loads a row whose first POST is unanswered | violated: `PaidStaysDebited` |
| `bill_twice` | `MCPurchases`: two overlapping runs | violated: `DebitedOnce` |
| `deposit_all` | `MCDepositsAll`: three deliveries at a time of one deposit, held, without a price, a failing statement, a restart; two deposits, one of them without a wallet, one delivery at a time, fair | `CreditedOnlyIfSuccessful`, `DepositRowOnce`, `FeeOnce`, `CreditStays`, `CalmIsCredited` |
| `deposit_race` | `MCDeposits`: two deliveries at a time | violated: `SuccessfulIsCredited` |
| `referral_all` | `MCReferrals`, fair: 2 referees of one user, a hook and the job, 2 taps, a hold, a deletion, a failing statement, a restart | `RewardsAreDue`, `EarningsConserved`, `ImplementsLedger`, `QualifiedIsRewarded`, `TapEnds` |
| `requests_overlap` | `MCRequests` (`Requests`): two requests at a time and restarts, for wallets, credentials, KYC and reports | `AllTypesOK`, `CodesHold`, `DeletedIsOver`, `OneUserPerBvn`, `VerifiedIsNotLost`, `CreditIsBacked`, `MovedIsCredited`, `SweptIsPaidIn`, `FiguresAgree` |
| `clock_repairs` | `MCClock` (`Clock`), fair: staff with overlapping requests and restarts, or one request at a time and two links; provisioning of two users and two pairs; sub-account sweeps; the token | `AllTypesOK`, `RowsPayIn`, `SuspensionSticks`, `SuspendedIsShutOut`, `AllProvisioned`, `EveryBalanceSwept`, `TokenComesBack` |
| `spending_overlap` | `MCSpending` (`Spending`): one purchase with two overlapping runs, a restart, lost answers and late writes; two requests at a time on an EVM chain, Solana, Tron, XRP, Bitcoin, Dogecoin, Cardano | `AllTypesOK`, `ChargedOnlyIfDelivered`, `ChainCreditsCovered`, `WithdrawalsHold` |
| `kyc_pending` | `MCReports` | violated: `PendingIsUnverified` |
| `token_skipped` | `NombaToken` | violated: `SkippedOnlyIfNone` |

No run uses a state constraint: every bound is a guard. Those that belong to a run
rather than to the model are in its MC module, conjoined with the next state:
`Confined` of `MCPayouts` keeps the second part to one run and one webhook at a time
and one retry, `Confined` of `MCClock` allows a second invitation of one account only
where requests do not overlap and nothing restarts, and a second failure only while
a user has not signed up (its fairness is that of the confined steps), `OneMishap`
of `MCSettlement` keeps a restart and the deletion of the account apart (its fairness
is that of `MCSettlement` itself: it disables neither a step of the code nor one of
VTPass), and `OneChain` of `MCSpending` leaves a chain open in its own part only. Symmetry is used
over runs, webhook executions and request slots, and only where no liveness is
checked. Deadlock checking is off throughout because the system may really come to
rest: every request answered, every bound used up.

## Modules

### Withdrawals

`PayoutLedger` is the promise: a request is accepted only when funds and ceiling
cover it with all that is held, money leaves against a held withdrawal and once,
what left ends in success, and what is given back never leaves afterwards. Its state
is the status of each request and the set of withdrawals whose money has left:
`tx[q].status` and the payouts `bank` has paid.

State. `tx[q]` is the transactions row of a request (status, retry, the
`needs_review` flag of its metadata); `lock` is the holder of the row lock on
the user; `handler`, `run` and `hook` are the executions of the HTTP handlers,
of `verifyTransactionJob` and of the webhook, each with a program counter for
the awaits it stands at and the copies it works from; `bank` is Nomba's record
of each `merchantTxRef`, `event` the webhook events it has emitted (deliverable
any number of times, in any order, or never), `late` POSTs that may still arrive
although nobody waits for the answer, `funds` what the account's other transactions
leave it. `notified` and `claims` only observe.

Actions. One per stretch of code between two awaits, in the code's order:
`HandlerLock`, `HandlerCheck`, `HandlerReserve` (lock, balance and cap, insert
and commit), `HandlerNoToken`, `HandlerPost`, then one action per way the call
ends. `RunLoad` ... `RunReply` are `verifyTransactionJob` and
`retryWithdrawal`; `RunSettle` and `RunNotify` are two actions because the
update is awaited before the notification. `Hook...` is the webhook. Nomba is
an adversary within what the code relies on: a known reference is never accepted
twice, every other answer is possible, and answers get lost. `Crash` drops every
execution and the open transactions with their locks.

`Env` switches on behaviours of the surroundings the code does not exclude but
that some properties do not survive: `slowInitiation` (a run loads a row whose
first POST is still unanswered), `refund`, `authError` (a status query answered
400/401 whatever became of the payout), `spend` (purchases, which take no row lock,
and deposits that are held or confirmed move `funds` up and down), `unheard` (the user
is deleted, or the notification throws and is caught: nothing is announced). A passing
run checks its properties in an environment they hold in; the proofs say which behaviour
each one does not need.

Bounds. Rows interact only through the balance and the day's sum, so one
withdrawal carries the races between executions and two withdrawals and a
transfer carry the account's sums. Two runs and two webhooks give every pair of
stale writers; `MaxRetries` is 1 or 2 instead of 10: the cap is reached, with
and without a retry below it. One restart separates every pair of adjacent
steps. `notified` and `claims` saturate at 2, which is enough to tell "once"
from "more than once". `PayoutsSettle` joins the two ways a payout may stay open:
every row becomes final or is flagged for review, and what Nomba paid is shown as
a success. `settlement_live` has a withdrawal that takes all the account has, and
`spend`: the account stops covering it and covers it again at any moment, the locked
recheck included.

Fairness. Node finishes what it has started and the timer starts runs for ever:
weak fairness of handlers, runs and webhook executions. PostgreSQL grants a
contended row lock in the end: strong fairness of `RunLock`. Nomba answers each
POST and decides each accepted payout: weak fairness. A status query repeated
for ever is answered clearly some time: strong fairness of the clear answers.
Nothing is assumed about webhook deliveries.

Finding (`payout_duplicate`). `withdrawal()` fails the row on any non-SUCCESS body;
if the job has re-initiated the same reference while the first POST hung, that
body is the duplicate rejection of a payout Nomba is going to pay, and the amount
becomes spendable again. The job avoids exactly this (`cron.job.ts:515-518`).

What the model also shows, and no property therefore claims: in the same
environment the handler writes `retry` from the row as inserted and hands out an
attempt a second time that the job had claimed (`AttemptClaimedOnce` needs the
absence of `slowInitiation`, as its theorem says); and a payout may be announced
twice, because `verifyTransactionJob` decides whether to notify from the copy it
loaded (`cron.job.ts:259`) while the webhook decides from its own. Only the other
direction, that somebody announces it, is checked, in `settlement_live`, without
`unheard`. And a withdrawal Nomba does not know, which the account does not cover at
the recheck under the lock (`cron.job.ts:453-460`), is left as it is: not sent, not
counted and so never flagged, run after run, for as long as the account is short.
`PayoutsSettle` therefore asks that the account covers the withdrawal in the end and
from then on; it is what remains true of it that the run checks.

### Purchases

State. `row[p]` is a `purchases` row (status, the `needs_initiation` flag and the
retry count of its metadata), `debit` the number of debit transactions written
for it, `create` the create handler, `run` the executions of
`verifyProcessingVtpassTransactions` with the copies they loaded, `vt` VTPass'
record of the request id, `posts` how often the job has posted it.

Actions. `CreateCheck` to `CreateFailed` are the create handlers of airtime, data
and electricity (they differ in whether the price is compared with the balance,
the constant `Checked`). `RunLoad` loads every row in processing; a parked copy
is given up (`RunGiveUp`) or posted again (`RunPay` and the four ways that ends),
any other is asked for (`RunRequery`); `RunSkip`
leaves a parked electricity purchase alone when its user has deleted the account
(`Leave`, `gone`), as posting it takes the user's telephone number. `RunMark`, `RunDebit` and `RunInsert` are
the three awaits of a delivery: status, look for a debit, write one. VTPass takes
a request id at most once. `slowWrite` lets the metadata update nobody awaits land
after the awaited one that follows; `lostAnswer` lets a call fail for the caller
whatever VTPass did with it.

The part `bills` of `spending_overlap` has two overlapping runs, lost answers,
slow writes and a restart, and checks `ChargedOnlyIfDelivered`. The part `bills`
of `settlement_live` has one run at a time over two purchases. It checks
`GivingUpIsSafe` (`ReinitiationsBounded`, `FailedNotCharged` and
`FailedNotDelivered`) and `BillsSettle` (what VTPass delivered is charged in the
end, and a parked purchase is retried until it is taken or failed, the electricity of
a deleted user excepted). There a pay
request may fail on its way (`unreached`), which is safe; what a lost answer does
is said below.

Bounds. Purchases meet only in the balance, so two over funds for one carry what
is between them; two runs give every stale copy; `MaxRetries` is 2
instead of 3 (`cron.job.ts:608`).
`posts` saturates above the largest value the property allows. Fairness: Node
finishes what it has started and the timer starts runs for ever (weak); VTPass
answers each request and settles what it took (weak); a requery repeated for ever
is answered with the status some time, and a post repeated for ever with an
answer that is heard (strong).

`FailedNotDelivered` and `DeliveredIsCharged` exempt executions with a restart,
and `ReinitiationsBounded` allows one attempt more per restart: an attempt is
counted only after its answer, and the row becomes processed one statement before
it is debited.

What the runs show together: the checks in the code are right for one run of the
job at a time whose calls are answered, and each of them has a gap when runs
overlap (`@Interval` starts the job every two minutes and nothing guards against
overlap), when an answer is lost, or when the process stops in between. One gap
is a run, `bill_twice`; admitting the same behaviours elsewhere shows the others:

* two runs: a run that loaded the parked row before another delivered and debited
  it finds the balance gone and overwrites processed with failed (`FailedNotCharged`);
* lost answers: a post that throws is not counted, so re-initiation passes the cap
  (`ReinitiationsBounded`), and a purchase whose delivery was never heard of is
  failed after repetitions that VTPass refuses as duplicates
  (`FailedNotDelivered`, against the comment "failing is safe");
* slow writes: the update nobody awaits (`providers.service.ts:181`) wipes the
  parking flag, and the job goes on verifying what VTPass never saw (`ParkedIsRetried`);
* a deleted account: a parked electricity purchase is skipped by every run, without
  being counted or failed (`cron.job.ts:728`), and stays in processing for ever, which
  `ParkedIsRetried` exempts. The `default` of the same switch would do so too
  (736-740), but only airtime, data and electricity are ever parked;
* another purchase delivered between the balance check of a re-initiation and its
  debit overdraws the account (`cron.job.ts:692`).

### Deposits

State. `marker` holds the webhooks rows that claim an event, `hooked` the deposits
with a webhooks row of their own, `tx` and `rows` the transactions row of a
deposit and how many there are, `fees` the fee debits, `worker` the deliveries in
progress; `quidax`, `sent` and `acked` are the other side.

Actions. `Deliver`, `Claim` and `Unclaim` are `handleQuidaxWebhook`: look for the
marker, insert it, remove it when the handler throws. Each handler begins with
its `...Look` and goes on with the statements it shares with the others:
`HookInsert`, `TxInsert`, `SuccessfulUpdate` or `OtherUpdate`, `Fee`, `Mail`.
`StatementFails` is a failing statement at any of these points, with what the
code does about it there. Quidax sends events in the order of a deposit's life and
delivers each any number of times, in any order, until it is acknowledged.

The part `race` of `deposit_all` checks the safety properties with three deliveries
at a time, the part `calm` that a successful deposit is credited
(`CalmIsCredited`) with one delivery at a time and nothing failing.

Bounds. Deposits share nothing, so one is enough; where there are two, one has no
wallet. Three deliveries are one of each of three events, or a repetition beside
another event. Fairness: Quidax delivers an unacknowledged event again and again
(strong, since a worker must be free), and a delivery goes on (weak); `calm` uses
this of the event `successful` alone, the others may be lost. `rows` and
`fees` saturate at 2.

What the runs show: the two unique hashes do keep a deposit from being credited
twice, in every order of events. The other direction, that a deposit Quidax called
successful is credited, needs all that the part `calm` assumes. One reason is the
run `deposit_race`; the others appear as soon as the constants admit them:

* `hold`: a deposit on hold is pending, and its success upgrades processing rows
  only (`public.service.ts:974`); the fee is charged all the same. Delivered after
  the success, on_hold turns the credit back to pending (1106), which is why
  `CreditStays` speaks of deposits that were never held;
* `MaxErrors`: a failure to insert the marker is taken for a duplicate (668), and
  one between a deposit's two rows leaves nothing to upgrade;
* `MaxCrashes`: after the marker is inserted the redelivery is a duplicate (663).

`FeeOnce` needs `Closed = {}`: for a deleted account the handler throws after the
fee was taken (1038), and each redelivery takes it again. Without a price a deposit
becomes successful with amount 0, and nothing looks at it again (943).

### Referrals

State. `earnings` is the `referral_earnings` table in order of id; `deposits`
counts a referee's deposit rows by status; `worker` holds the evaluations in
progress, those of deposit hooks and of the nightly job, `queue` the candidates
the job has still to visit; `request` the taps of the withdraw button, with the
rows each has still to lock, has locked and has read; `paid` the rows each
credit names. `reached` is a history variable.

Actions. `Look`, `Sum` and `Award` are the three awaits of
`evaluateQualification`; `NightlyScan` and `NightlyNext` are
`awardMissedQualifications`. `Tap`, `LockRow`, `Selected` and `Commit` are
`withdrawToMainAccount`: PostgreSQL locks the rows its snapshot shows one by one,
waits for a locked one and evaluates the WHERE again on what it then finds. Two
taps may lock each other's rows, as the query has no ORDER BY; `Deadlocked` is
PostgreSQL aborting one. `Restart` may bring a release with another reward.

`ReferralLedger` is the promise: a reward is earned once per referee, and moved to
the main balance once, together with others of the same user. `Referrals` maps its
table, flags and credits to that, and `ImplementsLedger` says it implements it.

Bounds. Two referees give a user with two rows, which is what a deadlock and a
reward earned between select and commit need; several users are covered by the
proofs. Deposits are units and the threshold is one of them: only the comparison
matters. Fairness: the job runs every night, what was started ends, PostgreSQL
resolves deadlocks; deposits and taps need not happen.

The summary shows the running release's reward for every rewarded referee
(`referrals.service.ts:283`), not the stored amount; the model keeps both (`figure`,
`amount`) but no property is about the display.

`RewardsAreDue` is `RewardOnce` (one row per referee) and `RewardOnlyIfReached`.

Referral codes are not modelled: drawing one is a look followed by an insert that
a unique index guards.

### Credentials

State. `row[u]` is the users row as far as access depends on it: existence, status,
soft deletion, verification, the MFA flag, and the one column (`remember_token`
with `token_created_at`: `slot`, `fresh`) in which email verification, password
reset, MFA login, PIN and password change keep their code. `mailed` are the codes
a user may know, `late` the writes of `forgotPassword`, which it does not await,
`deletion` the cache entry of a deletion request, `session` who holds a token.
`spent` observes which codes have opened something.

Actions. A request arrives and passes its guard (`Arrive`), reads the row and
checks it (`Read`, `Passes`), goes through bcrypt or the cache (`Hash`) and writes
(`WriteCode`, `SignUp`, `Verify`, `VerifyMfa`, `ResetPassword`, `Change`,
`ToggleMfa`, `LogIn`, `AskDeletion`, `ConfirmDeletion`); `SendCode` and
`DropDeletion` follow the write, and a mail brings the code its own request drew,
which another may have replaced by then. Each works on the copy it read. `Elapse` is the
fifteen minutes, `Crash` a restart, `ToggleStatus` an administrator.
`resendVerificationToken` (`auth.service.ts:273-292`) has no action, as nothing calls it;
it writes a code and mails none.

Checked in `requests_overlap`: `CodesHold` (a code that has opened something is
never accepted by a request that arrives later, and only a verified address has a
session: the code step of an MFA login looks at the code alone, and is right
because a code only gets into that column at a login or in another operation of
the same user) and `DeletedIsOver`. One account, two codes, two requests: a code
and the one that replaces it, and every pair of stale copies.

Two requests that both passed the check before either wrote both succeed with one
code, so `CodesHold` speaks of requests that arrive after the code was spent.

### Kyc

State. `status` and `image` of a user, the table of BVN records (an excerpt and a
hash; `by` observes who brought it), the requests in progress. Actions: `SubmitBvn`,
`LookUp`, `Prembly`, `SaveRecord`, `Succeed` are `userKyc` with
`bank-verification.service`; `Upload`, `Pend` are `uploadImage`; `Review`, `Approve`,
`Decline` are `verifyKyc` and `declineKyc`; `Crash` may leave the record without the
status.

The BVNs and documents of one user and the decisions on him overlap in every way.
`uploadImage` reads the status and writes the document with "pending" an await later
(`users.service.ts:382-402`), whatever the status has become meanwhile.

Checked in `requests_overlap`, two users and three BVNs, two of which share an excerpt:

* `OneUserPerBvn`. BVNs that share an excerpt are told apart by the one row `findOne`
  returns, so a record hidden behind another one does not count; and two requests with
  one BVN at the same time both find nothing, which only `sameBvn` in `KycEnv` admits.
* `VerifiedIsNotLost`: what is left of a verification when requests overlap. It is lost
  to an administrator who declines, or to a document that was sent in before it and is
  written over it, which puts the user back into the queue of reviews; nothing else
  takes it away. No one is verified, or waits for a review, without a document or a BVN
  record, and a recorded BVN has verified its user, short of a decision, of such a
  document or of a restart.

That a late document undoes a verification is a gap of the code: the user waits for a
review although Prembly has confirmed him, and cannot submit his BVN again, as it is
recorded. A restart between record and status leaves a BVN that is taken by a user who
is not verified, which an administrator must repair.

### Staff

State. The administrators rows with the number and age of their invitation,
`cache` the status in the copy under `admin:<id>`, `links` the mails, `signedIn`,
and the requests in progress. Actions: `Arrive`, `Load`, `Fill` are the guard with
`getWithId` (the cache, or the row, which is put into the cache one await later);
`Handle` begins one of `updateStaffStatus` (`SetStatus`, `DropCached`),
`createStaff` and `resendStaffInvite` (`Invite`, `Mail`); `OpenLink`, `Accept` and
`AskLogIn`, `LogIn` come from outside; `Expire` is the cache's time limit.

Checked in `clock_repairs`: `SuspensionSticks` and `SuspendedIsShutOut`. The
second is a liveness property because a request that read the row before may put
the old copy back after it was dropped, and a restart may come between the write
and the drop: only the time limit of the cache (twenty minutes, whatever lifetime
is asked for) repairs that. Fairness: requests go on, copies run out. `DoubleAccept`
is off: two openings of one link at the same time both pass the look, and the second
may undo a disabling that came in between.

### Provisioning

State. `made` counts the sub-accounts Quidax has for a user, `quidaxId` is the
column, `rows` are the wallet rows with the sub-account their address belongs to,
`hooks` the webhooks on their way; `setup` and `tick` are the background work of a
sign-up and the hourly run with its copies; `age` the hours since the sign-up.
Actions: `SignUp`, `SetupMake` ... `SetupStore` are `setupQuidaxAccount`; `StartTick`,
`NextUser`, `TickMake` ... `TickAsk` are `backfillNewUserWallets`; `Deliver` is
`handleWalletAddressGenerated`. A call may fail, fail after Quidax did it, or fail
without an answer, in which case the handler of the error itself throws and the
run ends for all users that follow.

Checked in `clock_repairs`: `RowsPayIn` and `AllProvisioned`, for two users and two
pairs, with two disturbances while one of the users has not signed up and one
otherwise, and a window of three runs: one more than the disturbances. The comment
on the backfill speaks of the last hour; the code looks three hours back, and with
one (the mutant) `AllProvisioned` fails.
`overlap` in `Env` admits an hourly run while a sign-up is being provisioned: both
may then make a sub-account, and the rows of one point into an account that is not
swept. The run is hourly and a set-up takes seconds, so this is left as an
assumption of the theorem rather than a run.

### SubAccountSweep

State. Quidax' `balance` per user, `asking` the webhooks' sweeps, the flag
`sweepRunning` with the run that holds it. Actions: `HookSweep` is the sweep after
a deposit; `CronTick`, `ListUsers`, `NextUser`, `ListWallets`, `SweepWallet` are
`sweepSubAccountsToMaster`. A withdrawal moves all of the amount or nothing, so an
amount that a webhook has swept meanwhile fails. Checked in `clock_repairs`:
`EveryBalanceSwept`, with a user whose wallets can never be listed. It exempts a
call that hangs for ever: `axiosClient` does not pass on the time limit that
`quidax.service` asks for, and the flag then stays up until a restart.

### DisposableWallets

State. The status of each `disposable_wallets` row, `listed` the addresses in the
wallet table, `funds` on chain, the chain's transactions, `hashes` the webhooks rows
(unique), `credits`, the requests in progress. Actions: `AskCreate`, `Insert`, `List`;
`Check`, `Expire`, `ReadBalance`, `SaveChecked`; `Sweep`, `SweepAll`, `TakeNext`, `Move`, `Mark`;
`Track` is `walletsTracking` of the legacy wallets; `RecordHash` and `Credit` are
`transactionWebhook`. Four sets say in which way the wallets' networks and tokens differ: a sweep that moved
nothing answers "sweep_completed" (`Lenient`), the HD wallet ignores a webhook that
fails (`Swallowing`), it catches every error (`Silent`: the tokens of Solana,
`sol-hd-wallet.ts:312-317`), or does not look at what became of its transfer
(`Unchecked`: TRX, and Solana, where the error `confirmTransaction` returns is ignored,
136-160 and 287-310). The last two answer "sweep_completed" too, so they are subsets of
the first.

Checked in `requests_overlap`: `CreditIsBacked`, `MovedIsCredited`, `SweptIsPaidIn`, for
one wallet that is none of these but `Swallowing`, one that is all of them, and a legacy
wallet. Checks and sweeps of one wallet overlap as they like. `SweptIsPaidIn` says what
"swept" is worth then (`DISPOSABLE_WALLET_API.md:119`: "Funds transferred to master
wallet"): short of a restart, the coins of a wallet that says so have been moved and
credited, unless it is `Lenient`; and it stops saying so only for a check that read the
row before the sweep and saves its old status now (`disposable-wallet.service.ts:219-254`
against 302-306). The latter is a gap of the code: a swept wallet shows as funded again,
and the next `sweepDisposableWallets` finds nothing there.
A lost answer or a restart between transfer and webhook leaves coins in the master
wallet that no user is credited, which `MovedIsCredited` exempts.

### UtxoWallets and Treasury

`UtxoWallets` is Bitcoin, Dogecoin and Cardano: unspent outputs, those a request has
seen and picked, fee, change and broadcast. `Treasury` is the EVM networks, Solana,
Tron and XRP: balances, the gas of a token's sweep, `withdrawToken` with its check
and its row. A sweep is too small if what is left after its fee is dust; on Cardano
the floor is a sum of its own, and the builder of the transaction refuses inputs that
do not cover the fee. Both let requests overlap freely, as nothing is reserved between
the read and the broadcast; the chain refuses what is spent. The sets of chains
(`Gross`, `Net`, `Checked`, `Unsure`, `ToppedUp`) say in which way their code differs.

Checked in `spending_overlap`, on each of the seven chains: `ChainCreditsCovered` and
`WithdrawalsHold`. Values are small numbers chosen so that sweeps too small for
their fee, withdrawals beyond the balance and fees above the reserve occur. What the
properties leave open, because the code does:

* the sweep of an EVM coin leaves a buffer on the child address, which the next sweep
  finds and credits again (hence `moved[c] * Buffer`);
* Tron and Solana sweeps may take a transfer that failed on chain for one that went
  through (`Unsure`);
* Bitcoin picks inputs for the amount and a fixed reserve before it knows the fee,
  and refuses if the fee is higher, though more outputs may be there.

### Reports

State. The rows of users and `transactions` (with their time, in half-days, so that
the hour after midnight in Lagos, which is the day before in UTC, is a time of its
own), `desk` the report in progress: its window, the queries left and the figures
so far. Actions: `SignUp`, `VerifyEmail`, `SetKyc`, `Delete`, `Insert` (as `Deposit` and
`Spend`), `Settle` and `Pass` change the tables; `Ask` chooses and checks the window,
`Read` awaits one query, `Reply` answers.

Checked in `requests_overlap`: `FiguresAgree`; violated in `kyc_pending`:
`PendingIsUnverified`. `steady` says that nothing changed during the report: with
changes in between, the figures of one answer are of different moments, and the
funnel's pending users, a difference of two counts, may even be negative.

### NombaToken

State. The table, and for each reader or generator where it stands. Actions: `Tick`,
`Read`, `Issue`, `Delete`, `Save`, `ReadAgain`, `Finish`. Checked in `clock_repairs`:
`TokenComesBack`; violated in `token_skipped`: `SkippedOnlyIfNone`.

### Fairness of the timed parts

Weak fairness of what the event loop has started (`Serve`, `SetupStep`, `TickStep`,
`RunStep`, `Step`), of the timers (`StartTick`, `CronTick`, `Tick`: `@Cron` and
`@Interval` fire as long as the process comes back) and of the time limit of cache
entries. Nothing is assumed of users, webhooks or calls, whose failures are bounded.

## Proofs

Eight modules hold the proofs. Each theorem is about every value of the constants
that satisfies the assumptions of its module (sets are finite where sums are taken,
bounds and amounts are natural numbers, names of different things differ), and about
any number of executions, which TLC's instances bound by two or three. A hypothesis
such as `"overlap" \notin Env` excludes a behaviour of the surroundings, named where
the module is described; a theorem without one holds in every environment.

### Sums

Balances, daily totals and wallet coins are sums over sets of rows or outputs, taken
with the fold `SumFunctionOnSet`. The fold is defined by recursion over subsets, and
an induction over a predicate is out of the provers' reach. `Sums` avoids it: it shows
that the fold exists and is unique by well-foundedness of the strict subsets of a
finite set (a least counterexample instead of an induction), and that it counts the
pairs `<<x, i>>` with `i \in 1 .. f[x]` (`SumIsCount`). What the other modules cite
follows from cardinalities: a sum is a number, splits over disjoint sets, grows by
what is added and changes by what one term changes (`SumUnion`, `SumAdd`,
`SumRemove`, `SumSubset`, `SumChange`). Grouping the members of a set by a key and
summing or counting per key gives the sum or the number over the whole set
(`SumGroups`, `CountGroups`), and sums of differences are differences of sums
(`SumMinus`): this is what the figures of the reports rest on.

### Withdrawals

`WithdrawalsProofs` proves, for every set of requests, runs and webhook executions:

* `TypeCorrect`: `Spec => []TypeOK`, by `Typed`, which adds to the types what the
  program counters imply of the row being handled (`Working`, `HookWorking`):
  without it `retry + 1` could leave its range.
* `SuccessIsReal`: only paid payouts are recorded or announced as successful, in
  every environment. The strengthening `ReportsTrue` says that an answer
  or an event an execution holds was true when given, and that "paid" is stable.
* `ClaimsAreExclusive`: under `Prompt` (no `slowInitiation`) an attempt is claimed
  once. `ClaimInv` says that the lock has one holder, that an execution in the
  critical section holds it, and that no attempt at or above the row's retry
  count was claimed yet.
* `DebitIsKept`: under `Prompt` and `Definite` (no `authError`) an accepted payout
  keeps its debit. `DebitInv` relates the rows to the bank: a negative answer
  or event in hand means the payout failed or was returned, nothing reaches the
  bank before the row exists, and a failed row has no POST outstanding.
* `FinalStatus`: with, in addition, no refunds, no step changes a final status.
* `AccountIsCovered` and `CapIsKept`: under the same conditions, and if nothing else
  takes from the account (`Steady`: no `spend`), the balance never
  falls below 0 and a reservation keeps within the day's ceiling (`NoOverdraft`,
  `WithinDailyCap`). `FundsInv` says that what a handler has checked still holds
  until it commits (`CheckHolds`): the row lock keeps other reservations out, and no
  other step adds to the committed rows, because no final status changes and no
  failed row comes back to life. That is why these two need what `FinalStatus` needs:
  the lock alone does not protect the balance, since the verification job and the
  webhook write statuses without it.
* `PayoutsImplement`: under these conditions `Withdrawals` implements
  `PayoutLedger`. `HandlerReserve` is a `Withdraw` or a `Send` the ledger covers
  (`LedgerReserve`), `NombaPay` is the one step by which money leaves, and finds the
  row processing (`LedgerBank`); any step of a handler, a run or the webhook that
  changes a status settles one processing withdrawal as Nomba's record says
  (`LedgerSettles`); all others are stutters.

`Prompt`, `Definite`, `NoRefund` and `Steady` are the environment of `payout_race`;
`payout_duplicate` shows that the first cannot be dropped from `DebitIsKept`.

### Spending: Purchases, Treasury, UtxoWallets

`SpendingProofs` proves of the three parts, and of `Spending` as a whole:

* `SpendingTyped`: all types. For outputs this includes that ids are never given
  twice and values never reach 0.
* `ChargedIfDelivered`: only what VTPass delivered is charged, in every environment,
  overlapping runs, lost answers and late writes included. `Told` says that a run
  which is marking or charging a purchase, or holds the answer "delivered", was told
  of a delivery that happened; `VtInv` says the same of debits and of the handler.
* `AloneIsExact`: with one run at a time (`Alone`) a purchase is charged once and a
  failed one never (`DebitedOnce`, `FailedNotCharged`). `OnceInv` says that what has
  a debit is processed and on no run's list. `bill_twice` shows that `Alone` cannot
  be dropped.
* `GivingUpSafe`: `GivingUpIsSafe`, if runs do not overlap, answers of VTPass arrive
  and updates land in order (`Orderly`; pay requests that do not reach VTPass and
  restarts are admitted, as in `settlement_live`). Without order the update that is
  not awaited restores the count it should have raised; without answers an attempt
  VTPass carried out goes uncounted. `CopyInv` says that the run's copy of a row it
  has not dealt with is the row, `CountInv` that the row counts every re-initiation
  but the one in hand, `ParkInv` that VTPass has not taken what is parked, but for an
  answer the run is about to act on.
* `ChainCovered`: no user of a swept address is credited more than came in
  (`ChainCreditsCovered`). Overlapping sweeps all read the same coins, so what they
  have read cannot be added up; `CreditsInv` and `PaidInInv` add up instead, per
  address, what was credited, what the requests that have moved coins are about to
  report, and what is still there. Only the chain moves something from the third
  account to the second, and only once, because the other sweep's transfer is refused.
* `WithdrawalsSound`: a row only for what was carried out, a refusal only for want of
  coins or of a reserve, change comes back (`WithdrawalsHold`). `Backed` and `Fits`
  say what holds of the request however the balance changes after it was read.

### Requests: DisposableWallets, Credentials, Kyc, Reports

`DisposableWalletsProofs` proves, for every set of wallets, hashes and requests:

* `TypeCorrect`: `Spec => []TypeOK`.
* `CreditBacked`: a hash is credited once, and only if its transaction was mined,
  but for the networks whose broadcasts nobody checks. `HashInv` says that every
  hash an execution holds or has recorded is backed in this sense, and that one
  request at most is between the row of a hash and its credit.
* `MovedCredited`: as long as nothing crashed, what was moved out of a wallet is
  credited or in the hands of a request. `ListInv` says that an address is in the list
  the webhook looks at before coins move there, or that its creation is one step away
  from it.
* `SweptPaidIn`: `SweptIsPaidIn`, however requests overlap. `SweptInv` is its first
  part; `Fair` says, request by request, why it stays: a hash on its way to the webhook is
  of the wallet being swept, is not recorded yet and is in no other request's hands (so
  the webhook cannot turn it down), and a request about to mark a wallet, or whose copy
  says swept, has its coins paid in, short of a restart and of `Lenient` wallets. Credits
  last (`Lasting`). The other part follows from the steps alone: only `Expire` and
  `SaveChecked` take "swept" away, and a copy that knew of it says so (`LateStep`).

`RequestsProofs` proves of the other three parts, and of `Requests` as a whole:

* `RequestsTyped`: all types, those of the reports' figures included, which a query
  at a time fills in.
* `CodesAreSpent`: `CodesHold`. `Forward` says what no step undoes: rows exist, are
  verified or deleted for good, codes are spent for good, and a code that
  `forgotPassword` has still to write is newer than all that were drawn. `Informed`
  says that a request knows nothing that is not so: a code it carries was drawn, and
  past its check it was not spent when it arrived. `UserInv` says that a spent code
  stands in no row: the step that spends it takes it away, and no later write can
  bring it back.
* `DeletionIsFinal`: `DeletedIsOver`, by the same invariant.
* `OneUserEach`: `OneUserPerBvn`, if no BVN comes in two requests at a time. `BvnInv`
  says that a BVN which has passed the lookup is in one request's hands and not
  recorded yet, if nothing else has its excerpt; with two BVNs under one excerpt
  `findOne` may return the other's row, and nothing is claimed.
* `NoVerificationLost`: `VerifiedIsNotLost`, however requests overlap. `NotLostInv` adds
  to the two invariants of the property what a request that passed its conditions still
  has: a BVN about to verify its user is recorded for him, an approval has a document,
  and whoever sends in a document was not verified when his status was read. Only
  `Decline` and such a document's `Pend` then take a success away.
* `ReportsAddUp`: `FiguresAgree`. `FiguresInv` says that a figure that has been read is
  the answer its query would give now, as long as no table has changed since the
  report was asked for; what is left is about the tables at one moment. The balance of
  all users is the sum of their balances because grouping the rows by owner loses
  none; days, coins, networks and KYC statuses partition the rows or users they are
  taken from; the rest are subsets. That a daily report shows days of its window only
  needs no standstill. `User` and `Tx` are assumed finite, as the tables are.

### Clock: Staff, Provisioning, SubAccountSweep, NombaToken

`ClockProofs` proves of the four parts, and of `Clock` as a whole:

* `ClockTyped`: all types, in every environment. The balance of a sub-account stays
  in its range because what is swept was there (`SweepTyped`), a mailed link was made
  (`AccountsTyped`), and whoever is to store a sub-account or to ask for addresses
  holds one that was made, also where a run overlaps a sign-up (`AddressTypes`).
* `AddressesPayIn`: if `"overlap" \notin Env` every wallet row holds an address of the
  sub-account in `users.quidax_id`. `SetupInv` says that only a user without an
  account is being given one, and which account the background work holds; `TickInv`
  says that the run's copy of a `quidax_id` it has still to use is the stored one.
* `DisabledStays`: `SuspensionSticks`, if no link is opened twice at the same time.
  `AccountsInv` says that a status is about to be set only where an invitation was
  accepted, and an acceptance about to be saved only where it was not.

### Deposits

`DepositsProofs` proves, for every set of deposits and deliveries and every bound
on failures:

* `TypeCorrect`: `Spec => []TypeOK`, by `Typed`, which adds what the point a
  delivery stands at implies of the event it handles (`Working`).
* `OneRow`: one transactions row per deposit. `RowInv` says that the delivery that
  inserted the webhooks row, whose hash is unique, is the only one that may insert
  the transactions row, and that no row exists before.
* `CreditIsReal` and `CreditIsFinal`: a deposit counts only when Quidax calls it
  successful, and a deposit never held keeps its credit. `CreditInv` says that a
  delivery handles an event that was sent, and that the two final events are sent
  in the final states only.
* `OneFee`: under `Closed = {}` (no account is deleted) the fee is taken once.
  `FeeInv` says that a delivery past the claim holds its event's marker alone, and
  that after the fee only the mail is left to do, which gives up the marker for
  deleted accounts only.

### Referrals

`ReferralsProofs` proves, for every set of referees, users, evaluations and taps:

* `TypeCorrect`, `RewardedWhenDue`, `Conservation`: the type invariant and the
  safety invariants. `Reached` says that whoever an evaluation found to have enough
  deposits has reached the threshold. `Holding` says what an open transaction may
  rely on: the rows it has read are its user's, locked by no other tap, and not
  withdrawn yet.
* `Refinement`: `Referrals` implements `ReferralLedger`. `Commit` is a `Move` of
  the rewards read, `Award` an `Earn` or nothing; every other step changes nothing
  the ledger sees. `RewardOnce` is needed here: only because a referee has one row
  does flipping a row move exactly one reward.

### What stays with TLC

* Every liveness property (`PayoutsSettle`, `SuccessIsAnnounced`, `BillsSettle`,
  `CalmIsCredited`, `QualifiedIsRewarded`, `TapEnds`, `SuspendedIsShutOut`,
  `AllProvisioned`, `EveryBalanceSwept`, `TokenComesBack`): `ENABLED` and fairness are
  beyond the prover. Every other property of a passing run is a theorem, in the
  environment its bullet above names.

## What no property covers

Known gaps of the code that the models show or the survey met, each at its line:

* a withdrawal unknown to Nomba that the account does not cover is skipped by every run
  while it is short (`cron.job.ts:453`); a parked electricity purchase of a deleted user
  for ever (728);
* a payout may be announced twice (`cron.job.ts:259`), and a refund delivered before
  the success of the same payout may be overwritten (`public.service.ts:245`);
* a status query answered 400 or 401 marks a payout failed (`cron.job.ts:317`);
* a restart between the status of a delivered purchase and its debit leaves it
  uncharged (`cron.job.ts:570`); balances are compared without a lock before a
  purchase and before a re-initiation (`purchases.service.ts:54`, `cron.job.ts:692`);
  a pay request that throws leaves a pending row no job looks at
  (`purchases.service.ts:159`);
* deposits: released from hold (974), of a deleted account (1038), without a price
  (943), all in `public.service.ts`; a wallet row whose currency is spelled in the
  other case is missed (722);
* two saves of exchange rates at the same time leave two active rates
  (`exchange-rates.service.ts:48`);
* analytics: `cashFlow` and `volumeSeries` bucket days in UTC although the comment at
  `analytics.service.ts:17-21` asks for days of Lagos; `transactionsPerUser` counts
  deleted users that its rows leave out;
* a document sent in before a verification takes it away when it is written
  (`users.service.ts:398`), and a check that read a wallet before its sweep makes it
  funded again (`disposable-wallet.service.ts:254`);
* provisioning: an hourly run works on a `quidax_id` read when it started
  (`quidax-wallet.cron.ts:147`); `RowsPayIn` is checked without runs that overlap a
  sign-up;
* sweeps: `performSweep` reads the master wallet's XRP balance for a disposable
  address; Cardano below ten ADA answers a text that passes for success, and the
  wallet is marked swept; the EVM networks share addresses while indexes are drawn
  per network, so the same index on a second one is refused by the unique address;
* withdrawals from the master wallet save a row on EVM networks only; an
  unrecognised network is taken for Base, and Polygon is compared with its spelling
  after the name was put into capitals (`web3.service.ts:886`); inputs of Cardano
  withdrawals ignore native assets;
* the cool-down of the low-balance alert is commented out (`cron.job.ts:893`); callers
  other than the job send "Bearer undefined" right after they generated a token.

## Not modelled

* Exchange rates, beneficiaries, wallet listings, notifications: single statements.
* Mail, push, Mixpanel, Cloudinary, HTTP plumbing: no state of their own. What the
  guards decide is in Credentials and Staff.
* Key derivation, signatures, token decimals, price conversion, balance and history
  reads: calculations of libraries without state of the application.
* Jobs that are commented out or never called (`wallet-tracking.cron.ts`,
  `trackAllWallets`, `Sol.ts`, `merge.ts`, `withdraw.ts`).
* Roles of staff, profile fields, push tokens, read-only lists, referral codes.
* The recipient's credit of a transfer: one insert in the sender's transaction.
* Database migrations and seeds: run once.

## Where to go on

1. An abstract deposit that Deposits implements in the environments where it does, as
   Withdrawals and Referrals do their ledgers.
2. The account: one balance over payouts, purchases, deposits and rewards, each
   feature reduced to what it reads and writes.
