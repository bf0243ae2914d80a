---------------------------- MODULE Withdrawals ----------------------------
(***************************************************************************)
(* Payouts of one user account: the request handlers users.service         *)
(* withdrawal() and transfer(), the five-minute verification job of        *)
(* cron.job.ts with its re-initiation of unknown payouts, the Nomba payout *)
(* webhook of public.service.ts, and Nomba itself.  The handlers and the   *)
(* re-initiation serialise on the user row (SELECT ... FOR UPDATE); the    *)
(* verification job and the webhook update the transactions row without    *)
(* that lock, from copies they read earlier.                               *)
(***************************************************************************)
EXTENDS Integers, FiniteSets, Functions

CONSTANTS
  Withdrawal,  \* withdrawal requests of the account, one transactions row each
  Transfer,    \* in-app transfer requests of the same account
  Run,         \* executions of verifyTransactionJob that may overlap
  Hook,        \* executions of nombaTransferWebhook that may overlap
  NoOne,       \* no holder of the user row lock, or no row being handled
  Amount,      \* naira amount of each request
  Funds,       \* at most: successful credits less debits made by other features
  Ceiling,     \* per request: the daily ceiling read from user.kyc_status before the lock
  MaxRetries,  \* MAX_WITHDRAWAL_RETRIES
  MaxCrashes,  \* bound on process restarts
  Env          \* environment behaviours admitted beyond the ordinary ones

Request == Withdrawal \cup Transfer
Actor   == Request \cup Run

ASSUME ConstantsAssumption ==
  /\ IsFiniteSet(Request)
  /\ Withdrawal \cap Transfer = {}
  /\ Request \cap Run = {}
  /\ NoOne \notin Actor
  /\ Amount \in [Request -> Nat \ {0}]
  /\ Funds \in Nat
  /\ Ceiling \in [Withdrawal -> Nat]
  /\ MaxRetries \in Nat \ {0}
  /\ MaxCrashes \in Nat
  \* slowInitiation: the first POST may still be unanswered when a run loads
  \* the row (axiosClient drops its timeout option).  refund: Nomba may
  \* return a paid transfer.  authError: a status query may be answered 400
  \* or 401 whatever the state of the payout (an expired access token).
  \* spend: other features move the account's funds, without the row lock.
  \* unheard: a success may not be announced (the user is deleted, or the
  \* notification fails, which is swallowed).
  /\ Env \subseteq {"slowInitiation", "refund", "authError", "spend", "unheard"}

VARIABLES
  tx,        \* the transactions rows
  lock,      \* holder of the pessimistic_write lock on the user row
  handler,   \* the HTTP handlers: pc and the answer to the Nomba call
  run,       \* the verification runs: pc, rows still to visit, copies, answers
  hook,      \* the webhook executions: pc and what they read
  bank,      \* Nomba's record of each merchantTxRef
  event,     \* webhook events Nomba emitted, each delivered any number of times
  late,      \* payouts whose POST may still arrive although nobody awaits it
  funds,     \* what the other transactions of the account leave
  notified,  \* success notifications sent, saturating at 2
  claims,    \* how often each re-initiation attempt was claimed, saturating at 2
  crashes

vars == <<tx, lock, handler, run, hook, bank, event, late, funds, notified, claims, crashes>>

Status    == {"none", "processing", "success", "failed"}
Row       == [status : Status, retry : 0 .. MaxRetries, review : BOOLEAN]
NoRow     == [status |-> "none", retry |-> 0, review |-> FALSE]
\* The retry count an attempt to re-initiate starts from.
Attempt   == 0 .. MaxRetries - 1

BankState == {"unknown", "accepted", "paid", "failed", "refunded"}
Event     == {"payout_success", "payout_failed", "payout_refund"}

\* What a POST /v1/transfers/bank comes back as: a SUCCESS body, another
\* 2xx body, an error saying the payout account is low, any other error.
PostReply == {"SUCCESS", "other", "insufficient", "error"}

\* What the status query comes back as; "denied" stands for codes 400 and 401,
\* "unclear" for a pending body, a network failure or any other error.
QueryReply == {"SUCCESS", "PAYMENT_FAILED", "404", "denied", "unclear"}

Handler == [pc : {"idle", "locked", "checked", "reserved", "posting", "done"},
            reply : PostReply \cup {"none"}]

RunState == [pc    : {"idle", "next", "verified", "notify", "retry", "locked", "claiming", "posting"},
             todo  : SUBSET Withdrawal,
             copy  : [Withdrawal -> Row],
             at    : Withdrawal \cup {NoOne},
             reply : QueryReply \cup PostReply \cup {"none"}]

HookState == [pc    : {"idle", "read", "notify"},
              at    : Withdrawal \cup {NoOne},
              event : Event \cup {"none"},
              copy  : Row]

IdleRun  == [pc |-> "idle", todo |-> {}, copy |-> [w \in Withdrawal |-> NoRow],
             at |-> NoOne, reply |-> "none"]
IdleHook == [pc |-> "idle", at |-> NoOne, event |-> "none", copy |-> NoRow]

-----------------------------------------------------------------------------
(* The two SQL aggregates.                                                 *)

Sum(S) == SumFunctionOnSet(Amount, S)

Committed == {q \in Request : tx[q].status \in {"success", "processing"}}

\* Credits less debits that are success or processing.
Balance(without) == funds - Sum(Committed \ without)

\* Mutant: only paid withdrawals count towards the day.
BugTodayPaidOnly == Sum({w \in Withdrawal : tx[w].status = "success"})

\* getWithdrawnToday: the model covers one calendar day.
WithdrawnToday == Sum(Committed \cap Withdrawal)

\* The observers count up to this bound and stay there.
MaxCount == 2
More(n)  == IF n < MaxCount THEN n + 1 ELSE MaxCount

-----------------------------------------------------------------------------
Init ==
  /\ tx       = [q \in Request |-> NoRow]
  /\ lock     = NoOne
  /\ handler  = [q \in Request |-> [pc |-> "idle", reply |-> "none"]]
  /\ run      = [r \in Run |-> IdleRun]
  /\ hook     = [h \in Hook |-> IdleHook]
  /\ bank     = [w \in Withdrawal |-> "unknown"]
  /\ event    = [w \in Withdrawal |-> {}]
  /\ late     = {}
  /\ funds    = Funds
  /\ notified = [w \in Withdrawal |-> 0]
  /\ claims   = [w \in Withdrawal |-> [n \in Attempt |-> 0]]
  /\ crashes  = 0

external == <<bank, event, late, funds>>
observer == <<notified, claims>>

Announce(w) ==
  \/ notified' = [notified EXCEPT ![w] = More(@)]
  \/ "unheard" \in Env /\ UNCHANGED notified

-----------------------------------------------------------------------------
(* withdrawal() and transfer()                                             *)

\* Mutant: the user row is not locked.
BugHandlerLock(q) ==
  /\ handler[q].pc = "idle"
  /\ handler' = [handler EXCEPT ![q].pc = "locked"]
  /\ UNCHANGED <<tx, lock, run, hook, external, observer, crashes>>

HandlerLock(q) ==
  /\ handler[q].pc = "idle"
  /\ lock = NoOne
  /\ lock' = q
  /\ handler' = [handler EXCEPT ![q].pc = "locked"]
  /\ UNCHANGED <<tx, run, hook, external, observer, crashes>>

\* Balance and, for a withdrawal, the daily cap, read under the lock; a
\* refusal rolls back.
HandlerCheck(q) ==
  /\ handler[q].pc = "locked"
  /\ LET allowed == /\ Balance({}) >= Amount[q]
                    /\ q \in Withdrawal => Amount[q] <= Ceiling[q] - WithdrawnToday
     IN /\ handler' = [handler EXCEPT ![q].pc = IF allowed THEN "checked" ELSE "done"]
        /\ lock' = IF allowed THEN lock ELSE NoOne
  /\ UNCHANGED <<tx, run, hook, external, observer, crashes>>

\* Insert the debit and commit.  A transfer's debit is final at once; a
\* withdrawal's is processing until Nomba has spoken.
HandlerReserve(q) ==
  /\ handler[q].pc = "checked"
  /\ tx' = [tx EXCEPT ![q].status = IF q \in Transfer THEN "success" ELSE "processing"]
  /\ lock' = NoOne
  /\ handler' = [handler EXCEPT ![q].pc = IF q \in Transfer THEN "done" ELSE "reserved"]
  /\ UNCHANGED <<run, hook, external, observer, crashes>>

\* No stored access token and none can be generated: the request fails, the
\* committed row stays.
HandlerNoToken(w) ==
  /\ handler[w].pc = "reserved"
  /\ handler' = [handler EXCEPT ![w].pc = "done"]
  /\ UNCHANGED <<tx, lock, run, hook, external, observer, crashes>>

HandlerPost(w) ==
  /\ handler[w].pc = "reserved"
  /\ handler' = [handler EXCEPT ![w].pc = "posting"]
  /\ UNCHANGED <<tx, lock, run, hook, external, observer, crashes>>

\* The handler's last step: what it writes depends on the answer to the call.
HandlerEnd(w, reply) ==
  /\ handler[w].pc = "posting"
  /\ handler[w].reply = reply
  /\ handler' = [handler EXCEPT ![w] = [pc |-> "done", reply |-> "none"]]
  /\ UNCHANGED <<lock, run, hook, external, observer, crashes>>

\* retry = trans.retry + 1, from the row as it was inserted.
HandlerAccepted(w) ==
  /\ HandlerEnd(w, "SUCCESS")
  /\ tx' = [tx EXCEPT ![w].retry = 1]

\* Any other body fails the withdrawal; metadata is rebuilt from the inserted row.
HandlerRefused(w) ==
  /\ HandlerEnd(w, "other")
  /\ tx' = [tx EXCEPT ![w] = [status |-> "failed", retry |-> 1, review |-> FALSE]]

\* The payout account is low: only the metadata is rewritten.
HandlerQueued(w) ==
  /\ HandlerEnd(w, "insufficient")
  /\ tx' = [tx EXCEPT ![w].review = FALSE]

\* The user gets an error; the row stays processing.
HandlerError(w) ==
  /\ HandlerEnd(w, "error")
  /\ UNCHANGED tx

-----------------------------------------------------------------------------
(* verifyTransactionJob and retryWithdrawal                                *)

\* All processing withdrawals are read at once; the loop works on these copies.
\* A run that finds no access token changes nothing: it is a stuttering step.
RunLoad(r) ==
  LET rows == {w \in Withdrawal :
                 /\ tx[w].status = "processing"
                 /\ "slowInitiation" \in Env \/ handler[w].pc = "done"}
  IN /\ run[r].pc = "idle"
     /\ rows # {}
     /\ run' = [run EXCEPT ![r] =
                  [IdleRun EXCEPT !.pc = "next", !.todo = rows,
                     !.copy = [w \in Withdrawal |-> IF w \in rows THEN tx[w] ELSE NoRow]]]
     /\ UNCHANGED <<tx, lock, handler, hook, external, observer, crashes>>

\* The run's record once it is done with the row it is at.
Proceed(rec) ==
  IF rec.todo = {rec.at} THEN IdleRun
  ELSE [rec EXCEPT !.pc = "next", !.todo = @ \ {rec.at}, !.at = NoOne, !.reply = "none",
                   !.copy[rec.at] = NoRow]

QueryAnswers(w) ==
  {"unclear"} \cup (IF "authError" \in Env THEN {"denied"} ELSE {}) \cup
  CASE bank[w] = "unknown"  -> {"404"}
    [] bank[w] = "accepted" -> {}
    [] bank[w] = "paid"     -> {"SUCCESS"}
    [] OTHER                -> {"PAYMENT_FAILED"}

RunVerify(r, w, answer) ==
  /\ run[r].pc = "next"
  /\ w \in run[r].todo
  /\ answer \in QueryAnswers(w)
  /\ run' = [run EXCEPT ![r] = [@ EXCEPT !.pc = "verified", !.at = w, !.reply = answer]]
  /\ UNCHANGED <<tx, lock, handler, hook, external, observer, crashes>>

\* Mutant: the test that decides about the notification is inverted.
BugRunSettle(r) ==
  LET w == run[r].at
      settledHere == run[r].copy[w].status = "success"
  IN /\ run[r].pc = "verified" /\ run[r].reply = "SUCCESS"
     /\ tx' = [tx EXCEPT ![w].status = "success", ![w].review = run[r].copy[w].review]
     /\ run' = [run EXCEPT ![r] = IF settledHere THEN [@ EXCEPT !.pc = "notify"] ELSE Proceed(@)]
     /\ UNCHANGED <<lock, handler, hook, external, observer, crashes>>

\* SUCCESS: settle the row; settledHere looks at the copy.
RunSettle(r) ==
  LET w == run[r].at
      settledHere == run[r].copy[w].status # "success"
  IN /\ run[r].pc = "verified" /\ run[r].reply = "SUCCESS"
     /\ tx' = [tx EXCEPT ![w].status = "success", ![w].review = run[r].copy[w].review]
     /\ run' = [run EXCEPT ![r] = IF settledHere THEN [@ EXCEPT !.pc = "notify"] ELSE Proceed(@)]
     /\ UNCHANGED <<lock, handler, hook, external, observer, crashes>>

\* notifyWithdrawalSuccess says nothing to a deleted user, and swallows errors.
RunNotify(r) ==
  /\ run[r].pc = "notify"
  /\ Announce(run[r].at)
  /\ run' = [run EXCEPT ![r] = Proceed(@)]
  /\ UNCHANGED <<tx, lock, handler, hook, external, claims, crashes>>

\* PAYMENT_FAILED, or an error with code 400 or 401.
RunFail(r) ==
  LET w == run[r].at
  IN /\ run[r].pc = "verified" /\ run[r].reply \in {"PAYMENT_FAILED", "denied"}
     /\ tx' = [tx EXCEPT ![w].status = "failed", ![w].review = run[r].copy[w].review]
     /\ run' = [run EXCEPT ![r] = Proceed(@)]
     /\ UNCHANGED <<lock, handler, hook, external, observer, crashes>>

RunLeave(r) ==
  /\ run[r].pc = "verified" /\ run[r].reply = "unclear"
  /\ run' = [run EXCEPT ![r] = Proceed(@)]
  /\ UNCHANGED <<tx, lock, handler, hook, external, observer, crashes>>

\* Mutant: the cap is reached but nothing is flagged.
BugRunPark(r) ==
  /\ run[r].pc = "verified" /\ run[r].reply = "404"
  /\ run[r].copy[run[r].at].retry >= MaxRetries
  /\ run' = [run EXCEPT ![r] = Proceed(@)]
  /\ UNCHANGED <<tx, lock, handler, hook, external, observer, crashes>>

\* 404 at the retry cap: flag for manual review unless the copy is flagged.
RunPark(r) ==
  LET w == run[r].at
  IN /\ run[r].pc = "verified" /\ run[r].reply = "404"
     /\ run[r].copy[w].retry >= MaxRetries
     /\ tx' = IF run[r].copy[w].review THEN tx ELSE [tx EXCEPT ![w].review = TRUE]
     /\ run' = [run EXCEPT ![r] = Proceed(@)]
     /\ UNCHANGED <<lock, handler, hook, external, observer, crashes>>

\* 404 below the cap: retryWithdrawal takes the user row lock ...
RunLock(r) ==
  /\ run[r].pc = "verified" /\ run[r].reply = "404"
  /\ run[r].copy[run[r].at].retry < MaxRetries
  /\ lock = NoOne
  /\ lock' = r
  /\ run' = [run EXCEPT ![r] = [@ EXCEPT !.pc = "locked", !.reply = "none"]]
  /\ UNCHANGED <<tx, handler, hook, external, observer, crashes>>

\* Mutant: the retry count is not compared with the copy.
BugRunRecheck(r) ==
  LET w == run[r].at
      fresh == tx[w].status = "processing" /\ Balance({w}) >= Amount[w]
  IN /\ run[r].pc = "locked"
     /\ run' = [run EXCEPT ![r] = IF fresh THEN [@ EXCEPT !.pc = "claiming"] ELSE Proceed(@)]
     /\ lock' = IF fresh THEN lock ELSE NoOne
     /\ UNCHANGED <<tx, handler, hook, external, observer, crashes>>

\* ... re-reads the row and the balance without this row ...
RunRecheck(r) ==
  LET w == run[r].at
      fresh == /\ tx[w].status = "processing"
               /\ tx[w].retry = run[r].copy[w].retry
               /\ Balance({w}) >= Amount[w]
  IN /\ run[r].pc = "locked"
     /\ run' = [run EXCEPT ![r] = IF fresh THEN [@ EXCEPT !.pc = "claiming"] ELSE Proceed(@)]
     /\ lock' = IF fresh THEN lock ELSE NoOne
     /\ UNCHANGED <<tx, handler, hook, external, observer, crashes>>

\* ... claims the attempt, commits, and only then posts to Nomba.
RunClaim(r) ==
  LET w == run[r].at
  IN /\ run[r].pc = "claiming"
     /\ tx' = [tx EXCEPT ![w].retry = run[r].copy[w].retry + 1]
     /\ claims' = [claims EXCEPT ![w][run[r].copy[w].retry] = More(@)]
     /\ lock' = NoOne
     /\ run' = [run EXCEPT ![r].pc = "posting"]
     /\ UNCHANGED <<handler, hook, external, notified, crashes>>

\* Mutants: an unaccepted re-initiation fails the withdrawal; the stale entity
\* is saved whole; an accepted POST counts as paid.
BugRunReplyFails(r) ==
  /\ run[r].pc = "posting" /\ run[r].reply # "none"
  /\ tx' = IF run[r].reply = "other" THEN [tx EXCEPT ![run[r].at].status = "failed"] ELSE tx
  /\ run' = [run EXCEPT ![r] = Proceed(@)]
  /\ UNCHANGED <<lock, handler, hook, external, observer, crashes>>
BugRunReplySaves(r) ==
  /\ run[r].pc = "posting" /\ run[r].reply # "none"
  /\ tx' = [tx EXCEPT ![run[r].at] = run[r].copy[run[r].at]]
  /\ run' = [run EXCEPT ![r] = Proceed(@)]
  /\ UNCHANGED <<lock, handler, hook, external, observer, crashes>>
BugRunReplyPays(r) ==
  /\ run[r].pc = "posting" /\ run[r].reply # "none"
  /\ tx' = IF run[r].reply = "SUCCESS" THEN [tx EXCEPT ![run[r].at].status = "success"] ELSE tx
  /\ run' = [run EXCEPT ![r] = Proceed(@)]
  /\ UNCHANGED <<lock, handler, hook, external, observer, crashes>>

\* SUCCESS only stores the session id, a thrown error is caught by the loop;
\* any other body is kept in metadata built from the copy.
RunReply(r) ==
  LET w == run[r].at
  IN /\ run[r].pc = "posting" /\ run[r].reply # "none"
     /\ tx' = IF run[r].reply = "other" THEN [tx EXCEPT ![w].review = run[r].copy[w].review] ELSE tx
     /\ run' = [run EXCEPT ![r] = Proceed(@)]
     /\ UNCHANGED <<lock, handler, hook, external, observer, crashes>>

-----------------------------------------------------------------------------
(* nombaTransferWebhook                                                    *)

HookRead(h, w, e) ==
  /\ hook[h].pc = "idle"
  /\ e \in event[w]
  /\ hook' = [hook EXCEPT ![h] = [pc |-> "read", at |-> w, event |-> e, copy |-> tx[w]]]
  /\ UNCHANGED <<tx, lock, handler, run, external, observer, crashes>>

HookSuccess(h) ==
  LET w == hook[h].at
      alreadySettled == hook[h].copy.status = "success"
  IN /\ hook[h].pc = "read" /\ hook[h].event = "payout_success"
     /\ tx' = [tx EXCEPT ![w].status = "success", ![w].review = hook[h].copy.review]
     /\ hook' = [hook EXCEPT ![h] = IF alreadySettled THEN IdleHook ELSE [@ EXCEPT !.pc = "notify"]]
     /\ UNCHANGED <<lock, handler, run, external, observer, crashes>>

HookNotify(h) ==
  /\ hook[h].pc = "notify"
  /\ Announce(hook[h].at)
  /\ hook' = [hook EXCEPT ![h] = IdleHook]
  /\ UNCHANGED <<tx, lock, handler, run, external, claims, crashes>>

HookFail(h) ==
  LET w == hook[h].at
  IN /\ hook[h].pc = "read" /\ hook[h].event \in {"payout_failed", "payout_refund"}
     /\ tx' = [tx EXCEPT ![w].status = "failed", ![w].review = hook[h].copy.review]
     /\ hook' = [hook EXCEPT ![h] = IdleHook]
     /\ UNCHANGED <<lock, handler, run, external, observer, crashes>>

-----------------------------------------------------------------------------
(* Nomba                                                                   *)

Posting == {w \in Withdrawal : handler[w].pc = "posting" /\ handler[w].reply = "none"}
             \cup {r \in Run : run[r].pc = "posting" /\ run[r].reply = "none"}

PayoutOf(a) == IF a \in Run THEN run[a].at ELSE a

Answer(a, reply) ==
  IF a \in Run
  THEN run' = [run EXCEPT ![a].reply = reply] /\ UNCHANGED handler
  ELSE handler' = [handler EXCEPT ![a].reply = reply] /\ UNCHANGED run

\* An unknown reference is accepted; the answer may get lost.
NombaAccept(a) ==
  /\ a \in Posting
  /\ bank[PayoutOf(a)] = "unknown"
  /\ bank' = [bank EXCEPT ![PayoutOf(a)] = "accepted"]
  /\ \E reply \in {"SUCCESS", "error"} : Answer(a, reply)
  /\ UNCHANGED <<tx, lock, hook, event, late, funds, observer, crashes>>

\* Any reference may be turned down, a known one always is.
NombaTurnDown(a) ==
  /\ a \in Posting
  /\ \E reply \in {"other", "insufficient"} : Answer(a, reply)
  /\ UNCHANGED <<tx, lock, hook, external, observer, crashes>>

\* The connection breaks; the request may still arrive later.
PostBroken(a) ==
  /\ a \in Posting
  /\ Answer(a, "error")
  /\ late' \in {late, late \cup {PayoutOf(a)}}
  /\ UNCHANGED <<tx, lock, hook, bank, event, funds, observer, crashes>>

NombaLate(w) ==
  /\ w \in late
  /\ late' = late \ {w}
  /\ bank' = IF bank[w] = "unknown" THEN [bank EXCEPT ![w] = "accepted"] ELSE bank
  /\ UNCHANGED <<tx, lock, handler, run, hook, event, funds, observer, crashes>>

NombaPay(w) ==
  /\ bank[w] = "accepted"
  /\ bank' = [bank EXCEPT ![w] = "paid"]
  /\ event' = [event EXCEPT ![w] = @ \cup {"payout_success"}]
  /\ UNCHANGED <<tx, lock, handler, run, hook, late, funds, observer, crashes>>

NombaReject(w) ==
  /\ bank[w] = "accepted"
  /\ bank' = [bank EXCEPT ![w] = "failed"]
  /\ event' = [event EXCEPT ![w] = @ \cup {"payout_failed"}]
  /\ UNCHANGED <<tx, lock, handler, run, hook, late, funds, observer, crashes>>

NombaRefund(w) ==
  /\ "refund" \in Env
  /\ bank[w] = "paid"
  /\ bank' = [bank EXCEPT ![w] = "refunded"]
  /\ event' = [event EXCEPT ![w] = @ \cup {"payout_refund"}]
  /\ UNCHANGED <<tx, lock, handler, run, hook, late, funds, observer, crashes>>

-----------------------------------------------------------------------------
\* Purchases debit the account without its row lock, and deposits are put on
\* hold, fail or are confirmed.
OthersSpend ==
  /\ "spend" \in Env
  /\ funds' \in 0 .. Funds
  /\ UNCHANGED <<tx, lock, handler, run, hook, bank, event, late, observer, crashes>>

\* The process restarts: open transactions roll back, every execution in
\* progress ends, and a request already on the wire may still arrive.
Crash ==
  /\ crashes < MaxCrashes
  /\ crashes' = crashes + 1
  /\ handler' = [q \in Request |-> IF handler[q].pc = "idle" THEN handler[q]
                                   ELSE [pc |-> "done", reply |-> "none"]]
  /\ run' = [r \in Run |-> IdleRun]
  /\ hook' = [h \in Hook |-> IdleHook]
  /\ lock' = NoOne
  /\ \E S \in SUBSET {PayoutOf(a) : a \in Posting} : late' = late \cup S
  /\ UNCHANGED <<tx, bank, event, funds, observer>>

HandlerStep(q) == HandlerLock(q) \/ HandlerCheck(q) \/ HandlerReserve(q)

PayoutStep(w) ==
  \/ HandlerNoToken(w) \/ HandlerPost(w) \/ HandlerAccepted(w)
  \/ HandlerRefused(w) \/ HandlerQueued(w) \/ HandlerError(w)

RunStep(r) ==
  \/ RunLoad(r)
  \/ \E w \in Withdrawal, answer \in QueryReply : RunVerify(r, w, answer)
  \/ RunSettle(r) \/ RunNotify(r) \/ RunFail(r) \/ RunLeave(r) \/ RunPark(r)
  \/ RunLock(r) \/ RunRecheck(r) \/ RunClaim(r) \/ RunReply(r)

HookStep(h) ==
  \/ \E w \in Withdrawal, e \in Event : HookRead(h, w, e)
  \/ HookSuccess(h) \/ HookNotify(h) \/ HookFail(h)

NombaAnswer(a) == NombaAccept(a) \/ NombaTurnDown(a) \/ PostBroken(a)

NombaStep ==
  \/ \E a \in Withdrawal \cup Run : NombaAnswer(a)
  \/ \E w \in Withdrawal : NombaLate(w) \/ NombaPay(w) \/ NombaReject(w) \/ NombaRefund(w)

Next ==
  \/ \E q \in Request : HandlerStep(q)
  \/ \E w \in Withdrawal : PayoutStep(w)
  \/ \E r \in Run : RunStep(r)
  \/ \E h \in Hook : HookStep(h)
  \/ NombaStep
  \/ OthersSpend
  \/ Crash

Spec == Init /\ [][Next]_vars

-----------------------------------------------------------------------------
(* Fairness.  The runtime finishes what it has started, the interval timer *)
(* starts runs for ever, a blocked row lock is granted in the end, Nomba   *)
(* answers every POST and decides every accepted payout, and a status      *)
(* query that keeps being repeated gets a clear answer some time.          *)

ClearAnswer(r, w) == \E answer \in QueryReply \ {"unclear"} : RunVerify(r, w, answer)

Fairness ==
  /\ \A q \in Request : WF_vars(HandlerStep(q))
  /\ \A w \in Withdrawal : WF_vars(PayoutStep(w))
  /\ \A r \in Run : /\ WF_vars(RunStep(r))
                    /\ SF_vars(RunLock(r))
                    /\ \A w \in Withdrawal : SF_vars(ClearAnswer(r, w))
  /\ \A h \in Hook : WF_vars(HookSuccess(h) \/ HookNotify(h) \/ HookFail(h))
  /\ \A a \in Withdrawal \cup Run : WF_vars(NombaAnswer(a))
  /\ \A w \in Withdrawal : WF_vars(NombaPay(w) \/ NombaReject(w))

FairSpec == Spec /\ Fairness

-----------------------------------------------------------------------------
(* Properties.                                                             *)

\* Every variable keeps its type: the rows, the phases of each execution and
\* the observers stay in their sets.
TypeOK ==
  /\ tx \in [Request -> Row]
  /\ lock \in Actor \cup {NoOne}
  /\ handler \in [Request -> Handler]
  /\ run \in [Run -> RunState]
  /\ hook \in [Hook -> HookState]
  /\ bank \in [Withdrawal -> BankState]
  /\ event \in [Withdrawal -> SUBSET Event]
  /\ late \subseteq Withdrawal
  /\ funds \in 0 .. Funds
  /\ notified \in [Withdrawal -> 0 .. MaxCount]
  /\ claims \in [Withdrawal -> [Attempt -> 0 .. MaxCount]]
  /\ crashes \in 0 .. MaxCrashes

\* The account is never overdrawn: success and processing debits together stay
\* within the funds, however withdrawals, transfers, retries and settlements
\* interleave (what the user row lock in withdrawal(), transfer() and
\* retryWithdrawal() is for).
NoOverdraft == Balance({}) >= 0

\* When a withdrawal is reserved, the day's withdrawals that are paid or may
\* still be paid, itself included, stay within the ceiling its request was
\* measured against (the daily cap of withdrawal(), read before the insert).
WithinDailyCap ==
  [][\A w \in Withdrawal :
       tx[w].status = "none" /\ tx'[w].status # "none"
       => Sum({v \in Withdrawal : tx'[v].status \in {"success", "processing"}}) <= Ceiling[w]]_vars

\* A payout Nomba has accepted or paid keeps its debit: the row is not failed,
\* so the amount is not spendable again (withdrawal(), verifyTransactionJob and
\* the webhook all write status without the row lock).
PaidStaysDebited ==
  \A w \in Withdrawal :
    bank[w] \in {"accepted", "paid"} => tx[w].status \in {"processing", "success"}

\* Only a payout that Nomba has really paid is shown to the user as successful,
\* by the row or by a notification, whatever answers were stale by then.
SuccessOnlyIfPaid ==
  \A w \in Withdrawal :
    tx[w].status = "success" \/ notified[w] > 0 => bank[w] \in {"paid", "refunded"}

\* An attempt to re-initiate a withdrawal is claimed by one run only, however
\* runs overlap, so at most MAX_WITHDRAWAL_RETRIES re-initiations are posted
\* (the claim retryWithdrawal commits before it calls Nomba).
AttemptClaimedOnce ==
  \A w \in Withdrawal : \A n \in Attempt : claims[w][n] <= 1

\* As long as the account goes on covering it in the end.  retryWithdrawal leaves
\* a withdrawal that the account does not cover as it is: it is not sent again,
\* not counted, and so not flagged either.
EventuallyResolved ==
  \A w \in Withdrawal :
    <>[](Balance({w}) >= Amount[w]) =>
      (tx[w].status = "processing" ~> (tx[w].status \in {"success", "failed"} \/ tx[w].review))

PaidIsRecorded ==
  \A w \in Withdrawal : bank[w] = "paid" ~> (tx[w].status = "success" \/ bank[w] = "refunded")

\* Every withdrawal the account has paid for is resolved: it succeeds, fails or
\* is flagged for manual review by the verification job, unless other features
\* keep taking the funds it needs; and a payout Nomba has paid, and does not take
\* back, is recorded as successful in the end, even when the process restarted
\* between the POST and its answer and no webhook came.
PayoutsSettle == EventuallyResolved /\ PaidIsRecorded

\* Every payout that becomes successful is announced to the user, whichever of
\* the job and the webhook settles it, unless the process restarted or the
\* announcement itself failed (unheard).
SuccessIsAnnounced ==
  \A w \in Withdrawal : tx[w].status = "success" ~> (notified[w] > 0 \/ crashes > 0)

\* The account gets what PayoutLedger promises: a final status is final though
\* it is written from stale copies, what is given back never leaves afterwards,
\* and what left is never given back.
Ledger == INSTANCE PayoutLedger WITH
  status <- [q \in Request |-> tx[q].status],
  left   <- {w \in Withdrawal : bank[w] \in {"paid", "refunded"}}

ImplementsPayoutLedger == Ledger!Spec
=============================================================================
