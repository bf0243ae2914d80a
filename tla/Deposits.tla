------------------------------ MODULE Deposits ------------------------------
(***************************************************************************)
(* Crypto deposits announced by Quidax webhooks: handleQuidaxWebhook of    *)
(* public.service.ts with the handlers it dispatches to.  An event is      *)
(* claimed by inserting a marker whose hash is unique, and the deposit     *)
(* itself has a webhooks row, also unique, whose id ties the deposit's     *)
(* transactions row to it.  Every statement is its own database            *)
(* transaction, and deliveries run concurrently.                           *)
(***************************************************************************)
EXTENDS Integers, FiniteSets

CONSTANTS
  Deposit,     \* deposits at Quidax
  Worker,      \* deliveries that may be in progress at the same time
  NoDeposit,   \* no deposit being handled
  Known,       \* deposits whose address belongs to a wallet row
  Closed,      \* deposits of a soft-deleted account: wallet.user is null
  Exempt,      \* deposits in a currency without a deposit fee
  MaxErrors,   \* bound on database statements that fail
  MaxCrashes,  \* bound on process restarts
  Env          \* environment behaviours admitted beyond the ordinary ones

ASSUME ConstantsAssumption ==
  /\ NoDeposit \notin Deposit
  /\ Known \subseteq Deposit /\ Closed \subseteq Known /\ Exempt \subseteq Deposit
  /\ MaxErrors \in Nat /\ MaxCrashes \in Nat
  \* hold: Quidax may put a deposit on hold before it decides about it.
  \* noPrice: the price service or the exchange rate may be missing.
  /\ Env \subseteq {"hold", "noPrice"}

VARIABLES
  quidax,   \* what has become of each deposit at Quidax
  sent,     \* events Quidax has sent, each delivered any number of times
  acked,    \* events Quidax has had a 2xx answer for
  marker,   \* webhooks rows claiming an event
  hooked,   \* deposits with a webhooks row of their own
  tx,       \* the deposits' transactions rows: status, and whether an amount is set
  rows,     \* how many transactions rows each deposit has, saturating at 2
  fees,     \* fee debits per deposit, saturating at 2
  worker,   \* the deliveries in progress
  errors,
  crashes

vars == <<quidax, sent, acked, marker, hooked, tx, rows, fees, worker, errors, crashes>>
bank == <<quidax, sent>>

\* "failed" stands for deposit.failed_aml and deposit.rejected.
Event  == {"confirmation", "successful", "on_hold", "failed"}
Status == {"none", "processing", "pending", "success", "failed"}
Row    == [status : Status, valued : BOOLEAN]

Delivery == [pc : {"idle", "claim", "look", "hook", "insert", "update", "fee", "mail", "unclaim"},
             at : Deposit \cup {NoDeposit}, event : Event \cup {"none"}, priced : BOOLEAN]
Idle     == [pc |-> "idle", at |-> NoDeposit, event |-> "none", priced |-> FALSE]

More(n) == IF n < 2 THEN n + 1 ELSE 2

Init ==
  /\ quidax = [d \in Deposit |-> "none"]
  /\ sent = [d \in Deposit |-> {}]
  /\ acked = [d \in Deposit |-> {}]
  /\ marker = {}
  /\ hooked = {}
  /\ tx = [d \in Deposit |-> [status |-> "none", valued |-> FALSE]]
  /\ rows = [d \in Deposit |-> 0]
  /\ fees = [d \in Deposit |-> 0]
  /\ worker = [w \in Worker |-> Idle]
  /\ errors = 0
  /\ crashes = 0

At(w)    == worker[w].at
EventOf(w) == worker[w].event
Goto(w, pc) == worker' = [worker EXCEPT ![w].pc = pc]

Acknowledge(d, e) == acked' = [acked EXCEPT ![d] = @ \cup {e}]

\* The handler returns and Quidax gets its 2xx answer.
Finish(w) == worker' = [worker EXCEPT ![w] = Idle] /\ Acknowledge(At(w), EventOf(w))

\* On to the next statement, or done when there is none.
Continue(w, pc) ==
  IF pc = "done" THEN Finish(w) ELSE Goto(w, pc) /\ UNCHANGED acked

-----------------------------------------------------------------------------
(* handleQuidaxWebhook: the marker                                         *)

Deliver(w, d, e) ==
  /\ worker[w].pc = "idle"
  /\ e \in sent[d]
  /\ IF <<d, e>> \in marker
     THEN Acknowledge(d, e) /\ UNCHANGED worker
     ELSE /\ worker' = [worker EXCEPT ![w] = [Idle EXCEPT !.pc = "claim", !.at = d, !.event = e]]
          /\ UNCHANGED acked
  /\ UNCHANGED <<bank, marker, hooked, tx, rows, fees, errors, crashes>>

\* Mutant: the marker's hash is not unique.
BugClaim(w) ==
  /\ worker[w].pc = "claim"
  /\ marker' = marker \cup {<<At(w), EventOf(w)>>}
  /\ Goto(w, "look")
  /\ UNCHANGED <<bank, acked, hooked, tx, rows, fees, errors, crashes>>

\* A second marker is rejected by the unique hash and the delivery is skipped.
Claim(w) ==
  LET key == <<At(w), EventOf(w)>>
  IN /\ worker[w].pc = "claim"
     /\ Continue(w, IF key \in marker THEN "done" ELSE "look")
     /\ marker' = marker \cup {key}
     /\ UNCHANGED <<bank, hooked, tx, rows, fees, errors, crashes>>

\* A handler has thrown: the marker is removed and Quidax gets an error.
Unclaim(w) ==
  /\ worker[w].pc = "unclaim"
  /\ marker' = marker \ {<<At(w), EventOf(w)>>}
  /\ worker' = [worker EXCEPT ![w] = Idle]
  /\ UNCHANGED <<bank, acked, hooked, tx, rows, fees, errors, crashes>>

-----------------------------------------------------------------------------
(* What each handler does first: it reads the wallet and the webhooks row. *)

Look(w, e, next) ==
  /\ worker[w].pc = "look" /\ EventOf(w) = e
  /\ Continue(w, next)
  /\ UNCHANGED <<bank, marker, hooked, tx, rows, fees, errors, crashes>>

\* Mutant: the check guards only the webhooks row.
BugConfirmationLook(w) ==
  Look(w, "confirmation",
       IF At(w) \notin Known THEN "done" ELSE IF At(w) \in hooked THEN "insert" ELSE "hook")

ConfirmationLook(w) ==
  Look(w, "confirmation", IF At(w) \in hooked \/ At(w) \notin Known THEN "done" ELSE "hook")

\* Mutant: a deposit that has a webhooks row is taken for handled.
BugSuccessfulLook(w) ==
  /\ At(w) \in Known
  /\ Look(w, "successful", IF At(w) \in hooked THEN "done" ELSE "hook")

\* Exchange rate and price are fetched as well; without either every amount is 0.
SuccessfulLook(w) ==
  /\ worker[w].pc = "look" /\ EventOf(w) = "successful" /\ At(w) \in Known
  /\ \E priced \in {TRUE} \cup (IF "noPrice" \in Env THEN {FALSE} ELSE {}) :
       worker' = [worker EXCEPT ![w].priced = priced,
                                ![w].pc = IF At(w) \in hooked THEN "update" ELSE "hook"]
  /\ UNCHANGED <<bank, acked, marker, hooked, tx, rows, fees, errors, crashes>>

SuccessfulUnknown(w) == At(w) \notin Known /\ Look(w, "successful", "done")

OnHoldLook(w) ==
  Look(w, "on_hold",
       IF At(w) \notin hooked THEN "hook" ELSE IF At(w) \in Known THEN "update" ELSE "done")

FailedLook(w) == Look(w, "failed", IF At(w) \in hooked THEN "update" ELSE "done")

-----------------------------------------------------------------------------
(* What the handlers write.                                                *)

\* Mutant: the hash of the webhooks row is not unique.
BugHookInsert(w) ==
  /\ worker[w].pc = "hook"
  /\ hooked' = hooked \cup {At(w)}
  /\ Continue(w, IF At(w) \in Known THEN "insert" ELSE "done")
  /\ UNCHANGED <<bank, marker, tx, rows, fees, errors, crashes>>

\* The webhooks row; the insert throws when another delivery was faster.
HookInsert(w) ==
  /\ worker[w].pc = "hook"
  /\ hooked' = hooked \cup {At(w)}
  /\ Continue(w, IF At(w) \in hooked THEN "unclaim"
                 ELSE IF At(w) \in Known THEN "insert" ELSE "done")
  /\ UNCHANGED <<bank, marker, tx, rows, fees, errors, crashes>>

\* Mutant: the confirmation does not name a status, so the column's default counts.
BugOpening(e) == IF e = "on_hold" THEN "pending" ELSE "success"

\* The status a new transactions row gets.
Opening(e) == [confirmation |-> "processing", successful |-> "success", on_hold |-> "pending"][e]

TxInsert(w) ==
  /\ worker[w].pc = "insert"
  /\ tx' = [tx EXCEPT ![At(w)] = [status |-> Opening(EventOf(w)), valued |-> worker[w].priced]]
  /\ rows' = [rows EXCEPT ![At(w)] = More(@)]
  /\ Continue(w, IF EventOf(w) = "successful" THEN "fee" ELSE "done")
  /\ UNCHANGED <<bank, marker, hooked, fees, errors, crashes>>

\* Only a processing row is upgraded; the fee follows in any case.
SuccessfulUpdate(w) ==
  /\ worker[w].pc = "update" /\ EventOf(w) = "successful"
  /\ tx' = IF tx[At(w)].status = "processing"
           THEN [tx EXCEPT ![At(w)] = [status |-> "success", valued |-> worker[w].priced]] ELSE tx
  /\ Goto(w, "fee")
  /\ UNCHANGED <<bank, acked, marker, hooked, rows, fees, errors, crashes>>

OtherStatus(e) == IF e = "on_hold" THEN "pending" ELSE "failed"

\* on_hold and the failures overwrite whatever status the row has.
OtherUpdate(w) ==
  /\ worker[w].pc = "update" /\ EventOf(w) \in {"on_hold", "failed"}
  /\ tx' = IF tx[At(w)].status = "none" THEN tx
           ELSE [tx EXCEPT ![At(w)].status = OtherStatus(EventOf(w))]
  /\ Finish(w)
  /\ UNCHANGED <<bank, marker, hooked, rows, fees, errors, crashes>>

Fee(w) ==
  /\ worker[w].pc = "fee"
  /\ fees' = IF worker[w].priced /\ At(w) \notin Exempt
             THEN [fees EXCEPT ![At(w)] = More(@)] ELSE fees
  /\ Goto(w, "mail")
  /\ UNCHANGED <<bank, acked, marker, hooked, tx, rows, errors, crashes>>

\* The mail reads wallet.user, which throws for a closed account; what follows
\* (notification, referral, sweep) cannot fail the handler any more.
Mail(w) ==
  /\ worker[w].pc = "mail"
  /\ Continue(w, IF At(w) \in Closed THEN "unclaim" ELSE "done")
  /\ UNCHANGED <<bank, marker, hooked, tx, rows, fees, errors, crashes>>

-----------------------------------------------------------------------------
(* Quidax, the database and the process                                    *)

\* Quidax moves a deposit on and sends the event.
Announce(d, from, to, e) ==
  /\ quidax[d] \in from
  /\ quidax' = [quidax EXCEPT ![d] = to]
  /\ sent' = [sent EXCEPT ![d] = @ \cup {e}]
  /\ UNCHANGED <<acked, marker, hooked, tx, rows, fees, worker, errors, crashes>>

Detect(d)  == Announce(d, {"none"}, "detected", "confirmation")
Hold(d)    == "hold" \in Env /\ Announce(d, {"none", "detected"}, "held", "on_hold")
Succeed(d) == Announce(d, {"none", "detected", "held"}, "successful", "successful")
Reject(d)  == Announce(d, {"none", "detected", "held"}, "rejected", "failed")

\* A statement fails.  Failing to insert the marker is taken for a duplicate;
\* failing to remove it is ignored; any other failure is thrown.
StatementFails(w) ==
  /\ errors < MaxErrors
  /\ errors' = errors + 1
  /\ \/ worker[w].pc = "claim" /\ Finish(w)
     \/ worker[w].pc = "unclaim" /\ worker' = [worker EXCEPT ![w] = Idle] /\ UNCHANGED acked
     \/ worker[w].pc \in {"look", "hook", "insert", "update", "fee"}
        /\ Goto(w, "unclaim") /\ UNCHANGED acked
  /\ UNCHANGED <<bank, marker, hooked, tx, rows, fees, crashes>>

Crash ==
  /\ crashes < MaxCrashes
  /\ crashes' = crashes + 1
  /\ worker' = [w \in Worker |-> Idle]
  /\ UNCHANGED <<bank, acked, marker, hooked, tx, rows, fees, errors>>

Handle(w) ==
  \/ Claim(w) \/ Unclaim(w)
  \/ ConfirmationLook(w) \/ SuccessfulLook(w) \/ SuccessfulUnknown(w) \/ OnHoldLook(w) \/ FailedLook(w)
  \/ HookInsert(w) \/ TxInsert(w) \/ SuccessfulUpdate(w) \/ OtherUpdate(w) \/ Fee(w) \/ Mail(w)

Next ==
  \/ \E w \in Worker, d \in Deposit, e \in Event : Deliver(w, d, e)
  \/ \E w \in Worker : Handle(w) \/ StatementFails(w)
  \/ \E d \in Deposit : Detect(d) \/ Hold(d) \/ Succeed(d) \/ Reject(d)
  \/ Crash

Spec == Init /\ [][Next]_vars

\* Quidax delivers an event again until it is acknowledged, and a delivery that
\* has been taken up goes on.
Fairness ==
  /\ \A d \in Deposit, e \in Event :
       SF_vars(e \notin acked[d] /\ \E w \in Worker : Deliver(w, d, e))
  /\ \A w \in Worker : WF_vars(Handle(w))

FairSpec == Spec /\ Fairness

-----------------------------------------------------------------------------
(* Properties.                                                             *)

\* Every variable keeps its type; statuses are those of TransactionStatusType.
TypeOK ==
  /\ quidax \in [Deposit -> {"none", "detected", "held", "successful", "rejected"}]
  /\ sent \in [Deposit -> SUBSET Event]
  /\ acked \in [Deposit -> SUBSET Event]
  /\ marker \subseteq Deposit \X Event
  /\ hooked \subseteq Deposit
  /\ tx \in [Deposit -> Row]
  /\ rows \in [Deposit -> 0 .. 2]
  /\ fees \in [Deposit -> 0 .. 2]
  /\ worker \in [Worker -> Delivery]
  /\ errors \in 0 .. MaxErrors
  /\ crashes \in 0 .. MaxCrashes

\* A deposit counts towards the balance only if Quidax has called it
\* successful, in whatever order and however often its events arrive.
CreditedOnlyIfSuccessful ==
  \A d \in Deposit : tx[d].status = "success" => quidax[d] = "successful"

\* A deposit has at most one transactions row, although two handlers may both
\* find it missing (the unique hash of the webhooks row decides).
DepositRowOnce == \A d \in Deposit : rows[d] <= 1

\* The deposit fee is taken at most once: the event "must be processed exactly
\* once" (the marker claimed in handleQuidaxWebhook).
FeeOnce == \A d \in Deposit : fees[d] <= 1

\* A credited deposit that Quidax never held stays credited: no event that is
\* late, repeated or retried after a failure takes the money back.
CreditStays ==
  [][\A d \in Deposit :
       tx[d].status = "success" /\ "on_hold" \notin sent[d] => tx'[d].status = "success"]_vars

\* A deposit Quidax has called successful is credited in the end, whether or
\* not its confirmation was handled before.
SuccessfulIsCredited ==
  \A d \in Known : quidax[d] = "successful" ~> tx[d].status = "success"
=============================================================================
