----------------------------- MODULE Purchases -----------------------------
(***************************************************************************)
(* Bill purchases of one account: the create handlers of purchases.service *)
(* (airtime, data, electricity), the two-minute job of cron.job.ts that    *)
(* verifies purchases in processing and re-initiates parked ones, and the  *)
(* provider VTPass, which accepts a request id at most once.  Nothing here *)
(* takes a lock; metadata is always written whole, from a copy.            *)
(***************************************************************************)
EXTENDS Integers, FiniteSets, Functions

CONSTANTS
  Purchase,    \* purchase requests of the account, one purchases row each
  Run,         \* executions of the verification job that may overlap
  NoPurchase,  \* no row being handled
  Price,       \* amount of each purchase; a data buyer sends the variation's price
  Checked,     \* airtime and data, whose create handlers compare it with the balance;
               \* the other purchases are electricity
  Funds,       \* successful credits less debits made by other features
  MaxRetries,  \* MAX_PURCHASE_RETRIES
  MaxCrashes,  \* bound on process restarts
  Env          \* environment behaviours admitted beyond the ordinary ones:
               \* lostAnswer: a call to VTPass may fail for the caller whatever VTPass
               \* did with it (network, or an answer without the expected fields);
               \* unreached: a pay request may fail before it gets there;
               \* slowWrite: an update nobody awaits may land after the awaited one
               \* that follows it;
               \* deletion: the user may delete the account

ASSUME ConstantsAssumption ==
  /\ MaxRetries \in Nat /\ MaxCrashes \in Nat
  /\ Run \cap Purchase = {} /\ NoPurchase \notin Purchase
  /\ Env \subseteq {"lostAnswer", "unreached", "slowWrite", "deletion"}

VARIABLES
  row,      \* the purchases rows: status, metadata.needs_initiation and .initiation_retries
  debit,    \* debit transactions written per purchase, saturating at 2
  create,   \* the create handlers
  run,      \* the job's executions: pc, rows still to visit, copies
  vt,       \* VTPass' record of each request id
  posts,    \* re-initiations that reached VTPass per purchase, saturating
  crashes,
  gone      \* the user has deleted the account (the row stays, with deleted_at set)

vars == <<row, debit, create, run, vt, posts, crashes, gone>>

Status == {"none", "pending", "processing", "processed", "failed"}
Row    == [status : Status, parked : BOOLEAN, retries : 0 .. MaxRetries]
NoRow  == [status |-> "none", parked |-> FALSE, retries |-> 0]

VtState  == {"unknown", "pending", "delivered", "failed"}

\* What a pay request comes back as: delivered, accepted and not delivered yet,
\* our VTPass account is low (018), any other refusal (014 included), thrown.
PayReply == {"delivered", "accepted", "low", "refused", "error"}

\* What a requery comes back as; "other" stands for every refusal and every
\* transaction status but delivered and pending, all of which are left alone.
Requery  == {"delivered", "pending", "other", "error"}

Handler  == [pc : {"idle", "checked", "paying", "done"}, reply : PayReply \cup {"none"}]
RunState == [pc : {"idle", "next", "requery", "paying", "mark", "debit", "insert"},
             todo : SUBSET Purchase, copy : [Purchase -> Row],
             at : Purchase \cup {NoPurchase}, reply : PayReply \cup {"none"}]
IdleRun  == [pc |-> "idle", todo |-> {}, copy |-> [p \in Purchase |-> NoRow],
             at |-> NoPurchase, reply |-> "none"]

More(n, max) == IF n < max THEN n + 1 ELSE max
MaxDebits    == 2
MaxPosts     == MaxRetries + MaxCrashes + 1

\* The account balance, these purchases' debits included.
Balance == Funds - FoldFunctionOnSet(+, 0, [p \in Purchase |-> debit[p] * Price[p]], Purchase)

Init ==
  /\ row     = [p \in Purchase |-> NoRow]
  /\ debit   = [p \in Purchase |-> 0]
  /\ create  = [p \in Purchase |-> [pc |-> "idle", reply |-> "none"]]
  /\ run     = [r \in Run |-> IdleRun]
  /\ vt      = [p \in Purchase |-> "unknown"]
  /\ posts   = [p \in Purchase |-> 0]
  /\ crashes = 0
  /\ gone    = FALSE

-----------------------------------------------------------------------------
(* createAirtime, createData, createElectricity                            *)

\* The guard in front of the handlers turns a deleted user away.
CreateCheck(p) ==
  /\ create[p].pc = "idle" /\ ~gone
  /\ create' = [create EXCEPT ![p].pc = IF p \in Checked /\ Balance < Price[p]
                                        THEN "done" ELSE "checked"]
  /\ UNCHANGED <<row, debit, run, vt, posts, crashes, gone>>

\* The pending row is saved on its own; then a transaction opens and VTPass is
\* called inside it.
CreateSave(p) ==
  /\ create[p].pc = "checked"
  /\ row' = [row EXCEPT ![p].status = "pending"]
  /\ create' = [create EXCEPT ![p].pc = "paying"]
  /\ UNCHANGED <<debit, run, vt, posts, crashes, gone>>

CreateEnd(p, reply) ==
  /\ create[p].pc = "paying" /\ create[p].reply = reply
  /\ create' = [create EXCEPT ![p] = [pc |-> "done", reply |-> "none"]]
  /\ UNCHANGED <<run, vt, posts, crashes, gone>>

\* One transaction: the row is processed and the debit written.
CreateDelivered(p) ==
  /\ CreateEnd(p, "delivered")
  /\ row' = [row EXCEPT ![p] = [NoRow EXCEPT !.status = "processed"]]
  /\ debit' = [debit EXCEPT ![p] = More(@, MaxDebits)]

\* Mutant: an accepted purchase is debited like a delivered one.
BugCreateAccepted(p) ==
  /\ CreateEnd(p, "accepted")
  /\ row' = [row EXCEPT ![p] = [NoRow EXCEPT !.status = "processing"]]
  /\ debit' = [debit EXCEPT ![p] = More(@, MaxDebits)]

CreateAccepted(p) ==
  /\ CreateEnd(p, "accepted")
  /\ row' = [row EXCEPT ![p] = [NoRow EXCEPT !.status = "processing"]]
  /\ UNCHANGED debit

\* Parked for the job.  process...Purchase has also started an update of the
\* metadata that nobody awaits: if it lands last it wipes the flag.
CreateParked(p) ==
  /\ CreateEnd(p, "low")
  /\ \E flag \in {TRUE} \cup (IF "slowWrite" \in Env THEN {FALSE} ELSE {}) :
       row' = [row EXCEPT ![p] = [status |-> "processing", parked |-> flag, retries |-> 0]]
  /\ UNCHANGED debit

\* Refused or thrown: rolled back, the row stays pending for ever.
CreateFailed(p) ==
  /\ CreateEnd(p, "refused") \/ CreateEnd(p, "error")
  /\ UNCHANGED <<row, debit>>

-----------------------------------------------------------------------------
(* verifyProcessingVtpassTransactions                                      *)

RunLoad(r) ==
  LET rows == {p \in Purchase : row[p].status = "processing"}
  IN /\ run[r].pc = "idle" /\ rows # {}
     /\ run' = [run EXCEPT ![r] =
          [IdleRun EXCEPT !.pc = "next", !.todo = rows,
             !.copy = [p \in Purchase |-> IF p \in rows THEN row[p] ELSE NoRow]]]
     /\ UNCHANGED <<row, debit, create, vt, posts, crashes, gone>>

\* The run's record once it is done with purchase p.
Proceed(rec, p) ==
  IF rec.todo = {p} THEN IdleRun
  ELSE [rec EXCEPT !.pc = "next", !.todo = @ \ {p}, !.copy[p] = NoRow,
                   !.at = NoPurchase, !.reply = "none"]

Copy(r) == run[r].copy[run[r].at]

RunTake(r, p) ==
  /\ run[r].pc = "next" /\ p \in run[r].todo
  /\ ~run[r].copy[p].parked
  /\ run' = [run EXCEPT ![r].pc = "requery", ![r].at = p]
  /\ UNCHANGED <<row, debit, create, vt, posts, crashes, gone>>

\* retryPurchaseInitiation: a parked purchase at the cap fails, and so does one
\* the balance no longer covers.
RunGiveUp(r, p) ==
  /\ run[r].pc = "next" /\ p \in run[r].todo
  /\ run[r].copy[p].parked
  /\ run[r].copy[p].retries >= MaxRetries \/ Balance < Price[p]
  /\ row' = [row EXCEPT ![p] = [run[r].copy[p] EXCEPT !.status = "failed", !.parked = FALSE]]
  /\ run' = [run EXCEPT ![r] = Proceed(@, p)]
  /\ UNCHANGED <<debit, create, vt, posts, crashes, gone>>

\* Electricity is posted with the user's telephone number.
UserMissing(p) == gone /\ p \notin Checked

\* Otherwise the same request id is posted again ...
RunPay(r, p) ==
  /\ run[r].pc = "next" /\ p \in run[r].todo
  /\ run[r].copy[p].parked
  /\ run[r].copy[p].retries < MaxRetries /\ Balance >= Price[p]
  /\ ~UserMissing(p)
  /\ run' = [run EXCEPT ![r].pc = "paying", ![r].at = p]
  /\ UNCHANGED <<row, debit, create, vt, posts, crashes, gone>>

\* ... or left as it is, not even counted, when there is no user to be found.
RunSkip(r, p) ==
  /\ run[r].pc = "next" /\ p \in run[r].todo
  /\ run[r].copy[p].parked
  /\ run[r].copy[p].retries < MaxRetries /\ Balance >= Price[p]
  /\ UserMissing(p)
  /\ run' = [run EXCEPT ![r] = Proceed(@, p)]
  /\ UNCHANGED <<row, debit, create, vt, posts, crashes, gone>>

\* The end of one purchase in the loop, when only its metadata is written.
RunNote(r, note) ==
  /\ row' = [row EXCEPT ![run[r].at].parked = note.parked, ![run[r].at].retries = note.retries]
  /\ run' = [run EXCEPT ![r] = Proceed(@, run[r].at)]
  /\ UNCHANGED <<debit, create, vt, posts, crashes, gone>>

\* Accepted: handed over to verification.
RunAccepted(r) ==
  /\ run[r].pc = "paying" /\ run[r].reply = "accepted"
  /\ RunNote(r, [Copy(r) EXCEPT !.parked = FALSE, !.retries = @ + 1])

\* Refused: the attempt is counted, unless the update that was not awaited
\* lands last and restores the copy.
RunRefused(r) ==
  /\ run[r].pc = "paying" /\ run[r].reply \in {"low", "refused"}
  /\ \/ RunNote(r, [Copy(r) EXCEPT !.retries = @ + 1])
     \/ "slowWrite" \in Env /\ RunNote(r, Copy(r))

\* A thrown error is caught by the loop; the attempt is not counted.
RunError(r) ==
  /\ run[r].pc = "paying" /\ run[r].reply = "error"
  /\ run' = [run EXCEPT ![r] = Proceed(@, run[r].at)]
  /\ UNCHANGED <<row, debit, create, vt, posts, crashes, gone>>

RunDelivered(r) ==
  /\ run[r].pc = "paying" /\ run[r].reply = "delivered"
  /\ run' = [run EXCEPT ![r].pc = "mark", ![r].reply = "none"]
  /\ UNCHANGED <<row, debit, create, vt, posts, crashes, gone>>

\* A requery that throws ends the run, whatever is left to visit.
RunRequery(r, answer) ==
  LET p == run[r].at
  IN /\ run[r].pc = "requery"
     /\ answer \in {"other"} \cup (IF "lostAnswer" \in Env THEN {"error"} ELSE {})
                   \cup ({vt[p]} \cap {"delivered", "pending"})
     /\ run' = [run EXCEPT ![r] =
          CASE answer = "delivered" -> [@ EXCEPT !.pc = "mark"]
            [] answer = "error"     -> IdleRun
            [] OTHER                -> Proceed(@, p)]
     \* the metadata written for "pending" is the copy's
     /\ row' = IF answer = "pending"
               THEN [row EXCEPT ![p].parked = Copy(r).parked, ![p].retries = Copy(r).retries]
               ELSE row
     /\ UNCHANGED <<debit, create, vt, posts, crashes, gone>>

\* Mutant: the row is left in processing, and parked if it was.
BugRunMark(r) ==
  /\ run[r].pc = "mark"
  /\ row' = [row EXCEPT ![run[r].at] = Copy(r)]
  /\ run' = [run EXCEPT ![r].pc = "debit"]
  /\ UNCHANGED <<debit, create, vt, posts, crashes, gone>>

RunMark(r) ==
  /\ run[r].pc = "mark"
  /\ row' = [row EXCEPT ![run[r].at] = [Copy(r) EXCEPT !.status = "processed", !.parked = FALSE]]
  /\ run' = [run EXCEPT ![r].pc = "debit"]
  /\ UNCHANGED <<debit, create, vt, posts, crashes, gone>>

\* Mutant: a delivery found by verification is not debited.
BugRunDebit(r) ==
  /\ run[r].pc = "debit"
  /\ run' = [run EXCEPT ![r] = IF Copy(r).parked THEN [@ EXCEPT !.pc = "insert"]
                               ELSE Proceed(@, run[r].at)]
  /\ UNCHANGED <<row, debit, create, vt, posts, crashes, gone>>

\* ensurePurchaseDebit: look for a debit ...
RunDebit(r) ==
  /\ run[r].pc = "debit"
  /\ run' = [run EXCEPT ![r] = IF debit[run[r].at] = 0 THEN [@ EXCEPT !.pc = "insert"]
                               ELSE Proceed(@, run[r].at)]
  /\ UNCHANGED <<row, debit, create, vt, posts, crashes, gone>>

\* ... and write one when there was none.
RunInsert(r) ==
  /\ run[r].pc = "insert"
  /\ debit' = [debit EXCEPT ![run[r].at] = More(@, MaxDebits)]
  /\ run' = [run EXCEPT ![r] = Proceed(@, run[r].at)]
  /\ UNCHANGED <<row, create, vt, posts, crashes, gone>>

-----------------------------------------------------------------------------
(* VTPass                                                                  *)

Paying == {p \in Purchase : create[p].pc = "paying" /\ create[p].reply = "none"}
            \cup {r \in Run : run[r].pc = "paying" /\ run[r].reply = "none"}
PurchaseOf(a) == IF a \in Run THEN run[a].at ELSE a

Reached(a) == posts' = IF a \in Run THEN [posts EXCEPT ![run[a].at] = More(@, MaxPosts)] ELSE posts

\* A caller that does not get the answer gets an error.
Answer(a, reply) ==
  \E heard \in {reply} \cup (IF "lostAnswer" \in Env THEN {"error"} ELSE {}) :
    IF a \in Run
    THEN run' = [run EXCEPT ![a].reply = heard] /\ UNCHANGED create
    ELSE create' = [create EXCEPT ![a].reply = heard] /\ UNCHANGED run

\* A new request id is delivered at once or taken for later.
VtTake(a) ==
  /\ a \in Paying
  /\ vt[PurchaseOf(a)] = "unknown"
  /\ \/ vt' = [vt EXCEPT ![PurchaseOf(a)] = "delivered"] /\ Answer(a, "delivered")
     \/ vt' = [vt EXCEPT ![PurchaseOf(a)] = "pending"] /\ Answer(a, "accepted")
  /\ Reached(a)
  /\ UNCHANGED <<row, debit, crashes, gone>>

\* Any request id may be refused, a known one always is.
VtRefuse(a) ==
  /\ a \in Paying
  /\ \E reply \in {"low", "refused"} : Answer(a, reply)
  /\ Reached(a)
  /\ UNCHANGED <<row, debit, vt, crashes, gone>>

\* Or the request gets lost on its way.
VtUnreached(a) ==
  /\ a \in Paying /\ "unreached" \in Env
  /\ Answer(a, "error")
  /\ UNCHANGED <<row, debit, vt, posts, crashes, gone>>

VtSettle(p) ==
  /\ vt[p] = "pending"
  /\ \E result \in {"delivered", "failed"} : vt' = [vt EXCEPT ![p] = result]
  /\ UNCHANGED <<row, debit, create, run, posts, crashes, gone>>

-----------------------------------------------------------------------------
\* The process restarts; the create handlers' open transactions roll back, and
\* a pay request on the wire may have been taken by VTPass.
Crash ==
  /\ crashes < MaxCrashes
  /\ crashes' = crashes + 1
  /\ create' = [p \in Purchase |-> IF create[p].pc = "idle" THEN create[p]
                                   ELSE [pc |-> "done", reply |-> "none"]]
  /\ run' = [r \in Run |-> IdleRun]
  /\ \E S \in SUBSET {PurchaseOf(a) : a \in Paying} :
       vt' = [p \in Purchase |-> IF p \in S /\ vt[p] = "unknown" THEN "pending" ELSE vt[p]]
  /\ UNCHANGED <<row, debit, posts, gone>>

\* confirmAccountDeletion.
Leave ==
  /\ "deletion" \in Env
  /\ ~gone /\ gone' = TRUE
  /\ UNCHANGED <<row, debit, create, run, vt, posts, crashes>>

CreateStep(p) ==
  \/ CreateCheck(p) \/ CreateSave(p) \/ CreateDelivered(p)
  \/ CreateAccepted(p) \/ CreateParked(p) \/ CreateFailed(p)

RunStep(r) ==
  \/ RunLoad(r)
  \/ \E p \in Purchase : RunTake(r, p) \/ RunGiveUp(r, p) \/ RunPay(r, p) \/ RunSkip(r, p)
  \/ RunAccepted(r) \/ RunRefused(r) \/ RunError(r) \/ RunDelivered(r)
  \/ \E answer \in Requery : RunRequery(r, answer)
  \/ RunMark(r) \/ RunDebit(r) \/ RunInsert(r)

Next ==
  \/ \E p \in Purchase : CreateStep(p) \/ VtSettle(p)
  \/ \E r \in Run : RunStep(r)
  \/ \E a \in Purchase \cup Run : VtTake(a) \/ VtRefuse(a) \/ VtUnreached(a)
  \/ Leave
  \/ Crash

Spec == Init /\ [][Next]_vars

\* VTPass answers a run's pay request and the run hears it.
Heard(r) == (VtTake(r) \/ VtRefuse(r)) /\ run'[r].reply # "error"

\* Node finishes what it has started, the timer starts runs for ever, VTPass
\* answers every request and settles every transaction it took; a requery
\* repeated for ever is answered with the transaction's status some time, and a
\* pay request repeated for ever with an answer that is heard.
Fairness ==
  /\ \A p \in Purchase : WF_vars(CreateStep(p)) /\ WF_vars(VtSettle(p))
  /\ \A r \in Run : /\ WF_vars(RunStep(r))
                    /\ \A p \in Purchase :
                         /\ SF_vars(run[r].at = p /\ RunRequery(r, "delivered"))
                         /\ SF_vars(run[r].at = p /\ Heard(r))
  /\ \A a \in Purchase \cup Run : WF_vars(VtTake(a) \/ VtRefuse(a))

FairSpec == Spec /\ Fairness

-----------------------------------------------------------------------------
(* Properties.                                                             *)

\* Every variable keeps its type.
TypeOK ==
  /\ row \in [Purchase -> Row]
  /\ debit \in [Purchase -> 0 .. MaxDebits]
  /\ create \in [Purchase -> Handler]
  /\ run \in [Run -> RunState]
  /\ vt \in [Purchase -> VtState]
  /\ posts \in [Purchase -> 0 .. MaxPosts]
  /\ crashes \in 0 .. MaxCrashes
  /\ gone \in BOOLEAN

\* The account pays only for what VTPass delivered, whichever of the create
\* handler, the verification and the re-initiation writes the debit.
ChargedOnlyIfDelivered == \A p \in Purchase : debit[p] > 0 => vt[p] = "delivered"

\* A purchase shown as failed was not charged ("the user was never charged, so
\* failing is safe", at the retry cap).
FailedNotCharged == \A p \in Purchase : row[p].status = "failed" => debit[p] = 0

\* As long as the process has not restarted, a purchase shown as failed was not
\* delivered either, nor may it still be: re-initiation under the same request
\* id cannot lose a delivery.
FailedNotDelivered ==
  \A p \in Purchase :
    row[p].status = "failed" /\ crashes = 0 => vt[p] \notin {"pending", "delivered"}

\* A delivered purchase has at most one debit: the create flow, the
\* verification and the retry "can never double-debit" (ensurePurchaseDebit).
DebitedOnce == \A p \in Purchase : debit[p] <= 1

\* A parked purchase is re-initiated at most MAX_PURCHASE_RETRIES times, not
\* counting requests that never reached VTPass, nor an attempt that a restart
\* interrupted before it was counted.
ReinitiationsBounded == \A p \in Purchase : posts[p] <= MaxRetries + crashes

\* The cap gives up a parked purchase after as many re-initiations as it says,
\* and never one that VTPass took or the account paid for (retryPurchaseInitiation:
\* "failing is safe").
GivingUpIsSafe == ReinitiationsBounded /\ FailedNotCharged /\ FailedNotDelivered

DeliveredIsCharged ==
  \A p \in Purchase : vt[p] = "delivered" ~> (debit[p] > 0 \/ crashes > 0)

ParkedIsRetried ==
  \A p \in Purchase :
    row[p].status = "processing" /\ vt[p] = "unknown"
      ~> (vt[p] # "unknown" \/ row[p].status = "failed" \/ UserMissing(p))

\* What VTPass delivered is charged in the end, also when it was delivered
\* later and only verification or a re-initiation finds out, unless the process
\* restarted; and a purchase left in processing that VTPass does not know is
\* re-initiated until VTPass takes it, or failed: parking strands nothing but an
\* electricity purchase of a user who has deleted the account.
BillsSettle == DeliveredIsCharged /\ ParkedIsRetried
=============================================================================
