------------------------- MODULE WithdrawalsProofs -------------------------
(***************************************************************************)
(* Proofs about Withdrawals, for any number of requests, runs and webhook  *)
(* executions and any retry cap.                                           *)
(***************************************************************************)
EXTENDS Withdrawals, Sums, TLAPS

USE DEF Request, Actor

LEMMA TypeFacts ==
  /\ NoRow \in Row
  /\ IdleRun \in RunState
  /\ IdleHook \in HookState
  /\ \A n \in 0 .. MaxCount : More(n) \in 0 .. MaxCount
BY ConstantsAssumption
   DEF NoRow, Row, Status, IdleRun, RunState, IdleHook, HookState, MaxCount, More

\* Every partial update the code makes of a transactions row gives a row.
LEMMA RowUpdates ==
  /\ \A row \in Row, s \in Status : [row EXCEPT !.status = s] \in Row
  /\ \A row \in Row, b \in BOOLEAN : [row EXCEPT !.review = b] \in Row
  /\ \A row \in Row, n \in 0 .. MaxRetries : [row EXCEPT !.retry = n] \in Row
  /\ \A row \in Row, s \in Status, b \in BOOLEAN :
       [[row EXCEPT !.status = s] EXCEPT !.review = b] \in Row
  /\ 1 \in 0 .. MaxRetries
  /\ [status |-> "failed", retry |-> 1, review |-> FALSE] \in Row
  /\ \A row \in Row : row.review \in BOOLEAN /\ row.retry \in 0 .. MaxRetries
<1>1. 1 \in 0 .. MaxRetries
  BY ConstantsAssumption
<1>. QED  BY <1>1 DEF Row, Status

\* Moving on to the next row keeps a run's record well formed.
LEMMA ProceedType ==
  ASSUME NEW rec \in RunState
  PROVE  Proceed(rec) \in RunState
BY TypeFacts DEF Proceed, RunState

LEMMA InitType == Init => TypeOK
BY ConstantsAssumption, TypeFacts
   DEF Init, TypeOK, Handler, Attempt, BankState, MaxCount

\* One lemma per group of actions: each preserves the types.
LEMMA HandlerType ==
  ASSUME TypeOK, NEW q \in Request, HandlerStep(q)
  PROVE  TypeOK'
<1> USE DEF TypeOK, Handler, external, observer
<1>1. CASE HandlerLock(q)
  BY <1>1 DEF HandlerLock
<1>2. CASE HandlerCheck(q)
  BY <1>2 DEF HandlerCheck
<1>3. CASE HandlerReserve(q)
  BY <1>3, RowUpdates DEF HandlerReserve, Status
<1>. QED  BY <1>1, <1>2, <1>3 DEF HandlerStep

LEMMA PayoutType ==
  ASSUME TypeOK, NEW w \in Withdrawal, PayoutStep(w)
  PROVE  TypeOK'
<1> USE DEF TypeOK, Handler, external, observer
<1>1. CASE HandlerNoToken(w)
  BY <1>1 DEF HandlerNoToken
<1>2. CASE HandlerPost(w)
  BY <1>2 DEF HandlerPost
<1>3. CASE HandlerAccepted(w)
  BY <1>3, RowUpdates DEF HandlerAccepted, HandlerEnd
<1>4. CASE HandlerRefused(w)
  BY <1>4, RowUpdates DEF HandlerRefused, HandlerEnd
<1>5. CASE HandlerQueued(w)
  BY <1>5, RowUpdates DEF HandlerQueued, HandlerEnd
<1>6. CASE HandlerError(w)
  BY <1>6 DEF HandlerError, HandlerEnd
<1>. QED  BY <1>1, <1>2, <1>3, <1>4, <1>5, <1>6 DEF PayoutStep

\* An attempt below the cap leads to a count within it.
LEMMA NextAttempt ==
  \A n \in 0 .. MaxRetries : n < MaxRetries => n + 1 \in 0 .. MaxRetries /\ n \in Attempt
<1>1. MaxRetries \in Nat
  BY ConstantsAssumption
<1>. QED  BY <1>1 DEF Attempt

\* A run that has left the head of its loop is at a withdrawal, and one that
\* has passed the retry cap is below it.
Working ==
  \A r \in Run :
    /\ run[r].pc \notin {"idle", "next"} => run[r].at \in Withdrawal
    /\ run[r].pc \in {"locked", "claiming"} => run[r].copy[run[r].at].retry < MaxRetries

\* A webhook execution that has read an event is at a withdrawal.
HookWorking == \A h \in Hook : hook[h].pc # "idle" => hook[h].at \in Withdrawal

Typed == TypeOK /\ Working /\ HookWorking

\* What a run holds after loading is a run's record.
LEMMA LoadedType ==
  ASSUME TypeOK, NEW rows \in SUBSET Withdrawal
  PROVE  [IdleRun EXCEPT !.pc = "next", !.todo = rows,
            !.copy = [w \in Withdrawal |-> IF w \in rows THEN tx[w] ELSE NoRow]] \in RunState
<1>1. [w \in Withdrawal |-> IF w \in rows THEN tx[w] ELSE NoRow] \in [Withdrawal -> Row]
  BY TypeFacts DEF TypeOK
<1>. QED  BY <1>1 DEF IdleRun, RunState

LEMMA RunType ==
  ASSUME Typed, NEW r \in Run, RunStep(r)
  PROVE  TypeOK'
<1> USE DEF Typed, TypeOK, Working, external, observer
<1>0. run[r] \in RunState /\ Proceed(run[r]) \in RunState
  BY ProceedType
<1>1. CASE RunLoad(r)
  <2> DEFINE rows == {w \in Withdrawal :
                        /\ tx[w].status = "processing"
                        /\ "slowInitiation" \in Env \/ handler[w].pc = "done"}
             rec == [IdleRun EXCEPT !.pc = "next", !.todo = rows,
                       !.copy = [w \in Withdrawal |-> IF w \in rows THEN tx[w] ELSE NoRow]]
  <2>1. rec \in RunState
    BY LoadedType
  <2>2. run' = [run EXCEPT ![r] = rec] /\ UNCHANGED <<tx, lock, handler, hook, external, observer, crashes>>
    BY <1>1 DEF RunLoad
  <2> HIDE DEF rec
  <2>. QED  BY <2>1, <2>2
<1>2. ASSUME NEW v \in Withdrawal, NEW answer \in QueryReply, RunVerify(r, v, answer)
      PROVE  TypeOK'
  <2>1. [run[r] EXCEPT !.pc = "verified", !.at = v, !.reply = answer] \in RunState
    BY <1>0 DEF RunState
  <2>. QED  BY <1>2, <2>1 DEF RunVerify
<1>3. CASE RunSettle(r)
  <2>1. run[r].at \in Withdrawal /\ run[r].copy[run[r].at] \in Row
    BY <1>0, <1>3 DEF RunSettle, RunState
  <2>2. tx' \in [Request -> Row]
    BY <1>3, <2>1, RowUpdates DEF RunSettle, Status
  <2>3. run' \in [Run -> RunState]
    BY <1>0, <1>3 DEF RunSettle, RunState
  <2>. QED  BY <1>3, <2>2, <2>3 DEF RunSettle
<1>4. CASE RunNotify(r)
  BY <1>0, <1>4, TypeFacts DEF RunNotify, Announce
<1>5. CASE RunFail(r)
  <2>1. run[r].at \in Withdrawal /\ run[r].copy[run[r].at] \in Row
    BY <1>0, <1>5 DEF RunFail, RunState
  <2>2. tx' \in [Request -> Row]
    BY <1>5, <2>1, RowUpdates DEF RunFail, Status
  <2>3. run' \in [Run -> RunState]
    BY <1>0, <1>5 DEF RunFail, RunState
  <2>. QED  BY <1>5, <2>2, <2>3 DEF RunFail
<1>6. CASE RunLeave(r)
  BY <1>0, <1>6 DEF RunLeave
<1>7. CASE RunPark(r)
  BY <1>0, <1>7, RowUpdates DEF RunPark
<1>8. CASE RunLock(r)
  <2>1. [run[r] EXCEPT !.pc = "locked", !.reply = "none"] \in RunState
    BY <1>0 DEF RunState
  <2>. QED  BY <1>8, <2>1 DEF RunLock
<1>9. CASE RunRecheck(r)
  <2>1. run' \in [Run -> RunState]
    BY <1>0, <1>9 DEF RunRecheck, RunState
  <2>. QED  BY <1>9, <2>1 DEF RunRecheck
<1>10. CASE RunClaim(r)
  <2> DEFINE w == run[r].at
             n == run[r].copy[w].retry
  <2>1. w \in Withdrawal /\ run[r].pc = "claiming" /\ n \in 0 .. MaxRetries /\ n < MaxRetries
    BY <1>0, <1>10, RowUpdates DEF RunClaim, RunState
  <2>2. n + 1 \in 0 .. MaxRetries /\ n \in Attempt
    BY <2>1, NextAttempt
  <2>3. run' = [run EXCEPT ![r].pc = "posting"] /\ run' \in [Run -> RunState]
    BY <1>0, <1>10 DEF RunClaim, RunState
  <2>4. tx' = [tx EXCEPT ![w].retry = n + 1] /\ tx' \in [Request -> Row]
    BY <1>10, <2>1, <2>2, RowUpdates DEF RunClaim
  <2>5. claims' = [claims EXCEPT ![w][n] = More(@)] /\ claims' \in [Withdrawal -> [Attempt -> 0 .. MaxCount]]
    BY <1>10, <2>1, <2>2, TypeFacts DEF RunClaim
  <2>. QED  BY <1>10, <2>3, <2>4, <2>5 DEF RunClaim
<1>11. CASE RunReply(r)
  <2>1. run[r].at \in Withdrawal /\ run[r].copy[run[r].at] \in Row
    BY <1>0, <1>11 DEF RunReply, RunState
  <2>2. tx' \in [Request -> Row]
    BY <1>11, <2>1, RowUpdates DEF RunReply
  <2>. QED  BY <1>0, <1>11, <2>2 DEF RunReply
<1>. QED
  BY <1>1, <1>2, <1>3, <1>4, <1>5, <1>6, <1>7, <1>8, <1>9, <1>10, <1>11 DEF RunStep
LEMMA HookType ==
  ASSUME Typed, NEW h \in Hook, HookStep(h)
  PROVE  TypeOK'
<1> USE DEF Typed, TypeOK, HookWorking, external, observer
<1>0. hook[h] \in HookState /\ IdleHook \in HookState
  BY TypeFacts
<1>1. ASSUME NEW w \in Withdrawal, NEW e \in Event, HookRead(h, w, e)
      PROVE  TypeOK'
  <2>1. [pc |-> "read", at |-> w, event |-> e, copy |-> tx[w]] \in HookState
    BY DEF HookState
  <2>. QED  BY <1>1, <2>1 DEF HookRead
<1>2. CASE HookSuccess(h)
  <2>1. hook[h].at \in Withdrawal /\ hook[h].copy \in Row
    BY <1>0, <1>2 DEF HookSuccess, HookState
  <2>2. [hook[h] EXCEPT !.pc = "notify"] \in HookState
    BY <1>0 DEF HookState
  <2>3. tx' \in [Request -> Row]
    BY <1>2, <2>1, RowUpdates DEF HookSuccess, Status
  <2>. QED  BY <1>0, <1>2, <2>2, <2>3 DEF HookSuccess
<1>3. CASE HookNotify(h)
  BY <1>0, <1>3, TypeFacts DEF HookNotify, Announce
<1>4. CASE HookFail(h)
  <2>1. hook[h].at \in Withdrawal /\ hook[h].copy \in Row
    BY <1>0, <1>4 DEF HookFail, HookState
  <2>2. tx' \in [Request -> Row]
    BY <1>4, <2>1, RowUpdates DEF HookFail, Status
  <2>. QED  BY <1>0, <1>4, <2>2 DEF HookFail
<1>. QED  BY <1>1, <1>2, <1>3, <1>4 DEF HookStep

\* The caller that gets its answer keeps its type.
LEMMA AnswerType ==
  ASSUME TypeOK, NEW a \in Withdrawal \cup Run, NEW reply \in PostReply, Answer(a, reply)
  PROVE  run' \in [Run -> RunState] /\ handler' \in [Request -> Handler]
<1>1. \A rec \in RunState : [rec EXCEPT !.reply = reply] \in RunState
  BY DEF RunState
<1>2. \A rec \in Handler : [rec EXCEPT !.reply = reply] \in Handler
  BY DEF Handler
<1>3. run \in [Run -> RunState] /\ handler \in [Request -> Handler]
  BY DEF TypeOK
<1>4. CASE a \in Run
  BY <1>1, <1>3, <1>4 DEF Answer
<1>5. CASE a \notin Run
  <2>1. a \in Request /\ handler' = [handler EXCEPT ![a].reply = reply] /\ run' = run
    BY <1>5 DEF Answer
  <2>. QED  BY <1>2, <1>3, <2>1
<1>. QED  BY <1>4, <1>5

LEMMA PostingFacts ==
  ASSUME Typed, NEW a \in Posting
  PROVE  /\ a \in Withdrawal \cup Run
         /\ PayoutOf(a) \in Withdrawal
<1>1. CASE a \in Run
  <2>1. run[a].pc = "posting"
    BY <1>1, ConstantsAssumption DEF Posting
  <2>. QED  BY <1>1, <2>1 DEF Typed, Working, PayoutOf
<1>2. CASE a \notin Run
  BY <1>2 DEF PayoutOf, Posting
<1>. QED  BY <1>1, <1>2

LEMMA NombaType ==
  ASSUME Typed, NombaStep
  PROVE  TypeOK'
<1> USE DEF Typed, TypeOK, external, observer
<1>1. ASSUME NEW a \in Withdrawal \cup Run, NombaAnswer(a)
      PROVE  TypeOK'
  <2>1. a \in Posting /\ \E reply \in PostReply : Answer(a, reply)
    BY <1>1 DEF NombaAnswer, NombaAccept, NombaTurnDown, PostBroken, PostReply
  <2>2. PayoutOf(a) \in Withdrawal
    BY <2>1, PostingFacts
  <2>3. run' \in [Run -> RunState] /\ handler' \in [Request -> Handler]
    BY <2>1, AnswerType
  <2>4. CASE NombaAccept(a)
    BY <2>2, <2>3, <2>4 DEF NombaAccept, BankState
  <2>5. CASE NombaTurnDown(a)
    BY <2>3, <2>5 DEF NombaTurnDown
  <2>6. CASE PostBroken(a)
    BY <2>2, <2>3, <2>6 DEF PostBroken
  <2>. QED  BY <1>1, <2>4, <2>5, <2>6 DEF NombaAnswer
<1>2. ASSUME NEW w \in Withdrawal, NombaLate(w)
      PROVE  TypeOK'
  BY <1>2 DEF NombaLate, BankState
<1>3. ASSUME NEW w \in Withdrawal, NombaPay(w)
      PROVE  TypeOK'
  BY <1>3 DEF NombaPay, BankState, Event
<1>4. ASSUME NEW w \in Withdrawal, NombaReject(w)
      PROVE  TypeOK'
  BY <1>4 DEF NombaReject, BankState, Event
<1>5. ASSUME NEW w \in Withdrawal, NombaRefund(w)
      PROVE  TypeOK'
  BY <1>5 DEF NombaRefund, BankState, Event
<1>. QED  BY <1>1, <1>2, <1>3, <1>4, <1>5 DEF NombaStep

LEMMA CrashType ==
  ASSUME Typed, Crash
  PROVE  TypeOK'
<1>1. crashes' \in 0 .. MaxCrashes
  <2>1. MaxCrashes \in Nat /\ crashes \in 0 .. MaxCrashes
    BY ConstantsAssumption DEF Typed, TypeOK
  <2>. QED  BY <2>1 DEF Crash
<1>2. late' \subseteq Withdrawal
  BY PostingFacts DEF Crash, Typed, TypeOK
<1>3. handler' \in [Request -> Handler]
  BY DEF Crash, Handler, Typed, TypeOK
<1>4. run' \in [Run -> RunState] /\ hook' \in [Hook -> HookState]
  BY TypeFacts DEF Crash
<1>5. lock' \in Actor \cup {NoOne}
  BY DEF Crash
<1>. QED  BY <1>1, <1>2, <1>3, <1>4, <1>5 DEF Crash, Typed, TypeOK, observer

-----------------------------------------------------------------------------
(* Typed is an invariant.                                                  *)

\* After Proceed a run has no row in hand and no row it had not before.
LEMMA ProceedFacts ==
  ASSUME NEW rec \in RunState
  PROVE  /\ Proceed(rec).pc \in {"idle", "next"}
         /\ Proceed(rec).at = NoOne
         /\ Proceed(rec).todo \subseteq rec.todo
         /\ Proceed(rec).reply = "none"
BY DEF Proceed, IdleRun, RunState

\* What one step of a run leaves alone.
LEMMA RunFrame ==
  ASSUME Typed, NEW r \in Run, RunStep(r)
  PROVE  /\ \A s \in Run : s # r => run'[s] = run[s]
         /\ \A q \in Request : q # run[r].at => tx'[q] = tx[q]
         /\ UNCHANGED <<handler, hook, bank, event, late, crashes>>
<1> USE DEF Typed, TypeOK, external, observer
<1>1. CASE RunLoad(r) \/ \E v \in Withdrawal, answer \in QueryReply : RunVerify(r, v, answer)
  BY <1>1 DEF RunLoad, RunVerify
<1>2. CASE RunSettle(r) \/ RunFail(r)
  BY <1>2 DEF RunSettle, RunFail
<1>3. CASE RunNotify(r) \/ RunLeave(r) \/ RunLock(r) \/ RunRecheck(r)
  BY <1>3 DEF RunNotify, RunLeave, RunLock, RunRecheck
<1>4. CASE RunPark(r) \/ RunClaim(r) \/ RunReply(r)
  BY <1>4 DEF RunPark, RunClaim, RunReply
<1>. QED  BY <1>1, <1>2, <1>3, <1>4 DEF RunStep

\* How one step of a run moves it through its loop.
LEMMA RunMove ==
  ASSUME Typed, NEW r \in Run, RunStep(r)
  PROVE  \/ /\ run'[r].pc \in {"idle", "next"}
            /\ run'[r].at = NoOne
            /\ RunLoad(r) \/ run'[r].todo \subseteq run[r].todo
         \/ \E v \in Withdrawal, answer \in QueryReply :
              RunVerify(r, v, answer) /\ run'[r] = [run[r] EXCEPT !.pc = "verified", !.at = v, !.reply = answer]
         \/ RunSettle(r) /\ run'[r] = [run[r] EXCEPT !.pc = "notify"]
         \/ RunLock(r) /\ run'[r] = [run[r] EXCEPT !.pc = "locked", !.reply = "none"]
         \/ RunRecheck(r) /\ run'[r] = [run[r] EXCEPT !.pc = "claiming"]
         \/ RunClaim(r) /\ run'[r] = [run[r] EXCEPT !.pc = "posting"]
<1> USE DEF Typed, TypeOK
<1>0. /\ run[r] \in RunState
      /\ Proceed(run[r]).pc \in {"idle", "next"}
      /\ Proceed(run[r]).at = NoOne
      /\ Proceed(run[r]).todo \subseteq run[r].todo
  BY ProceedFacts
<1>1. CASE RunLoad(r)
  BY <1>1 DEF RunLoad, IdleRun
<1>2. ASSUME NEW v \in Withdrawal, NEW answer \in QueryReply, RunVerify(r, v, answer)
      PROVE  run'[r] = [run[r] EXCEPT !.pc = "verified", !.at = v, !.reply = answer]
  BY <1>2 DEF RunVerify
<1>3. CASE RunSettle(r)
  BY <1>0, <1>3 DEF RunSettle
<1>4. CASE RunNotify(r) \/ RunFail(r) \/ RunLeave(r) \/ RunPark(r) \/ RunReply(r)
  BY <1>0, <1>4 DEF RunNotify, RunFail, RunLeave, RunPark, RunReply
<1>5. CASE RunLock(r)
  BY <1>5 DEF RunLock
<1>6. CASE RunRecheck(r)
  BY <1>0, <1>6 DEF RunRecheck
<1>7. CASE RunClaim(r)
  BY <1>7 DEF RunClaim
<1>. QED  BY <1>1, <1>2, <1>3, <1>4, <1>5, <1>6, <1>7 DEF RunStep

\* Other features touch nothing of the payouts but the funds of the account.
LEMMA OthersLeave ==
  OthersSpend => UNCHANGED <<tx, lock, handler, run, hook, bank, event, late, notified, claims, crashes>>
BY DEF OthersSpend, observer

\* They are the only ones to move them.
LEMMA FundsMove == [Next]_vars => UNCHANGED funds \/ OthersSpend
<1> USE DEF external, observer
<1>1. ASSUME NEW q \in Request, HandlerStep(q) PROVE UNCHANGED funds
  BY <1>1 DEF HandlerStep, HandlerLock, HandlerCheck, HandlerReserve
<1>2. ASSUME NEW w \in Withdrawal, PayoutStep(w) PROVE UNCHANGED funds
  BY <1>2 DEF PayoutStep, HandlerNoToken, HandlerPost, HandlerAccepted, HandlerRefused,
              HandlerQueued, HandlerError, HandlerEnd
<1>3. ASSUME NEW r \in Run, RunStep(r) PROVE UNCHANGED funds
  BY <1>3 DEF RunStep, RunLoad, RunVerify, RunSettle, RunNotify, RunFail, RunLeave,
              RunPark, RunLock, RunRecheck, RunClaim, RunReply
<1>4. ASSUME NEW h \in Hook, HookStep(h) PROVE UNCHANGED funds
  BY <1>4 DEF HookStep, HookRead, HookSuccess, HookNotify, HookFail
<1>5. ASSUME NombaStep PROVE UNCHANGED funds
  BY <1>5 DEF NombaStep, NombaAnswer, NombaAccept, NombaTurnDown, PostBroken,
              NombaLate, NombaPay, NombaReject, NombaRefund
<1>. QED  BY <1>1, <1>2, <1>3, <1>4, <1>5 DEF Next, Crash, vars

\* The handlers, the webhook and the bank leave the runs' own state alone.
LEMMA OthersFrame ==
  ASSUME Typed
  PROVE  /\ \A q \in Request : HandlerStep(q) => UNCHANGED <<run, hook, claims, bank, event, late>>
         /\ \A w \in Withdrawal : PayoutStep(w) => UNCHANGED <<run, hook, claims, lock, bank, event, late>>
         /\ \A h \in Hook : HookStep(h) => UNCHANGED <<run, handler, claims, lock, bank, event, late>>
         /\ NombaStep => UNCHANGED <<tx, lock, hook, claims, notified>>
<1> USE DEF external, observer
<1>1. ASSUME NEW q \in Request, HandlerStep(q)
      PROVE  UNCHANGED <<run, hook, claims, bank, event, late>>
  BY <1>1 DEF HandlerStep, HandlerLock, HandlerCheck, HandlerReserve
<1>2. ASSUME NEW w \in Withdrawal, PayoutStep(w)
      PROVE  UNCHANGED <<run, hook, claims, lock, bank, event, late>>
  BY <1>2 DEF PayoutStep, HandlerNoToken, HandlerPost, HandlerAccepted, HandlerRefused,
              HandlerQueued, HandlerError, HandlerEnd
<1>3. ASSUME NEW h \in Hook, HookStep(h)
      PROVE  UNCHANGED <<run, handler, claims, lock, bank, event, late>>
  BY <1>3 DEF HookStep, HookRead, HookSuccess, HookNotify, HookFail
<1>4. ASSUME NombaStep
      PROVE  UNCHANGED <<tx, lock, hook, claims, notified>>
  BY <1>4 DEF NombaStep, NombaAnswer, NombaAccept, NombaTurnDown, PostBroken,
              NombaLate, NombaPay, NombaReject, NombaRefund
<1>. QED  BY <1>1, <1>2, <1>3, <1>4

\* Nomba changes nothing of a run but the answer it waits for.
LEMMA NombaKeepsRuns ==
  ASSUME Typed, NombaStep, NEW r \in Run
  PROVE  /\ run'[r].pc = run[r].pc
         /\ run'[r].at = run[r].at
         /\ run'[r].todo = run[r].todo
         /\ run'[r].copy = run[r].copy
         /\ run[r].pc # "posting" => run'[r] = run[r]
<1> USE DEF Typed, TypeOK
<1>0. run[r] \in RunState
  OBVIOUS
<1>1. ASSUME NEW a \in Withdrawal \cup Run, NombaAnswer(a)
      PROVE  \/ run'[r] = run[r]
             \/ run[r].pc = "posting" /\ \E reply \in PostReply : run'[r] = [run[r] EXCEPT !.reply = reply]
  <2>1. a \in Posting /\ \E reply \in PostReply : Answer(a, reply)
    BY <1>1 DEF NombaAnswer, NombaAccept, NombaTurnDown, PostBroken, PostReply
  <2>2. a \in Run => run[a].pc = "posting"
    BY <2>1, ConstantsAssumption DEF Posting
  <2>. QED  BY <2>1, <2>2 DEF Answer
<1>2. ASSUME NEW w \in Withdrawal, NombaLate(w) \/ NombaPay(w) \/ NombaReject(w) \/ NombaRefund(w)
      PROVE  run' = run
  BY <1>2 DEF NombaLate, NombaPay, NombaReject, NombaRefund
<1>. QED  BY <1>0, <1>1, <1>2 DEF NombaStep, RunState

LEMMA NombaKeepsHandlers ==
  ASSUME Typed, NombaStep, NEW q \in Request
  PROVE  handler'[q].pc = handler[q].pc
<1> USE DEF Typed, TypeOK
<1>0. handler[q] \in Handler
  OBVIOUS
<1>1. ASSUME NEW a \in Withdrawal \cup Run, NombaAnswer(a)
      PROVE  \/ handler'[q] = handler[q]
             \/ \E reply \in PostReply : handler'[q] = [handler[q] EXCEPT !.reply = reply]
  <2>1. \E reply \in PostReply : Answer(a, reply)
    BY <1>1 DEF NombaAnswer, NombaAccept, NombaTurnDown, PostBroken, PostReply
  <2>. QED  BY <2>1 DEF Answer
<1>2. ASSUME NEW w \in Withdrawal, NombaLate(w) \/ NombaPay(w) \/ NombaReject(w) \/ NombaRefund(w)
      PROVE  handler' = handler
  BY <1>2 DEF NombaLate, NombaPay, NombaReject, NombaRefund
<1>. QED  BY <1>0, <1>1, <1>2 DEF NombaStep, Handler

LEMMA TypedInit == Init => Typed
<1> SUFFICES ASSUME Init PROVE Typed
  OBVIOUS
<1>1. TypeOK
  BY InitType
<1>2. Working /\ HookWorking
  BY DEF Init, Working, HookWorking, IdleRun, IdleHook
<1>. QED  BY <1>1, <1>2 DEF Typed

LEMMA RunWorking ==
  ASSUME Typed, NEW r \in Run, RunStep(r)
  PROVE  Working'
<1>0. run[r] \in RunState
  BY DEF Typed, TypeOK
<1>1. /\ run'[r].pc \notin {"idle", "next"} => run'[r].at \in Withdrawal
      /\ run'[r].pc \in {"locked", "claiming"} => run'[r].copy[run'[r].at].retry < MaxRetries
  <2>1. CASE run'[r].pc \in {"idle", "next"}
    BY <2>1
  <2>2. CASE \E v \in Withdrawal, answer \in QueryReply :
               run'[r] = [run[r] EXCEPT !.pc = "verified", !.at = v, !.reply = answer]
    BY <1>0, <2>2 DEF RunState
  <2>3. CASE RunSettle(r) /\ run'[r] = [run[r] EXCEPT !.pc = "notify"]
    BY <1>0, <2>3 DEF RunSettle, RunState, Typed, Working
  <2>4. CASE RunLock(r) /\ run'[r] = [run[r] EXCEPT !.pc = "locked", !.reply = "none"]
    BY <1>0, <2>4 DEF RunLock, RunState, Typed, Working
  <2>5. CASE RunRecheck(r) /\ run'[r] = [run[r] EXCEPT !.pc = "claiming"]
    BY <1>0, <2>5 DEF RunRecheck, RunState, Typed, Working
  <2>6. CASE RunClaim(r) /\ run'[r] = [run[r] EXCEPT !.pc = "posting"]
    BY <1>0, <2>6 DEF RunClaim, RunState, Typed, Working
  <2>. QED  BY RunMove, <2>1, <2>2, <2>3, <2>4, <2>5, <2>6
<1>2. \A s \in Run : s # r => run'[s] = run[s]
  BY RunFrame
<1>. QED  BY <1>1, <1>2 DEF Typed, Working

LEMMA HookStaysWorking ==
  ASSUME Typed, NEW h \in Hook, HookStep(h)
  PROVE  HookWorking'
<1> USE DEF Typed, TypeOK, HookWorking
<1>0. hook[h] \in HookState /\ IdleHook.pc = "idle"
  BY DEF IdleHook
<1>1. CASE \E w \in Withdrawal, e \in Event : HookRead(h, w, e)
  BY <1>1 DEF HookRead
<1>2. CASE HookSuccess(h)
  <2>1. [hook[h] EXCEPT !.pc = "notify"].at = hook[h].at
    BY <1>0 DEF HookState
  <2>. QED  BY <1>0, <1>2, <2>1 DEF HookSuccess
<1>3. CASE HookNotify(h) \/ HookFail(h)
  BY <1>0, <1>3 DEF HookNotify, HookFail
<1>. QED  BY <1>1, <1>2, <1>3 DEF HookStep

LEMMA TypedStep == Typed /\ [Next]_vars => Typed'
<1> SUFFICES ASSUME Typed, [Next]_vars PROVE Typed'
  OBVIOUS
<1>1. ASSUME NEW q \in Request, HandlerStep(q)
      PROVE  Typed'
  BY <1>1, HandlerType, OthersFrame DEF Typed, Working, HookWorking
<1>2. ASSUME NEW w \in Withdrawal, PayoutStep(w)
      PROVE  Typed'
  BY <1>2, PayoutType, OthersFrame DEF Typed, Working, HookWorking
<1>3. ASSUME NEW r \in Run, RunStep(r)
      PROVE  Typed'
  BY <1>3, RunType, RunWorking, RunFrame DEF Typed, HookWorking
<1>4. ASSUME NEW h \in Hook, HookStep(h)
      PROVE  Typed'
  BY <1>4, HookType, HookStaysWorking, OthersFrame DEF Typed, Working
<1>5. CASE NombaStep
  <2>1. Working'
    BY <1>5, NombaKeepsRuns DEF Typed, Working
  <2>. QED  BY <1>5, <2>1, NombaType, OthersFrame DEF Typed, HookWorking
<1>6. CASE Crash
  BY <1>6, CrashType DEF Crash, Typed, Working, HookWorking, IdleRun, IdleHook
<1>7. CASE UNCHANGED vars
  BY <1>7 DEF vars, Typed, TypeOK, Working, HookWorking
<1>8. CASE OthersSpend
  <2>1. funds' \in 0 .. Funds
    BY <1>8 DEF OthersSpend
  <2>. QED  BY <1>8, <2>1, OthersLeave DEF Typed, TypeOK, Working, HookWorking
<1>. QED  BY <1>1, <1>2, <1>3, <1>4, <1>5, <1>6, <1>7, <1>8 DEF Next

LEMMA TypedInvariant == Spec => []Typed
BY TypedInit, TypedStep, PTL DEF Spec

\* Type correctness of the payout model: every handler, run and webhook step
\* keeps rows, retry counts (within MAX_WITHDRAWAL_RETRIES) and phases in range.
THEOREM TypeCorrect == Spec => []TypeOK
<1>1. Typed => TypeOK
  BY DEF Typed
<1>. QED  BY <1>1, TypedInvariant, PTL

-----------------------------------------------------------------------------
(* The strengthening of AttemptClaimedOnce.  It needs the first POST to be *)
(* answered before a verification run loads the row.                       *)

Prompt == "slowInitiation" \notin Env

\* Whoever is between taking and releasing the row lock holds it.
LockHeld ==
  /\ \A r \in Run : run[r].pc \in {"locked", "claiming"} => lock = r
  /\ \A q \in Request : handler[q].pc \in {"locked", "checked"} => lock = q

\* While its handler is under way a withdrawal belongs to the handler alone:
\* no run has it in hand and no attempt has been counted.
HandlerOwns ==
  \A w \in Withdrawal : handler[w].pc # "done" =>
    /\ tx[w].retry = 0
    /\ \A r \in Run : w \notin run[r].todo /\ run[r].at # w

\* Attempts not yet counted in the row have not been claimed.
ClaimsBelowRetry ==
  \A w \in Withdrawal : \A n \in Attempt :
    /\ claims[w][n] \in {0, 1}
    /\ n >= tx[w].retry => claims[w][n] = 0

\* A run about to claim has the row's retry count in its copy.
ClaimFresh ==
  \A r \in Run : run[r].pc = "claiming" => tx[run[r].at].retry = run[r].copy[run[r].at].retry

ClaimInv == Typed /\ LockHeld /\ HandlerOwns /\ ClaimsBelowRetry /\ ClaimFresh

LEMMA ClaimInit == Init => ClaimInv
<1> SUFFICES ASSUME Init PROVE ClaimInv
  OBVIOUS
<1>1. NoOne \notin Withdrawal /\ \A w \in Withdrawal : w \in Request
  BY ConstantsAssumption
<1>. QED  BY <1>1, TypedInit
          DEF Init, ClaimInv, LockHeld, HandlerOwns, ClaimsBelowRetry, ClaimFresh, IdleRun, NoRow

\* Only the claim of an attempt and the handler's last step change a retry count.
LEMMA RunRetry ==
  ASSUME Typed, NEW r \in Run, RunStep(r), ~RunClaim(r)
  PROVE  claims' = claims /\ \A w \in Withdrawal : tx'[w].retry = tx[w].retry
<1> USE DEF Typed, TypeOK, external, observer
<1>0. \A w \in Withdrawal : tx[w] \in Row /\ w \in Request
  OBVIOUS
<1>1. CASE RunLoad(r) \/ (\E v \in Withdrawal, answer \in QueryReply : RunVerify(r, v, answer))
           \/ RunNotify(r) \/ RunLeave(r) \/ RunLock(r) \/ RunRecheck(r)
  BY <1>1 DEF RunLoad, RunVerify, RunNotify, RunLeave, RunLock, RunRecheck
<1>2. CASE RunSettle(r)
  BY <1>0, <1>2 DEF RunSettle, Row
<1>3. CASE RunFail(r)
  BY <1>0, <1>3 DEF RunFail, Row
<1>4. CASE RunPark(r)
  BY <1>0, <1>4 DEF RunPark, Row
<1>5. CASE RunReply(r)
  BY <1>0, <1>5 DEF RunReply, Row
<1>. QED  BY <1>1, <1>2, <1>3, <1>4, <1>5 DEF RunStep

LEMMA HookRetry ==
  ASSUME Typed, NEW h \in Hook, HookStep(h)
  PROVE  \A w \in Withdrawal : tx'[w].retry = tx[w].retry
<1> USE DEF Typed, TypeOK
<1>0. \A w \in Withdrawal : tx[w] \in Row /\ w \in Request
  OBVIOUS
<1>1. CASE (\E w \in Withdrawal, e \in Event : HookRead(h, w, e)) \/ HookNotify(h)
  BY <1>1 DEF HookRead, HookNotify
<1>2. CASE HookSuccess(h)
  BY <1>0, <1>2 DEF HookSuccess, Row
<1>3. CASE HookFail(h)
  BY <1>0, <1>3 DEF HookFail, Row
<1>. QED  BY <1>1, <1>2, <1>3 DEF HookStep

\* The row lock excludes the handlers and the other runs.
LEMMA RunLocking ==
  ASSUME ClaimInv, NEW r \in Run, RunStep(r)
  PROVE  /\ LockHeld'
         /\ run[r].pc = "claiming" => \A s \in Run : s # r => run[s].pc # "claiming"
<1> USE DEF ClaimInv, LockHeld
<1>0. /\ run[r] \in RunState
      /\ NoOne \notin Run
      /\ \A q \in Request : q \notin Run /\ q # NoOne
  BY ConstantsAssumption DEF Typed, TypeOK
<1>1. handler' = handler /\ \A s \in Run : s # r => run'[s] = run[s]
  BY RunFrame
<1>2. CASE RunLock(r)
  BY <1>0, <1>1, <1>2 DEF RunLock
<1>3. CASE RunRecheck(r)
  <2>1. CASE lock' = lock
    BY <1>0, <1>1, <1>3, <2>1 DEF RunRecheck
  <2>2. CASE lock' = NoOne /\ run'[r] = Proceed(run[r])
    BY <1>0, <1>1, <1>3, <2>2, ProceedFacts DEF RunRecheck
  <2>3. run' = [run EXCEPT ![r] = Proceed(run[r])] => run'[r] = Proceed(run[r])
    BY DEF Typed, TypeOK
  <2>. QED  BY <1>3, <2>1, <2>2, <2>3 DEF RunRecheck
<1>4. CASE RunClaim(r)
  <2>1. run'[r].pc = "posting"
    BY <1>0, <1>4 DEF RunClaim, Typed, TypeOK, RunState
  <2>. QED  BY <1>0, <1>1, <1>4, <2>1 DEF RunClaim
<1>5. CASE ~RunLock(r) /\ ~RunRecheck(r) /\ ~RunClaim(r)
  <2>1. lock' = lock
    BY <1>5 DEF RunStep, RunLoad, RunVerify, RunSettle, RunNotify, RunFail, RunLeave, RunPark, RunReply
  <2>2. run'[r].pc \in {"idle", "next", "verified", "notify"}
    BY <1>0, <1>5, RunMove DEF RunState
  <2>. QED  BY <1>0, <1>1, <2>1, <2>2
<1>. QED  BY <1>0, <1>2, <1>3, <1>4, <1>5

LEMMA RunClaims ==
  ASSUME Prompt, ClaimInv, NEW r \in Run, RunStep(r)
  PROVE  HandlerOwns' /\ ClaimsBelowRetry' /\ ClaimFresh'
<1> USE DEF ClaimInv
<1>0. /\ run[r] \in RunState
      /\ NoOne \notin Withdrawal
      /\ \A w \in Withdrawal : w \in Request /\ tx[w] \in Row
  BY ConstantsAssumption DEF Typed, TypeOK
<1>1. /\ handler' = handler
      /\ \A s \in Run : s # r => run'[s] = run[s]
      /\ \A q \in Request : q # run[r].at => tx'[q] = tx[q]
  BY RunFrame
<1>2. HandlerOwns'
  <2> SUFFICES ASSUME NEW w \in Withdrawal, handler[w].pc # "done"
               PROVE  tx'[w].retry = 0 /\ w \notin run'[r].todo /\ run'[r].at # w
    BY <1>1 DEF HandlerOwns
  <2>1. tx[w].retry = 0 /\ w \notin run[r].todo /\ run[r].at # w
    BY DEF HandlerOwns
  <2>2. tx'[w] = tx[w]
    BY <1>0, <1>1, <2>1
  <2>3. w \notin run'[r].todo /\ run'[r].at # w
    <3>1. CASE RunLoad(r)
      <4>1. run'[r].todo = {v \in Withdrawal : tx[v].status = "processing" /\ handler[v].pc = "done"}
        BY <3>1 DEF RunLoad, IdleRun, Prompt, Typed, TypeOK
      <4>2. run'[r].at = NoOne
        BY <3>1 DEF RunLoad, IdleRun, Typed, TypeOK
      <4>. QED  BY <1>0, <4>1, <4>2
    <3>2. CASE run'[r].at = NoOne /\ run'[r].todo \subseteq run[r].todo
      BY <1>0, <2>1, <3>2
    <3>3. ASSUME NEW v \in Withdrawal, NEW answer \in QueryReply, RunVerify(r, v, answer),
                 run'[r] = [run[r] EXCEPT !.pc = "verified", !.at = v, !.reply = answer]
          PROVE  w \notin run'[r].todo /\ run'[r].at # w
      <4>1. v \in run[r].todo
        BY <3>3 DEF RunVerify
      <4>. QED  BY <1>0, <2>1, <3>3, <4>1 DEF RunState
    <3>4. CASE \/ run'[r] = [run[r] EXCEPT !.pc = "notify"]
               \/ run'[r] = [run[r] EXCEPT !.pc = "locked", !.reply = "none"]
               \/ run'[r] = [run[r] EXCEPT !.pc = "claiming"]
               \/ run'[r] = [run[r] EXCEPT !.pc = "posting"]
      BY <1>0, <2>1, <3>4 DEF RunState
    <3>. QED  BY RunMove, <3>1, <3>2, <3>3, <3>4
  <2>. QED  BY <2>1, <2>2, <2>3
<1>3. CASE RunClaim(r)
  <2> DEFINE v == run[r].at
             k == run[r].copy[v].retry
  <2>1. v \in Withdrawal /\ run[r].pc = "claiming" /\ k \in 0 .. MaxRetries /\ k < MaxRetries
    BY <1>0, <1>3, RowUpdates DEF RunClaim, RunState, Typed, Working
  <2>2. k + 1 \in 0 .. MaxRetries /\ k \in Attempt
    BY <2>1, NextAttempt
  <2>3. tx[v].retry = k
    BY <2>1 DEF ClaimFresh
  <2>4. claims[v][k] = 0
    BY <2>1, <2>2, <2>3 DEF ClaimsBelowRetry
  <2>5. /\ tx' = [tx EXCEPT ![v].retry = k + 1]
        /\ claims' = [claims EXCEPT ![v][k] = More(@)]
        /\ run' = [run EXCEPT ![r].pc = "posting"]
    BY <1>3 DEF RunClaim
  <2> HIDE DEF v, k
  <2>6. tx'[v].retry = k + 1
    BY <1>0, <2>1, <2>5 DEF Typed, TypeOK, Row
  <2>7. claims'[v][k] = 1 /\ \A n \in Attempt : n # k => claims'[v][n] = claims[v][n]
    BY <2>1, <2>2, <2>4, <2>5 DEF Typed, TypeOK, More, MaxCount
  <2>8. \A w \in Withdrawal : w # v => claims'[w] = claims[w] /\ tx'[w].retry = tx[w].retry
    BY <2>5 DEF Typed, TypeOK
  <2>9. ClaimsBelowRetry'
    <3> SUFFICES ASSUME NEW w \in Withdrawal, NEW n \in Attempt
                 PROVE  claims'[w][n] \in {0, 1} /\ (n >= tx'[w].retry => claims'[w][n] = 0)
      BY DEF ClaimsBelowRetry
    <3>1. CASE w # v
      BY <2>8, <3>1 DEF ClaimsBelowRetry
    <3>2. CASE w = v
      <4>1. n \in Nat /\ k \in Nat
        <5>1. MaxRetries \in Nat
          BY ConstantsAssumption
        <5>. QED  BY <2>1, <5>1 DEF Attempt
      <4>2. claims[w][n] \in {0, 1} /\ (n >= k => claims[w][n] = 0)
        BY <2>3, <3>2 DEF ClaimsBelowRetry
      <4>3. (n >= k + 1 => n >= k /\ n # k) /\ ~(k >= k + 1)
        BY <4>1
      <4>. QED  BY <2>6, <2>7, <3>2, <4>2, <4>3
    <3>. QED  BY <3>1, <3>2
  <2>10. ClaimFresh'
    <3>1. \A s \in Run : run'[s].pc # "claiming"
      <4>1. run'[r].pc = "posting"
        BY <1>0, <2>5 DEF Typed, TypeOK, RunState
      <4>2. \A s \in Run : s # r => run'[s].pc # "claiming"
        BY <1>1, <2>1, RunLocking
      <4>. QED  BY <4>1, <4>2
    <3>. QED  BY <3>1 DEF ClaimFresh
  <2>. QED  BY <1>2, <2>9, <2>10
<1>4. CASE ~RunClaim(r)
  <2>1. claims' = claims /\ \A w \in Withdrawal : tx'[w].retry = tx[w].retry
    BY <1>4, RunRetry
  <2>2. ClaimsBelowRetry'
    BY <2>1 DEF ClaimsBelowRetry
  <2>3. run'[r].pc = "claiming" => tx[run'[r].at].retry = run'[r].copy[run'[r].at].retry
    <3>1. CASE RunRecheck(r) /\ run'[r] = [run[r] EXCEPT !.pc = "claiming"]
      <4>1. Proceed(run[r]).pc # "claiming"
        BY <1>0, ProceedFacts
      <4>2. tx[run[r].at].retry = run[r].copy[run[r].at].retry
        BY <1>0, <3>1, <4>1 DEF RunRecheck, RunState, Typed, TypeOK
      <4>. QED  BY <1>0, <3>1, <4>2 DEF RunState
    <3>2. CASE ~(RunRecheck(r) /\ run'[r] = [run[r] EXCEPT !.pc = "claiming"])
      BY <1>0, <1>4, <3>2, RunMove DEF RunState
    <3>. QED  BY <3>1, <3>2
  <2>4. \A s \in Run : run[s].pc = "claiming" => run[s].at \in Withdrawal
    BY DEF Typed, Working
  <2>5. run'[r].pc = "claiming" => run'[r].at \in Withdrawal
    BY TypedStep DEF Next, Typed, Working
  <2>6. ClaimFresh'
    BY <1>1, <2>1, <2>3, <2>4, <2>5 DEF ClaimFresh
  <2>. QED  BY <1>2, <2>2, <2>6
<1>. QED  BY <1>3, <1>4

LEMMA HandlerClaims ==
  ASSUME ClaimInv,
         (\E q \in Request : HandlerStep(q)) \/ (\E w \in Withdrawal : PayoutStep(w))
  PROVE  LockHeld' /\ HandlerOwns' /\ ClaimsBelowRetry' /\ ClaimFresh'
<1> USE DEF ClaimInv
<1>0. /\ NoOne \notin Run
      /\ \A q \in Request : q \notin Run /\ q # NoOne /\ tx[q] \in Row /\ handler[q] \in Handler
      /\ \A w \in Withdrawal : w \in Request
  BY ConstantsAssumption DEF Typed, TypeOK
<1>1. UNCHANGED <<run, claims>>
  BY OthersFrame
<1>2. ASSUME NEW q \in Request, HandlerStep(q)
      PROVE  LockHeld' /\ HandlerOwns' /\ ClaimsBelowRetry' /\ ClaimFresh'
  <2>1. \A w \in Withdrawal : tx'[w].retry = tx[w].retry
    <3>1. CASE HandlerLock(q) \/ HandlerCheck(q)
      BY <3>1 DEF HandlerLock, HandlerCheck
    <3>2. CASE HandlerReserve(q)
      <4>1. \E st \in Status : tx' = [tx EXCEPT ![q].status = st]
        BY <3>2 DEF HandlerReserve, Status
      <4>. QED  BY <1>0, <4>1 DEF Typed, TypeOK, Row
    <3>. QED  BY <1>2, <3>1, <3>2 DEF HandlerStep
  <2>2. /\ handler[q].pc # "done"
        /\ \A p \in Request : p # q => handler'[p] = handler[p]
    BY <1>2 DEF HandlerStep, HandlerLock, HandlerCheck, HandlerReserve, Typed, TypeOK
  <2>3. LockHeld'
    <3>1. CASE HandlerLock(q)
      BY <1>0, <1>1, <2>2, <3>1 DEF HandlerLock, LockHeld
    <3>2. CASE HandlerCheck(q)
      <4>1. (handler'[q].pc = "checked" /\ lock' = lock) \/ (handler'[q].pc = "done" /\ lock' = NoOne)
        <5>1. \/ handler' = [handler EXCEPT ![q].pc = "checked"] /\ lock' = lock
              \/ handler' = [handler EXCEPT ![q].pc = "done"] /\ lock' = NoOne
          BY <3>2 DEF HandlerCheck
        <5>2. \A hr \in Handler : /\ [hr EXCEPT !.pc = "checked"].pc = "checked"
                                  /\ [hr EXCEPT !.pc = "done"].pc = "done"
          BY DEF Handler
        <5>3. handler \in [Request -> Handler] /\ handler[q] \in Handler
          BY DEF Typed, TypeOK
        <5>5. CASE lock' = lock /\ handler' = [handler EXCEPT ![q].pc = "checked"]
          BY <5>2, <5>3, <5>5
        <5>6. CASE lock' = NoOne /\ handler' = [handler EXCEPT ![q].pc = "done"]
          BY <5>2, <5>3, <5>6
        <5>. QED  BY <5>1, <5>5, <5>6
      <4>. QED  BY <1>0, <1>1, <2>2, <3>2, <4>1 DEF HandlerCheck, LockHeld
    <3>3. CASE HandlerReserve(q)
      <4>1. handler'[q].pc \in {"done", "reserved"} /\ lock' = NoOne
        BY <1>0, <3>3 DEF HandlerReserve, Typed, TypeOK, Handler
      <4>. QED  BY <1>0, <1>1, <2>2, <3>3, <4>1 DEF HandlerReserve, LockHeld
    <3>. QED  BY <1>2, <3>1, <3>2, <3>3 DEF HandlerStep
  <2>4. HandlerOwns'
    BY <1>1, <2>1, <2>2 DEF HandlerOwns
  <2>5. ClaimsBelowRetry' /\ ClaimFresh'
    BY <1>1, <2>1 DEF ClaimsBelowRetry, ClaimFresh, Typed, Working
  <2>. QED  BY <2>3, <2>4, <2>5
<1>3. ASSUME NEW w \in Withdrawal, PayoutStep(w)
      PROVE  LockHeld' /\ HandlerOwns' /\ ClaimsBelowRetry' /\ ClaimFresh'
  <2>1. /\ handler[w].pc \in {"reserved", "posting"}
        /\ \A p \in Request : p # w => handler'[p] = handler[p] /\ tx'[p] = tx[p]
        /\ lock' = lock
    BY <1>3 DEF PayoutStep, HandlerNoToken, HandlerPost, HandlerAccepted, HandlerRefused,
                HandlerQueued, HandlerError, HandlerEnd, Typed, TypeOK
  <2>2. \/ tx'[w].retry = tx[w].retry /\ handler'[w].pc \in {"done", "posting"}
        \/ tx'[w].retry = 1 /\ handler'[w].pc = "done"
    BY <1>0, <1>3 DEF PayoutStep, HandlerNoToken, HandlerPost, HandlerAccepted, HandlerRefused,
                HandlerQueued, HandlerError, HandlerEnd, Typed, TypeOK, Row, Handler
  <2>3. \A r \in Run : w \notin run[r].todo /\ run[r].at # w
    BY <2>1 DEF HandlerOwns
  <2>4. LockHeld' /\ HandlerOwns'
    BY <1>0, <1>1, <2>1, <2>2, <2>3 DEF LockHeld, HandlerOwns
  <2>5. \A n \in Attempt : claims[w][n] = 0
    <3>1. \A n \in Attempt : n >= 0
      BY ConstantsAssumption DEF Attempt
    <3>. QED  BY <2>1, <3>1 DEF HandlerOwns, ClaimsBelowRetry
  <2>6. ClaimsBelowRetry'
    BY <1>0, <1>1, <2>1, <2>5 DEF ClaimsBelowRetry
  <2>7. ClaimFresh'
    BY <1>0, <1>1, <2>1, <2>3 DEF ClaimFresh, Typed, Working
  <2>. QED  BY <2>4, <2>6, <2>7
<1>. QED  BY <1>2, <1>3

LEMMA ClaimStep == Prompt /\ ClaimInv /\ [Next]_vars => ClaimInv'
<1> SUFFICES ASSUME Prompt, ClaimInv, [Next]_vars PROVE ClaimInv'
  OBVIOUS
<1> USE DEF ClaimInv
<1>1. Typed'
  BY TypedStep
<1>2. ASSUME NEW r \in Run, RunStep(r)
      PROVE  ClaimInv'
  BY <1>1, <1>2, RunLocking, RunClaims
<1>3. ASSUME NEW h \in Hook, HookStep(h)
      PROVE  ClaimInv'
  <2>1. UNCHANGED <<run, handler, lock, claims>> /\ \A w \in Withdrawal : tx'[w].retry = tx[w].retry
    BY <1>3, OthersFrame, HookRetry
  <2>. QED  BY <1>1, <2>1 DEF LockHeld, HandlerOwns, ClaimsBelowRetry, ClaimFresh, Typed, Working
<1>4. CASE NombaStep
  <2>1. UNCHANGED <<tx, lock, claims>>
    BY <1>4, OthersFrame
  <2>2. \A r \in Run : /\ run'[r].pc = run[r].pc
                       /\ run'[r].at = run[r].at
                       /\ run'[r].todo = run[r].todo
                       /\ run'[r].copy = run[r].copy
    BY <1>4, NombaKeepsRuns
  <2>3. \A q \in Request : handler'[q].pc = handler[q].pc
    BY <1>4, NombaKeepsHandlers
  <2>. QED  BY <1>1, <2>1, <2>2, <2>3 DEF LockHeld, HandlerOwns, ClaimsBelowRetry, ClaimFresh
<1>5. CASE Crash
  <2>1. /\ UNCHANGED <<tx, claims>>
        /\ \A r \in Run : run'[r].pc = "idle" /\ run'[r].at = NoOne /\ run'[r].todo = {}
    BY <1>5 DEF Crash, observer, IdleRun
  <2>2. \A q \in Request : handler'[q].pc = "done" \/ (handler'[q] = handler[q] /\ handler[q].pc = "idle")
    <3>1. handler' = [q \in Request |-> IF handler[q].pc = "idle" THEN handler[q]
                                        ELSE [pc |-> "done", reply |-> "none"]]
      BY <1>5 DEF Crash
    <3>2. ASSUME NEW q \in Request
          PROVE  handler'[q].pc = "done" \/ (handler'[q] = handler[q] /\ handler[q].pc = "idle")
      <4>1. CASE handler[q].pc = "idle"
        BY <3>1, <4>1
      <4>2. CASE handler[q].pc # "idle"
        <5>1. handler'[q] = [pc |-> "done", reply |-> "none"]
          BY <3>1, <4>2
        <5>. QED  BY <5>1
      <4>. QED  BY <4>1, <4>2
    <3>. QED  BY <3>2
  <2>3. NoOne \notin Withdrawal /\ \A w \in Withdrawal : w \in Request
    BY ConstantsAssumption
  <2>. QED  BY <1>1, <2>1, <2>2, <2>3 DEF LockHeld, HandlerOwns, ClaimsBelowRetry, ClaimFresh
<1>6. CASE OthersSpend \/ UNCHANGED vars
  BY <1>1, <1>6, OthersLeave DEF vars, LockHeld, HandlerOwns, ClaimsBelowRetry, ClaimFresh
<1>. QED  BY <1>1, <1>2, <1>3, <1>4, <1>5, <1>6, HandlerClaims DEF Next

\* No attempt to re-initiate a withdrawal is claimed by two runs, for any number
\* of overlapping runs, as long as a run never loads a row whose first POST is
\* still unanswered (with slowInitiation the claim can be overwritten).
THEOREM ClaimsAreExclusive == Prompt => (Spec => []AttemptClaimedOnce)
<1>1. ClaimInv => AttemptClaimedOnce
  BY DEF ClaimInv, ClaimsBelowRetry, AttemptClaimedOnce
<1>2. ASSUME Prompt PROVE Spec => []AttemptClaimedOnce
  <2>1. ClaimInv /\ [Next]_vars => ClaimInv'
    BY <1>2, ClaimStep
  <2>. QED  BY <1>1, <2>1, ClaimInit, PTL DEF Spec
<1>. QED  BY <1>2

-----------------------------------------------------------------------------
(* The strengthening of SuccessOnlyIfPaid.                                 *)

\* Nomba's record says paid, and for good.
Settled(w) == bank[w] \in {"paid", "refunded"}
\* Nomba's record says that the payout will not be made, or was returned.
Returned(w) == bank[w] \in {"failed", "refunded"}

\* Every answer and event that reports a payout, however old, is true by now.
ReportsTrue ==
  /\ \A r \in Run :
       \/ run[r].pc = "notify"
       \/ run[r].pc = "verified" /\ run[r].reply = "SUCCESS"
       => Settled(run[r].at)
  /\ \A h \in Hook :
       \/ hook[h].pc = "notify"
       \/ hook[h].pc = "read" /\ hook[h].event = "payout_success"
       => Settled(hook[h].at)
  /\ \A w \in Withdrawal : "payout_success" \in event[w] => Settled(w)

SuccessInv == Typed /\ ReportsTrue /\ SuccessOnlyIfPaid

\* What Nomba has decided it does not take back, but for the refund.
LEMMA BankFinal ==
  ASSUME Typed, [Next]_vars, NEW w \in Withdrawal
  PROVE  /\ Settled(w) => Settled(w)'
         /\ Returned(w) => Returned(w)'
<1> USE DEF Settled, Returned
<1>1. CASE NombaStep
  <2> USE DEF Typed, TypeOK, external
  <2>1. CASE \E a \in Withdrawal \cup Run : NombaAnswer(a)
    BY <2>1 DEF NombaAnswer, NombaAccept, NombaTurnDown, PostBroken
  <2>2. CASE \E v \in Withdrawal : NombaLate(v) \/ NombaPay(v) \/ NombaReject(v) \/ NombaRefund(v)
    BY <2>2 DEF NombaLate, NombaPay, NombaReject, NombaRefund
  <2>. QED  BY <1>1, <2>1, <2>2 DEF NombaStep
<1>2. CASE ~NombaStep
  <2>1. bank' = bank
    BY <1>2, OthersFrame, OthersLeave, RunFrame DEF Next, Crash, vars
  <2>. QED  BY <2>1
<1>. QED  BY <1>1, <1>2

LEMMA SuccessInit == Init => SuccessInv
<1> SUFFICES ASSUME Init PROVE SuccessInv
  OBVIOUS
<1>1. ReportsTrue
  BY DEF Init, ReportsTrue, IdleRun, IdleHook
<1>2. SuccessOnlyIfPaid
  BY DEF Init, SuccessOnlyIfPaid, NoRow, Request
<1>. QED  BY <1>1, <1>2, TypedInit DEF SuccessInv

\* A run learns of a success from Nomba's record and writes nothing else.
LEMMA RunSuccess ==
  ASSUME SuccessInv, NEW r \in Run, RunStep(r)
  PROVE  ReportsTrue' /\ SuccessOnlyIfPaid'
<1> USE DEF SuccessInv, Settled
<1>0. run[r] \in RunState
  BY DEF Typed, TypeOK
<1>1. UNCHANGED <<hook, bank, event>> /\ \A s \in Run : s # r => run'[s] = run[s]
  BY RunFrame
<1>2. \/ run'[r].pc = "notify"
      \/ run'[r].pc = "verified" /\ run'[r].reply = "SUCCESS"
      => Settled(run'[r].at)
  <2>1. CASE run'[r].pc \in {"idle", "next"}
    BY <2>1
  <2>2. ASSUME NEW v \in Withdrawal, NEW answer \in QueryReply, RunVerify(r, v, answer),
               run'[r] = [run[r] EXCEPT !.pc = "verified", !.at = v, !.reply = answer]
        PROVE  run'[r].pc = "verified" /\ run'[r].at = v /\ (run'[r].reply = "SUCCESS" => bank[v] = "paid")
    <3>1. answer = "SUCCESS" => bank[v] = "paid"
      BY <2>2 DEF RunVerify, QueryAnswers
    <3>. QED  BY <1>0, <2>2, <3>1 DEF RunState
  <2>3. CASE RunSettle(r) /\ run'[r] = [run[r] EXCEPT !.pc = "notify"]
    BY <1>0, <2>3 DEF RunSettle, RunState, ReportsTrue
  <2>4. CASE RunLock(r) /\ run'[r] = [run[r] EXCEPT !.pc = "locked", !.reply = "none"]
    BY <1>0, <2>4 DEF RunState
  <2>5. CASE RunRecheck(r) /\ run'[r] = [run[r] EXCEPT !.pc = "claiming"]
    BY <1>0, <2>5 DEF RunState
  <2>6. CASE RunClaim(r) /\ run'[r] = [run[r] EXCEPT !.pc = "posting"]
    BY <1>0, <2>6 DEF RunState
  <2>. QED  BY RunMove, <2>1, <2>2, <2>3, <2>4, <2>5, <2>6
<1>3. ReportsTrue'
  BY <1>1, <1>2 DEF ReportsTrue
<1>4. SuccessOnlyIfPaid'
  <2> USE DEF Typed, TypeOK, SuccessOnlyIfPaid, external, observer
  <2>1. CASE RunLoad(r) \/ (\E v \in Withdrawal, answer \in QueryReply : RunVerify(r, v, answer))
             \/ RunLeave(r) \/ RunLock(r) \/ RunRecheck(r)
    <3>1. UNCHANGED <<tx, notified>>
      BY <2>1 DEF RunLoad, RunVerify, RunLeave, RunLock, RunRecheck
    <3>. QED  BY <1>1, <3>1
  <2>2. CASE RunSettle(r)
    <3>1. Settled(run[r].at) /\ notified' = notified
      BY <2>2 DEF RunSettle, ReportsTrue
    <3>2. \A q \in Request : q # run[r].at => tx'[q] = tx[q]
      BY RunFrame
    <3>. QED  BY <1>1, <3>1, <3>2
  <2>3. CASE RunNotify(r)
    <3>1. Settled(run[r].at) /\ tx' = tx
      BY <2>3 DEF RunNotify, ReportsTrue
    <3>2. \A w \in Withdrawal : w # run[r].at => notified'[w] = notified[w]
      BY <2>3 DEF RunNotify, Announce
    <3>. QED  BY <1>1, <3>1, <3>2
  <2>4. CASE RunFail(r) \/ RunPark(r) \/ RunClaim(r) \/ RunReply(r)
    <3>1. notified' = notified
      BY <2>4 DEF RunFail, RunPark, RunClaim, RunReply
    <3>2. \A w \in Withdrawal : tx'[w].status \in {tx[w].status, "failed"}
      <4>1. CASE RunFail(r)
        BY <4>1 DEF RunFail, Row
      <4>2. CASE RunPark(r)
        BY <4>2 DEF RunPark, Row
      <4>3. CASE RunClaim(r)
        BY <4>3 DEF RunClaim, Row
      <4>4. CASE RunReply(r)
        BY <4>4 DEF RunReply, Row
      <4>. QED  BY <2>4, <4>1, <4>2, <4>3, <4>4
    <3>. QED  BY <1>1, <3>1, <3>2
  <2>. QED  BY <2>1, <2>2, <2>3, <2>4 DEF RunStep
<1>. QED  BY <1>3, <1>4

\* A webhook execution learns of a success from an event Nomba has emitted.
LEMMA HookSuccessful ==
  ASSUME SuccessInv, NEW h \in Hook, HookStep(h)
  PROVE  ReportsTrue' /\ SuccessOnlyIfPaid'
<1> USE DEF SuccessInv, Settled, Typed, TypeOK
<1>0. hook[h] \in HookState /\ IdleHook.pc = "idle"
  BY DEF IdleHook
<1>1. UNCHANGED <<run, bank, event>>
  BY OthersFrame
<1>2. ASSUME NEW w \in Withdrawal, NEW e \in Event, HookRead(h, w, e)
      PROVE  ReportsTrue' /\ SuccessOnlyIfPaid'
  <2>1. UNCHANGED <<tx, notified>>
    BY <1>2 DEF HookRead, observer
  <2>2. hook' = [hook EXCEPT ![h] = [pc |-> "read", at |-> w, event |-> e, copy |-> tx[w]]] /\ e \in event[w]
    BY <1>2 DEF HookRead
  <2>. QED  BY <1>1, <2>1, <2>2 DEF ReportsTrue, SuccessOnlyIfPaid
<1>3. CASE HookSuccess(h)
  <2>1. Settled(hook[h].at) /\ notified' = notified
    BY <1>3 DEF HookSuccess, ReportsTrue, observer
  <2>2. \A g \in Hook : g # h => hook'[g] = hook[g]
    BY <1>3 DEF HookSuccess
  <2>3. hook'[h].pc = "idle" \/ hook'[h].at = hook[h].at
    <3>1. [hook[h] EXCEPT !.pc = "notify"].at = hook[h].at
      BY <1>0 DEF HookState
    <3>. QED  BY <1>0, <1>3, <3>1 DEF HookSuccess
  <2>4. \A w \in Withdrawal : w # hook[h].at => tx'[w] = tx[w]
    BY <1>3 DEF HookSuccess
  <2>. QED  BY <1>1, <2>1, <2>2, <2>3, <2>4 DEF ReportsTrue, SuccessOnlyIfPaid
<1>4. CASE HookNotify(h)
  <2>1. Settled(hook[h].at) /\ tx' = tx
    BY <1>4 DEF HookNotify, ReportsTrue
  <2>2. \A w \in Withdrawal : w # hook[h].at => notified'[w] = notified[w]
    BY <1>4 DEF HookNotify, Announce
  <2>3. hook' = [hook EXCEPT ![h] = IdleHook]
    BY <1>4 DEF HookNotify
  <2>. QED  BY <1>0, <1>1, <2>1, <2>2, <2>3 DEF ReportsTrue, SuccessOnlyIfPaid
<1>5. CASE HookFail(h)
  <2>1. notified' = notified /\ hook' = [hook EXCEPT ![h] = IdleHook]
    BY <1>5 DEF HookFail, observer
  <2>2. \A w \in Withdrawal : tx'[w].status \in {tx[w].status, "failed"}
    BY <1>5 DEF HookFail, Row
  <2>. QED  BY <1>0, <1>1, <2>1, <2>2 DEF ReportsTrue, SuccessOnlyIfPaid
<1>. QED  BY <1>2, <1>3, <1>4, <1>5 DEF HookStep

\* A handler never writes success on a withdrawal.
LEMMA HandlerSuccess ==
  ASSUME SuccessInv,
         (\E q \in Request : HandlerStep(q)) \/ (\E w \in Withdrawal : PayoutStep(w))
  PROVE  ReportsTrue' /\ SuccessOnlyIfPaid'
<1> USE DEF SuccessInv, Typed, TypeOK, external, observer
<1>1. UNCHANGED <<run, hook, bank, event>>
  BY OthersFrame
<1>2. notified' = notified /\ \A w \in Withdrawal : tx'[w].status # "success" \/ tx'[w].status = tx[w].status
  <2>1. CASE \E q \in Request : HandlerStep(q)
    <3>1. \A w \in Withdrawal : w \notin Transfer
      BY ConstantsAssumption
    <3>. QED  BY <2>1, <3>1 DEF HandlerStep, HandlerLock, HandlerCheck, HandlerReserve, Row
  <2>2. CASE \E w \in Withdrawal : PayoutStep(w)
    BY <2>2 DEF PayoutStep, HandlerNoToken, HandlerPost, HandlerAccepted, HandlerRefused,
                HandlerQueued, HandlerError, HandlerEnd, Row
  <2>. QED  BY <2>1, <2>2
<1>. QED  BY <1>1, <1>2 DEF ReportsTrue, Settled, SuccessOnlyIfPaid

LEMMA NombaSuccess ==
  ASSUME SuccessInv, NombaStep
  PROVE  ReportsTrue' /\ SuccessOnlyIfPaid'
<1> USE DEF SuccessInv
<1>0. [Next]_vars
  BY DEF Next
<1>1. \A w \in Withdrawal : Settled(w) => Settled(w)'
  BY <1>0, BankFinal
<1>2. UNCHANGED <<tx, hook, notified>>
  BY OthersFrame
<1>3. \A w \in Withdrawal : "payout_success" \in event'[w] => Settled(w)'
  <2> USE DEF external, Typed, TypeOK
  <2>1. \A w \in Withdrawal : "payout_success" \in event[w] => Settled(w)'
    BY <1>1 DEF ReportsTrue
  <2>2. CASE \E a \in Withdrawal \cup Run : NombaAnswer(a)
    <3>1. event' = event
      BY <2>2 DEF NombaAnswer, NombaAccept, NombaTurnDown, PostBroken
    <3>. QED  BY <2>1, <3>1
  <2>3. CASE \E v \in Withdrawal : NombaLate(v) \/ NombaReject(v) \/ NombaRefund(v)
    <3>1. CASE \E v \in Withdrawal : NombaLate(v)
      BY <2>1, <3>1 DEF NombaLate
    <3>2. CASE \E v \in Withdrawal : NombaReject(v)
      BY <2>1, <3>2 DEF NombaReject
    <3>3. CASE \E v \in Withdrawal : NombaRefund(v)
      BY <2>1, <3>3 DEF NombaRefund
    <3>. QED  BY <2>3, <3>1, <3>2, <3>3
  <2>4. CASE \E v \in Withdrawal : NombaPay(v)
    BY <2>1, <2>4 DEF NombaPay, Settled
  <2>. QED  BY <2>2, <2>3, <2>4 DEF NombaStep
<1>4. \A r \in Run :
        \/ run'[r].pc = "notify"
        \/ run'[r].pc = "verified" /\ run'[r].reply = "SUCCESS"
        => bank'[run'[r].at] \in {"paid", "refunded"}
  <2> SUFFICES ASSUME NEW r \in Run,
                      \/ run'[r].pc = "notify"
                      \/ run'[r].pc = "verified" /\ run'[r].reply = "SUCCESS"
               PROVE  bank'[run'[r].at] \in {"paid", "refunded"}
    OBVIOUS
  <2>1. run'[r] = run[r]
    BY NombaKeepsRuns
  <2>2. run[r].at \in Withdrawal
    BY <2>1 DEF Typed, Working
  <2>. QED  BY <1>1, <2>1, <2>2 DEF ReportsTrue, Settled
<1>5. \A h \in Hook :
       \/ hook[h].pc = "notify"
       \/ hook[h].pc = "read" /\ hook[h].event = "payout_success"
       => bank'[hook[h].at] \in {"paid", "refunded"}
  BY <1>1 DEF ReportsTrue, Typed, HookWorking, Settled
<1>6. ReportsTrue'
  BY <1>2, <1>3, <1>4, <1>5 DEF ReportsTrue, Settled
<1>7. SuccessOnlyIfPaid'
  BY <1>1, <1>2 DEF SuccessOnlyIfPaid, Settled
<1>. QED  BY <1>6, <1>7

LEMMA SuccessStep == SuccessInv /\ [Next]_vars => SuccessInv'
<1> SUFFICES ASSUME SuccessInv, [Next]_vars PROVE SuccessInv'
  OBVIOUS
<1>1. Typed'
  BY TypedStep DEF SuccessInv
<1>2. CASE Crash
  <2>1. UNCHANGED <<tx, bank, event, notified>>
    BY <1>2 DEF Crash, observer
  <2>2. \A r \in Run : run'[r].pc = "idle"
    BY <1>2 DEF Crash, IdleRun
  <2>3. \A h \in Hook : hook'[h].pc = "idle"
    BY <1>2 DEF Crash, IdleHook
  <2>4. ReportsTrue' /\ SuccessOnlyIfPaid'
    BY <2>1, <2>2, <2>3 DEF SuccessInv, ReportsTrue, Settled, SuccessOnlyIfPaid
  <2>. QED  BY <1>1, <2>4 DEF SuccessInv
<1>3. CASE OthersSpend \/ UNCHANGED vars
  BY <1>1, <1>3, OthersLeave DEF SuccessInv, ReportsTrue, Settled, SuccessOnlyIfPaid, vars
<1>. QED
  BY <1>1, <1>2, <1>3, HandlerSuccess, RunSuccess, HookSuccessful, NombaSuccess DEF Next, SuccessInv

\* A withdrawal is shown as successful, by its row or by a notification, only
\* when Nomba has paid it: whatever handlers, runs, redelivered webhooks, late
\* requests, restarts and refunds do, in any number and order.
THEOREM SuccessIsReal == Spec => []SuccessOnlyIfPaid
<1>1. SuccessInv => SuccessOnlyIfPaid
  BY DEF SuccessInv
<1>. QED  BY <1>1, SuccessInit, SuccessStep, PTL DEF Spec

-----------------------------------------------------------------------------
(* The strengthening of PaidStaysDebited.  Besides Prompt it needs Nomba's  *)
(* answers 400 and 401 to mean that there is no payout.                    *)

Definite == "authError" \notin Env

\* Answers that report a failure are true by now as well.
FailuresTrue ==
  /\ \A r \in Run :
       run[r].pc = "verified" /\ run[r].reply \in {"PAYMENT_FAILED", "denied"} => Returned(run[r].at)
  /\ \A h \in Hook :
       hook[h].pc = "read" /\ hook[h].event \in {"payout_failed", "payout_refund"} => Returned(hook[h].at)
  /\ \A w \in Withdrawal : event[w] \cap {"payout_failed", "payout_refund"} # {} => Returned(w)

\* There is no event, and no webhook execution, before Nomba has decided.
EventsFollowBank ==
  \A w \in Withdrawal :
    bank[w] \in {"unknown", "accepted"} =>
      event[w] = {} /\ \A h \in Hook : hook[h].pc # "idle" => hook[h].at # w

\* No row, no payout: before the row is inserted nothing can have been posted.
NothingBeforeRow ==
  \A w \in Withdrawal :
    /\ handler[w].pc \in {"idle", "locked", "checked"} => tx[w].status = "none"
    /\ tx[w].status = "none" =>
         /\ handler[w].pc \notin {"reserved", "posting"}
         /\ bank[w] = "unknown"
         /\ w \notin late
         /\ \A r \in Run : w \notin run[r].todo /\ run[r].at # w

\* Nomba knows nothing of a payout its handler has not posted yet or had refused.
Unsent(w) ==
  \/ handler[w].pc = "reserved"
  \/ handler[w].pc = "posting" /\ handler[w].reply \in {"none", "other", "insufficient"}

HandlerAlone ==
  \A w \in Withdrawal :
    Unsent(w) => bank[w] = "unknown" /\ w \notin late /\ tx[w].status = "processing"

\* Nothing is on its way to Nomba for w, and no run is about to send anything.
Quiet(w) ==
  /\ handler[w].pc = "done"
  /\ w \notin late
  /\ \A r \in Run : run[r].pc \in {"claiming", "posting"} => run[r].at # w

\* A failed row is either final at Nomba or will never reach it.
FailedIsOver ==
  \A w \in Withdrawal :
    tx[w].status = "failed" => Returned(w) \/ (bank[w] = "unknown" /\ Quiet(w))

DebitInv ==
  /\ ClaimInv
  /\ FailuresTrue
  /\ EventsFollowBank
  /\ NothingBeforeRow
  /\ HandlerAlone
  /\ FailedIsOver

LEMMA DebitInit == Init => DebitInv
<1> SUFFICES ASSUME Init PROVE DebitInv
  OBVIOUS
<1>1. NoOne \notin Withdrawal /\ \A w \in Withdrawal : w \in Request
  BY ConstantsAssumption
<1>2. ClaimInv
  BY ClaimInit
<1>3. FailuresTrue /\ EventsFollowBank
  BY DEF Init, FailuresTrue, EventsFollowBank, IdleRun, IdleHook
<1>4. NothingBeforeRow /\ HandlerAlone /\ FailedIsOver
  BY <1>1 DEF Init, NothingBeforeRow, HandlerAlone, Unsent, FailedIsOver, IdleRun, NoRow
<1>. QED  BY <1>2, <1>3, <1>4 DEF DebitInv

\* What a run writes into the status of the row it is at.
LEMMA RunWrites ==
  ASSUME Typed, NEW r \in Run, RunStep(r), NEW w \in Withdrawal
  PROVE  \/ tx'[w].status = tx[w].status
         \/ RunSettle(r) /\ w = run[r].at /\ tx'[w].status = "success"
         \/ RunFail(r) /\ w = run[r].at /\ tx'[w].status = "failed"
<1> USE DEF Typed, TypeOK
<1>0. tx[w] \in Row /\ w \in Request
  OBVIOUS
<1>1. CASE RunLoad(r) \/ (\E v \in Withdrawal, answer \in QueryReply : RunVerify(r, v, answer))
           \/ RunNotify(r) \/ RunLeave(r) \/ RunLock(r) \/ RunRecheck(r)
  BY <1>1 DEF RunLoad, RunVerify, RunNotify, RunLeave, RunLock, RunRecheck
<1>2. CASE RunSettle(r)
  BY <1>0, <1>2 DEF RunSettle, Row
<1>3. CASE RunFail(r)
  BY <1>0, <1>3 DEF RunFail, Row
<1>4. CASE RunPark(r)
  BY <1>0, <1>4 DEF RunPark, Row
<1>5. CASE RunReply(r)
  BY <1>0, <1>5 DEF RunReply, Row
<1>6. CASE RunClaim(r)
  BY <1>0, <1>6 DEF RunClaim, Row
<1>. QED  BY <1>1, <1>2, <1>3, <1>4, <1>5, <1>6 DEF RunStep

LEMMA RunDebit ==
  ASSUME Definite, DebitInv, ClaimInv', NEW r \in Run, RunStep(r)
  PROVE  DebitInv'
<1> USE DEF DebitInv, ClaimInv
<1>0. /\ run[r] \in RunState
      /\ NoOne \notin Withdrawal
      /\ \A w \in Withdrawal : w \in Request /\ tx[w] \in Row
  BY ConstantsAssumption DEF Typed, TypeOK
<1>1. /\ UNCHANGED <<handler, hook, bank, event, late>>
      /\ \A s \in Run : s # r => run'[s] = run[s]
      /\ \A q \in Request : q # run[r].at => tx'[q] = tx[q]
  BY RunFrame
<1>2. FailuresTrue'
  <2>1. run'[r].pc = "verified" /\ run'[r].reply \in {"PAYMENT_FAILED", "denied"} => Returned(run'[r].at)
    <3>1. ASSUME NEW v \in Withdrawal, NEW answer \in QueryReply, RunVerify(r, v, answer),
                 run'[r] = [run[r] EXCEPT !.pc = "verified", !.at = v, !.reply = answer]
          PROVE  run'[r].at = v /\ (run'[r].reply \in {"PAYMENT_FAILED", "denied"} => bank[v] \in {"failed", "refunded"})
      <4>1. answer \in {"PAYMENT_FAILED", "denied"} => bank[v] \in {"failed", "refunded"}
        BY <3>1 DEF RunVerify, QueryAnswers, Definite, Typed, TypeOK, BankState
      <4>. QED  BY <1>0, <3>1, <4>1 DEF RunState
    <3>2. \/ run'[r].pc # "verified"
          \/ \E v \in Withdrawal, answer \in QueryReply :
               RunVerify(r, v, answer) /\ run'[r] = [run[r] EXCEPT !.pc = "verified", !.at = v, !.reply = answer]
      <4>1. CASE run'[r].pc \in {"idle", "next"}
        BY <4>1
      <4>2. CASE \/ run'[r] = [run[r] EXCEPT !.pc = "notify"]
                 \/ run'[r] = [run[r] EXCEPT !.pc = "locked", !.reply = "none"]
                 \/ run'[r] = [run[r] EXCEPT !.pc = "claiming"]
                 \/ run'[r] = [run[r] EXCEPT !.pc = "posting"]
        BY <1>0, <4>2 DEF RunState
      <4>. QED  BY <4>1, <4>2, RunMove
    <3>. QED  BY <3>1, <3>2 DEF Returned
  <2>. QED  BY <1>1, <2>1 DEF FailuresTrue, Returned
<1>3. EventsFollowBank'
  BY <1>1 DEF EventsFollowBank
<1>4. NothingBeforeRow'
  <2> SUFFICES ASSUME NEW w \in Withdrawal
               PROVE  /\ tx[w].status = "none" => tx'[w].status = "none"
                      /\ tx'[w].status = "none" => tx[w].status = "none"
                      /\ tx[w].status = "none" => w \notin run'[r].todo /\ run'[r].at # w
    BY <1>1 DEF NothingBeforeRow
  <2>1. tx[w].status = "none" => w \notin run[r].todo /\ run[r].at # w
    BY DEF NothingBeforeRow
  <2>2. (tx[w].status = "none") <=> (tx'[w].status = "none")
    BY <1>0, <1>1, <2>1, RunWrites
  <2>3. tx[w].status = "none" => w \notin run'[r].todo /\ run'[r].at # w
    <3>1. CASE RunLoad(r)
      <4>1. run'[r].todo \subseteq {v \in Withdrawal : tx[v].status = "processing"} /\ run'[r].at = NoOne
        BY <3>1 DEF RunLoad, IdleRun, Typed, TypeOK
      <4>. QED  BY <1>0, <4>1
    <3>2. CASE run'[r].at = NoOne /\ run'[r].todo \subseteq run[r].todo
      BY <1>0, <2>1, <3>2
    <3>3. ASSUME NEW v \in Withdrawal, NEW answer \in QueryReply, RunVerify(r, v, answer),
                 run'[r] = [run[r] EXCEPT !.pc = "verified", !.at = v, !.reply = answer]
          PROVE  tx[w].status = "none" => w \notin run'[r].todo /\ run'[r].at # w
      <4>1. v \in run[r].todo
        BY <3>3 DEF RunVerify
      <4>. QED  BY <1>0, <2>1, <3>3, <4>1 DEF RunState
    <3>4. CASE \/ run'[r] = [run[r] EXCEPT !.pc = "notify"]
               \/ run'[r] = [run[r] EXCEPT !.pc = "locked", !.reply = "none"]
               \/ run'[r] = [run[r] EXCEPT !.pc = "claiming"]
               \/ run'[r] = [run[r] EXCEPT !.pc = "posting"]
      BY <1>0, <2>1, <3>4 DEF RunState
    <3>. QED  BY RunMove, <3>1, <3>2, <3>3, <3>4
  <2>. QED  BY <2>2, <2>3
<1>5. HandlerAlone'
  <2>1. \A w \in Withdrawal : Unsent(w) => run[r].at # w
    BY DEF Unsent, HandlerOwns
  <2>. QED  BY <1>0, <1>1, <2>1 DEF HandlerAlone, Unsent
<1>6. FailedIsOver'
  <2> SUFFICES ASSUME NEW w \in Withdrawal, tx'[w].status = "failed"
               PROVE  Returned(w) \/ (bank[w] = "unknown" /\ Quiet(w)')
    BY <1>1 DEF FailedIsOver, Returned
  <2>1. CASE RunFail(r) /\ w = run[r].at
    BY <2>1 DEF RunFail, FailuresTrue
  <2>2. CASE tx[w].status = "failed"
    <3>1. Returned(w) \/ (bank[w] = "unknown" /\ Quiet(w))
      BY <2>2 DEF FailedIsOver
    <3>2. Quiet(w) => Quiet(w)'
      <4> SUFFICES ASSUME Quiet(w), run'[r].pc \in {"claiming", "posting"}
                   PROVE  run'[r].at # w
        BY <1>1 DEF Quiet
      <4>1. CASE RunRecheck(r) /\ run'[r] = [run[r] EXCEPT !.pc = "claiming"]
        <5>1. Proceed(run[r]).pc # "claiming"
          BY <1>0, ProceedFacts
        <5>2. tx[run[r].at].status = "processing"
          BY <1>0, <4>1, <5>1 DEF RunRecheck, RunState, Typed, TypeOK
        <5>. QED  BY <1>0, <2>2, <4>1, <5>2 DEF RunState
      <4>2. CASE RunClaim(r) /\ run'[r] = [run[r] EXCEPT !.pc = "posting"]
        BY <1>0, <4>2 DEF RunClaim, Quiet, RunState
      <4>. QED  BY <1>0, <4>1, <4>2, RunMove DEF RunState
    <3>. QED  BY <3>1, <3>2
  <2>. QED  BY <2>1, <2>2, RunWrites
<1>. QED  BY <1>2, <1>3, <1>4, <1>5, <1>6

\* What a webhook execution writes into the status of the row it is at.
LEMMA HookWrites ==
  ASSUME Typed, NEW h \in Hook, HookStep(h), NEW w \in Withdrawal
  PROVE  \/ tx'[w].status = tx[w].status
         \/ HookSuccess(h) /\ w = hook[h].at /\ tx'[w].status = "success"
         \/ HookFail(h) /\ w = hook[h].at /\ tx'[w].status = "failed"
<1> USE DEF Typed, TypeOK
<1>0. tx[w] \in Row /\ w \in Request
  OBVIOUS
<1>1. CASE (\E v \in Withdrawal, e \in Event : HookRead(h, v, e)) \/ HookNotify(h)
  BY <1>1 DEF HookRead, HookNotify
<1>2. CASE HookSuccess(h)
  BY <1>0, <1>2 DEF HookSuccess, Row
<1>3. CASE HookFail(h)
  BY <1>0, <1>3 DEF HookFail, Row
<1>. QED  BY <1>1, <1>2, <1>3 DEF HookStep

LEMMA HookMove ==
  ASSUME Typed, NEW h \in Hook, HookStep(h)
  PROVE  /\ \A g \in Hook : g # h => hook'[g] = hook[g]
         /\ \/ hook'[h].pc = "idle"
            \/ \E w \in Withdrawal, e \in Event :
                 HookRead(h, w, e) /\ hook'[h] = [pc |-> "read", at |-> w, event |-> e, copy |-> tx[w]]
            \/ HookSuccess(h) /\ hook'[h].pc = "notify" /\ hook'[h].at = hook[h].at
<1> USE DEF Typed, TypeOK
<1>0. hook[h] \in HookState /\ IdleHook.pc = "idle"
  BY DEF IdleHook
<1>1. ASSUME NEW w \in Withdrawal, NEW e \in Event, HookRead(h, w, e)
      PROVE  /\ \A g \in Hook : g # h => hook'[g] = hook[g]
             /\ hook'[h] = [pc |-> "read", at |-> w, event |-> e, copy |-> tx[w]]
  BY <1>1 DEF HookRead
<1>2. CASE HookSuccess(h)
  <2>1. [hook[h] EXCEPT !.pc = "notify"].pc = "notify" /\ [hook[h] EXCEPT !.pc = "notify"].at = hook[h].at
    BY <1>0 DEF HookState
  <2>. QED  BY <1>0, <1>2, <2>1 DEF HookSuccess
<1>3. CASE HookNotify(h) \/ HookFail(h)
  BY <1>0, <1>3 DEF HookNotify, HookFail
<1>. QED  BY <1>1, <1>2, <1>3 DEF HookStep

LEMMA HookDebit ==
  ASSUME DebitInv, ClaimInv', NEW h \in Hook, HookStep(h)
  PROVE  DebitInv'
<1> USE DEF DebitInv, ClaimInv
<1>0. \A w \in Withdrawal : w \in Request
  OBVIOUS
<1>1. UNCHANGED <<run, handler, bank, event, late>>
  BY OthersFrame
<1>2. hook[h].pc # "idle" => hook[h].at \in Withdrawal /\ bank[hook[h].at] \notin {"unknown", "accepted"}
  BY DEF EventsFollowBank, Typed, HookWorking
<1>3. \A w \in Withdrawal :
        \/ tx'[w].status = tx[w].status
        \/ /\ tx'[w].status \in {"success", "failed"}
           /\ bank[w] \notin {"unknown", "accepted"}
           /\ tx'[w].status = "failed" => Returned(w)
  BY <1>2, HookWrites DEF HookSuccess, HookFail, FailuresTrue
<1>4. FailuresTrue' /\ EventsFollowBank'
  <2>1. CASE hook'[h].pc = "idle" \/ (hook'[h].pc = "notify" /\ hook'[h].at = hook[h].at /\ HookSuccess(h))
    <3>1. hook'[h].pc # "idle" => hook[h].pc # "idle" /\ hook'[h].at = hook[h].at /\ hook'[h].pc # "read"
      BY <2>1 DEF HookSuccess
    <3>. QED  BY <1>1, <3>1, HookMove DEF FailuresTrue, EventsFollowBank, Returned
  <2>2. ASSUME NEW w \in Withdrawal, NEW e \in Event, HookRead(h, w, e),
               hook'[h] = [pc |-> "read", at |-> w, event |-> e, copy |-> tx[w]]
        PROVE  FailuresTrue' /\ EventsFollowBank'
    <3>1. e \in event[w]
      BY <2>2 DEF HookRead
    <3>. QED  BY <1>1, <2>2, <3>1, HookMove DEF FailuresTrue, EventsFollowBank, Returned
  <2>. QED  BY <2>1, <2>2, HookMove
<1>5. NothingBeforeRow'
  BY <1>1, <1>3 DEF NothingBeforeRow
<1>6. HandlerAlone'
  BY <1>1, <1>3 DEF HandlerAlone, Unsent
<1>7. FailedIsOver'
  BY <1>1, <1>3 DEF FailedIsOver, Quiet, Returned
<1>. QED  BY <1>4, <1>5, <1>6, <1>7

LEMMA HandlerDebit ==
  ASSUME DebitInv, ClaimInv', NEW q \in Request, HandlerStep(q)
  PROVE  DebitInv'
<1> USE DEF DebitInv, ClaimInv
<1>0. /\ handler[q] \in Handler /\ tx[q] \in Row
      /\ \A w \in Withdrawal : w \in Request /\ w \notin Transfer
  BY ConstantsAssumption DEF Typed, TypeOK
<1>1. UNCHANGED <<run, hook, bank, event, late>>
  BY OthersFrame
<1>2. FailuresTrue' /\ EventsFollowBank'
  BY <1>1 DEF FailuresTrue, EventsFollowBank, Returned
<1>3. \A p \in Request : p # q => handler'[p] = handler[p] /\ tx'[p] = tx[p]
  BY DEF HandlerStep, HandlerLock, HandlerCheck, HandlerReserve, Typed, TypeOK
<1>4. handler[q].pc \in {"idle", "locked", "checked"}
  BY DEF HandlerStep, HandlerLock, HandlerCheck, HandlerReserve
<1>5. \/ tx'[q] = tx[q] /\ handler'[q].pc \in {"locked", "checked", "done"}
      \/ q \in Transfer
      \/ tx'[q].status = "processing" /\ handler'[q].pc = "reserved"
  <2>1. CASE HandlerLock(q)
    <3>1. [handler[q] EXCEPT !.pc = "locked"].pc = "locked"
      BY <1>0 DEF Handler
    <3>. QED  BY <2>1, <3>1 DEF HandlerLock, Typed, TypeOK
  <2>2. CASE HandlerCheck(q)
    <3>1. \/ handler' = [handler EXCEPT ![q].pc = "checked"]
          \/ handler' = [handler EXCEPT ![q].pc = "done"]
      BY <2>2 DEF HandlerCheck
    <3>2. /\ [handler[q] EXCEPT !.pc = "checked"].pc = "checked"
          /\ [handler[q] EXCEPT !.pc = "done"].pc = "done"
      BY <1>0 DEF Handler
    <3>3. tx' = tx /\ handler \in [Request -> Handler]
      BY <2>2 DEF HandlerCheck, Typed, TypeOK
    <3>. QED  BY <3>1, <3>2, <3>3
  <2>3. CASE HandlerReserve(q) /\ q \notin Transfer
    <3>1. /\ tx' = [tx EXCEPT ![q].status = "processing"]
          /\ handler' = [handler EXCEPT ![q].pc = "reserved"]
      BY <2>3 DEF HandlerReserve
    <3>. QED  BY <1>0, <3>1 DEF Typed, TypeOK, Row, Handler
  <2>. QED  BY <2>1, <2>2, <2>3 DEF HandlerStep
<1>6. q \in Withdrawal => /\ tx[q].status = "none" /\ bank[q] = "unknown" /\ q \notin late
                          /\ \A r \in Run : q \notin run[r].todo /\ run[r].at # q
  BY <1>4 DEF NothingBeforeRow
<1>7. NothingBeforeRow'
  <2> SUFFICES ASSUME NEW w \in Withdrawal
               PROVE  /\ handler'[w].pc \in {"idle", "locked", "checked"} => tx'[w].status = "none"
                      /\ tx'[w].status = "none" =>
                           /\ handler'[w].pc \notin {"reserved", "posting"}
                           /\ bank[w] = "unknown"
                           /\ w \notin late
                           /\ \A r \in Run : w \notin run[r].todo /\ run[r].at # w
    BY <1>1 DEF NothingBeforeRow
  <2>1. CASE w = q
    BY <1>0, <1>5, <1>6, <2>1
  <2>2. CASE w # q
    BY <1>0, <1>3, <2>2 DEF NothingBeforeRow
  <2>. QED  BY <2>1, <2>2
<1>8. HandlerAlone'
  <2> SUFFICES ASSUME NEW w \in Withdrawal, Unsent(w)'
               PROVE  bank[w] = "unknown" /\ w \notin late /\ tx'[w].status = "processing"
    BY <1>1 DEF HandlerAlone
  <2>1. CASE w = q
    BY <1>0, <1>5, <1>6, <2>1 DEF Unsent
  <2>2. CASE w # q
    BY <1>0, <1>3, <2>2 DEF HandlerAlone, Unsent
  <2>. QED  BY <2>1, <2>2
<1>9. FailedIsOver'
  <2> SUFFICES ASSUME NEW w \in Withdrawal, tx'[w].status = "failed"
               PROVE  Returned(w) \/ (bank[w] = "unknown" /\ Quiet(w)')
    BY <1>1 DEF FailedIsOver, Returned
  <2>1. w # q
    BY <1>0, <1>5, <1>6
  <2>. QED  BY <1>0, <1>1, <1>3, <2>1 DEF FailedIsOver, Quiet
<1>. QED  BY <1>2, <1>7, <1>8, <1>9

LEMMA PayoutDebit ==
  ASSUME DebitInv, ClaimInv', NEW w \in Withdrawal, PayoutStep(w)
  PROVE  DebitInv'
<1> USE DEF DebitInv, ClaimInv
<1>0. /\ handler[w] \in Handler /\ tx[w] \in Row
      /\ \A v \in Withdrawal : v \in Request
  BY DEF Typed, TypeOK
<1>1. UNCHANGED <<run, hook, bank, event, late>>
  BY OthersFrame
<1>2. FailuresTrue' /\ EventsFollowBank'
  BY <1>1 DEF FailuresTrue, EventsFollowBank, Returned
<1>3. \A p \in Request : p # w => handler'[p] = handler[p] /\ tx'[p] = tx[p]
  BY DEF PayoutStep, HandlerNoToken, HandlerPost, HandlerAccepted, HandlerRefused,
         HandlerQueued, HandlerError, HandlerEnd, Typed, TypeOK
<1>4. /\ tx[w].status # "none"
      /\ \A r \in Run : run[r].at # w
  BY <1>0 DEF NothingBeforeRow, HandlerOwns, PayoutStep, HandlerNoToken, HandlerPost, HandlerAccepted,
         HandlerRefused, HandlerQueued, HandlerError, HandlerEnd
<1>5. \/ tx'[w].status = tx[w].status /\ handler'[w].pc = "done"
      \/ tx'[w].status = tx[w].status /\ handler'[w].pc = "posting" /\ handler[w].pc = "reserved"
      \/ tx'[w].status = "failed" /\ handler'[w].pc = "done" /\ Unsent(w)
  BY <1>0 DEF PayoutStep, HandlerNoToken, HandlerPost, HandlerAccepted, HandlerRefused,
         HandlerQueued, HandlerError, HandlerEnd, Typed, TypeOK, Handler, Row, Unsent
<1>6. NothingBeforeRow'
  <2> SUFFICES ASSUME NEW v \in Withdrawal
               PROVE  /\ handler'[v].pc \in {"idle", "locked", "checked"} => tx'[v].status = "none"
                      /\ tx'[v].status = "none" =>
                           /\ handler'[v].pc \notin {"reserved", "posting"}
                           /\ bank[v] = "unknown"
                           /\ v \notin late
                           /\ \A r \in Run : v \notin run[r].todo /\ run[r].at # v
    BY <1>1 DEF NothingBeforeRow
  <2>1. CASE v = w
    BY <1>4, <1>5, <2>1
  <2>2. CASE v # w
    BY <1>0, <1>3, <2>2 DEF NothingBeforeRow
  <2>. QED  BY <2>1, <2>2
<1>7. HandlerAlone'
  <2> SUFFICES ASSUME NEW v \in Withdrawal, Unsent(v)'
               PROVE  bank[v] = "unknown" /\ v \notin late /\ tx'[v].status = "processing"
    BY <1>1 DEF HandlerAlone
  <2>1. CASE v = w
    <3>1. Unsent(w) /\ tx'[w].status = tx[w].status
      BY <1>5, <2>1 DEF Unsent
    <3>. QED  BY <2>1, <3>1 DEF HandlerAlone
  <2>2. CASE v # w
    BY <1>0, <1>3, <2>2 DEF HandlerAlone, Unsent
  <2>. QED  BY <2>1, <2>2
<1>8. FailedIsOver'
  <2> SUFFICES ASSUME NEW v \in Withdrawal, tx'[v].status = "failed"
               PROVE  Returned(v) \/ (bank[v] = "unknown" /\ Quiet(v)')
    BY <1>1 DEF FailedIsOver, Returned
  <2>1. CASE v # w
    BY <1>0, <1>1, <1>3, <2>1 DEF FailedIsOver, Quiet
  <2>2. CASE v = w /\ tx[w].status = "failed"
    <3>1. handler[w].pc # "done"
      BY DEF PayoutStep, HandlerNoToken, HandlerPost, HandlerAccepted, HandlerRefused,
             HandlerQueued, HandlerError, HandlerEnd
    <3>. QED  BY <2>2, <3>1 DEF FailedIsOver, Quiet
  <2>3. CASE v = w /\ tx[w].status # "failed"
    <3>1. Unsent(w) /\ handler'[w].pc = "done"
      BY <1>5, <2>3
    <3>. QED  BY <1>1, <1>4, <2>3, <3>1 DEF HandlerAlone, Quiet
  <2>. QED  BY <2>1, <2>2, <2>3
<1>. QED  BY <1>2, <1>6, <1>7, <1>8

\* What Nomba, or the network, does to one payout.
LEMMA NombaMove ==
  ASSUME Typed, NombaStep, NEW w \in Withdrawal
  PROVE  /\ bank'[w] # bank[w] \/ w \in late' \ late =>
              w \in late \/ bank[w] # "unknown" \/ \E a \in Posting : w = PayoutOf(a)
         /\ bank'[w] \in {"unknown", "accepted"} => bank[w] \in {"unknown", "accepted"}
         /\ event'[w] # event[w] => bank'[w] \notin {"unknown", "accepted"}
         /\ event'[w] \cap {"payout_failed", "payout_refund"} \subseteq event[w] \/ Returned(w)'
<1> USE DEF Typed, TypeOK, external
<1>0. bank[w] \in BankState
  OBVIOUS
<1>1. ASSUME NEW a \in Withdrawal \cup Run, NombaAccept(a)
      PROVE  /\ a \in Posting /\ UNCHANGED <<event, late>>
             /\ bank[PayoutOf(a)] = "unknown"
             /\ bank' = [bank EXCEPT ![PayoutOf(a)] = "accepted"]
  BY <1>1 DEF NombaAccept
<1>2. ASSUME NEW a \in Withdrawal \cup Run, NombaTurnDown(a)
      PROVE  UNCHANGED <<bank, event, late>>
  BY <1>2 DEF NombaTurnDown
<1>3. ASSUME NEW a \in Withdrawal \cup Run, PostBroken(a)
      PROVE  a \in Posting /\ UNCHANGED <<bank, event>> /\ late' \subseteq late \cup {PayoutOf(a)}
  BY <1>3 DEF PostBroken
<1>4. ASSUME NEW v \in Withdrawal, NombaLate(v)
      PROVE  /\ UNCHANGED event /\ late' \subseteq late
             /\ v \in late
             /\ bank' = bank \/ (bank[v] = "unknown" /\ bank' = [bank EXCEPT ![v] = "accepted"])
  BY <1>4 DEF NombaLate
<1>5. ASSUME NEW v \in Withdrawal, NombaPay(v)
      PROVE  /\ UNCHANGED late /\ bank[v] = "accepted"
             /\ bank' = [bank EXCEPT ![v] = "paid"]
             /\ event' = [event EXCEPT ![v] = @ \cup {"payout_success"}]
  BY <1>5 DEF NombaPay
<1>6. ASSUME NEW v \in Withdrawal, NombaReject(v)
      PROVE  /\ UNCHANGED late /\ bank[v] = "accepted"
             /\ bank' = [bank EXCEPT ![v] = "failed"]
             /\ event' = [event EXCEPT ![v] = @ \cup {"payout_failed"}]
  BY <1>6 DEF NombaReject
<1>7. ASSUME NEW v \in Withdrawal, NombaRefund(v)
      PROVE  /\ UNCHANGED late /\ bank[v] = "paid"
             /\ bank' = [bank EXCEPT ![v] = "refunded"]
             /\ event' = [event EXCEPT ![v] = @ \cup {"payout_refund"}]
  BY <1>7 DEF NombaRefund
<1>8. CASE \E a \in Withdrawal \cup Run : NombaAnswer(a)
  BY <1>1, <1>2, <1>3, <1>8 DEF NombaAnswer
<1>9. CASE \E v \in Withdrawal : NombaLate(v)
  BY <1>4, <1>9
<1>10. CASE \E v \in Withdrawal : NombaPay(v) \/ NombaReject(v) \/ NombaRefund(v)
  BY <1>5, <1>6, <1>7, <1>10 DEF Returned
<1>. QED  BY <1>8, <1>9, <1>10 DEF NombaStep


LEMMA NotPosted ==
  ASSUME Typed, NEW w \in Withdrawal, handler[w].pc # "posting",
         \A r \in Run : run[r].pc = "posting" => run[r].at # w
  PROVE  \A a \in Posting : PayoutOf(a) # w
<1> SUFFICES ASSUME NEW a \in Posting PROVE PayoutOf(a) # w
  OBVIOUS
<1>1. CASE a \in Run
  <2>1. run[a].pc = "posting"
    BY <1>1, ConstantsAssumption DEF Posting
  <2>. QED  BY <1>1, <2>1 DEF PayoutOf
<1>2. CASE a \notin Run
  BY <1>2 DEF PayoutOf, Posting
<1>. QED  BY <1>1, <1>2

\* An answer can only end the state in which the handler has sent nothing.
LEMMA UnsentBefore ==
  ASSUME Typed, NombaStep, NEW w \in Withdrawal, Unsent(w)'
  PROVE  Unsent(w)
<1> USE DEF Typed, TypeOK
<1>0. w \in Request /\ w \notin Run
  BY ConstantsAssumption
<1>1. ASSUME NEW a \in Withdrawal \cup Run, NombaAnswer(a)
      PROVE  handler'[w] = handler[w] \/ Unsent(w)
  <2>1. a \in Posting /\ \E reply \in PostReply : Answer(a, reply)
    BY <1>1 DEF NombaAnswer, NombaAccept, NombaTurnDown, PostBroken, PostReply
  <2>2. CASE a # w
    BY <1>0, <2>1, <2>2 DEF Answer
  <2>3. CASE a = w
    BY <1>0, <2>1, <2>3 DEF Posting, Unsent
  <2>. QED  BY <2>2, <2>3
<1>2. ASSUME NEW v \in Withdrawal, NombaLate(v) \/ NombaPay(v) \/ NombaReject(v) \/ NombaRefund(v)
      PROVE  handler' = handler
  BY <1>2 DEF NombaLate, NombaPay, NombaReject, NombaRefund
<1>. QED  BY <1>1, <1>2 DEF NombaStep, Unsent

\* A handler that is still waiting, or was refused, has sent nothing.
LEMMA NombaUnsent ==
  ASSUME Typed, NombaStep, NEW w \in Withdrawal, Unsent(w)',
         bank[w] = "unknown", w \notin late, \A r \in Run : run[r].at # w
  PROVE  bank'[w] = "unknown" /\ w \notin late'
<1> USE DEF Typed, TypeOK, external
<1>0. w \in Request /\ w \notin Run /\ handler[w] \in Handler
  BY ConstantsAssumption
<1>1. ASSUME NEW a \in Withdrawal \cup Run, NombaAnswer(a), a # w
      PROVE  handler'[w] = handler[w] /\ bank'[w] = bank[w] /\ w \notin late'
  <2>1. a \in Posting /\ \E reply \in PostReply : Answer(a, reply)
    BY <1>1 DEF NombaAnswer, NombaAccept, NombaTurnDown, PostBroken, PostReply
  <2>2. handler'[w] = handler[w]
    BY <1>0, <1>1, <2>1 DEF Answer
  <2>3. PayoutOf(a) # w
    BY <1>1 DEF PayoutOf
  <2>. QED  BY <1>1, <2>2, <2>3 DEF NombaAnswer, NombaAccept, NombaTurnDown, PostBroken
<1>2. CASE NombaAnswer(w)
  <2>1. w \in Posting /\ Unsent(w)
    BY <1>0, <1>2 DEF NombaAnswer, NombaAccept, NombaTurnDown, PostBroken, Posting, Unsent
  <2>2. \A reply \in PostReply : Answer(w, reply) => handler'[w].reply = reply
    BY <1>0 DEF Answer, Handler
  <2>3. CASE NombaAccept(w) \/ PostBroken(w)
    <3>1. \E reply \in {"SUCCESS", "error"} : Answer(w, reply)
      BY <2>3 DEF NombaAccept, PostBroken
    <3>2. handler'[w].reply \in {"SUCCESS", "error"}
      BY <2>2, <3>1 DEF PostReply
    <3>3. handler'[w].pc = "posting"
      BY <1>0, <2>1, ConstantsAssumption, NombaKeepsHandlers DEF Posting
    <3>. QED  BY <3>2, <3>3 DEF Unsent
  <2>4. CASE NombaTurnDown(w)
    BY <2>1, <2>4 DEF NombaTurnDown
  <2>. QED  BY <1>2, <2>3, <2>4 DEF NombaAnswer
<1>3. ASSUME NEW v \in Withdrawal, NombaLate(v) \/ NombaPay(v) \/ NombaReject(v) \/ NombaRefund(v)
      PROVE  handler' = handler /\ bank'[w] = bank[w] /\ w \notin late'
  BY <1>3 DEF NombaLate, NombaPay, NombaReject, NombaRefund
<1>. QED  BY <1>1, <1>2, <1>3 DEF NombaStep, Unsent

LEMMA NombaDebit ==
  ASSUME DebitInv, ClaimInv', NombaStep
  PROVE  DebitInv'
<1> USE DEF DebitInv, ClaimInv
<1>1. UNCHANGED <<tx, hook>> /\ \A w \in Withdrawal : handler'[w].pc = handler[w].pc
  BY OthersFrame, NombaKeepsHandlers
<1>2. \A r \in Run : /\ run'[r].pc = run[r].pc
                     /\ run'[r].at = run[r].at
                     /\ run'[r].todo = run[r].todo
                     /\ run[r].pc # "posting" => run'[r] = run[r]
  BY NombaKeepsRuns
<1>3. \A w \in Withdrawal : Returned(w) => bank'[w] \in {"failed", "refunded"}
  BY BankFinal DEF Next, Returned
<1>4. FailuresTrue'
  <2>1. \A w \in Withdrawal : event'[w] \cap {"payout_failed", "payout_refund"} # {}
                             => bank'[w] \in {"failed", "refunded"}
    BY <1>3, NombaMove DEF FailuresTrue, Returned
  <2>2. ASSUME NEW r \in Run, run'[r].pc = "verified", run'[r].reply \in {"PAYMENT_FAILED", "denied"}
        PROVE  bank'[run'[r].at] \in {"failed", "refunded"}
    BY <1>2, <1>3, <2>2 DEF FailuresTrue, Typed, Working
  <2>3. ASSUME NEW h \in Hook, hook[h].pc = "read", hook[h].event \in {"payout_failed", "payout_refund"}
        PROVE  bank'[hook[h].at] \in {"failed", "refunded"}
    BY <1>3, <2>3 DEF FailuresTrue, Typed, HookWorking
  <2>. QED  BY <1>1, <2>1, <2>2, <2>3 DEF FailuresTrue, Returned
<1>5. EventsFollowBank'
  BY <1>1, NombaMove DEF EventsFollowBank
<1>6. NothingBeforeRow'
  <2> SUFFICES ASSUME NEW w \in Withdrawal, tx[w].status = "none"
               PROVE  bank'[w] = "unknown" /\ w \notin late'
    BY <1>1, <1>2 DEF NothingBeforeRow
  <2>1. /\ handler[w].pc # "posting" /\ bank[w] = "unknown" /\ w \notin late
        /\ \A r \in Run : run[r].at # w
    BY DEF NothingBeforeRow
  <2>. QED  BY <2>1, NotPosted, NombaMove
<1>7. HandlerAlone'
  <2> SUFFICES ASSUME NEW w \in Withdrawal, Unsent(w)'
               PROVE  bank'[w] = "unknown" /\ w \notin late' /\ tx[w].status = "processing"
    BY <1>1 DEF HandlerAlone
  <2>1. Unsent(w)
    BY UnsentBefore
  <2>2. \A r \in Run : run[r].at # w
    BY <2>1 DEF Unsent, HandlerOwns
  <2>3. bank[w] = "unknown" /\ w \notin late /\ tx[w].status = "processing"
    BY <2>1 DEF HandlerAlone
  <2>. QED  BY <2>2, <2>3, NombaUnsent
<1>8. FailedIsOver'
  <2> SUFFICES ASSUME NEW w \in Withdrawal, tx[w].status = "failed", bank[w] = "unknown", Quiet(w)
               PROVE  bank'[w] = "unknown" /\ Quiet(w)'
    BY <1>1, <1>3 DEF FailedIsOver, Returned
  <2>1. bank'[w] = "unknown" /\ w \notin late'
    BY NotPosted, NombaMove DEF Quiet
  <2>. QED  BY <1>1, <1>2, <2>1 DEF Quiet
<1>. QED  BY <1>4, <1>5, <1>6, <1>7, <1>8

LEMMA CrashDebit ==
  ASSUME DebitInv, ClaimInv', Crash
  PROVE  DebitInv'
<1> USE DEF DebitInv, ClaimInv
<1>1. /\ UNCHANGED <<tx, bank, event>>
      /\ \A r \in Run : run'[r].pc = "idle" /\ run'[r].at = NoOne /\ run'[r].todo = {}
      /\ \A h \in Hook : hook'[h].pc = "idle"
      /\ late' \subseteq late \cup {PayoutOf(a) : a \in Posting}
      /\ handler' = [q \in Request |-> IF handler[q].pc = "idle" THEN handler[q]
                                       ELSE [pc |-> "done", reply |-> "none"]]
  BY DEF Crash, IdleRun, IdleHook
<1>2. /\ NoOne \notin Withdrawal
      /\ \A w \in Withdrawal : w \in Request
  BY ConstantsAssumption
<1>3. ASSUME NEW w \in Withdrawal
      PROVE  \/ handler[w].pc = "idle" /\ handler'[w] = handler[w]
             \/ handler[w].pc # "idle" /\ handler'[w].pc = "done"
  <2>1. CASE handler[w].pc = "idle"
    BY <1>1, <1>2, <2>1
  <2>2. CASE handler[w].pc # "idle"
    <3>1. handler'[w] = [pc |-> "done", reply |-> "none"]
      BY <1>1, <1>2, <2>2
    <3>. QED  BY <2>2, <3>1
  <2>. QED  BY <2>1, <2>2
<1>4. FailuresTrue' /\ EventsFollowBank' /\ HandlerAlone'
  BY <1>1, <1>3 DEF FailuresTrue, EventsFollowBank, HandlerAlone, Unsent, Returned
<1>5. \A w \in Withdrawal :
        (\A a \in Posting : PayoutOf(a) # w) /\ w \notin late => w \notin late'
  BY <1>1
<1>6. NothingBeforeRow'
  <2> SUFFICES ASSUME NEW w \in Withdrawal
               PROVE  /\ handler'[w].pc \in {"idle", "locked", "checked"} => tx[w].status = "none"
                      /\ tx[w].status = "none" =>
                           /\ handler'[w].pc \notin {"reserved", "posting"}
                           /\ bank[w] = "unknown"
                           /\ w \notin late'
    BY <1>1, <1>2 DEF NothingBeforeRow
  <2>1. handler'[w].pc \in {"idle", "locked", "checked"} => tx[w].status = "none"
    BY <1>3 DEF NothingBeforeRow
  <2>2. ASSUME tx[w].status = "none"
        PROVE  handler'[w].pc \notin {"reserved", "posting"} /\ bank[w] = "unknown" /\ w \notin late'
    BY <1>3, <1>5, <2>2, NotPosted DEF NothingBeforeRow
  <2>. QED  BY <2>1, <2>2
<1>7. FailedIsOver'
  <2> SUFFICES ASSUME NEW w \in Withdrawal, bank[w] = "unknown", Quiet(w)
               PROVE  Quiet(w)'
    BY <1>1 DEF FailedIsOver, Returned
  <2>1. w \notin late'
    BY <1>5, NotPosted DEF Quiet
  <2>. QED  BY <1>1, <1>3, <2>1 DEF Quiet
<1>. QED  BY <1>4, <1>6, <1>7

LEMMA DebitStep == Prompt /\ Definite /\ DebitInv /\ [Next]_vars => DebitInv'
<1> SUFFICES ASSUME Prompt, Definite, DebitInv, [Next]_vars PROVE DebitInv'
  OBVIOUS
<1>1. ClaimInv'
  BY ClaimStep DEF DebitInv
<1>2. CASE OthersSpend \/ UNCHANGED vars
  BY <1>1, <1>2, OthersLeave DEF vars, DebitInv, FailuresTrue, EventsFollowBank, NothingBeforeRow,
                    HandlerAlone, Unsent, FailedIsOver, Quiet, Returned
<1>. QED
  BY <1>1, <1>2, HandlerDebit, PayoutDebit, RunDebit, HookDebit, NombaDebit, CrashDebit DEF Next

\* A payout Nomba has accepted or paid keeps its debit, for any number of
\* requests, overlapping runs and redelivered webhooks, with restarts, late
\* requests and refunds, as long as a run never loads a row whose first POST is
\* unanswered and Nomba answers 400 and 401 for no payout it has accepted.
THEOREM DebitIsKept == Prompt /\ Definite => (Spec => []PaidStaysDebited)
<1>1. DebitInv => PaidStaysDebited
  <2> SUFFICES ASSUME DebitInv, NEW w \in Withdrawal, bank[w] \in {"accepted", "paid"}
               PROVE  tx[w].status \in {"processing", "success"}
    BY DEF PaidStaysDebited
  <2>1. tx[w].status \in Status
    BY DEF DebitInv, ClaimInv, Typed, TypeOK, Row
  <2>2. tx[w].status # "none" /\ tx[w].status # "failed"
    BY DEF DebitInv, NothingBeforeRow, FailedIsOver, Returned
  <2>. QED  BY <2>1, <2>2 DEF Status
<1>2. ASSUME Prompt, Definite PROVE Spec => []PaidStaysDebited
  <2>1. DebitInv /\ [Next]_vars => DebitInv'
    BY <1>2, DebitStep
  <2>. QED  BY <1>1, <2>1, DebitInit, PTL DEF Spec
<1>. QED  BY <1>2

-----------------------------------------------------------------------------
(* Finality, from the two invariants above and the absence of refunds.     *)

NoRefund == "refund" \notin Env

NeverRefunded == \A w \in Withdrawal : bank[w] # "refunded"

LEMMA RefundStep == NoRefund /\ Typed /\ NeverRefunded /\ [Next]_vars => NeverRefunded'
<1> SUFFICES ASSUME NoRefund, Typed, NeverRefunded, [Next]_vars PROVE NeverRefunded'
  OBVIOUS
<1> USE DEF NeverRefunded
<1>1. CASE NombaStep
  <2> USE DEF Typed, TypeOK, external
  <2>1. CASE \E a \in Withdrawal \cup Run : NombaAnswer(a)
    BY <2>1 DEF NombaAnswer, NombaAccept, NombaTurnDown, PostBroken
  <2>2. CASE \E v \in Withdrawal : NombaLate(v) \/ NombaPay(v) \/ NombaReject(v) \/ NombaRefund(v)
    BY <2>2 DEF NombaLate, NombaPay, NombaReject, NombaRefund, NoRefund
  <2>. QED  BY <1>1, <2>1, <2>2 DEF NombaStep
<1>2. CASE ~NombaStep
  BY <1>2, OthersFrame, OthersLeave, RunFrame DEF Next, Crash, vars
<1>. QED  BY <1>1, <1>2

Settlement == DebitInv /\ SuccessInv /\ NeverRefunded

LEMMA FinalStep ==
  Settlement /\ [Next]_vars =>
    \A w \in Withdrawal :
      tx[w].status \in {"success", "failed"} => tx'[w].status = tx[w].status
<1> SUFFICES ASSUME Settlement, [Next]_vars, NEW w \in Withdrawal, tx[w].status \in {"success", "failed"}
             PROVE  tx'[w].status = tx[w].status
  OBVIOUS
<1> USE DEF Settlement, DebitInv, ClaimInv, SuccessInv
<1>0. w \in Request /\ w \notin Transfer /\ tx[w] \in Row /\ bank[w] # "refunded"
  BY ConstantsAssumption DEF Typed, TypeOK, NeverRefunded
<1>1. tx[w].status = "success" => ~Returned(w)
  BY <1>0 DEF SuccessOnlyIfPaid, Returned
<1>2. tx[w].status = "failed" => ~Settled(w)
  BY <1>0 DEF FailedIsOver, Returned, Settled
<1>3. ASSUME NEW q \in Request, HandlerStep(q)
      PROVE  tx'[w].status = tx[w].status
  <2>1. q = w => tx[w].status = "none"
    BY <1>3 DEF NothingBeforeRow, HandlerStep, HandlerLock, HandlerCheck, HandlerReserve
  <2>. QED  BY <1>0, <1>3, <2>1 DEF HandlerStep, HandlerLock, HandlerCheck, HandlerReserve, Typed, TypeOK
<1>4. ASSUME NEW v \in Withdrawal, PayoutStep(v)
      PROVE  tx'[w].status = tx[w].status
  <2>1. CASE HandlerRefused(v)
    <3>1. v = w => tx[w].status = "processing"
      BY <2>1 DEF HandlerRefused, HandlerEnd, HandlerAlone, Unsent
    <3>. QED  BY <1>0, <2>1, <3>1 DEF HandlerRefused, Typed, TypeOK
  <2>2. CASE HandlerAccepted(v)
    BY <1>0, <2>2 DEF HandlerAccepted, Typed, TypeOK, Row
  <2>3. CASE HandlerQueued(v)
    BY <1>0, <2>3 DEF HandlerQueued, Typed, TypeOK, Row
  <2>4. CASE HandlerNoToken(v) \/ HandlerPost(v) \/ HandlerError(v)
    BY <2>4 DEF HandlerNoToken, HandlerPost, HandlerError
  <2>. QED  BY <1>4, <2>1, <2>2, <2>3, <2>4 DEF PayoutStep
<1>5. ASSUME NEW r \in Run, RunStep(r)
      PROVE  tx'[w].status = tx[w].status
  <2>1. RunSettle(r) => Settled(run[r].at)
    BY DEF RunSettle, ReportsTrue
  <2>2. RunFail(r) => Returned(run[r].at)
    BY DEF RunFail, FailuresTrue
  <2>. QED  BY <1>1, <1>2, <1>5, <2>1, <2>2, RunWrites
<1>6. ASSUME NEW h \in Hook, HookStep(h)
      PROVE  tx'[w].status = tx[w].status
  <2>1. HookSuccess(h) => Settled(hook[h].at)
    BY DEF HookSuccess, ReportsTrue
  <2>2. HookFail(h) => Returned(hook[h].at)
    BY DEF HookFail, FailuresTrue
  <2>. QED  BY <1>1, <1>2, <1>6, <2>1, <2>2, HookWrites
<1>7. CASE NombaStep \/ OthersSpend \/ Crash \/ UNCHANGED vars
  BY <1>7, OthersFrame, OthersLeave DEF Crash, vars
<1>. QED  BY <1>3, <1>4, <1>5, <1>6, <1>7 DEF Next

\* A final status is final.
SettledIsFinal ==
  [][\A w \in Withdrawal :
       tx[w].status \in {"success", "failed"} => tx'[w].status = tx[w].status]_vars

\* A withdrawal that is success or failed stays so, whatever stale copies runs
\* and webhook executions hold, when in addition Nomba returns no paid transfer.
THEOREM FinalStatus == Prompt /\ Definite /\ NoRefund => (Spec => SettledIsFinal)
<1>1. ASSUME Prompt, Definite, NoRefund PROVE Spec => SettledIsFinal
  <2>1. Init => Settlement
    BY DebitInit, SuccessInit DEF Settlement, NeverRefunded, Init
  <2>2. Settlement /\ [Next]_vars => Settlement'
    BY <1>1, DebitStep, SuccessStep, RefundStep DEF Settlement, SuccessInv
  <2>. QED  BY <2>1, <2>2, FinalStep, PTL DEF Spec, SettledIsFinal
<1>. QED  BY <1>1

-----------------------------------------------------------------------------
(* NoOverdraft and WithinDailyCap.  Both are decided under the user row    *)
(* lock and acted on later: what was read stays good enough, because until *)
(* the holder inserts its own row no step adds to the committed requests.  *)
(* No lock covers the other features, so they have to leave the funds.     *)

Steady == "spend" \notin Env

\* Sums of committed requests are natural numbers, monotone in the set.
LEMMA CommittedSums ==
  ASSUME NEW S \in SUBSET Request
  PROVE  /\ IsFiniteSet(S)
         /\ Sum(S) \in Nat
         /\ \A T \in SUBSET S : Sum(T) \in Nat /\ Sum(T) <= Sum(S)
         /\ \A q \in Request : q \notin S => Sum(S \cup {q}) = Sum(S) + Amount[q]
<1>1. \A q \in Request : Amount[q] \in Nat
  BY ConstantsAssumption
<1>2. IsFiniteSet(S) /\ \A T \in SUBSET S : IsFiniteSet(T)
  BY ConstantsAssumption, FS_Subset
<1>3. Sum(S) \in Nat
  BY <1>1, <1>2, SumNat DEF Sum
<1>4. ASSUME NEW T \in SUBSET S PROVE Sum(T) \in Nat /\ Sum(T) <= Sum(S)
  BY <1>1, <1>2, SumSubset DEF Sum
<1>5. ASSUME NEW q \in Request, q \notin S PROVE Sum(S \cup {q}) = Sum(S) + Amount[q]
  BY <1>1, <1>2, <1>5, SumAdd DEF Sum
<1>. QED  BY <1>2, <1>3, <1>4, <1>5

\* Before its handler reserves it, a request has no row.
Unreserved == \A q \in Request : handler[q].pc \in {"idle", "locked", "checked"} => tx[q].status = "none"

\* What a handler has checked still holds: the balance covers its request, and
\* the day's withdrawals with its own stay within its ceiling.
CheckHolds ==
  \A q \in Request :
    handler[q].pc = "checked" =>
      /\ Balance({}) >= Amount[q]
      /\ q \in Withdrawal => Amount[q] <= Ceiling[q] - WithdrawnToday

FundsInv == Settlement /\ Unreserved /\ CheckHolds /\ NoOverdraft /\ funds = Funds

LEMMA FundsInit == Init => FundsInv
<1> SUFFICES ASSUME Init PROVE FundsInv
  OBVIOUS
<1>1. Settlement
  BY DebitInit, SuccessInit DEF Settlement, NeverRefunded, Init
<1>2. Unreserved /\ CheckHolds
  BY DEF Init, Unreserved, CheckHolds, NoRow
<1>3. Committed \ {} = {}
  BY DEF Init, Committed, NoRow
<1>4. NoOverdraft
  <2>1. Sum({}) = 0
    BY SumEmpty DEF Sum
  <2>2. funds = Funds /\ Funds \in Nat
    BY ConstantsAssumption DEF Init
  <2>. QED  BY <1>3, <2>1, <2>2 DEF NoOverdraft, Balance
<1>. QED  BY <1>1, <1>2, <1>4 DEF Init, FundsInv

\* A request without a row gets one from its own handler only.
LEMMA NoneStep ==
  ASSUME FundsInv, [Next]_vars, NEW q \in Request, tx[q].status = "none", ~HandlerReserve(q)
  PROVE  tx'[q].status = "none"
<1> USE DEF FundsInv, Settlement, DebitInv, ClaimInv, Typed, TypeOK
<1>0. tx[q] \in Row /\ Withdrawal \cap Transfer = {}
  BY ConstantsAssumption
<1>1. ASSUME NEW p \in Request, HandlerStep(p)
      PROVE  tx'[q] = tx[q]
  <2>1. CASE HandlerReserve(p)
    BY <2>1 DEF HandlerReserve
  <2>2. CASE HandlerLock(p) \/ HandlerCheck(p)
    BY <2>2 DEF HandlerLock, HandlerCheck
  <2>. QED  BY <1>1, <2>1, <2>2 DEF HandlerStep
<1>2. ASSUME NEW v \in Withdrawal, PayoutStep(v)
      PROVE  tx'[q] = tx[q]
  <2>1. q # v
    BY <1>2 DEF PayoutStep, HandlerNoToken, HandlerPost, HandlerAccepted, HandlerRefused,
                HandlerQueued, HandlerError, HandlerEnd, NothingBeforeRow
  <2>. QED
    BY <1>2, <2>1 DEF PayoutStep, HandlerNoToken, HandlerPost, HandlerAccepted, HandlerRefused,
                HandlerQueued, HandlerError, HandlerEnd
<1>3. ASSUME NEW r \in Run, RunStep(r)
      PROVE  tx'[q].status = "none"
  <2>1. CASE q = run[r].at
    <3>1. q \notin Withdrawal
      BY <2>1 DEF NothingBeforeRow
    <3>2. run[r].pc \in {"idle", "next"}
      BY <2>1, <3>1 DEF Working
    <3>. QED  BY <1>3, <3>2 DEF RunStep, RunLoad, RunVerify, RunSettle, RunNotify, RunFail, RunLeave,
                               RunPark, RunLock, RunRecheck, RunClaim, RunReply
  <2>. QED  BY <1>3, <2>1, RunFrame
<1>4. ASSUME NEW h \in Hook, HookStep(h)
      PROVE  tx'[q].status = "none"
  <2>1. hook[h].pc # "idle" => q # hook[h].at
    BY DEF HookWorking, NothingBeforeRow, EventsFollowBank
  <2>. QED  BY <1>4, <2>1 DEF HookStep, HookRead, HookSuccess, HookNotify, HookFail
<1>5. CASE NombaStep \/ OthersSpend \/ Crash \/ UNCHANGED vars
  BY <1>5, OthersFrame, OthersLeave DEF Crash, vars
<1>. QED  BY <1>1, <1>2, <1>3, <1>4, <1>5 DEF Next

\* A transfer's row is written by its own handler only.
LEMMA TransferStep ==
  ASSUME FundsInv, [Next]_vars, NEW q \in Transfer, ~HandlerReserve(q)
  PROVE  tx'[q] = tx[q]
<1> USE DEF FundsInv, Settlement, DebitInv, ClaimInv, Typed, TypeOK
<1>0. q \notin Withdrawal
  BY ConstantsAssumption
<1>1. ASSUME NEW p \in Request, HandlerStep(p)
      PROVE  tx'[q] = tx[q]
  BY <1>1 DEF HandlerStep, HandlerReserve, HandlerLock, HandlerCheck
<1>2. ASSUME NEW v \in Withdrawal, PayoutStep(v)
      PROVE  tx'[q] = tx[q]
  BY <1>0, <1>2 DEF PayoutStep, HandlerNoToken, HandlerPost, HandlerAccepted, HandlerRefused,
              HandlerQueued, HandlerError, HandlerEnd
<1>3. ASSUME NEW r \in Run, RunStep(r)
      PROVE  tx'[q] = tx[q]
  <2>1. run[r].pc \notin {"idle", "next"} => q # run[r].at
    BY <1>0 DEF Working
  <2>2. run[r].pc \in {"idle", "next"} => tx' = tx
    BY <1>3 DEF RunStep, RunLoad, RunVerify, RunSettle, RunNotify, RunFail, RunLeave,
                RunPark, RunLock, RunRecheck, RunClaim, RunReply
  <2>. QED  BY <1>3, <2>1, <2>2, RunFrame
<1>4. ASSUME NEW h \in Hook, HookStep(h)
      PROVE  tx'[q] = tx[q]
  BY <1>0, <1>4 DEF HookWorking, HookStep, HookRead, HookSuccess, HookNotify, HookFail
<1>5. CASE NombaStep \/ OthersSpend \/ Crash \/ UNCHANGED vars
  BY <1>5, OthersFrame, OthersLeave DEF Crash, vars
<1>. QED  BY <1>1, <1>2, <1>3, <1>4, <1>5 DEF Next

\* Only the insertion of a row adds to the committed requests.
LEMMA CommittedStep ==
  ASSUME FundsInv, [Next]_vars
  PROVE  \A q \in Request : q \in Committed' /\ q \notin Committed => HandlerReserve(q)
<1> SUFFICES ASSUME NEW q \in Request, q \in Committed', q \notin Committed, ~HandlerReserve(q)
             PROVE  FALSE
  OBVIOUS
<1> USE DEF FundsInv, Settlement, DebitInv, ClaimInv, Typed, TypeOK
<1>1. tx[q] \in Row /\ tx'[q].status \in {"success", "processing"} /\ tx[q].status \in {"none", "failed"}
  BY DEF Committed, Row, Status
<1>2. CASE tx[q].status = "none"
  BY <1>1, <1>2, NoneStep
<1>3. CASE tx[q].status = "failed" /\ q \in Withdrawal
  BY <1>1, <1>3, FinalStep
<1>4. CASE q \in Transfer
  BY <1>1, <1>4, TransferStep
<1>. QED  BY <1>1, <1>2, <1>3, <1>4

\* A step that inserts no row leaves both aggregates as good as they were.
LEMMA AggregatesStep ==
  ASSUME FundsInv, funds' = Funds, [Next]_vars, \A q \in Request : ~HandlerReserve(q)
  PROVE  Balance({})' >= Balance({}) /\ WithdrawnToday' <= WithdrawnToday
<1>1. Committed' \in SUBSET Committed /\ Committed \in SUBSET Request /\ Funds \in Nat
  BY CommittedStep, ConstantsAssumption DEF Committed
<1>2. Sum(Committed) \in Nat /\ Sum(Committed') \in Nat /\ Sum(Committed') <= Sum(Committed)
  BY <1>1, CommittedSums
<1>3. Sum(Committed' \cap Withdrawal) <= Sum(Committed \cap Withdrawal)
  <2>1. Committed' \cap Withdrawal \in SUBSET (Committed \cap Withdrawal)
    BY <1>1
  <2>2. Committed \cap Withdrawal \in SUBSET Request
    BY <1>1
  <2>. QED  BY <2>1, <2>2, CommittedSums
<1>4. Balance({}) = Funds - Sum(Committed) /\ Balance({})' = Funds - Sum(Committed')
  <2>1. Committed \ {} = Committed /\ Committed' \ {} = Committed'
    OBVIOUS
  <2>. QED  BY <2>1 DEF FundsInv, Balance, Sum
<1>. QED  BY <1>1, <1>2, <1>3, <1>4 DEF WithdrawnToday, Sum

\* The handler that inserts its row found, under the lock, room for it.
LEMMA ReserveStep ==
  ASSUME FundsInv, NEW q \in Request, HandlerReserve(q)
  PROVE  /\ Balance({})' >= 0
         /\ q \in Withdrawal => WithdrawnToday' <= Ceiling[q]
         /\ tx' = [tx EXCEPT ![q].status = IF q \in Transfer THEN "success" ELSE "processing"]
<1> USE DEF FundsInv, Settlement, DebitInv, ClaimInv, Typed, TypeOK
<1>1. tx' = [tx EXCEPT ![q].status = IF q \in Transfer THEN "success" ELSE "processing"]
      /\ handler[q].pc = "checked"
  BY DEF HandlerReserve
<1>2. Committed' = Committed \cup {q} /\ q \notin Committed /\ Committed \in SUBSET Request
  <2>1. tx[q].status = "none"
    BY <1>1 DEF Unreserved
  <2>2. \A p \in Request : p # q => tx'[p] = tx[p]
    BY <1>1
  <2>3. tx'[q].status \in {"success", "processing"}
    BY <1>1 DEF Row
  <2>. QED  BY <2>1, <2>2, <2>3 DEF Committed
<1>3. Amount[q] \in Nat /\ Funds \in Nat
  BY ConstantsAssumption
<1>4. Sum(Committed') = Sum(Committed) + Amount[q] /\ Sum(Committed) \in Nat
  BY <1>2, CommittedSums
<1>5. Balance({}) >= Amount[q] /\ (q \in Withdrawal => Amount[q] <= Ceiling[q] - WithdrawnToday)
  BY <1>1 DEF CheckHolds
<1>6. Balance({})' >= 0
  <2>1. Committed \ {} = Committed /\ Committed' \ {} = Committed'
    OBVIOUS
  <2>2. Balance({}) = Funds - Sum(Committed) /\ Balance({})' = Funds - Sum(Committed')
    BY <2>1 DEF HandlerReserve, external, Balance, Sum
  <2>. QED  BY <1>3, <1>4, <1>5, <2>2
<1>7. ASSUME q \in Withdrawal PROVE WithdrawnToday' <= Ceiling[q]
  <2> DEFINE S == Committed \cap Withdrawal
  <2>1. Committed' \cap Withdrawal = S \cup {q} /\ q \notin S /\ S \in SUBSET Request
    BY <1>2, <1>7
  <2> HIDE DEF S
  <2>2. Sum(S \cup {q}) = Sum(S) + Amount[q] /\ Sum(S) \in Nat
    BY <2>1, CommittedSums
  <2>3. WithdrawnToday' = Sum(S) + Amount[q] /\ WithdrawnToday = Sum(S)
    BY <2>1, <2>2 DEF WithdrawnToday, Sum, S
  <2>4. Ceiling[q] \in Nat
    BY <1>7, ConstantsAssumption
  <2>. QED  BY <1>3, <1>5, <1>7, <2>2, <2>3, <2>4
<1>. QED  BY <1>1, <1>6, <1>7

\* The payout part of a handler ends it or moves it to its POST.
LEMMA PayoutHandler ==
  ASSUME Typed, NEW v \in Withdrawal, PayoutStep(v), NEW q \in Request
  PROVE  handler'[q] = handler[q] \/ handler'[q].pc \in {"posting", "done"}
<1> USE DEF Typed, TypeOK
<1>0. handler[q] \in Handler /\ handler[v] \in Handler
  OBVIOUS
<1>1. CASE HandlerNoToken(v)
  BY <1>0, <1>1 DEF HandlerNoToken, Handler
<1>2. CASE HandlerPost(v)
  BY <1>0, <1>2 DEF HandlerPost, Handler
<1>3. CASE HandlerAccepted(v) \/ HandlerRefused(v) \/ HandlerQueued(v) \/ HandlerError(v)
  <2>1. handler' = [handler EXCEPT ![v] = [pc |-> "done", reply |-> "none"]]
    BY <1>3 DEF HandlerAccepted, HandlerRefused, HandlerQueued, HandlerError, HandlerEnd
  <2>. QED  BY <2>1
<1>. QED  BY <1>1, <1>2, <1>3 DEF PayoutStep

LEMMA UnreservedStep == FundsInv /\ [Next]_vars => Unreserved'
<1> SUFFICES ASSUME FundsInv, [Next]_vars, NEW q \in Request,
                    handler'[q].pc \in {"idle", "locked", "checked"}
             PROVE  tx'[q].status = "none"
  BY DEF Unreserved
<1> USE DEF FundsInv, Settlement, DebitInv, ClaimInv, Typed, TypeOK
<1>0. handler[q] \in Handler
  OBVIOUS
<1>1. ~HandlerReserve(q)
  BY <1>0 DEF HandlerReserve, Handler
<1>2. handler[q].pc \in {"idle", "locked", "checked"}
  <2>1. ASSUME NEW p \in Request, HandlerStep(p)
        PROVE  handler[q].pc \in {"idle", "locked", "checked"}
    BY <1>0, <2>1 DEF HandlerStep, HandlerLock, HandlerCheck, HandlerReserve
  <2>2. ASSUME NEW v \in Withdrawal, PayoutStep(v)
        PROVE  handler[q].pc \in {"idle", "locked", "checked"}
    BY <2>2, PayoutHandler
  <2>3. CASE NombaStep
    BY <2>3, NombaKeepsHandlers
  <2>4. CASE Crash
    BY <2>4 DEF Crash
  <2>. QED  BY <2>1, <2>2, <2>3, <2>4, OthersFrame, OthersLeave, RunFrame DEF Next, vars
<1>3. tx[q].status = "none"
  BY <1>2 DEF Unreserved
<1>. QED  BY <1>1, <1>3, NoneStep

\* A handler is checked only by its own check, under the lock.
LEMMA CheckedBefore ==
  ASSUME FundsInv, [Next]_vars, NEW q \in Request, handler'[q].pc = "checked", ~HandlerCheck(q)
  PROVE  handler[q].pc = "checked" /\ \A p \in Request : ~HandlerReserve(p)
<1> USE DEF FundsInv, Settlement, DebitInv, ClaimInv, Typed, TypeOK
<1>0. handler[q] \in Handler
  OBVIOUS
<1>1. ASSUME NEW p \in Request, HandlerReserve(p)
      PROVE  FALSE
  <2>1. handler[p].pc = "checked" /\ handler'[p].pc # "checked" /\ (p # q => handler'[q] = handler[q])
    BY <1>1 DEF HandlerReserve, Handler
  <2>. QED  BY <2>1 DEF LockHeld
<1>2. handler[q].pc = "checked"
  <2>1. ASSUME NEW p \in Request, HandlerStep(p)
        PROVE  handler[q].pc = "checked"
    BY <1>0, <1>1, <2>1 DEF HandlerStep, HandlerLock, HandlerCheck, Handler
  <2>2. ASSUME NEW v \in Withdrawal, PayoutStep(v)
        PROVE  handler[q].pc = "checked"
    BY <2>2, PayoutHandler
  <2>3. CASE NombaStep
    BY <2>3, NombaKeepsHandlers
  <2>4. CASE Crash
    BY <2>4 DEF Crash
  <2>. QED  BY <2>1, <2>2, <2>3, <2>4, OthersFrame, OthersLeave, RunFrame DEF Next, vars
<1>. QED  BY <1>1, <1>2

LEMMA CheckHoldsStep == FundsInv /\ funds' = Funds /\ [Next]_vars => CheckHolds'
<1> SUFFICES ASSUME FundsInv, funds' = Funds, [Next]_vars, NEW q \in Request, handler'[q].pc = "checked"
             PROVE  /\ Balance({})' >= Amount[q]
                    /\ q \in Withdrawal => Amount[q] <= Ceiling[q] - WithdrawnToday'
  BY DEF CheckHolds
<1>1. CASE HandlerCheck(q)
  <2>1. handler' = [handler EXCEPT ![q].pc =
                      IF /\ Balance({}) >= Amount[q]
                         /\ q \in Withdrawal => Amount[q] <= Ceiling[q] - WithdrawnToday
                      THEN "checked" ELSE "done"]
    BY <1>1 DEF HandlerCheck
  <2>2. /\ Balance({}) >= Amount[q]
        /\ q \in Withdrawal => Amount[q] <= Ceiling[q] - WithdrawnToday
    BY <2>1 DEF FundsInv, Settlement, DebitInv, ClaimInv, Typed, TypeOK, Handler
  <2>3. tx' = tx /\ funds' = funds
    BY <1>1 DEF HandlerCheck, external
  <2>4. Balance({})' = Balance({}) /\ WithdrawnToday' = WithdrawnToday
    BY <2>3 DEF Balance, WithdrawnToday, Committed, Sum
  <2>. QED  BY <2>2, <2>4
<1>2. CASE ~HandlerCheck(q)
  <2>1. handler[q].pc = "checked" /\ \A p \in Request : ~HandlerReserve(p)
    BY <1>2, CheckedBefore
  <2>2. /\ Balance({}) >= Amount[q]
        /\ q \in Withdrawal => Amount[q] <= Ceiling[q] - WithdrawnToday
    BY <2>1 DEF FundsInv, CheckHolds
  <2>3. Balance({})' >= Balance({}) /\ WithdrawnToday' <= WithdrawnToday
    BY <2>1, AggregatesStep
  <2>4. Balance({}) \in Int /\ Balance({})' \in Int /\ WithdrawnToday \in Int /\ WithdrawnToday' \in Int
    <3>1. /\ Committed \ {} \in SUBSET Request /\ Committed' \ {} \in SUBSET Request
          /\ Committed \cap Withdrawal \in SUBSET Request /\ Committed' \cap Withdrawal \in SUBSET Request
      BY DEF Committed
    <3>2. /\ Sum(Committed \ {}) \in Nat /\ Sum(Committed' \ {}) \in Nat
          /\ Sum(Committed \cap Withdrawal) \in Nat /\ Sum(Committed' \cap Withdrawal) \in Nat
      BY <3>1, CommittedSums
    <3>3. funds \in Nat /\ funds' \in Nat
      BY ConstantsAssumption DEF FundsInv
    <3>. QED  BY <3>2, <3>3 DEF Balance, WithdrawnToday, Sum
  <2>5. Amount[q] \in Nat /\ (q \in Withdrawal => Ceiling[q] \in Nat)
    BY ConstantsAssumption
  <2>. QED  BY <2>2, <2>3, <2>4, <2>5
<1>. QED  BY <1>1, <1>2

LEMMA FundsStep == Prompt /\ Definite /\ NoRefund /\ Steady /\ FundsInv /\ [Next]_vars => FundsInv'
<1> SUFFICES ASSUME Prompt, Definite, NoRefund, Steady, FundsInv, [Next]_vars PROVE FundsInv'
  OBVIOUS
<1>0. funds' = Funds
  BY FundsMove DEF FundsInv, Steady, OthersSpend
<1>1. Settlement'
  BY DebitStep, SuccessStep, RefundStep DEF FundsInv, Settlement, SuccessInv
<1>2. NoOverdraft'
  <2>1. CASE \E q \in Request : HandlerReserve(q)
    BY <2>1, ReserveStep DEF NoOverdraft
  <2>2. CASE \A q \in Request : ~HandlerReserve(q)
    <3>1. Balance({})' >= Balance({}) /\ Balance({}) >= 0
      BY <1>0, <2>2, AggregatesStep DEF FundsInv, NoOverdraft
    <3>2. Balance({}) \in Int /\ Balance({})' \in Int
      <4>1. Committed \ {} \in SUBSET Request /\ Committed' \ {} \in SUBSET Request
        BY DEF Committed
      <4>2. Sum(Committed \ {}) \in Nat /\ Sum(Committed' \ {}) \in Nat
        BY <4>1, CommittedSums
      <4>3. funds \in Nat /\ funds' \in Nat
        BY <1>0, ConstantsAssumption DEF FundsInv
      <4>. QED  BY <4>2, <4>3 DEF Balance, Sum
    <3>. QED  BY <3>1, <3>2 DEF NoOverdraft
  <2>. QED  BY <2>1, <2>2
<1>. QED  BY <1>0, <1>1, <1>2, UnreservedStep, CheckHoldsStep DEF FundsInv

LEMMA FundsInvariant == Prompt /\ Definite /\ NoRefund /\ Steady => (Spec => []FundsInv)
<1>1. ASSUME Prompt, Definite, NoRefund, Steady PROVE Spec => []FundsInv
  <2>1. FundsInv /\ [Next]_vars => FundsInv'
    BY <1>1, FundsStep
  <2>. QED  BY <2>1, FundsInit, PTL DEF Spec
<1>. QED  BY <1>1

\* The account is never overdrawn: whatever withdrawals, transfers, retries,
\* settlements and restarts interleave, what withdrawal() and transfer() commit
\* under the user row lock stays covered.  Nomba's statuses have to be reliable
\* for it (no refund of a paid transfer, no 400 or 401 for a payout that exists,
\* the first POST answered before the job looks): otherwise a failed row can
\* become successful after its amount was spent again.  And the account's other
\* transactions have to stand still: a purchase takes its amount without the
\* lock, and a deposit can be put on hold after it was counted.
THEOREM AccountIsCovered == Prompt /\ Definite /\ NoRefund /\ Steady => (Spec => []NoOverdraft)
<1>1. FundsInv => NoOverdraft
  BY DEF FundsInv
<1>. QED  BY <1>1, FundsInvariant, PTL

LEMMA CapStep ==
  FundsInv /\ [Next]_vars =>
    \A w \in Withdrawal :
      tx[w].status = "none" /\ tx'[w].status # "none"
      => Sum({v \in Withdrawal : tx'[v].status \in {"success", "processing"}}) <= Ceiling[w]
<1> SUFFICES ASSUME FundsInv, [Next]_vars, NEW w \in Withdrawal,
                    tx[w].status = "none", tx'[w].status # "none"
             PROVE  Sum({v \in Withdrawal : tx'[v].status \in {"success", "processing"}}) <= Ceiling[w]
  OBVIOUS
<1>1. HandlerReserve(w)
  BY NoneStep
<1>2. WithdrawnToday' <= Ceiling[w]
  BY <1>1, ReserveStep
<1>3. {v \in Withdrawal : tx'[v].status \in {"success", "processing"}} = Committed' \cap Withdrawal
  BY DEF Committed
<1>. QED  BY <1>2, <1>3 DEF WithdrawnToday, Sum

\* The daily cap holds for every withdrawal that is reserved, under the same
\* four conditions: what withdrawal() read before the insert is still true.
THEOREM CapIsKept == Prompt /\ Definite /\ NoRefund /\ Steady => (Spec => WithinDailyCap)
BY FundsInvariant, CapStep, PTL DEF Spec, WithinDailyCap

-----------------------------------------------------------------------------
(* Withdrawals implements PayoutLedger.                                    *)

\* The abstract state: statuses, and the withdrawals Nomba has paid.
StatusOf == [q \in Request |-> tx[q].status]
Paid     == {w \in Withdrawal : bank[w] \in {"paid", "refunded"}}

\* A step that leaves both alone is a stutter of the ledger.
LEMMA LedgerIdle ==
  ASSUME bank' = bank, \A q \in Request : tx'[q].status = tx[q].status
  PROVE  UNCHANGED Ledger!ledger
<1>1. StatusOf' = StatusOf /\ Paid' = Paid
  BY DEF StatusOf, Paid
<1>. QED  BY <1>1 DEF Ledger!ledger, StatusOf, Paid

LEMMA LedgerInit == Init => Ledger!Init
<1> SUFFICES ASSUME Init PROVE Ledger!Init
  OBVIOUS
<1>1. StatusOf = [q \in Withdrawal \cup Transfer |-> "none"]
  BY DEF Init, NoRow, StatusOf
<1>2. Paid = {}
  BY DEF Init, Paid
<1>. QED  BY <1>1, <1>2 DEF Ledger!Init, StatusOf, Paid

\* A withdrawal that leaves processing as Nomba's record says.
LEMMA LedgerSettles ==
  ASSUME Typed, Typed', bank' = bank, NEW w \in Withdrawal, tx[w].status = "processing",
         \A q \in Request \ {w} : tx'[q].status = tx[q].status,
         \/ tx'[w].status = "success" /\ Settled(w)
         \/ tx'[w].status = "failed" /\ ~Settled(w)
  PROVE  Ledger!Next
<1>1. StatusOf[w] = "processing" /\ StatusOf' = [StatusOf EXCEPT ![w] = tx'[w].status]
  BY DEF StatusOf
<1>2. Paid' = Paid /\ (w \in Paid <=> Settled(w))
  BY DEF Paid, Settled
<1>3. Ledger!Succeed(w) \/ Ledger!GiveBack(w)
  BY <1>1, <1>2 DEF Ledger!Succeed, Ledger!GiveBack, StatusOf, Paid
<1>. QED  BY <1>3 DEF Ledger!Next

\* The ledger adds up amounts as the balance query does.
LEMMA LedgerTotal == \A S : Ledger!Total(S) = Sum(S)
BY DEF Sum, Ledger!Total, Ledger!SumFunctionOnSet, SumFunctionOnSet,
       Ledger!FoldFunctionOnSet, FoldFunctionOnSet, Ledger!MapThenFoldSet, MapThenFoldSet

\* The insertion of a row under the lock is a request the ledger covers.
LEMMA LedgerReserve ==
  ASSUME FundsInv, NEW q \in Request, HandlerReserve(q)
  PROVE  Ledger!Next
<1>1. tx' = [tx EXCEPT ![q].status = IF q \in Transfer THEN "success" ELSE "processing"]
      /\ Balance({})' >= 0 /\ (q \in Withdrawal => WithdrawnToday' <= Ceiling[q])
  BY ReserveStep
<1>2. handler[q].pc = "checked" /\ bank' = bank
  BY DEF HandlerReserve, external
<1>3. tx[q].status = "none" /\ tx \in [Request -> Row]
  BY <1>2 DEF FundsInv, Unreserved, Settlement, DebitInv, ClaimInv, Typed, TypeOK
<1>4. tx'[q].status = (IF q \in Transfer THEN "success" ELSE "processing")
      /\ \A p \in Request \ {q} : tx'[p].status = tx[p].status
  BY <1>1, <1>3 DEF Row
<1>5. Committed' = Committed \cup {q} /\ Committed' \in SUBSET Request
  BY <1>4 DEF Committed
<1>6. Sum(Committed') <= Funds
  <2>1. Balance({})' = Funds - Sum(Committed')
    <3>1. Committed' \ {} = Committed'
      OBVIOUS
    <3>2. funds' = Funds
      BY DEF HandlerReserve, external, FundsInv
    <3>. QED  BY <3>1, <3>2 DEF Balance, Sum
  <2>2. Sum(Committed') \in Nat /\ Funds \in Nat
    BY <1>5, CommittedSums, ConstantsAssumption
  <2>. QED  BY <1>1, <2>1, <2>2
<1>7. q \in Withdrawal => Sum(Committed' \cap Withdrawal) <= Ceiling[q]
  BY <1>1 DEF WithdrawnToday, Sum
<1>8. StatusOf[q] = "none" /\ StatusOf' = [StatusOf EXCEPT ![q] = IF q \in Transfer THEN "success" ELSE "processing"]
  BY <1>3, <1>4 DEF StatusOf
<1>9. Paid' = Paid
  BY <1>2 DEF Paid
<1>10. Ledger!Held \cup {q} = Committed'
  <2>1. DOMAIN StatusOf = Request /\ \A p \in Request : StatusOf[p] = tx[p].status
    BY DEF StatusOf
  <2>2. {p \in DOMAIN StatusOf : StatusOf[p] \in {"processing", "success"}} = Committed
    BY <2>1 DEF Committed
  <2>. QED  BY <1>5, <2>2 DEF Ledger!Held, StatusOf
<1>11. Ledger!Fits(q)
  <2>1. Ledger!Total(Ledger!Held \cup {q}) <= Funds
    BY <1>6, <1>10, LedgerTotal
  <2>. QED  BY <1>8, <2>1 DEF Ledger!Fits, StatusOf
<1>12. CASE q \in Transfer
  <2>1. Ledger!Send(q)
    BY <1>8, <1>9, <1>11, <1>12 DEF Ledger!Send, StatusOf, Paid
  <2>. QED  BY <1>12, <2>1 DEF Ledger!Next
<1>13. CASE q \in Withdrawal
  <2>1. q \notin Transfer
    BY <1>13, ConstantsAssumption
  <2>2. Ledger!Total((Ledger!Held \cup {q}) \cap Withdrawal) <= Ceiling[q]
    BY <1>7, <1>10, <1>13, LedgerTotal
  <2>3. Ledger!Withdraw(q)
    BY <1>8, <1>9, <1>11, <2>1, <2>2 DEF Ledger!Withdraw, StatusOf, Paid
  <2>. QED  BY <1>13, <2>3 DEF Ledger!Next
<1>. QED  BY <1>12, <1>13

\* Nomba's decision is the only step by which money leaves.
LEMMA LedgerBank ==
  ASSUME FundsInv, NombaStep
  PROVE  Ledger!Next \/ UNCHANGED Ledger!ledger
<1> USE DEF external
<1>1. tx' = tx /\ Typed
  BY OthersFrame DEF FundsInv, Settlement, SuccessInv
<1>2. StatusOf' = StatusOf
  BY <1>1 DEF StatusOf
<1>3. ASSUME NEW w \in Withdrawal, NombaPay(w)
      PROVE  Ledger!Next
  <2>1. bank[w] = "accepted" /\ bank' = [bank EXCEPT ![w] = "paid"] /\ bank \in [Withdrawal -> BankState]
    BY <1>1, <1>3 DEF NombaPay, Typed, TypeOK
  <2>2. tx[w].status = "processing"
    <3>1. tx[w].status # "success"
      BY <2>1 DEF FundsInv, Settlement, SuccessInv, SuccessOnlyIfPaid
    <3>2. tx[w].status # "none" /\ tx[w].status # "failed"
      BY <2>1 DEF FundsInv, Settlement, DebitInv, NothingBeforeRow, FailedIsOver, Returned
    <3>3. tx[w].status \in Status
      BY <1>1 DEF Typed, TypeOK, Row
    <3>. QED  BY <3>1, <3>2, <3>3 DEF Status
  <2>3. Paid' = Paid \cup {w} /\ w \notin Paid /\ StatusOf[w] = "processing"
    BY <2>1, <2>2 DEF Paid, StatusOf
  <2>4. Ledger!Leave(w)
    BY <1>2, <2>3 DEF Ledger!Leave, StatusOf, Paid
  <2>. QED  BY <2>4 DEF Ledger!Next
<1>4. ASSUME NEW a \in Withdrawal \cup Run, NombaAnswer(a)
      PROVE  Paid' = Paid
  BY <1>1, <1>4 DEF NombaAnswer, NombaAccept, NombaTurnDown, PostBroken, Paid, Typed, TypeOK
<1>5. ASSUME NEW w \in Withdrawal, NombaLate(w) \/ NombaReject(w) \/ NombaRefund(w)
      PROVE  Paid' = Paid
  BY <1>1, <1>5 DEF NombaLate, NombaReject, NombaRefund, Paid, Typed, TypeOK
<1>6. Paid' = Paid => UNCHANGED Ledger!ledger
  BY <1>2 DEF Ledger!ledger, StatusOf, Paid
<1>. QED  BY <1>3, <1>4, <1>5, <1>6 DEF NombaStep

LEMMA LedgerStep ==
  FundsInv /\ FundsInv' /\ [Next]_vars => [Ledger!Next]_(Ledger!ledger)
<1> SUFFICES ASSUME FundsInv, FundsInv', [Next]_vars
             PROVE  Ledger!Next \/ UNCHANGED Ledger!ledger
  OBVIOUS
<1>0. Typed /\ Typed' /\ Withdrawal \cap Transfer = {} /\ tx \in [Request -> Row]
  BY ConstantsAssumption DEF FundsInv, Settlement, SuccessInv, Typed, TypeOK
<1>1. ASSUME NEW q \in Request, HandlerStep(q)
      PROVE  Ledger!Next \/ UNCHANGED Ledger!ledger
  <2>1. CASE HandlerReserve(q)
    BY <2>1, LedgerReserve
  <2>2. CASE HandlerLock(q) \/ HandlerCheck(q)
    <3>1. tx' = tx /\ bank' = bank
      BY <2>2 DEF HandlerLock, HandlerCheck, external
    <3>. QED  BY <3>1, LedgerIdle
  <2>. QED  BY <1>1, <2>1, <2>2 DEF HandlerStep
\* What the payout part of a handler, a run or the webhook does to the statuses.
<1>2. ASSUME bank' = bank, NEW w \in Withdrawal,
             \A q \in Request \ {w} : tx'[q].status = tx[q].status,
             \/ tx'[w].status = tx[w].status
             \/ tx'[w].status = "success" /\ Settled(w)
             \/ tx'[w].status = "failed" /\ ~Settled(w)
      PROVE  Ledger!Next \/ UNCHANGED Ledger!ledger
  <2>1. CASE tx'[w].status = tx[w].status
    <3>1. \A q \in Request : tx'[q].status = tx[q].status
      BY <1>2, <2>1
    <3>. QED  BY <1>2, <3>1, LedgerIdle
  <2>2. CASE tx'[w].status # tx[w].status
    <3>1. ~HandlerReserve(w)
      BY <1>0, <1>2, <2>2, ReserveStep DEF Row
    <3>2. tx[w].status \notin {"success", "failed"}
      BY <2>2, FinalStep DEF FundsInv
    <3>3. tx[w].status # "none"
      BY <2>2, <3>1, NoneStep
    <3>4. tx[w].status = "processing"
      BY <1>0, <3>2, <3>3 DEF Row, Status
    <3>. QED  BY <1>0, <1>2, <2>2, <3>4, LedgerSettles
  <2>. QED  BY <2>1, <2>2
<1>3. ASSUME NEW w \in Withdrawal, PayoutStep(w)
      PROVE  Ledger!Next \/ UNCHANGED Ledger!ledger
  <2>1. bank' = bank
    BY <1>3, OthersFrame, <1>0
  <2>2. \A q \in Request \ {w} : tx'[q].status = tx[q].status
    BY <1>0, <1>3 DEF PayoutStep, HandlerNoToken, HandlerPost, HandlerAccepted, HandlerRefused,
                      HandlerQueued, HandlerError, HandlerEnd
  <2>3. CASE HandlerRefused(w)
    <3>1. tx'[w].status = "failed" /\ handler[w].pc = "posting" /\ handler[w].reply = "other"
      BY <1>0, <2>3 DEF HandlerRefused, HandlerEnd
    <3>2. ~Settled(w)
      BY <3>1 DEF FundsInv, Settlement, DebitInv, HandlerAlone, Unsent, Settled
    <3>. QED  BY <1>2, <2>1, <2>2, <3>1, <3>2
  <2>4. CASE ~HandlerRefused(w)
    <3>1. tx'[w].status = tx[w].status
      BY <1>0, <1>3, <2>4 DEF PayoutStep, HandlerNoToken, HandlerPost, HandlerAccepted,
                              HandlerQueued, HandlerError, HandlerEnd, Row
    <3>. QED  BY <1>2, <2>1, <2>2, <3>1
  <2>. QED  BY <2>3, <2>4
<1>4. ASSUME NEW r \in Run, RunStep(r)
      PROVE  Ledger!Next \/ UNCHANGED Ledger!ledger
  <2>1. bank' = bank /\ \A q \in Request : q # run[r].at => tx'[q] = tx[q]
    BY <1>0, <1>4, RunFrame
  <2>2. CASE run[r].at \in Withdrawal
    <3>1. RunSettle(r) => Settled(run[r].at)
      BY DEF RunSettle, FundsInv, Settlement, SuccessInv, ReportsTrue
    <3>2. RunFail(r) => ~Settled(run[r].at)
      BY <2>2 DEF RunFail, FundsInv, Settlement, DebitInv, FailuresTrue, NeverRefunded, Returned, Settled
    <3>3. \/ tx'[run[r].at].status = tx[run[r].at].status
          \/ tx'[run[r].at].status = "success" /\ Settled(run[r].at)
          \/ tx'[run[r].at].status = "failed" /\ ~Settled(run[r].at)
      BY <1>0, <1>4, <2>2, <3>1, <3>2, RunWrites
    <3>. QED  BY <1>2, <2>1, <2>2, <3>3
  <2>3. CASE run[r].at \notin Withdrawal
    <3>1. \A q \in Withdrawal : tx'[q].status = tx[q].status
      BY <2>1, <2>3
    <3>2. \A q \in Transfer : ~HandlerReserve(q)
      BY <1>4, <1>0, RunFrame, <2>1 DEF HandlerReserve, FundsInv, Settlement, DebitInv, ClaimInv, TypeOK, Typed, Handler
    <3>3. \A q \in Transfer : tx'[q] = tx[q]
      BY <3>2, TransferStep
    <3>4. \A q \in Request : tx'[q].status = tx[q].status
      BY <3>1, <3>3
    <3>. QED  BY <2>1, <3>4, LedgerIdle
  <2>. QED  BY <2>2, <2>3
<1>5. ASSUME NEW h \in Hook, HookStep(h)
      PROVE  Ledger!Next \/ UNCHANGED Ledger!ledger
  <2>1. bank' = bank
    BY <1>0, <1>5, OthersFrame
  <2>2. CASE tx' = tx
    BY <2>1, <2>2, LedgerIdle
  <2>3. CASE HookSuccess(h) \/ HookFail(h)
    <3>1. hook[h].at \in Withdrawal
      BY <1>0, <2>3 DEF HookSuccess, HookFail, Typed, HookWorking
    <3>2. \A q \in Request \ {hook[h].at} : tx'[q].status = tx[q].status
      BY <1>0, <2>3 DEF HookSuccess, HookFail
    <3>3. HookSuccess(h) => Settled(hook[h].at)
      BY DEF HookSuccess, FundsInv, Settlement, SuccessInv, ReportsTrue
    <3>4. HookFail(h) => ~Settled(hook[h].at)
      BY <3>1 DEF HookFail, FundsInv, Settlement, DebitInv, FailuresTrue, NeverRefunded, Returned, Settled
    <3>5. \/ tx'[hook[h].at].status = tx[hook[h].at].status
          \/ tx'[hook[h].at].status = "success" /\ Settled(hook[h].at)
          \/ tx'[hook[h].at].status = "failed" /\ ~Settled(hook[h].at)
      BY <1>0, <1>5, <3>1, <3>3, <3>4, HookWrites
    <3>. QED  BY <1>2, <2>1, <3>1, <3>2, <3>5
  <2>. QED  BY <1>5, <2>2, <2>3 DEF HookStep, HookRead, HookNotify
<1>6. CASE NombaStep
  BY <1>6, LedgerBank
<1>7. CASE OthersSpend \/ Crash \/ UNCHANGED vars
  <2>1. tx' = tx /\ bank' = bank
    BY <1>7, OthersLeave DEF Crash, vars
  <2>. QED  BY <2>1, LedgerIdle
<1>. QED  BY <1>1, <1>3, <1>4, <1>5, <1>6, <1>7 DEF Next

\* Withdrawals implements PayoutLedger: what withdrawal(), transfer(), the job and
\* the webhook do between them, through retries and restarts, is that a request is
\* covered when it is accepted, money leaves once and only against a held
\* withdrawal, and a withdrawal ends as Nomba's record says, for good.  Without
\* Prompt, Definite or NoRefund a failed row can become successful, and without
\* Steady the account may be short of what it has committed: the ledger rules out
\* both.
THEOREM PayoutsImplement == Prompt /\ Definite /\ NoRefund /\ Steady => (Spec => ImplementsPayoutLedger)
<1>1. ASSUME Prompt, Definite, NoRefund, Steady PROVE Spec => ImplementsPayoutLedger
  <2>1. Spec => []FundsInv
    BY <1>1, FundsInvariant
  <2>2. Spec => Ledger!Spec
    BY <2>1, LedgerInit, LedgerStep, PTL DEF Spec, Ledger!Spec
  <2>. QED  BY <2>2 DEF ImplementsPayoutLedger
<1>. QED  BY <1>1
=============================================================================
