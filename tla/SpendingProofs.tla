--------------------------- MODULE SpendingProofs ---------------------------
(***************************************************************************)
(* Proofs about Spending and its three parts: Purchases, Treasury and      *)
(* UtxoWallets.  For any purchases, prices, funds and numbers of retries   *)
(* and restarts, any chains, balances, outputs, fees, reserves and         *)
(* buffers, and for any number of runs and requests that overlap unless    *)
(* said otherwise.                                                         *)
(***************************************************************************)
EXTENDS Spending, Sums

-----------------------------------------------------------------------------
(* Bills (Purchases).                                                      *)

Busy   == {"requery", "paying", "mark", "debit", "insert"}
RunPC  == {"idle", "next"} \cup Busy
Reply  == PayReply \cup {"none"}

\* What the point a run stands at implies of its record.
Sound(rec) ==
  /\ rec.pc \in Busy => rec.at \in rec.todo
  /\ rec.pc = "paying" => rec.copy[rec.at].retries < MaxRetries
  /\ rec.reply # "none" => rec.pc = "paying"

\* A run is told of deliveries that happened.
Told(rec) ==
  rec.pc \in {"mark", "debit", "insert"} \/ rec.reply = "delivered" => vt[rec.at] = "delivered"

RunInv == \A r \in Run : Sound(run[r]) /\ Told(run[r])

VtInv ==
  \A p \in Purchase : debit[p] > 0 \/ create[p].reply = "delivered" => vt[p] = "delivered"

Inv == TypeOK /\ RunInv /\ VtInv

-----------------------------------------------------------------------------
(* What the small operators do.                                            *)

LEMMA Rows == NoRow \in Row /\ IdleRun \in RunState
<1>1. NoRow \in Row
  BY ConstantsAssumption DEF NoRow, Row, Status
<1>2. [p \in Purchase |-> NoRow] \in [Purchase -> Row]
  BY <1>1
<1>. QED  BY <1>1, <1>2 DEF IdleRun, RunState

LEMMA IdleFacts ==
  /\ IdleRun.pc = "idle" /\ IdleRun.todo = {} /\ IdleRun.reply = "none"
  /\ Sound(IdleRun) /\ Told(IdleRun)
BY DEF IdleRun, Sound, Told, Busy

LEMMA RunFacts ==
  ASSUME TypeOK, NEW r \in Run
  PROVE  /\ run[r] \in RunState /\ run[r].pc \in RunPC /\ run[r].todo \in SUBSET Purchase
         /\ run[r].copy \in [Purchase -> Row] /\ run[r].at \in Purchase \cup {NoPurchase}
         /\ run[r].reply \in Reply
BY DEF TypeOK, RunState, RunPC, Busy, Reply

LEMMA BusyFacts ==
  ASSUME Inv, NEW r \in Run, run[r].pc \in Busy
  PROVE  /\ run[r].at \in Purchase /\ run[r].at \in run[r].todo
         /\ Copy(r) \in Row /\ Copy(r).retries \in 0 .. MaxRetries /\ Copy(r).parked \in BOOLEAN
         /\ Copy(r).status \in Status
<1>1. run[r].at \in run[r].todo
  BY DEF Inv, RunInv, Sound
<1>2. run[r].todo \in SUBSET Purchase /\ run[r].copy \in [Purchase -> Row]
  BY RunFacts DEF Inv
<1>3. Copy(r) \in Row
  BY <1>1, <1>2 DEF Copy
<1>. QED  BY <1>1, <1>2, <1>3 DEF Row

LEMMA ProceedFacts ==
  ASSUME NEW rec \in RunState, NEW p \in Purchase
  PROVE  /\ Proceed(rec, p) \in RunState /\ Proceed(rec, p).pc \in {"idle", "next"}
         /\ Proceed(rec, p).reply = "none" /\ Proceed(rec, p).todo \subseteq rec.todo \ {p}
         /\ Sound(Proceed(rec, p)) /\ Told(Proceed(rec, p))
<1>1. CASE rec.todo = {p}
  <2>1. Proceed(rec, p) = IdleRun
    BY <1>1 DEF Proceed
  <2>. QED  BY <2>1, Rows, IdleFacts
<1>2. CASE rec.todo # {p}
  <2> DEFINE rest == rec.todo \ {p}
             cp   == [rec.copy EXCEPT ![p] = NoRow]
             new  == [rec EXCEPT !.pc = "next", !.todo = rest, !.copy = cp,
                                 !.at = NoPurchase, !.reply = "none"]
  <2>1. rec.copy \in [Purchase -> Row] /\ rec.todo \in SUBSET Purchase
    BY DEF RunState
  <2>2. cp \in [Purchase -> Row] /\ rest \in SUBSET Purchase
    BY <2>1, Rows
  <2>3. Proceed(rec, p) = new
    BY <1>2 DEF Proceed
  <2> HIDE DEF cp, rest
  <2>4. /\ new \in RunState /\ new.pc = "next" /\ new.reply = "none" /\ new.todo = rest
    BY <2>2 DEF RunState
  <2> HIDE DEF new
  <2>5. Sound(new) /\ Told(new)
    BY <2>4 DEF Sound, Told, Busy
  <2>. QED  BY <2>3, <2>4, <2>5 DEF rest
<1>. QED  BY <1>1, <1>2

LEMMA MoreFacts ==
  ASSUME NEW max \in Nat, NEW n \in 0 .. max
  PROVE  More(n, max) \in 0 .. max
BY DEF More

LEMMA Bounds == MaxDebits \in Nat /\ MaxPosts \in Nat
BY ConstantsAssumption DEF MaxDebits, MaxPosts

LEMMA InitInv == Init => Inv
<1> SUFFICES ASSUME Init PROVE Inv
  OBVIOUS
<1>1. TypeOK
  <2>1. run \in [Run -> RunState] /\ row \in [Purchase -> Row]
    BY Rows DEF Init
  <2>2. crashes \in 0 .. MaxCrashes /\ posts \in [Purchase -> 0 .. MaxPosts]
    BY ConstantsAssumption DEF Init, MaxPosts
  <2>3. create \in [Purchase -> Handler] /\ vt \in [Purchase -> VtState] /\ gone \in BOOLEAN
    BY DEF Init, Handler, VtState
  <2>4. debit \in [Purchase -> 0 .. MaxDebits]
    <3>1. 0 \in 0 .. MaxDebits
      BY Bounds
    <3>. QED  BY <3>1 DEF Init
  <2>. QED  BY <2>1, <2>2, <2>3, <2>4 DEF TypeOK
<1>2. RunInv
  BY IdleFacts DEF Init, RunInv
<1>3. VtInv
  BY DEF Init, VtInv
<1>. QED  BY <1>1, <1>2, <1>3 DEF Inv

\* A run goes on: its record, the rows and the debits may change.
LEMMA RunGoesOn ==
  ASSUME Inv, NEW r \in Run, NEW rec \in RunState, Sound(rec), Told(rec),
         run' = [run EXCEPT ![r] = rec], UNCHANGED <<create, vt, posts, crashes, gone>>,
         row' \in [Purchase -> Row], debit' \in [Purchase -> 0 .. MaxDebits],
         \A p \in Purchase : debit'[p] > 0 => debit[p] > 0 \/ vt[p] = "delivered"
  PROVE  Inv'
<1>1. TypeOK'
  BY DEF Inv, TypeOK
<1>2. \A q \in Run : run'[q] = IF q = r THEN rec ELSE run[q]
  BY DEF Inv, TypeOK
<1>3. RunInv'
  BY <1>2 DEF Inv, RunInv, Sound, Told
<1>4. VtInv'
  BY DEF Inv, VtInv
<1>. QED  BY <1>1, <1>3, <1>4 DEF Inv

-----------------------------------------------------------------------------
(* The verification job.                                                   *)

\* A run that leaves rows and debits alone.
LEMMA RunMoves ==
  ASSUME Inv, NEW r \in Run, NEW rec \in RunState, Sound(rec), Told(rec),
         run' = [run EXCEPT ![r] = rec], UNCHANGED <<row, debit, create, vt, posts, crashes, gone>>
  PROVE  Inv'
BY RunGoesOn DEF Inv, TypeOK

\* A run that is done with the purchase p and has written at most its row.
LEMMA RunProceeds ==
  ASSUME Inv, NEW r \in Run, NEW p \in Purchase, run' = [run EXCEPT ![r] = Proceed(@, p)],
         UNCHANGED <<debit, create, vt, posts, crashes, gone>>, row' \in [Purchase -> Row]
  PROVE  Inv'
<1> DEFINE rec == Proceed(run[r], p)
<1>1. rec \in RunState /\ Sound(rec) /\ Told(rec)
  BY ProceedFacts, RunFacts DEF Inv
<1>2. run' = [run EXCEPT ![r] = rec]
  OBVIOUS
<1> HIDE DEF rec
<1>. QED  BY <1>1, <1>2, RunGoesOn DEF Inv, TypeOK

LEMMA RunLoadInv == ASSUME Inv, NEW r \in Run, RunLoad(r) PROVE Inv'
<1> DEFINE due == {p \in Purchase : row[p].status = "processing"}
           cp   == [p \in Purchase |-> IF p \in due THEN row[p] ELSE NoRow]
           rec  == [IdleRun EXCEPT !.pc = "next", !.todo = due, !.copy = cp]
<1>1. run' = [run EXCEPT ![r] = rec] /\ UNCHANGED <<row, debit, create, vt, posts, crashes, gone>>
  BY DEF RunLoad
<1>2. due \in SUBSET Purchase /\ cp \in [Purchase -> Row]
  BY Rows DEF Inv, TypeOK
<1> HIDE DEF due, cp
<1>3. rec \in RunState /\ rec.pc = "next" /\ rec.reply = "none"
  BY <1>2, Rows, IdleFacts DEF RunState
<1> HIDE DEF rec
<1>4. Sound(rec) /\ Told(rec)
  BY <1>3 DEF Sound, Told, Busy
<1>. QED  BY <1>1, <1>3, <1>4, RunMoves

LEMMA RunTakeInv == ASSUME Inv, NEW r \in Run, NEW p \in Purchase, RunTake(r, p) PROVE Inv'
<1> DEFINE rec == [run[r] EXCEPT !.pc = "requery", !.at = p]
<1>1. /\ run[r] \in RunState /\ run[r].pc = "next" /\ p \in run[r].todo
      /\ run' = [run EXCEPT ![r] = rec] /\ UNCHANGED <<row, debit, create, vt, posts, crashes, gone>>
  BY RunFacts DEF RunTake, Inv
<1>2. run[r].reply = "none"
  BY <1>1 DEF Inv, RunInv, Sound
<1>3. /\ rec \in RunState /\ rec.pc = "requery" /\ rec.at = p /\ rec.todo = run[r].todo
      /\ rec.reply = run[r].reply
  BY <1>1 DEF RunState
<1> HIDE DEF rec
<1>4. Sound(rec) /\ Told(rec)
  BY <1>1, <1>2, <1>3 DEF Sound, Told
<1>. QED  BY <1>1, <1>3, <1>4, RunMoves

LEMMA RunPayInv == ASSUME Inv, NEW r \in Run, NEW p \in Purchase, RunPay(r, p) PROVE Inv'
<1> DEFINE rec == [run[r] EXCEPT !.pc = "paying", !.at = p]
<1>1. /\ run[r] \in RunState /\ run[r].pc = "next" /\ p \in run[r].todo
      /\ run[r].copy[p].retries < MaxRetries
      /\ run' = [run EXCEPT ![r] = rec] /\ UNCHANGED <<row, debit, create, vt, posts, crashes, gone>>
  BY RunFacts DEF RunPay, Inv
<1>2. run[r].reply = "none"
  BY <1>1 DEF Inv, RunInv, Sound
<1>3. /\ rec \in RunState /\ rec.pc = "paying" /\ rec.at = p /\ rec.todo = run[r].todo
      /\ rec.reply = run[r].reply /\ rec.copy = run[r].copy
  BY <1>1 DEF RunState
<1> HIDE DEF rec
<1>4. Sound(rec) /\ Told(rec)
  BY <1>1, <1>2, <1>3 DEF Sound, Told
<1>. QED  BY <1>1, <1>3, <1>4, RunMoves

LEMMA RunSkipInv == ASSUME Inv, NEW r \in Run, NEW p \in Purchase, RunSkip(r, p) PROVE Inv'
BY RunProceeds DEF RunSkip, Inv, TypeOK

LEMMA RunGiveUpInv == ASSUME Inv, NEW r \in Run, NEW p \in Purchase, RunGiveUp(r, p) PROVE Inv'
<1> DEFINE given == [run[r].copy[p] EXCEPT !.status = "failed", !.parked = FALSE]
<1>1. /\ row' = [row EXCEPT ![p] = given] /\ run' = [run EXCEPT ![r] = Proceed(@, p)]
      /\ UNCHANGED <<debit, create, vt, posts, crashes, gone>>
  BY DEF RunGiveUp
<1>2. run[r].copy[p] \in Row
  BY RunFacts DEF Inv
<1>3. given \in Row
  BY <1>2 DEF Row, Status
<1> HIDE DEF given
<1>4. row' \in [Purchase -> Row]
  BY <1>1, <1>3 DEF Inv, TypeOK
<1>. QED  BY <1>1, <1>4, RunProceeds

\* The metadata of a row may be any that a row may have.
LEMMA NoteInv ==
  ASSUME Inv, NEW r \in Run, run[r].pc \in Busy,
         NEW note, note.parked \in BOOLEAN, note.retries \in 0 .. MaxRetries, RunNote(r, note)
  PROVE  Inv'
<1>1. PICK p \in Purchase : p = run[r].at
  BY BusyFacts
<1> DEFINE noted == [row[p] EXCEPT !.parked = note.parked, !.retries = note.retries]
<1>2. row[p] \in Row
  BY DEF Inv, TypeOK
<1>3. noted \in Row
  BY <1>2 DEF Row
<1>4. row' = [row EXCEPT ![p] = noted]
  BY <1>1 DEF RunNote
<1> HIDE DEF noted
<1>5. row' \in [Purchase -> Row]
  BY <1>3, <1>4 DEF Inv, TypeOK
<1>. QED  BY <1>1, <1>5, RunProceeds DEF RunNote

LEMMA RunNotesInv ==
  ASSUME Inv, NEW r \in Run, RunAccepted(r) \/ RunRefused(r) PROVE Inv'
<1>1. run[r].pc = "paying" /\ run[r].pc \in Busy
  BY DEF RunAccepted, RunRefused, Busy
<1>2. Copy(r) \in Row /\ Copy(r).retries \in 0 .. MaxRetries /\ Copy(r).parked \in BOOLEAN
  BY <1>1, BusyFacts
<1>3. Copy(r).retries + 1 \in 0 .. MaxRetries
  BY <1>1, <1>2, ConstantsAssumption DEF Inv, RunInv, Sound, Copy
<1> DEFINE accepted == [Copy(r) EXCEPT !.parked = FALSE, !.retries = @ + 1]
           refused  == [Copy(r) EXCEPT !.retries = @ + 1]
<1>4. /\ accepted.parked \in BOOLEAN /\ accepted.retries \in 0 .. MaxRetries
      /\ refused.parked \in BOOLEAN /\ refused.retries \in 0 .. MaxRetries
  BY <1>2, <1>3 DEF Row
<1>5. RunNote(r, accepted) \/ RunNote(r, refused) \/ RunNote(r, Copy(r))
  BY DEF RunAccepted, RunRefused
<1> HIDE DEF accepted, refused
<1>. QED  BY <1>1, <1>2, <1>4, <1>5, NoteInv

LEMMA RunErrorInv == ASSUME Inv, NEW r \in Run, RunError(r) PROVE Inv'
<1>1. run[r].pc \in Busy
  BY DEF RunError, Busy
<1>2. PICK p \in Purchase : p = run[r].at
  BY <1>1, BusyFacts
<1>. QED  BY <1>2, RunProceeds DEF RunError, Inv, TypeOK

LEMMA RunDeliveredInv == ASSUME Inv, NEW r \in Run, RunDelivered(r) PROVE Inv'
<1> DEFINE rec == [run[r] EXCEPT !.pc = "mark", !.reply = "none"]
<1>1. /\ run[r] \in RunState /\ run[r].pc = "paying" /\ run[r].reply = "delivered"
      /\ run' = [run EXCEPT ![r] = rec] /\ UNCHANGED <<row, debit, create, vt, posts, crashes, gone>>
  BY RunFacts DEF RunDelivered, Inv
<1>2. /\ rec \in RunState /\ rec.pc = "mark" /\ rec.at = run[r].at /\ rec.todo = run[r].todo
      /\ rec.reply = "none"
  BY <1>1 DEF RunState
<1> HIDE DEF rec
<1>3. Sound(rec) /\ Told(rec)
  BY <1>1, <1>2 DEF Inv, RunInv, Sound, Told, Busy
<1>. QED  BY <1>1, <1>2, <1>3, RunMoves

LEMMA RunRequeryInv ==
  ASSUME Inv, NEW r \in Run, NEW answer \in Requery, RunRequery(r, answer) PROVE Inv'
<1>1. /\ run[r] \in RunState /\ run[r].pc = "requery" /\ run[r].pc \in Busy
      /\ UNCHANGED <<debit, create, vt, posts, crashes, gone>>
  BY RunFacts DEF RunRequery, Inv, Busy
<1>2. PICK p \in Purchase : p = run[r].at
  BY <1>1, BusyFacts
<1>3. CASE answer = "delivered"
  <2> DEFINE rec == [run[r] EXCEPT !.pc = "mark"]
  <2>1. run' = [run EXCEPT ![r] = rec] /\ UNCHANGED row /\ vt[p] = "delivered"
    BY <1>2, <1>3 DEF RunRequery
  <2>2. /\ rec \in RunState /\ rec.pc = "mark" /\ rec.at = p /\ rec.todo = run[r].todo
        /\ rec.reply = run[r].reply
    BY <1>1, <1>2 DEF RunState
  <2> HIDE DEF rec
  <2>3. Sound(rec) /\ Told(rec)
    BY <1>1, <1>2, <2>1, <2>2 DEF Inv, RunInv, Sound, Told, Busy
  <2>. QED  BY <1>1, <2>1, <2>2, <2>3, RunMoves
<1>4. CASE answer = "error"
  <2>1. run' = [run EXCEPT ![r] = IdleRun] /\ UNCHANGED row
    BY <1>4 DEF RunRequery
  <2>. QED  BY <1>1, <2>1, Rows, IdleFacts, RunMoves
<1>5. CASE answer = "other"
  <2>1. run' = [run EXCEPT ![r] = Proceed(@, p)] /\ UNCHANGED row
    BY <1>2, <1>5 DEF RunRequery
  <2>. QED  BY <1>1, <2>1, RunProceeds DEF Inv, TypeOK
<1>6. CASE answer = "pending"
  <2> DEFINE noted == [row[p] EXCEPT !.parked = Copy(r).parked, !.retries = Copy(r).retries]
  <2>1. run' = [run EXCEPT ![r] = Proceed(@, p)] /\ row' = [row EXCEPT ![p] = noted]
    BY <1>2, <1>6 DEF RunRequery
  <2>2. Copy(r).parked \in BOOLEAN /\ Copy(r).retries \in 0 .. MaxRetries /\ row[p] \in Row
    BY <1>1, BusyFacts DEF Inv, TypeOK
  <2>3. noted \in Row
    BY <2>2 DEF Row
  <2> HIDE DEF noted
  <2>4. row' \in [Purchase -> Row]
    BY <2>1, <2>3 DEF Inv, TypeOK
  <2>. QED  BY <1>1, <2>1, <2>4, RunProceeds
<1>. QED  BY <1>3, <1>4, <1>5, <1>6 DEF Requery

LEMMA RunMarkInv == ASSUME Inv, NEW r \in Run, RunMark(r) PROVE Inv'
<1> DEFINE rec   == [run[r] EXCEPT !.pc = "debit"]
           mark  == [Copy(r) EXCEPT !.status = "processed", !.parked = FALSE]
<1>1. /\ run[r] \in RunState /\ run[r].pc = "mark" /\ run[r].pc \in Busy
      /\ run' = [run EXCEPT ![r] = rec] /\ row' = [row EXCEPT ![run[r].at] = mark]
      /\ UNCHANGED <<debit, create, vt, posts, crashes, gone>>
  BY RunFacts DEF RunMark, Inv, Busy
<1>2. run[r].at \in Purchase /\ Copy(r) \in Row
  BY <1>1, BusyFacts
<1>3. mark \in Row
  BY <1>2 DEF Row, Status
<1>4. /\ rec \in RunState /\ rec.pc = "debit" /\ rec.at = run[r].at /\ rec.todo = run[r].todo
      /\ rec.reply = run[r].reply
  BY <1>1 DEF RunState
<1> HIDE DEF rec, mark
<1>5. Sound(rec) /\ Told(rec)
  BY <1>1, <1>4 DEF Inv, RunInv, Sound, Told, Busy
<1>6. row' \in [Purchase -> Row]
  BY <1>1, <1>3 DEF Inv, TypeOK
<1>. QED  BY <1>1, <1>4, <1>5, <1>6, RunGoesOn DEF Inv, TypeOK

LEMMA RunDebitInv == ASSUME Inv, NEW r \in Run, RunDebit(r) PROVE Inv'
<1>1. /\ run[r] \in RunState /\ run[r].pc = "debit" /\ run[r].pc \in Busy
      /\ UNCHANGED <<row, debit, create, vt, posts, crashes, gone>>
  BY RunFacts DEF RunDebit, Inv, Busy
<1>2. PICK p \in Purchase : p = run[r].at
  BY <1>1, BusyFacts
<1>3. CASE debit[run[r].at] = 0
  <2> DEFINE rec == [run[r] EXCEPT !.pc = "insert"]
  <2>1. run' = [run EXCEPT ![r] = rec]
    BY <1>3 DEF RunDebit
  <2>2. /\ rec \in RunState /\ rec.pc = "insert" /\ rec.at = run[r].at /\ rec.todo = run[r].todo
        /\ rec.reply = run[r].reply
    BY <1>1 DEF RunState
  <2> HIDE DEF rec
  <2>3. Sound(rec) /\ Told(rec)
    BY <1>1, <2>2 DEF Inv, RunInv, Sound, Told, Busy
  <2>. QED  BY <1>1, <2>1, <2>2, <2>3, RunMoves
<1>4. CASE debit[run[r].at] # 0
  <2>1. run' = [run EXCEPT ![r] = Proceed(@, p)]
    BY <1>2, <1>4 DEF RunDebit
  <2>. QED  BY <1>1, <2>1, RunProceeds DEF Inv, TypeOK
<1>. QED  BY <1>3, <1>4

LEMMA RunInsertInv == ASSUME Inv, NEW r \in Run, RunInsert(r) PROVE Inv'
<1>1. run[r].pc = "insert" /\ run[r].pc \in Busy /\ UNCHANGED <<row, create, vt, posts, crashes, gone>>
  BY DEF RunInsert, Busy
<1>2. PICK p \in Purchase : p = run[r].at
  BY <1>1, BusyFacts
<1> DEFINE rec == Proceed(run[r], p)
           n   == More(debit[p], MaxDebits)
<1>3. run' = [run EXCEPT ![r] = rec] /\ debit' = [debit EXCEPT ![p] = n]
  BY <1>2 DEF RunInsert
<1>4. rec \in RunState /\ Sound(rec) /\ Told(rec)
  BY ProceedFacts, RunFacts DEF Inv
<1>5. n \in 0 .. MaxDebits
  BY MoreFacts, Bounds DEF Inv, TypeOK
<1>6. vt[p] = "delivered"
  BY <1>1, <1>2 DEF Inv, RunInv, Told
<1> HIDE DEF rec, n
<1>7. debit' \in [Purchase -> 0 .. MaxDebits] /\ \A q \in Purchase \ {p} : debit'[q] = debit[q]
  BY <1>3, <1>5 DEF Inv, TypeOK
<1>. QED  BY <1>1, <1>3, <1>4, <1>6, <1>7, RunGoesOn DEF Inv, TypeOK

LEMMA RunStepInv == ASSUME Inv, NEW r \in Run, RunStep(r) PROVE Inv'
BY RunLoadInv, RunTakeInv, RunGiveUpInv, RunPayInv, RunSkipInv, RunNotesInv, RunErrorInv, RunDeliveredInv,
   RunRequeryInv, RunMarkInv, RunDebitInv, RunInsertInv
DEF RunStep

-----------------------------------------------------------------------------
(* The create handlers.                                                    *)

LEMMA CreateGoesOn ==
  ASSUME Inv, NEW p \in Purchase, NEW rec \in Handler, rec.reply = "delivered" => vt[p] = "delivered",
         create' = [create EXCEPT ![p] = rec], UNCHANGED <<run, vt, posts, crashes, gone>>,
         row' \in [Purchase -> Row], debit' \in [Purchase -> 0 .. MaxDebits],
         \A q \in Purchase : debit'[q] > 0 => debit[q] > 0 \/ vt[q] = "delivered"
  PROVE  Inv'
<1>1. TypeOK' /\ RunInv'
  BY DEF Inv, TypeOK, RunInv, Sound, Told
<1>2. \A q \in Purchase : create'[q] = IF q = p THEN rec ELSE create[q]
  BY DEF Inv, TypeOK
<1>3. VtInv'
  BY <1>2 DEF Inv, VtInv
<1>. QED  BY <1>1, <1>3 DEF Inv

LEMMA CreateBegins ==
  ASSUME Inv, NEW p \in Purchase, CreateCheck(p) \/ CreateSave(p) PROVE Inv'
<1>1. create[p] \in Handler /\ row[p] \in Row
  BY DEF Inv, TypeOK
<1>2. PICK pc \in {"done", "checked", "paying"} : create' = [create EXCEPT ![p].pc = pc]
  BY DEF CreateCheck, CreateSave
<1> DEFINE rec == [create[p] EXCEPT !.pc = pc]
<1>3. create' = [create EXCEPT ![p] = rec]
  BY <1>2
<1>4. rec \in Handler /\ rec.reply = create[p].reply
  BY <1>1 DEF Handler
<1> HIDE DEF rec
<1>5. row' \in [Purchase -> Row] /\ UNCHANGED <<debit, run, vt, posts, crashes, gone>>
  <2> DEFINE pending == [row[p] EXCEPT !.status = "pending"]
  <2>1. pending \in Row
    BY <1>1 DEF Row, Status
  <2>2. CASE CreateCheck(p)
    BY <2>2 DEF CreateCheck, Inv, TypeOK
  <2>3. CASE CreateSave(p)
    <3>1. row' = [row EXCEPT ![p] = pending] /\ UNCHANGED <<debit, run, vt, posts, crashes, gone>>
      BY <2>3 DEF CreateSave
    <3> HIDE DEF pending
    <3>. QED  BY <2>1, <3>1 DEF Inv, TypeOK
  <2>. QED  BY <2>2, <2>3
<1>. QED  BY <1>3, <1>4, <1>5, CreateGoesOn DEF Inv, TypeOK, VtInv

LEMMA CreateEnds ==
  ASSUME Inv, NEW p \in Purchase,
         CreateDelivered(p) \/ CreateAccepted(p) \/ CreateParked(p) \/ CreateFailed(p)
  PROVE  Inv'
<1> DEFINE rec == [pc |-> "done", reply |-> "none"]
<1>1. create' = [create EXCEPT ![p] = rec] /\ UNCHANGED <<run, vt, posts, crashes, gone>>
  BY DEF CreateDelivered, CreateAccepted, CreateParked, CreateFailed, CreateEnd
<1>2. rec \in Handler /\ rec.reply = "none"
  BY DEF Handler
<1> HIDE DEF rec
<1>3. \A status \in Status : [NoRow EXCEPT !.status = status] \in Row
  BY Rows DEF Row
<1>4. \A flag \in BOOLEAN : [status |-> "processing", parked |-> flag, retries |-> 0] \in Row
  BY ConstantsAssumption DEF Row, Status
<1>5. CASE CreateDelivered(p)
  <2> DEFINE n   == More(debit[p], MaxDebits)
             new == [NoRow EXCEPT !.status = "processed"]
  <2>1. row' = [row EXCEPT ![p] = new] /\ debit' = [debit EXCEPT ![p] = n] /\ vt[p] = "delivered"
    BY <1>5 DEF CreateDelivered, CreateEnd, Inv, VtInv
  <2>2. n \in 0 .. MaxDebits /\ new \in Row
    BY <1>3, MoreFacts, Bounds DEF Inv, TypeOK, Status
  <2> HIDE DEF n, new
  <2>3. /\ row' \in [Purchase -> Row] /\ debit' \in [Purchase -> 0 .. MaxDebits]
        /\ \A q \in Purchase \ {p} : debit'[q] = debit[q]
    BY <2>1, <2>2 DEF Inv, TypeOK
  <2>. QED  BY <1>1, <1>2, <2>1, <2>3, CreateGoesOn
<1>6. CASE ~CreateDelivered(p)
  <2>1. \/ row' = [row EXCEPT ![p] = [NoRow EXCEPT !.status = "processing"]]
        \/ \E flag \in BOOLEAN : row' = [row EXCEPT ![p] = [status |-> "processing", parked |-> flag, retries |-> 0]]
        \/ row' = row
    BY <1>6 DEF CreateAccepted, CreateParked, CreateFailed
  <2>2. "processing" \in Status /\ row \in [Purchase -> Row]
    BY DEF Status, Inv, TypeOK
  <2>3. row' \in [Purchase -> Row]
    BY <1>3, <1>4, <2>1, <2>2
  <2>4. UNCHANGED debit
    BY <1>6 DEF CreateAccepted, CreateParked, CreateFailed
  <2>. QED  BY <1>1, <1>2, <2>3, <2>4, CreateGoesOn DEF Inv, TypeOK
<1>. QED  BY <1>5, <1>6

-----------------------------------------------------------------------------
(* VTPass and restarts.                                                    *)

LEMMA PayingFacts ==
  ASSUME Inv, NEW a \in Purchase \cup Run, a \in Paying
  PROVE  /\ a \in Run => run[a].pc = "paying" /\ PurchaseOf(a) = run[a].at
         /\ a \notin Run => a \in Purchase /\ PurchaseOf(a) = a
         /\ PurchaseOf(a) \in Purchase
<1>1. a \in Run => a \notin Purchase /\ run[a].pc = "paying"
  BY ConstantsAssumption DEF Paying
<1>. QED  BY <1>1, BusyFacts DEF PurchaseOf, Busy

LEMMA AnswerInv ==
  ASSUME Inv, NEW a \in Purchase \cup Run, a \in Paying, NEW reply \in PayReply, Answer(a, reply),
         vt' \in [Purchase -> VtState], posts' \in [Purchase -> 0 .. MaxPosts],
         UNCHANGED <<row, debit, crashes, gone>>,
         \A p \in Purchase : vt[p] = "delivered" => vt'[p] = "delivered",
         reply = "delivered" => vt'[PurchaseOf(a)] = "delivered"
  PROVE  Inv'
<1>1. PICK heard \in {reply, "error"} :
        IF a \in Run THEN run' = [run EXCEPT ![a].reply = heard] /\ UNCHANGED create
        ELSE create' = [create EXCEPT ![a].reply = heard] /\ UNCHANGED run
  BY DEF Answer
<1>2. heard \in PayReply /\ (heard = "delivered" => vt'[PurchaseOf(a)] = "delivered")
  BY DEF PayReply
<1>3. CASE a \in Run
  <2> DEFINE rec == [run[a] EXCEPT !.reply = heard]
  <2>1. run' = [run EXCEPT ![a] = rec] /\ UNCHANGED create /\ run[a].pc = "paying"
        /\ PurchaseOf(a) = run[a].at
    BY <1>1, <1>3, PayingFacts
  <2>2. run[a] \in RunState
    BY <1>3, RunFacts DEF Inv
  <2>3. /\ rec \in RunState /\ rec.pc = "paying" /\ rec.at = run[a].at /\ rec.todo = run[a].todo
        /\ rec.copy = run[a].copy /\ rec.reply = heard
    BY <1>2, <2>1, <2>2 DEF RunState
  <2> HIDE DEF rec
  <2>4. \A r \in Run : run'[r] = IF r = a THEN rec ELSE run[r]
    BY <1>3, <2>1 DEF Inv, TypeOK
  <2>5. TypeOK'
    BY <1>3, <2>1, <2>3 DEF Inv, TypeOK
  <2>6. \A r \in Run : Sound(run'[r])
    BY <1>3, <2>1, <2>3, <2>4 DEF Inv, RunInv, Sound
  <2>7. \A r \in Run : Told(run[r])'
    <3>1. \A r \in Run : run[r].pc \in {"mark", "debit", "insert"} \/ run[r].reply = "delivered"
                           => run[r].at \in Purchase
      BY BusyFacts DEF Inv, RunInv, Sound, Busy
    <3>. QED  BY <1>2, <1>3, <2>1, <2>3, <2>4, <3>1 DEF Inv, RunInv, Told
  <2>8. VtInv'
    BY <2>1 DEF Inv, VtInv
  <2>. QED  BY <2>5, <2>6, <2>7, <2>8 DEF Inv, RunInv
<1>4. CASE a \notin Run
  <2> DEFINE rec == [create[a] EXCEPT !.reply = heard]
  <2>1. create' = [create EXCEPT ![a] = rec] /\ UNCHANGED run /\ a \in Purchase /\ PurchaseOf(a) = a
    BY <1>1, <1>4, PayingFacts
  <2>2. create[a] \in Handler
    BY <2>1 DEF Inv, TypeOK
  <2>3. rec \in Handler /\ rec.reply = heard
    BY <1>2, <2>2 DEF Handler
  <2> HIDE DEF rec
  <2>4. \A p \in Purchase : create'[p] = IF p = a THEN rec ELSE create[p]
    BY <2>1 DEF Inv, TypeOK
  <2>5. TypeOK'
    BY <2>1, <2>3 DEF Inv, TypeOK
  <2>6. RunInv'
    <3>1. \A r \in Run : run[r].pc \in {"mark", "debit", "insert"} \/ run[r].reply = "delivered"
                           => run[r].at \in Purchase
      BY BusyFacts DEF Inv, RunInv, Sound, Busy
    <3>. QED  BY <2>1, <3>1 DEF Inv, RunInv, Sound, Told
  <2>7. VtInv'
    BY <1>2, <2>1, <2>3, <2>4 DEF Inv, VtInv
  <2>. QED  BY <2>5, <2>6, <2>7 DEF Inv
<1>. QED  BY <1>3, <1>4

LEMMA ReachedType ==
  ASSUME Inv, NEW a \in Purchase \cup Run, a \in Paying, Reached(a)
  PROVE  posts' \in [Purchase -> 0 .. MaxPosts]
<1>1. CASE a \in Run
  <2>1. PICK p \in Purchase : p = run[a].at
    BY <1>1, PayingFacts
  <2> DEFINE n == More(posts[p], MaxPosts)
  <2>2. posts' = [posts EXCEPT ![p] = n]
    BY <1>1, <2>1 DEF Reached
  <2>3. n \in 0 .. MaxPosts
    BY MoreFacts, Bounds DEF Inv, TypeOK
  <2> HIDE DEF n
  <2>. QED  BY <2>2, <2>3 DEF Inv, TypeOK
<1>2. CASE a \notin Run
  BY <1>2 DEF Reached, Inv, TypeOK
<1>. QED  BY <1>1, <1>2

LEMMA VtInvariance ==
  ASSUME Inv, NEW a \in Purchase \cup Run, VtTake(a) \/ VtRefuse(a) \/ VtUnreached(a)
  PROVE  Inv'
<1>1. CASE VtTake(a)
  <2>1. a \in Paying /\ posts' \in [Purchase -> 0 .. MaxPosts]
    BY <1>1, ReachedType DEF VtTake
  <2>2. PICK p \in Purchase : p = PurchaseOf(a)
    BY <2>1, PayingFacts
  <2>3. PICK reply \in {"delivered", "accepted"} :
          /\ Answer(a, reply)
          /\ vt' = [vt EXCEPT ![p] = IF reply = "delivered" THEN "delivered" ELSE "pending"]
    BY <1>1, <2>2 DEF VtTake
  <2>4. vt[p] = "unknown" /\ UNCHANGED <<row, debit, crashes, gone>>
    BY <1>1, <2>2 DEF VtTake
  <2>5. /\ vt' \in [Purchase -> VtState]
        /\ \A q \in Purchase : vt[q] = "delivered" => vt'[q] = "delivered"
        /\ reply = "delivered" => vt'[p] = "delivered"
    BY <2>3, <2>4 DEF Inv, TypeOK, VtState
  <2>6. reply \in PayReply
    BY DEF PayReply
  <2>. QED  BY <2>1, <2>2, <2>3, <2>4, <2>5, <2>6, AnswerInv
<1>2. CASE VtRefuse(a)
  <2>1. a \in Paying /\ posts' \in [Purchase -> 0 .. MaxPosts] /\ UNCHANGED <<row, debit, vt, crashes, gone>>
    BY <1>2, ReachedType DEF VtRefuse
  <2>2. PICK reply \in {"low", "refused"} : Answer(a, reply)
    BY <1>2 DEF VtRefuse
  <2>3. reply \in PayReply /\ reply # "delivered"
    BY DEF PayReply
  <2>. QED  BY <2>1, <2>2, <2>3, AnswerInv DEF Inv, TypeOK
<1>3. CASE VtUnreached(a)
  <2>1. /\ a \in Paying /\ Answer(a, "error") /\ "error" \in PayReply
        /\ UNCHANGED <<row, debit, vt, posts, crashes, gone>>
    BY <1>3 DEF VtUnreached, PayReply
  <2>. QED  BY <2>1, AnswerInv DEF Inv, TypeOK
<1>. QED  BY <1>1, <1>2, <1>3

\* VTPass takes and settles requests nobody asks about.
LEMMA VtAlone ==
  ASSUME Inv, vt' \in [Purchase -> VtState], UNCHANGED <<row, debit, create, run, posts, crashes, gone>>,
         \A p \in Purchase : vt[p] = "delivered" => vt'[p] = "delivered"
  PROVE  Inv'
<1>1. \A r \in Run : run[r].pc \in {"mark", "debit", "insert"} \/ run[r].reply = "delivered"
                       => run[r].at \in Purchase
  BY BusyFacts DEF Inv, RunInv, Sound, Busy
<1>2. TypeOK'
  BY DEF Inv, TypeOK
<1>. QED  BY <1>1, <1>2 DEF Inv, RunInv, Sound, Told, VtInv

LEMMA VtSettleInv == ASSUME Inv, NEW p \in Purchase, VtSettle(p) PROVE Inv'
BY VtAlone DEF VtSettle, Inv, TypeOK, VtState

LEMMA CrashInv == ASSUME Inv, Crash PROVE Inv'
<1>1. /\ crashes < MaxCrashes /\ crashes' = crashes + 1 /\ UNCHANGED <<row, debit, posts, gone>>
      /\ run' = [r \in Run |-> IdleRun]
  BY DEF Crash
<1>2. create' \in [Purchase -> Handler]
  BY DEF Crash, Inv, TypeOK, Handler
<1>3. \A p \in Purchase : create'[p].reply = "delivered" => create[p].reply = "delivered"
  BY DEF Crash
<1>4. /\ vt' \in [Purchase -> VtState]
      /\ \A p \in Purchase : vt[p] = "delivered" => vt'[p] = "delivered"
  BY DEF Crash, Inv, TypeOK, VtState
<1>5. run' \in [Run -> RunState] /\ crashes' \in 0 .. MaxCrashes
  BY <1>1, Rows, ConstantsAssumption DEF Inv, TypeOK
<1>6. TypeOK'
  BY <1>1, <1>2, <1>4, <1>5 DEF Inv, TypeOK
<1>7. RunInv'
  BY <1>1 DEF RunInv, Sound, Told, IdleRun, Busy
<1>8. VtInv'
  BY <1>1, <1>3, <1>4 DEF Inv, VtInv
<1>. QED  BY <1>6, <1>7, <1>8 DEF Inv

LEMMA NextInv == Inv /\ [Next]_vars => Inv'
<1> SUFFICES ASSUME Inv, [Next]_vars PROVE Inv'
  OBVIOUS
<1>1. CASE UNCHANGED vars
  BY <1>1 DEF vars, Inv, TypeOK, RunInv, VtInv, Sound, Told
<1>2. ASSUME NEW p \in Purchase, CreateStep(p) PROVE Inv'
  BY <1>2, CreateBegins, CreateEnds DEF CreateStep
<1>3. CASE Leave
  BY <1>3 DEF Leave, Inv, TypeOK, RunInv, VtInv, Sound, Told
<1>. QED  BY <1>1, <1>2, <1>3, VtSettleInv, RunStepInv, VtInvariance, CrashInv DEF Next

LEMMA Invariance == Spec => []Inv
BY InitInv, NextInv, PTL DEF Spec

\* Rows, copies, counters and what VTPass has recorded stay in their types; no
\* re-initiation is ever counted beyond MAX_PURCHASE_RETRIES.
THEOREM TypeCorrect == Spec => []TypeOK
<1>1. Inv => TypeOK
  BY DEF Inv
<1>. QED  BY <1>1, Invariance, PTL

\* Only what VTPass delivered is charged, by whichever of createAirtime,
\* createData, createElectricity, the verification and retryPurchaseInitiation,
\* with overlapping runs, restarts, lost answers and writes that land late.
THEOREM ChargedIfDelivered == Spec => []ChargedOnlyIfDelivered
<1>1. Inv => ChargedOnlyIfDelivered
  BY DEF Inv, VtInv, ChargedOnlyIfDelivered
<1>. QED  BY <1>1, Invariance, PTL

-----------------------------------------------------------------------------
(* One run at a time.                                                      *)

Alone == \A r, q \in Run : r = q

\* What has a debit is processed and in nobody's hands; what a run has still to
\* visit has none, and its create handler is over.
OnceInv ==
  /\ \A p \in Purchase :
       /\ debit[p] <= 1 /\ (debit[p] > 0 => row[p].status = "processed")
       /\ create[p].pc # "done" => debit[p] = 0 /\ row[p].status \in {"none", "pending"}
  /\ \A r \in Run :
       /\ \A p \in run[r].todo : create[p].pc = "done" /\ debit[p] = 0
       /\ run[r].pc \in {"debit", "insert"} => row[run[r].at].status = "processed"

LEMMA OnceInit == Init => OnceInv
BY DEF Init, OnceInv, IdleRun, NoRow

\* The only run goes on, and debits nothing.
LEMMA OnceRun ==
  ASSUME Alone, Inv, OnceInv, NEW r \in Run, UNCHANGED <<create, debit>>,
         run'[r].todo \subseteq run[r].todo,
         \A p \in Purchase : row'[p].status = row[p].status \/ p \in run[r].todo,
         run'[r].pc \in {"debit", "insert"} => row'[run'[r].at].status = "processed"
  PROVE  OnceInv'
<1>1. \A q \in Run : q = r
  BY DEF Alone
<1>2. \A p \in Purchase :
        /\ debit'[p] <= 1 /\ (debit'[p] > 0 => row'[p].status = "processed")
        /\ create'[p].pc # "done" => debit'[p] = 0 /\ row'[p].status \in {"none", "pending"}
  BY DEF OnceInv, Inv, TypeOK
<1>3. \A p \in run'[r].todo : create'[p].pc = "done" /\ debit'[p] = 0
  BY DEF OnceInv
<1>. QED  BY <1>1, <1>2, <1>3 DEF OnceInv

\* Its record is replaced by one that visits no more.
LEMMA OnceSet ==
  ASSUME TypeOK, NEW r \in Run, NEW rec, run' = [run EXCEPT ![r] = rec]
  PROVE  run'[r] = rec
BY DEF TypeOK

LEMMA OnceProceeds ==
  ASSUME Alone, Inv, OnceInv, NEW r \in Run, NEW p \in Purchase,
         run' = [run EXCEPT ![r] = Proceed(@, p)], UNCHANGED <<create, debit>>,
         \A q \in Purchase : row'[q].status = row[q].status \/ q \in run[r].todo
  PROVE  OnceInv'
<1> DEFINE rec == Proceed(run[r], p)
<1>1. rec.pc \in {"idle", "next"} /\ rec.todo \subseteq run[r].todo
  BY ProceedFacts, RunFacts DEF Inv
<1>2. run'[r] = rec
  BY OnceSet DEF Inv
<1> HIDE DEF rec
<1>. QED  BY <1>1, <1>2, OnceRun

LEMMA OnceRunStep ==
  ASSUME Alone, Inv, OnceInv, NEW r \in Run, RunStep(r) PROVE OnceInv'
<1>0. run[r] \in RunState /\ \A q \in Run : q = r
  BY RunFacts DEF Inv, Alone
<1>1. CASE RunLoad(r)
  <2> DEFINE due == {p \in Purchase : row[p].status = "processing"}
  <2>1. run'[r].todo = due /\ run'[r].pc = "next" /\ UNCHANGED <<row, debit, create>>
    BY <1>1 DEF RunLoad, IdleRun, Inv, TypeOK
  <2>2. \A p \in due : create[p].pc = "done" /\ debit[p] = 0
    BY DEF OnceInv, Inv, TypeOK
  <2> HIDE DEF due
  <2>. QED  BY <1>0, <2>1, <2>2 DEF OnceInv
<1>2. ASSUME NEW p \in Purchase, RunTake(r, p) \/ RunPay(r, p) PROVE OnceInv'
  <2>1. PICK pc \in {"requery", "paying"} : run' = [run EXCEPT ![r].pc = pc, ![r].at = p]
    BY <1>2 DEF RunTake, RunPay
  <2> DEFINE rec == [run[r] EXCEPT !.pc = pc, !.at = p]
  <2>2. rec.pc = pc /\ rec.todo = run[r].todo
    BY <1>0 DEF RunState
  <2>3. run'[r] = rec
    BY <2>1 DEF Inv, TypeOK
  <2>4. UNCHANGED <<row, debit, create>>
    BY <1>2 DEF RunTake, RunPay
  <2> HIDE DEF rec
  <2>. QED  BY <2>2, <2>3, <2>4, OnceRun
<1>3. ASSUME NEW p \in Purchase, RunGiveUp(r, p) PROVE OnceInv'
  <2>1. p \in run[r].todo /\ \A q \in Purchase : row'[q] = row[q] \/ q = p
    BY <1>3 DEF RunGiveUp, Inv, TypeOK
  <2>. QED  BY <1>3, <2>1, OnceProceeds DEF RunGiveUp
<1>12. ASSUME NEW p \in Purchase, RunSkip(r, p) PROVE OnceInv'
  BY <1>12, OnceProceeds DEF RunSkip
<1>4. ASSUME run[r].pc \in Busy, NEW note, RunNote(r, note) PROVE OnceInv'
  <2>1. PICK p \in Purchase : p = run[r].at
    BY <1>4, BusyFacts
  <2>2. p \in run[r].todo
    BY <1>4, <2>1, BusyFacts
  <2>3. \A q \in Purchase : row'[q].status = row[q].status \/ q = p
    BY <1>4, <2>1 DEF RunNote, Inv, TypeOK
  <2>. QED  BY <1>4, <2>1, <2>2, <2>3, OnceProceeds DEF RunNote
<1>5. CASE RunAccepted(r) \/ RunRefused(r)
  BY <1>4, <1>5 DEF RunAccepted, RunRefused, Busy
<1>6. CASE RunError(r)
  <2>1. PICK p \in Purchase : p = run[r].at
    BY <1>6, BusyFacts DEF RunError, Busy
  <2>. QED  BY <1>6, <2>1, OnceProceeds DEF RunError
<1>7. CASE RunDelivered(r)
  <2> DEFINE rec == [run[r] EXCEPT !.pc = "mark", !.reply = "none"]
  <2>1. rec.pc = "mark" /\ rec.todo = run[r].todo
    BY <1>0 DEF RunState
  <2>2. run'[r] = rec /\ UNCHANGED <<row, debit, create>>
    BY <1>7 DEF RunDelivered, Inv, TypeOK
  <2> HIDE DEF rec
  <2>. QED  BY <2>1, <2>2, OnceRun
<1>8. ASSUME NEW answer \in Requery, RunRequery(r, answer) PROVE OnceInv'
  <2>1. UNCHANGED <<debit, create>> /\ run[r].pc \in Busy
    BY <1>8 DEF RunRequery, Busy
  <2>2. PICK p \in Purchase : p = run[r].at
    BY <2>1, BusyFacts
  <2>3. \A q \in Purchase : row'[q].status = row[q].status \/ q = p
    BY <1>8, <2>2 DEF RunRequery, Inv, TypeOK
  <2>4. p \in run[r].todo
    BY <2>1, <2>2, BusyFacts
  <2>5. CASE run' = [run EXCEPT ![r] = Proceed(@, p)]
    BY <2>1, <2>3, <2>4, <2>5, OnceProceeds
  <2>6. CASE run' = [run EXCEPT ![r] = IdleRun]
    <3>1. run'[r] = IdleRun
      BY <2>6 DEF Inv, TypeOK
    <3>. QED  BY <2>1, <2>3, <2>4, <3>1, IdleFacts, OnceRun
  <2>7. CASE run' = [run EXCEPT ![r].pc = "mark"]
    <3> DEFINE rec == [run[r] EXCEPT !.pc = "mark"]
    <3>1. rec.pc = "mark" /\ rec.todo = run[r].todo
      BY <1>0 DEF RunState
    <3>2. run'[r] = rec
      BY <2>7 DEF Inv, TypeOK
    <3> HIDE DEF rec
    <3>. QED  BY <2>1, <2>3, <2>4, <3>1, <3>2, OnceRun
  <2>8. \/ run' = [run EXCEPT ![r] = Proceed(@, p)] \/ run' = [run EXCEPT ![r] = IdleRun]
        \/ run' = [run EXCEPT ![r].pc = "mark"]
    BY <1>8, <2>2 DEF RunRequery
  <2>. QED  BY <2>5, <2>6, <2>7, <2>8
<1>9. CASE RunMark(r)
  <2> DEFINE rec  == [run[r] EXCEPT !.pc = "debit"]
             mark == [Copy(r) EXCEPT !.status = "processed", !.parked = FALSE]
  <2>1. PICK p \in Purchase : p = run[r].at /\ p \in run[r].todo
    BY <1>9, BusyFacts DEF RunMark, Busy
  <2>2. rec.pc = "debit" /\ rec.todo = run[r].todo /\ rec.at = p
    BY <1>0, <2>1 DEF RunState
  <2>3. run'[r] = rec /\ row' = [row EXCEPT ![p] = mark] /\ UNCHANGED <<debit, create>>
    BY <1>9, <2>1 DEF RunMark, Inv, TypeOK
  <2>4. mark.status = "processed"
    BY <1>9, BusyFacts DEF RunMark, Busy, Row
  <2> HIDE DEF rec, mark
  <2>5. row'[p].status = "processed" /\ \A q \in Purchase \ {p} : row'[q] = row[q]
    BY <2>3, <2>4 DEF Inv, TypeOK
  <2>. QED  BY <2>1, <2>2, <2>3, <2>5, OnceRun
<1>10. CASE RunDebit(r)
  <2>1. UNCHANGED <<row, debit, create>> /\ run[r].pc = "debit" /\ run[r].pc \in Busy
    BY <1>10 DEF RunDebit, Busy
  <2>2. PICK p \in Purchase : p = run[r].at
    BY <2>1, BusyFacts
  <2>3. CASE run' = [run EXCEPT ![r] = Proceed(@, p)]
    BY <2>1, <2>3, OnceProceeds
  <2>4. CASE run' = [run EXCEPT ![r].pc = "insert"]
    <3> DEFINE rec == [run[r] EXCEPT !.pc = "insert"]
    <3>1. rec.pc = "insert" /\ rec.todo = run[r].todo /\ rec.at = run[r].at
      BY <1>0 DEF RunState
    <3>2. run'[r] = rec
      BY <2>4 DEF Inv, TypeOK
    <3>3. row[run[r].at].status = "processed"
      BY <2>1 DEF OnceInv
    <3> HIDE DEF rec
    <3>. QED  BY <2>1, <3>1, <3>2, <3>3, OnceRun
  <2>. QED  BY <1>10, <2>2, <2>3, <2>4 DEF RunDebit
<1>11. CASE RunInsert(r)
  <2>1. UNCHANGED <<row, create>> /\ run[r].pc = "insert" /\ run[r].pc \in Busy
    BY <1>11 DEF RunInsert, Busy
  <2>2. PICK p \in Purchase : p = run[r].at /\ p \in run[r].todo
    BY <2>1, BusyFacts
  <2>3. debit[p] = 0 /\ create[p].pc = "done" /\ row[p].status = "processed"
    BY <2>1, <2>2 DEF OnceInv
  <2>4. debit'[p] = 1 /\ \A q \in Purchase \ {p} : debit'[q] = debit[q]
    BY <1>11, <2>2, <2>3 DEF RunInsert, More, MaxDebits, Inv, TypeOK
  <2> DEFINE rec == Proceed(run[r], p)
  <2>5. rec.pc \in {"idle", "next"} /\ rec.todo \subseteq run[r].todo \ {p}
    BY <1>0, ProceedFacts
  <2>6. run'[r] = rec
    BY <1>11, <2>2 DEF RunInsert, Inv, TypeOK
  <2> HIDE DEF rec
  <2>7. run[r].todo \subseteq Purchase
    BY <1>0 DEF RunState
  <2>. QED  BY <1>0, <2>1, <2>3, <2>4, <2>5, <2>6, <2>7 DEF OnceInv
<1>. QED  BY <1>1, <1>2, <1>3, <1>5, <1>6, <1>7, <1>8, <1>9, <1>10, <1>11, <1>12 DEF RunStep

LEMMA OnceCreate ==
  ASSUME Inv, OnceInv, NEW p \in Purchase, CreateStep(p) PROVE OnceInv'
<1>1. create[p].pc # "done" /\ UNCHANGED run
  BY DEF CreateStep, CreateCheck, CreateSave, CreateDelivered, CreateAccepted, CreateParked, CreateFailed, CreateEnd
<1>2. \A r \in Run : p \notin run[r].todo /\ run[r].todo \subseteq Purchase
  BY <1>1, RunFacts DEF OnceInv, Inv
<1>3. \A r \in Run : run[r].pc \in {"debit", "insert"} => run[r].at \in Purchase \ {p}
  BY <1>2, BusyFacts DEF Busy
<1>4. /\ \A q \in Purchase \ {p} : row'[q] = row[q] /\ debit'[q] = debit[q] /\ create'[q] = create[q]
      /\ \/ debit'[p] = 0 /\ create'[p].pc = "done"
         \/ debit'[p] = 0 /\ row'[p].status \in {"none", "pending"}
         \/ debit'[p] = 1 /\ create'[p].pc = "done" /\ row'[p].status = "processed"
  <2>0. debit[p] = 0 /\ row[p].status \in {"none", "pending"}
    BY <1>1 DEF OnceInv
  <2>1. CASE CreateCheck(p) \/ CreateSave(p)
    BY <2>0, <2>1 DEF CreateCheck, CreateSave, Inv, TypeOK, Row
  <2>2. CASE CreateDelivered(p)
    BY <2>0, <2>2 DEF CreateDelivered, CreateEnd, Inv, TypeOK, More, MaxDebits, NoRow
  <2>3. CASE CreateAccepted(p) \/ CreateParked(p) \/ CreateFailed(p)
    <3>1. create' = [create EXCEPT ![p] = [pc |-> "done", reply |-> "none"]] /\ UNCHANGED debit
      BY <2>3 DEF CreateAccepted, CreateParked, CreateFailed, CreateEnd
    <3>2. create'[p].pc = "done" /\ \A q \in Purchase \ {p} : create'[q] = create[q]
      BY <3>1 DEF Inv, TypeOK
    <3>3. \A q \in Purchase \ {p} : row'[q] = row[q]
      BY <2>3 DEF CreateAccepted, CreateParked, CreateFailed, Inv, TypeOK
    <3>. QED  BY <2>0, <3>1, <3>2, <3>3
  <2>. QED  BY <2>1, <2>2, <2>3 DEF CreateStep
<1>. QED  BY <1>1, <1>2, <1>3, <1>4 DEF OnceInv

LEMMA OnceNext == Alone /\ Inv /\ OnceInv /\ [Next]_vars => OnceInv'
<1> SUFFICES ASSUME Alone, Inv, OnceInv, [Next]_vars PROVE OnceInv'
  OBVIOUS
<1>1. CASE UNCHANGED <<row, debit, create, run>>
  BY <1>1 DEF OnceInv
<1>2. ASSUME NEW a \in Purchase \cup Run, VtTake(a) \/ VtRefuse(a) \/ VtUnreached(a) PROVE OnceInv'
  <2>1. a \in Paying /\ (\E reply : Answer(a, reply)) /\ UNCHANGED <<row, debit>>
    BY <1>2 DEF VtTake, VtRefuse, VtUnreached
  <2>2. \/ \E heard : run' = [run EXCEPT ![a].reply = heard] /\ a \in Run /\ UNCHANGED create
        \/ \E heard : create' = [create EXCEPT ![a].reply = heard] /\ UNCHANGED run
    BY <2>1 DEF Answer
  <2>3. /\ \A p \in Purchase : create'[p].pc = create[p].pc
        /\ \A r \in Run : /\ run'[r].pc = run[r].pc /\ run'[r].at = run[r].at
                          /\ run'[r].todo = run[r].todo
    <3>1. CASE UNCHANGED create
      <4>1. PICK heard : run' = [run EXCEPT ![a].reply = heard] \/ run' = run
        BY <2>2, <3>1
      <4>2. \A r \in Run : run'[r] = run[r] \/ run'[r] = [run[r] EXCEPT !.reply = heard]
        BY <4>1 DEF Inv, TypeOK
      <4>. QED  BY <3>1, <4>2, RunFacts DEF Inv, RunState
    <3>2. CASE UNCHANGED run
      <4>1. PICK heard : create' = [create EXCEPT ![a].reply = heard] \/ create' = create
        BY <2>2, <3>2
      <4>2. \A p \in Purchase : create'[p] = create[p] \/ create'[p] = [create[p] EXCEPT !.reply = heard]
        BY <4>1 DEF Inv, TypeOK
      <4>. QED  BY <3>2, <4>2 DEF Inv, TypeOK, Handler
    <3>. QED  BY <2>2, <3>1, <3>2
  <2>4. \A r \in Run : run[r].todo \subseteq Purchase
    BY RunFacts DEF Inv
  <2>. QED  BY <2>1, <2>3, <2>4 DEF OnceInv
<1>3. CASE Crash
  <2>1. \A r \in Run : run'[r].todo = {} /\ run'[r].pc = "idle"
    BY <1>3 DEF Crash, IdleRun
  <2>2. \A p \in Purchase : create'[p].pc # "done" => create[p].pc # "done"
    BY <1>3 DEF Crash
  <2>. QED  BY <1>3, <2>1, <2>2 DEF Crash, OnceInv
<1>4. ASSUME NEW p \in Purchase, VtSettle(p) PROVE OnceInv'
  BY <1>1, <1>4 DEF VtSettle
<1>5. CASE Leave
  BY <1>5 DEF Leave, OnceInv
<1>. QED  BY <1>1, <1>2, <1>3, <1>4, <1>5, OnceCreate, OnceRunStep DEF Next, vars

\* As long as each run ends before the next begins, no purchase is debited twice
\* (ensurePurchaseDebit), and none that is shown as failed was charged: a run's
\* copy of a row it has still to visit is then up to date in what matters.
THEOREM AloneIsExact ==
  ASSUME Alone
  PROVE  Spec => [](DebitedOnce /\ FailedNotCharged)
<1>1. Inv /\ OnceInv => DebitedOnce /\ FailedNotCharged
  BY DEF Inv, TypeOK, OnceInv, DebitedOnce, FailedNotCharged, MaxDebits
<1>2. Spec => []OnceInv
  BY OnceInit, OnceNext, Invariance, PTL DEF Spec
<1>. QED  BY <1>1, <1>2, Invariance, PTL

-----------------------------------------------------------------------------
(* Re-initiation of parked purchases, one run at a time.                   *)

\* Runs do not overlap, every answer of VTPass is heard, and updates land in the
\* order they were started in.
Orderly == Alone /\ "lostAnswer" \notin Env /\ "slowWrite" \notin Env

\* A run knows that VTPass has taken p, or has an answer on p it has still to count.
Knows(rec, p)  == rec.at = p /\ (rec.pc = "mark" \/ rec.reply \in {"accepted", "delivered"})
Counts(rec, p) ==
  rec.at = p /\ (rec.pc = "mark" \/ rec.reply \in {"accepted", "delivered", "low", "refused"})

\* The run's copy of a row it has not dealt with is the row.
CopyInv ==
  \A r \in Run : \A p \in run[r].todo :
    \/ run[r].pc \in {"debit", "insert"} /\ run[r].at = p
    \/ run[r].copy[p] = row[p] /\ row[p].status = "processing"

\* As long as its handler is at work a purchase is not parked, and VTPass has
\* nothing but what the handler was told of.
FreshInv ==
  \A p \in Purchase : create[p].pc # "done" =>
    /\ ~row[p].parked /\ posts[p] = 0
    /\ create[p].reply \notin {"accepted", "delivered"} => vt[p] = "unknown"

\* VTPass has neither taken nor delivered what is parked or failed, but for an
\* answer a run is about to act on.
ParkInv ==
  \A p \in Purchase :
    crashes = 0 /\ (row[p].parked \/ row[p].status = "failed") =>
      vt[p] \notin {"pending", "delivered"} \/ \E r \in Run : Knows(run[r], p)

\* Every re-initiation is counted in the row, but for the last, and for one per
\* restart.
CountInv ==
  \A p \in Purchase :
    \/ posts[p] <= row[p].retries + crashes
    \/ /\ posts[p] <= row[p].retries + 1 + crashes /\ row[p].retries < MaxRetries
       /\ row[p].status = "processed" \/ \E r \in Run : Counts(run[r], p)

ParkedInv == CopyInv /\ FreshInv /\ ParkInv /\ CountInv

LEMMA ParkedInit == Init => ParkedInv
BY DEF Init, ParkedInv, CopyInv, FreshInv, ParkInv, CountInv, IdleRun, NoRow

\* The only run deals with p.
LEMMA ParkedRun ==
  ASSUME Orderly, Inv, OnceInv, ParkedInv, NEW r \in Run, NEW p \in run[r].todo, NEW rec,
         run' = [run EXCEPT ![r] = rec], UNCHANGED <<create, vt, posts, crashes, gone>>,
         \A q \in Purchase \ {p} : row'[q] = row[q],
         run[r].at = p \/ run[r].pc = "next",
         rec.todo \subseteq run[r].todo, \A q \in rec.todo \ {p} : rec.copy[q] = run[r].copy[q],
         p \in rec.todo => \/ rec.pc \in {"debit", "insert"} /\ rec.at = p
                           \/ rec.copy[p] = row'[p] /\ row'[p].status = "processing",
         crashes = 0 /\ (row'[p].parked \/ row'[p].status = "failed") =>
           vt[p] \notin {"pending", "delivered"} \/ Knows(rec, p),
         \/ posts[p] <= row'[p].retries + crashes
         \/ /\ posts[p] <= row'[p].retries + 1 + crashes /\ row'[p].retries < MaxRetries
            /\ row'[p].status = "processed" \/ Counts(rec, p)
  PROVE  ParkedInv'
<1>1. /\ run'[r] = rec /\ (\A q \in Run : q = r) /\ p \in Purchase
      /\ run[r].todo \subseteq Purchase /\ rec.todo \subseteq Purchase
  BY RunFacts DEF Orderly, Alone, Inv, TypeOK
<1>2. \A q \in Purchase \ {p} : ~Knows(run[r], q) /\ ~Counts(run[r], q)
  BY DEF Knows, Counts, Inv, RunInv, Sound
<1>3. CopyInv'
  <2> SUFFICES ASSUME NEW q \in rec.todo
               PROVE  \/ rec.pc \in {"debit", "insert"} /\ rec.at = q
                      \/ rec.copy[q] = row'[q] /\ row'[q].status = "processing"
    BY <1>1 DEF CopyInv
  <2>1. CASE q # p
    <3>1. run[r].copy[q] = row[q] /\ row[q].status = "processing"
      BY <2>1 DEF ParkedInv, CopyInv
    <3>. QED  BY <1>1, <2>1, <3>1
  <2>. QED  BY <2>1
<1>4. FreshInv'
  <2>1. create[p].pc = "done"
    BY DEF OnceInv
  <2>. QED  BY <2>1 DEF ParkedInv, FreshInv
<1>5. ParkInv'
  <2> SUFFICES ASSUME NEW q \in Purchase, crashes = 0, row'[q].parked \/ row'[q].status = "failed"
               PROVE  vt[q] \notin {"pending", "delivered"} \/ Knows(rec, q)
    BY <1>1 DEF ParkInv
  <2>1. CASE q # p
    BY <1>1, <1>2, <2>1 DEF ParkedInv, ParkInv
  <2>. QED  BY <2>1
<1>6. CountInv'
  <2> SUFFICES ASSUME NEW q \in Purchase
               PROVE  \/ posts[q] <= row'[q].retries + crashes
                      \/ /\ posts[q] <= row'[q].retries + 1 + crashes /\ row'[q].retries < MaxRetries
                         /\ row'[q].status = "processed" \/ Counts(rec, q)
    BY <1>1 DEF CountInv
  <2>1. CASE q # p
    BY <1>1, <1>2, <2>1 DEF ParkedInv, CountInv
  <2>. QED  BY <2>1
<1>. QED  BY <1>3, <1>4, <1>5, <1>6 DEF ParkedInv

\* What is left of a run that is done with p.
LEMMA ProceedKeeps ==
  ASSUME NEW rec \in RunState, NEW p \in Purchase
  PROVE  /\ p \notin Proceed(rec, p).todo /\ Proceed(rec, p).todo \subseteq rec.todo
         /\ \A q \in Proceed(rec, p).todo \ {p} : Proceed(rec, p).copy[q] = rec.copy[q]
         /\ Proceed(rec, p).reply = "none" /\ Proceed(rec, p).pc \in {"idle", "next"}
         /\ ~Knows(Proceed(rec, p), p) /\ ~Counts(Proceed(rec, p), p)
<1>1. Proceed(rec, p).todo \subseteq rec.todo \ {p}
      /\ Proceed(rec, p).pc \in {"idle", "next"} /\ Proceed(rec, p).reply = "none"
  BY ProceedFacts
<1>2. \A q \in Proceed(rec, p).todo \ {p} : Proceed(rec, p).copy[q] = rec.copy[q]
  BY DEF Proceed, IdleRun, RunState
<1>. QED  BY <1>1, <1>2 DEF Knows, Counts

LEMMA ParkedProceeds ==
  ASSUME Orderly, Inv, OnceInv, ParkedInv, NEW r \in Run, NEW p \in run[r].todo,
         run' = [run EXCEPT ![r] = Proceed(@, p)], UNCHANGED <<create, vt, posts, crashes, gone>>,
         \A q \in Purchase \ {p} : row'[q] = row[q],
         run[r].at = p \/ run[r].pc = "next",
         crashes = 0 /\ (row'[p].parked \/ row'[p].status = "failed") =>
           vt[p] \notin {"pending", "delivered"},
         \/ posts[p] <= row'[p].retries + crashes
         \/ /\ posts[p] <= row'[p].retries + 1 + crashes /\ row'[p].retries < MaxRetries
            /\ row'[p].status = "processed"
  PROVE  ParkedInv'
<1> DEFINE rec == Proceed(run[r], p)
<1>1. p \in Purchase /\ run[r] \in RunState
  BY RunFacts DEF Inv
<1>2. /\ p \notin rec.todo /\ rec.todo \subseteq run[r].todo
      /\ \A q \in rec.todo \ {p} : rec.copy[q] = run[r].copy[q]
  BY <1>1, ProceedKeeps
<1>3. run' = [run EXCEPT ![r] = rec]
  OBVIOUS
<1>4. /\ p \in rec.todo => \/ rec.pc \in {"debit", "insert"} /\ rec.at = p
                           \/ rec.copy[p] = row'[p] /\ row'[p].status = "processing"
      /\ crashes = 0 /\ (row'[p].parked \/ row'[p].status = "failed") =>
           vt[p] \notin {"pending", "delivered"} \/ Knows(rec, p)
      /\ \/ posts[p] <= row'[p].retries + crashes
         \/ /\ posts[p] <= row'[p].retries + 1 + crashes /\ row'[p].retries < MaxRetries
            /\ row'[p].status = "processed" \/ Counts(rec, p)
  BY <1>2
<1> HIDE DEF rec
<1>. QED  BY <1>2, <1>3, <1>4, ParkedRun

\* What the invariant says of the purchase in hand.
LEMMA InHand ==
  ASSUME Orderly, Inv, OnceInv, ParkedInv, NEW r \in Run, NEW p \in run[r].todo
  PROVE  /\ p \in Purchase /\ row[p] \in Row /\ row[p].retries \in 0 .. MaxRetries
         /\ posts[p] \in Nat /\ crashes \in Nat /\ MaxRetries \in Nat
         /\ run[r].pc \notin {"debit", "insert"} \/ run[r].at # p =>
              run[r].copy[p] = row[p] /\ row[p].status = "processing"
         /\ crashes = 0 /\ row[p].parked =>
              vt[p] \notin {"pending", "delivered"} \/ Knows(run[r], p)
         /\ \/ posts[p] <= row[p].retries + crashes
            \/ /\ posts[p] <= row[p].retries + 1 + crashes /\ row[p].retries < MaxRetries
               /\ row[p].status = "processed" \/ Counts(run[r], p)
<1>1. p \in Purchase /\ \A q \in Run : q = r
  BY RunFacts DEF Inv, Orderly, Alone
<1>2. row[p] \in Row /\ posts[p] \in Nat /\ crashes \in Nat /\ MaxRetries \in Nat
  BY <1>1, Bounds, ConstantsAssumption DEF Inv, TypeOK
<1>3. row[p].retries \in 0 .. MaxRetries
  BY <1>2 DEF Row
<1>4. run[r].pc \notin {"debit", "insert"} \/ run[r].at # p =>
        run[r].copy[p] = row[p] /\ row[p].status = "processing"
  BY DEF ParkedInv, CopyInv
<1>5. crashes = 0 /\ row[p].parked =>
        vt[p] \notin {"pending", "delivered"} \/ Knows(run[r], p)
  BY <1>1 DEF ParkedInv, ParkInv
<1>6. \/ posts[p] <= row[p].retries + crashes
      \/ /\ posts[p] <= row[p].retries + 1 + crashes /\ row[p].retries < MaxRetries
         /\ row[p].status = "processed" \/ Counts(run[r], p)
  BY <1>1 DEF ParkedInv, CountInv
<1>. QED  BY <1>1, <1>2, <1>3, <1>4, <1>5, <1>6

\* A run that goes on with p, or drops p, and writes nothing.
LEMMA ParkedGoesOn ==
  ASSUME Orderly, Inv, OnceInv, ParkedInv, NEW r \in Run, NEW p \in run[r].todo, NEW rec,
         run' = [run EXCEPT ![r] = rec], UNCHANGED <<row, create, vt, posts, crashes, gone>>,
         run[r].at = p \/ run[r].pc = "next", row[p].status # "failed",
         rec.todo = run[r].todo, rec.copy = run[r].copy,
         run[r].pc \in {"debit", "insert"} => rec.pc \in {"debit", "insert"} /\ rec.at = p,
         Knows(run[r], p) => Knows(rec, p), Counts(run[r], p) => Counts(rec, p)
  PROVE  ParkedInv'
<1>1. \A q \in Purchase \ {p} : row'[q] = row[q]
  OBVIOUS
<1>2. /\ rec.todo \subseteq run[r].todo
      /\ \A q \in rec.todo \ {p} : rec.copy[q] = run[r].copy[q]
  OBVIOUS
<1>3. p \in rec.todo => \/ rec.pc \in {"debit", "insert"} /\ rec.at = p
                        \/ rec.copy[p] = row'[p] /\ row'[p].status = "processing"
  <2>1. run[r].pc \notin {"debit", "insert"} =>
          run[r].copy[p] = row[p] /\ row[p].status = "processing"
    BY InHand
  <2>. QED  BY <2>1
<1>4. crashes = 0 /\ (row'[p].parked \/ row'[p].status = "failed") =>
        vt[p] \notin {"pending", "delivered"} \/ Knows(rec, p)
  <2>1. crashes = 0 /\ row[p].parked => vt[p] \notin {"pending", "delivered"} \/ Knows(run[r], p)
    BY InHand
  <2>. QED  BY <2>1
<1>5. \/ posts[p] <= row'[p].retries + crashes
      \/ /\ posts[p] <= row'[p].retries + 1 + crashes /\ row'[p].retries < MaxRetries
         /\ row'[p].status = "processed" \/ Counts(rec, p)
  <2>1. \/ posts[p] <= row[p].retries + crashes
        \/ /\ posts[p] <= row[p].retries + 1 + crashes /\ row[p].retries < MaxRetries
           /\ row[p].status = "processed" \/ Counts(run[r], p)
    BY InHand
  <2>. QED  BY <2>1
<1>. QED  BY <1>1, <1>2, <1>3, <1>4, <1>5, ParkedRun

LEMMA ParkedDrops ==
  ASSUME Orderly, Inv, OnceInv, ParkedInv, NEW r \in Run, NEW p \in run[r].todo,
         run' = [run EXCEPT ![r] = Proceed(@, p)], UNCHANGED <<row, create, vt, posts, crashes, gone>>,
         run[r].at = p \/ run[r].pc = "next", row[p].status # "failed", ~Knows(run[r], p), ~Counts(run[r], p)
  PROVE  ParkedInv'
<1>1. \A q \in Purchase \ {p} : row'[q] = row[q]
  OBVIOUS
<1>2. crashes = 0 /\ (row'[p].parked \/ row'[p].status = "failed") =>
        vt[p] \notin {"pending", "delivered"}
  <2>1. crashes = 0 /\ row[p].parked => vt[p] \notin {"pending", "delivered"} \/ Knows(run[r], p)
    BY InHand
  <2>. QED  BY <2>1
<1>3. \/ posts[p] <= row'[p].retries + crashes
      \/ /\ posts[p] <= row'[p].retries + 1 + crashes /\ row'[p].retries < MaxRetries
         /\ row'[p].status = "processed"
  <2>1. \/ posts[p] <= row[p].retries + crashes
        \/ /\ posts[p] <= row[p].retries + 1 + crashes /\ row[p].retries < MaxRetries
           /\ row[p].status = "processed" \/ Counts(run[r], p)
    BY InHand
  <2>. QED  BY <2>1
<1>. QED  BY <1>1, <1>2, <1>3, ParkedProceeds

LEMMA ParkedRunStep ==
  ASSUME Orderly, Inv, OnceInv, ParkedInv, NEW r \in Run, RunStep(r) PROVE ParkedInv'
<1>0. run[r] \in RunState /\ (\A q \in Run : q = r) /\ run[r].todo \subseteq Purchase /\ row \in [Purchase -> Row]
  BY RunFacts DEF Inv, Orderly, Alone, TypeOK
<1>1. CASE RunLoad(r)
  <2> DEFINE due == {p \in Purchase : row[p].status = "processing"}
             cp  == [p \in Purchase |-> IF p \in due THEN row[p] ELSE NoRow]
             rec == [IdleRun EXCEPT !.pc = "next", !.todo = due, !.copy = cp]
  <2>1. rec.todo = due /\ rec.pc = "next" /\ rec.copy = cp
    BY DEF IdleRun
  <2>2. run'[r] = rec /\ run[r].pc = "idle" /\ UNCHANGED <<row, create, vt, posts, crashes, gone>>
    BY <1>1 DEF RunLoad, Inv, TypeOK
  <2> HIDE DEF rec
  <2>3. CopyInv'
    BY <1>0, <2>1, <2>2 DEF CopyInv
  <2>4. \A p : ~Knows(run[r], p) /\ ~Counts(run[r], p)
    BY <2>2 DEF Knows, Counts, Inv, RunInv, Sound
  <2>. QED  BY <1>0, <2>2, <2>3, <2>4 DEF ParkedInv, FreshInv, ParkInv, CountInv
<1>2. ASSUME NEW p \in Purchase, RunTake(r, p) \/ RunPay(r, p) PROVE ParkedInv'
  <2>1. PICK pc \in {"requery", "paying"} : run' = [run EXCEPT ![r].pc = pc, ![r].at = p]
    BY <1>2 DEF RunTake, RunPay
  <2> DEFINE rec == [run[r] EXCEPT !.pc = pc, !.at = p]
  <2>2. rec.pc = pc /\ rec.todo = run[r].todo /\ rec.copy = run[r].copy
    BY <1>0 DEF RunState
  <2>3. run' = [run EXCEPT ![r] = rec]
    BY <2>1
  <2>4. UNCHANGED <<row, create, vt, posts, crashes, gone>> /\ p \in run[r].todo /\ run[r].pc = "next"
    BY <1>2 DEF RunTake, RunPay
  <2>5. ~Knows(run[r], p) /\ ~Counts(run[r], p)
    BY <2>4 DEF Knows, Counts, Inv, RunInv, Sound
  <2>6. row[p].status = "processing"
    BY <2>4, InHand
  <2> HIDE DEF rec
  <2>. QED  BY <2>2, <2>3, <2>4, <2>5, <2>6, ParkedGoesOn
<1>12. ASSUME NEW p \in Purchase, RunSkip(r, p) PROVE ParkedInv'
  <2>1. /\ p \in run[r].todo /\ run[r].pc = "next"
        /\ run' = [run EXCEPT ![r] = Proceed(@, p)] /\ UNCHANGED <<row, create, vt, posts, crashes, gone>>
    BY <1>12 DEF RunSkip
  <2>2. ~Knows(run[r], p) /\ ~Counts(run[r], p)
    BY <2>1 DEF Knows, Counts, Inv, RunInv, Sound
  <2>3. row[p].status = "processing"
    BY <2>1, InHand
  <2>. QED  BY <2>1, <2>2, <2>3, ParkedDrops
<1>3. ASSUME NEW p \in Purchase, RunGiveUp(r, p) PROVE ParkedInv'
  <2>1. /\ p \in run[r].todo /\ run[r].pc = "next" /\ run[r].copy[p].parked
        /\ run' = [run EXCEPT ![r] = Proceed(@, p)] /\ UNCHANGED <<create, vt, posts, crashes, gone>>
        /\ row' = [row EXCEPT ![p] = [run[r].copy[p] EXCEPT !.status = "failed", !.parked = FALSE]]
    BY <1>3 DEF RunGiveUp
  <2>2. ~Knows(run[r], p) /\ ~Counts(run[r], p)
    BY <2>1 DEF Knows, Counts, Inv, RunInv, Sound
  <2>3. run[r].copy[p] = row[p] /\ row[p].status = "processing" /\ row[p] \in Row
    BY <2>1, InHand
  <2>4. row'[p].retries = row[p].retries /\ \A q \in Purchase \ {p} : row'[q] = row[q]
    BY <1>0, <2>1, <2>3 DEF Row
  <2>5. row'[p].parked = FALSE /\ (crashes = 0 => vt[p] \notin {"pending", "delivered"})
    BY <1>0, <2>1, <2>2, <2>3, InHand DEF Row
  <2>6. posts[p] <= row'[p].retries + crashes
    BY <2>1, <2>2, <2>3, <2>4, InHand
  <2>. QED  BY <2>1, <2>4, <2>5, <2>6, ParkedProceeds
<1>4. CASE RunAccepted(r) \/ RunRefused(r)
  <2>1. run[r].pc = "paying" /\ run[r].reply \in {"accepted", "low", "refused"}
    BY <1>4 DEF RunAccepted, RunRefused
  <2>2. PICK p \in Purchase : p = run[r].at /\ p \in run[r].todo
    BY <2>1, BusyFacts DEF Busy
  <2>3. run[r].copy[p] = row[p] /\ row[p].status = "processing" /\ row[p] \in Row
    BY <2>1, <2>2, InHand
  <2>4. Copy(r) = row[p] /\ row[p].retries < MaxRetries /\ row[p].retries \in Nat
    BY <2>1, <2>2, <2>3, InHand DEF Copy, Inv, RunInv, Sound
  <2>5. /\ run' = [run EXCEPT ![r] = Proceed(@, p)] /\ UNCHANGED <<create, vt, posts, crashes, gone>>
        /\ \A q \in Purchase \ {p} : row'[q] = row[q]
    BY <1>0, <1>4, <2>2 DEF RunAccepted, RunRefused, RunNote
  <2>6. PICK flag \in BOOLEAN :
          /\ row' = [row EXCEPT ![p].parked = flag, ![p].retries = row[p].retries + 1]
          /\ flag => row[p].parked /\ run[r].reply # "accepted"
    <3>1. CASE RunAccepted(r)
      BY <2>2, <2>3, <2>4, <3>1 DEF RunAccepted, RunNote, Row
    <3>2. CASE RunRefused(r)
      BY <2>2, <2>3, <2>4, <3>2 DEF RunRefused, RunNote, Row, Orderly
    <3>. QED  BY <1>4, <3>1, <3>2
  <2>7. row'[p].parked = flag /\ row'[p].retries = row[p].retries + 1 /\ row'[p].status = "processing"
    BY <1>0, <2>3, <2>6 DEF Row
  <2>8. flag => ~Knows(run[r], p)
    BY <2>1, <2>6 DEF Knows
  <2>9. crashes = 0 /\ (row'[p].parked \/ row'[p].status = "failed") => vt[p] \notin {"pending", "delivered"}
    BY <2>2, <2>6, <2>7, <2>8, InHand
  <2>10. posts[p] <= row'[p].retries + crashes
    BY <2>2, <2>4, <2>7, InHand
  <2>. QED  BY <2>1, <2>2, <2>5, <2>9, <2>10, ParkedProceeds
<1>5. CASE RunError(r)
  <2>1. run[r].pc = "paying" /\ run[r].reply = "error" /\ UNCHANGED <<row, create, vt, posts, crashes, gone>>
    BY <1>5 DEF RunError
  <2>2. PICK p \in Purchase : p = run[r].at /\ p \in run[r].todo
    BY <2>1, BusyFacts DEF Busy
  <2>3. run' = [run EXCEPT ![r] = Proceed(@, p)]
    BY <1>5, <2>2 DEF RunError
  <2>4. ~Knows(run[r], p) /\ ~Counts(run[r], p)
    BY <2>1 DEF Knows, Counts
  <2>5. row[p].status = "processing"
    BY <2>1, <2>2, InHand
  <2>. QED  BY <2>1, <2>2, <2>3, <2>4, <2>5, ParkedDrops
<1>6. CASE RunDelivered(r)
  <2> DEFINE rec == [run[r] EXCEPT !.pc = "mark", !.reply = "none"]
  <2>1. run[r].pc = "paying" /\ run[r].reply = "delivered" /\ UNCHANGED <<row, create, vt, posts, crashes, gone>>
    BY <1>6 DEF RunDelivered
  <2>2. PICK p \in Purchase : p = run[r].at /\ p \in run[r].todo
    BY <2>1, BusyFacts DEF Busy
  <2>3. rec.pc = "mark" /\ rec.at = p /\ rec.todo = run[r].todo /\ rec.copy = run[r].copy
    BY <1>0, <2>2 DEF RunState
  <2>4. run' = [run EXCEPT ![r] = rec]
    BY <1>6 DEF RunDelivered
  <2>5. Knows(rec, p) /\ Counts(rec, p)
    BY <2>3 DEF Knows, Counts
  <2>6. row[p].status = "processing"
    BY <2>1, <2>2, InHand
  <2> HIDE DEF rec
  <2>. QED  BY <2>1, <2>2, <2>3, <2>4, <2>5, <2>6, ParkedGoesOn
<1>7. ASSUME NEW answer \in Requery, RunRequery(r, answer) PROVE ParkedInv'
  <2>1. run[r].pc = "requery" /\ UNCHANGED <<create, vt, posts, crashes, gone>> /\ answer # "error"
    BY <1>7 DEF RunRequery, Orderly
  <2>2. PICK p \in Purchase : p = run[r].at /\ p \in run[r].todo
    BY <2>1, BusyFacts DEF Busy
  <2>3. run[r].copy[p] = row[p] /\ row[p].status = "processing" /\ row[p] \in Row
    BY <2>1, <2>2, InHand
  <2>4. row' = row
    <3>1. Copy(r) = row[p]
      BY <2>2, <2>3 DEF Copy
    <3>2. row' = row \/ row' = [row EXCEPT ![p].parked = row[p].parked, ![p].retries = row[p].retries]
      BY <1>7, <2>2, <3>1 DEF RunRequery
    <3>. QED  BY <1>0, <2>2, <2>3, <3>2 DEF Row
  <2>5. ~Knows(run[r], p) /\ ~Counts(run[r], p)
    BY <2>1 DEF Knows, Counts, Inv, RunInv, Sound
  <2>6. CASE run' = [run EXCEPT ![r] = Proceed(@, p)]
    BY <2>1, <2>2, <2>3, <2>4, <2>5, <2>6, ParkedDrops
  <2>7. CASE run' = [run EXCEPT ![r].pc = "mark"]
    <3> DEFINE rec == [run[r] EXCEPT !.pc = "mark"]
    <3>1. rec.pc = "mark" /\ rec.at = p /\ rec.todo = run[r].todo /\ rec.copy = run[r].copy
      BY <1>0, <2>2 DEF RunState
    <3>2. run' = [run EXCEPT ![r] = rec]
      BY <2>7
    <3>3. Knows(rec, p) /\ Counts(rec, p)
      BY <3>1 DEF Knows, Counts
    <3> HIDE DEF rec
    <3>. QED  BY <2>1, <2>2, <2>3, <2>4, <3>1, <3>2, <3>3, ParkedGoesOn
  <2>. QED  BY <1>7, <2>1, <2>2, <2>6, <2>7 DEF RunRequery
<1>8. CASE RunMark(r)
  <2> DEFINE rec  == [run[r] EXCEPT !.pc = "debit"]
             mark == [Copy(r) EXCEPT !.status = "processed", !.parked = FALSE]
  <2>1. PICK p \in Purchase : p = run[r].at /\ p \in run[r].todo
    BY <1>8, BusyFacts DEF RunMark, Busy
  <2>2. run[r].copy[p] = row[p] /\ row[p] \in Row /\ Copy(r) = row[p]
    BY <1>8, <2>1, InHand DEF RunMark, Copy
  <2>3. rec.pc = "debit" /\ rec.at = p /\ rec.todo = run[r].todo /\ rec.copy = run[r].copy
    BY <1>0, <2>1 DEF RunState
  <2>4. /\ run' = [run EXCEPT ![r] = rec] /\ row' = [row EXCEPT ![p] = mark]
        /\ UNCHANGED <<create, vt, posts, crashes, gone>>
    BY <1>8, <2>1 DEF RunMark
  <2>5. mark.status = "processed" /\ mark.parked = FALSE /\ mark.retries = row[p].retries
    BY <2>2 DEF Row
  <2> HIDE DEF rec, mark
  <2>6. row'[p] = mark /\ \A q \in Purchase \ {p} : row'[q] = row[q]
    BY <1>0, <2>4
  <2>7. /\ row'[p].status = "processed" /\ row'[p].parked = FALSE /\ row'[p].retries = row[p].retries
    BY <2>5, <2>6
  <2>8. \/ posts[p] <= row'[p].retries + crashes
        \/ /\ posts[p] <= row'[p].retries + 1 + crashes /\ row'[p].retries < MaxRetries
           /\ row'[p].status = "processed" \/ Counts(rec, p)
    BY <2>1, <2>7, InHand
  <2>. QED  BY <2>1, <2>3, <2>4, <2>6, <2>7, <2>8, ParkedRun
<1>9. CASE RunDebit(r) \/ RunInsert(r)
  <2>1. run[r].pc \in {"debit", "insert"} /\ UNCHANGED <<row, create, vt, posts, crashes, gone>>
    BY <1>9 DEF RunDebit, RunInsert
  <2>2. PICK p \in Purchase : p = run[r].at /\ p \in run[r].todo
    BY <2>1, BusyFacts DEF Busy
  <2>3. row[p].status = "processed"
    BY <2>1, <2>2 DEF OnceInv
  <2>4. ~Knows(run[r], p) /\ ~Counts(run[r], p)
    BY <2>1 DEF Knows, Counts, Inv, RunInv, Sound
  <2>5. CASE run' = [run EXCEPT ![r] = Proceed(@, p)]
    BY <2>1, <2>2, <2>3, <2>4, <2>5, ParkedDrops
  <2>6. CASE run' = [run EXCEPT ![r].pc = "insert"]
    <3> DEFINE rec == [run[r] EXCEPT !.pc = "insert"]
    <3>1. rec.pc = "insert" /\ rec.at = p /\ rec.todo = run[r].todo /\ rec.copy = run[r].copy
      BY <1>0, <2>2 DEF RunState
    <3>2. run' = [run EXCEPT ![r] = rec]
      BY <2>6
    <3> HIDE DEF rec
    <3>. QED  BY <2>1, <2>2, <2>3, <2>4, <3>1, <3>2, ParkedGoesOn
  <2>. QED  BY <1>9, <2>2, <2>5, <2>6 DEF RunDebit, RunInsert
<1>. QED  BY <1>1, <1>2, <1>3, <1>4, <1>5, <1>6, <1>7, <1>8, <1>9, <1>12 DEF RunStep

LEMMA ParkedCreate ==
  ASSUME Orderly, Inv, OnceInv, ParkedInv, NEW p \in Purchase, CreateStep(p) PROVE ParkedInv'
<1>1. create[p].pc # "done" /\ UNCHANGED <<run, vt, posts, crashes, gone>>
  BY DEF CreateStep, CreateCheck, CreateSave, CreateDelivered, CreateAccepted, CreateParked, CreateFailed, CreateEnd
<1>2. /\ row[p] \in Row /\ row[p].status \in {"none", "pending"} /\ ~row[p].parked /\ posts[p] = 0
      /\ create[p] \in Handler /\ crashes \in Nat /\ row[p].retries \in Nat
      /\ create[p].reply \notin {"accepted", "delivered"} => vt[p] = "unknown"
  BY <1>1 DEF OnceInv, ParkedInv, FreshInv, Inv, TypeOK, Row
<1>3. \A r \in Run : p \notin run[r].todo /\ run[r].todo \subseteq Purchase
  BY <1>1, RunFacts DEF OnceInv, Inv
<1>4. \A q \in Purchase \ {p} : row'[q] = row[q] /\ create'[q] = create[q]
  BY DEF CreateStep, CreateCheck, CreateSave, CreateDelivered, CreateAccepted, CreateParked, CreateFailed, CreateEnd,
         Inv, TypeOK
<1>5. /\ row'[p].retries \in Nat /\ row'[p].status # "failed"
      /\ row'[p].parked => vt[p] = "unknown"
      /\ create'[p].pc # "done" => ~row'[p].parked /\ (create'[p].reply = create[p].reply)
  <2>1. CASE CreateCheck(p) \/ CreateSave(p)
    <3>1. CASE CreateCheck(p)
      BY <1>2, <3>1 DEF CreateCheck, Inv, TypeOK, Handler
    <3>2. CASE CreateSave(p)
      BY <1>2, <3>2 DEF CreateSave, Inv, TypeOK, Row, Handler
    <3>. QED  BY <2>1, <3>1, <3>2
  <2>2. CASE CreateDelivered(p) \/ CreateAccepted(p)
    BY <1>2, <2>2 DEF CreateDelivered, CreateAccepted, CreateEnd, NoRow, Inv, TypeOK
  <2>3. CASE CreateParked(p)
    BY <1>2, <2>3 DEF CreateParked, CreateEnd, Inv, TypeOK
  <2>4. CASE CreateFailed(p)
    BY <1>2, <2>4 DEF CreateFailed, CreateEnd, Inv, TypeOK
  <2>. QED  BY <2>1, <2>2, <2>3, <2>4 DEF CreateStep
<1>6. CopyInv'
  BY <1>1, <1>3, <1>4 DEF ParkedInv, CopyInv
<1>7. FreshInv'
  BY <1>1, <1>2, <1>4, <1>5 DEF ParkedInv, FreshInv
<1>8. ParkInv'
  BY <1>1, <1>2, <1>4, <1>5 DEF ParkedInv, ParkInv
<1>9. CountInv'
  BY <1>1, <1>2, <1>4, <1>5 DEF ParkedInv, CountInv
<1>. QED  BY <1>6, <1>7, <1>8, <1>9 DEF ParkedInv

\* VTPass answers the handler or the run that asks.
LEMMA ParkedAnswer ==
  ASSUME Orderly, Inv, OnceInv, ParkedInv, NEW a \in Purchase \cup Run,
         VtTake(a) \/ VtRefuse(a) \/ VtUnreached(a)
  PROVE  ParkedInv'
<1>0. a \in Paying /\ UNCHANGED <<row, debit, crashes, gone>>
  BY DEF VtTake, VtRefuse, VtUnreached
<1>1. PICK reply \in PayReply :
        /\ IF a \in Run THEN run' = [run EXCEPT ![a].reply = reply] /\ UNCHANGED create
                        ELSE create' = [create EXCEPT ![a].reply = reply] /\ UNCHANGED run
        /\ \/ /\ vt[PurchaseOf(a)] = "unknown" /\ reply \in {"accepted", "delivered"}
              /\ \E v : vt' = [vt EXCEPT ![PurchaseOf(a)] = v]
              /\ Reached(a)
           \/ UNCHANGED vt /\ reply \in {"low", "refused"} /\ Reached(a)
           \/ UNCHANGED <<vt, posts>> /\ reply = "error"
  <2>1. \A reply : Answer(a, reply) =>
          IF a \in Run THEN run' = [run EXCEPT ![a].reply = reply] /\ UNCHANGED create
                       ELSE create' = [create EXCEPT ![a].reply = reply] /\ UNCHANGED run
    BY DEF Answer, Orderly
  <2>2. CASE VtTake(a)
    BY <2>1, <2>2 DEF VtTake, PayReply
  <2>3. CASE VtRefuse(a)
    BY <2>1, <2>3 DEF VtRefuse, PayReply
  <2>4. CASE VtUnreached(a)
    BY <2>1, <2>4 DEF VtUnreached, PayReply
  <2>. QED  BY <2>2, <2>3, <2>4
<1>2. CASE a \in Run
  <2>0. /\ run[a].pc = "paying" /\ run[a].reply = "none" /\ (\A q \in Run : q = a)
        /\ run[a] \in RunState
    BY <1>0, <1>2, ConstantsAssumption, RunFacts DEF Paying, Orderly, Alone, Inv
  <2>1. PICK p \in Purchase : p = run[a].at /\ p \in run[a].todo
    BY <1>2, <2>0, BusyFacts DEF Busy
  <2>2. /\ row[p].status = "processing" /\ create[p].pc = "done" /\ row[p].retries < MaxRetries
        /\ row[p].retries \in Nat /\ posts[p] \in Nat /\ crashes \in Nat
    BY <1>2, <2>0, <2>1, InHand DEF OnceInv, Inv, RunInv, Sound, Copy
  <2>3. ~Knows(run[a], p) /\ ~Counts(run[a], p) /\ \A q \in Purchase \ {p} : ~Knows(run[a], q) /\ ~Counts(run[a], q)
    BY <2>0, <2>1 DEF Knows, Counts
  <2> DEFINE rec == [run[a] EXCEPT !.reply = reply]
  <2>4. /\ rec.pc = "paying" /\ rec.at = p /\ rec.todo = run[a].todo /\ rec.copy = run[a].copy
        /\ rec.reply = reply
    BY <2>0, <2>1 DEF RunState
  <2>5. run'[a] = rec /\ UNCHANGED <<create, row, crashes, gone>>
    BY <1>0, <1>1, <1>2 DEF Inv, TypeOK
  <2>6. PurchaseOf(a) = p
    BY <1>2, <2>1 DEF PurchaseOf
  <2>7. /\ \A q \in Purchase \ {p} : vt'[q] = vt[q] /\ posts'[q] = posts[q]
        /\ vt'[p] = vt[p] \/ reply \in {"accepted", "delivered"}
    BY <1>1, <1>2, <2>1, <2>6 DEF Reached, Inv, TypeOK
  <2>8. /\ posts'[p] = posts[p] \/ (posts'[p] <= posts[p] + 1 /\ reply \in {"accepted", "delivered", "low", "refused"})
        /\ posts'[p] \in Nat
    BY <1>1, <1>2, <2>1, <2>2, Bounds DEF Reached, More, Inv, TypeOK
  <2> HIDE DEF rec
  <2>9. CopyInv'
    BY <2>0, <2>4, <2>5 DEF ParkedInv, CopyInv
  <2>10. FreshInv'
    BY <2>2, <2>5, <2>7 DEF ParkedInv, FreshInv
  <2>11. ParkInv'
    <3> SUFFICES ASSUME NEW q \in Purchase, crashes = 0, row[q].parked \/ row[q].status = "failed"
                 PROVE  vt'[q] \notin {"pending", "delivered"} \/ Knows(rec, q)
      BY <1>2, <2>0, <2>5 DEF ParkInv
    <3>1. ~Knows(run[a], q)
      BY <2>3
    <3>2. vt[q] \notin {"pending", "delivered"}
      BY <2>0, <3>1 DEF ParkedInv, ParkInv
    <3>3. reply \in {"accepted", "delivered"} => Knows(rec, p)
      BY <2>4 DEF Knows
    <3>. QED  BY <2>7, <3>2, <3>3
  <2>12. CountInv'
    <3> SUFFICES ASSUME NEW q \in Purchase
                 PROVE  \/ posts'[q] <= row[q].retries + crashes
                        \/ /\ posts'[q] <= row[q].retries + 1 + crashes /\ row[q].retries < MaxRetries
                           /\ row[q].status = "processed" \/ Counts(rec, q)
      BY <1>2, <2>0, <2>5 DEF CountInv
    <3>1. \/ posts[q] <= row[q].retries + crashes
          \/ /\ posts[q] <= row[q].retries + 1 + crashes /\ row[q].retries < MaxRetries
             /\ row[q].status = "processed"
      BY <2>0, <2>3 DEF ParkedInv, CountInv
    <3>2. CASE q # p
      BY <2>7, <3>1, <3>2
    <3>3. CASE q = p
      BY <2>2, <2>4, <2>8, <3>1, <3>3 DEF Counts
    <3>. QED  BY <3>2, <3>3
  <2>. QED  BY <2>9, <2>10, <2>11, <2>12 DEF ParkedInv
<1>3. CASE a \notin Run
  <2>0. /\ a \in Purchase /\ create[a].pc = "paying" /\ PurchaseOf(a) = a
        /\ create' = [create EXCEPT ![a].reply = reply] /\ UNCHANGED <<run, row, crashes, gone>>
    BY <1>0, <1>1, <1>3 DEF Paying, PurchaseOf
  <2>1. posts' = posts
    BY <1>1, <1>3 DEF Reached
  <2>2. /\ create'[a].pc = "paying" /\ create'[a].reply = reply
        /\ \A q \in Purchase \ {a} : create'[q] = create[q]
    BY <2>0 DEF Inv, TypeOK, Handler
  <2>3. /\ ~row[a].parked /\ row[a].status # "failed"
        /\ create[a].reply \notin {"accepted", "delivered"} => vt[a] = "unknown"
    BY <2>0 DEF ParkedInv, FreshInv, OnceInv
  <2>4. create[a].reply = "none"
    BY <1>0, <1>3, <2>0 DEF Paying
  <2>5. (\A q \in Purchase \ {a} : vt'[q] = vt[q]) /\ (vt'[a] = vt[a] \/ reply \in {"accepted", "delivered"})
    BY <1>1, <2>0 DEF Inv, TypeOK
  <2>6. CopyInv' /\ CountInv'
    BY <2>0, <2>1 DEF ParkedInv, CopyInv, CountInv
  <2>7. FreshInv'
    BY <2>0, <2>1, <2>2, <2>3, <2>4, <2>5 DEF ParkedInv, FreshInv
  <2>8. ParkInv'
    BY <2>0, <2>3, <2>5 DEF ParkedInv, ParkInv
  <2>. QED  BY <2>6, <2>7, <2>8 DEF ParkedInv
<1>. QED  BY <1>2, <1>3

LEMMA ParkedCrash == ASSUME Orderly, Inv, OnceInv, ParkedInv, Crash PROVE ParkedInv'
<1>1. /\ crashes' = crashes + 1 /\ crashes \in Nat /\ UNCHANGED <<row, debit, posts>>
      /\ \A r \in Run : run'[r].todo = {} /\ run'[r].pc = "idle"
  BY ConstantsAssumption DEF Crash, IdleRun, Inv, TypeOK
<1>2. \A p \in Purchase : create'[p].pc # "done" => create[p].pc = "idle" /\ create'[p] = create[p]
  BY DEF Crash
<1>3. \A a \in Paying : PurchaseOf(a) \in Purchase => create[PurchaseOf(a)].pc # "idle"
  <2> SUFFICES ASSUME NEW a \in Paying PROVE create[PurchaseOf(a)].pc # "idle"
    OBVIOUS
  <2>1. CASE a \in Run
    <3>1. run[a].pc = "paying"
      BY <2>1, ConstantsAssumption DEF Paying
    <3>2. run[a].at \in run[a].todo
      BY <2>1, <3>1, BusyFacts DEF Busy
    <3>. QED  BY <2>1, <3>2 DEF PurchaseOf, OnceInv
  <2>2. CASE a \notin Run
    BY <2>2 DEF PurchaseOf, Paying
  <2>. QED  BY <2>1, <2>2
<1>4. \A p \in Purchase : create[p].pc = "idle" => vt'[p] = vt[p]
  BY <1>3 DEF Crash
<1>5. CopyInv' /\ ParkInv'
  BY <1>1 DEF CopyInv, ParkInv
<1>6. FreshInv'
  BY <1>1, <1>2, <1>4 DEF ParkedInv, FreshInv
<1>7. CountInv'
  <2>1. \A p \in Purchase : posts[p] \in Nat /\ row[p].retries \in Nat
    BY Bounds, ConstantsAssumption DEF Inv, TypeOK, Row
  <2>. QED  BY <1>1, <2>1 DEF ParkedInv, CountInv
<1>. QED  BY <1>5, <1>6, <1>7 DEF ParkedInv

LEMMA ParkedNext == Orderly /\ Inv /\ OnceInv /\ ParkedInv /\ [Next]_vars => ParkedInv'
<1> SUFFICES ASSUME Orderly, Inv, OnceInv, ParkedInv, [Next]_vars PROVE ParkedInv'
  OBVIOUS
<1>1. CASE Leave \/ UNCHANGED vars
  BY <1>1 DEF Leave, vars, ParkedInv, CopyInv, FreshInv, ParkInv, CountInv
<1>2. ASSUME NEW p \in Purchase, VtSettle(p) PROVE ParkedInv'
  <2>1. /\ vt[p] = "pending" /\ UNCHANGED <<row, create, run, posts, crashes, gone>>
        /\ vt'[p] # "unknown" /\ \A q \in Purchase \ {p} : vt'[q] = vt[q]
    BY <1>2 DEF VtSettle, Inv, TypeOK
  <2>2. CopyInv' /\ CountInv'
    BY <2>1 DEF ParkedInv, CopyInv, CountInv
  <2>3. FreshInv' /\ ParkInv'
    BY <2>1 DEF ParkedInv, FreshInv, ParkInv
  <2>. QED  BY <2>2, <2>3 DEF ParkedInv
<1>. QED  BY <1>1, <1>2, ParkedCreate, ParkedRunStep, ParkedAnswer, ParkedCrash DEF Next

\* A parked purchase is re-initiated MAX_PURCHASE_RETRIES times at most, not
\* counting what a restart cut off, and one that retryPurchaseInitiation gives up
\* was neither charged nor, unless the process restarted, taken by VTPass; as
\* long as runs do not overlap, answers arrive and updates land in order.
THEOREM GivingUpSafe ==
  ASSUME Orderly
  PROVE  Spec => []GivingUpIsSafe
<1>1. Inv /\ OnceInv /\ ParkedInv => GivingUpIsSafe
  <2> SUFFICES ASSUME Inv, OnceInv, ParkedInv PROVE GivingUpIsSafe
    OBVIOUS
  <2>1. ReinitiationsBounded
    <3> SUFFICES ASSUME NEW p \in Purchase PROVE posts[p] <= MaxRetries + crashes
      BY DEF ReinitiationsBounded
    <3>1. posts[p] \in Nat /\ row[p].retries \in 0 .. MaxRetries /\ crashes \in Nat /\ MaxRetries \in Nat
      BY Bounds, ConstantsAssumption DEF Inv, TypeOK, Row
    <3>. QED  BY <3>1 DEF ParkedInv, CountInv
  <2>2. FailedNotDelivered
    <3> SUFFICES ASSUME NEW p \in Purchase, row[p].status = "failed", crashes = 0
                 PROVE  vt[p] \notin {"pending", "delivered"}
      BY DEF FailedNotDelivered
    <3>1. ASSUME NEW r \in Run, Knows(run[r], p) PROVE FALSE
      <4>1. run[r].pc \in {"mark", "paying"} /\ run[r].at = p
        BY <3>1 DEF Knows, Inv, RunInv, Sound
      <4>2. p \in run[r].todo
        BY <4>1, BusyFacts DEF Busy
      <4>. QED  BY <4>1, <4>2 DEF ParkedInv, CopyInv
    <3>. QED  BY <3>1 DEF ParkedInv, ParkInv
  <2>3. FailedNotCharged
    BY DEF FailedNotCharged, OnceInv, Inv, TypeOK
  <2>. QED  BY <2>1, <2>2, <2>3 DEF GivingUpIsSafe
<1>2. Spec => []OnceInv
  BY OnceInit, OnceNext, Invariance, PTL DEF Spec, Orderly
<1>3. Spec => []ParkedInv
  BY <1>2, ParkedInit, ParkedNext, Invariance, PTL DEF Spec
<1>. QED  BY <1>1, <1>2, <1>3, Invariance, PTL

-----------------------------------------------------------------------------
(* Chains that keep balances (Treasury).                                   *)

SweepPC == {"gas", "fund", "move", "hook"}
AskPC   == {"check", "pay", "row"}
Sweeps  == [pc : SweepPC, child : Wallet, amount : Nat, cost : Cost, gift : Nat]
Asks    == [pc : AskPC, id : Nat, coin : BOOLEAN, amount : Amount, cost : Cost]
Requests == Sweeps \cup Asks \cup {Accounts!Idle}

\* A sweep of the coin has more in hand than its cost and the buffer; a withdrawal
\* has been asked for, and is carried out when it comes to its row.
Backed(r) ==
  /\ r.pc \in SweepPC /\ r.child \notin Token => r.amount > r.cost + Buffer[chain]
  /\ r.pc \in AskPC => r.id \in 1 .. asked
  /\ r.pc = "row" => r.id \in paid

RequestsInv ==
  /\ request \in [Run -> Requests]
  /\ \A s \in Run : Backed(request[s])

AmountsTyped ==
  /\ chain \in AccountChain /\ coins \in Nat /\ tokens \in Nat
  /\ funds \in [Wallet -> Nat] /\ gas \in [Wallet -> Nat] /\ moved \in [Wallet -> Nat]
  /\ deposited \in [Wallet -> Nat] /\ credited \in [Wallet -> Nat]
  /\ deposits \in Nat /\ asked \in Nat /\ asked + deposits <= MaxEvents
  /\ paid \subseteq 1 .. asked /\ rows \subseteq paid

\* What the webhook of the sweep r is about to report of the wallet c.
Reports(r, c) == IF r.pc = "hook" /\ r.child = c THEN r.amount ELSE 0
Reported(c) == SumFunctionOnSet([s \in Run |-> Reports(request[s], c)], Run)

\* What a user is credited, is about to be, or still has there came in, or is a
\* buffer that was counted again.
CreditsInv ==
  chain \notin Unsure =>
    \A c \in Wallet : credited[c] + Reported(c) + funds[c] <= deposited[c] + moved[c] * Buffer[chain]

AccountsInv == AmountsTyped /\ RequestsInv /\ CreditsInv

LEMMA SweepFacts ==
  ASSUME RequestsInv, NEW s \in Run, request[s].pc \in SweepPC
  PROVE  /\ request[s] \in Sweeps
         /\ request[s].child \in Wallet /\ request[s].amount \in Nat /\ request[s].gift \in Nat
         /\ request[s].cost \in Cost /\ request[s].cost \in Nat
         /\ Accounts!My(s) = request[s].child
         /\ request[s].child \notin Token => request[s].amount > request[s].cost + Buffer[chain]
<1>1. request[s] \in Requests /\ Backed(request[s])
  BY DEF RequestsInv
<1>2. request[s] \in Sweeps
  BY <1>1 DEF Requests, Asks, Accounts!Idle, SweepPC, AskPC
<1>. QED  BY <1>1, <1>2, AccountsAssumption DEF Sweeps, Backed, Accounts!My

LEMMA AskFacts ==
  ASSUME RequestsInv, NEW s \in Run, request[s].pc \in AskPC
  PROVE  /\ request[s] \in Asks
         /\ request[s].id \in 1 .. asked /\ request[s].amount \in Nat /\ request[s].cost \in Nat
<1>1. request[s] \in Requests /\ Backed(request[s])
  BY DEF RequestsInv
<1>2. request[s] \in Asks
  BY <1>1 DEF Requests, Sweeps, Accounts!Idle, SweepPC, AskPC
<1>. QED  BY <1>1, <1>2, AccountsAssumption DEF Asks, Backed

\* A request moves on: what it becomes is backed, and the others stay so.
LEMMA RequestMoves ==
  ASSUME RequestsInv, NEW s \in Run, NEW r \in Requests, Backed(r)',
         request' = [request EXCEPT ![s] = r],
         chain' = chain, asked \in Nat, asked' \in Nat, asked <= asked', paid \subseteq paid'
  PROVE  RequestsInv'
<1>1. request \in [Run -> Requests]
  BY DEF RequestsInv
<1>2. request' \in [Run -> Requests]
  BY <1>1
<1>3. ASSUME NEW t \in Run PROVE Backed(request[t])'
  <2>1. CASE t = s
    BY <1>1, <2>1
  <2>2. CASE t # s
    <3>1. request'[t] = request[t] /\ Backed(request[t])
      BY <1>1, <2>2 DEF RequestsInv
    <3>. QED  BY <3>1 DEF Backed
  <2>. QED  BY <2>1, <2>2
<1>. QED  BY <1>2, <1>3 DEF RequestsInv

LEMMA IdleBacked == Accounts!Idle \in Requests /\ Backed(Accounts!Idle)'
BY DEF Requests, Accounts!Idle, Backed, SweepPC, AskPC

LEMMA RequestEnds ==
  ASSUME RequestsInv, NEW s \in Run, Accounts!Done(s),
         chain' = chain, asked \in Nat, asked' = asked, paid' = paid
  PROVE  RequestsInv'
<1>1. asked' \in Nat /\ asked <= asked' /\ paid \subseteq paid'
  OBVIOUS
<1>2. request' = [request EXCEPT ![s] = Accounts!Idle]
  BY DEF Accounts!Done
<1>. QED  BY <1>1, <1>2, IdleBacked, RequestMoves

\* A sweep goes on to another point.
LEMMA SweepGoes ==
  ASSUME RequestsInv, NEW s \in Run, request[s].pc \in SweepPC, NEW pc \in SweepPC, NEW g \in Nat,
         request' = [request EXCEPT ![s] = [request[s] EXCEPT !.pc = pc, !.gift = g]],
         chain' = chain, asked \in Nat, asked' = asked, paid' = paid
  PROVE  RequestsInv'
<1> DEFINE r == [request[s] EXCEPT !.pc = pc, !.gift = g]
<1>1. /\ request[s] \in Sweeps
      /\ request[s].child \notin Token => request[s].amount > request[s].cost + Buffer[chain]
  BY SweepFacts
<1>2. r \in Sweeps /\ r.pc = pc /\ r.child = request[s].child /\ r.amount = request[s].amount
      /\ r.cost = request[s].cost
  BY <1>1 DEF Sweeps
<1>3. pc \notin AskPC /\ pc # "row"
  BY DEF SweepPC, AskPC
<1>4. PICK q \in Sweeps : q = r
  BY <1>2
<1>. HIDE DEF r
<1>5. Backed(q)'
  BY <1>1, <1>2, <1>3, <1>4 DEF Backed
<1>6. q \in Requests /\ request' = [request EXCEPT ![s] = q]
  BY <1>4 DEF r, Requests
<1>7. asked' \in Nat /\ asked <= asked' /\ paid \subseteq paid'
  OBVIOUS
<1>. QED  BY <1>5, <1>6, <1>7, RequestMoves

\* The same, without a gift.
LEMMA SweepGoto ==
  ASSUME RequestsInv, NEW s \in Run, request[s].pc \in SweepPC, NEW pc \in SweepPC, Accounts!Goto(s, pc)
  PROVE  request' = [request EXCEPT ![s] = [request[s] EXCEPT !.pc = pc, !.gift = request[s].gift]]
<1>1. request[s] \in Sweeps
  BY SweepFacts
<1>2. [request[s] EXCEPT !.pc = pc] = [request[s] EXCEPT !.pc = pc, !.gift = request[s].gift]
  BY <1>1 DEF Sweeps
<1>3. request' = [request EXCEPT ![s] = [request[s] EXCEPT !.pc = pc]]
  BY DEF Accounts!Goto
<1>. QED  BY <1>2, <1>3

\* What a step of the request s changes of what is about to be reported.
LEMMA ReportedStep ==
  ASSUME RequestsInv, RequestsInv', NEW s \in Run, NEW c \in Wallet,
         \A t \in Run \ {s} : request'[t] = request[t]
  PROVE  /\ Reported(c) \in Nat /\ Reported(c)' \in Nat
         /\ Reports(request[s], c) \in Nat /\ Reports(request'[s], c) \in Nat
         /\ Reported(c)' + Reports(request[s], c) = Reported(c) + Reports(request'[s], c)
<1> DEFINE f == [t \in Run |-> Reports(request[t], c)]
           g == [t \in Run |-> Reports(request'[t], c)]
<1>1. ASSUME NEW t \in Run PROVE f[t] \in Nat /\ g[t] \in Nat
  <2>1. request[t].pc = "hook" => request[t].amount \in Nat
    BY SweepFacts DEF SweepPC
  <2>2. request'[t].pc = "hook" => request'[t].amount \in Nat
    <3>1. request'[t] \in Requests
      BY DEF RequestsInv
    <3>. QED  BY <3>1 DEF Requests, Sweeps, Asks, Accounts!Idle, AskPC
  <2>. QED  BY <2>1, <2>2 DEF Reports
<1>2. \A t \in Run \ {s} : g[t] = f[t]
  BY DEF Reports
<1>3. /\ f[s] = Reports(request[s], c) /\ g[s] = Reports(request'[s], c)
      /\ Reported(c) = SumFunctionOnSet(f, Run) /\ Reported(c)' = SumFunctionOnSet(g, Run)
  BY DEF Reported
<1>. HIDE DEF f, g
<1>4. SumFunctionOnSet(g, Run) + f[s] = SumFunctionOnSet(f, Run) + g[s]
  BY <1>1, <1>2, SpendingAssumption, SumChange
<1>5. SumFunctionOnSet(f, Run) \in Nat /\ SumFunctionOnSet(g, Run) \in Nat
  BY <1>1, SpendingAssumption, SumNat
<1>. QED  BY <1>1, <1>3, <1>4, <1>5

\* What a step of the request s takes out of one account of CreditsInv it puts
\* into another.
LEMMA CreditsStep ==
  ASSUME AmountsTyped, AmountsTyped', RequestsInv, RequestsInv', CreditsInv, NEW s \in Run,
         \A t \in Run \ {s} : request'[t] = request[t], chain' = chain,
         chain \notin Unsure =>
           \A c \in Wallet :
             credited'[c] + Reports(request'[s], c) + funds'[c] + deposited[c] + moved[c] * Buffer[chain]
               <= credited[c] + Reports(request[s], c) + funds[c] + deposited'[c] + moved'[c] * Buffer[chain]
  PROVE  CreditsInv'
<1> SUFFICES ASSUME chain \notin Unsure, NEW c \in Wallet
             PROVE  credited'[c] + Reported(c)' + funds'[c] <= deposited'[c] + moved'[c] * Buffer[chain]
  BY DEF CreditsInv
<1> DEFINE m == moved[c] * Buffer[chain]
           n == moved'[c] * Buffer[chain]
<1>1. /\ credited[c] \in Nat /\ funds[c] \in Nat /\ deposited[c] \in Nat /\ moved[c] \in Nat
      /\ credited'[c] \in Nat /\ funds'[c] \in Nat /\ deposited'[c] \in Nat /\ moved'[c] \in Nat
      /\ Buffer[chain] \in Nat
  BY AccountsAssumption DEF AmountsTyped
<1>2. m \in Nat /\ n \in Nat
  BY <1>1
<1>3. credited[c] + Reported(c) + funds[c] <= deposited[c] + m
  BY DEF CreditsInv
<1>4. credited'[c] + Reports(request'[s], c) + funds'[c] + deposited[c] + m
        <= credited[c] + Reports(request[s], c) + funds[c] + deposited'[c] + n
  OBVIOUS
<1>5. /\ Reported(c) \in Nat /\ Reported(c)' \in Nat
      /\ Reports(request[s], c) \in Nat /\ Reports(request'[s], c) \in Nat
      /\ Reported(c)' + Reports(request[s], c) = Reported(c) + Reports(request'[s], c)
  BY ReportedStep
<1> DEFINE a == Reported(c)
           b == Reported(c)'
           x == Reports(request[s], c)
           y == Reports(request'[s], c)
<1>. HIDE DEF m, n, a, b, x, y
<1>. QED  BY <1>1, <1>2, <1>3, <1>4, <1>5 DEF m, n, a, b, x, y

\* A step that neither moves, credits nor deposits, and reports nothing.
LEMMA CreditsRest ==
  ASSUME AccountsInv, AmountsTyped', RequestsInv', NEW s \in Run,
         \A t \in Run \ {s} : request'[t] = request[t], chain' = chain,
         chain \in Unsure \/ request'[s].pc # "hook",
         funds' = funds, moved' = moved, credited' = credited, deposited' = deposited
  PROVE  CreditsInv'
<1>0. AmountsTyped /\ RequestsInv /\ CreditsInv
  BY DEF AccountsInv
<1>1. ASSUME chain \notin Unsure, NEW c \in Wallet
      PROVE  credited'[c] + Reports(request'[s], c) + funds'[c] + deposited[c] + moved[c] * Buffer[chain]
               <= credited[c] + Reports(request[s], c) + funds[c] + deposited'[c] + moved'[c] * Buffer[chain]
  <2> DEFINE m == moved[c] * Buffer[chain]
  <2>1. moved[c] \in Nat /\ Buffer[chain] \in Nat
    BY <1>0, AccountsAssumption DEF AmountsTyped
  <2>2. m \in Nat
    BY <2>1
  <2>3. Reports(request'[s], c) = 0
    BY <1>1 DEF Reports
  <2>4. Reports(request[s], c) \in Nat
    BY <1>0, SweepFacts DEF Reports, SweepPC
  <2>5. credited[c] \in Nat /\ funds[c] \in Nat /\ deposited[c] \in Nat
    BY <1>0 DEF AmountsTyped
  <2>. HIDE DEF m
  <2>. QED  BY <2>2, <2>3, <2>4, <2>5 DEF m
<1>. QED  BY <1>0, <1>1, CreditsStep

\* Of the request s, and of the others, after its step.
LEMMA Moved ==
  ASSUME RequestsInv, NEW s \in Run, NEW r, request' = [request EXCEPT ![s] = r]
  PROVE  request'[s] = r /\ \A t \in Run \ {s} : request'[t] = request[t]
BY DEF RequestsInv

LEMMA LookInv == ASSUME AccountsInv, NEW s \in Run, Accounts!Look(s) PROVE AccountsInv'
<1>0. AmountsTyped /\ RequestsInv
  BY DEF AccountsInv
<1>1. PICK c \in Wallet, cost \in Cost :
        /\ c \notin Token => funds[c] > cost + Buffer[chain]
        /\ request' = [request EXCEPT ![s] =
             [pc |-> IF c \in Token /\ chain \in ToppedUp THEN "gas" ELSE "move",
              child |-> c, amount |-> funds[c], cost |-> cost, gift |-> 0]]
  BY DEF Accounts!Look
<1>2. PICK pc \in {"gas", "move"} : pc = IF c \in Token /\ chain \in ToppedUp THEN "gas" ELSE "move"
  OBVIOUS
<1>3. UNCHANGED <<chain, coins, tokens, funds, gas, moved, deposited, credited, deposits, asked, paid, rows>>
  BY DEF Accounts!Look, Accounts!master, Accounts!wallet, Accounts!users, Accounts!office
<1>4. AmountsTyped'
  BY <1>0, <1>3 DEF AmountsTyped
<1>5. funds[c] \in Nat
  BY <1>0 DEF AmountsTyped
<1>6. [pc |-> pc, child |-> c, amount |-> funds[c], cost |-> cost, gift |-> 0] \in Sweeps
  BY <1>5 DEF Sweeps, SweepPC
<1>7. PICK r \in Sweeps : r = [pc |-> pc, child |-> c, amount |-> funds[c], cost |-> cost, gift |-> 0]
  BY <1>6
<1>8. request' = [request EXCEPT ![s] = r] /\ r.pc # "hook"
  BY <1>1, <1>2, <1>7
<1>9. Backed(r)'
  <2>1. r.pc = pc /\ r.child = c /\ r.amount = funds[c] /\ r.cost = cost
    BY <1>7
  <2>. QED  BY <1>1, <1>3, <2>1 DEF Backed, AskPC
<1>10. r \in Requests /\ asked \in Nat /\ asked' \in Nat /\ asked <= asked' /\ paid \subseteq paid' /\ chain' = chain
  BY <1>0, <1>3 DEF Requests, AmountsTyped
<1>11. RequestsInv'
  BY <1>0, <1>8, <1>9, <1>10, RequestMoves
<1>12. CreditsInv'
  BY <1>0, <1>3, <1>4, <1>8, <1>11, CreditsRest, Moved
<1>. QED  BY <1>4, <1>11, <1>12 DEF AccountsInv

\* A request that ends, or a sweep that goes on short of its webhook, with no
\* more than the coins, the tokens and the gas changed.
LEMMA SweepRest ==
  ASSUME AccountsInv, NEW s \in Run,
         \/ Accounts!Done(s)
         \/ /\ request[s].pc \in SweepPC
            /\ \E pc \in SweepPC, g \in Nat :
                 /\ chain \in Unsure \/ pc # "hook"
                 /\ request' = [request EXCEPT ![s] = [request[s] EXCEPT !.pc = pc, !.gift = g]],
         coins' \in Nat, tokens' \in Nat, gas' \in [Wallet -> Nat],
         chain' = chain, funds' = funds, moved' = moved, deposited' = deposited, credited' = credited,
         deposits' = deposits, asked' = asked, paid' = paid, rows' = rows
  PROVE  AccountsInv'
<1>0. AmountsTyped /\ RequestsInv
  BY DEF AccountsInv
<1>1. AmountsTyped' /\ asked \in Nat
  BY <1>0 DEF AmountsTyped
<1>2. CASE Accounts!Done(s)
  <2>1. RequestsInv'
    BY <1>0, <1>1, <1>2, RequestEnds
  <2>2. request'[s] = Accounts!Idle /\ \A t \in Run \ {s} : request'[t] = request[t]
    BY <1>0, <1>2, Moved DEF Accounts!Done
  <2>3. request'[s].pc # "hook"
    <3>1. Accounts!Idle.pc = "idle"
      BY DEF Accounts!Idle
    <3>. QED  BY <2>2, <3>1
  <2>4. CreditsInv'
    BY <1>0, <1>1, <2>1, <2>2, <2>3, CreditsRest
  <2>. QED  BY <1>1, <2>1, <2>4 DEF AccountsInv
<1>3. CASE /\ request[s].pc \in SweepPC
           /\ \E pc \in SweepPC, g \in Nat :
                /\ chain \in Unsure \/ pc # "hook"
                /\ request' = [request EXCEPT ![s] = [request[s] EXCEPT !.pc = pc, !.gift = g]]
  <2>1. PICK pc \in SweepPC, g \in Nat :
          /\ chain \in Unsure \/ pc # "hook"
          /\ request' = [request EXCEPT ![s] = [request[s] EXCEPT !.pc = pc, !.gift = g]]
    BY <1>3
  <2>2. RequestsInv'
    BY <1>0, <1>1, <1>3, <2>1, SweepGoes
  <2>3. /\ request'[s] = [request[s] EXCEPT !.pc = pc, !.gift = g]
        /\ \A t \in Run \ {s} : request'[t] = request[t]
    BY <1>0, <2>1, Moved
  <2>4. request[s] \in Sweeps
    BY <1>0, <1>3, SweepFacts
  <2>5. request'[s].pc = pc
    BY <2>3, <2>4 DEF Sweeps
  <2>6. CreditsInv'
    BY <1>0, <1>1, <2>1, <2>2, <2>3, <2>5, CreditsRest
  <2>. QED  BY <1>1, <2>2, <2>6 DEF AccountsInv
<1>. QED  BY <1>2, <1>3

LEMMA GiftNat ==
  ASSUME NEW missing \in Nat
  PROVE  Accounts!TopUp(missing) \in Nat
<1>1. (missing * 3) \div 2 \in Nat
  OBVIOUS
<1>. QED  BY <1>1 DEF Accounts!TopUp

LEMMA CheckGasInv == ASSUME AccountsInv, NEW s \in Run, Accounts!CheckGas(s) PROVE AccountsInv'
<1> DEFINE gift == Accounts!TopUp(request[s].cost - gas[Accounts!My(s)])
<1>0. AmountsTyped /\ RequestsInv /\ request[s].pc \in SweepPC
  BY DEF AccountsInv, Accounts!CheckGas, Accounts!Is, SweepPC
<1>1. UNCHANGED <<chain, coins, tokens, funds, gas, moved, deposited, credited, deposits, asked, paid, rows>>
  BY DEF Accounts!CheckGas, Accounts!master, Accounts!wallet, Accounts!users, Accounts!office
<1>2. coins' \in Nat /\ tokens' \in Nat /\ gas' \in [Wallet -> Nat]
  BY <1>0, <1>1 DEF AmountsTyped
<1>3. request[s].cost \in Nat /\ request[s].gift \in Nat /\ gas[Accounts!My(s)] \in Nat
  BY <1>0, SweepFacts DEF AmountsTyped
<1>4. \/ Accounts!Goto(s, "move")
      \/ Accounts!Done(s)
      \/ /\ request[s].cost - gas[Accounts!My(s)] \in Nat
         /\ request' = [request EXCEPT ![s].pc = "fund", ![s].gift = gift]
  BY <1>3 DEF Accounts!CheckGas
<1>5. CASE Accounts!Goto(s, "move")
  <2>1. request' = [request EXCEPT ![s] = [request[s] EXCEPT !.pc = "move", !.gift = request[s].gift]]
    BY <1>0, <1>5, SweepGoto DEF SweepPC
  <2>2. "move" \in SweepPC
    BY DEF SweepPC
  <2>. QED  BY <1>0, <1>1, <1>2, <1>3, <2>1, <2>2, SweepRest
<1>6. CASE Accounts!Done(s)
  BY <1>1, <1>2, <1>6, SweepRest
<1>7. CASE /\ request[s].cost - gas[Accounts!My(s)] \in Nat
           /\ request' = [request EXCEPT ![s].pc = "fund", ![s].gift = gift]
  <2>1. PICK g \in Nat : g = gift
    BY <1>7, GiftNat
  <2>. HIDE DEF gift
  <2>2. request' = [request EXCEPT ![s] = [request[s] EXCEPT !.pc = "fund", !.gift = g]]
    BY <1>0, <1>7, <2>1 DEF RequestsInv
  <2>3. "fund" \in SweepPC
    BY DEF SweepPC
  <2>. QED  BY <1>0, <1>1, <1>2, <2>2, <2>3, SweepRest
<1>. QED  BY <1>4, <1>5, <1>6, <1>7

LEMMA FundInv == ASSUME AccountsInv, NEW s \in Run, Accounts!Fund(s) PROVE AccountsInv'
<1>0. AmountsTyped /\ RequestsInv /\ request[s].pc \in SweepPC
  BY DEF AccountsInv, Accounts!Fund, Accounts!Is, SweepPC
<1>1. UNCHANGED <<chain, tokens, funds, moved, deposited, credited, deposits, asked, paid, rows>>
  BY DEF Accounts!Fund, Accounts!users, Accounts!office
<1>2. request[s].child \in Wallet /\ request[s].gift \in Nat /\ Accounts!My(s) = request[s].child
  BY <1>0, SweepFacts
<1>3. coins \in Nat /\ tokens' \in Nat /\ gas \in [Wallet -> Nat]
  BY <1>0, <1>1 DEF AmountsTyped
<1>4. CASE Accounts!Done(s) /\ UNCHANGED <<coins, gas>>
  BY <1>1, <1>3, <1>4, SweepRest
<1>5. CASE /\ coins >= request[s].gift /\ coins' = coins - request[s].gift
           /\ gas' = [gas EXCEPT ![Accounts!My(s)] = @ + request[s].gift]
           /\ Accounts!Goto(s, "move")
  <2>1. coins' \in Nat
    BY <1>2, <1>3, <1>5
  <2>2. gas' \in [Wallet -> Nat]
    BY <1>2, <1>3, <1>5
  <2>3. request' = [request EXCEPT ![s] = [request[s] EXCEPT !.pc = "move", !.gift = request[s].gift]]
    BY <1>0, <1>5, SweepGoto DEF SweepPC
  <2>4. "move" \in SweepPC
    BY DEF SweepPC
  <2>. QED  BY <1>0, <1>1, <1>2, <1>3, <2>1, <2>2, <2>3, <2>4, SweepRest
<1>. QED  BY <1>4, <1>5 DEF Accounts!Fund

LEMMA MoveFailsInv ==
  ASSUME AccountsInv, NEW s \in Run, Accounts!Move(s), Accounts!MoveFails(s)
  PROVE  AccountsInv'
<1>0. AmountsTyped /\ RequestsInv /\ request[s].pc \in SweepPC
  BY DEF AccountsInv, Accounts!Move, Accounts!Is, SweepPC
<1>1. UNCHANGED <<chain, coins, tokens, funds, moved, deposited, credited, deposits, asked, paid, rows>>
  BY DEF Accounts!Move, Accounts!MoveFails, Accounts!master, Accounts!users, Accounts!office
<1>2. /\ request[s].child \in Wallet /\ request[s].gift \in Nat /\ request[s].cost \in Nat
      /\ coins' \in Nat /\ tokens' \in Nat /\ gas \in [Wallet -> Nat]
  BY <1>0, <1>1, SweepFacts DEF AmountsTyped
<1>3. gas' \in [Wallet -> Nat]
  <2>1. CASE gas' = gas
    BY <1>2, <2>1
  <2>2. CASE /\ gas[request[s].child] >= request[s].cost
             /\ gas' = [gas EXCEPT ![request[s].child] = @ - request[s].cost]
    <3>1. gas[request[s].child] - request[s].cost \in Nat
      BY <1>2, <2>2
    <3>. QED  BY <1>2, <2>2, <3>1
  <2>. QED  BY <2>1, <2>2 DEF Accounts!MoveFails
<1>4. CASE Accounts!Done(s)
  BY <1>1, <1>2, <1>3, <1>4, SweepRest
<1>5. CASE chain \in Unsure /\ Accounts!Goto(s, "hook")
  <2>1. request' = [request EXCEPT ![s] = [request[s] EXCEPT !.pc = "hook", !.gift = request[s].gift]]
    BY <1>0, <1>5, SweepGoto DEF SweepPC
  <2>2. "hook" \in SweepPC
    BY DEF SweepPC
  <2>. QED  BY <1>0, <1>1, <1>2, <1>3, <1>5, <2>1, <2>2, SweepRest
<1>. QED  BY <1>4, <1>5 DEF Accounts!MoveFails

LEMMA Distribute ==
  ASSUME NEW m \in Nat, NEW b \in Nat
  PROVE  (m + 1) * b = m * b + b /\ m * b \in Nat
OBVIOUS

LEMMA MoveDoneInv ==
  ASSUME AccountsInv, NEW s \in Run, Accounts!Move(s), Accounts!MoveDone(s)
  PROVE  AccountsInv'
<1>0. AmountsTyped /\ RequestsInv /\ CreditsInv /\ request[s].pc = "move" /\ request[s].pc \in SweepPC
  BY DEF AccountsInv, Accounts!Move, Accounts!Is, SweepPC
<1>1. PICK c \in Wallet, n \in Nat, k \in Cost :
        /\ c = request[s].child /\ n = request[s].amount /\ k = request[s].cost
        /\ k \in Nat
        /\ c \notin Token => n > k + Buffer[chain]
  BY <1>0, SweepFacts
<1>2. UNCHANGED <<chain, deposited, credited, deposits, asked, paid, rows>>
  BY DEF Accounts!Move, Accounts!users, Accounts!office
<1>3. /\ coins \in Nat /\ tokens \in Nat /\ Buffer[chain] \in Nat
      /\ funds \in [Wallet -> Nat] /\ gas \in [Wallet -> Nat] /\ moved \in [Wallet -> Nat]
  BY <1>0, AccountsAssumption DEF AmountsTyped
<1>4. funds[c] >= n /\ moved' = [moved EXCEPT ![c] = @ + 1]
  BY <1>1 DEF Accounts!MoveDone, Accounts!Covered
<1>5. /\ coins' \in Nat /\ tokens' \in Nat /\ gas' \in [Wallet -> Nat]
      /\ \/ funds' = [funds EXCEPT ![c] = @ - n]
         \/ funds' = [funds EXCEPT ![c] = @ - n + Buffer[chain]]
  <2>1. CASE c \in Token
    <3>1. /\ funds' = [funds EXCEPT ![c] = @ - n] /\ coins' = coins
          /\ tokens' = tokens + n
          /\ gas' = IF chain \in ToppedUp THEN [gas EXCEPT ![c] = @ - k] ELSE gas
          /\ chain \in ToppedUp => gas[c] >= k
      BY <1>1, <2>1 DEF Accounts!MoveDone, Accounts!Covered, Accounts!Sent
    <3>2. gas' \in [Wallet -> Nat]
      <4>1. CASE chain \in ToppedUp
        <5>1. gas[c] \in Nat /\ gas[c] >= k /\ k \in Nat
          BY <1>1, <1>3, <3>1, <4>1
        <5>2. gas[c] - k \in Nat
          BY <5>1
        <5>. QED  BY <1>3, <3>1, <4>1, <5>2
      <4>. QED  BY <1>3, <3>1, <4>1
    <3>. QED  BY <1>1, <1>3, <3>1, <3>2
  <2>2. CASE c \notin Token
    <3>1. /\ funds' = [funds EXCEPT ![c] = @ - n + Buffer[chain]] /\ gas' = gas
          /\ tokens' = tokens /\ coins' = coins + (n - k - Buffer[chain])
      BY <1>1, <2>2 DEF Accounts!MoveDone, Accounts!Sent
    <3>2. n - k - Buffer[chain] \in Nat
      <4>1. k \in Nat /\ n > k + Buffer[chain] /\ Buffer[chain] \in Nat
        BY <1>1, <1>3, <2>2
      <4>. QED  BY <4>1
    <3>. QED  BY <1>1, <1>3, <3>1, <3>2
  <2>. QED  BY <2>1, <2>2
<1>6. funds[c] - n \in Nat /\ funds[c] - n + Buffer[chain] \in Nat /\ moved[c] + 1 \in Nat
  BY <1>1, <1>3, <1>4
<1>7. funds' \in [Wallet -> Nat] /\ moved' \in [Wallet -> Nat]
  BY <1>3, <1>4, <1>5, <1>6
<1>8. AmountsTyped'
  BY <1>0, <1>2, <1>5, <1>7 DEF AmountsTyped
<1>9. RequestsInv' /\ (\A t \in Run \ {s} : request'[t] = request[t])
      /\ (request'[s].pc = "hook" => request'[s].child = c /\ request'[s].amount = n)
  <2>1. asked \in Nat
    BY <1>0 DEF AmountsTyped
  <2>2. CASE Accounts!Done(s)
    <3>1. RequestsInv'
      BY <1>0, <1>2, <2>1, <2>2, RequestEnds
    <3>2. request'[s] = Accounts!Idle /\ \A t \in Run \ {s} : request'[t] = request[t]
      BY <1>0, <2>2, Moved DEF Accounts!Done
    <3>3. Accounts!Idle.pc = "idle"
      BY DEF Accounts!Idle
    <3>. QED  BY <3>1, <3>2, <3>3
  <2>3. CASE Accounts!Goto(s, "hook")
    <3>1. "hook" \in SweepPC
      BY DEF SweepPC
    <3>2. request' = [request EXCEPT ![s] = [request[s] EXCEPT !.pc = "hook", !.gift = request[s].gift]]
      BY <1>0, <2>3, <3>1, SweepGoto
    <3>3. request[s].gift \in Nat /\ request[s] \in Sweeps
      BY <1>0, SweepFacts
    <3>4. RequestsInv'
      BY <1>0, <1>2, <2>1, <3>1, <3>2, <3>3, SweepGoes
    <3>5. /\ request'[s] = [request[s] EXCEPT !.pc = "hook", !.gift = request[s].gift]
          /\ \A t \in Run \ {s} : request'[t] = request[t]
      BY <1>0, <3>2, Moved
    <3>6. request'[s].child = c /\ request'[s].amount = n
      BY <1>1, <3>3, <3>5 DEF Sweeps
    <3>. QED  BY <3>4, <3>5, <3>6
  <2>. QED  BY <2>2, <2>3 DEF Accounts!MoveDone
<1>10. ASSUME NEW d \in Wallet
       PROVE  credited'[d] + Reports(request'[s], d) + funds'[d] + deposited[d] + moved[d] * Buffer[chain]
                <= credited[d] + Reports(request[s], d) + funds[d] + deposited'[d] + moved'[d] * Buffer[chain]
  <2> DEFINE m  == moved[d] * Buffer[chain]
             mm == moved'[d] * Buffer[chain]
  <2>1. Reports(request[s], d) = 0 /\ credited'[d] = credited[d] /\ deposited'[d] = deposited[d]
    BY <1>0, <1>2 DEF Reports
  <2>2. credited[d] \in Nat /\ deposited[d] \in Nat /\ funds[d] \in Nat /\ moved[d] \in Nat
    BY <1>0 DEF AmountsTyped
  <2>3. m \in Nat /\ (moved[d] + 1) * Buffer[chain] = m + Buffer[chain]
    BY <1>3, <2>2, Distribute
  <2>4. CASE d = c
    <3>1. Reports(request'[s], d) \in {0, n}
      BY <1>9, <2>4 DEF Reports
    <3>2. mm = m + Buffer[chain]
      <4>1. moved'[d] = moved[d] + 1
        BY <1>3, <1>4, <2>4
      <4>. HIDE DEF m
      <4>. QED  BY <2>3, <4>1
    <3>3. funds'[d] \in Nat /\ funds'[d] <= funds[d] - n + Buffer[chain]
      BY <1>3, <1>5, <1>6, <1>7, <2>4
    <3>. HIDE DEF m, mm
    <3>. QED  BY <1>1, <1>3, <2>1, <2>2, <2>3, <3>1, <3>2, <3>3 DEF m, mm
  <2>5. CASE d # c
    <3>1. Reports(request'[s], d) = 0
      BY <1>9, <2>5 DEF Reports
    <3>2. mm = m
      BY <1>3, <1>4, <2>5
    <3>3. funds'[d] = funds[d]
      BY <1>3, <1>5, <2>5
    <3>. HIDE DEF m, mm
    <3>. QED  BY <2>1, <2>2, <2>3, <3>1, <3>2, <3>3 DEF m, mm
  <2>. QED  BY <2>4, <2>5
<1>11. CreditsInv'
  <2>1. chain' = chain
    BY <1>2
  <2>. QED  BY <1>0, <1>8, <1>9, <1>10, <2>1, CreditsStep
<1>. QED  BY <1>8, <1>9, <1>11 DEF AccountsInv

LEMMA HookInv == ASSUME AccountsInv, NEW s \in Run, Accounts!Hook(s) PROVE AccountsInv'
<1>0. AmountsTyped /\ RequestsInv /\ CreditsInv /\ request[s].pc = "hook" /\ request[s].pc \in SweepPC
  BY DEF AccountsInv, Accounts!Hook, Accounts!Is, SweepPC
<1>1. PICK c \in Wallet, n \in Nat, k \in Nat :
        /\ c = request[s].child /\ n = request[s].amount /\ k = request[s].cost /\ Accounts!My(s) = c
        /\ c \notin Token => n > k + Buffer[chain]
  BY <1>0, SweepFacts
<1>2. UNCHANGED <<chain, coins, tokens, funds, gas, moved, deposited, deposits, asked, paid, rows>>
  BY DEF Accounts!Hook, Accounts!master, Accounts!wallet, Accounts!office
<1>3. Buffer[chain] \in Nat /\ credited \in [Wallet -> Nat] /\ asked \in Nat
  BY <1>0, AccountsAssumption DEF AmountsTyped
<1>4. Accounts!Credit(request[s]) \in Nat /\ Accounts!Credit(request[s]) <= n
  <2>1. Accounts!Credit(request[s]) = n \/ (c \notin Token /\ Accounts!Credit(request[s]) = n - k - Buffer[chain])
    BY <1>1 DEF Accounts!Credit, Accounts!Sent
  <2>. QED  BY <1>1, <1>3, <2>1
<1>5. PICK a \in 0 .. n : credited' = [credited EXCEPT ![c] = @ + a]
  <2>1. CASE credited' = [credited EXCEPT ![c] = @ + Accounts!Credit(request[s])]
    <3>1. Accounts!Credit(request[s]) \in 0 .. n
      BY <1>4
    <3>. QED  BY <2>1, <3>1
  <2>2. CASE credited' = credited
    <3>1. [credited EXCEPT ![c] = @ + 0] = credited
      BY <1>3
    <3>2. 0 \in 0 .. n
      BY <1>1
    <3>. QED  BY <2>2, <3>1, <3>2
  <2>. QED  BY <1>1, <2>1, <2>2 DEF Accounts!Hook
<1>6. credited' \in [Wallet -> Nat]
  BY <1>3, <1>5
<1>7. AmountsTyped'
  BY <1>0, <1>2, <1>6 DEF AmountsTyped
<1>8. RequestsInv'
  BY <1>0, <1>2, <1>3, RequestEnds DEF Accounts!Hook
<1>9. request'[s] = Accounts!Idle /\ \A t \in Run \ {s} : request'[t] = request[t]
  BY <1>0, Moved DEF Accounts!Hook, Accounts!Done
<1>10. ASSUME NEW d \in Wallet
       PROVE  credited'[d] + Reports(request'[s], d) + funds'[d] + deposited[d] + moved[d] * Buffer[chain]
                <= credited[d] + Reports(request[s], d) + funds[d] + deposited'[d] + moved'[d] * Buffer[chain]
  <2> DEFINE m == moved[d] * Buffer[chain]
  <2>1. /\ credited[d] \in Nat /\ deposited[d] \in Nat /\ funds[d] \in Nat /\ moved[d] \in Nat
        /\ funds'[d] = funds[d] /\ deposited'[d] = deposited[d] /\ moved'[d] = moved[d]
    BY <1>0, <1>2 DEF AmountsTyped
  <2>2. m \in Nat
    BY <1>3, <2>1
  <2>3. Reports(request'[s], d) = 0
    <3>1. Accounts!Idle.pc = "idle"
      BY DEF Accounts!Idle
    <3>. QED  BY <1>9, <3>1 DEF Reports
  <2>4. credited'[d] \in Nat /\ credited'[d] <= credited[d] + Reports(request[s], d)
    BY <1>0, <1>1, <1>3, <1>5, <1>6, <2>1 DEF Reports
  <2>5. Reports(request[s], d) \in Nat
    BY <1>1 DEF Reports
  <2>. HIDE DEF m
  <2>. QED  BY <2>1, <2>2, <2>3, <2>4, <2>5 DEF m
<1>11. CreditsInv'
  <2>1. chain' = chain
    BY <1>2
  <2>. QED  BY <1>0, <1>7, <1>8, <1>9, <1>10, <2>1, CreditsStep
<1>. QED  BY <1>7, <1>8, <1>11 DEF AccountsInv

LEMMA AskInv == ASSUME AccountsInv, NEW s \in Run, Accounts!Ask(s) PROVE AccountsInv'
<1>0. AmountsTyped /\ RequestsInv
  BY DEF AccountsInv
<1>1. UNCHANGED <<chain, coins, tokens, funds, gas, moved, deposited, credited, deposits, paid, rows>>
  BY DEF Accounts!Ask, Accounts!master, Accounts!wallet, Accounts!users
<1>2. /\ asked \in Nat /\ deposits \in Nat /\ asked + deposits < MaxEvents /\ asked' = asked + 1
      /\ paid \subseteq 1 .. asked
  BY <1>0 DEF AmountsTyped, Accounts!Ask
<1>3. asked' \in Nat /\ asked <= asked' /\ asked' + deposits <= MaxEvents /\ paid \subseteq 1 .. asked'
      /\ asked' \in 1 .. asked'
  BY <1>2, AccountsAssumption
<1>4. AmountsTyped'
  BY <1>0, <1>1, <1>3 DEF AmountsTyped
<1>5. PICK pc \in {"check", "pay"}, id \in Nat, coin \in BOOLEAN, amount \in Amount, cost \in Cost :
        /\ id = asked'
        /\ request' = [request EXCEPT ![s] =
             [pc |-> pc, id |-> id, coin |-> coin, amount |-> amount, cost |-> cost]]
  <2>1. PICK amount \in Amount, coin \in BOOLEAN, cost \in Cost :
          request' = [request EXCEPT ![s] =
            [pc |-> IF chain \in Evm THEN "check" ELSE "pay",
             id |-> asked + 1, coin |-> coin, amount |-> amount, cost |-> cost]]
    BY DEF Accounts!Ask
  <2>2. PICK pc \in {"check", "pay"} : pc = IF chain \in Evm THEN "check" ELSE "pay"
    OBVIOUS
  <2>3. PICK id \in Nat : id = asked'
    BY <1>3
  <2>4. request' = [request EXCEPT ![s] =
          [pc |-> pc, id |-> id, coin |-> coin, amount |-> amount, cost |-> cost]]
    BY <1>2, <2>1, <2>2, <2>3
  <2>. QED  BY <2>3, <2>4
<1>6. [pc |-> pc, id |-> id, coin |-> coin, amount |-> amount, cost |-> cost] \in Asks
  BY DEF Asks, AskPC
<1>7. PICK r \in Asks : r = [pc |-> pc, id |-> id, coin |-> coin, amount |-> amount, cost |-> cost]
  BY <1>6
<1>8. request' = [request EXCEPT ![s] = r] /\ r.pc \notin SweepPC /\ r.pc # "row" /\ r.pc # "hook" /\ r.id = asked'
  BY <1>5, <1>7 DEF SweepPC
<1>9. Backed(r)' /\ r \in Requests /\ chain' = chain /\ paid \subseteq paid'
  BY <1>1, <1>3, <1>8 DEF Backed, Requests
<1>10. RequestsInv'
  BY <1>0, <1>2, <1>3, <1>8, <1>9, RequestMoves
<1>11. CreditsInv'
  BY <1>0, <1>1, <1>4, <1>8, <1>10, CreditsRest, Moved
<1>. QED  BY <1>4, <1>10, <1>11 DEF AccountsInv

\* A withdrawal goes on or ends, with no more than balances, what is paid and what
\* has a row changed.
LEMMA AskRest ==
  ASSUME AccountsInv, NEW s \in Run, request[s].pc \in AskPC,
         \/ Accounts!Done(s)
         \/ \E pc \in AskPC : Accounts!Goto(s, pc) /\ (pc = "row" => request[s].id \in paid'),
         coins' \in Nat, tokens' \in Nat, paid \subseteq paid', paid' \subseteq 1 .. asked, rows' \subseteq paid',
         chain' = chain, funds' = funds, gas' = gas, moved' = moved, deposited' = deposited,
         credited' = credited, deposits' = deposits, asked' = asked
  PROVE  AccountsInv'
<1>0. AmountsTyped /\ RequestsInv
  BY DEF AccountsInv
<1>1. AmountsTyped' /\ asked \in Nat /\ asked' \in Nat /\ asked <= asked'
  BY <1>0 DEF AmountsTyped
<1>2. CASE Accounts!Done(s)
  <2>1. request' = [request EXCEPT ![s] = Accounts!Idle]
    BY <1>2 DEF Accounts!Done
  <2>2. RequestsInv'
    BY <1>0, <1>1, <2>1, IdleBacked, RequestMoves
  <2>3. request'[s] = Accounts!Idle /\ \A t \in Run \ {s} : request'[t] = request[t]
    BY <1>0, <2>1, Moved
  <2>4. request'[s].pc # "hook"
    <3>1. Accounts!Idle.pc = "idle"
      BY DEF Accounts!Idle
    <3>. QED  BY <2>3, <3>1
  <2>5. CreditsInv'
    BY <1>0, <1>1, <2>2, <2>3, <2>4, CreditsRest
  <2>. QED  BY <1>1, <2>2, <2>5 DEF AccountsInv
<1>3. ASSUME NEW pc \in AskPC, Accounts!Goto(s, pc), pc = "row" => request[s].id \in paid'
      PROVE  AccountsInv'
  <2>1. request[s] \in Asks /\ request[s].id \in 1 .. asked
    BY <1>0, AskFacts
  <2>2. [request[s] EXCEPT !.pc = pc] \in Asks
    BY <2>1 DEF Asks
  <2>3. PICK r \in Asks : r = [request[s] EXCEPT !.pc = pc]
    BY <2>2
  <2>4. r.pc = pc /\ r.id = request[s].id
    BY <2>1, <2>3 DEF Asks
  <2>5. request' = [request EXCEPT ![s] = r]
    BY <1>3, <2>3 DEF Accounts!Goto
  <2>6. r.pc \notin SweepPC /\ r.pc # "hook"
    BY <2>4 DEF SweepPC, AskPC
  <2>7. Backed(r)' /\ r \in Requests
    BY <1>1, <1>3, <2>1, <2>4, <2>6 DEF Backed, Requests
  <2>8. RequestsInv'
    BY <1>0, <1>1, <2>5, <2>7, RequestMoves
  <2>9. CreditsInv'
    BY <1>0, <1>1, <2>5, <2>6, <2>8, CreditsRest, Moved
  <2>. QED  BY <1>1, <2>8, <2>9 DEF AccountsInv
<1>. QED  BY <1>2, <1>3

LEMMA CheckBalanceInv == ASSUME AccountsInv, NEW s \in Run, Accounts!CheckBalance(s) PROVE AccountsInv'
<1>0. AmountsTyped /\ request[s].pc \in AskPC
  BY DEF AccountsInv, Accounts!CheckBalance, Accounts!Is, AskPC
<1>1. UNCHANGED <<chain, coins, tokens, funds, gas, moved, deposited, credited, deposits, asked, paid, rows>>
  BY DEF Accounts!CheckBalance, Accounts!master, Accounts!wallet, Accounts!users, Accounts!office
<1>2. Accounts!Done(s) \/ Accounts!Goto(s, "pay")
  BY DEF Accounts!CheckBalance
<1>3. "pay" \in AskPC /\ "pay" # "row"
  BY DEF AskPC
<1>4. /\ coins' \in Nat /\ tokens' \in Nat /\ paid' \subseteq 1 .. asked /\ rows' \subseteq paid' /\ paid \subseteq paid'
  BY <1>0, <1>1 DEF AmountsTyped
<1>. QED  BY <1>0, <1>1, <1>2, <1>3, <1>4, AskRest

LEMMA PayInv == ASSUME AccountsInv, NEW s \in Run, Accounts!Pay(s) PROVE AccountsInv'
<1>0. AmountsTyped /\ RequestsInv /\ request[s].pc \in AskPC
  BY DEF AccountsInv, Accounts!Pay, Accounts!Is, AskPC
<1>1. UNCHANGED <<chain, funds, gas, moved, deposited, credited, deposits, asked, rows>>
  BY DEF Accounts!Pay, Accounts!wallet, Accounts!users
<1>2. coins \in Nat /\ tokens \in Nat /\ paid \subseteq 1 .. asked /\ rows \subseteq paid
  BY <1>0 DEF AmountsTyped
<1>3. CASE Accounts!PayFails(s)
  <2>1. Accounts!Done(s) /\ UNCHANGED <<coins, tokens, paid>>
    BY <1>3 DEF Accounts!PayFails
  <2>. QED  BY <1>0, <1>1, <1>2, <2>1, AskRest
<1>4. CASE Accounts!PayDone(s)
  <2>1. request[s].id \in 1 .. asked /\ request[s].amount \in Nat /\ request[s].cost \in Nat
    BY <1>0, AskFacts
  <2>2. coins' \in Nat /\ tokens' \in Nat
    <3>1. CASE request[s].coin
      BY <1>2, <1>4, <2>1, <3>1 DEF Accounts!PayDone, Accounts!InHand
    <3>2. CASE ~request[s].coin
      BY <1>2, <1>4, <2>1, <3>2 DEF Accounts!PayDone, Accounts!InHand
    <3>. QED  BY <3>1, <3>2
  <2>3. paid' = paid \cup {request[s].id}
    BY <1>4 DEF Accounts!PayDone
  <2>4. paid \subseteq paid' /\ paid' \subseteq 1 .. asked /\ rows' \subseteq paid' /\ request[s].id \in paid'
    BY <1>1, <1>2, <2>1, <2>3
  <2>5. Accounts!Done(s) \/ Accounts!Goto(s, "row")
    BY <1>4 DEF Accounts!PayDone
  <2>6. "row" \in AskPC
    BY DEF AskPC
  <2>. QED  BY <1>0, <1>1, <2>2, <2>4, <2>5, <2>6, AskRest
<1>. QED  BY <1>3, <1>4 DEF Accounts!Pay

LEMMA SaveRowInv == ASSUME AccountsInv, NEW s \in Run, Accounts!SaveRow(s) PROVE AccountsInv'
<1>0. AmountsTyped /\ RequestsInv /\ request[s].pc = "row" /\ request[s].pc \in AskPC
  BY DEF AccountsInv, Accounts!SaveRow, Accounts!Is, AskPC
<1>1. UNCHANGED <<chain, coins, tokens, funds, gas, moved, deposited, credited, deposits, asked, paid>>
  BY DEF Accounts!SaveRow, Accounts!master, Accounts!wallet, Accounts!users
<1>2. request[s].id \in paid
  BY <1>0 DEF RequestsInv, Backed
<1>3. /\ coins' \in Nat /\ tokens' \in Nat /\ paid' \subseteq 1 .. asked /\ paid \subseteq paid' /\ rows' \subseteq paid'
  BY <1>0, <1>1, <1>2 DEF AmountsTyped, Accounts!SaveRow
<1>4. Accounts!Done(s)
  BY DEF Accounts!SaveRow
<1>. QED  BY <1>0, <1>1, <1>3, <1>4, AskRest

LEMMA ComesInInv == ASSUME AccountsInv, NEW c \in Wallet, Accounts!Deposit(c) PROVE AccountsInv'
<1>0. AmountsTyped /\ RequestsInv /\ CreditsInv
  BY DEF AccountsInv
<1>1. UNCHANGED <<chain, coins, tokens, gas, moved, credited, asked, paid, rows, request>>
  BY DEF Accounts!Deposit, Accounts!master, Accounts!office
<1>2. PICK v \in Nat : /\ funds' = [funds EXCEPT ![c] = @ + v]
                       /\ deposited' = [deposited EXCEPT ![c] = @ + v]
  BY AccountsAssumption DEF Accounts!Deposit
<1>3. deposits' = deposits + 1 /\ asked + deposits < MaxEvents
  BY DEF Accounts!Deposit
<1>4. deposits' \in Nat /\ asked + deposits' <= MaxEvents
  BY <1>0, <1>3, AccountsAssumption DEF AmountsTyped
<1>5. funds' \in [Wallet -> Nat] /\ deposited' \in [Wallet -> Nat]
  BY <1>0, <1>2 DEF AmountsTyped
<1>6. AmountsTyped'
  BY <1>0, <1>1, <1>4, <1>5 DEF AmountsTyped
<1>7. RequestsInv'
  BY <1>0, <1>1 DEF RequestsInv, Backed
<1>8. ASSUME chain' \notin Unsure, NEW d \in Wallet
      PROVE  credited'[d] + Reported(d)' + funds'[d] <= deposited'[d] + moved'[d] * Buffer[chain']
  <2> DEFINE m == moved[d] * Buffer[chain]
  <2>1. credited[d] + Reported(d) + funds[d] <= deposited[d] + m
    BY <1>0, <1>1, <1>8 DEF CreditsInv
  <2>2. credited'[d] = credited[d] /\ Reported(d)' = Reported(d) /\ moved'[d] * Buffer[chain'] = m
    BY <1>1 DEF Reported, Reports
  <2>3. Reported(d) \in Nat
    <3> DEFINE f == [s \in Run |-> Reports(request[s], d)]
    <3>1. \A s \in Run : f[s] \in Nat
      BY <1>0, SweepFacts DEF Reports, SweepPC
    <3>. HIDE DEF f
    <3>2. SumFunctionOnSet(f, Run) \in Nat
      BY <3>1, SpendingAssumption, SumNat
    <3>. QED  BY <3>2 DEF f, Reported
  <2>4. /\ credited[d] \in Nat /\ funds[d] \in Nat /\ deposited[d] \in Nat
        /\ moved[d] \in Nat /\ Buffer[chain] \in Nat
    BY <1>0, AccountsAssumption DEF AmountsTyped
  <2>5. m \in Nat
    BY <2>4
  <2>6. \/ funds'[d] = funds[d] + v /\ deposited'[d] = deposited[d] + v
        \/ funds'[d] = funds[d] /\ deposited'[d] = deposited[d]
    BY <1>0, <1>2 DEF AmountsTyped
  <2>. HIDE DEF m
  <2>. QED  BY <2>1, <2>2, <2>3, <2>4, <2>5, <2>6
<1>9. CreditsInv'
  BY <1>8 DEF CreditsInv
<1>. QED  BY <1>6, <1>7, <1>9 DEF AccountsInv

LEMMA AccountsInit == Accounts!Init => AccountsInv
<1> SUFFICES ASSUME Accounts!Init PROVE AccountsInv
  OBVIOUS
<1>1. AmountsTyped
  BY AccountsAssumption DEF Accounts!Init, AmountsTyped
<1>2. \A s \in Run : request[s] = Accounts!Idle
  BY DEF Accounts!Init
<1>3. Accounts!Idle.pc = "idle"
  BY DEF Accounts!Idle
<1>4. RequestsInv
  <2>1. request \in [Run -> Requests]
    BY DEF Accounts!Init, Requests
  <2>2. \A s \in Run : Backed(request[s])
    BY <1>2, <1>3 DEF Backed, SweepPC, AskPC
  <2>. QED  BY <2>1, <2>2 DEF RequestsInv
<1>5. ASSUME NEW c \in Wallet
      PROVE  credited[c] + Reported(c) + funds[c] <= deposited[c] + moved[c] * Buffer[chain]
  <2> DEFINE f == [s \in Run |-> Reports(request[s], c)]
  <2>1. \A s \in Run : f[s] = 0
    BY <1>2, <1>3 DEF Reports
  <2>2. Reported(c) = SumFunctionOnSet(f, Run)
    BY DEF Reported
  <2>. HIDE DEF f
  <2>3. SumFunctionOnSet(f, Run) = 0
    BY <2>1, SpendingAssumption, SumZero
  <2>4. credited[c] = 0 /\ funds[c] = 0 /\ deposited[c] = 0 /\ moved[c] = 0 /\ Buffer[chain] \in Nat
    BY AccountsAssumption DEF Accounts!Init
  <2>5. moved[c] * Buffer[chain] = 0
    BY <2>4
  <2>. QED  BY <2>2, <2>3, <2>4, <2>5
<1>6. CreditsInv
  BY <1>5 DEF CreditsInv
<1>. QED  BY <1>1, <1>4, <1>6 DEF AccountsInv

LEMMA AccountsNext == AccountsInv /\ [Accounts!Next]_(Accounts!vars) => AccountsInv'
<1>1. ASSUME AccountsInv, UNCHANGED Accounts!vars PROVE AccountsInv'
  <2>1. \A c \in Wallet : Reported(c)' = Reported(c)
    BY <1>1 DEF Reported, Reports, Accounts!vars
  <2>. QED  BY <1>1, <2>1 DEF AccountsInv, AmountsTyped, RequestsInv, Backed, CreditsInv, Accounts!vars
<1>2. ASSUME AccountsInv, NEW s \in Run, Accounts!Step(s) PROVE AccountsInv'
  BY <1>2, LookInv, CheckGasInv, FundInv, MoveDoneInv, MoveFailsInv, HookInv, AskInv, CheckBalanceInv, PayInv,
     SaveRowInv DEF Accounts!Step, Accounts!Move
<1>. QED  BY <1>1, <1>2, ComesInInv DEF Accounts!Next

\* On chains that keep balances: types; a user is never credited more than came
\* in, but for buffers counted again and where the outcome of a transfer is not
\* known; a withdrawal has a row only if the chain carried it out.
THEOREM AccountsHold == Accounts!Spec => [](Accounts!TypeOK /\ Accounts!CreditsCovered /\ Accounts!RowsArePaid)
<1>1. AccountsInv => Accounts!TypeOK /\ Accounts!RowsArePaid
  <2> SUFFICES ASSUME AccountsInv PROVE Accounts!TypeOK /\ Accounts!RowsArePaid
    OBVIOUS
  <2>1. AmountsTyped /\ RequestsInv
    BY DEF AccountsInv
  <2>2. ASSUME NEW s \in Run
        PROVE  request[s].pc \in {"idle", "gas", "fund", "move", "hook", "check", "pay", "row"}
    <3>1. request[s] \in Requests
      BY <2>1 DEF RequestsInv
    <3>. QED  BY <3>1 DEF Requests, Sweeps, Asks, SweepPC, AskPC, Accounts!Idle
  <2>. QED  BY <2>1, <2>2 DEF AmountsTyped, Accounts!TypeOK, Accounts!RowsArePaid
<1>2. AccountsInv => Accounts!CreditsCovered
  <2> SUFFICES ASSUME AccountsInv, chain \notin Unsure, NEW c \in Wallet
               PROVE  credited[c] <= deposited[c] + moved[c] * Buffer[chain]
    BY DEF Accounts!CreditsCovered
  <2> DEFINE m == moved[c] * Buffer[chain]
             f == [s \in Run |-> Reports(request[s], c)]
  <2>1. credited[c] + SumFunctionOnSet(f, Run) + funds[c] <= deposited[c] + m
    BY DEF AccountsInv, CreditsInv, Reported
  <2>2. \A s \in Run : f[s] \in Nat
    BY SweepFacts DEF AccountsInv, Reports, SweepPC
  <2>3. credited[c] \in Nat /\ funds[c] \in Nat /\ deposited[c] \in Nat /\ moved[c] \in Nat /\ Buffer[chain] \in Nat
    BY AccountsAssumption DEF AccountsInv, AmountsTyped
  <2>4. m \in Nat
    BY <2>3
  <2>. HIDE DEF m, f
  <2>5. SumFunctionOnSet(f, Run) \in Nat
    BY <2>2, SpendingAssumption, SumNat
  <2>. QED  BY <2>1, <2>3, <2>4, <2>5 DEF m
<1>. QED  BY <1>1, <1>2, AccountsInit, AccountsNext, PTL DEF Accounts!Spec

-----------------------------------------------------------------------------
(* Chains that keep unspent outputs (UtxoWallets).                         *)

Output == [id : Nat, at : Utxos!Address, value : Nat \ {0}]

\* Finite sets of outputs, which can be added up.
Purse(S) == S \subseteq Output /\ IsFiniteSet(S)

MovePC == {"quote", "small", "refused", "send", "hook"}
Moves  == [pc : MovePC, from : Utxos!Address, seen : SUBSET Output, inputs : SUBSET Output,
           amount : Nat, fee : Nat]

\* The fold in UtxoWallets is that of Sums.
LEMMA TotalIsSum ==
  ASSUME NEW S
  PROVE  Utxos!Total(S) = SumFunctionOnSet([c \in S |-> c.value], S)
BY DEF Utxos!Total, Utxos!SumFunctionOnSet, SumFunctionOnSet, Utxos!FoldFunctionOnSet, FoldFunctionOnSet,
       Utxos!MapThenFoldSet, MapThenFoldSet

LEMMA TotalFacts ==
  ASSUME NEW S, Purse(S)
  PROVE  /\ Utxos!Total(S) \in Nat
         /\ \A T \in SUBSET S :
              /\ Purse(T) /\ Purse(S \ T)
              /\ Utxos!Total(T) \in Nat /\ Utxos!Total(S \ T) \in Nat
              /\ Utxos!Total(S) = Utxos!Total(T) + Utxos!Total(S \ T)
<1> DEFINE f == [c \in S |-> c.value]
<1>1. \A c \in S : f[c] \in Nat /\ c.value \in Nat
  BY DEF Purse, Output
<1>2. \A T \in SUBSET S : Purse(T)
  BY FS_Subset DEF Purse
<1>3. ASSUME NEW T \in SUBSET S
      PROVE  Utxos!Total(T) = SumFunctionOnSet(f, T) /\ Utxos!Total(T) \in Nat
  <2> DEFINE g == [c \in T |-> c.value]
  <2>1. IsFiniteSet(T)
    BY <1>2 DEF Purse
  <2>2. \A c \in T : f[c] \in Nat /\ g[c] = f[c] /\ g[c] \in Nat
    BY <1>1
  <2>3. Utxos!Total(T) = SumFunctionOnSet(g, T)
    BY TotalIsSum
  <2>. HIDE DEF f, g
  <2>. QED  BY <2>1, <2>2, <2>3, SumSame, SumNat
<1>4. ASSUME NEW T \in SUBSET S
      PROVE  Utxos!Total(S) = Utxos!Total(T) + Utxos!Total(S \ T)
  <2>1. IsFiniteSet(T) /\ IsFiniteSet(S \ T) /\ S = T \cup (S \ T) /\ T \cap (S \ T) = {}
    BY <1>2 DEF Purse
  <2>2. Utxos!Total(S) = SumFunctionOnSet(f, S) /\ Utxos!Total(T) = SumFunctionOnSet(f, T)
        /\ Utxos!Total(S \ T) = SumFunctionOnSet(f, S \ T)
    BY <1>3
  <2>. HIDE DEF f
  <2>3. SumFunctionOnSet(f, T \cup (S \ T)) = SumFunctionOnSet(f, T) + SumFunctionOnSet(f, S \ T)
    BY <1>1, <2>1, SumUnion
  <2>. QED  BY <2>1, <2>2, <2>3
<1>. QED  BY <1>2, <1>3, <1>4

LEMMA TotalNone == Utxos!Total({}) = 0
BY TotalIsSum, SumEmpty

LEMMA TotalAdd ==
  ASSUME NEW S, Purse(S), NEW c \in Output, c \notin S
  PROVE  Purse(S \cup {c}) /\ Utxos!Total(S \cup {c}) = Utxos!Total(S) + c.value
<1>1. Purse(S \cup {c})
  BY FS_AddElement DEF Purse
<1>2. (S \cup {c}) \ {c} = S
  OBVIOUS
<1> DEFINE f == [x \in {c} |-> x.value]
<1>3. f[c] = c.value /\ c.value \in Nat
  BY DEF Output
<1>4. Utxos!Total({c}) = SumFunctionOnSet(f, {c})
  BY TotalIsSum
<1>. HIDE DEF f
<1>5. Utxos!Total({c}) = c.value
  BY <1>3, <1>4, SumSingleton
<1>6. /\ Utxos!Total(S \cup {c}) = Utxos!Total({c}) + Utxos!Total(S)
      /\ Utxos!Total(S) \in Nat
  <2>1. {c} \in SUBSET (S \cup {c})
    OBVIOUS
  <2>. QED  BY <1>1, <1>2, <2>1, TotalFacts
<1>. QED  BY <1>1, <1>3, <1>5, <1>6

LEMMA TotalOne == ASSUME NEW c \in Output PROVE Utxos!Total({c}) = c.value
<1>1. Purse({}) /\ {} \cup {c} = {c}
  BY FS_EmptySet DEF Purse
<1>2. c.value \in Nat
  BY DEF Output
<1>. QED  BY <1>1, <1>2, TotalAdd, TotalNone

\* What holds of a request whatever happens to the outputs it has seen: what it
\* takes is enough for the amount and the reserve, or all there was; it was
\* refused for want of coins; what is sent covers its fee.
Fits(r) ==
  r.pc \in MovePC =>
    /\ Purse(r.seen) /\ r.inputs \subseteq r.seen /\ \A c \in r.seen : c.at = r.from
    /\ r.from # Master => r.amount = 0 /\ r.inputs = r.seen
    /\ r.from = Master => r.inputs = r.seen \/ Utxos!Total(r.inputs) > r.amount + Reserve[utxoChain]
    /\ r.pc = "refused" =>
         r.from = Master /\ (Utxos!Total(r.seen) < r.amount + r.fee \/ r.fee > Reserve[utxoChain])
    /\ r.pc \in {"send", "hook"} =>
         IF r.from = Master THEN Utxos!Total(r.inputs) >= r.amount + r.fee
                            ELSE Utxos!Total(r.inputs) > r.fee
    /\ r.pc = "hook" => r.from # Master

MovesInv ==
  /\ utxoRequest \in [Run -> Moves \cup {Utxos!Idle}]
  /\ \A s \in Run : Fits(utxoRequest[s])

OutputsTyped ==
  /\ utxoChain \in OutputChain
  /\ Purse(utxo) /\ made \in 0 .. MaxCoins /\ \A c \in utxo : c.id \in 1 .. made
  /\ utxoDeposited \in [Child -> Nat] /\ utxoCredited \in [Child -> Nat]

\* What the webhook of the request r is about to report of the address a, at most.
Owes(r, a) == IF r.pc = "hook" /\ r.from = a THEN Utxos!Total(r.inputs) ELSE 0
Owed(a) == SumFunctionOnSet([s \in Run |-> Owes(utxoRequest[s], a)], Run)

\* What a user is credited, is about to be, or still has at the address came in.
PaidInInv ==
  \A a \in Child : utxoCredited[a] + Owed(a) + Utxos!Total(Utxos!At(a)) <= utxoDeposited[a]

OutputsInv == OutputsTyped /\ MovesInv /\ PaidInInv

LEMMA MoveFacts ==
  ASSUME MovesInv, NEW s \in Run, utxoRequest[s].pc \in MovePC
  PROVE  /\ utxoRequest[s] \in Moves /\ Fits(utxoRequest[s])
         /\ utxoRequest[s].from \in Utxos!Address
         /\ utxoRequest[s].amount \in Nat /\ utxoRequest[s].fee \in Nat
         /\ Purse(utxoRequest[s].seen) /\ Purse(utxoRequest[s].inputs)
         /\ Utxos!Total(utxoRequest[s].inputs) \in Nat /\ Utxos!Total(utxoRequest[s].seen) \in Nat
<1>1. utxoRequest[s] \in Moves \cup {Utxos!Idle} /\ Fits(utxoRequest[s])
  BY DEF MovesInv
<1>2. utxoRequest[s] \in Moves
  BY <1>1 DEF Utxos!Idle, MovePC
<1>3. Purse(utxoRequest[s].seen) /\ utxoRequest[s].inputs \subseteq utxoRequest[s].seen
  BY <1>1 DEF Fits
<1>4. Purse(utxoRequest[s].inputs) /\ Utxos!Total(utxoRequest[s].inputs) \in Nat
      /\ Utxos!Total(utxoRequest[s].seen) \in Nat
  BY <1>3, TotalFacts
<1>. QED  BY <1>1, <1>2, <1>3, <1>4 DEF Moves

LEMMA OwesNat ==
  ASSUME MovesInv, NEW s \in Run, NEW a \in Child
  PROVE  Owes(utxoRequest[s], a) \in Nat
BY MoveFacts DEF Owes, MovePC

LEMMA IdleFits == Utxos!Idle.pc = "idle" /\ Fits(Utxos!Idle)' /\ \A a \in Child : Owes(Utxos!Idle, a) = 0
BY DEF Utxos!Idle, Fits, Owes, MovePC

\* A request moves on: what it becomes fits, and the others still do.
LEMMA MovesOn ==
  ASSUME MovesInv, NEW s \in Run, NEW r \in Moves \cup {Utxos!Idle}, Fits(r)',
         utxoRequest' = [utxoRequest EXCEPT ![s] = r], utxoChain' = utxoChain
  PROVE  MovesInv' /\ utxoRequest'[s] = r /\ \A t \in Run \ {s} : utxoRequest'[t] = utxoRequest[t]
<1>1. utxoRequest \in [Run -> Moves \cup {Utxos!Idle}]
  BY DEF MovesInv
<1>2. utxoRequest' \in [Run -> Moves \cup {Utxos!Idle}] /\ utxoRequest'[s] = r
  BY <1>1
<1>3. \A t \in Run \ {s} : utxoRequest'[t] = utxoRequest[t]
  BY <1>1
<1>4. ASSUME NEW t \in Run PROVE Fits(utxoRequest[t])'
  <2>1. CASE t = s
    BY <1>2, <2>1
  <2>2. CASE t # s
    <3>1. utxoRequest'[t] = utxoRequest[t] /\ Fits(utxoRequest[t])
      BY <1>3, <2>2 DEF MovesInv
    <3>. QED  BY <3>1 DEF Fits
  <2>. QED  BY <2>1, <2>2
<1>. QED  BY <1>2, <1>3, <1>4 DEF MovesInv

\* What a step of the request s changes of what is owed.
LEMMA OwedStep ==
  ASSUME MovesInv, MovesInv', NEW s \in Run, NEW a \in Child,
         \A t \in Run \ {s} : utxoRequest'[t] = utxoRequest[t]
  PROVE  /\ Owed(a) \in Nat /\ Owed(a)' \in Nat
         /\ Owes(utxoRequest[s], a) \in Nat /\ Owes(utxoRequest'[s], a) \in Nat
         /\ Owed(a)' + Owes(utxoRequest[s], a) = Owed(a) + Owes(utxoRequest'[s], a)
<1> DEFINE f == [t \in Run |-> Owes(utxoRequest[t], a)]
           g == [t \in Run |-> Owes(utxoRequest'[t], a)]
<1>1. ASSUME NEW t \in Run PROVE f[t] \in Nat /\ g[t] \in Nat
  <2>1. f[t] \in Nat
    BY OwesNat
  <2>2. CASE utxoRequest'[t].pc = "hook"
    <3>1. Fits(utxoRequest[t])'
      BY DEF MovesInv
    <3>2. Purse(utxoRequest'[t].seen) /\ utxoRequest'[t].inputs \subseteq utxoRequest'[t].seen
      BY <2>2, <3>1 DEF Fits, MovePC
    <3>3. Utxos!Total(utxoRequest'[t].inputs) \in Nat
      BY <3>2, TotalFacts
    <3>. QED  BY <2>1, <3>3 DEF Owes
  <2>3. CASE utxoRequest'[t].pc # "hook"
    BY <2>1, <2>3 DEF Owes
  <2>. QED  BY <2>2, <2>3
<1>2. \A t \in Run \ {s} : g[t] = f[t]
  OBVIOUS
<1>3. /\ f[s] = Owes(utxoRequest[s], a) /\ g[s] = Owes(utxoRequest'[s], a)
      /\ Owed(a) = SumFunctionOnSet(f, Run) /\ Owed(a)' = SumFunctionOnSet(g, Run)
  BY DEF Owed, Owes
<1>. HIDE DEF f, g
<1>4. SumFunctionOnSet(g, Run) + f[s] = SumFunctionOnSet(f, Run) + g[s]
  BY <1>1, <1>2, SpendingAssumption, SumChange
<1>5. SumFunctionOnSet(f, Run) \in Nat /\ SumFunctionOnSet(g, Run) \in Nat
  BY <1>1, SpendingAssumption, SumNat
<1>. QED  BY <1>1, <1>3, <1>4, <1>5

LEMMA AddressTotal ==
  ASSUME OutputsTyped, NEW a \in Child
  PROVE  Purse(Utxos!At(a)) /\ Utxos!Total(Utxos!At(a)) \in Nat
<1>1. Utxos!At(a) \in SUBSET utxo
  BY DEF Utxos!At
<1>. QED  BY <1>1, TotalFacts DEF OutputsTyped

\* What a step of the request s takes out of one account of PaidInInv it puts into
\* another.
LEMMA PaidInStep ==
  ASSUME OutputsTyped, OutputsTyped', MovesInv, MovesInv', PaidInInv, NEW s \in Run,
         \A t \in Run \ {s} : utxoRequest'[t] = utxoRequest[t],
         utxoDeposited' = utxoDeposited,
         \A a \in Child :
           utxoCredited'[a] + Owes(utxoRequest'[s], a) + Utxos!Total(Utxos!At(a))'
             <= utxoCredited[a] + Owes(utxoRequest[s], a) + Utxos!Total(Utxos!At(a))
  PROVE  PaidInInv'
<1> SUFFICES ASSUME NEW a \in Child
             PROVE  utxoCredited'[a] + Owed(a)' + Utxos!Total(Utxos!At(a))' <= utxoDeposited'[a]
  BY DEF PaidInInv
<1> DEFINE p == Utxos!Total(Utxos!At(a))
           q == Utxos!Total(Utxos!At(a))'
           m == Owed(a)
           n == Owed(a)'
           x == Owes(utxoRequest[s], a)
           y == Owes(utxoRequest'[s], a)
<1>1. p \in Nat
  BY AddressTotal
<1>2. q \in Nat
  <2>1. Purse(utxo') /\ Utxos!At(a)' \in SUBSET utxo'
    BY DEF OutputsTyped, Purse, Utxos!At
  <2>2. \A S : Purse(S) => \A T \in SUBSET S : Utxos!Total(T) \in Nat
    BY TotalFacts
  <2>. QED  BY <2>1, <2>2
<1>3. /\ utxoCredited[a] \in Nat /\ utxoCredited'[a] \in Nat /\ utxoDeposited[a] \in Nat
      /\ utxoDeposited'[a] = utxoDeposited[a]
  BY DEF OutputsTyped
<1>4. utxoCredited[a] + m + p <= utxoDeposited[a]
  BY DEF PaidInInv
<1>5. utxoCredited'[a] + y + q <= utxoCredited[a] + x + p
  OBVIOUS
<1>6. m \in Nat /\ n \in Nat /\ x \in Nat /\ y \in Nat /\ n + x = m + y
  BY OwedStep
<1>. HIDE DEF m, n, p, q, x, y
<1>7. utxoCredited'[a] + n + q <= utxoDeposited'[a]
  BY <1>1, <1>2, <1>3, <1>4, <1>5, <1>6
<1>. QED  BY <1>7 DEF n, q

\* A request that reads, waits or ends: nothing else changes.
LEMMA MoveRest ==
  ASSUME OutputsInv, NEW s \in Run, NEW r \in Moves \cup {Utxos!Idle}, Fits(r)', r.pc # "hook",
         utxoRequest' = [utxoRequest EXCEPT ![s] = r],
         utxoChain' = utxoChain, utxo' = utxo, made' = made,
         utxoDeposited' = utxoDeposited, utxoCredited' = utxoCredited
  PROVE  OutputsInv'
<1>0. OutputsTyped /\ MovesInv /\ PaidInInv
  BY DEF OutputsInv
<1>1. OutputsTyped'
  BY <1>0 DEF OutputsTyped
<1>2. MovesInv' /\ utxoRequest'[s] = r /\ \A t \in Run \ {s} : utxoRequest'[t] = utxoRequest[t]
  BY <1>0, MovesOn
<1>3. ASSUME NEW a \in Child
      PROVE  utxoCredited'[a] + Owes(utxoRequest'[s], a) + Utxos!Total(Utxos!At(a))'
               <= utxoCredited[a] + Owes(utxoRequest[s], a) + Utxos!Total(Utxos!At(a))
  <2> DEFINE p == Utxos!Total(Utxos!At(a))
             q == Utxos!Total(Utxos!At(a))'
  <2>1. q = p
    BY DEF Utxos!At
  <2>2. p \in Nat /\ Owes(utxoRequest[s], a) \in Nat
    BY <1>0, AddressTotal, OwesNat
  <2>3. Owes(utxoRequest'[s], a) = 0
    BY <1>2 DEF Owes
  <2>4. utxoCredited[a] \in Nat /\ utxoCredited'[a] = utxoCredited[a]
    BY <1>0 DEF OutputsTyped
  <2>. HIDE DEF p, q
  <2>5. utxoCredited'[a] + Owes(utxoRequest'[s], a) + q <= utxoCredited[a] + Owes(utxoRequest[s], a) + p
    BY <2>1, <2>2, <2>3, <2>4
  <2>. QED  BY <2>5 DEF p, q
<1>4. PaidInInv'
  BY <1>0, <1>1, <1>2, <1>3, PaidInStep
<1>. QED  BY <1>1, <1>2, <1>4 DEF OutputsInv

LEMMA MoveEnds ==
  ASSUME OutputsInv, NEW s \in Run, Utxos!Done(s),
         utxoChain' = utxoChain, utxo' = utxo, made' = made,
         utxoDeposited' = utxoDeposited, utxoCredited' = utxoCredited
  PROVE  OutputsInv'
<1>1. utxoRequest' = [utxoRequest EXCEPT ![s] = Utxos!Idle]
  BY DEF Utxos!Done
<1>2. Utxos!Idle.pc # "hook"
  BY IdleFits
<1>. QED  BY <1>1, <1>2, IdleFits, MoveRest

LEMMA ReadForSweepInv == ASSUME OutputsInv, NEW s \in Run, Utxos!ReadForSweep(s) PROVE OutputsInv'
<1>0. OutputsTyped
  BY DEF OutputsInv
<1>1. UNCHANGED <<utxoChain, utxo, made, utxoDeposited, utxoCredited>>
  BY DEF Utxos!ReadForSweep, Utxos!ledger
<1>2. PICK a \in Child, S \in SUBSET Output :
        /\ S = Utxos!At(a) /\ Purse(S) /\ \A c \in S : c.at = a
        /\ utxoRequest' = [utxoRequest EXCEPT ![s] =
             [pc |-> "quote", from |-> a, seen |-> S, inputs |-> S, amount |-> 0, fee |-> 0]]
  <2>1. PICK a \in Child :
          utxoRequest' = [utxoRequest EXCEPT ![s] =
            [pc |-> "quote", from |-> a, seen |-> Utxos!At(a), inputs |-> Utxos!At(a), amount |-> 0, fee |-> 0]]
    BY DEF Utxos!ReadForSweep
  <2>2. Purse(Utxos!At(a)) /\ Utxos!At(a) \in SUBSET Output /\ \A c \in Utxos!At(a) : c.at = a
    <3>1. Purse(Utxos!At(a))
      BY <1>0, AddressTotal
    <3>. QED  BY <3>1 DEF Purse, Utxos!At
  <2>. QED  BY <2>1, <2>2
<1>3. [pc |-> "quote", from |-> a, seen |-> S, inputs |-> S, amount |-> 0, fee |-> 0] \in Moves
  BY DEF Moves, MovePC, Utxos!Address
<1>4. PICK r \in Moves : r = [pc |-> "quote", from |-> a, seen |-> S, inputs |-> S, amount |-> 0, fee |-> 0]
  BY <1>3
<1>5. /\ r.pc = "quote" /\ r.from = a /\ r.seen = S /\ r.inputs = S /\ r.amount = 0 /\ r.fee = 0
      /\ utxoRequest' = [utxoRequest EXCEPT ![s] = r]
  BY <1>2, <1>4
<1>6. Fits(r)'
  BY <1>2, <1>5, OutputsAssumption DEF Fits
<1>. QED  BY <1>1, <1>5, <1>6, MoveRest

\* What is picked is all there is, or more than the amount and the reserve.
LEMMA PickFacts ==
  ASSUME NEW S, NEW n \in Nat, NEW p \in Utxos!Picks(S, n)
  PROVE  p \subseteq S /\ (p = S \/ Utxos!Total(p) > n + Reserve[utxoChain])
BY DEF Utxos!Picks, Utxos!Enough

LEMMA ReadForWithdrawalInv == ASSUME OutputsInv, NEW s \in Run, Utxos!ReadForWithdrawal(s) PROVE OutputsInv'
<1>0. OutputsTyped
  BY DEF OutputsInv
<1>1. UNCHANGED <<utxoChain, utxo, made, utxoDeposited, utxoCredited>>
  BY DEF Utxos!ReadForWithdrawal, Utxos!ledger
<1>2. PICK S \in SUBSET Output : S = Utxos!At(Master) /\ Purse(S) /\ \A c \in S : c.at = Master
  <2>1. Utxos!At(Master) \in SUBSET utxo /\ \A c \in Utxos!At(Master) : c.at = Master
    BY DEF Utxos!At
  <2>2. Purse(Utxos!At(Master))
    BY <1>0, <2>1, TotalFacts DEF OutputsTyped
  <2>. QED  BY <2>1, <2>2 DEF Purse
<1>3. PICK n \in Nat, p \in SUBSET S, pc \in {"refused", "quote"} :
        /\ p \in Utxos!Picks(S, n)
        /\ pc = "refused" => Utxos!Total(p) < n
        /\ utxoRequest' = [utxoRequest EXCEPT ![s] =
             [pc |-> pc, from |-> Master, seen |-> S, inputs |-> p, amount |-> n, fee |-> 0]]
  <2>1. PICK n \in CoinAmount : \E p \in Utxos!Picks(S, n) :
          utxoRequest' = [utxoRequest EXCEPT ![s] =
            [pc |-> IF Utxos!Total(p) < n THEN "refused" ELSE "quote",
             from |-> Master, seen |-> S, inputs |-> p, amount |-> n, fee |-> 0]]
    BY <1>2 DEF Utxos!ReadForWithdrawal
  <2>2. PICK p \in Utxos!Picks(S, n) :
          utxoRequest' = [utxoRequest EXCEPT ![s] =
            [pc |-> IF Utxos!Total(p) < n THEN "refused" ELSE "quote",
             from |-> Master, seen |-> S, inputs |-> p, amount |-> n, fee |-> 0]]
    BY <2>1
  <2>3. PICK pc \in {"refused", "quote"} : pc = IF Utxos!Total(p) < n THEN "refused" ELSE "quote"
    OBVIOUS
  <2>4. n \in Nat /\ p \in SUBSET S
    BY OutputsAssumption, PickFacts
  <2>. QED  BY <2>2, <2>3, <2>4
<1>4. p \subseteq S /\ (p = S \/ Utxos!Total(p) > n + Reserve[utxoChain])
  BY <1>3, PickFacts
<1>5. /\ Utxos!Total(p) \in Nat /\ Reserve[utxoChain] \in Nat
  BY <1>0, <1>2, <1>4, TotalFacts, OutputsAssumption DEF OutputsTyped
<1>6. [pc |-> pc, from |-> Master, seen |-> S, inputs |-> p, amount |-> n, fee |-> 0] \in Moves
  BY <1>4 DEF Moves, MovePC, Utxos!Address
<1>7. PICK r \in Moves : r = [pc |-> pc, from |-> Master, seen |-> S, inputs |-> p, amount |-> n, fee |-> 0]
  BY <1>6
<1>8. /\ r.pc = pc /\ r.from = Master /\ r.seen = S /\ r.inputs = p /\ r.amount = n /\ r.fee = 0
      /\ utxoRequest' = [utxoRequest EXCEPT ![s] = r]
  BY <1>3, <1>7
<1>9. pc = "refused" => Utxos!Total(S) < n + 0
  BY <1>3, <1>4, <1>5
<1>10. Fits(r)'
  BY <1>1, <1>2, <1>4, <1>8, <1>9 DEF Fits
<1>. QED  BY <1>1, <1>8, <1>10, MoveRest

LEMMA FeeNat ==
  ASSUME NEW S, IsFiniteSet(S), NEW rate \in Nat
  PROVE  rate * (Utxos!Cardinality(S) + 1) \in Nat
<1>1. Cardinality(S) \in Nat
  BY FS_CardinalityType
<1>2. Utxos!Cardinality(S) \in Nat
  BY <1>1 DEF Utxos!Cardinality, Cardinality
<1>. QED  BY <1>2

LEMMA QuoteInv == ASSUME OutputsInv, NEW s \in Run, Utxos!Quote(s) PROVE OutputsInv'
<1>0. OutputsTyped /\ MovesInv /\ utxoRequest[s].pc = "quote" /\ utxoRequest[s].pc \in MovePC
  BY DEF OutputsInv, Utxos!Quote, Utxos!Is, MovePC
<1>1. UNCHANGED <<utxoChain, utxo, made, utxoDeposited, utxoCredited>>
  BY DEF Utxos!Quote, Utxos!ledger
<1>2. PICK q \in Moves : q = utxoRequest[s]
  BY <1>0, MoveFacts
<1>3. /\ Fits(q) /\ q.from \in Utxos!Address /\ q.amount \in Nat
      /\ Purse(q.inputs) /\ Utxos!Total(q.inputs) \in Nat /\ Utxos!Total(q.seen) \in Nat
  BY <1>0, <1>2, MoveFacts
<1>4. PICK fee \in Nat, pc \in {"small", "send", "refused"} :
        /\ pc = Utxos!Quoted(q, fee)
        /\ utxoRequest' = [utxoRequest EXCEPT ![s] = [q EXCEPT !.pc = pc, !.fee = fee]]
  <2>1. PICK rate \in Rate[utxoChain] :
          utxoRequest' = [utxoRequest EXCEPT
            ![s].pc  = Utxos!Quoted(q, rate * (Utxos!Cardinality(q.inputs) + 1)),
            ![s].fee = rate * (Utxos!Cardinality(q.inputs) + 1)]
    BY <1>2 DEF Utxos!Quote
  <2>2. rate \in Nat
    BY <1>0, OutputsAssumption DEF OutputsTyped
  <2>3. PICK fee \in Nat : fee = rate * (Utxos!Cardinality(q.inputs) + 1)
    BY <1>3, <2>2, FeeNat DEF Purse
  <2>4. PICK pc \in {"small", "send", "refused"} : pc = Utxos!Quoted(q, fee)
    BY DEF Utxos!Quoted
  <2>5. utxoRequest' = [utxoRequest EXCEPT ![s].pc = pc, ![s].fee = fee]
    BY <2>1, <2>3, <2>4
  <2>6. utxoRequest' = [utxoRequest EXCEPT ![s] = [q EXCEPT !.pc = pc, !.fee = fee]]
    BY <1>0, <1>2, <2>5 DEF MovesInv
  <2>. QED  BY <2>4, <2>6
<1>5. [q EXCEPT !.pc = pc, !.fee = fee] \in Moves
  BY DEF Moves, MovePC
<1>6. PICK r \in Moves : r = [q EXCEPT !.pc = pc, !.fee = fee]
  BY <1>5
<1>7. /\ r.pc = pc /\ r.from = q.from /\ r.seen = q.seen /\ r.inputs = q.inputs
      /\ r.amount = q.amount /\ r.fee = fee
  BY <1>6 DEF Moves
<1>8. Reserve[utxoChain] \in Nat /\ Dust[utxoChain] \in Nat
  BY <1>0, OutputsAssumption DEF OutputsTyped
<1>9. /\ Purse(q.seen) /\ q.inputs \subseteq q.seen /\ \A c \in q.seen : c.at = q.from
      /\ q.from # Master => q.amount = 0 /\ q.inputs = q.seen
      /\ q.from = Master => q.inputs = q.seen \/ Utxos!Total(q.inputs) > q.amount + Reserve[utxoChain]
  BY <1>0, <1>2, <1>3 DEF Fits
<1>10. CASE q.from # Master
  <2>1. pc # "refused" /\ (pc = "send" => ~Utxos!TooSmall(q.inputs, fee))
    BY <1>4, <1>10 DEF Utxos!Quoted
  <2>2. pc = "send" => Utxos!Total(q.inputs) > fee
    <3>1. ~Utxos!TooSmall(q.inputs, fee) => Utxos!Total(q.inputs) - fee > 0
      BY <1>3, <1>8 DEF Utxos!TooSmall, Utxos!Swept
    <3>. QED  BY <1>3, <2>1, <3>1
  <2>3. Fits(r)'
    BY <1>1, <1>7, <1>9, <1>10, <2>1, <2>2 DEF Fits
  <2>. QED  BY <1>1, <1>4, <1>6, <1>7, <2>3, MoveRest
<1>11. CASE q.from = Master
  <2>1. IF Utxos!Total(q.inputs) < q.amount + fee THEN pc = "refused" ELSE pc = "send"
    BY <1>4, <1>11 DEF Utxos!Quoted
  <2>2. pc = "refused" => Utxos!Total(q.seen) < q.amount + fee \/ fee > Reserve[utxoChain]
    BY <1>3, <1>8, <1>9, <1>11, <2>1
  <2>3. pc = "send" => Utxos!Total(q.inputs) >= q.amount + fee
    BY <1>3, <2>1
  <2>4. pc # "hook"
    OBVIOUS
  <2>5. Fits(r)'
    BY <1>1, <1>7, <1>9, <1>11, <2>2, <2>3, <2>4 DEF Fits
  <2>. QED  BY <1>1, <1>4, <1>6, <1>7, <2>4, <2>5, MoveRest
<1>. QED  BY <1>10, <1>11

LEMMA RefusalInv == ASSUME OutputsInv, NEW s \in Run, Utxos!Answer(s) PROVE OutputsInv'
BY MoveEnds DEF Utxos!Answer, Utxos!ledger

\* The output a transaction or a deposit makes is a new one.
LEMMA NewOutput ==
  ASSUME OutputsTyped, NEW a \in Utxos!Address, NEW v \in Nat \ {0}
  PROVE  /\ Utxos!Coin(made + 1, a, v) \in Output \ utxo
         /\ Utxos!Coin(made + 1, a, v).id = made + 1
         /\ Utxos!Coin(made + 1, a, v).at = a
         /\ Utxos!Coin(made + 1, a, v).value = v
<1>1. made \in Nat /\ \A c \in utxo : c.id \in 1 .. made
  BY OutputsAssumption DEF OutputsTyped
<1>2. PICK n \in Nat : n = made + 1
  BY <1>1
<1>3. PICK c \in Output : c = Utxos!Coin(n, a, v) /\ c.id = n /\ c.at = a /\ c.value = v
  <2>1. [id |-> n, at |-> a, value |-> v] \in Output
    BY DEF Output
  <2>. QED  BY <2>1 DEF Utxos!Coin
<1>4. c \notin utxo
  BY <1>1, <1>2, <1>3
<1>. QED  BY <1>2, <1>3, <1>4

\* What is sent pays at most one output, to the master address.
LEMMA OutputsFacts ==
  ASSUME OutputsInv, NEW s \in Run, utxoRequest[s].pc = "send"
  PROVE  LET r == utxoRequest[s] IN
         /\ \/ Utxos!Outputs(r) = {}
            \/ \E c \in Output \ utxo :
                 Utxos!Outputs(r) = {c} /\ c.id = made + 1 /\ c.at = Master
         /\ Utxos!Total(r.inputs) - Utxos!Total(Utxos!Outputs(r)) - r.amount - r.fee
              \in 0 .. Dust[utxoChain]
<1>0. OutputsTyped /\ MovesInv /\ utxoRequest[s].pc \in MovePC
  BY DEF OutputsInv, MovePC
<1>1. PICK q \in Moves : q = utxoRequest[s]
  BY <1>0, MoveFacts
<1>2. /\ Fits(q) /\ q.from \in Utxos!Address /\ q.amount \in Nat /\ q.fee \in Nat
      /\ Purse(q.inputs) /\ Utxos!Total(q.inputs) \in Nat /\ q.pc = "send"
  BY <1>0, <1>1, MoveFacts
<1>3. Dust[utxoChain] \in Nat
  BY <1>0, OutputsAssumption DEF OutputsTyped
<1>4. CASE q.from # Master
  <2>1. q.amount = 0 /\ Utxos!Total(q.inputs) > q.fee
    BY <1>2, <1>4 DEF Fits, MovePC
  <2>2. PICK v \in Nat \ {0} : v = Utxos!Swept(q.inputs, q.fee)
    BY <1>2, <2>1 DEF Utxos!Swept
  <2>3. PICK c \in Output \ utxo :
          c = Utxos!Coin(made + 1, Master, v) /\ c.id = made + 1 /\ c.at = Master /\ c.value = v
    BY <1>0, NewOutput DEF Utxos!Address
  <2>4. Utxos!Outputs(q) = {c}
    BY <1>4, <2>2, <2>3 DEF Utxos!Outputs
  <2>5. Utxos!Total({c}) = v /\ v = Utxos!Total(q.inputs) - q.fee
    BY <2>2, <2>3, TotalOne DEF Utxos!Swept
  <2>6. Utxos!Total(q.inputs) - Utxos!Total({c}) - q.amount - q.fee \in 0 .. Dust[utxoChain]
    BY <1>2, <1>3, <2>1, <2>5
  <2>. QED  BY <1>1, <2>3, <2>4, <2>6
<1>5. CASE q.from = Master
  <2>1. Utxos!Total(q.inputs) >= q.amount + q.fee
    BY <1>2, <1>5 DEF Fits, MovePC
  <2>2. PICK v \in Nat : v = Utxos!Change(q) /\ v = Utxos!Total(q.inputs) - q.amount - q.fee
    BY <1>2, <2>1 DEF Utxos!Change
  <2>3. CASE v > Dust[utxoChain]
    <3>1. v \in Nat \ {0}
      BY <1>3, <2>3
    <3>2. PICK c \in Output \ utxo :
            c = Utxos!Coin(made + 1, Master, v) /\ c.id = made + 1 /\ c.at = Master /\ c.value = v
      BY <1>0, <3>1, NewOutput DEF Utxos!Address
    <3>3. Utxos!Outputs(q) = {c}
      BY <1>5, <2>2, <2>3, <3>2 DEF Utxos!Outputs
    <3>4. Utxos!Total({c}) = v
      BY <3>2, TotalOne
    <3>5. Utxos!Total(q.inputs) - Utxos!Total({c}) - q.amount - q.fee \in 0 .. Dust[utxoChain]
      BY <1>2, <1>3, <2>2, <3>4
    <3>. QED  BY <1>1, <3>2, <3>3, <3>5
  <2>4. CASE ~(v > Dust[utxoChain])
    <3>1. Utxos!Outputs(q) = {}
      BY <1>5, <2>2, <2>4 DEF Utxos!Outputs
    <3>2. Utxos!Total(q.inputs) - Utxos!Total({}) - q.amount - q.fee \in 0 .. Dust[utxoChain]
      BY <1>2, <1>3, <2>2, <2>4, TotalNone
    <3>. QED  BY <1>1, <3>1, <3>2
  <2>. QED  BY <2>3, <2>4
<1>. QED  BY <1>4, <1>5

\* What is sent goes through: its inputs are gone, and one output at most is new.
LEMMA AcceptInv ==
  ASSUME OutputsInv, NEW s \in Run, utxoRequest[s].pc = "send", Utxos!Accept(s),
         utxoChain' = utxoChain, utxoDeposited' = utxoDeposited, utxoCredited' = utxoCredited
  PROVE  OutputsInv'
<1>0. OutputsTyped /\ MovesInv /\ PaidInInv /\ utxoRequest[s].pc \in MovePC
  BY DEF OutputsInv, MovePC
<1>1. PICK q \in Moves : q = utxoRequest[s]
  BY <1>0, MoveFacts
<1>2. /\ Fits(q) /\ q.from \in Utxos!Address /\ Purse(q.inputs) /\ Utxos!Total(q.inputs) \in Nat
      /\ q.pc = "send" /\ q.inputs \subseteq q.seen /\ \A c \in q.seen : c.at = q.from
  BY <1>0, <1>1, MoveFacts DEF Fits
<1>3. /\ q.inputs \subseteq utxo /\ made < MaxCoins /\ made' = made + 1
      /\ utxo' = (utxo \ q.inputs) \cup Utxos!Outputs(q)
  BY <1>1 DEF Utxos!Accept
<1>4. PICK O \in SUBSET Output :
        /\ O = Utxos!Outputs(q)
        /\ O = {} \/ \E c \in Output \ utxo : O = {c} /\ c.id = made + 1 /\ c.at = Master
  BY <1>1, <1>2, OutputsFacts
<1>5. OutputsTyped'
  <2>1. Purse(utxo \ q.inputs) /\ made \in 0 .. MaxCoins /\ \A c \in utxo : c.id \in 1 .. made
    BY <1>0, <1>3, TotalFacts DEF OutputsTyped
  <2>2. made' \in 0 .. MaxCoins /\ \A c \in utxo' : c.id \in 1 .. made'
    BY <1>3, <1>4, <2>1, OutputsAssumption
  <2>3. Purse(utxo')
    <3>1. CASE O = {}
      BY <1>3, <1>4, <2>1, <3>1
    <3>2. CASE O # {}
      <4>1. PICK c \in Output \ utxo : O = {c}
        BY <1>4, <3>2
      <4>. QED  BY <1>3, <1>4, <2>1, <4>1, TotalAdd
    <3>. QED  BY <3>1, <3>2
  <2>. QED  BY <1>0, <2>2, <2>3 DEF OutputsTyped
<1>6. ASSUME NEW a \in Child
      PROVE  /\ Utxos!Total(Utxos!At(a))' \in Nat /\ Utxos!Total(Utxos!At(a)) \in Nat
             /\ Utxos!Total(Utxos!At(a)) = Utxos!Total(Utxos!At(a))'
                  + IF q.from = a THEN Utxos!Total(q.inputs) ELSE 0
  <2>0. a # Master
    BY OutputsAssumption
  <2>1. PICK S, T : S = Utxos!At(a) /\ T = Utxos!At(a)'
    OBVIOUS
  <2>2. T = S \ q.inputs
    <3>1. S = {c \in utxo : c.at = a} /\ T = {c \in utxo' : c.at = a}
      BY <2>1 DEF Utxos!At
    <3>2. \A c \in O : c.at # a
      BY <1>4, <2>0
    <3>. QED  BY <1>3, <1>4, <3>1, <3>2
  <2>3. Purse(S) /\ Utxos!Total(S) \in Nat
    BY <1>0, <2>1, AddressTotal
  <2>4. CASE q.from = a
    <3>1. q.inputs \in SUBSET S
      BY <1>2, <1>3, <2>1, <2>4 DEF Utxos!At
    <3>2. Utxos!Total(T) \in Nat /\ Utxos!Total(S) = Utxos!Total(q.inputs) + Utxos!Total(T)
      BY <2>2, <2>3, <3>1, TotalFacts
    <3>. QED  BY <1>2, <2>1, <2>3, <2>4, <3>2
  <2>5. CASE q.from # a
    <3>1. T = S
      BY <1>2, <2>1, <2>2, <2>5 DEF Utxos!At
    <3>. QED  BY <2>1, <2>3, <2>5, <3>1
  <2>. QED  BY <2>4, <2>5
<1>7. ASSUME NEW r \in Moves \cup {Utxos!Idle}, Fits(r)',
             utxoRequest' = [utxoRequest EXCEPT ![s] = r],
             \A a \in Child :
               Owes(r, a) = 0 \/ (q.from = a /\ Owes(r, a) = Utxos!Total(q.inputs))
      PROVE  OutputsInv'
  <2>1. MovesInv' /\ utxoRequest'[s] = r /\ \A t \in Run \ {s} : utxoRequest'[t] = utxoRequest[t]
    BY <1>0, <1>7, MovesOn
  <2>2. ASSUME NEW a \in Child
        PROVE  utxoCredited'[a] + Owes(utxoRequest'[s], a) + Utxos!Total(Utxos!At(a))'
                 <= utxoCredited[a] + Owes(utxoRequest[s], a) + Utxos!Total(Utxos!At(a))
    <3> DEFINE m == Utxos!Total(Utxos!At(a))
               n == Utxos!Total(Utxos!At(a))'
               k == Utxos!Total(q.inputs)
    <3>1. /\ n \in Nat /\ m \in Nat
          /\ m = n + IF q.from = a THEN k ELSE 0
      BY <1>6
    <3>2. Owes(utxoRequest[s], a) = 0
      BY <1>1, <1>2 DEF Owes
    <3>3. Owes(utxoRequest'[s], a) = 0 \/ (q.from = a /\ Owes(utxoRequest'[s], a) = k)
      BY <1>7, <2>1
    <3>4. utxoCredited[a] \in Nat /\ utxoCredited'[a] = utxoCredited[a] /\ k \in Nat
      BY <1>0, <1>2 DEF OutputsTyped
    <3>. HIDE DEF m, n, k
    <3>5. utxoCredited'[a] + Owes(utxoRequest'[s], a) + n <= utxoCredited[a] + Owes(utxoRequest[s], a) + m
      BY <3>1, <3>2, <3>3, <3>4
    <3>. QED  BY <3>5 DEF m, n
  <2>3. PaidInInv'
    BY <1>0, <1>5, <2>1, <2>2, PaidInStep
  <2>. QED  BY <1>5, <2>1, <2>3 DEF OutputsInv
<1>8. CASE q.from # Master /\ utxoRequest' = [utxoRequest EXCEPT ![s].pc = "hook"]
  <2>1. [q EXCEPT !.pc = "hook"] \in Moves
    BY DEF Moves, MovePC
  <2>2. PICK r \in Moves : r = [q EXCEPT !.pc = "hook"]
    BY <2>1
  <2>3. /\ r.pc = "hook" /\ r.from = q.from /\ r.seen = q.seen /\ r.inputs = q.inputs
        /\ r.amount = q.amount /\ r.fee = q.fee
    BY <2>2 DEF Moves
  <2>4. utxoRequest' = [utxoRequest EXCEPT ![s] = r]
    BY <1>0, <1>1, <1>8, <2>2 DEF MovesInv
  <2>5. Fits(r)'
    BY <1>2, <1>8, <2>3 DEF Fits, MovePC
  <2>6. \A a \in Child : Owes(r, a) = 0 \/ (q.from = a /\ Owes(r, a) = Utxos!Total(q.inputs))
    BY <2>3 DEF Owes
  <2>. QED  BY <1>7, <2>4, <2>5, <2>6
<1>9. CASE utxoRequest' = [utxoRequest EXCEPT ![s] = Utxos!Idle]
  BY <1>7, <1>9, IdleFits
<1>10. (q.from # Master /\ utxoRequest' = [utxoRequest EXCEPT ![s].pc = "hook"])
       \/ utxoRequest' = [utxoRequest EXCEPT ![s] = Utxos!Idle]
  BY <1>1 DEF Utxos!Accept, Utxos!Done
<1>. QED  BY <1>8, <1>9, <1>10

LEMMA BroadcastInv == ASSUME OutputsInv, NEW s \in Run, Utxos!Broadcast(s) PROVE OutputsInv'
<1>1. /\ utxoRequest[s].pc = "send" /\ utxoChain' = utxoChain
      /\ utxoDeposited' = utxoDeposited /\ utxoCredited' = utxoCredited
  BY DEF Utxos!Broadcast, Utxos!Is, Utxos!ledger
<1>2. CASE Utxos!Refuse(s)
  BY <1>1, <1>2, MoveEnds DEF Utxos!Refuse
<1>3. CASE Utxos!Accept(s)
  BY <1>1, <1>3, AcceptInv
<1>. QED  BY <1>2, <1>3 DEF Utxos!Broadcast

\* The webhook reports at most what was taken.
LEMMA ReportInv == ASSUME OutputsInv, NEW s \in Run, Utxos!Hook(s) PROVE OutputsInv'
<1>0. /\ OutputsTyped /\ MovesInv /\ PaidInInv
      /\ utxoRequest[s].pc = "hook" /\ utxoRequest[s].pc \in MovePC
  BY DEF OutputsInv, Utxos!Hook, Utxos!Is, MovePC
<1>1. PICK q \in Moves : q = utxoRequest[s]
  BY <1>0, MoveFacts
<1>2. /\ q.pc = "hook" /\ Utxos!Total(q.inputs) \in Nat /\ q.fee \in Nat /\ q.from \in Child
      /\ Utxos!Total(q.inputs) > q.fee
  <2>1. Fits(q) /\ q.from \in Utxos!Address /\ Utxos!Total(q.inputs) \in Nat /\ q.fee \in Nat
        /\ q.pc = "hook"
    BY <1>0, <1>1, MoveFacts
  <2>. QED  BY <2>1 DEF Fits, MovePC, Utxos!Address
<1>3. /\ utxoRequest' = [utxoRequest EXCEPT ![s] = Utxos!Idle]
      /\ utxoChain' = utxoChain /\ utxo' = utxo /\ made' = made /\ utxoDeposited' = utxoDeposited
  BY DEF Utxos!Hook, Utxos!Done
<1>4. PICK v \in Nat : v = Utxos!Credit(q) /\ v <= Utxos!Total(q.inputs)
  BY <1>2 DEF Utxos!Credit, Utxos!Swept
<1>5. /\ utxoCredited' \in [Child -> Nat]
      /\ \A a \in Child :
           utxoCredited'[a] = utxoCredited[a]
             \/ (q.from = a /\ utxoCredited'[a] = utxoCredited[a] + v)
  <2>1. utxoCredited \in [Child -> Nat]
    BY <1>0 DEF OutputsTyped
  <2>2. utxoCredited' = [utxoCredited EXCEPT ![q.from] = @ + v] \/ utxoCredited' = utxoCredited
    BY <1>1, <1>4 DEF Utxos!Hook
  <2>. QED  BY <1>2, <2>1, <2>2
<1>6. OutputsTyped'
  BY <1>0, <1>3, <1>5 DEF OutputsTyped
<1>7. MovesInv' /\ utxoRequest'[s] = Utxos!Idle /\ \A t \in Run \ {s} : utxoRequest'[t] = utxoRequest[t]
  BY <1>0, <1>3, IdleFits, MovesOn
<1>8. ASSUME NEW a \in Child
      PROVE  utxoCredited'[a] + Owes(utxoRequest'[s], a) + Utxos!Total(Utxos!At(a))'
               <= utxoCredited[a] + Owes(utxoRequest[s], a) + Utxos!Total(Utxos!At(a))
  <2> DEFINE m == Utxos!Total(Utxos!At(a))
             n == Utxos!Total(Utxos!At(a))'
             k == Utxos!Total(q.inputs)
  <2>1. n = m
    BY <1>3 DEF Utxos!At
  <2>2. m \in Nat /\ k \in Nat /\ v <= k
    BY <1>0, <1>2, <1>4, AddressTotal
  <2>3. Owes(utxoRequest'[s], a) = 0
    BY <1>7, IdleFits
  <2>4. Owes(utxoRequest[s], a) = IF q.from = a THEN k ELSE 0
    BY <1>1, <1>2 DEF Owes
  <2>5. utxoCredited[a] \in Nat
    BY <1>0 DEF OutputsTyped
  <2>. HIDE DEF m, n, k
  <2>6. utxoCredited'[a] + Owes(utxoRequest'[s], a) + n <= utxoCredited[a] + Owes(utxoRequest[s], a) + m
    BY <1>5, <2>1, <2>2, <2>3, <2>4, <2>5
  <2>. QED  BY <2>6 DEF m, n
<1>9. PaidInInv'
  BY <1>0, <1>3, <1>6, <1>7, <1>8, PaidInStep
<1>. QED  BY <1>6, <1>7, <1>9 DEF OutputsInv

LEMMA DepositInv == ASSUME OutputsInv, NEW a \in Child, Utxos!Deposit(a) PROVE OutputsInv'
<1>0. OutputsTyped /\ MovesInv /\ PaidInInv
  BY DEF OutputsInv
<1>1. /\ made < MaxCoins /\ made' = made + 1
      /\ utxoChain' = utxoChain /\ utxoCredited' = utxoCredited /\ utxoRequest' = utxoRequest
  BY DEF Utxos!Deposit
<1>2. PICK v \in Nat \ {0} :
        /\ utxo' = utxo \cup {Utxos!Coin(made + 1, a, v)}
        /\ utxoDeposited' = [utxoDeposited EXCEPT ![a] = @ + v]
  BY OutputsAssumption DEF Utxos!Deposit
<1>3. PICK c \in Output \ utxo :
        c = Utxos!Coin(made + 1, a, v) /\ c.id = made + 1 /\ c.at = a /\ c.value = v
  BY <1>0, NewOutput DEF Utxos!Address
<1>4. OutputsTyped'
  <2>1. Purse(utxo) /\ made \in 0 .. MaxCoins /\ \A d \in utxo : d.id \in 1 .. made
    BY <1>0 DEF OutputsTyped
  <2>2. made' \in 0 .. MaxCoins /\ \A d \in utxo' : d.id \in 1 .. made'
    BY <1>1, <1>2, <1>3, <2>1, OutputsAssumption
  <2>3. Purse(utxo')
    BY <1>2, <1>3, <2>1, TotalAdd
  <2>4. utxoDeposited' \in [Child -> Nat]
    BY <1>0, <1>2 DEF OutputsTyped
  <2>. QED  BY <1>0, <1>1, <2>2, <2>3, <2>4 DEF OutputsTyped
<1>5. MovesInv'
  <2>1. ASSUME NEW s \in Run PROVE Fits(utxoRequest[s])'
    BY <1>0, <1>1 DEF MovesInv, Fits
  <2>. QED  BY <1>0, <1>1, <2>1 DEF MovesInv
<1>6. ASSUME NEW b \in Child
      PROVE  utxoCredited'[b] + Owed(b)' + Utxos!Total(Utxos!At(b))' <= utxoDeposited'[b]
  <2>1. PICK S, T : S = Utxos!At(b) /\ T = Utxos!At(b)'
    OBVIOUS
  <2>2. S = {d \in utxo : d.at = b} /\ T = {d \in utxo' : d.at = b}
    BY <2>1 DEF Utxos!At
  <2>3. Purse(S) /\ Utxos!Total(S) \in Nat
    BY <1>0, <2>1, AddressTotal
  <2>4. PICK m \in Nat : m = Owed(b)
    <3>1. \A s \in Run : Owes(utxoRequest[s], b) \in Nat
      BY <1>0, OwesNat
    <3> DEFINE f == [s \in Run |-> Owes(utxoRequest[s], b)]
    <3>2. \A s \in Run : f[s] \in Nat
      BY <3>1
    <3>3. Owed(b) = SumFunctionOnSet(f, Run)
      BY DEF Owed
    <3>. HIDE DEF f
    <3>. QED  BY <3>2, <3>3, SpendingAssumption, SumNat
  <2>5. Owed(b)' = m
    BY <1>1, <2>4 DEF Owed, Owes
  <2>6. utxoCredited[b] + m + Utxos!Total(S) <= utxoDeposited[b]
    BY <1>0, <2>1, <2>4 DEF PaidInInv
  <2>7. utxoCredited[b] \in Nat /\ utxoDeposited[b] \in Nat /\ utxoCredited'[b] = utxoCredited[b]
    BY <1>0, <1>1 DEF OutputsTyped
  <2>8. CASE b = a
    <3>1. T = S \cup {c} /\ c \notin S
      BY <1>2, <1>3, <2>2, <2>8
    <3>2. Utxos!Total(T) = Utxos!Total(S) + v
      BY <1>3, <2>3, <3>1, TotalAdd
    <3>3. utxoDeposited'[b] = utxoDeposited[b] + v
      BY <1>0, <1>2, <2>8 DEF OutputsTyped
    <3>4. utxoCredited'[b] + m + Utxos!Total(T) <= utxoDeposited'[b]
      BY <2>3, <2>6, <2>7, <3>2, <3>3
    <3>. QED  BY <2>1, <2>5, <3>4
  <2>9. CASE b # a
    <3>1. T = S
      BY <1>2, <1>3, <2>2, <2>9
    <3>2. utxoDeposited'[b] = utxoDeposited[b]
      BY <1>0, <1>2, <2>9 DEF OutputsTyped
    <3>3. utxoCredited'[b] + m + Utxos!Total(T) <= utxoDeposited'[b]
      BY <2>6, <2>7, <3>1, <3>2
    <3>. QED  BY <2>1, <2>5, <3>3
  <2>. QED  BY <2>8, <2>9
<1>7. PaidInInv'
  BY <1>6 DEF PaidInInv
<1>. QED  BY <1>4, <1>5, <1>7 DEF OutputsInv

LEMMA OutputsInit == Utxos!Init => OutputsInv
<1> SUFFICES ASSUME Utxos!Init PROVE OutputsInv
  OBVIOUS
<1> DEFINE D == DOMAIN MasterCoins
           c(n) == Utxos!Coin(n, Master, MasterCoins[n])
<1>1. /\ Len(MasterCoins) \in Nat /\ D = 1 .. Len(MasterCoins)
      /\ \A n \in D : n \in Nat /\ MasterCoins[n] \in Nat \ {0}
  BY OutputsAssumption
<1>2. IsFiniteSet(D)
  BY <1>1, FS_Interval
<1>3. \A n \in D : c(n) \in Output /\ c(n).id = n /\ c(n).at = Master
  BY <1>1 DEF Utxos!Coin, Output, Utxos!Address
<1>4. utxo = {c(n) : n \in D} /\ made = Len(MasterCoins)
  BY DEF Utxos!Init
<1>5. IsFiniteSet(utxo)
  <2> DEFINE f == [n \in D |-> c(n)]
  <2>1. f \in Surjection(D, utxo)
    BY <1>4 DEF Surjection
  <2>. HIDE DEF f, D
  <2>. QED  BY <1>2, <2>1, FS_Surjection
<1>6. OutputsTyped
  <2>1. utxoChain \in OutputChain /\ utxoDeposited \in [Child -> Nat] /\ utxoCredited \in [Child -> Nat]
    BY DEF Utxos!Init
  <2>2. made \in 0 .. MaxCoins
    BY <1>1, <1>4, OutputsAssumption
  <2>3. utxo \subseteq Output /\ \A d \in utxo : d.id \in 1 .. made
    BY <1>1, <1>3, <1>4
  <2>. QED  BY <1>5, <2>1, <2>2, <2>3 DEF OutputsTyped, Purse
<1>7. utxoRequest = [s \in Run |-> Utxos!Idle]
  BY DEF Utxos!Init
<1>8. MovesInv
  <2>1. Fits(Utxos!Idle)
    BY IdleFits DEF Fits, MovePC
  <2>. QED  BY <1>7, <2>1 DEF MovesInv
<1>9. ASSUME NEW a \in Child
      PROVE  utxoCredited[a] + Owed(a) + Utxos!Total(Utxos!At(a)) <= utxoDeposited[a]
  <2>1. utxoCredited[a] = 0 /\ utxoDeposited[a] = 0
    BY DEF Utxos!Init
  <2>2. Utxos!At(a) = {}
    BY <1>3, <1>4, OutputsAssumption DEF Utxos!At
  <2> DEFINE f == [s \in Run |-> Owes(utxoRequest[s], a)]
  <2>3. \A s \in Run : f[s] = 0
    BY <1>7, IdleFits
  <2>4. Owed(a) = SumFunctionOnSet(f, Run)
    BY DEF Owed
  <2>. HIDE DEF f
  <2>5. Owed(a) = 0
    BY <2>3, <2>4, SpendingAssumption, SumZero
  <2>. QED  BY <2>1, <2>2, <2>5, TotalNone
<1>. QED  BY <1>6, <1>8, <1>9 DEF OutputsInv, PaidInInv

LEMMA OutputsStays == OutputsInv /\ UNCHANGED Utxos!vars => OutputsInv'
<1> SUFFICES ASSUME OutputsInv, UNCHANGED Utxos!vars PROVE OutputsInv'
  OBVIOUS
<1>1. /\ utxoChain' = utxoChain /\ utxo' = utxo /\ made' = made /\ utxoRequest' = utxoRequest
      /\ utxoDeposited' = utxoDeposited /\ utxoCredited' = utxoCredited
  BY DEF Utxos!vars
<1>2. OutputsTyped'
  BY <1>1 DEF OutputsInv, OutputsTyped
<1>3. MovesInv'
  BY <1>1 DEF OutputsInv, MovesInv, Fits
<1>4. PaidInInv'
  BY <1>1 DEF OutputsInv, PaidInInv, Owed, Owes, Utxos!At
<1>. QED  BY <1>2, <1>3, <1>4 DEF OutputsInv

LEMMA OutputsSafe == OutputsInv => Utxos!TypeOK /\ Utxos!CreditsCovered /\ Utxos!InputsFit
<1> SUFFICES ASSUME OutputsInv PROVE Utxos!TypeOK /\ Utxos!CreditsCovered /\ Utxos!InputsFit
  OBVIOUS
<1>0. OutputsTyped /\ MovesInv /\ PaidInInv
  BY DEF OutputsInv
<1>1. Utxos!TypeOK
  <2>1. \A c \in utxo : c \in Output /\ c.id \in 1 .. made /\ c.at \in Utxos!Address /\ c.value > 0
    BY <1>0 DEF OutputsTyped, Purse, Output
  <2>2. \A s \in Run : utxoRequest[s].pc \in {"idle", "quote", "small", "refused", "send", "hook"}
    <3> TAKE s \in Run
    <3>1. utxoRequest[s] \in Moves \cup {Utxos!Idle}
      BY <1>0 DEF MovesInv
    <3>. QED  BY <3>1, IdleFits DEF Moves, MovePC
  <2>. QED  BY <1>0, <2>1, <2>2 DEF OutputsTyped, Utxos!TypeOK
<1>2. ASSUME NEW a \in Child PROVE utxoCredited[a] <= utxoDeposited[a]
  <2>1. \A s \in Run : Owes(utxoRequest[s], a) \in Nat
    BY <1>0, OwesNat
  <2> DEFINE f == [s \in Run |-> Owes(utxoRequest[s], a)]
             m == Owed(a)
             p == Utxos!Total(Utxos!At(a))
  <2>2. m \in Nat
    <3>1. \A s \in Run : f[s] \in Nat
      BY <2>1
    <3>2. m = SumFunctionOnSet(f, Run)
      BY DEF Owed
    <3>. HIDE DEF f, m
    <3>. QED  BY <3>1, <3>2, SpendingAssumption, SumNat
  <2>3. p \in Nat
    BY <1>0, AddressTotal
  <2>4. utxoCredited[a] + m + p <= utxoDeposited[a]
    BY <1>0 DEF PaidInInv
  <2>5. utxoCredited[a] \in Nat /\ utxoDeposited[a] \in Nat
    BY <1>0 DEF OutputsTyped
  <2>. HIDE DEF m, p
  <2>. QED  BY <2>2, <2>3, <2>4, <2>5
<1>3. ASSUME NEW s \in Run, utxoRequest[s].pc = "refused"
      PROVE  Utxos!Total(utxoRequest[s].seen) < utxoRequest[s].amount + utxoRequest[s].fee
               \/ utxoRequest[s].fee > Reserve[utxoChain]
  BY <1>0, <1>3 DEF MovesInv, Fits, MovePC
<1>4. ASSUME NEW s \in Run, utxoRequest[s].pc = "send"
      PROVE  Utxos!Total(utxoRequest[s].inputs) - Utxos!Total(Utxos!Outputs(utxoRequest[s]))
               - utxoRequest[s].amount - utxoRequest[s].fee \in 0 .. Dust[utxoChain]
  BY <1>4, OutputsFacts
<1>5. Utxos!CreditsCovered
  BY <1>2 DEF Utxos!CreditsCovered
<1>6. Utxos!InputsFit
  BY <1>3, <1>4 DEF Utxos!InputsFit, Utxos!Is
<1>. QED  BY <1>1, <1>5, <1>6

\* On chains that keep outputs: types; a child address's user is never credited more than came in, however
\* sweeps of it overlap, a withdrawal is refused only for want of coins or of a
\* reserve, and what is sent pays out what it takes but for its fee and dust.
THEOREM OutputsHold == Utxos!Spec => [](Utxos!TypeOK /\ Utxos!CreditsCovered /\ Utxos!InputsFit)
<1>1. OutputsInv /\ [Utxos!Next]_(Utxos!vars) => OutputsInv'
  <2> SUFFICES ASSUME OutputsInv, [Utxos!Next]_(Utxos!vars) PROVE OutputsInv'
    OBVIOUS
  <2>1. ASSUME NEW s \in Run, Utxos!Step(s) PROVE OutputsInv'
    BY <2>1, ReadForSweepInv, ReadForWithdrawalInv, QuoteInv, RefusalInv, BroadcastInv, ReportInv
    DEF Utxos!Step
  <2>2. ASSUME NEW a \in Child, Utxos!Deposit(a) PROVE OutputsInv'
    BY <2>2, DepositInv
  <2>3. CASE UNCHANGED Utxos!vars
    BY <2>3, OutputsStays
  <2>. QED  BY <2>1, <2>2, <2>3 DEF Utxos!Next
<1>. QED  BY <1>1, OutputsInit, OutputsSafe, PTL DEF Utxos!Spec

-----------------------------------------------------------------------------
(* The parts together.                                                     *)

LEMMA AllParts == AllSpec => Spec /\ Accounts!Spec /\ Utxos!Spec
<1>1. AllInit => Init /\ Accounts!Init /\ Utxos!Init
  BY DEF AllInit
<1>2. [AllNext]_allVars => /\ [Next]_vars
                           /\ [Accounts!Next]_(Accounts!vars) /\ [Utxos!Next]_(Utxos!vars)
  BY DEF AllNext, allVars, vars, accounts, outputs, Accounts!vars, Utxos!vars
<1>. QED  BY <1>1, <1>2, PTL DEF AllSpec, Spec, Accounts!Spec, Utxos!Spec

\* Types: in every reachable state of every part, whatever the prices, balances
\* and fees and however many requests overlap.
THEOREM SpendingTyped == AllSpec => []AllTypesOK
BY TypeCorrect, AccountsHold, OutputsHold, AllParts, PTL DEF AllTypesOK

\* What the users of swept addresses are credited came in, on every chain, however
\* the sweeps of one address overlap and whichever of them the chain refuses.
THEOREM ChainCovered == AllSpec => []ChainCreditsCovered
BY AccountsHold, OutputsHold, AllParts, PTL DEF ChainCreditsCovered

\* Withdrawals of administrators are refused for want of coins or of a reserve, get
\* their change back and a row only when the chain has carried them out, however
\* many of them look at the same balance.
THEOREM WithdrawalsSound == AllSpec => []WithdrawalsHold
BY AccountsHold, OutputsHold, AllParts, PTL DEF WithdrawalsHold
=============================================================================
