--------------------------- MODULE DepositsProofs ---------------------------
(***************************************************************************)
(* Proofs about Deposits, for any number of deposits and of deliveries at  *)
(* the same time, and any bounds on failures.                              *)
(***************************************************************************)
EXTENDS Deposits, TLAPS

\* What the point a delivery stands at implies of the event it handles.
Working ==
  \A w \in Worker :
    /\ worker[w].pc # "idle" => At(w) \in Deposit /\ EventOf(w) \in Event
    /\ worker[w].pc \in {"hook", "insert"} => EventOf(w) # "failed"
    /\ worker[w].pc \in {"fee", "mail"} => EventOf(w) = "successful"
    /\ worker[w].pc = "update" => EventOf(w) # "confirmation"

Typed == TypeOK /\ Working

PC == {"idle", "claim", "look", "hook", "insert", "update", "fee", "mail", "unclaim"}

\* A delivery is a record with these fields, and moving it changes one.
LEMMA DeliveryMoves ==
  ASSUME NEW rec \in Delivery
  PROVE  /\ rec.pc \in PC /\ rec.at \in Deposit \cup {NoDeposit}
         /\ rec.event \in Event \cup {"none"} /\ rec.priced \in BOOLEAN
         /\ \A pc \in PC : /\ [rec EXCEPT !.pc = pc] \in Delivery
                           /\ [rec EXCEPT !.pc = pc].pc = pc
                           /\ [rec EXCEPT !.pc = pc].at = rec.at
                           /\ [rec EXCEPT !.pc = pc].event = rec.event
                           /\ [rec EXCEPT !.pc = pc].priced = rec.priced
BY DEF Delivery, PC

LEMMA IdleDelivery == Idle \in Delivery /\ Idle.pc = "idle"
BY DEF Idle, Delivery

LEMMA InitTyped == Init => Typed
<1> SUFFICES ASSUME Init PROVE Typed
  OBVIOUS
<1>1. TypeOK
  BY IdleDelivery, ConstantsAssumption DEF Init, TypeOK, Row, Status
<1>2. Working
  BY IdleDelivery DEF Init, Working
<1>. QED  BY <1>1, <1>2 DEF Typed

\* Goto and Finish change one delivery.
LEMMA GotoEffect ==
  ASSUME Typed, NEW w \in Worker, NEW pc \in PC, Goto(w, pc)
  PROVE  /\ worker' \in [Worker -> Delivery]
         /\ worker'[w].pc = pc /\ worker'[w].at = At(w) /\ worker'[w].event = EventOf(w)
         /\ worker'[w].priced = worker[w].priced
         /\ \A v \in Worker \ {w} : worker'[v] = worker[v]
<1>1. worker \in [Worker -> Delivery] /\ worker[w] \in Delivery
  BY DEF Typed, TypeOK
<1> DEFINE rec == [worker[w] EXCEPT !.pc = pc]
<1>2. worker' = [worker EXCEPT ![w] = rec]
  BY <1>1 DEF Goto
<1>3. rec \in Delivery /\ rec.pc = pc /\ rec.at = At(w) /\ rec.event = EventOf(w)
      /\ rec.priced = worker[w].priced
  BY <1>1, DeliveryMoves DEF At, EventOf
<1> HIDE DEF rec
<1>. QED  BY <1>1, <1>2, <1>3

LEMMA FinishEffect ==
  ASSUME Typed, NEW w \in Worker, worker[w].pc # "idle", Finish(w)
  PROVE  /\ worker' \in [Worker -> Delivery] /\ worker'[w] = Idle
         /\ \A v \in Worker \ {w} : worker'[v] = worker[v]
         /\ acked' \in [Deposit -> SUBSET Event]
<1>1. At(w) \in Deposit /\ EventOf(w) \in Event
  BY DEF Typed, Working
<1>. QED  BY <1>1, IdleDelivery DEF Typed, TypeOK, Finish, Acknowledge

\* What a step of delivery w may do to the deliveries: it moves w to one of
\* the given points, keeping what w handles, or ends it.
Moves(w, pcs) ==
  /\ worker' \in [Worker -> Delivery]
  /\ acked' \in [Deposit -> SUBSET Event]
  /\ \A v \in Worker \ {w} : worker'[v] = worker[v]
  /\ \/ worker'[w] = Idle
     \/ /\ worker'[w].pc \in pcs
        /\ worker'[w].at = At(w) /\ worker'[w].event = EventOf(w)

LEMMA ContinueMoves ==
  ASSUME Typed, NEW w \in Worker, worker[w].pc # "idle", NEW pc \in PC \cup {"done"}, Continue(w, pc)
  PROVE  Moves(w, {pc}) /\ (pc # "done" => worker'[w].pc = pc)
<1>1. CASE pc = "done"
  BY <1>1, FinishEffect DEF Continue, Moves
<1>2. CASE pc # "done"
  <2>1. pc \in PC /\ Goto(w, pc) /\ acked' = acked
    BY <1>2 DEF Continue
  <2>. QED  BY <1>2, <2>1, GotoEffect DEF Moves, Typed, TypeOK
<1>. QED  BY <1>1, <1>2

LEMMA GotoMoves ==
  ASSUME Typed, NEW w \in Worker, NEW pc \in PC, Goto(w, pc), acked' = acked
  PROVE  Moves(w, {pc})
BY GotoEffect DEF Moves, Typed, TypeOK

\* Where each step of a delivery takes it.
LEMMA HandleMoves ==
  ASSUME Typed, NEW w \in Worker
  PROVE  /\ Claim(w) => Moves(w, {"look"})
         /\ Unclaim(w) => Moves(w, {})
         /\ ConfirmationLook(w) => Moves(w, {"hook"})
         /\ SuccessfulLook(w) => Moves(w, {"update", "hook"})
         /\ SuccessfulUnknown(w) => Moves(w, {})
         /\ OnHoldLook(w) => Moves(w, {"hook", "update"})
         /\ FailedLook(w) => Moves(w, {"update"})
         /\ HookInsert(w) => Moves(w, {"unclaim"}) \/ (Moves(w, {"insert"}) /\ At(w) \notin hooked)
         /\ TxInsert(w) => Moves(w, {"fee"}) /\ (worker'[w].pc = "fee" => EventOf(w) = "successful")
         /\ SuccessfulUpdate(w) => Moves(w, {"fee"})
         /\ OtherUpdate(w) => Moves(w, {})
         /\ Fee(w) => Moves(w, {"mail"})
         /\ Mail(w) => Moves(w, {"unclaim"}) /\ (worker'[w].pc = "unclaim" => At(w) \in Closed)
         /\ StatementFails(w) =>
              Moves(w, {"unclaim"})
              /\ (worker'[w].pc = "unclaim" => worker[w].pc \in {"look", "hook", "insert", "update", "fee"})
<1>0. \A pc \in PC \cup {"done"} : worker[w].pc # "idle" /\ Continue(w, pc) =>
        Moves(w, {pc}) /\ (pc # "done" => worker'[w].pc = pc)
  BY ContinueMoves
<1>g. \A pc \in PC : Goto(w, pc) /\ acked' = acked => Moves(w, {pc}) /\ worker'[w].pc = pc
  BY GotoMoves, GotoEffect
<1>f. worker[w].pc # "idle" /\ Finish(w) => Moves(w, {}) /\ worker'[w] = Idle
  BY FinishEffect DEF Moves
<1>i. worker' = [worker EXCEPT ![w] = Idle] /\ acked' = acked => Moves(w, {}) /\ worker'[w] = Idle
  BY IdleDelivery DEF Moves, Typed, TypeOK
<1>w. \A pcs, more : Moves(w, pcs) /\ pcs \subseteq more => Moves(w, more)
  BY DEF Moves
<1>d. Moves(w, {"done"}) => Moves(w, {})
  <2>1. worker'[w] # Idle => worker'[w].pc # "done" \/ ~Moves(w, {"done"})
    <3>1. Moves(w, {"done"}) => worker'[w] \in Delivery
      BY DEF Moves
    <3>2. \A rec \in Delivery : rec.pc # "done"
      BY DEF Delivery
    <3>. QED  BY <3>1, <3>2
  <2>. QED  BY <2>1 DEF Moves
<1>c. \A pc \in PC \cup {"done"} : worker[w].pc # "idle" /\ Continue(w, pc) =>
        IF pc = "done" THEN Moves(w, {}) /\ worker'[w] = Idle ELSE Moves(w, {pc}) /\ worker'[w].pc = pc
  BY <1>0, <1>d, <1>f DEF Continue
<1> HIDE DEF Moves
<1>l. \A e, pc : Look(w, e, pc) => worker[w].pc = "look" /\ Continue(w, pc)
  BY DEF Look
<1> USE DEF PC
<1>1. Claim(w) => Moves(w, {"look"})
  BY <1>c, <1>w DEF Claim
<1>2. Unclaim(w) => Moves(w, {})
  BY <1>i DEF Unclaim
<1>3. ConfirmationLook(w) => Moves(w, {"hook"})
  BY <1>c, <1>l, <1>w DEF ConfirmationLook
<1>4. SuccessfulLook(w) => Moves(w, {"update", "hook"})
  <2> SUFFICES ASSUME SuccessfulLook(w) PROVE Moves(w, {"update", "hook"})
    OBVIOUS
  <2>1. PICK priced \in BOOLEAN :
          worker' = [worker EXCEPT ![w] = [[worker[w] EXCEPT !.priced = priced] EXCEPT
                                             !.pc = IF At(w) \in hooked THEN "update" ELSE "hook"]]
    BY DEF SuccessfulLook, Typed, TypeOK
  <2> DEFINE pc == IF At(w) \in hooked THEN "update" ELSE "hook"
             rec == [[worker[w] EXCEPT !.priced = priced] EXCEPT !.pc = pc]
  <2>2. worker[w] \in Delivery
    BY DEF Typed, TypeOK
  <2>3. rec \in Delivery /\ rec.pc \in {"update", "hook"} /\ rec.at = At(w) /\ rec.event = EventOf(w)
    BY <2>2 DEF Delivery, At, EventOf
  <2>4. acked' = acked
    BY DEF SuccessfulLook
  <2>5. worker' = [worker EXCEPT ![w] = rec]
    BY <2>1
  <2> HIDE DEF rec
  <2>. QED  BY <2>3, <2>4, <2>5 DEF Moves, Typed, TypeOK
<1>5. SuccessfulUnknown(w) => Moves(w, {})
  BY <1>c, <1>l DEF SuccessfulUnknown
<1>6. OnHoldLook(w) => Moves(w, {"hook", "update"})
  BY <1>c, <1>l, <1>w DEF OnHoldLook
<1>7. FailedLook(w) => Moves(w, {"update"})
  BY <1>c, <1>l, <1>w DEF FailedLook
<1>8. HookInsert(w) => Moves(w, {"unclaim"}) \/ (Moves(w, {"insert"}) /\ At(w) \notin hooked)
  BY <1>c, <1>w DEF HookInsert
<1>9. TxInsert(w) => Moves(w, {"fee"}) /\ (worker'[w].pc = "fee" => EventOf(w) = "successful")
  BY <1>c, <1>w, IdleDelivery DEF TxInsert
<1>10. SuccessfulUpdate(w) => Moves(w, {"fee"})
  BY <1>g DEF SuccessfulUpdate
<1>11. OtherUpdate(w) => Moves(w, {})
  BY <1>f DEF OtherUpdate
<1>12. Fee(w) => Moves(w, {"mail"})
  BY <1>g DEF Fee
<1>13. Mail(w) => Moves(w, {"unclaim"}) /\ (worker'[w].pc = "unclaim" => At(w) \in Closed)
  BY <1>c, <1>w, IdleDelivery DEF Mail
<1>14. StatementFails(w) =>
         Moves(w, {"unclaim"})
         /\ (worker'[w].pc = "unclaim" => worker[w].pc \in {"look", "hook", "insert", "update", "fee"})
  BY <1>f, <1>g, <1>i, <1>w, IdleDelivery DEF StatementFails
<1>. QED  BY <1>1, <1>2, <1>3, <1>4, <1>5, <1>6, <1>7, <1>8, <1>9, <1>10, <1>11, <1>12, <1>13, <1>14

\* The points a delivery of w's event may stand at.
Allowed(w, pc) ==
  /\ pc \in {"hook", "insert"} => EventOf(w) # "failed"
  /\ pc \in {"fee", "mail"} => EventOf(w) = "successful"
  /\ pc = "update" => EventOf(w) # "confirmation"

\* A delivery that moves to a point its event allows keeps what Working says.
LEMMA WorkingMove ==
  ASSUME Typed, NEW w \in Worker, worker[w].pc # "idle", NEW pcs \in SUBSET PC, Moves(w, pcs),
         \A pc \in pcs : Allowed(w, pc)
  PROVE  Working'
BY IdleDelivery DEF Typed, Working, Moves, At, EventOf, Allowed

LEMMA HandleTyped ==
  ASSUME Typed, NEW w \in Worker, Handle(w) \/ StatementFails(w)
  PROVE  Typed'
<1>1. worker[w].pc # "idle"
  BY DEF Handle, Claim, Unclaim, ConfirmationLook, SuccessfulLook, SuccessfulUnknown, OnHoldLook,
         FailedLook, Look, HookInsert, TxInsert, SuccessfulUpdate, OtherUpdate, Fee, Mail, StatementFails
<1>2. At(w) \in Deposit /\ EventOf(w) \in Event
  BY <1>1 DEF Typed, Working
<1>w. worker[w].pc \in {"hook", "insert"} => EventOf(w) # "failed"
  BY DEF Typed, Working
<1>e. EventOf(w) = "confirmation" \/ EventOf(w) = "successful" \/ EventOf(w) = "on_hold" \/ EventOf(w) = "failed"
  BY <1>2 DEF Event
<1>3. Moves(w, PC) /\ Working'
  <2> DEFINE ok(pcs) == \A pc \in pcs : Allowed(w, pc)
  <2>1. \A pcs \in SUBSET PC : Moves(w, pcs) /\ ok(pcs) => Moves(w, PC) /\ Working'
    <3> SUFFICES ASSUME NEW pcs \in SUBSET PC, Moves(w, pcs), ok(pcs) PROVE Moves(w, PC) /\ Working'
      OBVIOUS
    <3>1. Moves(w, PC)
      BY DEF Moves
    <3>. QED  BY <1>1, <3>1, WorkingMove
  <2>2. ok({"look"}) /\ ok({}) /\ ok({"unclaim"})
    BY DEF Allowed
  <2>3. CASE \/ Claim(w) \/ Unclaim(w) \/ SuccessfulUnknown(w) \/ OtherUpdate(w) \/ Mail(w) \/ StatementFails(w)
    <3> HIDE DEF ok
    <3>. QED  BY <2>1, <2>2, <2>3, HandleMoves DEF PC
  <2>4. CASE ConfirmationLook(w)
    <3>1. ok({"hook"})
      BY <2>4 DEF ConfirmationLook, Look, Allowed
    <3> HIDE DEF ok
    <3>. QED  BY <2>1, <2>4, <3>1, HandleMoves DEF PC
  <2>5. CASE SuccessfulLook(w)
    <3>1. ok({"update", "hook"})
      BY <2>5 DEF SuccessfulLook, Allowed
    <3> HIDE DEF ok
    <3>. QED  BY <2>1, <2>5, <3>1, HandleMoves DEF PC
  <2>6. CASE OnHoldLook(w)
    <3>1. ok({"hook", "update"})
      BY <2>6 DEF OnHoldLook, Look, Allowed
    <3> HIDE DEF ok
    <3>. QED  BY <2>1, <2>6, <3>1, HandleMoves DEF PC
  <2>7. CASE FailedLook(w)
    <3>1. ok({"update"})
      BY <2>7 DEF FailedLook, Look, Allowed
    <3> HIDE DEF ok
    <3>. QED  BY <2>1, <2>7, <3>1, HandleMoves DEF PC
  <2>8. CASE HookInsert(w)
    <3>1. ok({"insert"})
      BY <1>w, <2>8 DEF HookInsert, Allowed
    <3> HIDE DEF ok
    <3>. QED  BY <2>1, <2>2, <2>8, <3>1, HandleMoves DEF PC
  <2>9. CASE TxInsert(w)
    <3>1. CASE EventOf(w) = "successful"
      <4>1. ok({"fee"})
        BY <3>1 DEF Allowed
      <4> HIDE DEF ok
      <4>. QED  BY <2>1, <2>9, <4>1, HandleMoves DEF PC
    <3>2. CASE EventOf(w) # "successful"
      <4>1. Moves(w, {})
        BY <2>9, <3>2, HandleMoves DEF Moves
      <4> HIDE DEF ok
      <4>. QED  BY <2>1, <2>2, <4>1
    <3>. QED  BY <3>1, <3>2
  <2>10. CASE SuccessfulUpdate(w)
    <3>1. ok({"fee"})
      BY <2>10 DEF SuccessfulUpdate, Allowed
    <3> HIDE DEF ok
    <3>. QED  BY <2>1, <2>10, <3>1, HandleMoves DEF PC
  <2>11. CASE Fee(w)
    <3>1. ok({"mail"})
      BY <2>11 DEF Fee, Typed, Working, Allowed
    <3> HIDE DEF ok
    <3>. QED  BY <2>1, <2>11, <3>1, HandleMoves DEF PC
  <2>. QED  BY <2>3, <2>4, <2>5, <2>6, <2>7, <2>8, <2>9, <2>10, <2>11 DEF Handle
<1>4. worker' \in [Worker -> Delivery] /\ acked' \in [Deposit -> SUBSET Event]
  BY <1>3 DEF Moves
<1> USE DEF Typed, TypeOK, bank
<1>5. tx[At(w)] \in Row /\ worker[w].priced \in BOOLEAN
  BY <1>2 DEF Delivery
<1>6. \A n \in 0 .. 2 : More(n) \in 0 .. 2
  BY DEF More
<1>7. CASE Claim(w) \/ Unclaim(w)
  BY <1>2, <1>3, <1>4, <1>7 DEF Claim, Unclaim
<1>8. CASE \/ ConfirmationLook(w) \/ SuccessfulLook(w) \/ SuccessfulUnknown(w) \/ OnHoldLook(w)
           \/ FailedLook(w) \/ Mail(w)
  BY <1>3, <1>4, <1>8 DEF ConfirmationLook, SuccessfulLook, SuccessfulUnknown, OnHoldLook, FailedLook, Look, Mail
<1>9. CASE HookInsert(w)
  BY <1>2, <1>3, <1>4, <1>9 DEF HookInsert
<1>10. CASE TxInsert(w)
  <2>1. Opening(EventOf(w)) \in Status
    BY <1>e, <1>w, <1>10 DEF TxInsert, Opening, Status
  <2>2. [status |-> Opening(EventOf(w)), valued |-> worker[w].priced] \in Row
    BY <1>5, <2>1 DEF Row
  <2>3. rows[At(w)] \in 0 .. 2
    BY <1>2
  <2>. QED  BY <1>2, <1>3, <1>4, <1>6, <1>10, <2>2, <2>3 DEF TxInsert
<1>11. CASE SuccessfulUpdate(w)
  <2>1. [status |-> "success", valued |-> worker[w].priced] \in Row
    BY <1>5 DEF Row, Status
  <2>. QED  BY <1>2, <1>3, <1>4, <1>11, <2>1 DEF SuccessfulUpdate
<1>12. CASE OtherUpdate(w)
  <2> DEFINE rec == [tx[At(w)] EXCEPT !.status = OtherStatus(EventOf(w))]
  <2>1. rec \in Row
    BY <1>5 DEF Row, Status, OtherStatus
  <2>2. tx' = IF tx[At(w)].status = "none" THEN tx ELSE [tx EXCEPT ![At(w)] = rec]
    BY <1>12 DEF OtherUpdate
  <2> HIDE DEF rec
  <2>3. tx' \in [Deposit -> Row]
    BY <1>2, <2>1, <2>2
  <2>. QED  BY <1>3, <1>4, <1>12, <2>3 DEF OtherUpdate
<1>13. CASE Fee(w)
  <2>1. fees[At(w)] \in 0 .. 2
    BY <1>2
  <2>. QED  BY <1>2, <1>3, <1>4, <1>6, <1>13, <2>1 DEF Fee
<1>14. CASE StatementFails(w)
  BY <1>3, <1>4, <1>14, ConstantsAssumption DEF StatementFails
<1>. QED  BY <1>7, <1>8, <1>9, <1>10, <1>11, <1>12, <1>13, <1>14 DEF Handle

LEMMA OtherTyped ==
  ASSUME Typed, \/ \E w \in Worker, d \in Deposit, e \in Event : Deliver(w, d, e)
                \/ \E d \in Deposit : Detect(d) \/ Hold(d) \/ Succeed(d) \/ Reject(d)
                \/ Crash
  PROVE  Typed'
<1> USE DEF Typed, TypeOK, bank
<1>1. ASSUME NEW w \in Worker, NEW d \in Deposit, NEW e \in Event, Deliver(w, d, e)
      PROVE  Typed'
  <2> DEFINE rec == [Idle EXCEPT !.pc = "claim", !.at = d, !.event = e]
  <2>1. rec \in Delivery /\ rec.pc = "claim" /\ rec.at = d /\ rec.event = e
    BY DEF Idle, Delivery
  <2>2. worker' = worker \/ worker' = [worker EXCEPT ![w] = rec]
    BY <1>1 DEF Deliver
  <2> HIDE DEF rec
  <2>3. worker' \in [Worker -> Delivery]
    BY <2>1, <2>2
  <2>5. \A v \in Worker : worker'[v] = worker[v] \/ worker'[v] = rec
    BY <2>2
  <2>6. Working'
    BY <2>1, <2>5 DEF Working, At, EventOf
  <2>7. acked' = acked \/ acked' = [acked EXCEPT ![d] = acked[d] \cup {e}]
    BY <1>1 DEF Deliver, Acknowledge
  <2>4. acked' \in [Deposit -> SUBSET Event]
    BY <2>7
  <2>. QED  BY <1>1, <2>3, <2>4, <2>6 DEF Deliver
<1>2. ASSUME NEW d \in Deposit, Detect(d) \/ Hold(d) \/ Succeed(d) \/ Reject(d)
      PROVE  Typed'
  <2>1. Working'
    BY <1>2 DEF Detect, Hold, Succeed, Reject, Announce, Working, At, EventOf
  <2>. QED  BY <1>2, <2>1 DEF Detect, Hold, Succeed, Reject, Announce, Event
<1>3. CASE Crash
  BY <1>3, IdleDelivery, ConstantsAssumption DEF Crash, Working
<1>. QED  BY <1>1, <1>2, <1>3

LEMMA NextTyped == Typed /\ [Next]_vars => Typed'
<1>1. Typed /\ UNCHANGED vars => Typed'
  BY DEF Typed, TypeOK, Working, At, EventOf, vars
<1>. QED  BY <1>1, HandleTyped, OtherTyped DEF Next

LEMMA AlwaysTyped == Spec => []Typed
BY InitTyped, NextTyped, PTL DEF Spec

\* Every variable keeps its type, however many deliveries of however many
\* deposits are in progress.
THEOREM TypeCorrect == Spec => []TypeOK
<1>1. Typed => TypeOK
  BY DEF Typed
<1>. QED  BY <1>1, AlwaysTyped, PTL

-----------------------------------------------------------------------------
(* One transactions row per deposit                                        *)

\* A deposit without a webhooks row has no transactions row, and the one
\* delivery that inserted the webhooks row is the one that may insert the
\* transactions row.
RowInv ==
  /\ \A d \in Deposit : d \notin hooked => rows[d] = 0
  /\ \A d \in Deposit : rows[d] = 0 => tx[d].status = "none"
  /\ \A w \in Worker : worker[w].pc = "insert" => At(w) \in hooked /\ rows[At(w)] = 0
  /\ \A v, w \in Worker :
       worker[v].pc = "insert" /\ worker[w].pc = "insert" /\ At(v) = At(w) => v = w
  /\ DepositRowOnce

LEMMA InitRow == Init => RowInv
BY IdleDelivery DEF Init, RowInv, DepositRowOnce

\* Nobody comes to the insert, and nothing it depends on changes.
LEMMA RowQuiet ==
  ASSUME RowInv, hooked' = hooked, rows' = rows,
         \A d \in Deposit : tx[d].status = "none" => tx'[d].status = "none",
         \A v \in Worker : worker'[v] = worker[v] \/ worker'[v].pc # "insert"
  PROVE  RowInv'
BY DEF RowInv, DepositRowOnce, At

LEMMA RowHandle ==
  ASSUME Typed, RowInv, NEW w \in Worker, Handle(w) \/ StatementFails(w)
  PROVE  RowInv'
<1> USE IdleDelivery
<1>1. worker[w].pc # "idle"
  BY DEF Handle, Claim, Unclaim, ConfirmationLook, SuccessfulLook, SuccessfulUnknown, OnHoldLook,
         FailedLook, Look, HookInsert, TxInsert, SuccessfulUpdate, OtherUpdate, Fee, Mail, StatementFails
<1>2. At(w) \in Deposit /\ tx \in [Deposit -> Row] /\ tx[At(w)] \in Row /\ rows \in [Deposit -> 0 .. 2]
  BY <1>1 DEF Typed, TypeOK, Working
<1>3. \A pcs : Moves(w, pcs) /\ "insert" \notin pcs
               => \A v \in Worker : worker'[v] = worker[v] \/ worker'[v].pc # "insert"
  BY DEF Moves
<1>4. CASE \/ Claim(w) \/ Unclaim(w) \/ Fee(w) \/ Mail(w) \/ StatementFails(w)
           \/ ConfirmationLook(w) \/ SuccessfulLook(w) \/ SuccessfulUnknown(w) \/ OnHoldLook(w) \/ FailedLook(w)
  <2>1. hooked' = hooked /\ rows' = rows /\ tx' = tx
    BY <1>4 DEF Claim, Unclaim, Fee, Mail, StatementFails, ConfirmationLook, SuccessfulLook,
                SuccessfulUnknown, OnHoldLook, FailedLook, Look
  <2>2. \A v \in Worker : worker'[v] = worker[v] \/ worker'[v].pc # "insert"
    BY <1>3, <1>4, HandleMoves
  <2>. QED  BY <2>1, <2>2, RowQuiet
<1>5. CASE HookInsert(w)
  <2>1. hooked' = hooked \cup {At(w)} /\ rows' = rows /\ tx' = tx
    BY <1>5 DEF HookInsert
  <2>2. CASE Moves(w, {"unclaim"})
    <3>1. \A v \in Worker : worker'[v] = worker[v] \/ worker'[v].pc # "insert"
      BY <1>3, <2>2
    <3>. QED  BY <2>1, <3>1 DEF RowInv, DepositRowOnce, At
  <2>3. CASE Moves(w, {"insert"}) /\ At(w) \notin hooked
    <3>1. \A v \in Worker \ {w} : worker'[v] = worker[v]
      BY <2>3 DEF Moves
    <3>2. worker'[w].pc = "insert" => worker'[w].at = At(w)
      BY <2>3 DEF Moves
    <3>3. rows[At(w)] = 0
      BY <1>2, <2>3 DEF RowInv
    <3>4. \A v \in Worker \ {w} : worker[v].pc = "insert" => worker[v].at # At(w)
      BY <2>3 DEF RowInv, At
    <3>5. \A v \in Worker : worker'[v].pc = "insert" => worker'[v].at \in hooked' /\ rows'[worker'[v].at] = 0
      BY <2>1, <3>1, <3>2, <3>3 DEF RowInv, At
    <3>6. \A u, v \in Worker :
            worker'[u].pc = "insert" /\ worker'[v].pc = "insert" /\ worker'[u].at = worker'[v].at => u = v
      BY <3>1, <3>2, <3>4 DEF RowInv, At
    <3>. QED  BY <2>1, <3>5, <3>6 DEF RowInv, DepositRowOnce, At
  <2>. QED  BY <1>5, <2>2, <2>3, HandleMoves
<1>6. CASE TxInsert(w)
  <2>1. /\ worker[w].pc = "insert" /\ hooked' = hooked
        /\ rows' = [rows EXCEPT ![At(w)] = More(rows[At(w)])]
        /\ \A d \in Deposit \ {At(w)} : tx'[d] = tx[d]
    BY <1>2, <1>6 DEF TxInsert
  <2>2. rows[At(w)] = 0 /\ rows'[At(w)] = 1 /\ \A d \in Deposit \ {At(w)} : rows'[d] = rows[d]
    BY <1>2, <2>1 DEF RowInv, More
  <2>3. At(w) \in hooked
    BY <2>1 DEF RowInv
  <2>4. \A v \in Worker : worker'[v] = worker[v] \/ worker'[v].pc # "insert"
    BY <1>3, <1>6, HandleMoves
  <2>5. worker'[w].pc # "insert"
    BY <1>6, HandleMoves DEF Moves
  <2>. QED  BY <1>2, <2>1, <2>2, <2>3, <2>4, <2>5 DEF RowInv, DepositRowOnce, At
<1>7. CASE SuccessfulUpdate(w) \/ OtherUpdate(w)
  <2>1. hooked' = hooked /\ rows' = rows
    BY <1>7 DEF SuccessfulUpdate, OtherUpdate
  <2>2. \A d \in Deposit : tx[d].status = "none" => tx'[d].status = "none"
    BY <1>2, <1>7 DEF SuccessfulUpdate, OtherUpdate
  <2>3. \A v \in Worker : worker'[v] = worker[v] \/ worker'[v].pc # "insert"
    BY <1>3, <1>7, HandleMoves
  <2>. QED  BY <2>1, <2>2, <2>3, RowQuiet
<1>. QED  BY <1>4, <1>5, <1>6, <1>7 DEF Handle

\* A delivery that starts stands at the claim, and a restart ends them all.
LEMMA OtherWorkers ==
  ASSUME Typed, \/ \E w \in Worker, d \in Deposit, e \in Event : Deliver(w, d, e)
                \/ \E d \in Deposit : Detect(d) \/ Hold(d) \/ Succeed(d) \/ Reject(d)
                \/ Crash
  PROVE  /\ \A v \in Worker : \/ worker'[v] = worker[v] \/ worker'[v] = Idle
                               \/ /\ worker'[v].pc = "claim" /\ worker'[v].at \in Deposit
                                  /\ worker'[v].event \in sent[worker'[v].at]
         /\ UNCHANGED <<hooked, rows, tx, marker, fees>>
<1>1. ASSUME NEW w \in Worker, NEW d \in Deposit, NEW e \in Event, Deliver(w, d, e)
      PROVE  \A v \in Worker : \/ worker'[v] = worker[v] \/ worker'[v] = Idle
                               \/ /\ worker'[v].pc = "claim" /\ worker'[v].at \in Deposit
                                  /\ worker'[v].event \in sent[worker'[v].at]
  <2> DEFINE rec == [Idle EXCEPT !.pc = "claim", !.at = d, !.event = e]
  <2>1. rec.pc = "claim" /\ rec.at = d /\ rec.event = e
    BY DEF Idle
  <2>2. worker' = worker \/ worker' = [worker EXCEPT ![w] = rec]
    BY <1>1 DEF Deliver
  <2>3. e \in sent[d]
    BY <1>1 DEF Deliver
  <2> HIDE DEF rec
  <2>4. \A v \in Worker : worker'[v] = worker[v] \/ worker'[v] = rec
    BY <2>2 DEF Typed, TypeOK
  <2>. QED  BY <2>1, <2>3, <2>4
<1>2. ASSUME NEW d \in Deposit, Detect(d) \/ Hold(d) \/ Succeed(d) \/ Reject(d)
      PROVE  worker' = worker
  BY <1>2 DEF Detect, Hold, Succeed, Reject, Announce
<1>3. CASE Crash
  BY <1>3 DEF Crash
<1>4. UNCHANGED <<hooked, rows, tx, marker, fees>>
  BY DEF Deliver, Detect, Hold, Succeed, Reject, Announce, Crash
<1>. QED  BY <1>1, <1>2, <1>3, <1>4

LEMMA NextRow == Typed /\ RowInv /\ [Next]_vars => RowInv'
<1> SUFFICES ASSUME Typed, RowInv, [Next]_vars PROVE RowInv'
  OBVIOUS
<1>1. CASE UNCHANGED vars
  BY <1>1 DEF RowInv, DepositRowOnce, At, vars
<1>2. CASE \E w \in Worker : Handle(w) \/ StatementFails(w)
  BY <1>2, RowHandle
<1>3. CASE \/ \E w \in Worker, d \in Deposit, e \in Event : Deliver(w, d, e)
           \/ \E d \in Deposit : Detect(d) \/ Hold(d) \/ Succeed(d) \/ Reject(d)
           \/ Crash
  <2>1. \A v \in Worker : worker'[v] = worker[v] \/ worker'[v].pc # "insert"
    BY <1>3, OtherWorkers, IdleDelivery
  <2>2. hooked' = hooked /\ rows' = rows /\ tx' = tx
    BY <1>3, OtherWorkers
  <2>. QED  BY <2>1, <2>2, RowQuiet
<1>. QED  BY <1>1, <1>2, <1>3 DEF Next

LEMMA AlwaysRow == Spec => []RowInv
BY InitRow, NextRow, AlwaysTyped, PTL DEF Spec

\* However many deliveries look for a deposit's row and miss it at the same
\* time, one row is inserted: the unique hash of the webhooks row decides.
THEOREM OneRow == Spec => []DepositRowOnce
<1>1. RowInv => DepositRowOnce
  BY DEF RowInv
<1>. QED  BY <1>1, AlwaysRow, PTL

-----------------------------------------------------------------------------
(* Credited only if successful, and credited for good                      *)

\* A delivery handles an event that was sent, and the two final events are sent
\* in the final states only.
CreditInv ==
  /\ \A w \in Worker : worker[w].pc # "idle" => EventOf(w) \in sent[At(w)]
  /\ \A d \in Deposit : "successful" \in sent[d] => quidax[d] = "successful"
  /\ \A d \in Deposit : "failed" \in sent[d] => quidax[d] = "rejected"
  /\ CreditedOnlyIfSuccessful

LEMMA InitCredit == Init => CreditInv
BY IdleDelivery DEF Init, CreditInv, CreditedOnlyIfSuccessful

LEMMA HandleBusy ==
  ASSUME NEW w \in Worker, Handle(w) \/ StatementFails(w)
  PROVE  worker[w].pc # "idle"
BY DEF Handle, Claim, Unclaim, ConfirmationLook, SuccessfulLook, SuccessfulUnknown, OnHoldLook,
       FailedLook, Look, HookInsert, TxInsert, SuccessfulUpdate, OtherUpdate, Fee, Mail, StatementFails

\* A step of a delivery keeps what the others handle, and its own.
LEMMA HandleKeeps ==
  ASSUME Typed, NEW w \in Worker, Handle(w) \/ StatementFails(w)
  PROVE  \A v \in Worker :
           \/ worker'[v] = worker[v] \/ worker'[v] = Idle
           \/ worker[v].pc # "idle" /\ worker'[v].at = At(v) /\ worker'[v].event = EventOf(v)
<1>1. \A pcs : Moves(w, pcs) => \A v \in Worker :
           \/ worker'[v] = worker[v] \/ worker'[v] = Idle
           \/ worker[v].pc # "idle" /\ worker'[v].at = At(v) /\ worker'[v].event = EventOf(v)
  BY HandleBusy DEF Moves
<1>. QED  BY <1>1, HandleMoves DEF Handle

\* How a step of a delivery changes a status.
LEMMA HandleStatus ==
  ASSUME Typed, RowInv, CreditInv, NEW w \in Worker, Handle(w) \/ StatementFails(w), NEW d \in Deposit
  PROVE  \/ tx'[d].status = tx[d].status
         \/ tx'[d].status = "success" /\ "successful" \in sent[d]
         \/ /\ tx'[d].status # "success"
            /\ \/ tx[d].status = "none"
               \/ "on_hold" \in sent[d] \/ "failed" \in sent[d]
<1>1. /\ worker[w].pc # "idle" /\ At(w) \in Deposit /\ EventOf(w) \in Event
      /\ EventOf(w) \in sent[At(w)]
  BY HandleBusy DEF Typed, Working, CreditInv
<1>2. tx \in [Deposit -> Row]
  BY DEF Typed, TypeOK
<1>3. CASE TxInsert(w)
  <2>1. EventOf(w) \in {"confirmation", "successful", "on_hold"} /\ worker[w].pc = "insert"
    BY <1>1, <1>3 DEF TxInsert, Typed, Working, Event
  <2>2. Opening(EventOf(w)) = "success" => EventOf(w) = "successful"
    BY <2>1 DEF Opening
  <2>3. tx[At(w)].status = "none"
    BY <1>1, <2>1 DEF RowInv
  <2>4. /\ tx'[At(w)].status = Opening(EventOf(w))
        /\ d # At(w) => tx'[d] = tx[d]
    BY <1>1, <1>2, <1>3 DEF TxInsert
  <2>. QED  BY <1>1, <2>2, <2>3, <2>4
<1>4. CASE SuccessfulUpdate(w)
  BY <1>1, <1>2, <1>4 DEF SuccessfulUpdate
<1>5. CASE OtherUpdate(w)
  <2> DEFINE rec == [tx[At(w)] EXCEPT !.status = OtherStatus(EventOf(w))]
  <2>1. tx' = tx \/ tx' = [tx EXCEPT ![At(w)] = rec]
    BY <1>5 DEF OtherUpdate
  <2>2. tx[At(w)] \in Row
    BY <1>1, <1>2
  <2>3. rec.status = OtherStatus(EventOf(w)) /\ OtherStatus(EventOf(w)) # "success"
    BY <2>2 DEF Row, OtherStatus
  <2>4. EventOf(w) \in {"on_hold", "failed"}
    BY <1>5 DEF OtherUpdate
  <2> HIDE DEF rec
  <2>. QED  BY <1>1, <1>2, <2>1, <2>3, <2>4
<1>6. CASE ~(TxInsert(w) \/ SuccessfulUpdate(w) \/ OtherUpdate(w))
  <2>1. tx' = tx
    BY <1>6 DEF Handle, Claim, Unclaim, ConfirmationLook, SuccessfulLook, SuccessfulUnknown, OnHoldLook,
                FailedLook, Look, HookInsert, Fee, Mail, StatementFails
  <2>. QED  BY <2>1
<1>. QED  BY <1>3, <1>4, <1>5, <1>6

LEMMA HandleBank ==
  ASSUME NEW w \in Worker, Handle(w) \/ StatementFails(w)
  PROVE  sent' = sent /\ quidax' = quidax
BY DEF Handle, Claim, Unclaim, ConfirmationLook, SuccessfulLook, SuccessfulUnknown, OnHoldLook, FailedLook,
       Look, HookInsert, TxInsert, SuccessfulUpdate, OtherUpdate, Fee, Mail, StatementFails, bank

LEMMA CreditHandle ==
  ASSUME Typed, RowInv, CreditInv, NEW w \in Worker, Handle(w) \/ StatementFails(w)
  PROVE  CreditInv'
<1>1. sent' = sent /\ quidax' = quidax
  BY HandleBank
<1>2. \A v \in Worker : worker'[v].pc # "idle" => worker'[v].event \in sent[worker'[v].at]
  BY HandleKeeps, IdleDelivery DEF CreditInv, At, EventOf
<1>3. \A d \in Deposit : tx'[d].status = "success" => quidax[d] = "successful"
  BY HandleStatus DEF CreditInv, CreditedOnlyIfSuccessful
<1>. QED  BY <1>1, <1>2, <1>3 DEF CreditInv, CreditedOnlyIfSuccessful, At, EventOf

\* Quidax announces nothing after a final state.
LEMMA CreditAnnounce ==
  ASSUME Typed, CreditInv, NEW d \in Deposit, Detect(d) \/ Hold(d) \/ Succeed(d) \/ Reject(d)
  PROVE  CreditInv'
<1>1. PICK to \in {"detected", "held", "successful", "rejected"}, e \in Event :
        /\ quidax[d] \in {"none", "detected", "held"}
        /\ quidax' = [quidax EXCEPT ![d] = to] /\ sent' = [sent EXCEPT ![d] = sent[d] \cup {e}]
        /\ e = "successful" => to = "successful"
        /\ e = "failed" => to = "rejected"
        /\ worker' = worker /\ tx' = tx
  BY DEF Detect, Hold, Succeed, Reject, Announce, Event
<1>2. quidax[d] # "successful" /\ quidax[d] # "rejected"
  BY <1>1
<1>3. /\ quidax'[d] = to /\ \A c \in Deposit \ {d} : quidax'[c] = quidax[c]
      /\ sent'[d] = sent[d] \cup {e} /\ \A c \in Deposit \ {d} : sent'[c] = sent[c]
  BY <1>1 DEF Typed, TypeOK
<1>4. \A w \in Worker : worker[w].pc # "idle" => At(w) \in Deposit
  BY DEF Typed, Working
<1>5. \A w \in Worker : worker'[w].pc # "idle" => worker'[w].event \in sent'[worker'[w].at]
  BY <1>1, <1>3, <1>4 DEF CreditInv, At, EventOf
<1>6. \A c \in Deposit : /\ "successful" \in sent'[c] => quidax'[c] = "successful"
                         /\ "failed" \in sent'[c] => quidax'[c] = "rejected"
                         /\ tx'[c].status = "success" => quidax'[c] = "successful"
  BY <1>1, <1>2, <1>3 DEF CreditInv, CreditedOnlyIfSuccessful
<1>. QED  BY <1>5, <1>6 DEF CreditInv, CreditedOnlyIfSuccessful, At, EventOf

LEMMA NextCredit == Typed /\ RowInv /\ CreditInv /\ [Next]_vars => CreditInv'
<1> SUFFICES ASSUME Typed, RowInv, CreditInv, [Next]_vars PROVE CreditInv'
  OBVIOUS
<1>1. CASE UNCHANGED vars
  BY <1>1 DEF CreditInv, CreditedOnlyIfSuccessful, At, EventOf, vars
<1>2. CASE \E w \in Worker : Handle(w) \/ StatementFails(w)
  BY <1>2, CreditHandle
<1>3. CASE \E d \in Deposit : Detect(d) \/ Hold(d) \/ Succeed(d) \/ Reject(d)
  BY <1>3, CreditAnnounce
<1>4. CASE Crash \/ \E w \in Worker, d \in Deposit, e \in Event : Deliver(w, d, e)
  <2>1. sent' = sent /\ quidax' = quidax /\ tx' = tx
    BY <1>4 DEF Crash, Deliver, bank
  <2>2. \A v \in Worker : worker'[v].pc # "idle" => worker'[v].event \in sent[worker'[v].at]
    BY <1>4, OtherWorkers, IdleDelivery DEF CreditInv, At, EventOf
  <2>. QED  BY <2>1, <2>2 DEF CreditInv, CreditedOnlyIfSuccessful, At, EventOf
<1>. QED  BY <1>1, <1>2, <1>3, <1>4 DEF Next

LEMMA AlwaysCredit == Spec => []CreditInv
BY InitCredit, NextCredit, AlwaysTyped, AlwaysRow, PTL DEF Spec

\* Whatever order events come in, a deposit counts towards the balance only
\* when Quidax has called it successful.
THEOREM CreditIsReal == Spec => []CreditedOnlyIfSuccessful
<1>1. CreditInv => CreditedOnlyIfSuccessful
  BY DEF CreditInv
<1>. QED  BY <1>1, AlwaysCredit, PTL

\* No step takes the credit of a deposit back that Quidax never held.
THEOREM CreditIsFinal == Spec => CreditStays
<1>1. ASSUME Typed, RowInv, CreditInv, [Next]_vars
      PROVE  [\A d \in Deposit :
                tx[d].status = "success" /\ "on_hold" \notin sent[d] => tx'[d].status = "success"]_vars
  <2> SUFFICES ASSUME NEW d \in Deposit, tx[d].status = "success", "on_hold" \notin sent[d], Next
               PROVE  tx'[d].status = "success"
    BY <1>1
  <2>1. CASE \E w \in Worker : Handle(w) \/ StatementFails(w)
    <3>1. "failed" \notin sent[d]
      BY <1>1 DEF CreditInv, CreditedOnlyIfSuccessful
    <3>. QED  BY <1>1, <2>1, <3>1, HandleStatus
  <2>2. CASE ~\E w \in Worker : Handle(w) \/ StatementFails(w)
    BY <1>1, <2>2, OtherWorkers DEF Next
  <2>. QED  BY <2>1, <2>2
<1>. QED  BY <1>1, AlwaysTyped, AlwaysRow, AlwaysCredit, PTL DEF Spec, CreditStays

-----------------------------------------------------------------------------
(* One fee per deposit, as long as no account is deleted                   *)

Holding == {"look", "hook", "insert", "update", "fee", "mail", "unclaim"}

\* A delivery past the claim holds the event's marker, alone; and once the fee
\* is taken, all that may still happen to the deposit's success is the mail.
FeeInv ==
  /\ \A w \in Worker : worker[w].pc \in Holding => <<At(w), EventOf(w)>> \in marker
  /\ \A v, w \in Worker :
       /\ worker[v].pc \in Holding /\ worker[w].pc \in Holding
       /\ At(v) = At(w) /\ EventOf(v) = EventOf(w)
       => v = w
  /\ \A d \in Deposit : fees[d] > 0 => <<d, "successful">> \in marker
  /\ \A w \in Worker :
       worker[w].pc \in Holding /\ EventOf(w) = "successful" /\ fees[At(w)] > 0 => worker[w].pc = "mail"
  /\ FeeOnce

LEMMA InitFee == Init => FeeInv
BY IdleDelivery DEF Init, FeeInv, FeeOnce, Holding

\* Deliveries go on to points other than the mail's successor, or end.
LEMMA FeeQuiet ==
  ASSUME FeeInv, marker' = marker, fees' = fees,
         \A v \in Worker : \/ worker'[v] = worker[v]
                           \/ worker'[v].pc \notin Holding
                           \/ /\ worker[v].pc \in Holding \ {"mail"}
                              /\ worker'[v].at = At(v) /\ worker'[v].event = EventOf(v)
  PROVE  FeeInv'
<1>1. \A v \in Worker : worker'[v].pc \in Holding =>
         /\ worker[v].pc \in Holding /\ worker'[v].at = At(v) /\ worker'[v].event = EventOf(v)
         /\ worker'[v] = worker[v] \/ worker[v].pc # "mail"
  BY DEF At, EventOf
<1>. QED  BY <1>1 DEF FeeInv, FeeOnce, At, EventOf

LEMMA FeeHandle ==
  ASSUME Closed = {}, Typed, FeeInv, NEW w \in Worker, Handle(w) \/ StatementFails(w)
  PROVE  FeeInv'
<1> USE IdleDelivery
<1>1. worker[w].pc # "idle" /\ At(w) \in Deposit /\ EventOf(w) \in Event
  BY HandleBusy DEF Typed, Working
<1>2. fees \in [Deposit -> 0 .. 2] /\ fees[At(w)] \in 0 .. 2
  BY <1>1 DEF Typed, TypeOK
<1>3. \A pcs : Moves(w, pcs) /\ worker[w].pc \in Holding \ {"mail"}
               => \A v \in Worker : \/ worker'[v] = worker[v]
                                    \/ worker'[v].pc \notin Holding
                                    \/ /\ worker[v].pc \in Holding \ {"mail"}
                                       /\ worker'[v].at = At(v) /\ worker'[v].event = EventOf(v)
  BY DEF Moves, Holding
<1>4. CASE \/ ConfirmationLook(w) \/ SuccessfulLook(w) \/ SuccessfulUnknown(w) \/ OnHoldLook(w) \/ FailedLook(w)
           \/ HookInsert(w) \/ TxInsert(w) \/ SuccessfulUpdate(w) \/ OtherUpdate(w)
  <2>1. worker[w].pc \in Holding \ {"mail"} /\ marker' = marker /\ fees' = fees
    BY <1>4 DEF ConfirmationLook, SuccessfulLook, SuccessfulUnknown, OnHoldLook, FailedLook, Look,
                HookInsert, TxInsert, SuccessfulUpdate, OtherUpdate, Holding
  <2>2. \E pcs : Moves(w, pcs)
    BY <1>4, HandleMoves
  <2>. QED  BY <1>3, <2>1, <2>2, FeeQuiet
<1>5. CASE Mail(w)
  <2>1. Moves(w, {"unclaim"}) /\ worker'[w].pc # "unclaim"
    BY <1>5, HandleMoves
  <2>2. marker' = marker /\ fees' = fees
    BY <1>5 DEF Mail
  <2>3. \A v \in Worker : worker'[v] = worker[v] \/ worker'[v].pc \notin Holding
    BY <2>1 DEF Moves, Holding
  <2>. QED  BY <2>2, <2>3, FeeQuiet
<1>6. CASE StatementFails(w)
  <2>1. Moves(w, {"unclaim"})
        /\ (worker'[w].pc = "unclaim" => worker[w].pc \in {"look", "hook", "insert", "update", "fee"})
    BY <1>6, HandleMoves
  <2>2. marker' = marker /\ fees' = fees
    BY <1>6 DEF StatementFails
  <2>3. CASE worker'[w].pc = "unclaim"
    BY <1>3, <2>1, <2>2, <2>3, FeeQuiet DEF Holding
  <2>4. CASE worker'[w].pc # "unclaim"
    <3>1. \A v \in Worker : worker'[v] = worker[v] \/ worker'[v].pc \notin Holding
      BY <2>1, <2>4 DEF Moves, Holding
    <3>. QED  BY <2>2, <3>1, FeeQuiet
  <2>. QED  BY <2>3, <2>4
<1>7. CASE Claim(w)
  <2>1. /\ worker[w].pc = "claim" /\ fees' = fees
        /\ marker' = marker \cup {<<At(w), EventOf(w)>>}
        /\ Continue(w, IF <<At(w), EventOf(w)>> \in marker THEN "done" ELSE "look")
    BY <1>7 DEF Claim
  <2>2. CASE <<At(w), EventOf(w)>> \in marker
    <3>1. Finish(w)
      BY <2>1, <2>2 DEF Continue
    <3>2. \A v \in Worker : worker'[v] = worker[v] \/ worker'[v].pc \notin Holding
      BY <1>1, <3>1, FinishEffect DEF Holding
    <3>. QED  BY <2>1, <2>2, <3>2, FeeQuiet
  <2>3. CASE <<At(w), EventOf(w)>> \notin marker
    <3>1. Moves(w, {"look"})
      BY <1>7, HandleMoves
    <3>2. \A v \in Worker \ {w} : worker'[v] = worker[v]
      BY <3>1 DEF Moves
    <3>3. worker'[w].pc \in Holding => worker'[w].at = At(w) /\ worker'[w].event = EventOf(w)
      BY <3>1 DEF Moves, Holding
    <3>4. EventOf(w) = "successful" => ~(fees[At(w)] > 0)
      BY <1>1, <2>3 DEF FeeInv
    <3>5. \A v \in Worker \ {w} : worker[v].pc \in Holding => ~(worker[v].at = At(w) /\ worker[v].event = EventOf(w))
      BY <2>3 DEF FeeInv, At, EventOf
    <3>6. \A v \in Worker : worker'[v].pc \in Holding => <<worker'[v].at, worker'[v].event>> \in marker'
      BY <2>1, <3>2, <3>3 DEF FeeInv, At, EventOf
    <3>7. \A u, v \in Worker :
            /\ worker'[u].pc \in Holding /\ worker'[v].pc \in Holding
            /\ worker'[u].at = worker'[v].at /\ worker'[u].event = worker'[v].event
            => u = v
      BY <3>2, <3>3, <3>5 DEF FeeInv, At, EventOf
    <3>8. \A v \in Worker : worker'[v].pc \in Holding /\ worker'[v].event = "successful" /\ fees[worker'[v].at] > 0
                             => worker'[v].pc = "mail"
      BY <3>2, <3>3, <3>4 DEF FeeInv, At, EventOf
    <3>. QED  BY <2>1, <3>6, <3>7, <3>8 DEF FeeInv, FeeOnce, At, EventOf
  <2>. QED  BY <2>2, <2>3
<1>8. CASE Unclaim(w)
  <2>1. /\ worker[w].pc = "unclaim" /\ fees' = fees
        /\ marker' = marker \ {<<At(w), EventOf(w)>>}
    BY <1>8 DEF Unclaim
  <2>2. worker[w].pc \in Holding
    BY <2>1 DEF Holding
  <2>3. \A v \in Worker : /\ worker'[v].pc \in Holding => v # w
                          /\ v # w => worker'[v] = worker[v]
    BY <1>8, HandleMoves DEF Moves, Holding
  <2>4. \A v \in Worker \ {w} : worker[v].pc \in Holding => <<worker[v].at, worker[v].event>> # <<At(w), EventOf(w)>>
    BY <2>2 DEF FeeInv, At, EventOf
  <2>5. EventOf(w) = "successful" => ~(fees[At(w)] > 0)
    BY <2>1, <2>2 DEF FeeInv
  <2>6. \A d \in Deposit : fees[d] > 0 => <<d, "successful">> \in marker'
    BY <2>1, <2>5 DEF FeeInv
  <2>7. \A v \in Worker : worker'[v].pc \in Holding => <<worker'[v].at, worker'[v].event>> \in marker'
    BY <2>1, <2>3, <2>4 DEF FeeInv, At, EventOf
  <2>. QED  BY <2>1, <2>3, <2>6, <2>7 DEF FeeInv, FeeOnce, At, EventOf
<1>9. CASE Fee(w)
  <2>1. worker[w].pc = "fee" /\ EventOf(w) = "successful" /\ marker' = marker
    BY <1>9 DEF Fee, Typed, Working
  <2>2. fees[At(w)] = 0
    BY <1>2, <2>1 DEF FeeInv, Holding
  <2>3. /\ fees'[At(w)] \in {0, 1}
        /\ \A d \in Deposit \ {At(w)} : fees'[d] = fees[d]
    BY <1>1, <1>2, <1>9, <2>2 DEF Fee, More
  <2>4. /\ \A v \in Worker \ {w} : worker'[v] = worker[v]
        /\ worker'[w].pc \in Holding => /\ worker'[w].pc = "mail"
                                        /\ worker'[w].at = At(w) /\ worker'[w].event = EventOf(w)
    BY <1>9, HandleMoves DEF Moves, Holding
  <2>5. worker[w].pc \in Holding
    BY <2>1 DEF Holding
  <2>6. \A v \in Worker \ {w} : worker[v].pc \in Holding /\ worker[v].event = "successful" => worker[v].at # At(w)
    BY <2>1, <2>5 DEF FeeInv, At, EventOf
  <2>7. <<At(w), "successful">> \in marker
    BY <2>1, <2>5 DEF FeeInv
  <2>8. \A d \in Deposit : fees'[d] > 0 => <<d, "successful">> \in marker'
    BY <2>1, <2>3, <2>7 DEF FeeInv
  <2>9. \A v \in Worker : worker'[v].pc \in Holding => <<worker'[v].at, worker'[v].event>> \in marker'
    BY <2>1, <2>4, <2>7 DEF FeeInv, At, EventOf
  <2>10. \A u, v \in Worker :
           /\ worker'[u].pc \in Holding /\ worker'[v].pc \in Holding
           /\ worker'[u].at = worker'[v].at /\ worker'[u].event = worker'[v].event
           => u = v
    BY <2>4, <2>5 DEF FeeInv, At, EventOf
  <2>11. \A v \in Worker : worker'[v].pc \in Holding /\ worker'[v].event = "successful" /\ fees'[worker'[v].at] > 0
                            => worker'[v].pc = "mail"
    <3>1. \A v \in Worker : worker[v].pc \in Holding => At(v) \in Deposit
      BY DEF Typed, Working, Holding
    <3>. QED  BY <2>3, <2>4, <2>6, <3>1 DEF FeeInv, At, EventOf
  <2>12. \A d \in Deposit : fees'[d] <= 1
    BY <2>3 DEF FeeInv, FeeOnce
  <2>. QED  BY <2>8, <2>9, <2>10, <2>11, <2>12 DEF FeeInv, FeeOnce, At, EventOf
<1>. QED  BY <1>4, <1>5, <1>6, <1>7, <1>8, <1>9 DEF Handle

LEMMA NextFee == Closed = {} /\ Typed /\ FeeInv /\ [Next]_vars => FeeInv'
<1> SUFFICES ASSUME Closed = {}, Typed, FeeInv, [Next]_vars PROVE FeeInv'
  OBVIOUS
<1>1. CASE UNCHANGED vars
  BY <1>1 DEF FeeInv, FeeOnce, At, EventOf, vars
<1>2. CASE \E w \in Worker : Handle(w) \/ StatementFails(w)
  BY <1>2, FeeHandle
<1>3. CASE \/ \E w \in Worker, d \in Deposit, e \in Event : Deliver(w, d, e)
           \/ \E d \in Deposit : Detect(d) \/ Hold(d) \/ Succeed(d) \/ Reject(d)
           \/ Crash
  <2>1. \A v \in Worker : worker'[v] = worker[v] \/ worker'[v].pc \notin Holding
    BY <1>3, OtherWorkers, IdleDelivery DEF Holding
  <2>2. marker' = marker /\ fees' = fees
    BY <1>3, OtherWorkers
  <2>. QED  BY <2>1, <2>2, FeeQuiet
<1>. QED  BY <1>1, <1>2, <1>3 DEF Next

\* If no account is deleted, redeliveries, failing statements and restarts never
\* charge the deposit fee a second time.
THEOREM OneFee ==
  ASSUME Closed = {}
  PROVE  Spec => []FeeOnce
<1>1. Typed /\ FeeInv /\ [Next]_vars => FeeInv'
  BY NextFee
<1>2. FeeInv => FeeOnce
  BY DEF FeeInv
<1>. QED  BY <1>1, <1>2, InitFee, AlwaysTyped, PTL DEF Spec

=============================================================================
