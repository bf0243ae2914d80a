---------------------------- MODULE ClockProofs ----------------------------
(***************************************************************************)
(* Proofs about Clock, for every value of its constants: Provisioning, the *)
(* staff accounts, the half-hourly run and the token.                      *)
(***************************************************************************)
EXTENDS Clock, TLAPS

-----------------------------------------------------------------------------
(* Provisioning.                                                           *)

SetupPC == {New, "make", "save", "ask", "store", "done"}
TickPC  == {"next", "make", "save", "look", "ask"}

\* What moving the record of a sign-up, or of a run, changes.
LEMMA SetupFields ==
  ASSUME NEW rec \in Setup, NEW pc \in SetupPC, NEW a \in Acct, NEW ps \in SUBSET Pair
  PROVE  /\ rec.pc \in SetupPC /\ rec.acct \in Acct \cup {None} /\ rec.got \in SUBSET Pair
         /\ [rec EXCEPT !.pc = pc] \in Setup
         /\ [rec EXCEPT !.pc = pc].pc = pc
         /\ [rec EXCEPT !.pc = pc].acct = rec.acct
         /\ [rec EXCEPT !.pc = pc, !.acct = a] \in Setup
         /\ [rec EXCEPT !.pc = pc, !.acct = a].pc = pc
         /\ [rec EXCEPT !.pc = pc, !.acct = a].acct = a
         /\ [rec EXCEPT !.pc = pc, !.got = ps] \in Setup
         /\ [rec EXCEPT !.pc = pc, !.got = ps].pc = pc
         /\ [rec EXCEPT !.pc = pc, !.got = ps].acct = rec.acct
         /\ [rec EXCEPT !.got = ps] \in Setup
         /\ [rec EXCEPT !.got = ps].pc = rec.pc
         /\ [rec EXCEPT !.got = ps].acct = rec.acct
BY DEF Setup, SetupPC

LEMMA TickFields ==
  ASSUME NEW pc \in TickPC, tick \in Tick
  PROVE  /\ tick.pc \in TickPC /\ tick.user \in User /\ tick.todo \in SUBSET User
         /\ tick.copy \in [User -> Acct \cup {None}] /\ tick.acct \in Acct \cup {None}
         /\ tick.missing \in SUBSET Pair
         /\ [tick EXCEPT !.pc = pc] \in Tick
         /\ [tick EXCEPT !.pc = pc].pc = pc
         /\ [tick EXCEPT !.pc = pc].user = tick.user
         /\ [tick EXCEPT !.pc = pc].todo = tick.todo
         /\ [tick EXCEPT !.pc = pc].copy = tick.copy
         /\ [tick EXCEPT !.pc = pc].acct = tick.acct
BY DEF Tick, TickPC

LEMMA NoTickIsNoTick == NoTick.pc = "idle" /\ NoTick \notin Tick
BY DEF NoTick, Tick

LEMMA TickRuns ==
  ASSUME TypeOK, NEW pc \in TickPC, tick.pc = pc
  PROVE  tick \in Tick /\ tick # NoTick
BY NoTickIsNoTick DEF TypeOK, TickPC

LEMMA NoneIsNoAccount == None \notin Acct
BY ConstantsAssumption DEF None, Acct

(***************************************************************************)
(* A sign-up's work and a run do not overlap; the account they work for is *)
(* the one in quidax_id, or there is none yet; and the run's copy of the   *)
(* quidax_id of the users it has still to visit is true.                   *)
(***************************************************************************)
SetupInv ==
  \A u \in User :
    /\ setup[u].pc \in {New, "make", "save"} => quidaxId[u] = None
    /\ setup[u].pc = "save" => setup[u].acct \in Acct
    /\ setup[u].pc \in {"ask", "store"} => setup[u].acct = quidaxId[u] /\ quidaxId[u] \in Acct

TickInv ==
  tick # NoTick =>
    /\ \A u \in User : setup[u].pc \in {New, "done"}
    /\ \A u \in tick.todo : tick.copy[u] = quidaxId[u] /\ setup[u].pc = "done"
    /\ tick.pc # "next" => tick.user \notin tick.todo /\ setup[tick.user].pc = "done"
    /\ tick.pc \in {"make", "save"} => quidaxId[tick.user] = None
    /\ tick.pc = "save" => tick.acct \in Acct
    /\ tick.pc \in {"look", "ask"} => tick.acct = quidaxId[tick.user] /\ quidaxId[tick.user] \in Acct

AddressInv == TypeOK /\ SetupInv /\ TickInv /\ RowsPayIn

LEMMA AddressInit == Init => AddressInv
<1> SUFFICES ASSUME Init PROVE AddressInv
  OBVIOUS
<1>1. TypeOK
  BY ConstantsAssumption DEF Init, TypeOK, Setup, Row, Tick, None
<1>2. SetupInv /\ TickInv /\ RowsPayIn
  BY DEF Init, SetupInv, TickInv, RowsPayIn, New
<1>. QED  BY <1>1, <1>2 DEF AddressInv

LEMMA FailsKeepsType == ASSUME TypeOK, Fails PROVE failures' \in 0 .. MaxFailures
BY ConstantsAssumption DEF TypeOK, Fails

LEMMA MakeKeepsType ==
  ASSUME TypeOK, NEW u \in User, MakeAccount(u)
  PROVE  made' \in [User -> 0 .. MaxAccounts] /\ made[u] + 1 \in Acct
<1>1. made[u] \in 0 .. MaxAccounts /\ made[u] + 1 \in 1 .. MaxAccounts /\ made[u] + 1 \in 0 .. MaxAccounts
  BY ConstantsAssumption DEF TypeOK, MakeAccount
<1>. QED  BY <1>1 DEF TypeOK, MakeAccount, Acct

LEMMA GrowKeepsType == ASSUME TypeOK, Grow PROVE age' \in [User -> 0 .. Window]
<1>1. ASSUME NEW u \in User PROVE (IF SignedUp(u) /\ age[u] < Window THEN age[u] + 1 ELSE age[u]) \in 0 .. Window
  BY ConstantsAssumption DEF TypeOK
<1>. QED  BY <1>1 DEF Grow

\* One sign-up moves to rec, which is in order; nothing else changes but rows
\* and hooks.
LEMMA SetupMoves ==
  ASSUME AddressInv, NEW u \in User, setup[u].pc \notin {New, "done"}, NEW rec \in Setup,
         setup' = [setup EXCEPT ![u] = rec], UNCHANGED <<quidaxId, tick>>,
         rec.pc \in {"make", "save"} => quidaxId[u] = None,
         rec.pc = "save" => rec.acct \in Acct,
         rec.pc \in {"ask", "store"} => rec.acct = quidaxId[u] /\ quidaxId[u] \in Acct,
         rec.pc # New
  PROVE  setup' \in [User -> Setup] /\ SetupInv' /\ TickInv'
<1>1. setup \in [User -> Setup] /\ tick = NoTick
  BY DEF AddressInv, TypeOK, TickInv
<1>2. setup' \in [User -> Setup] /\ setup'[u] = rec /\ \A v \in User \ {u} : setup'[v] = setup[v]
  BY <1>1
<1>3. SetupInv'
  BY <1>2 DEF AddressInv, SetupInv
<1>. QED  BY <1>1, <1>2, <1>3 DEF TickInv

LEMMA RowsKept ==
  ASSUME AddressInv, UNCHANGED quidaxId, NEW u \in User, NEW p \in Pair,
         UNCHANGED rows \/ (AddRow(u, p, quidaxId[u]) /\ quidaxId[u] \in Acct)
  PROVE  RowsPayIn' /\ rows' \subseteq Row
BY DEF AddressInv, TypeOK, RowsPayIn, AddRow, Row

-----------------------------------------------------------------------------
(* The sign-up's work.                                                     *)

LEMMA SignUpInv == ASSUME AddressInv, NEW u \in User, "overlap" \notin Env, SignUp(u) PROVE AddressInv'
<1>1. tick = NoTick /\ tick' = NoTick /\ setup \in [User -> Setup] /\ setup[u] \in Setup
  BY DEF AddressInv, TypeOK, SignUp
<1> DEFINE rec == [setup[u] EXCEPT !.pc = "make"]
<1>2. rec \in Setup /\ rec.pc = "make"
  BY <1>1, SetupFields, NoneIsNoAccount DEF SetupPC, Setup
<1>3. setup' = [setup EXCEPT ![u] = rec]
  BY <1>1 DEF SignUp, SetupGoto
<1> HIDE DEF rec
<1>4. setup' \in [User -> Setup] /\ setup'[u] = rec /\ \A v \in User \ {u} : setup'[v] = setup[v]
  BY <1>1, <1>2, <1>3
<1>5. TypeOK'
  BY <1>4 DEF AddressInv, TypeOK, SignUp
<1>6. SetupInv'
  BY <1>2, <1>4 DEF AddressInv, SetupInv, SignUp, SetupAt
<1>7. TickInv' /\ RowsPayIn'
  BY <1>1 DEF AddressInv, TickInv, RowsPayIn, SignUp
<1>. QED  BY <1>5, <1>6, <1>7 DEF AddressInv

LEMMA SetupMakeInv == ASSUME AddressInv, NEW u \in User, SetupMake(u) PROVE AddressInv'
<1>1. setup \in [User -> Setup] /\ setup[u] \in Setup /\ setup[u].pc = "make" /\ quidaxId[u] = None
  BY DEF AddressInv, TypeOK, SetupInv, SetupMake, SetupAt
<1>2. RowsPayIn'
  BY DEF AddressInv, RowsPayIn, SetupMake
<1>3. CASE /\ MakeAccount(u)
           /\ setup' = [setup EXCEPT ![u].pc = "save", ![u].acct = made[u] + 1]
           /\ UNCHANGED failures
  <2> DEFINE a == made[u] + 1
             rec == [setup[u] EXCEPT !.pc = "save", !.acct = a]
  <2>1. made' \in [User -> 0 .. MaxAccounts] /\ a \in Acct
    BY <1>3, MakeKeepsType DEF AddressInv
  <2>2. setup' = [setup EXCEPT ![u] = rec]
    BY <1>1, <1>3
  <2> HIDE DEF a
  <2>3. rec \in Setup /\ rec.pc = "save" /\ rec.acct \in Acct
    BY <1>1, <2>1 DEF Setup
  <2> HIDE DEF rec
  <2>4. setup' \in [User -> Setup] /\ SetupInv' /\ TickInv'
    BY <1>1, <2>2, <2>3, SetupMoves DEF SetupMake, New
  <2>. QED  BY <1>2, <1>3, <2>1, <2>4 DEF AddressInv, TypeOK, SetupMake
<1>4. CASE /\ Fails /\ SetupGoto(u, "done")
           /\ MakeAccount(u) \/ UNCHANGED made
  <2> DEFINE rec == [setup[u] EXCEPT !.pc = "done"]
  <2>1. made' \in [User -> 0 .. MaxAccounts] /\ failures' \in 0 .. MaxFailures
    BY <1>4, MakeKeepsType, FailsKeepsType DEF AddressInv, TypeOK
  <2>2. rec \in Setup /\ rec.pc = "done"
    BY <1>1 DEF Setup
  <2>3. setup' = [setup EXCEPT ![u] = rec]
    BY <1>1, <1>4 DEF SetupGoto
  <2> HIDE DEF rec
  <2>4. setup' \in [User -> Setup] /\ SetupInv' /\ TickInv'
    BY <1>1, <2>2, <2>3, SetupMoves DEF SetupMake, New
  <2>. QED  BY <1>2, <2>1, <2>4 DEF AddressInv, TypeOK, SetupMake
<1>. QED  BY <1>3, <1>4 DEF SetupMake

LEMMA SetupSaveInv == ASSUME AddressInv, NEW u \in User, SetupSave(u) PROVE AddressInv'
<1>1. /\ setup \in [User -> Setup] /\ setup[u] \in Setup /\ setup[u].pc = "save"
      /\ quidaxId[u] = None /\ setup[u].acct \in Acct /\ tick = NoTick
  BY DEF AddressInv, TypeOK, SetupInv, TickInv, SetupSave, SetupAt, New
<1> DEFINE rec == [setup[u] EXCEPT !.pc = "ask"]
<1>2. rec \in Setup /\ rec.pc = "ask" /\ rec.acct = setup[u].acct
  BY <1>1 DEF Setup
<1>3. setup' = [setup EXCEPT ![u] = rec]
  BY <1>1 DEF SetupSave, SetupGoto
<1> HIDE DEF rec
<1>4. setup' \in [User -> Setup] /\ setup'[u] = rec /\ \A v \in User \ {u} : setup'[v] = setup[v]
  BY <1>1, <1>2, <1>3
<1>5. /\ quidaxId' \in [User -> Acct \cup {None}] /\ quidaxId'[u] = setup[u].acct
      /\ \A v \in User \ {u} : quidaxId'[v] = quidaxId[v]
  BY <1>1 DEF AddressInv, TypeOK, SetupSave
<1>6. TypeOK'
  BY <1>4, <1>5 DEF AddressInv, TypeOK, SetupSave
<1>7. SetupInv'
  BY <1>1, <1>2, <1>4, <1>5 DEF AddressInv, SetupInv, New
<1>8. TickInv'
  BY <1>1 DEF TickInv, SetupSave
<1>9. RowsPayIn'
  BY <1>1, <1>5, NoneIsNoAccount DEF AddressInv, TypeOK, RowsPayIn, Row, SetupSave
<1>. QED  BY <1>6, <1>7, <1>8, <1>9 DEF AddressInv

LEMMA SetupAskInv == ASSUME AddressInv, NEW u \in User, SetupAsk(u) PROVE AddressInv'
<1>1. /\ setup \in [User -> Setup] /\ setup[u] \in Setup /\ setup[u].pc = "ask"
      /\ setup[u].acct = quidaxId[u] /\ quidaxId[u] \in Acct
  BY DEF AddressInv, TypeOK, SetupInv, SetupAsk, SetupAt
<1>2. PICK got \in SUBSET Pair, sent \in SUBSET Pair :
        /\ setup' = [setup EXCEPT ![u].pc = "store", ![u].got = got]
        /\ hooks' = hooks \cup {Hook(u, p, setup[u].acct) : p \in sent}
        /\ IF got = Pair THEN UNCHANGED failures ELSE Fails
  BY DEF SetupAsk
<1> DEFINE rec == [setup[u] EXCEPT !.pc = "store", !.got = got]
<1>3. rec \in Setup /\ rec.pc = "store" /\ rec.acct = quidaxId[u]
  BY <1>1 DEF Setup
<1>4. setup' = [setup EXCEPT ![u] = rec]
  BY <1>1, <1>2
<1> HIDE DEF rec
<1>5. setup' \in [User -> Setup] /\ SetupInv' /\ TickInv'
  BY <1>1, <1>3, <1>4, SetupMoves DEF SetupAsk, New
<1>6. hooks' \subseteq Row
  BY <1>1, <1>2 DEF AddressInv, TypeOK, Hook, Row
<1>7. failures' \in 0 .. MaxFailures
  BY <1>2, FailsKeepsType DEF AddressInv, TypeOK
<1>8. TypeOK' /\ RowsPayIn'
  BY <1>5, <1>6, <1>7 DEF AddressInv, TypeOK, RowsPayIn, SetupAsk
<1>. QED  BY <1>5, <1>8 DEF AddressInv

LEMMA SetupStoreInv == ASSUME AddressInv, NEW u \in User, SetupStore(u) PROVE AddressInv'
<1>1. /\ setup \in [User -> Setup] /\ setup[u] \in Setup /\ setup[u].pc = "store"
      /\ setup[u].acct = quidaxId[u] /\ quidaxId[u] \in Acct
  BY DEF AddressInv, TypeOK, SetupInv, SetupStore, SetupAt
<1>2. ASSUME NEW p \in setup[u].got,
             IF Has(u, p) THEN UNCHANGED rows ELSE AddRow(u, p, setup[u].acct),
             setup' = [setup EXCEPT ![u].got = @ \ {p}]
      PROVE  AddressInv'
  <2> DEFINE rec == [setup[u] EXCEPT !.got = @ \ {p}]
  <2>1. rec \in Setup /\ rec.pc = "store" /\ rec.acct = quidaxId[u] /\ p \in Pair
    BY <1>1 DEF Setup
  <2>2. setup' = [setup EXCEPT ![u] = rec]
    BY <1>1, <1>2
  <2> HIDE DEF rec
  <2>3. setup' \in [User -> Setup] /\ SetupInv' /\ TickInv'
    BY <1>1, <2>1, <2>2, SetupMoves DEF SetupStore, New
  <2>4. RowsPayIn' /\ rows' \subseteq Row
    BY <1>1, <1>2, <2>1, RowsKept DEF SetupStore
  <2>. QED  BY <2>3, <2>4 DEF AddressInv, TypeOK, SetupStore
<1>3. ASSUME SetupGoto(u, "done"), UNCHANGED rows PROVE AddressInv'
  <2> DEFINE rec == [setup[u] EXCEPT !.pc = "done"]
  <2>1. rec \in Setup /\ rec.pc = "done"
    BY <1>1 DEF Setup
  <2>2. setup' = [setup EXCEPT ![u] = rec]
    BY <1>1, <1>3 DEF SetupGoto
  <2> HIDE DEF rec
  <2>3. setup' \in [User -> Setup] /\ SetupInv' /\ TickInv'
    BY <1>1, <2>1, <2>2, SetupMoves DEF SetupStore, New
  <2>. QED  BY <1>3, <2>3 DEF AddressInv, TypeOK, RowsPayIn, SetupStore
<1>. QED  BY <1>2, <1>3 DEF SetupStore

-----------------------------------------------------------------------------
(* The webhook, the clock and the restart.                                 *)

LEMMA HooksInv ==
  ASSUME AddressInv, NEW h \in hooks, Deliver(h) \/ Lose(h)
  PROVE  AddressInv'
<1>1. h \in Row /\ h.user \in User /\ h.pair \in Pair /\ h.acct \in Acct
  BY DEF AddressInv, TypeOK, Row
<1>2. UNCHANGED quidaxId /\ (UNCHANGED rows \/ (quidaxId[h.user] = h.acct /\ AddRow(h.user, h.pair, h.acct)))
  BY DEF Deliver, Lose
<1>3. RowsPayIn' /\ rows' \subseteq Row
  BY <1>1, <1>2, RowsKept
<1>. QED  BY <1>3 DEF AddressInv, TypeOK, SetupInv, TickInv, Deliver, Lose

LEMMA MissTickInv == ASSUME AddressInv, MissTick PROVE AddressInv'
BY GrowKeepsType, FailsKeepsType DEF AddressInv, TypeOK, SetupInv, TickInv, RowsPayIn, MissTick

LEMMA CrashInv == ASSUME AddressInv, Crash PROVE AddressInv'
<1>1. tick' = NoTick /\ UNCHANGED <<made, quidaxId, rows, hooks, age>> /\ failures' \in 0 .. MaxFailures
  BY FailsKeepsType DEF AddressInv, Crash
<1>2. ASSUME NEW u \in User
      PROVE  /\ setup[u] \in Setup
             /\ [setup[u] EXCEPT !.pc = "done", !.got = {}] \in Setup
             /\ [setup[u] EXCEPT !.pc = "done", !.got = {}].pc = "done"
  BY DEF AddressInv, TypeOK, Setup
<1>3. /\ setup' \in [User -> Setup]
      /\ \A u \in User : setup'[u].pc = "done" \/ (setup'[u] = setup[u] /\ setup[u].pc = New)
  BY <1>2 DEF Crash, Running
<1>4. TypeOK' /\ TickInv' /\ RowsPayIn'
  BY <1>1, <1>3 DEF AddressInv, TypeOK, TickInv, RowsPayIn
<1>5. SetupInv'
  BY <1>1, <1>3 DEF AddressInv, SetupInv, New
<1>. QED  BY <1>4, <1>5 DEF AddressInv

-----------------------------------------------------------------------------
(* The hourly run.                                                         *)

LEMMA StartTickInv == ASSUME AddressInv, "overlap" \notin Env, StartTick PROVE AddressInv'
<1> DEFINE chosen == CHOOSE u \in User : InWindow(u)
           rec == [pc |-> "next", todo |-> {u \in User : InWindow(u)}, copy |-> quidaxId,
                   user |-> chosen, acct |-> None, missing |-> {}]
<1>1. chosen \in User
  BY DEF StartTick
<1>2. \A u \in User : setup[u].pc \in {New, "done"}
  BY DEF StartTick, Running
<1>3. \A u \in User : InWindow(u) => setup[u].pc = "done"
  BY <1>2 DEF InWindow, SignedUp
<1>4. tick' = rec
  BY DEF StartTick
<1> HIDE DEF chosen
<1>5. rec \in Tick /\ rec.pc = "next" /\ rec.copy = quidaxId /\ rec.todo = {u \in User : InWindow(u)}
  BY <1>1 DEF AddressInv, TypeOK, Tick
<1> HIDE DEF rec
<1>6. TypeOK'
  BY <1>4, <1>5, GrowKeepsType DEF AddressInv, TypeOK, StartTick
<1>7. SetupInv' /\ RowsPayIn'
  BY DEF AddressInv, SetupInv, RowsPayIn, StartTick
<1>8. TickInv'
  BY <1>2, <1>3, <1>4, <1>5 DEF TickInv, StartTick
<1>. QED  BY <1>6, <1>7, <1>8 DEF AddressInv

\* A run in progress moves to rec, or ends; the users' records stay.
LEMMA TickMoves ==
  ASSUME AddressInv, tick \in Tick, UNCHANGED <<setup, quidaxId>>,
         tick' = NoTick \/
           (/\ tick' \in Tick /\ tick'.todo \subseteq tick.todo /\ tick'.copy = tick.copy
            /\ tick'.pc # "next" => tick'.user \notin tick'.todo /\ setup[tick'.user].pc = "done"
            /\ tick'.pc \in {"make", "save"} => quidaxId[tick'.user] = None
            /\ tick'.pc = "save" => tick'.acct \in Acct
            /\ tick'.pc \in {"look", "ask"} =>
                 tick'.acct = quidaxId[tick'.user] /\ quidaxId[tick'.user] \in Acct)
  PROVE  SetupInv' /\ TickInv' /\ tick' \in Tick \cup {NoTick}
BY NoTickIsNoTick DEF AddressInv, SetupInv, TickInv

LEMMA NextUserInv == ASSUME AddressInv, NextUser PROVE AddressInv'
<1>1. tick \in Tick /\ tick # NoTick /\ tick.todo \subseteq User /\ tick.copy \in [User -> Acct \cup {None}]
  BY TickRuns, TickFields DEF AddressInv, NextUser, TickAt, TickPC
<1>2. CASE tick.todo = {}
  BY <1>1, <1>2, TickMoves DEF AddressInv, TypeOK, RowsPayIn, NextUser
<1>3. ASSUME NEW u \in tick.todo,
             tick' = [tick EXCEPT !.user = u, !.todo = @ \ {u},
                        !.acct = IF NeedsAccount(u) THEN None ELSE tick.copy[u],
                        !.pc = IF NeedsAccount(u) THEN "make" ELSE "look"]
      PROVE  AddressInv'
  <2>1. /\ u \in User /\ tick.copy[u] = quidaxId[u] /\ setup[u].pc = "done"
        /\ quidaxId[u] \in Acct \cup {None}
    BY <1>1 DEF AddressInv, TypeOK, TickInv
  <2>2. /\ tick' \in Tick /\ tick'.todo = tick.todo \ {u} /\ tick'.copy = tick.copy /\ tick'.user = u
        /\ tick'.acct = (IF NeedsAccount(u) THEN None ELSE tick.copy[u])
        /\ tick'.pc = (IF NeedsAccount(u) THEN "make" ELSE "look")
    BY <1>1, <1>3, <2>1 DEF Tick
  <2>3. SetupInv' /\ TickInv' /\ tick' \in Tick \cup {NoTick}
    BY <1>1, <2>1, <2>2, TickMoves DEF NextUser, NeedsAccount
  <2>. QED  BY <2>3 DEF AddressInv, TypeOK, RowsPayIn, NextUser
<1>. QED  BY <1>2, <1>3 DEF NextUser

LEMMA TickMakeInv == ASSUME AddressInv, TickMake PROVE AddressInv'
<1>1. /\ tick \in Tick /\ tick # NoTick /\ tick.user \in User /\ tick.pc = "make"
  BY TickRuns, TickFields DEF AddressInv, TickMake, TickAt, TickPC
<1>2. tick.user \notin tick.todo /\ setup[tick.user].pc = "done" /\ quidaxId[tick.user] = None
  BY <1>1 DEF AddressInv, TickInv
<1>3. CASE /\ MakeAccount(tick.user)
           /\ tick' = [tick EXCEPT !.pc = "save", !.acct = made[tick.user] + 1]
           /\ UNCHANGED failures
  <2>1. made' \in [User -> 0 .. MaxAccounts] /\ made[tick.user] + 1 \in Acct
    BY <1>1, <1>3, MakeKeepsType DEF AddressInv
  <2> DEFINE a == made[tick.user] + 1
  <2> HIDE DEF a
  <2>2. /\ tick' \in Tick /\ tick'.pc = "save" /\ tick'.acct \in Acct
        /\ tick'.user = tick.user /\ tick'.todo = tick.todo /\ tick'.copy = tick.copy
    <3>1. tick' = [tick EXCEPT !.pc = "save", !.acct = a] /\ a \in Acct
      BY <1>3, <2>1 DEF a
    <3>. QED  BY <1>1, <3>1 DEF Tick
  <2>3. SetupInv' /\ TickInv' /\ tick' \in Tick \cup {NoTick}
    BY <1>1, <1>2, <2>2, TickMoves DEF TickMake
  <2>. QED  BY <1>3, <2>1, <2>3 DEF AddressInv, TypeOK, RowsPayIn, TickMake
<1>4. CASE Fails /\ tick' = [tick EXCEPT !.pc = "next"] /\ UNCHANGED made
  <2>1. tick' \in Tick /\ tick'.pc = "next" /\ tick'.todo = tick.todo /\ tick'.copy = tick.copy
    BY <1>1, <1>4, TickFields DEF TickPC
  <2>2. SetupInv' /\ TickInv' /\ tick' \in Tick \cup {NoTick}
    BY <1>1, <2>1, TickMoves DEF TickMake
  <2>. QED  BY <1>4, <2>2, FailsKeepsType DEF AddressInv, TypeOK, RowsPayIn, TickMake
<1>5. CASE Fails /\ tick' = NoTick /\ (MakeAccount(tick.user) \/ UNCHANGED made)
  <2>1. made' \in [User -> 0 .. MaxAccounts]
    BY <1>1, <1>5, MakeKeepsType DEF AddressInv, TypeOK
  <2>2. SetupInv' /\ TickInv' /\ tick' \in Tick \cup {NoTick}
    BY <1>1, <1>5, TickMoves DEF TickMake
  <2>. QED  BY <1>5, <2>1, <2>2, FailsKeepsType DEF AddressInv, TypeOK, RowsPayIn, TickMake
<1>. QED  BY <1>3, <1>4, <1>5 DEF TickMake

LEMMA TickSaveInv == ASSUME AddressInv, TickSave PROVE AddressInv'
<1>1. /\ tick \in Tick /\ tick # NoTick /\ tick.user \in User /\ tick.pc = "save"
  BY TickRuns, TickFields DEF AddressInv, TickSave, TickAt, TickPC
<1>2. /\ tick.user \notin tick.todo /\ setup[tick.user].pc = "done" /\ quidaxId[tick.user] = None
      /\ tick.acct \in Acct /\ \A u \in User : setup[u].pc \in {New, "done"}
  BY <1>1 DEF AddressInv, TickInv
<1>3. /\ quidaxId' \in [User -> Acct \cup {None}] /\ quidaxId'[tick.user] = tick.acct
      /\ \A u \in User \ {tick.user} : quidaxId'[u] = quidaxId[u]
  BY <1>1, <1>2 DEF AddressInv, TypeOK, TickSave
<1>4. /\ tick' \in Tick /\ tick'.pc = "look" /\ tick'.acct = tick.acct
      /\ tick'.user = tick.user /\ tick'.todo = tick.todo /\ tick'.copy = tick.copy
  BY <1>1, TickFields DEF TickSave, TickPC
<1>5. TypeOK'
  BY <1>3, <1>4 DEF AddressInv, TypeOK, TickSave
<1>6. SetupInv'
  BY <1>2, <1>3 DEF AddressInv, SetupInv, TickSave, New
<1>7. tick.todo \subseteq User
  BY <1>1 DEF Tick
<1>8. TickInv'
  BY <1>1, <1>2, <1>3, <1>4, <1>7 DEF AddressInv, TickInv, TickSave
<1>9. RowsPayIn'
  BY <1>2, <1>3, NoneIsNoAccount DEF AddressInv, TypeOK, RowsPayIn, Row, TickSave
<1>. QED  BY <1>5, <1>6, <1>8, <1>9 DEF AddressInv

LEMMA TickLookInv == ASSUME AddressInv, TickLook PROVE AddressInv'
<1>1. tick \in Tick /\ tick # NoTick /\ tick.pc = "look"
  BY TickRuns DEF AddressInv, TickLook, TickAt, TickPC
<1> DEFINE missing == {p \in Pair : ~Has(tick.user, p)}
<1>2. tick' = [tick EXCEPT !.pc = "ask", !.missing = missing] /\ missing \in SUBSET Pair
  BY DEF TickLook
<1> HIDE DEF missing
<1>3. /\ tick' \in Tick /\ tick'.pc = "ask" /\ tick'.acct = tick.acct
      /\ tick'.user = tick.user /\ tick'.todo = tick.todo /\ tick'.copy = tick.copy
  BY <1>1, <1>2 DEF Tick
<1>4. SetupInv' /\ TickInv' /\ tick' \in Tick \cup {NoTick}
  BY <1>1, <1>3, TickMoves DEF AddressInv, TickInv, TickLook
<1>. QED  BY <1>4 DEF AddressInv, TypeOK, RowsPayIn, TickLook

LEMMA TickAskInv == ASSUME AddressInv, TickAsk PROVE AddressInv'
<1>1. /\ tick \in Tick /\ tick # NoTick /\ tick.pc = "ask" /\ tick.user \in User
      /\ tick.missing \in SUBSET Pair
  BY TickRuns, TickFields DEF AddressInv, TickAsk, TickAt, TickPC
<1>2. /\ tick.acct = quidaxId[tick.user] /\ quidaxId[tick.user] \in Acct
      /\ tick.user \notin tick.todo /\ setup[tick.user].pc = "done"
  BY <1>1 DEF AddressInv, TickInv
<1>3. CASE tick' = [tick EXCEPT !.pc = "next"] /\ UNCHANGED <<rows, hooks, failures>>
  <2>1. tick' \in Tick /\ tick'.pc = "next" /\ tick'.todo = tick.todo /\ tick'.copy = tick.copy
    BY <1>1, <1>3, TickFields DEF TickPC
  <2>2. SetupInv' /\ TickInv' /\ tick' \in Tick \cup {NoTick}
    BY <1>1, <2>1, TickMoves DEF TickAsk
  <2>. QED  BY <1>3, <2>2 DEF AddressInv, TypeOK, RowsPayIn, TickAsk
<1>4. ASSUME NEW p \in tick.missing, tick' = [tick EXCEPT !.missing = @ \ {p}],
             \/ /\ AddRow(tick.user, p, tick.acct)
                /\ hooks' = hooks \cup {Hook(tick.user, p, tick.acct)}
                /\ UNCHANGED failures
             \/ /\ Fails
                /\ hooks' \in {hooks, hooks \cup {Hook(tick.user, p, tick.acct)}}
                /\ UNCHANGED rows
      PROVE  AddressInv'
  <2>1. /\ tick' \in Tick /\ tick'.pc = "ask" /\ tick'.acct = tick.acct
        /\ tick'.user = tick.user /\ tick'.todo = tick.todo /\ tick'.copy = tick.copy
    BY <1>1, <1>4 DEF Tick
  <2>2. SetupInv' /\ TickInv' /\ tick' \in Tick \cup {NoTick}
    BY <1>1, <1>2, <2>1, TickMoves DEF TickAsk
  <2>3. RowsPayIn' /\ rows' \subseteq Row
    BY <1>1, <1>2, <1>4, RowsKept DEF TickAsk
  <2>4. hooks' \subseteq Row /\ failures' \in 0 .. MaxFailures
    BY <1>1, <1>2, <1>4, FailsKeepsType DEF AddressInv, TypeOK, Hook, Row
  <2>. QED  BY <2>2, <2>3, <2>4 DEF AddressInv, TypeOK, TickAsk
<1>. QED  BY <1>3, <1>4 DEF TickAsk

-----------------------------------------------------------------------------

LEMMA AddressNext == ASSUME AddressInv, "overlap" \notin Env, [Next]_vars PROVE AddressInv'
<1>1. ASSUME NEW u \in User, SignUp(u) \/ SetupStep(u) PROVE AddressInv'
  BY <1>1, SignUpInv, SetupMakeInv, SetupSaveInv, SetupAskInv, SetupStoreInv DEF SetupStep
<1>2. ASSUME NEW h \in hooks, Deliver(h) \/ Lose(h) PROVE AddressInv'
  BY <1>2, HooksInv
<1>3. CASE StartTick \/ MissTick \/ Crash
  BY <1>3, StartTickInv, MissTickInv, CrashInv
<1>4. CASE TickStep
  BY <1>4, NextUserInv, TickMakeInv, TickSaveInv, TickLookInv, TickAskInv DEF TickStep
<1>5. CASE UNCHANGED vars
  BY <1>5 DEF vars, AddressInv, TypeOK, SetupInv, TickInv, RowsPayIn
<1>. QED  BY <1>1, <1>2, <1>3, <1>4, <1>5 DEF Next

LEMMA AddressInvariance == ASSUME "overlap" \notin Env PROVE Spec => []AddressInv
<1>1. AddressInv /\ [Next]_vars => AddressInv'
  BY AddressNext
<1>. QED  BY AddressInit, <1>1, PTL DEF Spec

\* For any number of users, pairs, accounts and failures: an address the
\* application shows belongs to the sub-account in users.quidax_id, whichever of
\* the three writers stored it (handleWalletAddressGenerated is the third).
THEOREM AddressesPayIn == ASSUME "overlap" \notin Env PROVE Spec => []RowsPayIn
<1>1. AddressInv => RowsPayIn
  BY DEF AddressInv
<1>. QED  BY AddressInvariance, <1>1, PTL

-----------------------------------------------------------------------------
(***************************************************************************)
(* The types hold whether or not a run overlaps a sign-up: whoever is to   *)
(* store an account, or to ask for addresses, holds one that was made.     *)
(***************************************************************************)
SetupHolds == \A u \in User : setup[u].pc \in {"save", "ask", "store"} => setup[u].acct \in Acct
TickHolds  == tick \in Tick /\ tick.pc \in {"save", "look", "ask"} => tick.acct \in Acct

AddressTypes == TypeOK /\ SetupHolds /\ TickHolds

\* One sign-up moves to rec, which holds its account; the run stays.
LEMMA SetupTypes ==
  ASSUME AddressTypes, NEW u \in User, NEW rec \in Setup, setup' = [setup EXCEPT ![u] = rec],
         rec.pc \in {"save", "ask", "store"} => rec.acct \in Acct, UNCHANGED tick
  PROVE  setup' \in [User -> Setup] /\ SetupHolds' /\ TickHolds'
<1>1. /\ setup' \in [User -> Setup] /\ setup'[u] = rec
      /\ \A v \in User \ {u} : setup'[v] = setup[v]
  BY DEF AddressTypes, TypeOK
<1>. QED  BY <1>1 DEF AddressTypes, SetupHolds, TickHolds

\* The run moves, or ends; the sign-ups stay.
LEMMA TickTypes ==
  ASSUME AddressTypes, UNCHANGED setup,
         tick' = NoTick \/ (tick' \in Tick /\ (tick'.pc \in {"save", "look", "ask"} => tick'.acct \in Acct))
  PROVE  SetupHolds' /\ TickHolds' /\ tick' \in Tick \cup {NoTick}
BY NoTickIsNoTick DEF AddressTypes, SetupHolds, TickHolds

LEMMA SetupStepTypes == ASSUME AddressTypes, NEW u \in User, SignUp(u) \/ SetupStep(u) PROVE AddressTypes'
<1>1. setup \in [User -> Setup] /\ setup[u] \in Setup
  BY DEF AddressTypes, TypeOK
<1>2. CASE SignUp(u)
  <2> DEFINE rec == [setup[u] EXCEPT !.pc = "make"]
  <2>1. rec \in Setup /\ rec.pc = "make" /\ setup' = [setup EXCEPT ![u] = rec]
    BY <1>1, <1>2 DEF SignUp, SetupGoto, Setup
  <2> HIDE DEF rec
  <2>2. setup' \in [User -> Setup] /\ SetupHolds' /\ TickHolds'
    BY <1>2, <2>1, SetupTypes DEF SignUp
  <2>. QED  BY <1>2, <2>2 DEF AddressTypes, TypeOK, SignUp
<1>3. CASE SetupMake(u)
  <2>1. CASE /\ MakeAccount(u)
             /\ setup' = [setup EXCEPT ![u].pc = "save", ![u].acct = made[u] + 1]
             /\ UNCHANGED failures
    <3> DEFINE a == made[u] + 1
               rec == [setup[u] EXCEPT !.pc = "save", !.acct = a]
    <3>1. made' \in [User -> 0 .. MaxAccounts] /\ a \in Acct
      BY <2>1, MakeKeepsType DEF AddressTypes
    <3>2. setup' = [setup EXCEPT ![u] = rec]
      BY <1>1, <2>1
    <3> HIDE DEF a
    <3>3. rec \in Setup /\ rec.pc = "save" /\ rec.acct \in Acct
      BY <1>1, <3>1 DEF Setup
    <3> HIDE DEF rec
    <3>4. setup' \in [User -> Setup] /\ SetupHolds' /\ TickHolds'
      BY <1>3, <3>2, <3>3, SetupTypes DEF SetupMake
    <3>. QED  BY <1>3, <2>1, <3>1, <3>4 DEF AddressTypes, TypeOK, SetupMake
  <2>2. CASE /\ Fails /\ SetupGoto(u, "done")
             /\ MakeAccount(u) \/ UNCHANGED made
    <3> DEFINE rec == [setup[u] EXCEPT !.pc = "done"]
    <3>1. made' \in [User -> 0 .. MaxAccounts] /\ failures' \in 0 .. MaxFailures
      BY <2>2, MakeKeepsType, FailsKeepsType DEF AddressTypes, TypeOK
    <3>2. rec \in Setup /\ rec.pc = "done" /\ setup' = [setup EXCEPT ![u] = rec]
      BY <1>1, <2>2 DEF Setup, SetupGoto
    <3> HIDE DEF rec
    <3>3. setup' \in [User -> Setup] /\ SetupHolds' /\ TickHolds'
      BY <1>3, <3>2, SetupTypes DEF SetupMake
    <3>. QED  BY <1>3, <3>1, <3>3 DEF AddressTypes, TypeOK, SetupMake
  <2>. QED  BY <1>3, <2>1, <2>2 DEF SetupMake
<1>4. CASE SetupSave(u)
  <2> DEFINE rec == [setup[u] EXCEPT !.pc = "ask"]
  <2>1. setup[u].acct \in Acct
    BY <1>4 DEF AddressTypes, SetupHolds, SetupSave, SetupAt
  <2>2. /\ rec \in Setup /\ rec.pc = "ask" /\ rec.acct = setup[u].acct
        /\ setup' = [setup EXCEPT ![u] = rec]
    BY <1>1, <1>4 DEF SetupSave, SetupGoto, Setup
  <2> HIDE DEF rec
  <2>3. setup' \in [User -> Setup] /\ SetupHolds' /\ TickHolds'
    BY <1>4, <2>1, <2>2, SetupTypes DEF SetupSave
  <2>4. quidaxId' \in [User -> Acct \cup {None}]
    BY <1>4, <2>1 DEF AddressTypes, TypeOK, SetupSave
  <2>. QED  BY <1>4, <2>3, <2>4 DEF AddressTypes, TypeOK, SetupSave
<1>5. CASE SetupAsk(u)
  <2>1. setup[u].acct \in Acct
    BY <1>5 DEF AddressTypes, SetupHolds, SetupAsk, SetupAt
  <2>2. PICK got \in SUBSET Pair, sent \in SUBSET Pair :
          /\ setup' = [setup EXCEPT ![u].pc = "store", ![u].got = got]
          /\ hooks' = hooks \cup {Hook(u, p, setup[u].acct) : p \in sent}
          /\ IF got = Pair THEN UNCHANGED failures ELSE Fails
    BY <1>5 DEF SetupAsk
  <2> DEFINE rec == [setup[u] EXCEPT !.pc = "store", !.got = got]
  <2>3. /\ rec \in Setup /\ rec.pc = "store" /\ rec.acct = setup[u].acct
        /\ setup' = [setup EXCEPT ![u] = rec]
    BY <1>1, <2>2 DEF Setup
  <2> HIDE DEF rec
  <2>4. setup' \in [User -> Setup] /\ SetupHolds' /\ TickHolds'
    BY <1>5, <2>1, <2>3, SetupTypes DEF SetupAsk
  <2>5. hooks' \subseteq Row
    BY <2>1, <2>2 DEF AddressTypes, TypeOK, Hook, Row
  <2>6. failures' \in 0 .. MaxFailures
    BY <2>2, FailsKeepsType DEF AddressTypes, TypeOK
  <2>. QED  BY <1>5, <2>4, <2>5, <2>6 DEF AddressTypes, TypeOK, SetupAsk
<1>6. CASE SetupStore(u)
  <2>1. setup[u].pc = "store" /\ setup[u].acct \in Acct
    BY <1>6 DEF AddressTypes, SetupHolds, SetupStore, SetupAt
  <2>2. ASSUME NEW p \in setup[u].got,
               IF Has(u, p) THEN UNCHANGED rows ELSE AddRow(u, p, setup[u].acct),
               setup' = [setup EXCEPT ![u].got = @ \ {p}]
        PROVE  AddressTypes'
    <3> DEFINE rec == [setup[u] EXCEPT !.got = @ \ {p}]
    <3>1. /\ rec \in Setup /\ rec.acct = setup[u].acct /\ p \in Pair
          /\ setup' = [setup EXCEPT ![u] = rec]
      BY <1>1, <2>2 DEF Setup
    <3> HIDE DEF rec
    <3>2. setup' \in [User -> Setup] /\ SetupHolds' /\ TickHolds'
      BY <1>6, <2>1, <3>1, SetupTypes DEF SetupStore
    <3>3. rows' \subseteq Row
      BY <2>1, <2>2, <3>1 DEF AddressTypes, TypeOK, AddRow, Row
    <3>. QED  BY <1>6, <3>2, <3>3 DEF AddressTypes, TypeOK, SetupStore
  <2>3. ASSUME SetupGoto(u, "done"), UNCHANGED rows PROVE AddressTypes'
    <3> DEFINE rec == [setup[u] EXCEPT !.pc = "done"]
    <3>1. rec \in Setup /\ rec.pc = "done" /\ setup' = [setup EXCEPT ![u] = rec]
      BY <1>1, <2>3 DEF Setup, SetupGoto
    <3> HIDE DEF rec
    <3>2. setup' \in [User -> Setup] /\ SetupHolds' /\ TickHolds'
      BY <1>6, <3>1, SetupTypes DEF SetupStore
    <3>. QED  BY <1>6, <2>3, <3>2 DEF AddressTypes, TypeOK, SetupStore
  <2>. QED  BY <1>6, <2>2, <2>3 DEF SetupStore
<1>. QED  BY <1>2, <1>3, <1>4, <1>5, <1>6 DEF SetupStep

LEMMA HookTypes == ASSUME AddressTypes, NEW h \in hooks, Deliver(h) \/ Lose(h) PROVE AddressTypes'
<1>1. h.user \in User /\ h.pair \in Pair /\ h.acct \in Acct
  BY DEF AddressTypes, TypeOK, Row
<1>2. rows' \subseteq Row
  BY <1>1 DEF AddressTypes, TypeOK, Deliver, Lose, AddRow, Row
<1>. QED  BY <1>2 DEF AddressTypes, TypeOK, SetupHolds, TickHolds, Deliver, Lose

LEMMA ClockTypes == ASSUME AddressTypes, StartTick \/ MissTick \/ Crash PROVE AddressTypes'
<1>1. CASE StartTick
  <2> DEFINE chosen == CHOOSE u \in User : InWindow(u)
             rec == [pc |-> "next", todo |-> {u \in User : InWindow(u)}, copy |-> quidaxId,
                     user |-> chosen, acct |-> None, missing |-> {}]
  <2>1. chosen \in User
    BY <1>1 DEF StartTick
  <2>2. tick' = rec
    BY <1>1 DEF StartTick
  <2> HIDE DEF chosen
  <2>3. rec \in Tick /\ rec.pc = "next"
    BY <2>1 DEF AddressTypes, TypeOK, Tick
  <2> HIDE DEF rec
  <2>4. SetupHolds' /\ TickHolds' /\ tick' \in Tick \cup {NoTick}
    BY <1>1, <2>2, <2>3, TickTypes DEF StartTick
  <2>. QED  BY <1>1, <2>4, GrowKeepsType DEF AddressTypes, TypeOK, StartTick
<1>2. CASE MissTick
  BY <1>2, GrowKeepsType, FailsKeepsType DEF AddressTypes, TypeOK, SetupHolds, TickHolds, MissTick
<1>3. CASE Crash
  <2>1. tick' = NoTick /\ UNCHANGED <<made, quidaxId, rows, hooks, age>> /\ failures' \in 0 .. MaxFailures
    BY <1>3, FailsKeepsType DEF AddressTypes, Crash
  <2>2. ASSUME NEW u \in User
        PROVE  /\ setup[u] \in Setup
               /\ [setup[u] EXCEPT !.pc = "done", !.got = {}] \in Setup
               /\ [setup[u] EXCEPT !.pc = "done", !.got = {}].pc = "done"
    BY DEF AddressTypes, TypeOK, Setup
  <2>3. /\ setup' \in [User -> Setup]
        /\ \A u \in User : setup'[u].pc = "done" \/ (setup'[u] = setup[u] /\ setup[u].pc = New)
    BY <1>3, <2>2 DEF Crash, Running
  <2>4. SetupHolds'
    BY <2>3 DEF SetupHolds, New
  <2>. QED  BY <2>1, <2>3, <2>4, NoTickIsNoTick DEF AddressTypes, TypeOK, TickHolds
<1>. QED  BY <1>1, <1>2, <1>3

LEMMA TickStepTypes == ASSUME AddressTypes, TickStep PROVE AddressTypes'
<1>1. /\ tick \in Tick /\ tick # NoTick /\ tick.user \in User /\ tick.todo \subseteq User
      /\ tick.copy \in [User -> Acct \cup {None}] /\ tick.missing \in SUBSET Pair
  BY TickRuns, TickFields DEF AddressTypes, TickStep, NextUser, TickMake, TickSave, TickLook,
     TickAsk, TickAt, TickPC
<1>2. CASE NextUser
  <2>1. ASSUME NEW u \in tick.todo,
               tick' = [tick EXCEPT !.user = u, !.todo = @ \ {u},
                          !.acct = IF NeedsAccount(u) THEN None ELSE tick.copy[u],
                          !.pc = IF NeedsAccount(u) THEN "make" ELSE "look"]
        PROVE  tick' \in Tick /\ (tick'.pc \in {"save", "look", "ask"} => tick'.acct \in Acct)
    <3> DEFINE a == IF NeedsAccount(u) THEN None ELSE tick.copy[u]
               pc == IF NeedsAccount(u) THEN "make" ELSE "look"
    <3>1. a \in Acct \cup {None} /\ pc \in {"make", "look"} /\ (pc = "look" => a \in Acct) /\ u \in User
      BY <1>1 DEF NeedsAccount
    <3>2. tick' = [tick EXCEPT !.user = u, !.todo = @ \ {u}, !.acct = a, !.pc = pc]
      BY <2>1
    <3> HIDE DEF a, pc
    <3>. QED  BY <1>1, <3>1, <3>2 DEF Tick
  <2>2. SetupHolds' /\ TickHolds' /\ tick' \in Tick \cup {NoTick}
    BY <1>2, <2>1, TickTypes DEF NextUser
  <2>. QED  BY <1>2, <2>2 DEF AddressTypes, TypeOK, NextUser
<1>3. CASE TickMake
  <2>1. CASE /\ MakeAccount(tick.user)
             /\ tick' = [tick EXCEPT !.pc = "save", !.acct = made[tick.user] + 1]
             /\ UNCHANGED failures
    <3> DEFINE a == made[tick.user] + 1
    <3>1. made' \in [User -> 0 .. MaxAccounts] /\ a \in Acct
      BY <1>1, <2>1, MakeKeepsType DEF AddressTypes
    <3>2. tick' = [tick EXCEPT !.pc = "save", !.acct = a]
      BY <2>1
    <3> HIDE DEF a
    <3>3. tick' \in Tick /\ tick'.acct \in Acct
      BY <1>1, <3>1, <3>2 DEF Tick
    <3>4. SetupHolds' /\ TickHolds' /\ tick' \in Tick \cup {NoTick}
      BY <1>3, <3>3, TickTypes DEF TickMake
    <3>. QED  BY <1>3, <2>1, <3>1, <3>4 DEF AddressTypes, TypeOK, TickMake
  <2>2. CASE /\ Fails
             /\ \/ tick' = [tick EXCEPT !.pc = "next"] /\ UNCHANGED made
                \/ tick' = NoTick /\ (MakeAccount(tick.user) \/ UNCHANGED made)
    <3>1. made' \in [User -> 0 .. MaxAccounts] /\ failures' \in 0 .. MaxFailures
      BY <1>1, <2>2, MakeKeepsType, FailsKeepsType DEF AddressTypes, TypeOK
    <3>2. tick' = NoTick \/ (tick' \in Tick /\ tick'.pc = "next")
      BY <1>1, <2>2 DEF Tick
    <3>3. SetupHolds' /\ TickHolds' /\ tick' \in Tick \cup {NoTick}
      BY <1>3, <3>2, TickTypes DEF TickMake
    <3>. QED  BY <1>3, <3>1, <3>3 DEF AddressTypes, TypeOK, TickMake
  <2>. QED  BY <1>3, <2>1, <2>2 DEF TickMake
<1>4. CASE TickSave
  <2>1. tick.acct \in Acct
    BY <1>1, <1>4 DEF AddressTypes, TickHolds, TickSave, TickAt
  <2>2. tick' \in Tick /\ tick'.acct = tick.acct
    BY <1>1, <1>4 DEF TickSave, Tick
  <2>3. SetupHolds' /\ TickHolds' /\ tick' \in Tick \cup {NoTick}
    BY <1>4, <2>1, <2>2, TickTypes DEF TickSave
  <2>4. quidaxId' \in [User -> Acct \cup {None}]
    BY <1>4, <2>1 DEF AddressTypes, TypeOK, TickSave
  <2>. QED  BY <1>4, <2>3, <2>4 DEF AddressTypes, TypeOK, TickSave
<1>5. CASE TickLook
  <2> DEFINE missing == {p \in Pair : ~Has(tick.user, p)}
  <2>1. tick' = [tick EXCEPT !.pc = "ask", !.missing = missing] /\ missing \in SUBSET Pair /\ tick.acct \in Acct
    BY <1>1, <1>5 DEF AddressTypes, TickHolds, TickLook, TickAt
  <2> HIDE DEF missing
  <2>2. tick' \in Tick /\ tick'.acct = tick.acct
    BY <1>1, <2>1 DEF Tick
  <2>3. SetupHolds' /\ TickHolds' /\ tick' \in Tick \cup {NoTick}
    BY <1>5, <2>1, <2>2, TickTypes DEF TickLook
  <2>. QED  BY <1>5, <2>3 DEF AddressTypes, TypeOK, TickLook
<1>6. CASE TickAsk
  <2>1. tick.acct \in Acct
    BY <1>1, <1>6 DEF AddressTypes, TickHolds, TickAsk, TickAt
  <2>2. /\ rows' \subseteq Row /\ hooks' \subseteq Row /\ failures' \in 0 .. MaxFailures
    BY <1>1, <1>6, <2>1, FailsKeepsType DEF AddressTypes, TypeOK, TickAsk, AddRow, Hook, Row
  <2>3. tick' \in Tick /\ tick'.acct = tick.acct
    BY <1>1, <1>6 DEF TickAsk, Tick
  <2>4. SetupHolds' /\ TickHolds' /\ tick' \in Tick \cup {NoTick}
    BY <1>6, <2>1, <2>3, TickTypes DEF TickAsk
  <2>. QED  BY <1>6, <2>2, <2>4 DEF AddressTypes, TypeOK, TickAsk
<1>. QED  BY <1>2, <1>3, <1>4, <1>5, <1>6 DEF TickStep

\* Every reachable state of Provisioning is well typed, overlapping runs
\* included (setupQuidaxAccount, backfillNewUserWallets).
THEOREM AddressesTyped == Spec => []TypeOK
<1>1. Init => AddressTypes
  BY AddressInit, NoTickIsNoTick DEF AddressInv, AddressTypes, Init, SetupHolds, TickHolds, New
<1>2. AddressTypes /\ [Next]_vars => AddressTypes'
  <2>1. CASE UNCHANGED vars
    BY <2>1 DEF vars, AddressTypes, TypeOK, SetupHolds, TickHolds
  <2>. QED  BY <2>1, SetupStepTypes, HookTypes, ClockTypes, TickStepTypes DEF Next
<1>3. AddressTypes => TypeOK
  BY DEF AddressTypes
<1>. QED  BY <1>1, <1>2, <1>3, PTL DEF Spec

-----------------------------------------------------------------------------
(* Staff accounts (Staff).                                                 *)

\* The types, with what a request that mails a link has made before.
AccountsTyped ==
  /\ Accounts!TypeOK
  /\ serving \in [Slot -> Accounts!Request \cup {Accounts!Idle}]
  /\ \A s \in Slot : Accounts!At(s, "mail") => serving[s].link \in 1 .. MaxInvites

\* Only request s moves.
Others(s) == \A t \in Slot : t # s => serving'[t] = serving[t]

\* Request s stands at pc, about account a, with this status.
Stands(s, pc, a, status) ==
  serving'[s].pc = pc /\ serving'[s].who = a /\ serving'[s].status = status

\* No status changes but of accounts just made.
Invited ==
  \A a \in Admin : staff'[a].status # staff[a].status =>
                     staff[a].status = "none" /\ staff'[a].status = "pending"

LEMMA Busy ==
  ASSUME AccountsTyped, NEW s \in Slot, ~Accounts!At(s, "idle")
  PROVE  /\ serving[s] \in Accounts!Request /\ Accounts!Who(s) \in Admin /\ serving[s].status \in Accounts!Status
         /\ staff[Accounts!Who(s)] \in Accounts!Member /\ staff[Accounts!Who(s)].status \in Accounts!Status
<1>1. serving[s] \in Accounts!Request
  BY DEF AccountsTyped, Accounts!At, Accounts!Idle
<1>2. Accounts!Who(s) \in Admin /\ serving[s].status \in Accounts!Status
  BY <1>1 DEF Accounts!Request, Accounts!Who
<1>3. staff[Accounts!Who(s)] \in Accounts!Member
  BY <1>2 DEF AccountsTyped, Accounts!TypeOK
<1>. QED  BY <1>1, <1>2, <1>3 DEF Accounts!Member

LEMMA BeginStep ==
  ASSUME AccountsTyped, NEW s \in Slot, NEW pc \in Accounts!Pc, NEW a \in Admin, NEW status \in Accounts!Status,
         Accounts!Begin(s, pc, a, status)
  PROVE  /\ serving' \in [Slot -> Accounts!Request \cup {Accounts!Idle}]
         /\ Stands(s, pc, a, status) /\ Others(s)
<1>1. [pc |-> pc, who |-> a, status |-> status, link |-> 0] \in Accounts!Request
  BY ClockAssumption DEF Accounts!Request, Accounts!Pc
<1>. QED  BY <1>1 DEF AccountsTyped, Accounts!Begin, Others, Stands

LEMMA DoneStep ==
  ASSUME AccountsTyped, NEW s \in Slot, Accounts!Done(s)
  PROVE  serving' \in [Slot -> Accounts!Request \cup {Accounts!Idle}] /\ serving'[s] = Accounts!Idle /\ Others(s)
BY DEF AccountsTyped, Accounts!Done, Others

LEMMA NoneIsStatus == "none" \in Accounts!Status
BY DEF Accounts!Status

-----------------------------------------------------------------------------
(* Types.                                                                  *)

LEMMA LetInStep ==
  ASSUME AccountsTyped, NEW s \in Slot, NEW a \in Admin, NEW status, Accounts!LetIn(s, a, status)
  PROVE  /\ serving' \in [Slot -> Accounts!Request \cup {Accounts!Idle}] /\ signedIn' \subseteq Admin /\ Others(s)
         /\ serving'[s] = Accounts!Idle \/ Stands(s, "handle", a, "none")
<1>1. CASE status = "active"
  BY <1>1, BeginStep, NoneIsStatus DEF Accounts!LetIn, Accounts!Pc, AccountsTyped, Accounts!TypeOK
<1>2. CASE status # "active"
  BY <1>2, DoneStep DEF Accounts!LetIn, AccountsTyped, Accounts!TypeOK
<1>. QED  BY <1>1, <1>2

\* Where a step that is not Invite leaves its request.
LEMMA Moves ==
  ASSUME AccountsTyped, NEW s \in Slot,
         Accounts!Arrive(s) \/ Accounts!AskLogIn(s) \/ Accounts!OpenLink(s) \/ Accounts!Load(s) \/ Accounts!Fill(s) \/ Accounts!Handle(s) \/ Accounts!Mail(s)
           \/ Accounts!Accept(s) \/ Accounts!LogIn(s) \/ Accounts!SetStatus(s) \/ Accounts!DropCached(s)
  PROVE  /\ serving' \in [Slot -> Accounts!Request \cup {Accounts!Idle}] /\ signedIn' \subseteq Admin /\ Others(s)
         /\ \/ serving'[s] = Accounts!Idle
            \/ serving'[s].pc \in {"load", "fill", "handle", "drop", "login", "create", "resend"}
            \/ /\ Accounts!At(s, "handle")
               /\ \E a \in Admin, new \in {"active", "suspend"} :
                    staff[a].status \in {"active", "suspend"} /\ Stands(s, "set", a, new)
            \/ /\ Accounts!At(s, "idle")
               /\ \E l \in links :
                    /\ DoubleAccept \/ \A t \in Slot : Accounts!At(t, "accept") => Accounts!Who(t) # l.who
                    /\ Accounts!Resolves(l) /\ Stands(s, "accept", l.who, "none")
<1>0. signedIn \subseteq Admin /\ links \subseteq Accounts!Link
  BY DEF AccountsTyped, Accounts!TypeOK
<1>1. CASE Accounts!Arrive(s)
  <2>1. PICK a \in Admin : \/ Accounts!Begin(s, "load", a, "none") /\ UNCHANGED signedIn
                           \/ Accounts!LetIn(s, a, cache[a])
    BY <1>0, <1>1 DEF Accounts!Arrive
  <2>. QED  BY <1>0, <2>1, BeginStep, LetInStep, NoneIsStatus DEF Accounts!Pc, Stands
<1>2. CASE Accounts!AskLogIn(s)
  BY <1>0, <1>2, BeginStep, NoneIsStatus DEF Accounts!AskLogIn, Accounts!Pc, Stands
<1>3. CASE Accounts!OpenLink(s)
  <2>1. PICK l \in links : /\ DoubleAccept \/ \A t \in Slot : Accounts!At(t, "accept") => Accounts!Who(t) # l.who
                           /\ Accounts!Resolves(l) /\ Accounts!Begin(s, "accept", l.who, "none")
    BY <1>3 DEF Accounts!OpenLink
  <2>2. l.who \in Admin
    BY <1>0 DEF Accounts!Link
  <2>3. serving' \in [Slot -> Accounts!Request \cup {Accounts!Idle}] /\ Stands(s, "accept", l.who, "none") /\ Others(s)
    BY <2>1, <2>2, BeginStep, NoneIsStatus DEF Accounts!Pc
  <2>. QED  BY <1>0, <1>3, <2>1, <2>3 DEF Accounts!OpenLink
<1>4. CASE Accounts!Load(s)
  <2>1. Accounts!Who(s) \in Admin /\ staff[Accounts!Who(s)].status \in Accounts!Status
    BY <1>4, Busy DEF Accounts!Load, Accounts!At
  <2>. QED  BY <1>0, <1>4, <2>1, BeginStep DEF Accounts!Load, Accounts!Pc, Stands
<1>5. CASE Accounts!Fill(s)
  <2>1. Accounts!Who(s) \in Admin
    BY <1>5, Busy DEF Accounts!Fill, Accounts!At
  <2>. QED  BY <1>5, <2>1, LetInStep DEF Accounts!Fill, Stands
<1>6. CASE Accounts!Handle(s)
  <2>1. Accounts!Who(s) \in Admin /\ Accounts!At(s, "handle") /\ UNCHANGED signedIn
    BY <1>6, Busy DEF Accounts!Handle, Accounts!At
  <2>2. \/ \E a \in Admin, new \in {"active", "suspend"} :
             staff[a].status \in {"active", "suspend"} /\ Accounts!Begin(s, "set", a, new)
        \/ \E a \in Admin, pc \in {"create", "resend", "drop"} : Accounts!Begin(s, pc, a, "none")
        \/ Accounts!Done(s)
    BY <1>6, <2>1 DEF Accounts!Handle
  <2>3. ASSUME NEW a \in Admin, NEW new \in {"active", "suspend"},
               staff[a].status \in {"active", "suspend"}, Accounts!Begin(s, "set", a, new)
        PROVE  serving' \in [Slot -> Accounts!Request \cup {Accounts!Idle}] /\ Stands(s, "set", a, new) /\ Others(s)
    BY <2>3, BeginStep DEF Accounts!Pc, Accounts!Status
  <2>4. ASSUME NEW a \in Admin, NEW pc \in {"create", "resend", "drop"}, Accounts!Begin(s, pc, a, "none")
        PROVE  serving' \in [Slot -> Accounts!Request \cup {Accounts!Idle}] /\ serving'[s].pc = pc /\ Others(s)
    BY <2>4, BeginStep, NoneIsStatus DEF Accounts!Pc, Stands
  <2>. QED  BY <1>0, <2>1, <2>2, <2>3, <2>4, DoneStep
<1>7. CASE Accounts!Mail(s) \/ Accounts!Accept(s) \/ Accounts!DropCached(s)
  BY <1>0, <1>7, DoneStep DEF Accounts!Mail, Accounts!Accept, Accounts!DropCached
<1>8. CASE Accounts!LogIn(s)
  <2>1. Accounts!Who(s) \in Admin
    BY <1>8, Busy DEF Accounts!LogIn, Accounts!At
  <2>. QED  BY <1>0, <1>8, <2>1, DoneStep DEF Accounts!LogIn
<1>9. CASE Accounts!SetStatus(s)
  <2>1. Accounts!Who(s) \in Admin
    BY <1>9, Busy DEF Accounts!SetStatus, Accounts!At
  <2>. QED  BY <1>0, <1>9, <2>1, BeginStep, NoneIsStatus DEF Accounts!SetStatus, Accounts!Pc, Stands
<1>. QED  BY <1>1, <1>2, <1>3, <1>4, <1>5, <1>6, <1>7, <1>8, <1>9

LEMMA InviteStep ==
  ASSUME AccountsTyped, NEW s \in Slot, Accounts!Invite(s)
  PROVE  /\ serving' \in [Slot -> Accounts!Request \cup {Accounts!Idle}] /\ Others(s)
         /\ serving'[s] = Accounts!Idle \/ (serving'[s].pc = "mail" /\ serving'[s].link \in 1 .. MaxInvites)
         /\ staff' \in [Admin -> Accounts!Member]
         /\ Invited
<1>1. serving[s] \in Accounts!Request /\ Accounts!Who(s) \in Admin /\ staff[Accounts!Who(s)] \in Accounts!Member
  BY Busy DEF Accounts!Invite, Accounts!At
<1>2. staff \in [Admin -> Accounts!Member] /\ serving \in [Slot -> Accounts!Request \cup {Accounts!Idle}]
  BY DEF AccountsTyped, Accounts!TypeOK
<1> DEFINE m == staff[Accounts!Who(s)]
<1>3. CASE Accounts!Done(s) /\ UNCHANGED staff
  BY <1>2, <1>3, DoneStep DEF Invited
<1>4. CASE ~(Accounts!At(s, "create") /\ m.status # "none")
  <2> DEFINE n == [status |-> IF Accounts!At(s, "create") THEN "pending" ELSE m.status,
                   invite |-> m.made + 1, made |-> m.made + 1, expired |-> FALSE]
             q == [serving[s] EXCEPT !.pc = "mail", !.link = m.made + 1]
  <2>1. m.made + 1 \in 1 .. MaxInvites /\ m.made + 1 \in 0 .. MaxInvites /\ m.status \in Accounts!Status
    BY ClockAssumption, <1>1 DEF Accounts!Invite, Accounts!Member
  <2>2. n \in Accounts!Member
    BY <2>1 DEF Accounts!Member, Accounts!Status
  <2>3. staff' = [staff EXCEPT ![Accounts!Who(s)] = n]
    BY <1>4 DEF Accounts!Invite
  <2>4. serving' = [serving EXCEPT ![s].pc = "mail", ![s].link = m.made + 1]
    BY <1>4 DEF Accounts!Invite
  <2>5. serving'[s] = q /\ Others(s)
    BY <1>2, <2>4 DEF Others
  <2>6. q \in Accounts!Request /\ q.pc = "mail" /\ q.link = m.made + 1
    BY <1>1, <2>1 DEF Accounts!Request, Accounts!Pc
  <2>7. serving' \in [Slot -> Accounts!Request \cup {Accounts!Idle}]
    BY <1>2, <2>4, <2>5, <2>6 DEF Others
  <2>8. staff' \in [Admin -> Accounts!Member]
    BY <1>1, <1>2, <2>2, <2>3
  <2>9. Invited
    BY <1>1, <1>2, <1>4, <2>3 DEF Invited
  <2>. QED  BY <2>1, <2>5, <2>6, <2>7, <2>8, <2>9
<1>. QED  BY <1>3, <1>4 DEF Accounts!Invite

\* What the other steps do to the rows.
LEMMA RowsWritten ==
  ASSUME AccountsTyped, NEW s \in Slot, Accounts!Accept(s) \/ Accounts!SetStatus(s)
  PROVE  /\ staff' \in [Admin -> Accounts!Member]
         /\ \A a \in Admin : a # Accounts!Who(s) => staff'[a] = staff[a]
         /\ Accounts!Accept(s) => staff'[Accounts!Who(s)].status = "active"
         /\ Accounts!SetStatus(s) => staff'[Accounts!Who(s)].status = serving[s].status
<1>1. Accounts!Who(s) \in Admin /\ staff[Accounts!Who(s)] \in Accounts!Member /\ serving[s].status \in Accounts!Status
  BY Busy DEF Accounts!Accept, Accounts!SetStatus, Accounts!At
<1>2. staff \in [Admin -> Accounts!Member]
  BY DEF AccountsTyped, Accounts!TypeOK
<1>3. CASE Accounts!Accept(s)
  <2> DEFINE n == [staff[Accounts!Who(s)] EXCEPT !.status = "active", !.invite = 0]
  <2>1. n \in Accounts!Member /\ n.status = "active"
    <3>1. 0 \in 0 .. MaxInvites /\ "active" \in Accounts!Status
      BY ClockAssumption DEF Accounts!Status
    <3>. QED  BY <1>1, <3>1 DEF Accounts!Member
  <2>2. staff' = [staff EXCEPT ![Accounts!Who(s)] = n]
    BY <1>1, <1>2, <1>3 DEF Accounts!Accept
  <2>3. ~Accounts!SetStatus(s)
    BY <1>3 DEF Accounts!Accept, Accounts!SetStatus, Accounts!At
  <2>. QED  BY <1>1, <1>2, <2>1, <2>2, <2>3
<1>4. CASE Accounts!SetStatus(s)
  <2> DEFINE n == [staff[Accounts!Who(s)] EXCEPT !.status = serving[s].status]
  <2>1. n \in Accounts!Member /\ n.status = serving[s].status
    BY <1>1 DEF Accounts!Member
  <2>2. staff' = [staff EXCEPT ![Accounts!Who(s)] = n]
    BY <1>1, <1>2, <1>4 DEF Accounts!SetStatus
  <2>3. ~Accounts!Accept(s)
    BY <1>4 DEF Accounts!Accept, Accounts!SetStatus, Accounts!At
  <2>. QED  BY <1>1, <1>2, <2>1, <2>2, <2>3
<1>. QED  BY <1>3, <1>4

\* The rows a step finds, and the rows it leaves.
LEMMA RowsTyped ==
  ASSUME AccountsTyped, [Accounts!Next]_(Accounts!vars)
  PROVE  staff' \in [Admin -> Accounts!Member]
<1>0. staff \in [Admin -> Accounts!Member]
  BY DEF AccountsTyped, Accounts!TypeOK
<1>1. ASSUME NEW s \in Slot, Accounts!Invite(s) \/ Accounts!Accept(s) \/ Accounts!SetStatus(s) PROVE staff' \in [Admin -> Accounts!Member]
  BY <1>1, InviteStep, RowsWritten
<1>2. ASSUME NEW a \in Admin, Accounts!ExpireInvite(a) PROVE staff' \in [Admin -> Accounts!Member]
  <2>1. [staff[a] EXCEPT !.expired = TRUE] \in Accounts!Member
    BY <1>0 DEF Accounts!Member
  <2>. QED  BY <1>0, <1>2, <2>1 DEF Accounts!ExpireInvite
<1>. QED  BY <1>0, <1>1, <1>2 DEF Accounts!Next, Accounts!Serve, Accounts!Arrive, Accounts!AskLogIn, Accounts!OpenLink, Accounts!Load, Accounts!Fill, Accounts!Handle, Accounts!Mail,
            Accounts!LogIn, Accounts!DropCached, Accounts!Expire, Accounts!Crash, Accounts!vars

LEMMA AccountsTypedNext ==
  ASSUME AccountsTyped, [Accounts!Next]_(Accounts!vars)
  PROVE  AccountsTyped'
<1>0. /\ cache \in [Admin -> Accounts!Status] /\ links \subseteq Accounts!Link /\ signedIn \subseteq Admin
      /\ serving \in [Slot -> Accounts!Request \cup {Accounts!Idle}] /\ restarts \in 0 .. MaxCrashes
  BY DEF AccountsTyped, Accounts!TypeOK
<1>1. serving' \in [Slot -> Accounts!Request \cup {Accounts!Idle}] /\ signedIn' \subseteq Admin
  <2>1. ASSUME NEW s \in Slot, Accounts!Arrive(s) \/ Accounts!AskLogIn(s) \/ Accounts!OpenLink(s) \/ Accounts!Serve(s)
        PROVE  serving' \in [Slot -> Accounts!Request \cup {Accounts!Idle}] /\ signedIn' \subseteq Admin
    <3>1. CASE Accounts!Invite(s)
      BY <1>0, <3>1, InviteStep DEF Accounts!Invite
    <3>2. CASE ~Accounts!Invite(s)
      BY <2>1, <3>2, Moves DEF Accounts!Serve
    <3>. QED  BY <3>1, <3>2
  <2>2. Accounts!Crash => serving' \in [Slot -> Accounts!Request \cup {Accounts!Idle}] /\ signedIn' \subseteq Admin
    BY <1>0 DEF Accounts!Crash
  <2>3. ASSUME NEW a \in Admin, Accounts!Expire(a) \/ Accounts!ExpireInvite(a)
        PROVE  serving' \in [Slot -> Accounts!Request \cup {Accounts!Idle}] /\ signedIn' \subseteq Admin
    BY <1>0, <2>3 DEF Accounts!Expire, Accounts!ExpireInvite
  <2>. QED  BY <1>0, <2>1, <2>2, <2>3 DEF Accounts!Next, Accounts!vars
<1>2. links' \subseteq Accounts!Link
  <2>1. ASSUME NEW s \in Slot, Accounts!Mail(s) PROVE links' \subseteq Accounts!Link
    <3>1. Accounts!Who(s) \in Admin /\ serving[s].link \in 1 .. MaxInvites
      BY <2>1, Busy DEF Accounts!Mail, Accounts!At, AccountsTyped
    <3>2. [who |-> Accounts!Who(s), n |-> serving[s].link] \in Accounts!Link
      BY <3>1 DEF Accounts!Link
    <3>. QED  BY <1>0, <2>1, <3>2 DEF Accounts!Mail
  <2>. QED  BY <1>0, <2>1 DEF Accounts!Next, Accounts!Serve, Accounts!Arrive, Accounts!AskLogIn, Accounts!OpenLink, Accounts!Load, Accounts!Fill, Accounts!Handle, Accounts!Invite,
              Accounts!Accept, Accounts!LogIn, Accounts!SetStatus, Accounts!DropCached, Accounts!Expire, Accounts!ExpireInvite, Accounts!Crash, Accounts!vars
<1>3. cache' \in [Admin -> Accounts!Status]
  <2>1. ASSUME NEW s \in Slot, Accounts!Fill(s) PROVE cache' \in [Admin -> Accounts!Status]
    BY <1>0, <2>1, Busy DEF Accounts!Fill, Accounts!At
  <2>. QED  BY <1>0, <2>1, NoneIsStatus DEF Accounts!Next, Accounts!Serve, Accounts!Arrive, Accounts!AskLogIn, Accounts!OpenLink, Accounts!Load, Accounts!Handle,
              Accounts!Invite, Accounts!Mail, Accounts!Accept, Accounts!LogIn, Accounts!SetStatus, Accounts!DropCached, Accounts!Expire, Accounts!ExpireInvite, Accounts!Crash, Accounts!vars
<1>4. restarts' \in 0 .. MaxCrashes
  <2>1. Accounts!Crash => restarts' \in 0 .. MaxCrashes
    BY ClockAssumption, <1>0 DEF Accounts!Crash
  <2>2. Accounts!Crash \/ UNCHANGED restarts
    BY DEF Accounts!Next, Accounts!Serve, Accounts!Arrive, Accounts!AskLogIn, Accounts!OpenLink, Accounts!Load, Accounts!Fill, Accounts!Handle, Accounts!Invite, Accounts!Mail, Accounts!Accept, Accounts!LogIn,
           Accounts!SetStatus, Accounts!DropCached, Accounts!Expire, Accounts!ExpireInvite, Accounts!vars
  <2>. QED  BY <1>0, <2>1, <2>2
<1>5. ASSUME NEW t \in Slot, Accounts!At(t, "mail")' PROVE serving'[t].link \in 1 .. MaxInvites
  <2>1. ASSUME NEW s \in Slot, Accounts!Arrive(s) \/ Accounts!AskLogIn(s) \/ Accounts!OpenLink(s) \/ Accounts!Serve(s)
        PROVE  serving'[t].link \in 1 .. MaxInvites
    <3>1. CASE t # s
      <4>1. Others(s)
        BY <2>1, Moves, InviteStep DEF Accounts!Serve
      <4>. QED  BY <1>5, <3>1, <4>1 DEF AccountsTyped, Others, Accounts!At
    <3>2. CASE t = s /\ Accounts!Invite(s)
      BY <1>5, <3>2, InviteStep DEF Accounts!At, Accounts!Idle
    <3>3. CASE t = s /\ ~Accounts!Invite(s)
      <4>1. serving'[s].pc # "mail"
        BY <2>1, <3>3, Moves DEF Accounts!Serve, Accounts!Idle, Stands
      <4>. QED  BY <1>5, <3>3, <4>1 DEF Accounts!At
    <3>. QED  BY <3>1, <3>2, <3>3
  <2>2. CASE Accounts!Crash
    BY <1>5, <2>2 DEF Accounts!Crash, Accounts!At, Accounts!Idle
  <2>3. CASE UNCHANGED serving
    BY <1>5, <2>3 DEF AccountsTyped, Accounts!At
  <2>. QED  BY <2>1, <2>2, <2>3 DEF Accounts!Next, Accounts!Expire, Accounts!ExpireInvite, Accounts!vars
<1>. QED  BY <1>1, <1>2, <1>3, <1>4, <1>5, RowsTyped DEF AccountsTyped, Accounts!TypeOK

LEMMA AccountsTypedInit == Accounts!Init => AccountsTyped
BY ClockAssumption DEF Accounts!Init, AccountsTyped, Accounts!TypeOK, Accounts!Member, Accounts!Status, Accounts!At, Accounts!Idle

-----------------------------------------------------------------------------
(* Disabled accounts.                                                      *)

\* A status is set only for an account that was accepted, a link is accepted
\* only for one that was not, and by one request.
AccountsInv ==
  \A s, t \in Slot :
    /\ Accounts!At(s, "set") => /\ staff[Accounts!Who(s)].status \in {"active", "suspend"}
                       /\ serving[s].status \in {"active", "suspend"}
    /\ Accounts!At(s, "accept") => staff[Accounts!Who(s)].status = "pending"
    /\ Accounts!At(s, "accept") /\ Accounts!At(t, "accept") /\ Accounts!Who(s) = Accounts!Who(t) => s = t

LEMMA AccountsNext ==
  ASSUME ~DoubleAccept, AccountsTyped, AccountsInv, [Accounts!Next]_(Accounts!vars)
  PROVE  AccountsInv'
<1>0. /\ staff \in [Admin -> Accounts!Member] /\ links \subseteq Accounts!Link
      /\ \A t \in Slot : Accounts!At(t, "set") \/ Accounts!At(t, "accept") => Accounts!Who(t) \in Admin
  BY Busy DEF AccountsTyped, Accounts!TypeOK, Accounts!At
<1>1. ASSUME NEW s \in Slot, Others(s), serving'[s].pc \notin {"set", "accept"},
             Invited
      PROVE  AccountsInv'
  <2>1. \A t \in Slot : Accounts!At(t, "set")' \/ Accounts!At(t, "accept")' => t # s /\ serving'[t] = serving[t]
    BY <1>1 DEF Others, Accounts!At
  <2>. QED  BY <1>0, <1>1, <2>1 DEF AccountsInv, Invited, Accounts!At, Accounts!Who
<1>2. ASSUME NEW s \in Slot, Accounts!Invite(s) PROVE AccountsInv'
  <2>1. Others(s) /\ serving'[s].pc \notin {"set", "accept"}
    BY <1>2, InviteStep DEF Accounts!Idle
  <2>2. Invited
    BY <1>2, InviteStep
  <2>. QED  BY <1>1, <2>1, <2>2
<1>3. ASSUME NEW s \in Slot, Accounts!Accept(s) PROVE AccountsInv'
  <2>1. Accounts!Who(s) \in Admin /\ Accounts!At(s, "accept") /\ serving'[s] = Accounts!Idle /\ Others(s)
    BY <1>0, <1>3, DoneStep DEF Accounts!Accept
  <2>2. ASSUME NEW t \in Slot, Accounts!At(t, "set")' \/ Accounts!At(t, "accept")'
        PROVE  /\ t # s /\ serving'[t] = serving[t] /\ Accounts!Who(t) # Accounts!Who(s)
               /\ Accounts!Who(t) \in Admin /\ staff'[Accounts!Who(t)] = staff[Accounts!Who(t)]
    <3>1. t # s /\ serving'[t] = serving[t] /\ (Accounts!At(t, "set") \/ Accounts!At(t, "accept"))
      BY <2>1, <2>2 DEF Others, Accounts!At, Accounts!Idle
    <3>2. Accounts!Who(t) # Accounts!Who(s)
      BY <2>1, <3>1 DEF AccountsInv
    <3>. QED  BY <1>0, <1>3, <3>1, <3>2, RowsWritten
  <2>. QED  BY <2>2 DEF AccountsInv, Accounts!At, Accounts!Who
<1>4. ASSUME NEW s \in Slot, Accounts!SetStatus(s) PROVE AccountsInv'
  <2>1. /\ Accounts!Who(s) \in Admin /\ Accounts!At(s, "set") /\ serving'[s].pc = "drop" /\ Others(s)
        /\ staff'[Accounts!Who(s)].status \in {"active", "suspend"}
    BY <1>0, <1>4, BeginStep, NoneIsStatus, RowsWritten DEF Accounts!SetStatus, Accounts!Pc, Stands, AccountsInv
  <2>2. ASSUME NEW t \in Slot, Accounts!At(t, "set")' \/ Accounts!At(t, "accept")'
        PROVE  /\ t # s /\ serving'[t] = serving[t] /\ Accounts!Who(t) \in Admin
               /\ Accounts!At(t, "accept") => Accounts!Who(t) # Accounts!Who(s)
               /\ Accounts!Who(t) # Accounts!Who(s) => staff'[Accounts!Who(t)] = staff[Accounts!Who(t)]
    <3>1. t # s /\ serving'[t] = serving[t] /\ (Accounts!At(t, "set") \/ Accounts!At(t, "accept"))
      BY <2>1, <2>2 DEF Others, Accounts!At
    <3>2. Accounts!At(t, "accept") => Accounts!Who(t) # Accounts!Who(s)
      BY <2>1 DEF AccountsInv
    <3>. QED  BY <1>0, <1>4, <3>1, <3>2, RowsWritten
  <2>. QED  BY <2>1, <2>2 DEF AccountsInv, Accounts!At, Accounts!Who
<1>5. ASSUME NEW s \in Slot,
             Accounts!Arrive(s) \/ Accounts!AskLogIn(s) \/ Accounts!OpenLink(s) \/ Accounts!Load(s) \/ Accounts!Fill(s) \/ Accounts!Handle(s) \/ Accounts!Mail(s)
               \/ Accounts!LogIn(s) \/ Accounts!DropCached(s)
      PROVE  AccountsInv'
  <2>1. UNCHANGED staff /\ Others(s)
    BY <1>5, Moves DEF Accounts!Arrive, Accounts!AskLogIn, Accounts!OpenLink, Accounts!Load, Accounts!Fill, Accounts!Handle, Accounts!Mail, Accounts!LogIn, Accounts!DropCached
  <2>2. CASE serving'[s].pc \notin {"set", "accept"}
    <3>1. Invited
      BY <2>1 DEF Invited
    <3>. QED  BY <1>1, <2>1, <2>2, <3>1
  <2>3. ASSUME NEW a \in Admin, NEW new \in {"active", "suspend"},
               staff[a].status \in {"active", "suspend"}, Stands(s, "set", a, new)
        PROVE  AccountsInv'
    BY <2>1, <2>3 DEF AccountsInv, Others, Stands, Accounts!At, Accounts!Who
  <2>4. ASSUME NEW l \in links, \A t \in Slot : Accounts!At(t, "accept") => Accounts!Who(t) # l.who,
               Accounts!Resolves(l), Stands(s, "accept", l.who, "none")
        PROVE  AccountsInv'
    BY <2>1, <2>4 DEF AccountsInv, Others, Stands, Accounts!At, Accounts!Who, Accounts!Resolves
  <2>. QED  BY <1>5, <2>2, <2>3, <2>4, Moves DEF Accounts!Idle
<1>6. ASSUME NEW a \in Admin, Accounts!ExpireInvite(a) PROVE AccountsInv'
  <2>1. \A b \in Admin : staff'[b].status = staff[b].status
    BY <1>0, <1>6 DEF Accounts!ExpireInvite, Accounts!Member
  <2>. QED  BY <1>0, <1>6, <2>1 DEF Accounts!ExpireInvite, AccountsInv, Accounts!At, Accounts!Who
<1>7. CASE Accounts!Crash
  BY <1>7 DEF Accounts!Crash, AccountsInv, Accounts!At, Accounts!Idle
<1>8. CASE UNCHANGED <<staff, serving>>
  BY <1>8 DEF AccountsInv, Accounts!At, Accounts!Who
<1>. QED  BY <1>2, <1>3, <1>4, <1>5, <1>6, <1>7, <1>8 DEF Accounts!Next, Accounts!Serve, Accounts!Expire, Accounts!vars

\* As long as no link is opened twice at the same time, a disabled account comes
\* back by updateStaffStatus alone: no old, reissued or half-accepted link
\* reactivates it.
THEOREM Suspended ==
  ASSUME ~DoubleAccept
  PROVE  Accounts!Spec => Accounts!SuspensionSticks
<1>1. Accounts!Init => AccountsInv
  BY DEF Accounts!Init, AccountsInv, Accounts!At, Accounts!Idle
<1>2. AccountsTyped /\ AccountsInv /\ [Accounts!Next]_(Accounts!vars) =>
        [\A a \in Admin : staff[a].status = "suspend" /\ staff'[a].status # "suspend" =>
           \E s \in Slot : Accounts!At(s, "set") /\ Accounts!Who(s) = a]_(Accounts!vars)
  <2> SUFFICES ASSUME AccountsTyped, AccountsInv, Accounts!Next, NEW a \in Admin,
                      staff[a].status = "suspend", staff'[a].status # "suspend"
               PROVE  \E s \in Slot : Accounts!At(s, "set") /\ Accounts!Who(s) = a
    BY DEF Accounts!vars
  <2>0. staff \in [Admin -> Accounts!Member]
    BY DEF AccountsTyped, Accounts!TypeOK
  <2>1. ASSUME NEW b \in Admin, Accounts!ExpireInvite(b) PROVE FALSE
    BY <2>0, <2>1 DEF Accounts!ExpireInvite, Accounts!Member
  <2>2. ASSUME NEW s \in Slot, Accounts!Invite(s) PROVE FALSE
    BY <2>2, InviteStep DEF Invited
  <2>3. ASSUME NEW s \in Slot, Accounts!Accept(s) PROVE FALSE
    BY <2>3, RowsWritten DEF Accounts!Accept, AccountsInv
  <2>4. ASSUME NEW s \in Slot, Accounts!SetStatus(s) PROVE Accounts!At(s, "set") /\ Accounts!Who(s) = a
    BY <2>4, RowsWritten DEF Accounts!SetStatus
  <2>. QED  BY <2>1, <2>2, <2>3, <2>4 DEF Accounts!Next, Accounts!Serve, Accounts!Arrive, Accounts!AskLogIn, Accounts!OpenLink, Accounts!Load, Accounts!Fill, Accounts!Handle,
              Accounts!Mail, Accounts!LogIn, Accounts!DropCached, Accounts!Expire, Accounts!Crash
<1>3. Accounts!Spec => []AccountsTyped
  BY AccountsTypedInit, AccountsTypedNext, PTL DEF Accounts!Spec
<1>4. Accounts!Spec => []AccountsInv
  BY <1>1, <1>3, AccountsNext, PTL DEF Accounts!Spec
<1>. QED  BY <1>2, <1>3, <1>4, PTL DEF Accounts!Spec, Accounts!SuspensionSticks

-----------------------------------------------------------------------------
(* The half-hourly run (SubAccountSweep).  No more leaves a sub-account    *)
(* than came, so that what is left is in bounds.                           *)

SweepTyped == Sweep!TypeOK /\ \A u \in User : balance[u] <= came[u]

LEMMA SweepTypedInit == Sweep!Init => SweepTyped
<1>1. 0 \in 0 .. MaxDeposits /\ 0 \in 0 .. MaxFailures /\ 0 \in 0 .. MaxCrashes
  BY ClockAssumption, ConstantsAssumption
<1>2. ASSUME Sweep!Init PROVE Sweep!TypeOK
  <2>1. balance \in [User -> 0 .. MaxDeposits] /\ came \in [User -> 0 .. MaxDeposits]
    BY <1>1, <1>2 DEF Sweep!Init
  <2>2. asking \subseteq User /\ sweepRunning \in BOOLEAN /\ run \in Sweep!Run \cup {Sweep!NoRun}
    BY <1>2 DEF Sweep!Init
  <2>3. failed \in 0 .. MaxFailures /\ crashes \in 0 .. MaxCrashes
    BY <1>1, <1>2 DEF Sweep!Init
  <2>. QED  BY <2>1, <2>2, <2>3 DEF Sweep!TypeOK
<1>3. ASSUME Sweep!Init, NEW u \in User PROVE balance[u] <= came[u]
  <2>1. balance[u] = 0 /\ came[u] = 0
    BY <1>3 DEF Sweep!Init
  <2>. QED  BY <2>1
<1>. QED  BY <1>2, <1>3 DEF SweepTyped

\* A withdrawal keeps the balances in bounds, whatever amount is asked for.
LEMMA WithdrawStep ==
  ASSUME SweepTyped, NEW u \in User, NEW n \in 0 .. MaxDeposits, Sweep!Withdraw(u, n) \/ UNCHANGED balance
  PROVE  balance' \in [User -> 0 .. MaxDeposits] /\ \A v \in User : balance'[v] <= came[v]
<1>. USE ClockAssumption
<1>1. /\ balance \in [User -> 0 .. MaxDeposits] /\ came \in [User -> 0 .. MaxDeposits]
      /\ \A v \in User : balance[v] <= came[v]
  BY DEF SweepTyped, Sweep!TypeOK
<1>2. CASE n <= balance[u] /\ balance' = [balance EXCEPT ![u] = @ - n]
  <2>1. balance[u] - n \in 0 .. MaxDeposits /\ balance[u] - n <= came[u]
    BY <1>1, <1>2
  <2>. QED  BY <1>1, <1>2, <2>1
<1>3. CASE UNCHANGED balance
  BY <1>1, <1>3
<1>. QED  BY <1>2, <1>3 DEF Sweep!Withdraw

\* Where the run stands after any step.
LEMMA RunStep ==
  ASSUME SweepTyped, [Sweep!Next]_(Sweep!vars)
  PROVE  run' \in Sweep!Run \cup {Sweep!NoRun} /\ sweepRunning' \in BOOLEAN
<1>. USE ClockAssumption
<1> DEFINE RunPc == {"users", "next", "list", "sweep", "hung"}
<1>0. /\ run \in Sweep!Run \cup {Sweep!NoRun} /\ sweepRunning \in BOOLEAN
      /\ balance \in [User -> 0 .. MaxDeposits]
  BY DEF SweepTyped, Sweep!TypeOK
<1>1. ASSUME run.pc # "idle"
      PROVE  /\ run \in Sweep!Run
             /\ \A pc \in RunPc : [run EXCEPT !.pc = pc] \in Sweep!Run
             /\ \A n \in 0 .. MaxDeposits, pc \in RunPc : [run EXCEPT !.pc = pc, !.amount = n] \in Sweep!Run
             /\ \A todo \in SUBSET User, pc \in RunPc : [run EXCEPT !.pc = pc, !.todo = todo] \in Sweep!Run
             /\ run.user \in User /\ run.amount \in 0 .. MaxDeposits /\ run.todo \in SUBSET User
  <2>1. run \in Sweep!Run
    BY <1>0, <1>1 DEF Sweep!NoRun
  <2>. QED  BY <2>1 DEF Sweep!Run
<1>2. CASE Sweep!CronTick
  <2>1. (CHOOSE u \in User : TRUE) \in User
    OBVIOUS
  <2>2. [pc |-> "users", todo |-> {}, user |-> CHOOSE u \in User : TRUE, amount |-> 0] \in Sweep!Run
    BY <2>1 DEF Sweep!Run
  <2>. QED  BY <1>2, <2>2 DEF Sweep!CronTick
<1>3. CASE Sweep!ListUsers
  <2>1. run.pc # "idle"
    BY <1>3 DEF Sweep!ListUsers
  <2>. QED  BY <1>0, <1>1, <1>3, <2>1 DEF Sweep!ListUsers, Sweep!End
<1>4. CASE Sweep!NextUser
  <2>1. run.pc # "idle"
    BY <1>4 DEF Sweep!NextUser
  <2>2. ASSUME NEW u \in run.todo
        PROVE  [run EXCEPT !.pc = "list", !.user = u, !.todo = run.todo \ {u}] \in Sweep!Run
    <3>1. run \in Sweep!Run /\ u \in User /\ run.todo \ {u} \in SUBSET User
      BY <1>1, <2>1
    <3>. HIDE <1>1
    <3>. QED  BY <3>1 DEF Sweep!Run
  <2>3. sweepRunning' \in BOOLEAN
    BY <1>0, <1>4 DEF Sweep!NextUser, Sweep!End
  <2>4. CASE run.todo = {}
    BY <1>4, <2>4 DEF Sweep!NextUser, Sweep!End
  <2>5. CASE run.todo # {}
    <3>1. PICK u \in run.todo : run' = [run EXCEPT !.pc = "list", !.user = u, !.todo = run.todo \ {u}]
      BY <1>4, <2>5 DEF Sweep!NextUser
    <3>. QED  BY <2>2, <2>3, <3>1
  <2>. QED  BY <2>3, <2>4, <2>5
<1>5. CASE Sweep!ListWallets
  <2>1. run.pc # "idle"
    BY <1>5 DEF Sweep!ListWallets
  <2>2. balance[run.user] \in 0 .. MaxDeposits
    BY <1>0, <1>1, <2>1
  <2>. QED  BY <1>0, <1>1, <1>5, <2>1, <2>2 DEF Sweep!ListWallets, Sweep!Goto
<1>6. CASE Sweep!SweepWallet
  <2>1. run.pc # "idle" /\ 0 \in 0 .. MaxDeposits
    BY <1>6 DEF Sweep!SweepWallet
  <2>. QED  BY <1>0, <1>1, <1>6, <2>1 DEF Sweep!SweepWallet
<1>7. CASE Sweep!Hang
  BY <1>0, <1>1, <1>7 DEF Sweep!Hang, Sweep!Goto
<1>8. CASE Sweep!Crash
  BY <1>8 DEF Sweep!Crash, Sweep!End
<1>9. CASE \E u \in User : Sweep!Deposit(u) \/ Sweep!HookSweep(u)
  BY <1>0, <1>9 DEF Sweep!Deposit, Sweep!HookSweep
<1>10. CASE UNCHANGED Sweep!vars
  BY <1>0, <1>10 DEF Sweep!vars
<1>. QED  BY <1>2, <1>3, <1>4, <1>5, <1>6, <1>7, <1>8, <1>9, <1>10 DEF Sweep!Next, Sweep!RunStep

LEMMA SweepTypedNext ==
  ASSUME SweepTyped, [Sweep!Next]_(Sweep!vars)
  PROVE  SweepTyped'
<1>. USE ClockAssumption, ConstantsAssumption
<1>0. /\ balance \in [User -> 0 .. MaxDeposits] /\ came \in [User -> 0 .. MaxDeposits]
      /\ \A u \in User : balance[u] <= came[u]
      /\ asking \subseteq User /\ failed \in 0 .. MaxFailures /\ crashes \in 0 .. MaxCrashes
      /\ run \in Sweep!Run \cup {Sweep!NoRun}
  BY DEF SweepTyped, Sweep!TypeOK
<1>1. /\ balance' \in [User -> 0 .. MaxDeposits] /\ came' \in [User -> 0 .. MaxDeposits]
      /\ \A u \in User : balance'[u] <= came'[u]
  <2>1. ASSUME NEW u \in User, Sweep!Deposit(u)
        PROVE  /\ balance' \in [User -> 0 .. MaxDeposits] /\ came' \in [User -> 0 .. MaxDeposits]
               /\ \A v \in User : balance'[v] <= came'[v]
    <3>1. /\ came' = [came EXCEPT ![u] = came[u] + 1] /\ balance' = [balance EXCEPT ![u] = balance[u] + 1]
          /\ came[u] + 1 \in 0 .. MaxDeposits /\ balance[u] + 1 \in 0 .. MaxDeposits
          /\ balance[u] + 1 <= came[u] + 1
      BY <1>0, <2>1 DEF Sweep!Deposit
    <3>. QED  BY <1>0, <3>1
  <2>2. ASSUME NEW u \in User, Sweep!HookSweep(u)
        PROVE  /\ balance' \in [User -> 0 .. MaxDeposits] /\ came' \in [User -> 0 .. MaxDeposits]
               /\ \A v \in User : balance'[v] <= came'[v]
    <3>1. CASE 1 <= MaxDeposits
      BY <1>0, <2>2, <3>1, WithdrawStep DEF Sweep!HookSweep
    <3>2. CASE MaxDeposits = 0
      <4>1. balance[u] = 0
        BY <1>0, <3>2
      <4>2. UNCHANGED balance
        BY <2>2, <4>1 DEF Sweep!HookSweep, Sweep!Withdraw
      <4>. QED  BY <1>0, <2>2, <4>2 DEF Sweep!HookSweep
    <3>. QED  BY <3>1, <3>2
  <2>3. ASSUME Sweep!SweepWallet
        PROVE  /\ balance' \in [User -> 0 .. MaxDeposits] /\ came' \in [User -> 0 .. MaxDeposits]
               /\ \A v \in User : balance'[v] <= came'[v]
    <3>1. run \in Sweep!Run
      BY <1>0, <2>3 DEF Sweep!SweepWallet, Sweep!NoRun
    <3>2. run.user \in User /\ run.amount \in 0 .. MaxDeposits
      BY <3>1 DEF Sweep!Run
    <3>. QED  BY <1>0, <2>3, <3>2, WithdrawStep DEF Sweep!SweepWallet
  <2>4. UNCHANGED <<balance, came>> =>
               /\ balance' \in [User -> 0 .. MaxDeposits] /\ came' \in [User -> 0 .. MaxDeposits]
               /\ \A v \in User : balance'[v] <= came'[v]
    BY <1>0
  <2>. QED  BY <2>1, <2>2, <2>3, <2>4 DEF Sweep!Next, Sweep!RunStep, Sweep!CronTick, Sweep!ListUsers,
              Sweep!NextUser, Sweep!ListWallets, Sweep!Hang, Sweep!Crash, Sweep!vars
<1>2. asking' \subseteq User
  BY <1>0 DEF Sweep!Next, Sweep!RunStep, Sweep!Deposit, Sweep!HookSweep, Sweep!CronTick, Sweep!ListUsers,
              Sweep!NextUser, Sweep!ListWallets, Sweep!SweepWallet, Sweep!Hang, Sweep!Crash, Sweep!vars
<1>3. failed' \in 0 .. MaxFailures
  <2>1. Sweep!Fails => failed' \in 0 .. MaxFailures
    BY <1>0 DEF Sweep!Fails
  <2>. QED  BY <1>0, <2>1 DEF Sweep!Next, Sweep!RunStep, Sweep!Deposit, Sweep!HookSweep, Sweep!CronTick,
              Sweep!ListUsers, Sweep!NextUser, Sweep!ListWallets, Sweep!SweepWallet, Sweep!Hang, Sweep!Crash,
              Sweep!vars
<1>4. crashes' \in 0 .. MaxCrashes
  <2>1. Sweep!Crash => crashes' \in 0 .. MaxCrashes
    BY <1>0 DEF Sweep!Crash
  <2>. QED  BY <1>0, <2>1 DEF Sweep!Next, Sweep!RunStep, Sweep!Deposit, Sweep!HookSweep, Sweep!CronTick,
              Sweep!ListUsers, Sweep!NextUser, Sweep!ListWallets, Sweep!SweepWallet, Sweep!Hang, Sweep!vars
<1>. QED  BY <1>1, <1>2, <1>3, <1>4, RunStep DEF SweepTyped, Sweep!TypeOK

-----------------------------------------------------------------------------
(* The token (NombaToken).                                                 *)

\* Types, with what a generator has in hand once Nomba has answered.
TokenTyped ==
  /\ Nomba!TypeOK
  /\ \A a \in Nomba!Actor : Nomba!Is(a, "delete") \/ Nomba!Is(a, "save") => reader[a].token \in Token

LEMMA TokenTypedInit == Nomba!Init => TokenTyped
<1>1. 0 \in 0 .. MaxFailures /\ 0 \in 0 .. MaxCrashes
  BY ClockAssumption, ConstantsAssumption
<1>. QED  BY <1>1 DEF Nomba!Init, TokenTyped, Nomba!TypeOK, Nomba!Is, Nomba!Idle

\* The reader that moves, and what it holds after.
LEMMA ReaderMoves ==
  ASSUME TokenTyped, NEW a \in Nomba!Actor, NEW kind \in Nomba!Kind,
         NEW pc \in {"issue", "delete", "save", "again", "call", "skip"},
         NEW t \in Token \cup {Nomba!None},
         pc \in {"delete", "save"} => t \in Token,
         Nomba!Done(a) \/ Nomba!Begin(a, kind, pc, t)
  PROVE  /\ reader' \in [Nomba!Actor -> Nomba!Busy \cup {Nomba!Idle}]
         /\ \A b \in Nomba!Actor :
              reader'[b].pc \in {"delete", "save"} => reader'[b].token \in Token
<1>1. reader \in [Nomba!Actor -> Nomba!Busy \cup {Nomba!Idle}]
  BY DEF TokenTyped, Nomba!TypeOK
<1>2. [pc |-> pc, kind |-> kind, token |-> t] \in Nomba!Busy
  BY DEF Nomba!Busy
<1>3. \A b \in Nomba!Actor : reader[b].pc \in {"delete", "save"} => reader[b].token \in Token
  BY DEF TokenTyped, Nomba!Is
<1>4. CASE Nomba!Done(a)
  BY <1>1, <1>3, <1>4 DEF Nomba!Done, Nomba!Idle
<1>5. CASE Nomba!Begin(a, kind, pc, t)
  <2>1. reader' = [reader EXCEPT ![a] = [pc |-> pc, kind |-> kind, token |-> t]]
    BY <1>5 DEF Nomba!Begin
  <2>. QED  BY <1>1, <1>2, <1>3, <2>1
<1>. QED  BY <1>4, <1>5

LEMMA TokenTypedNext ==
  ASSUME TokenTyped, [Nomba!Next]_(Nomba!vars)
  PROVE  TokenTyped'
<1>. USE ClockAssumption, ConstantsAssumption
<1>0. /\ tokens \subseteq Token /\ refused \in 0 .. MaxFailures /\ stops \in 0 .. MaxCrashes
      /\ reader \in [Nomba!Actor -> Nomba!Busy \cup {Nomba!Idle}]
  BY DEF TokenTyped, Nomba!TypeOK
<1> DEFINE Holds == /\ reader' \in [Nomba!Actor -> Nomba!Busy \cup {Nomba!Idle}]
                    /\ \A b \in Nomba!Actor :
                         reader'[b].pc \in {"delete", "save"} => reader'[b].token \in Token
<1>1. ASSUME NEW a \in Nomba!Actor, ~Nomba!Is(a, "idle")
      PROVE  reader[a] \in Nomba!Busy /\ reader[a].kind \in Nomba!Kind /\ reader[a].token \in Token \cup {Nomba!None}
  <2>1. reader[a] \in Nomba!Busy
    BY <1>0, <1>1 DEF Nomba!Is, Nomba!Idle
  <2>. QED  BY <2>1 DEF Nomba!Busy
<1>2. CASE Nomba!Tick
  <2>1. Timer \in Nomba!Actor /\ "clock" \in Nomba!Kind
    BY DEF Nomba!Actor, Nomba!Kind
  <2>2. Holds
    BY <1>2, <2>1, ReaderMoves DEF Nomba!Tick
  <2>. QED  BY <1>0, <1>2, <2>2 DEF Nomba!Tick, TokenTyped, Nomba!TypeOK, Nomba!Is
<1>3. ASSUME NEW a \in Reader, Nomba!Read(a) PROVE TokenTyped'
  <2>1. a \in Nomba!Actor
    BY DEF Nomba!Actor
  <2>2. PICK kind \in Nomba!Kind : \/ \E t \in tokens : Nomba!Begin(a, kind, "call", t)
                                  \/ Nomba!Begin(a, kind, "issue", Nomba!None)
    BY <1>3 DEF Nomba!Read
  <2>3. Holds
    BY <1>0, <2>1, <2>2, ReaderMoves
  <2>. QED  BY <1>0, <1>3, <2>3 DEF Nomba!Read, TokenTyped, Nomba!TypeOK, Nomba!Is
<1>4. ASSUME NEW a \in Nomba!Actor, Nomba!Issue(a) PROVE TokenTyped'
  <2>1. reader[a].kind \in Nomba!Kind
    BY <1>1, <1>4 DEF Nomba!Issue, Nomba!Is
  <2>2. \/ \E t \in Token : Nomba!Begin(a, reader[a].kind, "delete", t)
        \/ Nomba!Done(a)
    BY <1>4 DEF Nomba!Issue, Nomba!Unused
  <2>3. Holds
    <3>1. ASSUME NEW t \in Token, Nomba!Begin(a, reader[a].kind, "delete", t) PROVE Holds
      BY <2>1, <3>1, ReaderMoves
    <3>2. CASE Nomba!Done(a)
      BY <2>1, <3>2, ReaderMoves
    <3>. QED  BY <2>2, <3>1, <3>2
  <2>4. refused' \in 0 .. MaxFailures
    BY <1>0, <1>4 DEF Nomba!Issue
  <2>. QED  BY <1>0, <1>4, <2>3, <2>4 DEF Nomba!Issue, TokenTyped, Nomba!TypeOK, Nomba!Is
<1>5. ASSUME NEW a \in Nomba!Actor, Nomba!Delete(a) PROVE TokenTyped'
  <2>1. reader[a].kind \in Nomba!Kind /\ reader[a].token \in Token
    BY <1>1, <1>5 DEF Nomba!Delete, Nomba!Is, TokenTyped
  <2>2. Holds
    BY <1>5, <2>1, ReaderMoves DEF Nomba!Delete
  <2>. QED  BY <1>0, <1>5, <2>2 DEF Nomba!Delete, TokenTyped, Nomba!TypeOK, Nomba!Is
<1>6. ASSUME NEW a \in Nomba!Actor, Nomba!Save(a) PROVE TokenTyped'
  <2>1. reader[a].kind \in Nomba!Kind /\ reader[a].token \in Token
    BY <1>1, <1>6 DEF Nomba!Save, Nomba!Is, TokenTyped
  <2>2. \/ Nomba!Done(a)
        \/ \E kind \in Nomba!Kind, pc \in {"skip", "call", "again"} : Nomba!Begin(a, kind, pc, Nomba!None)
    BY <1>6, <2>1 DEF Nomba!Save, Nomba!Kind
  <2>3. Holds
    <3>1. ASSUME NEW kind \in Nomba!Kind, NEW pc \in {"skip", "call", "again"},
                 Nomba!Begin(a, kind, pc, Nomba!None)
          PROVE  Holds
      BY <3>1, ReaderMoves
    <3>2. CASE Nomba!Done(a)
      BY <2>1, <3>2, ReaderMoves
    <3>. QED  BY <2>2, <3>1, <3>2
  <2>. QED  BY <1>0, <1>6, <2>1, <2>3 DEF Nomba!Save, TokenTyped, Nomba!TypeOK, Nomba!Is
<1>7. ASSUME NEW a \in Nomba!Actor, Nomba!ReadAgain(a) PROVE TokenTyped'
  <2>1. "banks" \in Nomba!Kind
    BY DEF Nomba!Kind
  <2>2. Holds
    BY <1>0, <1>7, <2>1, ReaderMoves DEF Nomba!ReadAgain
  <2>. QED  BY <1>0, <1>7, <2>2 DEF Nomba!ReadAgain, TokenTyped, Nomba!TypeOK, Nomba!Is
<1>8. ASSUME NEW a \in Nomba!Actor, Nomba!Finish(a) PROVE TokenTyped'
  <2>1. "banks" \in Nomba!Kind
    BY DEF Nomba!Kind
  <2>2. Holds
    BY <1>8, <2>1, ReaderMoves DEF Nomba!Finish
  <2>. QED  BY <1>0, <1>8, <2>2 DEF Nomba!Finish, TokenTyped, Nomba!TypeOK, Nomba!Is
<1>9. CASE Nomba!Crash
  BY <1>0, <1>9 DEF Nomba!Crash, TokenTyped, Nomba!TypeOK, Nomba!Is, Nomba!Idle
<1>10. CASE UNCHANGED Nomba!vars
  BY <1>10 DEF Nomba!vars, TokenTyped, Nomba!TypeOK, Nomba!Is
<1>. QED  BY <1>2, <1>3, <1>4, <1>5, <1>6, <1>7, <1>8, <1>9, <1>10 DEF Nomba!Next, Nomba!Step

-----------------------------------------------------------------------------
(* The four parts together.                                                *)

\* Whatever part a behaviour is of, each part goes by its own specification.
LEMMA AllParts == AllSpec => /\ Spec /\ Accounts!Spec /\ Sweep!Spec
                             /\ Nomba!Init /\ [][Nomba!Next]_(Nomba!vars)
<1>1. AllInit => Init /\ Accounts!Init /\ Sweep!Init /\ Nomba!Init
  BY DEF AllInit
<1>2. [AllNext]_allVars => /\ [Next]_vars /\ [Accounts!Next]_(Accounts!vars)
                           /\ [Sweep!Next]_(Sweep!vars) /\ [Nomba!Next]_(Nomba!vars)
  BY DEF AllNext, allVars, InAccounts, InAddresses, InSweep, InToken, vars, accounts, sweep, nomba,
         Accounts!vars, Sweep!vars, Nomba!vars
<1>. QED  BY <1>1, <1>2, PTL DEF AllSpec, Spec, Accounts!Spec, Sweep!Spec

\* Types: in every reachable state of every part; in particular no sub-account
\* of the half-hourly run is overdrawn, and the table of the token holds tokens
\* only.
THEOREM ClockTyped == AllSpec => []AllTypesOK
<1>1. Accounts!Spec => []Accounts!TypeOK
  <2>1. AccountsTyped => Accounts!TypeOK
    BY DEF AccountsTyped
  <2>. QED  BY <2>1, AccountsTypedInit, AccountsTypedNext, PTL DEF Accounts!Spec
<1>2. Sweep!Spec => []Sweep!TypeOK
  <2>1. SweepTyped => Sweep!TypeOK
    BY DEF SweepTyped
  <2>. QED  BY <2>1, SweepTypedInit, SweepTypedNext, PTL DEF Sweep!Spec
<1>3. Nomba!Init /\ [][Nomba!Next]_(Nomba!vars) => []Nomba!TypeOK
  <2>1. TokenTyped => Nomba!TypeOK
    BY DEF TokenTyped
  <2>. QED  BY <2>1, TokenTypedInit, TokenTypedNext, PTL
<1>. QED  BY <1>1, <1>2, <1>3, AddressesTyped, AllParts, PTL DEF AllTypesOK

\* As long as no link is opened twice at the same time, a disabled account comes
\* back by updateStaffStatus alone, in every behaviour.
THEOREM DisabledStays ==
  ASSUME ~DoubleAccept
  PROVE  AllSpec => SuspensionSticks
BY AllParts, Suspended, PTL DEF SuspensionSticks
=============================================================================
