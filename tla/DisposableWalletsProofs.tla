---------------------- MODULE DisposableWalletsProofs ----------------------
(***************************************************************************)
(* Proofs about DisposableWallets, for any networks, wallets, transactions *)
(* and requests.                                                           *)
(***************************************************************************)
EXTENDS DisposableWallets, FiniteSetTheorems, TLAPS

RequestPC == {"insert", "list", "expire", "balance", "save", "move", "hook", "credit", "mark", "next"}

Sweeping(s) == request[s].pc \in {"move", "hook", "credit", "mark", "next"}
Checking(s) == request[s].pc \in {"expire", "balance", "save"}

\* Only the request s moves on.
Only(s) ==
  /\ request' \in [Slot -> Request \cup {Idle}]
  /\ \A t \in Slot \ {s} : request'[t] = request[t]

\* The other fields of the request s stay.
SameWork(s) ==
  /\ request'[s].wallet = request[s].wallet /\ request'[s].wallets = request[s].wallets
  /\ request'[s].hashes = request[s].hashes

SameWallets(s) ==
  request'[s].wallet = request[s].wallet /\ request'[s].wallets = request[s].wallets

-----------------------------------------------------------------------------
(* What the small operators do.                                            *)

LEMMA Typed ==
  ASSUME TypeOK, NEW s \in Slot, request[s].pc # "idle"
  PROVE  /\ request[s] \in Request
         /\ request[s].pc \in RequestPC /\ request[s].wallet \in Wallet
         /\ request[s].wallets \in SUBSET Disposable /\ request[s].hashes \in SUBSET Hash
         /\ request[s].status \in Status
BY DEF TypeOK, Idle, Request, RequestPC

LEMMA GotoFacts ==
  ASSUME TypeOK, NEW s \in Slot, request[s].pc # "idle", NEW pc \in RequestPC, Goto(s, pc)
  PROVE  /\ Only(s) /\ SameWork(s) /\ request'[s].pc = pc
         /\ request'[s].hash = request[s].hash /\ request'[s].status = request[s].status
         /\ request'[s].knew = request[s].knew
<1> DEFINE rec == [request[s] EXCEPT !.pc = pc]
<1>1. request[s] \in Request
  BY Typed
<1>2. /\ rec \in Request /\ rec.pc = pc /\ rec.wallet = request[s].wallet
      /\ rec.wallets = request[s].wallets /\ rec.hashes = request[s].hashes
      /\ rec.hash = request[s].hash /\ rec.status = request[s].status /\ rec.knew = request[s].knew
  BY <1>1 DEF Request, RequestPC
<1>3. request' = [request EXCEPT ![s] = rec]
  BY <1>1 DEF Goto
<1> HIDE DEF rec
<1>. QED  BY <1>2, <1>3 DEF TypeOK, Only, SameWork

LEMMA DoneFacts ==
  ASSUME TypeOK, NEW s \in Slot, Done(s)
  PROVE  Only(s) /\ request'[s].pc = "idle"
BY DEF TypeOK, Done, Only, Idle

LEMMA BeginFacts ==
  ASSUME TypeOK, NEW s \in Slot, NEW pc \in RequestPC, NEW w \in Wallet, NEW status \in Status,
         NEW ws \in SUBSET Disposable, NEW hs \in SUBSET Hash, Begin(s, pc, w, status, ws, hs)
  PROVE  /\ Only(s) /\ request'[s].pc = pc /\ request'[s].wallet = w
         /\ request'[s].status = status /\ request'[s].wallets = ws /\ request'[s].hashes = hs
         /\ request'[s].knew <=> status = "swept"
<1> DEFINE rec == [pc |-> pc, wallet |-> w, status |-> status, hash |-> 0, wallets |-> ws, hashes |-> hs,
                   knew |-> status = "swept"]
<1>1. /\ rec \in Request /\ rec.pc = pc /\ rec.wallet = w /\ rec.status = status
      /\ rec.knew <=> status = "swept"
      /\ rec.wallets = ws /\ rec.hashes = hs
  BY DEF Request, RequestPC
<1>2. request' = [request EXCEPT ![s] = rec]
  BY DEF Begin
<1> HIDE DEF rec
<1>. QED  BY <1>1, <1>2 DEF TypeOK, Only

\* A set of hashes has a least one: the set of those below it is minimal.
LEMMA Least ==
  ASSUME NEW S \in SUBSET Hash, S # {}
  PROVE  \E x \in S : \A y \in S : x <= y
<1> DEFINE Below(x) == {y \in S : y < x}
           T        == {Below(x) : x \in S}
           R        == StrictSubsetOrdering(Hash)
<1>1. IsFiniteSet(Hash)
  BY ConstantsAssumption, FS_Interval DEF Hash
<1>2. IsWellFoundedOn(R, SUBSET Hash)
  BY <1>1, FS_StrictSubsetOrderingWellFounded, FS_FiniteSubsetsOfFinite, Zenon
<1>3. T \subseteq SUBSET Hash /\ T # {}
  OBVIOUS
<1>4. PICK m \in T : \A n \in T : <<n, m>> \notin R
  <2> HIDE DEF R, T
  <2>. QED  BY <1>2, <1>3, WFMin, Zenon
<1>5. PICK x \in S : m = Below(x)
  BY <1>4
<1>6. ASSUME NEW y \in S, y < x PROVE FALSE
  <2>1. Below(y) \in T /\ m \in T
    BY <1>4
  <2>2. Below(y) \in SUBSET Hash /\ m \in SUBSET Hash
    BY <1>3, <2>1
  <2>3. Below(y) \subseteq Below(x) /\ y \in Below(x) /\ y \notin Below(y)
    <3>1. \A z \in S : z \in Nat
      BY ConstantsAssumption DEF Hash
    <3>. QED  BY <1>6, <3>1
  <2> HIDE DEF Below, T
  <2>4. <<Below(y), m>> \in R
    BY <1>5, <2>2, <2>3 DEF StrictSubsetOrdering
  <2>. QED  BY <1>4, <2>1, <2>4
<1>. QED  BY <1>6, ConstantsAssumption DEF Hash

LEMMA NewIsFresh == ASSUME Fresh # {} PROVE New \in Hash /\ tx[New] = NoTx
<1>1. \E h \in Fresh : \A g \in Fresh : h <= g
  BY Least DEF Fresh
<1>. QED  BY <1>1, Zenon DEF New, Fresh

LEMMA IndexInRange ==
  ASSUME NEW n \in Network, NextIndex(n) <= MaxIndex
  PROVE  <<n, NextIndex(n)>> \in Disposable
<1>1. Rows(n) \subseteq {n} \X (1 .. MaxIndex)
  BY DEF Rows, Disposable
<1>2. IsFiniteSet({n} \X (1 .. MaxIndex))
  <2>1. IsFiniteSet({n}) /\ IsFiniteSet(1 .. MaxIndex)
    <3>1. IsFiniteSet({n})
      BY FS_Singleton, Zenon
    <3>. QED  BY <3>1, ConstantsAssumption, FS_Interval
  <2>. QED  BY <2>1, FS_Product, Zenon
<1>3. Cardinality(Rows(n)) \in Nat
  BY <1>1, <1>2, FS_Subset, FS_CardinalityType
<1>. QED  BY <1>3, ConstantsAssumption DEF NextIndex, Disposable

-----------------------------------------------------------------------------
(* What is recorded, and what is credited, was moved or may be credited    *)
(* unchecked; each recorded hash is credited once, by the request that     *)
(* recorded it.                                                            *)

Backed(h) == tx[h].mined \/ (tx[h].known /\ tx[h].wallet \in Unchecked)

MoveInv ==
  /\ \A s \in Slot : At(s, "move") => My(s) \in Disposable
  /\ \A w \in Disposable : funds[w] <= sent[w]

HashInv ==
  /\ \A h \in Hash : credits[h] \in 0 .. 1 /\ (credits[h] = 1 => h \in hashes)
  /\ \A h \in hashes : Backed(h)
  /\ \A s \in Slot : request[s].pc \in {"hook", "credit"} =>
                       request[s].hash \in Hash /\ Backed(request[s].hash)
  /\ \A s \in Slot : request[s].pc = "credit" =>
                       request[s].hash \in hashes /\ credits[request[s].hash] = 0
  /\ \A s \in Slot : request[s].pc # "idle" => \A h \in request[s].hashes : Backed(h)
  /\ \A s, t \in Slot : At(s, "credit") /\ At(t, "credit") /\ request[s].hash = request[t].hash => s = t

(***************************************************************************)
(* Without restarts, an address that has been handed out is in the wallet  *)
(* table when coins move from it, and a hash that is not credited yet is   *)
(* in the hands of a request.                                              *)
(***************************************************************************)
ListInv ==
  /\ Legacy \in listed
  /\ crashes = 0 =>
       /\ \A w \in Disposable : wallets[w] # NoRow =>
            w \in listed \/ \E s \in Slot : At(s, "list") /\ My(s) = w
       /\ \A w \in Disposable : funds[w] > 0 => w \in listed
       /\ \A h \in Hash : tx[h].mined => tx[h].wallet \in listed
       /\ \A h \in hashes : tx[h].mined =>
            credits[h] = 1 \/ \E s \in Slot : At(s, "credit") /\ request[s].hash = h
       /\ \A h \in Hash : tx[h].mined /\ tx[h].known /\ tx[h].wallet # Legacy =>
            h \in hashes \/ \E s \in Slot : At(s, "hook") /\ request[s].hash = h

\* The wallets that requests check and sweep have rows.
RowInv ==
  \A s \in Slot :
    /\ Checking(s) => My(s) \in Disposable /\ wallets[My(s)] # NoRow /\ request[s].status # NoRow
    /\ Sweeping(s) => /\ My(s) # Legacy => wallets[My(s)] # NoRow
                      /\ \A w \in request[s].wallets : wallets[w] # NoRow

Inv == TypeOK /\ MoveInv /\ HashInv /\ ListInv /\ RowInv

LEMMA InitInv == Init => Inv
<1> SUFFICES ASSUME Init PROVE Inv
  OBVIOUS
<1>1. TypeOK
  BY ConstantsAssumption DEF Init, TypeOK, Wallet, Status, NoTx
<1>2. MoveInv /\ HashInv /\ ListInv /\ RowInv
  BY ConstantsAssumption DEF Init, MoveInv, HashInv, ListInv, RowInv, Idle, NoTx, At, Hash, Checking, Sweeping
<1>. QED  BY <1>1, <1>2 DEF Inv

\* A request that neither records nor credits.
LEMMA QuietStep ==
  ASSUME Inv, NEW s \in Slot, Only(s), UNCHANGED <<tx, hashes, credits, funds, sent>>,
         request'[s].pc \notin {"hook", "credit"},
         request'[s].pc = "move" => request'[s].wallet \in Disposable,
         request'[s].pc # "idle" => \A h \in request'[s].hashes : Backed(h)
  PROVE  MoveInv' /\ HashInv'
<1>1. MoveInv'
  BY DEF Inv, MoveInv, Only, At, My
<1>2. \A h : Backed(h)' <=> Backed(h)
  BY DEF Backed
<1>3. HashInv'
  BY <1>2 DEF Inv, HashInv, Only, At
<1>. QED  BY <1>1, <1>3

LEMMA QuietList ==
  ASSUME Inv, NEW s \in Slot, Only(s), UNCHANGED <<wallets, listed, tx, hashes, credits, funds, crashes>>,
         request[s].pc \notin {"list", "hook", "credit"}
  PROVE  ListInv'
BY DEF Inv, ListInv, Only, At, My

\* A request that is not checking, while rows stay.
LEMMA QuietRows ==
  ASSUME Inv, NEW s \in Slot, Only(s), request'[s].pc \notin {"expire", "balance", "save"},
         \A w \in Disposable : wallets[w] # NoRow => wallets'[w] # NoRow,
         request'[s].pc \in {"move", "hook", "credit", "mark", "next"} =>
           /\ request'[s].wallet # Legacy => wallets[request'[s].wallet] # NoRow
           /\ \A w \in request'[s].wallets : wallets[w] # NoRow
  PROVE  RowInv'
<1>1. \A t \in Slot : request'[t].pc # "idle" =>
        request'[t].wallet \in Wallet /\ request'[t].wallets \in SUBSET Disposable
  BY DEF Only, Request, Idle
<1>2. \A t \in Slot \ {s} : Checking(t)' =>
        My(t)' \in Disposable /\ wallets'[My(t)'] # NoRow /\ request'[t].status # NoRow
  BY DEF Inv, RowInv, Only, Checking, My
<1>3. \A t \in Slot : Sweeping(t)' =>
        /\ My(t)' # Legacy => wallets'[My(t)'] # NoRow
        /\ \A w \in request'[t].wallets : wallets'[w] # NoRow
  BY <1>1 DEF Inv, RowInv, Only, Sweeping, My, Wallet
<1>4. ~Checking(s)'
  BY DEF Checking
<1>. QED  BY <1>2, <1>3, <1>4 DEF RowInv, My

-----------------------------------------------------------------------------
(* Creation.                                                               *)

LEMMA AskCreateInv == ASSUME Inv, NEW s \in Slot, AskCreate(s) PROVE Inv'
<1>1. PICK n \in Network : /\ NextIndex(n) <= MaxIndex
                           /\ Begin(s, "insert", <<n, NextIndex(n)>>, NoRow, {}, {})
  BY DEF AskCreate
<1>2. <<n, NextIndex(n)>> \in Wallet
  BY <1>1, IndexInRange DEF Wallet
<1>3. Only(s) /\ request'[s].pc = "insert" /\ request'[s].hashes = {}
  BY <1>1, <1>2, BeginFacts DEF Inv, RequestPC, Status
<1>4. request[s].pc = "idle" /\ UNCHANGED <<wallets, listed, tx, hashes, credits, funds, sent, crashes>>
  BY DEF AskCreate, At, tables, chain
<1>5. TypeOK'
  BY <1>3, <1>4 DEF Inv, TypeOK, Only
<1>6. RowInv'
  BY <1>3, <1>4, QuietRows
<1>. QED  BY <1>3, <1>4, <1>5, <1>6, QuietStep, QuietList DEF Inv

LEMMA InsertInv == ASSUME Inv, NEW s \in Slot, Insert(s) PROVE Inv'
<1>1. request[s].pc = "insert" /\ UNCHANGED <<listed, tx, hashes, credits, funds, sent, crashes>>
  BY DEF Insert, At, chain
<1>2. CASE Taken(My(s))
  <2>1. Only(s) /\ request'[s].pc = "idle" /\ UNCHANGED wallets
    BY <1>2, DoneFacts DEF Inv, Insert
  <2>2. TypeOK'
    BY <1>1, <2>1 DEF Inv, TypeOK, Only
  <2>3. RowInv'
    BY <2>1, QuietRows
  <2>. QED  BY <1>1, <2>1, <2>2, <2>3, QuietStep, QuietList DEF Inv
<1>3. CASE ~Taken(My(s))
  <2>1. /\ Only(s) /\ request'[s].pc = "list" /\ SameWork(s)
        /\ wallets' = [wallets EXCEPT ![My(s)] = "pending"]
    BY <1>1, <1>3, GotoFacts DEF Inv, Insert, RequestPC
  <2>2. wallets' \in [Disposable -> Status]
    BY <2>1 DEF Inv, TypeOK, Status
  <2>3. TypeOK'
    BY <1>1, <2>1, <2>2 DEF Inv, TypeOK, Only
  <2>4. MoveInv' /\ HashInv'
    BY <1>1, <2>1, QuietStep DEF Inv, HashInv, SameWork
  <2>5. \A w \in Disposable : wallets'[w] # NoRow => wallets[w] # NoRow \/ w = My(s)
    BY <2>1 DEF Inv, TypeOK
  <2>6. ListInv'
    BY <1>1, <2>1, <2>5 DEF Inv, ListInv, Only, SameWork, At, My
  <2>7. \A w \in Disposable : wallets[w] # NoRow => wallets'[w] # NoRow
    BY <2>1 DEF Inv, TypeOK, NoRow
  <2>8. RowInv'
    BY <2>1, <2>7, QuietRows
  <2>. QED  BY <2>3, <2>4, <2>6, <2>8 DEF Inv
<1>. QED  BY <1>2, <1>3

LEMMA ListInvariant == ASSUME Inv, NEW s \in Slot, List(s) PROVE Inv'
<1>1. /\ request[s].pc = "list" /\ Only(s) /\ request'[s].pc = "idle"
      /\ listed' = listed \cup {My(s)}
      /\ UNCHANGED <<wallets, tx, hashes, credits, funds, sent, crashes>>
  BY DoneFacts DEF Inv, List, At, chain
<1>2. TypeOK'
  BY <1>1, Typed DEF Inv, TypeOK, Only, My
<1>3. MoveInv' /\ HashInv'
  BY <1>1, QuietStep
<1>4. ListInv'
  BY <1>1 DEF Inv, ListInv, Only, At, My
<1>5. RowInv'
  BY <1>1, QuietRows
<1>. QED  BY <1>2, <1>3, <1>4, <1>5 DEF Inv

-----------------------------------------------------------------------------
(* Checking.                                                               *)

LEMMA CheckShape ==
  ASSUME Inv, NEW s \in Slot, Check(s)
  PROVE  \E w \in Disposable :
           /\ wallets[w] # NoRow /\ Only(s) /\ request'[s].pc \in {"expire", "balance"}
           /\ request'[s].hashes = {} /\ request'[s].wallets = {} /\ request'[s].wallet = w
           /\ request'[s].status = wallets[w] /\ (request'[s].knew <=> wallets[w] = "swept")
           /\ request'[s].pc = "expire" => wallets[w] = "pending"
<1>1. PICK w \in Disposable : /\ wallets[w] # NoRow
                              /\ \/ Begin(s, "balance", w, wallets[w], {}, {})
                                 \/ wallets[w] = "pending" /\ Begin(s, "expire", w, wallets[w], {}, {})
  BY DEF Check
<1>2. wallets[w] \in Status /\ w \in Wallet
  BY DEF Inv, TypeOK, Wallet
<1>3. CASE Begin(s, "balance", w, wallets[w], {}, {})
  BY <1>1, <1>2, <1>3, BeginFacts DEF Inv, RequestPC
<1>4. CASE wallets[w] = "pending" /\ Begin(s, "expire", w, wallets[w], {}, {})
  BY <1>1, <1>2, <1>4, BeginFacts DEF Inv, RequestPC
<1>. QED  BY <1>1, <1>3, <1>4

LEMMA CheckInvariant == ASSUME Inv, NEW s \in Slot, Check(s) PROVE Inv'
<1>1. PICK w \in Disposable :
           /\ wallets[w] # NoRow /\ Only(s) /\ request'[s].pc \in {"expire", "balance"}
           /\ request'[s].hashes = {} /\ request'[s].wallet = w /\ request'[s].status = wallets[w]
  BY CheckShape
<1>2. request[s].pc = "idle" /\ UNCHANGED <<wallets, listed, tx, hashes, credits, funds, sent, crashes>>
  BY DEF Check, At, tables, chain
<1>3. TypeOK'
  BY <1>1, <1>2 DEF Inv, TypeOK, Only
<1>4. RowInv'
  BY <1>1, <1>2 DEF Inv, RowInv, Only, Checking, Sweeping, My
<1>. QED  BY <1>1, <1>2, <1>3, <1>4, QuietStep, QuietList DEF Inv

\* A check that writes a new status into its copy.
LEMMA CopyFacts ==
  ASSUME TypeOK, NEW s \in Slot, Checking(s), NEW pc \in {"balance", "save"}, NEW status \in Status,
         request' = [request EXCEPT ![s].pc = pc, ![s].status = status]
  PROVE  /\ Only(s) /\ SameWork(s) /\ request'[s].pc = pc /\ request'[s].status = status
         /\ request'[s].knew = request[s].knew
<1> DEFINE rec == [request[s] EXCEPT !.pc = pc, !.status = status]
<1>1. request[s] \in Request
  BY Typed DEF Checking
<1>2. /\ rec \in Request /\ rec.pc = pc /\ rec.status = status /\ rec.knew = request[s].knew
      /\ rec.wallet = request[s].wallet /\ rec.wallets = request[s].wallets /\ rec.hashes = request[s].hashes
  BY <1>1 DEF Request
<1>3. request' = [request EXCEPT ![s] = rec]
  BY <1>1
<1> HIDE DEF rec
<1>. QED  BY <1>2, <1>3 DEF TypeOK, Only, SameWork

LEMMA ExpireShape ==
  ASSUME Inv, NEW s \in Slot, Expire(s)
  PROVE  /\ request[s].pc = "expire" /\ Checking(s) /\ Only(s) /\ SameWork(s) /\ request'[s].pc = "balance"
         /\ request'[s].status = "expired" /\ request'[s].knew = request[s].knew
         /\ wallets' = [wallets EXCEPT ![My(s)] = "expired"]
         /\ UNCHANGED <<listed, tx, hashes, credits, funds, sent, crashes>>
<1>1. Checking(s) /\ "expired" \in Status
  BY DEF Expire, At, Checking, Status
<1>. QED  BY <1>1, CopyFacts DEF Inv, Expire, At, chain

LEMMA ExpireInv == ASSUME Inv, NEW s \in Slot, Expire(s) PROVE Inv'
<1>1. /\ request[s].pc = "expire" /\ Checking(s) /\ Only(s) /\ SameWork(s) /\ request'[s].pc = "balance"
      /\ request'[s].status = "expired"
      /\ wallets' = [wallets EXCEPT ![My(s)] = "expired"]
      /\ UNCHANGED <<listed, tx, hashes, credits, funds, sent, crashes>>
  BY ExpireShape
<1>2. /\ wallets' \in [Disposable -> Status]
      /\ \A v \in Disposable : wallets'[v] # NoRow <=> wallets[v] # NoRow
  BY <1>1 DEF Inv, TypeOK, RowInv, Status, NoRow
<1>3. TypeOK'
  BY <1>1, <1>2 DEF Inv, TypeOK, Only
<1>4. MoveInv' /\ HashInv'
  BY <1>1, QuietStep DEF Inv, HashInv, SameWork
<1>5. ListInv'
  BY <1>1, <1>2 DEF Inv, ListInv, Only, At, My
<1>6. RowInv'
  <2>1. \A t \in Slot : Sweeping(t) => request[t].wallet \in Wallet /\ request[t].wallets \in SUBSET Disposable
    BY Typed DEF Inv, Sweeping
  <2>. QED  BY <1>1, <1>2, <2>1 DEF Inv, RowInv, Only, SameWork, Checking, Sweeping, My, Wallet, NoRow
<1>. QED  BY <1>3, <1>4, <1>5, <1>6 DEF Inv

LEMMA ReadBalanceInv == ASSUME Inv, NEW s \in Slot, ReadBalance(s) PROVE Inv'
<1>1. request[s].pc = "balance" /\ UNCHANGED <<wallets, listed, tx, hashes, credits, funds, sent, crashes>>
  BY DEF ReadBalance, At, tables, chain
<1>2. CASE Done(s)
  <2>1. Only(s) /\ request'[s].pc = "idle"
    BY <1>2, DoneFacts DEF Inv
  <2>2. TypeOK'
    BY <1>1, <2>1 DEF Inv, TypeOK, Only
  <2>3. RowInv'
    BY <1>1, <2>1, QuietRows
  <2>. QED  BY <1>1, <2>1, <2>2, <2>3, QuietStep, QuietList DEF Inv
<1>3. CASE request' = [request EXCEPT ![s].pc = "save", ![s].status = Seen(request[s].status)]
  <2> DEFINE status == Seen(request[s].status)
  <2>1. Checking(s) /\ status \in Status
    BY <1>1, Typed DEF Inv, Seen, Status, Checking
  <2>2. request' = [request EXCEPT ![s].pc = "save", ![s].status = status]
    BY <1>3
  <2> HIDE DEF status
  <2>4. /\ Only(s) /\ request'[s].pc = "save" /\ request'[s].hashes = request[s].hashes
        /\ request'[s].wallet = request[s].wallet /\ request'[s].status = status
    BY <2>1, <2>2, CopyFacts DEF Inv, SameWork
  <2>5. TypeOK'
    BY <1>1, <2>4 DEF Inv, TypeOK, Only
  <2>6. MoveInv' /\ HashInv'
    BY <1>1, <2>4, QuietStep DEF Inv, HashInv
  <2>7. status # NoRow
    BY <1>1 DEF Inv, RowInv, Checking, status, Seen, NoRow
  <2>8. RowInv'
    BY <1>1, <2>4, <2>7 DEF Inv, RowInv, Only, Checking, Sweeping, My
  <2>. QED  BY <1>1, <2>4, <2>5, <2>6, <2>8, QuietList DEF Inv
<1>. QED  BY <1>2, <1>3 DEF ReadBalance

LEMMA SaveCheckedInv == ASSUME Inv, NEW s \in Slot, SaveChecked(s) PROVE Inv'
<1>1. /\ request[s].pc = "save" /\ Only(s) /\ request'[s].pc = "idle"
      /\ wallets' = [wallets EXCEPT ![My(s)] = request[s].status]
      /\ UNCHANGED <<listed, tx, hashes, credits, funds, sent, crashes>>
  BY DoneFacts DEF Inv, SaveChecked, At, chain
<1>2. wallets' \in [Disposable -> Status]
  BY <1>1, Typed DEF Inv, TypeOK
<1>3. TypeOK'
  BY <1>1, <1>2 DEF Inv, TypeOK, Only
<1>4. MoveInv' /\ HashInv'
  BY <1>1, QuietStep
<1>5. \A w \in Disposable : wallets'[w] # NoRow <=> wallets[w] # NoRow
  BY <1>1 DEF Inv, TypeOK, RowInv, Checking
<1>6. ListInv'
  BY <1>1, <1>5 DEF Inv, ListInv, Only, At, My
<1>7. RowInv'
  BY <1>1, <1>5, QuietRows
<1>. QED  BY <1>3, <1>4, <1>6, <1>7 DEF Inv

-----------------------------------------------------------------------------
(* Sweeping.                                                               *)

LEMMA SweepInv == ASSUME Inv, NEW s \in Slot, Sweep(s) PROVE Inv'
<1>1. PICK w \in Disposable : wallets[w] # NoRow /\ Begin(s, "move", w, wallets[w], {}, {})
  BY DEF Sweep, Sweepable, NoRow
<1>2. w \in Wallet /\ wallets[w] \in Status
  BY DEF Inv, TypeOK, Wallet
<1>3. /\ Only(s) /\ request'[s].pc = "move" /\ request'[s].hashes = {} /\ request'[s].wallet = w
      /\ request'[s].wallets = {}
  BY <1>1, <1>2, BeginFacts DEF Inv, RequestPC
<1>4. request[s].pc = "idle" /\ UNCHANGED <<wallets, listed, tx, hashes, credits, funds, sent, crashes>>
  BY DEF Sweep, At, tables, chain
<1>5. TypeOK'
  BY <1>3, <1>4 DEF Inv, TypeOK, Only
<1>6. RowInv'
  BY <1>1, <1>3, <1>4, QuietRows
<1>. QED  BY <1>3, <1>4, <1>5, <1>6, QuietStep, QuietList DEF Inv

LEMMA SweepAllInv == ASSUME Inv, NEW s \in Slot, SweepAll(s) PROVE Inv'
<1> DEFINE funded == {w \in Disposable : wallets[w] = "funded"}
<1>1. Begin(s, "next", Legacy, "funded", funded, {})
  BY DEF SweepAll
<1>2. Legacy \in Wallet /\ funded \in SUBSET Disposable /\ \A w \in funded : wallets[w] # NoRow
  BY DEF Wallet, NoRow
<1> HIDE DEF funded
<1>3. Only(s) /\ request'[s].pc = "next" /\ request'[s].hashes = {}
      /\ request'[s].wallet = Legacy /\ request'[s].wallets = funded
  BY <1>1, <1>2, BeginFacts DEF Inv, RequestPC, Status
<1>4. request[s].pc = "idle" /\ UNCHANGED <<wallets, listed, tx, hashes, credits, funds, sent, crashes>>
  BY DEF SweepAll, At, tables, chain
<1>5. TypeOK'
  BY <1>3, <1>4 DEF Inv, TypeOK, Only
<1>6. RowInv'
  BY <1>2, <1>3, <1>4, QuietRows
<1>. QED  BY <1>3, <1>4, <1>5, <1>6, QuietStep, QuietList DEF Inv

\* A request that takes up a hash to send its webhook: Backed, and on its way.
LEMMA HookStep ==
  ASSUME Inv, NEW s \in Slot, Only(s), UNCHANGED <<wallets, listed, hashes, credits, crashes>>,
         request[s].pc \in {"move", "next"}, SameWallets(s),
         request'[s].pc = "hook", request'[s].hash \in Hash, Backed(request[s].hash)',
         request'[s].hashes \subseteq request[s].hashes,
         \A h \in Hash : Backed(h) => Backed(h)'
  PROVE  HashInv' /\ RowInv'
<1>1. \A h \in request'[s].hashes : h \in Hash /\ Backed(h)
  BY Typed DEF Inv, HashInv
<1>2. hashes \subseteq Hash
  BY DEF Inv, TypeOK
<1>3. \A t \in Slot : request[t].pc # "idle" => \A h \in request[t].hashes : h \in Hash
  BY Typed DEF Inv
<1>4. HashInv'
  BY <1>1, <1>2, <1>3 DEF Inv, HashInv, Only, At
<1>5. RowInv'
  BY DEF Inv, RowInv, Only, Checking, Sweeping, My, SameWallets
<1>. QED  BY <1>4, <1>5

LEMMA TakeNextInv == ASSUME Inv, NEW s \in Slot, TakeNext(s) PROVE Inv'
<1>1. request[s].pc = "next" /\ UNCHANGED <<wallets, listed, tx, hashes, credits, funds, sent, crashes>>
  BY DEF TakeNext, At, tables, chain
<1>2. request[s] \in Request /\ request[s].wallets \in SUBSET Disposable /\ request[s].hashes \in SUBSET Hash
  BY <1>1, Typed DEF Inv
<1>3. CASE Done(s)
  <2>1. Only(s) /\ request'[s].pc = "idle"
    BY <1>3, DoneFacts DEF Inv
  <2>2. TypeOK'
    BY <1>1, <2>1 DEF Inv, TypeOK, Only
  <2>3. RowInv'
    BY <1>1, <2>1, QuietRows
  <2>. QED  BY <1>1, <2>1, <2>2, <2>3, QuietStep, QuietList DEF Inv
<1>4. ASSUME NEW w \in request[s].wallets,
             request' = [request EXCEPT ![s].pc = "move", ![s].wallet = w, ![s].wallets = @ \ {w}]
      PROVE  Inv'
  <2> DEFINE rest == request[s].wallets \ {w}
             rec  == [request[s] EXCEPT !.pc = "move", !.wallet = w, !.wallets = rest]
  <2>1. w \in Disposable /\ w \in Wallet /\ rest \in SUBSET Disposable
    BY <1>2 DEF Wallet
  <2>2. request' = [request EXCEPT ![s] = rec]
    BY <1>4
  <2> HIDE DEF rest
  <2>3. rec \in Request /\ rec.pc = "move" /\ rec.hashes = request[s].hashes /\ rec.wallet = w
        /\ rec.wallets = rest
    BY <1>2, <2>1 DEF Request
  <2> HIDE DEF rec
  <2>4. /\ Only(s) /\ request'[s].pc = "move" /\ request'[s].hashes = request[s].hashes
        /\ request'[s].wallet = w /\ request'[s].wallets = rest
    BY <2>2, <2>3 DEF Inv, TypeOK, Only
  <2>5. TypeOK'
    BY <1>1, <2>4 DEF Inv, TypeOK, Only
  <2>6. MoveInv' /\ HashInv'
    BY <1>1, <2>1, <2>4, QuietStep DEF Inv, HashInv
  <2>7. RowInv'
    <3>1. wallets[w] # NoRow /\ \A v \in rest : wallets[v] # NoRow
      BY <1>1 DEF Inv, RowInv, Sweeping, rest
    <3>. QED  BY <1>1, <2>4, <3>1, QuietRows
  <2>. QED  BY <1>1, <2>4, <2>5, <2>6, <2>7, QuietList DEF Inv
<1>5. ASSUME NEW h \in request[s].hashes,
             request' = [request EXCEPT ![s].pc = "hook", ![s].hash = h, ![s].hashes = @ \ {h}]
      PROVE  Inv'
  <2> DEFINE rest == request[s].hashes \ {h}
             rec  == [request[s] EXCEPT !.pc = "hook", !.hash = h, !.hashes = rest]
  <2>1. h \in Hash /\ rest \in SUBSET Hash /\ rest \subseteq request[s].hashes
    BY <1>2
  <2>2. request' = [request EXCEPT ![s] = rec]
    BY <1>5
  <2> HIDE DEF rest
  <2>3. rec \in Request /\ rec.pc = "hook" /\ rec.hashes = rest /\ rec.hash = h
        /\ rec.wallet = request[s].wallet /\ rec.wallets = request[s].wallets
    BY <1>2, <2>1 DEF Request
  <2> HIDE DEF rec
  <2>4. Only(s) /\ request'[s].pc = "hook" /\ request'[s].hashes = rest /\ request'[s].hash = h
        /\ SameWallets(s)
    BY <2>2, <2>3 DEF Inv, TypeOK, Only, SameWallets
  <2>5. TypeOK'
    BY <1>1, <2>4 DEF Inv, TypeOK, Only
  <2>6. \A g : Backed(g)' <=> Backed(g)
    BY <1>1 DEF Backed
  <2>7. Backed(h)
    BY <1>1 DEF Inv, HashInv
  <2>8. HashInv' /\ RowInv'
    BY <1>1, <2>1, <2>4, <2>6, <2>7, HookStep
  <2>9. MoveInv' /\ ListInv'
    BY <1>1, <2>4, QuietList DEF Inv, MoveInv, Only, At, My
  <2>. QED  BY <2>5, <2>8, <2>9 DEF Inv
<1>. QED  BY <1>3, <1>4, <1>5 DEF TakeNext

\* A transaction gets a hash that nothing has recorded.
LEMMA TxFacts ==
  ASSUME TypeOK, Fresh # {}, NEW rec \in [wallet : Wallet, mined : BOOLEAN, known : BOOLEAN],
         tx' = [tx EXCEPT ![New] = rec]
  PROVE  /\ New \in Hash /\ ~Backed(New) /\ tx'[New] = rec
         /\ tx' \in [Hash -> [wallet : Wallet, mined : BOOLEAN, known : BOOLEAN]]
         /\ \A h \in Hash \ {New} : tx'[h] = tx[h]
         /\ \A h \in Hash : Backed(h) => Backed(h)'
<1>1. New \in Hash /\ tx[New] = NoTx
  BY NewIsFresh
<1>2. ~Backed(New)
  BY <1>1 DEF Backed, NoTx
<1> DEFINE n == New
<1>3. n \in Hash /\ ~Backed(n) /\ tx' = [tx EXCEPT ![n] = rec]
  BY <1>1, <1>2
<1> HIDE DEF n
<1>4. /\ tx'[n] = rec /\ \A h \in Hash \ {n} : tx'[h] = tx[h]
      /\ tx' \in [Hash -> [wallet : Wallet, mined : BOOLEAN, known : BOOLEAN]]
  BY <1>3 DEF TypeOK
<1>5. \A h \in Hash : Backed(h) => Backed(h)'
  BY <1>3, <1>4 DEF Backed
<1>. QED  BY <1>1, <1>2, <1>4, <1>5 DEF n

LEMMA MoveAllInv ==
  ASSUME Inv, NEW s \in Slot, At(s, "move"), MoveAll(s), UNCHANGED <<tables, sent, crashes>>
  PROVE  Inv'
<1>1. /\ request[s].pc = "move" /\ My(s) \in Disposable /\ My(s) \in Wallet
      /\ UNCHANGED <<wallets, listed, hashes, credits, sent, crashes>>
  BY DEF Inv, MoveInv, At, tables, Wallet
<1>2. PICK known \in BOOLEAN :
        /\ tx' = [tx EXCEPT ![New] = [wallet |-> My(s), mined |-> TRUE, known |-> known]]
        /\ request' = [request EXCEPT ![s].pc = AfterSend(My(s), known), ![s].hash = New]
  BY DEF MoveAll
<1> DEFINE new == [wallet |-> My(s), mined |-> TRUE, known |-> known]
<1>3. /\ new \in [wallet : Wallet, mined : BOOLEAN, known : BOOLEAN]
      /\ new.wallet = My(s) /\ new.mined /\ (new.known <=> known)
  BY <1>1
<1>4. Fresh # {} /\ funds[My(s)] > 0 /\ funds' = [funds EXCEPT ![My(s)] = 0]
  BY DEF MoveAll
<1>5. tx' = [tx EXCEPT ![New] = new]
  BY <1>2
<1> HIDE DEF new
<1>n. PICK n \in Hash : n = New
  BY <1>4, NewIsFresh
<1>6. /\ n \in Hash /\ ~Backed(n) /\ tx'[n] = new
      /\ tx' \in [Hash -> [wallet : Wallet, mined : BOOLEAN, known : BOOLEAN]]
      /\ \A h \in Hash \ {n} : tx'[h] = tx[h]
      /\ \A h \in Hash : Backed(h) => Backed(h)'
  BY <1>3, <1>4, <1>5, TxFacts, <1>n DEF Inv
<1> DEFINE pc  == AfterSend(My(s), known)
           rec == [request[s] EXCEPT !.pc = pc, !.hash = n]
<1>7. request[s] \in Request /\ pc \in RequestPC
      /\ (known => pc = "hook") /\ (~known => pc \in {"mark", "next"})
  BY <1>1, Typed DEF Inv, AfterSend, AfterError, RequestPC
<1>8. request' = [request EXCEPT ![s] = rec]
  BY <1>2, <1>n
<1> HIDE DEF pc
<1>9. rec \in Request /\ rec.pc = pc /\ rec.hashes = request[s].hashes /\ rec.hash = n
      /\ rec.wallet = request[s].wallet /\ rec.wallets = request[s].wallets
  BY <1>6, <1>7 DEF Request, RequestPC
<1> HIDE DEF rec
<1>10. Only(s) /\ request'[s].pc = pc /\ request'[s].hashes = request[s].hashes /\ request'[s].hash = n
       /\ SameWallets(s)
  BY <1>8, <1>9 DEF Inv, TypeOK, Only, SameWallets
<1>11. /\ funds' \in [Disposable -> 0 .. MaxDeposits]
       /\ \A w \in Disposable : funds'[w] <= funds[w] /\ funds'[w] <= sent[w]
  BY <1>1, <1>4, ConstantsAssumption DEF Inv, TypeOK, MoveInv
<1>12. TypeOK'
  BY <1>1, <1>6, <1>10, <1>11 DEF Inv, TypeOK, Only
<1>13. MoveInv'
  BY <1>1, <1>7, <1>10, <1>11 DEF Inv, MoveInv, Only, At, My
<1>14. Backed(n)' /\ n \notin hashes
  BY <1>3, <1>6 DEF Backed, Inv, HashInv
<1>15. HashInv' /\ RowInv'
  <2>1. CASE known
    BY <1>1, <1>6, <1>7, <1>10, <1>14, <2>1, HookStep
  <2>2. CASE ~known
    <3>1. hashes \subseteq Hash /\ \A t \in Slot : request[t].pc # "idle" => \A h \in request[t].hashes : h \in Hash
      BY Typed DEF Inv, TypeOK
    <3>2. HashInv'
      BY <1>1, <1>6, <1>7, <1>10, <2>2, <3>1 DEF Inv, HashInv, Only, At
    <3>3. RowInv'
      <4>1. /\ request'[s].wallet # Legacy => wallets[request'[s].wallet] # NoRow
            /\ \A w \in request'[s].wallets : wallets[w] # NoRow
        BY <1>1, <1>10 DEF Inv, RowInv, Sweeping, My, SameWallets
      <4>. QED  BY <1>1, <1>7, <1>10, <2>2, <4>1, QuietRows
    <3>. QED  BY <3>2, <3>3
  <2>. QED  BY <2>1, <2>2
<1>16. ListInv'
  <2> SUFFICES ASSUME crashes = 0 PROVE ListInv'
    BY <1>1 DEF Inv, ListInv
  <2>1. \A w \in Disposable : wallets'[w] # NoRow =>
          w \in listed' \/ \E t \in Slot : At(t, "list")' /\ My(t)' = w
    BY <1>1, <1>10 DEF Inv, ListInv, Only, At, My
  <2>2. \A w \in Disposable : funds'[w] > 0 => w \in listed'
    BY <1>1, <1>4, <1>11 DEF Inv, ListInv, TypeOK
  <2>3. \A h \in Hash : tx'[h].mined => tx'[h].wallet \in listed'
    BY <1>1, <1>3, <1>4, <1>6 DEF Inv, ListInv
  <2>4. \A h \in hashes' : tx'[h].mined =>
          credits'[h] = 1 \/ \E t \in Slot : At(t, "credit")' /\ request'[t].hash = h
    <3>1. \A h \in hashes : h \in Hash /\ tx'[h] = tx[h]
      BY <1>6, <1>14 DEF Inv, TypeOK
    <3>2. \A t \in Slot : At(t, "credit") => At(t, "credit")' /\ request'[t].hash = request[t].hash
      BY <1>1, <1>10 DEF Only, At
    <3>. QED  BY <1>1, <3>1, <3>2 DEF Inv, ListInv
  <2>5. \A h \in Hash : tx'[h].mined /\ tx'[h].known /\ tx'[h].wallet # Legacy =>
          h \in hashes' \/ \E t \in Slot : At(t, "hook")' /\ request'[t].hash = h
    BY <1>1, <1>3, <1>6, <1>7, <1>10 DEF Inv, ListInv, Only, At
  <2>. QED  BY <1>1, <2>1, <2>2, <2>3, <2>4, <2>5 DEF Inv, ListInv
<1>. QED  BY <1>12, <1>13, <1>15, <1>16 DEF Inv

LEMMA MoveRefusedInv ==
  ASSUME Inv, NEW s \in Slot, At(s, "move"), MoveRefused(s), UNCHANGED <<tables, sent, crashes>>
  PROVE  Inv'
<1>1. /\ request[s].pc = "move" /\ My(s) \in Disposable /\ My(s) \in Wallet
      /\ UNCHANGED <<wallets, listed, hashes, credits, funds, sent, crashes>>
  BY DEF Inv, MoveInv, At, tables, Wallet, MoveRefused
<1> DEFINE new == [wallet |-> My(s), mined |-> FALSE, known |-> TRUE]
<1>3. /\ new \in [wallet : Wallet, mined : BOOLEAN, known : BOOLEAN]
      /\ new.wallet = My(s) /\ ~new.mined /\ new.known
  BY <1>1
<1>4. Fresh # {} /\ My(s) \in Unchecked
  BY DEF MoveRefused
<1>5. tx' = [tx EXCEPT ![New] = new] /\ request' = [request EXCEPT ![s].pc = "hook", ![s].hash = New]
  BY DEF MoveRefused
<1> HIDE DEF new
<1>n. PICK n \in Hash : n = New
  BY <1>4, NewIsFresh
<1>6. /\ n \in Hash /\ ~Backed(n) /\ tx'[n] = new
      /\ tx' \in [Hash -> [wallet : Wallet, mined : BOOLEAN, known : BOOLEAN]]
      /\ \A h \in Hash \ {n} : tx'[h] = tx[h]
      /\ \A h \in Hash : Backed(h) => Backed(h)'
  BY <1>3, <1>4, <1>5, TxFacts, <1>n DEF Inv
<1> DEFINE rec == [request[s] EXCEPT !.pc = "hook", !.hash = n]
<1>7. request[s] \in Request
  BY <1>1, Typed DEF Inv
<1>8. request' = [request EXCEPT ![s] = rec]
  BY <1>5, <1>n
<1>9. rec \in Request /\ rec.pc = "hook" /\ rec.hashes = request[s].hashes /\ rec.hash = n
      /\ rec.wallet = request[s].wallet /\ rec.wallets = request[s].wallets
  BY <1>6, <1>7 DEF Request
<1> HIDE DEF rec
<1>10. Only(s) /\ request'[s].pc = "hook" /\ request'[s].hashes = request[s].hashes /\ request'[s].hash = n
       /\ SameWallets(s)
  BY <1>8, <1>9 DEF Inv, TypeOK, Only, SameWallets
<1>12. TypeOK'
  BY <1>1, <1>6, <1>10 DEF Inv, TypeOK, Only
<1>13. MoveInv'
  BY <1>1, <1>10 DEF Inv, MoveInv, Only, At, My
<1>14. Backed(n)' /\ n \notin hashes
  BY <1>3, <1>4, <1>6 DEF Backed, Inv, HashInv
<1>15. HashInv' /\ RowInv'
  BY <1>1, <1>6, <1>10, <1>14, HookStep
<1>16. ListInv'
  <2> SUFFICES ASSUME crashes = 0 PROVE ListInv'
    BY <1>1 DEF Inv, ListInv
  <2>1. \A w \in Disposable : wallets'[w] # NoRow =>
          w \in listed' \/ \E t \in Slot : At(t, "list")' /\ My(t)' = w
    BY <1>1, <1>10 DEF Inv, ListInv, Only, At, My
  <2>2. \A w \in Disposable : funds'[w] > 0 => w \in listed'
    BY <1>1 DEF Inv, ListInv
  <2>3. \A h \in Hash : tx'[h].mined => h # n /\ tx'[h] = tx[h] /\ tx'[h].wallet \in listed'
    BY <1>1, <1>3, <1>6 DEF Inv, ListInv
  <2>4. \A h \in hashes' : tx'[h].mined =>
          credits'[h] = 1 \/ \E t \in Slot : At(t, "credit")' /\ request'[t].hash = h
    <3>1. \A h \in hashes : h \in Hash /\ tx'[h] = tx[h]
      BY <1>6, <1>14 DEF Inv, TypeOK
    <3>2. \A t \in Slot : At(t, "credit") => At(t, "credit")' /\ request'[t].hash = request[t].hash
      BY <1>1, <1>10 DEF Only, At
    <3>. QED  BY <1>1, <3>1, <3>2 DEF Inv, ListInv
  <2>5. \A h \in Hash : tx'[h].mined /\ tx'[h].known /\ tx'[h].wallet # Legacy =>
          h \in hashes' \/ \E t \in Slot : At(t, "hook")' /\ request'[t].hash = h
    BY <1>1, <1>3, <1>6, <1>10 DEF Inv, ListInv, Only, At
  <2>. QED  BY <1>1, <2>1, <2>2, <2>3, <2>4, <2>5 DEF Inv, ListInv
<1>. QED  BY <1>12, <1>13, <1>15, <1>16 DEF Inv

\* A request of a wallet that goes on within its sweep.
LEMMA MoveOnInv ==
  ASSUME Inv, NEW s \in Slot, At(s, "move"), NEW pc \in {"mark", "next"}, Goto(s, pc),
         UNCHANGED <<wallets, listed, hashes, credits, funds, sent, tx, crashes>>
  PROVE  Inv'
<1>1. request[s].pc = "move" /\ Only(s) /\ SameWork(s) /\ request'[s].pc = pc
  BY GotoFacts DEF Inv, At, RequestPC
<1>2. TypeOK'
  BY <1>1 DEF Inv, TypeOK, Only
<1>3. MoveInv' /\ HashInv'
  BY <1>1, QuietStep DEF Inv, HashInv, SameWork
<1>4. RowInv'
  BY <1>1, QuietRows DEF Inv, RowInv, Sweeping, My, SameWork
<1>. QED  BY <1>1, <1>2, <1>3, <1>4, QuietList DEF Inv

LEMMA MoveInvariant == ASSUME Inv, NEW s \in Slot, Move(s) PROVE Inv'
<1>1. At(s, "move") /\ UNCHANGED <<tables, sent, crashes>>
  BY DEF Move
<1>2. UNCHANGED <<wallets, listed, hashes, credits>>
  BY <1>1 DEF tables
<1>3. CASE MoveNothing(s)
  BY <1>1, <1>2, <1>3, MoveOnInv DEF MoveNothing
<1>4. CASE MoveFails(s)
  <2>1. AfterError(My(s)) \in {"mark", "next"}
    BY DEF AfterError
  <2>. QED  BY <1>1, <1>2, <1>4, <2>1, MoveOnInv DEF MoveFails
<1>. QED  BY <1>1, <1>3, <1>4, MoveAllInv, MoveRefusedInv DEF Move

LEMMA MarkInv == ASSUME Inv, NEW s \in Slot, Mark(s) PROVE Inv'
<1>1. /\ request[s].pc = "mark" /\ wallets' = [wallets EXCEPT ![My(s)] = "swept"]
      /\ UNCHANGED <<listed, tx, hashes, credits, funds, sent, crashes>>
  BY DEF Mark, At, chain
<1>2. Only(s) /\ SameWork(s) /\ request'[s].pc = "next"
  BY <1>1, GotoFacts DEF Inv, Mark, RequestPC
<1>3. wallets' \in [Disposable -> Status]
  BY <1>1 DEF Inv, TypeOK, Status
<1>4. TypeOK'
  BY <1>1, <1>2, <1>3 DEF Inv, TypeOK, Only
<1>5. MoveInv' /\ HashInv'
  BY <1>1, <1>2, QuietStep DEF Inv, HashInv, SameWork
<1>6. \A w \in Disposable : wallets'[w] # NoRow <=> wallets[w] # NoRow
  <2>1. My(s) \in Disposable => wallets[My(s)] # NoRow
    BY <1>1, ConstantsAssumption DEF Inv, RowInv, Sweeping
  <2>2. wallets'[My(s)] = "swept" \/ My(s) \notin Disposable
    BY <1>1 DEF Inv, TypeOK
  <2>. QED  BY <1>1, <2>1, <2>2 DEF Inv, TypeOK, NoRow
<1>7. ListInv'
  BY <1>1, <1>2, <1>6 DEF Inv, ListInv, Only, At, My
<1>8. RowInv'
  BY <1>1, <1>2, <1>6, QuietRows DEF Inv, RowInv, Sweeping, My, SameWork
<1>. QED  BY <1>4, <1>5, <1>7, <1>8 DEF Inv

-----------------------------------------------------------------------------
(* The webhook.                                                            *)

LEMMA RecordHashInv == ASSUME Inv, NEW s \in Slot, RecordHash(s) PROVE Inv'
<1>1. request[s].pc = "hook" /\ UNCHANGED <<wallets, listed, credits, tx, funds, sent, crashes>>
  BY DEF RecordHash, At, chain
<1> DEFINE h  == request[s].hash
           pc == IF h \in hashes THEN AfterHook(tx[h].wallet, FALSE) ELSE "credit"
<1>2. h \in Hash /\ Backed(h) /\ pc \in {"mark", "next", "credit"} /\ (pc = "credit" <=> h \notin hashes)
  BY <1>1 DEF Inv, HashInv, AfterHook
<1>3. Goto(s, pc) /\ hashes' = (IF h \in hashes THEN hashes ELSE hashes \cup {h})
  BY DEF RecordHash
<1> HIDE DEF pc
<1>4. Only(s) /\ SameWork(s) /\ request'[s].pc = pc /\ request'[s].hash = h
  <2>1. pc \in RequestPC
    BY <1>2 DEF RequestPC
  <2>. QED  BY <1>1, <1>3, <2>1, GotoFacts DEF Inv
<1>5. PICK g \in Hash : g = h
  BY <1>2
<1>6. TypeOK'
  BY <1>1, <1>2, <1>3, <1>4 DEF Inv, TypeOK, Only
<1>7. MoveInv'
  BY <1>1, <1>2, <1>4 DEF Inv, MoveInv, Only, At, My
<1>8. RowInv'
  BY <1>1, <1>2, <1>4, QuietRows DEF Inv, RowInv, Sweeping, My, SameWork
<1>9. CASE g \in hashes
  <2>1. UNCHANGED hashes /\ pc \in {"mark", "next"}
    BY <1>2, <1>3, <1>5, <1>9
  <2>2. HashInv'
    BY <1>1, <1>4, <2>1, QuietStep DEF Inv, HashInv, SameWork
  <2>3. ListInv'
    BY <1>1, <1>4, <1>5, <1>9, <2>1 DEF Inv, ListInv, Only, At, My
  <2>. QED  BY <1>6, <1>7, <1>8, <2>2, <2>3 DEF Inv
<1>10. CASE g \notin hashes
  <2>1. hashes' = hashes \cup {g} /\ request'[s].pc = "credit" /\ request'[s].hash = g /\ request[s].hash = g
    BY <1>2, <1>3, <1>4, <1>5, <1>10
  <2>2. \A x : Backed(x)' <=> Backed(x)
    BY <1>1 DEF Backed
  <2>3. credits[g] = 0 /\ Backed(g)
    BY <1>2, <1>5, <1>10 DEF Inv, HashInv
  <2>4. HashInv'
    BY <1>1, <1>4, <1>10, <2>1, <2>2, <2>3 DEF Inv, HashInv, Only, SameWork, At
  <2>5. ListInv'
    BY <1>1, <1>4, <2>1 DEF Inv, ListInv, Only, At, My
  <2>. QED  BY <1>6, <1>7, <1>8, <2>4, <2>5 DEF Inv
<1>. QED  BY <1>9, <1>10

LEMMA CreditInv == ASSUME Inv, NEW s \in Slot, Credit(s) PROVE Inv'
<1>1. request[s].pc = "credit" /\ UNCHANGED <<wallets, listed, hashes, tx, funds, sent, crashes>>
  BY DEF Credit, At, chain
<1>2. PICK h \in Hash : h = request[s].hash
  BY <1>1 DEF Inv, HashInv
<1>3. h \in hashes /\ credits[h] = 0
  BY <1>1, <1>2 DEF Inv, HashInv
<1> DEFINE w  == tx[h].wallet
           pc == AfterHook(w, w \in listed)
<1>4. pc \in {"mark", "next"} /\ pc \in RequestPC
  BY DEF AfterHook, RequestPC
<1>5. /\ Goto(s, pc)
      /\ credits' = IF w \in listed THEN [credits EXCEPT ![h] = @ + 1] ELSE credits
  BY <1>2 DEF Credit
<1> HIDE DEF pc
<1>6. Only(s) /\ SameWork(s) /\ request'[s].pc = pc
  BY <1>1, <1>4, <1>5, GotoFacts DEF Inv
<1>7. /\ credits' \in [Hash -> Nat] /\ \A g \in Hash \ {h} : credits'[g] = credits[g]
      /\ credits'[h] = IF w \in listed THEN 1 ELSE 0
  BY <1>3, <1>5 DEF Inv, TypeOK
<1>8. TypeOK'
  BY <1>1, <1>6, <1>7 DEF Inv, TypeOK, Only
<1>9. MoveInv'
  BY <1>1, <1>4, <1>6 DEF Inv, MoveInv, Only, At, My
<1>10. RowInv'
  BY <1>1, <1>4, <1>6, QuietRows DEF Inv, RowInv, Sweeping, My, SameWork
<1>11. \A g : Backed(g)' <=> Backed(g)
  BY <1>1 DEF Backed
<1>12. \A t \in Slot \ {s} : At(t, "credit") => request[t].hash \in Hash /\ request[t].hash # h
  BY <1>1, <1>2 DEF Inv, HashInv, At
<1>13. HashInv'
  BY <1>1, <1>3, <1>4, <1>6, <1>7, <1>11, <1>12 DEF Inv, HashInv, Only, SameWork, At
<1>14. crashes = 0 /\ tx[h].mined => credits'[h] = 1
  BY <1>7 DEF Inv, ListInv
<1>15. \A g \in Hash : credits[g] = 1 => credits'[g] = 1
  BY <1>3, <1>7
<1>16. ListInv'
  <2>1. \A g \in hashes : g \in Hash
    BY DEF Inv, TypeOK
  <2>. QED  BY <1>1, <1>2, <1>4, <1>6, <1>14, <1>15, <2>1 DEF Inv, ListInv, Only, At, My
<1>. QED  BY <1>8, <1>9, <1>10, <1>13, <1>16 DEF Inv

LEMMA TrackInv == ASSUME Inv, NEW s \in Slot, Track(s) PROVE Inv'
<1> DEFINE found == {h \in Hash : tx[h].wallet = Legacy /\ tx[h].mined /\ credits[h] = 0}
<1>1. Begin(s, "next", Legacy, NoRow, {}, found)
  BY DEF Track
<1>2. found \in SUBSET Hash /\ (\A h \in found : Backed(h)) /\ Legacy \in Wallet
  BY DEF Backed, Wallet
<1> HIDE DEF found
<1>3. /\ Only(s) /\ request'[s].pc = "next" /\ request'[s].hashes = found
      /\ request'[s].wallet = Legacy /\ request'[s].wallets = {}
  BY <1>1, <1>2, BeginFacts DEF Inv, RequestPC, Status
<1>4. request[s].pc = "idle" /\ UNCHANGED <<wallets, listed, tx, hashes, credits, funds, sent, crashes>>
  BY DEF Track, At, tables, chain
<1>5. TypeOK'
  BY <1>3, <1>4 DEF Inv, TypeOK, Only
<1>6. RowInv'
  BY <1>3, <1>4, QuietRows
<1>. QED  BY <1>2, <1>3, <1>4, <1>5, <1>6, QuietStep, QuietList DEF Inv

-----------------------------------------------------------------------------
(* Deposits and restarts.                                                  *)

LEMMA DepositInv == ASSUME Inv, NEW w \in Disposable, Deposit(w) PROVE Inv'
<1>1. /\ wallets[w] # NoRow /\ sent[w] < MaxDeposits /\ \A s \in Slot : At(s, "list") => My(s) # w
      /\ sent' = [sent EXCEPT ![w] = @ + 1] /\ funds' = [funds EXCEPT ![w] = @ + 1]
      /\ UNCHANGED <<wallets, listed, hashes, credits, tx, request, crashes>>
  BY DEF Deposit, tables
<1>2. /\ funds[w] \in 0 .. MaxDeposits /\ sent[w] \in 0 .. MaxDeposits /\ funds[w] <= sent[w]
      /\ funds \in [Disposable -> 0 .. MaxDeposits] /\ sent \in [Disposable -> 0 .. MaxDeposits]
  BY DEF Inv, TypeOK, MoveInv
<1>3. funds[w] + 1 \in 0 .. MaxDeposits /\ sent[w] + 1 \in 0 .. MaxDeposits /\ funds[w] + 1 <= sent[w] + 1
  BY <1>1, <1>2, ConstantsAssumption
<1>4. TypeOK'
  BY <1>1, <1>2, <1>3 DEF Inv, TypeOK
<1>5. MoveInv'
  BY <1>1, <1>2, <1>3 DEF Inv, MoveInv, At, My
<1>6. \A h : Backed(h)' <=> Backed(h)
  BY <1>1 DEF Backed
<1>7. HashInv' /\ RowInv'
  BY <1>1, <1>6 DEF Inv, HashInv, RowInv, At, Checking, Sweeping, My
<1>8. crashes = 0 => w \in listed
  BY <1>1 DEF Inv, ListInv
<1>9. \A v \in Disposable : funds'[v] > 0 => v = w \/ funds[v] > 0
  BY <1>1, <1>2
<1>10. ListInv'
  BY <1>1, <1>8, <1>9 DEF Inv, ListInv, At, My
<1>. QED  BY <1>4, <1>5, <1>7, <1>10 DEF Inv

LEMMA DepositLegacyInv == ASSUME Inv, DepositLegacy PROVE Inv'
<1> DEFINE new == [wallet |-> Legacy, mined |-> TRUE, known |-> TRUE]
<1>1. /\ Fresh # {} /\ tx' = [tx EXCEPT ![New] = new]
      /\ UNCHANGED <<wallets, listed, hashes, credits, funds, sent, request, crashes>>
  BY DEF DepositLegacy, tables
<1>2. /\ new \in [wallet : Wallet, mined : BOOLEAN, known : BOOLEAN]
      /\ new.wallet = Legacy /\ new.mined /\ new.known
  BY DEF Wallet
<1> HIDE DEF new
<1>3. PICK n \in Hash : n = New
  BY <1>1, NewIsFresh
<1>4. /\ ~Backed(n) /\ tx'[n] = new
      /\ tx' \in [Hash -> [wallet : Wallet, mined : BOOLEAN, known : BOOLEAN]]
      /\ \A h \in Hash \ {n} : tx'[h] = tx[h]
      /\ \A h \in Hash : Backed(h) => Backed(h)'
  BY <1>1, <1>2, <1>3, TxFacts DEF Inv
<1>5. TypeOK'
  BY <1>1, <1>4 DEF Inv, TypeOK
<1>6. /\ hashes \subseteq Hash /\ n \notin hashes
      /\ \A s \in Slot : request[s].pc # "idle" => \A h \in request[s].hashes : h \in Hash
  BY <1>4, Typed DEF Inv, TypeOK, HashInv
<1>7. MoveInv' /\ HashInv' /\ RowInv'
  BY <1>1, <1>4, <1>6 DEF Inv, MoveInv, HashInv, RowInv, At, Checking, Sweeping, My
<1>8. ListInv'
  BY <1>1, <1>2, <1>4, <1>6 DEF Inv, ListInv, At, My
<1>. QED  BY <1>5, <1>7, <1>8 DEF Inv

LEMMA CrashInv == ASSUME Inv, Crash PROVE Inv'
<1>1. /\ crashes < MaxCrashes /\ crashes' = crashes + 1 /\ request' = [s \in Slot |-> Idle]
      /\ UNCHANGED <<wallets, listed, hashes, credits, funds, sent, tx>>
  BY DEF Crash, tables, chain
<1>2. crashes' \in 0 .. MaxCrashes /\ crashes' # 0
  BY <1>1, ConstantsAssumption DEF Inv, TypeOK
<1>3. \A s \in Slot : request'[s].pc = "idle"
  BY <1>1 DEF Idle
<1>4. TypeOK'
  BY <1>1, <1>2 DEF Inv, TypeOK
<1>5. \A h : Backed(h)' <=> Backed(h)
  BY <1>1 DEF Backed
<1>6. MoveInv' /\ HashInv' /\ ListInv' /\ RowInv'
  BY <1>1, <1>2, <1>3, <1>5 DEF Inv, MoveInv, HashInv, ListInv, RowInv, At, Checking, Sweeping
<1>. QED  BY <1>4, <1>6 DEF Inv

LEMMA NextInv == Inv /\ [Next]_vars => Inv'
<1> SUFFICES ASSUME Inv, [Next]_vars PROVE Inv'
  OBVIOUS
<1>1. ASSUME NEW s \in Slot, Step(s) PROVE Inv'
  BY <1>1, AskCreateInv, InsertInv, ListInvariant, CheckInvariant, ExpireInv, ReadBalanceInv, SaveCheckedInv,
     SweepInv, SweepAllInv, TakeNextInv, MoveInvariant, MarkInv, RecordHashInv, CreditInv, TrackInv
  DEF Step
<1>2. CASE UNCHANGED vars
  <2>1. \A h : Backed(h)' <=> Backed(h)
    BY <1>2 DEF vars, Backed
  <2>2. TypeOK' /\ MoveInv' /\ RowInv'
    BY <1>2 DEF vars, Inv, TypeOK, MoveInv, RowInv, At, My, Checking, Sweeping
  <2>3. HashInv' /\ ListInv'
    BY <1>2, <2>1 DEF vars, Inv, HashInv, ListInv, At, My
  <2>. QED  BY <2>2, <2>3 DEF Inv
<1>. QED  BY <1>1, <1>2, DepositInv, DepositLegacyInv, CrashInv DEF Next

LEMMA Invariance == Spec => []Inv
BY InitInv, NextInv, PTL DEF Spec

-----------------------------------------------------------------------------
(* The theorems that need nothing else.                                    *)

\* The state of wallets, transactions and requests stays in its types.
THEOREM TypeCorrect == Spec => []TypeOK
<1>1. Inv => TypeOK
  BY DEF Inv
<1>. QED  BY <1>1, Invariance, PTL

\* Whatever is credited was moved, once, however many requests, restarts and
\* refreshes: transactionWebhook records the unique hash first.
THEOREM CreditBacked == Spec => []CreditIsBacked
<1>1. Inv => CreditIsBacked
  <2> SUFFICES ASSUME Inv, NEW h \in Hash, credits[h] > 0
               PROVE  credits[h] = 1 /\ (tx[h].mined \/ tx[h].wallet \in Unchecked)
    BY DEF CreditIsBacked
  <2>. QED  BY DEF Inv, HashInv, Backed
<1>. QED  BY <1>1, Invariance, PTL

\* Without restarts whatever has moved is credited or in a request's hands:
\* the wallet is in the wallet table by the time coins move from it.
THEOREM MovedCredited == Spec => []MovedIsCredited
<1>1. Inv => MovedIsCredited
  <2> SUFFICES ASSUME Inv, crashes = 0, NEW h \in Hash, tx[h].mined, tx[h].known,
                      tx[h].wallet # Legacy \/ h \in hashes
               PROVE  credits[h] = 1 \/ Underway(h)
    BY DEF MovedIsCredited
  <2>1. h \in hashes \/ \E s \in Slot : At(s, "hook") /\ request[s].hash = h
    BY DEF Inv, ListInv
  <2>2. h \in hashes => credits[h] = 1 \/ \E s \in Slot : At(s, "credit") /\ request[s].hash = h
    BY DEF Inv, ListInv
  <2>. QED  BY <2>1, <2>2 DEF Underway, At
<1>. QED  BY <1>1, Invariance, PTL

-----------------------------------------------------------------------------
(* What says swept is paid in.                                             *)

(***************************************************************************)
(* What a request carries: hashes of the legacy wallet only for a          *)
(* tracking; to a webhook, a transaction of its own wallet, which nobody   *)
(* else records; a copy of the status that says swept if the row it read   *)
(* did; and short of a restart it marks, or checks as swept, only what is  *)
(* paid in.                                                                *)
(***************************************************************************)
Fair(s) ==
  /\ Sweeping(s) => \A h \in request[s].hashes : My(s) = Legacy /\ request[s].wallets = {} /\ tx[h].wallet = Legacy
  /\ request[s].pc \in {"hook", "credit"} => tx[request[s].hash].wallet = My(s)
  /\ At(s, "hook") /\ My(s) # Legacy =>
       /\ request[s].hash \notin hashes
       /\ \A t \in Slot \ {s} : request[t].pc \in {"hook", "credit"} => request[t].hash # request[s].hash
  /\ Checking(s) /\ request[s].knew => request[s].status = "swept" /\ ~At(s, "expire")
  /\ crashes = 0 /\ My(s) \in Disposable \ Lenient =>
       /\ Checking(s) /\ request[s].status = "swept" => PaidIn(My(s))
       /\ At(s, "mark") => PaidIn(My(s))

SweptInv == crashes = 0 => \A w \in Disposable \ Lenient : wallets[w] = "swept" => PaidIn(w)

FairInv == SweptInv /\ \A s \in Slot : Fair(s)

\* Transactions that may be credited stay, and credits do.
Lasting ==
  /\ \A h \in Hash : Backed(h) => tx'[h] = tx[h] /\ credits'[h] >= credits[h] /\ credits'[h] \in 0 .. 1

\* The coins of w are paid in after the step.
PaidThen(w) == \E h \in Hash : tx'[h].wallet = w /\ tx'[h].mined /\ credits'[h] = 1

LEMMA PaidStays ==
  ASSUME Inv, Lasting, NEW w \in Wallet, PaidIn(w)
  PROVE  PaidThen(w)
<1>1. PICK h \in Hash : tx[h].wallet = w /\ tx[h].mined /\ credits[h] = 1
  BY DEF PaidIn
<1>2. tx'[h] = tx[h] /\ credits'[h] = 1
  BY <1>1 DEF Lasting, Backed
<1>. QED  BY <1>1, <1>2 DEF PaidThen

LEMMA LastingNext == ASSUME Inv, [Next]_vars PROVE Lasting
<1> SUFFICES ASSUME NEW h \in Hash, Backed(h)
             PROVE  tx'[h] = tx[h] /\ credits'[h] >= credits[h] /\ credits'[h] \in 0 .. 1
  BY DEF Lasting
<1>1. credits[h] \in 0 .. 1 /\ credits \in [Hash -> Nat] /\ tx \in [Hash -> [wallet : Wallet, mined : BOOLEAN, known : BOOLEAN]]
  BY DEF Inv, HashInv, TypeOK
<1>2. CASE UNCHANGED <<tx, credits>>
  BY <1>1, <1>2
<1>3. ASSUME Fresh # {}, UNCHANGED credits, NEW rec, tx' = [tx EXCEPT ![New] = rec]
      PROVE  tx'[h] = tx[h] /\ credits'[h] >= credits[h] /\ credits'[h] \in 0 .. 1
  <2>1. tx[New] = NoTx
    BY <1>3, NewIsFresh
  <2>2. h # New
    BY <2>1 DEF Backed, NoTx
  <2>. QED  BY <1>1, <1>3, <2>2
<1>4. ASSUME NEW s \in Slot, Move(s)
      PROVE  tx'[h] = tx[h] /\ credits'[h] >= credits[h] /\ credits'[h] \in 0 .. 1
  BY <1>2, <1>3, <1>4 DEF Move, MoveNothing, MoveFails, MoveAll, MoveRefused, tables
<1>5. ASSUME NEW s \in Slot, Credit(s)
      PROVE  tx'[h] = tx[h] /\ credits'[h] >= credits[h] /\ credits'[h] \in 0 .. 1
  <2>1. credits[request[s].hash] = 0 /\ request[s].hash \in Hash /\ UNCHANGED tx
    BY <1>5 DEF Credit, At, Inv, HashInv, chain
  <2>2. UNCHANGED credits \/ credits' = [credits EXCEPT ![request[s].hash] = @ + 1]
    BY <1>5 DEF Credit
  <2>. QED  BY <1>1, <2>1, <2>2
<1>6. CASE DepositLegacy
  BY <1>3, <1>6 DEF DepositLegacy, tables
<1>7. ASSUME NEW s \in Slot, Step(s)
      PROVE  tx'[h] = tx[h] /\ credits'[h] >= credits[h] /\ credits'[h] \in 0 .. 1
  <2>1. UNCHANGED <<tx, credits>> \/ Move(s) \/ Credit(s)
    BY <1>7 DEF Step, AskCreate, Insert, List, Check, Expire, ReadBalance, SaveChecked, Sweep, SweepAll,
                TakeNext, Mark, RecordHash, Track, tables, chain
  <2>. QED  BY <1>2, <1>4, <1>5, <2>1
<1>8. (\E w \in Disposable : Deposit(w)) \/ Crash \/ UNCHANGED vars => UNCHANGED <<tx, credits>>
  BY DEF Deposit, Crash, tables, chain, vars
<1>. QED  BY <1>2, <1>6, <1>7, <1>8 DEF Next

\* What a request that does not move carries stays fair, if nothing it is about
\* to record is recorded or taken up.
LEMMA KeepsFair ==
  ASSUME Inv, FairInv, Lasting, UNCHANGED crashes, NEW t \in Slot, request'[t] = request[t],
         At(t, "hook") /\ My(t) # Legacy =>
           /\ request[t].hash \notin hashes'
           /\ \A u \in Slot \ {t} : request'[u].pc \in {"hook", "credit"} => request'[u].hash # request[t].hash
  PROVE  Fair(t)'
<1>1. Fair(t)
  BY DEF FairInv
<1>2. request[t].pc # "idle" => \A h \in request[t].hashes : h \in Hash /\ tx'[h] = tx[h]
  <2>1. ASSUME request[t].pc # "idle", NEW h \in request[t].hashes PROVE h \in Hash /\ Backed(h)
    BY <2>1, Typed DEF Inv, HashInv
  <2>. QED  BY <2>1 DEF Lasting
<1>3. request[t].pc \in {"hook", "credit"} => tx'[request[t].hash] = tx[request[t].hash]
  BY DEF Inv, HashInv, Lasting
<1>4. My(t) \in Wallet /\ PaidIn(My(t)) => PaidThen(My(t))
  BY PaidStays
<1>5. My(t)' = My(t) /\ (Sweeping(t)' <=> Sweeping(t)) /\ (Checking(t)' <=> Checking(t))
  BY DEF My, Sweeping, Checking
<1>6. My(t) \in Disposable /\ PaidIn(My(t)) => PaidIn(My(t))'
  BY <1>4, <1>5 DEF PaidThen, PaidIn, Wallet
<1>7. Sweeping(t) => request[t].pc # "idle"
  BY DEF Sweeping
<1>. QED  BY <1>1, <1>2, <1>3, <1>5, <1>6, <1>7 DEF Fair, At

\* A wallet marked swept is paid in.
LEMMA SweptOn ==
  ASSUME Inv, FairInv, Lasting, UNCHANGED crashes,
         crashes = 0 => \A w \in Disposable \ Lenient : wallets'[w] = "swept" => wallets[w] = "swept" \/ PaidIn(w)
  PROVE  SweptInv'
<1> SUFFICES ASSUME crashes = 0, NEW w \in Disposable \ Lenient, wallets'[w] = "swept"
             PROVE  PaidIn(w)'
  BY DEF SweptInv
<1>1. w \in Wallet /\ PaidIn(w)
  BY DEF FairInv, SweptInv, Wallet
<1>. QED  BY <1>1, PaidStays DEF PaidThen, PaidIn

\* A step that records nothing and takes up no hash.
LEMMA QuietFair ==
  ASSUME Inv, FairInv, Lasting, UNCHANGED <<crashes, hashes>>, NEW s \in Slot, Only(s),
         request'[s].pc \notin {"hook", "credit"}, Fair(s)', SweptInv'
  PROVE  FairInv'
<1>1. ASSUME NEW t \in Slot \ {s} PROVE Fair(t)'
  <2>1. request'[t] = request[t] /\ Fair(t)
    BY DEF Only, FairInv
  <2>2. At(t, "hook") /\ My(t) # Legacy =>
          \A u \in Slot \ {t} : request'[u].pc \in {"hook", "credit"} => request'[u].hash # request[t].hash
    BY <2>1 DEF Only, Fair
  <2>. QED  BY <2>1, <2>2, KeepsFair DEF Fair
<1>. QED  BY <1>1 DEF FairInv

LEMMA CreateFair ==
  ASSUME Inv, FairInv, Lasting, NEW s \in Slot, AskCreate(s) \/ Insert(s) \/ List(s)
  PROVE  FairInv'
<1>1. Only(s) /\ request'[s].pc \in {"idle", "insert", "list"}
  <2>1. CASE AskCreate(s)
    <3>1. PICK n \in Network : /\ NextIndex(n) <= MaxIndex
                               /\ Begin(s, "insert", <<n, NextIndex(n)>>, NoRow, {}, {})
      BY <2>1 DEF AskCreate
    <3>2. <<n, NextIndex(n)>> \in Wallet
      BY <3>1, IndexInRange DEF Wallet
    <3>. QED  BY <3>1, <3>2, BeginFacts DEF Inv, RequestPC, Status
  <2>2. CASE Insert(s)
    BY <2>2, DoneFacts, GotoFacts DEF Inv, Insert, At, RequestPC
  <2>3. CASE List(s)
    BY <2>3, DoneFacts DEF Inv, List
  <2>. QED  BY <2>1, <2>2, <2>3
<1>2. UNCHANGED <<crashes, hashes>>
  BY DEF AskCreate, Insert, List, tables
<1>3. \A w \in Disposable : wallets'[w] = "swept" => wallets[w] = "swept"
  BY DEF AskCreate, Insert, List, tables, Inv, TypeOK
<1>4. Fair(s)'
  BY <1>1 DEF Fair, Sweeping, Checking, At
<1>. QED  BY <1>1, <1>2, <1>3, <1>4, SweptOn, QuietFair

LEMMA CheckFair ==
  ASSUME Inv, FairInv, Lasting, NEW s \in Slot, Check(s) \/ Expire(s) \/ ReadBalance(s) \/ SaveChecked(s)
  PROVE  FairInv'
<1>1. UNCHANGED <<crashes, hashes>> /\ Fair(s)
  BY DEF Check, Expire, ReadBalance, SaveChecked, tables, FairInv
<1>2. \A w \in Wallet : PaidIn(w) => PaidThen(w)
  BY PaidStays
<1>3. CASE Check(s)
  <2>1. PICK w \in Disposable :
           /\ wallets[w] # NoRow /\ Only(s) /\ request'[s].pc \in {"expire", "balance"}
           /\ request'[s].hashes = {} /\ request'[s].wallet = w
           /\ request'[s].status = wallets[w] /\ (request'[s].knew <=> wallets[w] = "swept")
           /\ request'[s].pc = "expire" => wallets[w] = "pending"
    BY <1>3, CheckShape
  <2>2. UNCHANGED wallets
    BY <1>3 DEF Check, tables
  <2>3. crashes = 0 /\ w \notin Lenient /\ wallets[w] = "swept" => PaidThen(w)
    BY <1>2 DEF FairInv, SweptInv, Wallet
  <2>4. Fair(s)'
    BY <1>1, <2>1, <2>3 DEF Fair, Sweeping, Checking, At, My, PaidThen, PaidIn
  <2>. QED  BY <1>1, <2>1, <2>2, <2>4, SweptOn, QuietFair
<1>4. CASE Expire(s)
  <2>1. /\ request[s].pc = "expire" /\ Checking(s) /\ Only(s) /\ SameWork(s) /\ request'[s].pc = "balance"
        /\ request'[s].status = "expired" /\ request'[s].knew = request[s].knew
        /\ wallets' = [wallets EXCEPT ![My(s)] = "expired"]
    BY <1>4, ExpireShape
  <2>2. ~request[s].knew
    BY <1>1, <2>1 DEF Fair, At
  <2>3. Fair(s)'
    BY <2>1, <2>2 DEF Fair, Sweeping, Checking, At
  <2>4. \A w \in Disposable : wallets'[w] = "swept" => wallets[w] = "swept"
    BY <2>1 DEF Inv, TypeOK
  <2>. QED  BY <1>1, <2>1, <2>3, <2>4, SweptOn, QuietFair
<1>5. CASE ReadBalance(s)
  <2>1. request[s].pc = "balance" /\ UNCHANGED wallets /\ Checking(s)
    BY <1>5 DEF ReadBalance, At, tables, Checking
  <2>2. CASE Done(s)
    <3>1. Only(s) /\ request'[s].pc = "idle"
      BY <2>2, DoneFacts DEF Inv
    <3>2. Fair(s)'
      BY <3>1 DEF Fair, Sweeping, Checking, At
    <3>. QED  BY <1>1, <2>1, <3>1, <3>2, SweptOn, QuietFair
  <2>3. CASE request' = [request EXCEPT ![s].pc = "save", ![s].status = Seen(request[s].status)]
    <3> DEFINE status == Seen(request[s].status)
    <3>1. status \in Status /\ (status = "swept" <=> request[s].status = "swept")
      BY <2>1, Typed DEF Inv, Seen, Status
    <3>2. request' = [request EXCEPT ![s].pc = "save", ![s].status = status]
      BY <2>3
    <3> HIDE DEF status
    <3>3. /\ Only(s) /\ SameWork(s) /\ request'[s].pc = "save" /\ request'[s].status = status
          /\ request'[s].knew = request[s].knew
      BY <2>1, <3>1, <3>2, CopyFacts DEF Inv
    <3>4. My(s) \in Disposable /\ PaidIn(My(s)) => PaidThen(My(s))
      BY <1>2 DEF Wallet
    <3>5. Fair(s)'
      BY <1>1, <2>1, <3>1, <3>3, <3>4 DEF Fair, Sweeping, Checking, At, My, SameWork, PaidThen, PaidIn
    <3>. QED  BY <1>1, <2>1, <3>3, <3>5, SweptOn, QuietFair
  <2>. QED  BY <1>5, <2>2, <2>3 DEF ReadBalance
<1>6. CASE SaveChecked(s)
  <2>1. /\ Checking(s) /\ Only(s) /\ request'[s].pc = "idle"
        /\ wallets' = [wallets EXCEPT ![My(s)] = request[s].status]
    BY <1>6, DoneFacts DEF Inv, SaveChecked, At, Checking
  <2>2. Fair(s)'
    BY <2>1 DEF Fair, Sweeping, Checking, At
  <2>3. \A w \in Disposable : wallets'[w] = "swept" =>
          wallets[w] = "swept" \/ (w = My(s) /\ request[s].status = "swept")
    BY <2>1 DEF Inv, TypeOK
  <2>4. crashes = 0 => \A w \in Disposable \ Lenient : wallets'[w] = "swept" => wallets[w] = "swept" \/ PaidIn(w)
    BY <1>1, <2>1, <2>3 DEF Fair
  <2>. QED  BY <1>1, <2>1, <2>2, <2>4, SweptOn, QuietFair
<1>. QED  BY <1>3, <1>4, <1>5, <1>6

LEMMA SweepFair ==
  ASSUME Inv, FairInv, Lasting, NEW s \in Slot, Sweep(s) \/ SweepAll(s) \/ Track(s)
  PROVE  FairInv'
<1>1. UNCHANGED <<crashes, hashes, wallets, tx>>
  BY DEF Sweep, SweepAll, Track, tables, chain
<1>2. CASE Sweep(s)
  <2>1. PICK w \in Disposable : Begin(s, "move", w, wallets[w], {}, {})
    BY <1>2 DEF Sweep
  <2>2. w \in Wallet /\ wallets[w] \in Status
    BY DEF Inv, TypeOK, Wallet
  <2>3. Only(s) /\ request'[s].pc = "move" /\ request'[s].hashes = {}
    BY <2>1, <2>2, BeginFacts DEF Inv, RequestPC
  <2>4. Fair(s)'
    BY <2>3 DEF Fair, Checking, At
  <2>. QED  BY <1>1, <2>3, <2>4, SweptOn, QuietFair
<1>3. CASE SweepAll(s)
  <2> DEFINE funded == {w \in Disposable : wallets[w] = "funded"}
  <2>1. Begin(s, "next", Legacy, "funded", funded, {})
    BY <1>3 DEF SweepAll
  <2>2. Legacy \in Wallet /\ funded \in SUBSET Disposable
    BY DEF Wallet
  <2> HIDE DEF funded
  <2>3. Only(s) /\ request'[s].pc = "next" /\ request'[s].hashes = {}
    BY <2>1, <2>2, BeginFacts DEF Inv, RequestPC, Status
  <2>4. Fair(s)'
    BY <2>3 DEF Fair, Checking, At
  <2>. QED  BY <1>1, <2>3, <2>4, SweptOn, QuietFair
<1>4. CASE Track(s)
  <2> DEFINE found == {h \in Hash : tx[h].wallet = Legacy /\ tx[h].mined /\ credits[h] = 0}
  <2>1. Begin(s, "next", Legacy, NoRow, {}, found)
    BY <1>4 DEF Track
  <2>2. found \in SUBSET Hash /\ Legacy \in Wallet /\ \A h \in found : tx'[h].wallet = Legacy
    BY <1>1 DEF Wallet
  <2> HIDE DEF found
  <2>3. /\ Only(s) /\ request'[s].pc = "next" /\ request'[s].hashes = found
        /\ request'[s].wallet = Legacy /\ request'[s].wallets = {}
    BY <2>1, <2>2, BeginFacts DEF Inv, RequestPC, Status
  <2>4. Fair(s)'
    BY <2>2, <2>3 DEF Fair, Checking, At, My
  <2>. QED  BY <1>1, <2>3, <2>4, SweptOn, QuietFair
<1>. QED  BY <1>2, <1>3, <1>4

\* A step that takes up a hash no webhook of a disposable wallet carries.
LEMMA HookFair ==
  ASSUME Inv, FairInv, Lasting, UNCHANGED <<crashes, hashes, wallets>>, NEW s \in Slot, Only(s),
         request'[s].pc = "hook", Fair(s)',
         \A t \in Slot \ {s} : At(t, "hook") /\ My(t) # Legacy => request'[s].hash # request[t].hash
  PROVE  FairInv'
<1>1. ASSUME NEW t \in Slot \ {s} PROVE Fair(t)'
  <2>1. request'[t] = request[t] /\ Fair(t)
    BY DEF Only, FairInv
  <2>2. At(t, "hook") /\ My(t) # Legacy =>
          \A u \in Slot \ {t} : request'[u].pc \in {"hook", "credit"} => request'[u].hash # request[t].hash
    BY <2>1 DEF Only, Fair
  <2>. QED  BY <2>1, <2>2, KeepsFair DEF Fair
<1>2. SweptInv'
  BY SweptOn
<1>. QED  BY <1>1, <1>2 DEF FairInv

LEMMA TakeNextFair == ASSUME Inv, FairInv, Lasting, NEW s \in Slot, TakeNext(s) PROVE FairInv'
<1>1. request[s].pc = "next" /\ Sweeping(s) /\ UNCHANGED <<crashes, hashes, wallets, tx>> /\ Fair(s)
  BY DEF TakeNext, At, tables, chain, Sweeping, FairInv
<1>2. request[s] \in Request /\ request[s].wallets \in SUBSET Disposable /\ request[s].hashes \in SUBSET Hash
  BY <1>1, Typed DEF Inv
<1>3. CASE Done(s)
  <2>1. Only(s) /\ request'[s].pc = "idle"
    BY <1>3, DoneFacts DEF Inv
  <2>2. Fair(s)'
    BY <2>1 DEF Fair, Sweeping, Checking, At
  <2>. QED  BY <1>1, <2>1, <2>2, SweptOn, QuietFair
<1>4. ASSUME NEW w \in request[s].wallets,
             request' = [request EXCEPT ![s].pc = "move", ![s].wallet = w, ![s].wallets = @ \ {w}]
      PROVE  FairInv'
  <2> DEFINE rest == request[s].wallets \ {w}
             rec  == [request[s] EXCEPT !.pc = "move", !.wallet = w, !.wallets = rest]
  <2>1. w \in Wallet /\ rest \in SUBSET Disposable
    BY <1>2 DEF Wallet
  <2>2. request' = [request EXCEPT ![s] = rec]
    BY <1>4
  <2> HIDE DEF rest
  <2>3. rec \in Request /\ rec.pc = "move" /\ rec.hashes = request[s].hashes
    BY <1>2, <2>1 DEF Request
  <2> HIDE DEF rec
  <2>4. Only(s) /\ request'[s].pc = "move" /\ request'[s].hashes = request[s].hashes
    BY <2>2, <2>3 DEF Inv, TypeOK, Only
  <2>5. request[s].hashes = {}
    BY <1>1 DEF Fair
  <2>6. Fair(s)'
    BY <2>4, <2>5 DEF Fair, Checking, At
  <2>. QED  BY <1>1, <2>4, <2>6, SweptOn, QuietFair
<1>5. ASSUME NEW h \in request[s].hashes,
             request' = [request EXCEPT ![s].pc = "hook", ![s].hash = h, ![s].hashes = @ \ {h}]
      PROVE  FairInv'
  <2> DEFINE rest == request[s].hashes \ {h}
             rec  == [request[s] EXCEPT !.pc = "hook", !.hash = h, !.hashes = rest]
  <2>1. h \in Hash /\ rest \in SUBSET Hash /\ rest \subseteq request[s].hashes
    BY <1>2
  <2>2. request' = [request EXCEPT ![s] = rec]
    BY <1>5
  <2> HIDE DEF rest
  <2>3. rec \in Request /\ rec.pc = "hook" /\ rec.hashes = rest /\ rec.hash = h
        /\ rec.wallet = request[s].wallet /\ rec.wallets = request[s].wallets
    BY <1>2, <2>1 DEF Request
  <2> HIDE DEF rec
  <2>4. Only(s) /\ request'[s].pc = "hook" /\ request'[s].hashes = rest /\ request'[s].hash = h
        /\ SameWallets(s)
    BY <2>2, <2>3 DEF Inv, TypeOK, Only, SameWallets
  <2>5. My(s) = Legacy /\ tx[h].wallet = Legacy
    BY <1>1 DEF Fair
  <2>6. Fair(s)'
    BY <1>1, <2>1, <2>4, <2>5 DEF Fair, Checking, At, My, SameWallets
  <2>7. \A t \in Slot \ {s} : At(t, "hook") /\ My(t) # Legacy => request[t].hash # h
    BY <2>5 DEF FairInv, Fair, At
  <2>. QED  BY <1>1, <2>4, <2>6, <2>7, HookFair
<1>. QED  BY <1>3, <1>4, <1>5 DEF TakeNext

\* The transfer of a sweep: nothing else carries its new hash, nor is it recorded.
LEMMA SentFair ==
  ASSUME Inv, FairInv, Lasting, NEW s \in Slot, At(s, "move"), UNCHANGED <<tables, sent, crashes>>,
         MoveAll(s) \/ MoveRefused(s)
  PROVE  FairInv'
<1>1. /\ request[s].pc = "move" /\ Sweeping(s) /\ My(s) \in Disposable /\ My(s) \in Wallet /\ Fair(s)
      /\ UNCHANGED <<crashes, hashes, wallets>>
  BY DEF Inv, MoveInv, At, tables, Wallet, Sweeping, FairInv
<1>2. Fresh # {} /\ New \in Hash /\ tx[New] = NoTx
  BY NewIsFresh DEF MoveAll, MoveRefused
<1>3. PICK n \in Hash : n = New
  BY <1>2
<1>4. ~Backed(n)
  BY <1>2, <1>3 DEF Backed, NoTx
<1>5. \E new \in [wallet : Wallet, mined : BOOLEAN, known : BOOLEAN], pc \in {"hook", "mark", "next"} :
        /\ new.wallet = My(s) /\ tx' = [tx EXCEPT ![n] = new]
        /\ request' = [request EXCEPT ![s].pc = pc, ![s].hash = n]
        /\ pc = "mark" => My(s) \in Lenient
  <2>1. CASE MoveAll(s)
    <3>1. PICK known \in BOOLEAN :
            /\ tx' = [tx EXCEPT ![n] = [wallet |-> My(s), mined |-> TRUE, known |-> known]]
            /\ request' = [request EXCEPT ![s].pc = AfterSend(My(s), known), ![s].hash = n]
      BY <1>3, <2>1 DEF MoveAll
    <3>2. /\ AfterSend(My(s), known) \in {"hook", "mark", "next"}
          /\ AfterSend(My(s), known) = "mark" => My(s) \in Lenient
      BY ConstantsAssumption DEF AfterSend, AfterError
    <3>3. [wallet |-> My(s), mined |-> TRUE, known |-> known] \in [wallet : Wallet, mined : BOOLEAN, known : BOOLEAN]
      BY <1>1
    <3>. QED  BY <3>1, <3>2, <3>3
  <2>2. CASE MoveRefused(s)
    <3>1. [wallet |-> My(s), mined |-> FALSE, known |-> TRUE] \in [wallet : Wallet, mined : BOOLEAN, known : BOOLEAN]
      BY <1>1
    <3>. QED  BY <1>3, <2>2, <3>1 DEF MoveRefused
  <2>. QED  BY <2>1, <2>2
<1>6. PICK new \in [wallet : Wallet, mined : BOOLEAN, known : BOOLEAN], pc \in {"hook", "mark", "next"} :
        /\ new.wallet = My(s) /\ tx' = [tx EXCEPT ![n] = new]
        /\ request' = [request EXCEPT ![s].pc = pc, ![s].hash = n]
        /\ pc = "mark" => My(s) \in Lenient
  BY <1>5
<1> DEFINE rec == [request[s] EXCEPT !.pc = pc, !.hash = n]
<1>7. request[s] \in Request /\ request[s].hashes \in SUBSET Hash
  BY <1>1, Typed DEF Inv
<1>8. request' = [request EXCEPT ![s] = rec]
  BY <1>6
<1>9. /\ rec \in Request /\ rec.pc = pc /\ rec.hashes = request[s].hashes /\ rec.hash = n
      /\ rec.wallet = request[s].wallet /\ rec.wallets = request[s].wallets
  BY <1>7 DEF Request
<1> HIDE DEF rec
<1>10. /\ Only(s) /\ request'[s].pc = pc /\ request'[s].hashes = request[s].hashes /\ request'[s].hash = n
       /\ SameWallets(s)
  BY <1>8, <1>9 DEF Inv, TypeOK, Only, SameWallets
<1>11. tx'[n] = new /\ \A h \in request[s].hashes : tx'[h] = tx[h]
  <2>1. \A h \in request[s].hashes : h \in Hash /\ Backed(h)
    BY <1>1, <1>7 DEF Inv, HashInv
  <2>. QED  BY <1>6, <2>1 DEF Lasting, Inv, TypeOK
<1>12. \A t \in Slot : request[t].pc \in {"hook", "credit"} => request[t].hash # n
  BY <1>4 DEF Inv, HashInv
<1>13. n \notin hashes
  BY <1>4 DEF Inv, HashInv
<1>14. Fair(s)'
  BY <1>1, <1>6, <1>10, <1>11, <1>12, <1>13 DEF Fair, Sweeping, Checking, At, My, SameWallets, Only
<1>15. CASE pc = "hook"
  BY <1>1, <1>10, <1>12, <1>14, <1>15, HookFair DEF At
<1>16. CASE pc # "hook"
  BY <1>1, <1>6, <1>10, <1>14, <1>16, SweptOn, QuietFair
<1>. QED  BY <1>15, <1>16

LEMMA MoveFair == ASSUME Inv, FairInv, Lasting, NEW s \in Slot, Move(s) PROVE FairInv'
<1>1. At(s, "move") /\ UNCHANGED <<tables, sent, crashes>>
  BY DEF Move
<1>2. CASE MoveNothing(s) \/ MoveFails(s)
  <2>1. PICK pc \in {"mark", "next"} : Goto(s, pc) /\ UNCHANGED tx /\ (pc = "mark" => My(s) \in Lenient)
    BY <1>2, ConstantsAssumption DEF MoveNothing, MoveFails, AfterError
  <2>2. Only(s) /\ SameWork(s) /\ request'[s].pc = pc
    BY <1>1, <2>1, GotoFacts DEF Inv, At, RequestPC
  <2>3. Sweeping(s) /\ Fair(s) /\ UNCHANGED <<crashes, hashes, wallets>>
    BY <1>1 DEF At, Sweeping, FairInv, tables
  <2>4. Fair(s)'
    BY <2>1, <2>2, <2>3 DEF Fair, Checking, At, My, SameWork
  <2>. QED  BY <2>2, <2>3, <2>4, SweptOn, QuietFair
<1>. QED  BY <1>1, <1>2, SentFair DEF Move

LEMMA MarkFair == ASSUME Inv, FairInv, Lasting, NEW s \in Slot, Mark(s) PROVE FairInv'
<1>1. /\ request[s].pc = "mark" /\ At(s, "mark") /\ Sweeping(s) /\ Fair(s)
      /\ wallets' = [wallets EXCEPT ![My(s)] = "swept"] /\ UNCHANGED <<crashes, hashes, tx>>
  BY DEF Mark, At, chain, Sweeping, FairInv
<1>2. Only(s) /\ SameWork(s) /\ request'[s].pc = "next"
  BY <1>1, GotoFacts DEF Inv, Mark, RequestPC
<1>3. Fair(s)'
  BY <1>1, <1>2 DEF Fair, Checking, At, My, SameWork
<1>4. crashes = 0 => \A w \in Disposable \ Lenient : wallets'[w] = "swept" => wallets[w] = "swept" \/ PaidIn(w)
  <2>1. \A w \in Disposable : w # My(s) => wallets'[w] = wallets[w]
    BY <1>1 DEF Inv, TypeOK
  <2>. QED  BY <1>1, <2>1 DEF Fair
<1>. QED  BY <1>1, <1>2, <1>3, <1>4, SweptOn, QuietFair

LEMMA RecordFair == ASSUME Inv, FairInv, Lasting, NEW s \in Slot, RecordHash(s) PROVE FairInv'
<1>1. /\ request[s].pc = "hook" /\ At(s, "hook") /\ Sweeping(s) /\ Fair(s)
      /\ UNCHANGED <<crashes, wallets, tx>>
  BY DEF RecordHash, At, chain, Sweeping, FairInv
<1> DEFINE h == request[s].hash
<1>2. h \in Hash /\ tx[h].wallet = My(s)
  BY <1>1 DEF Inv, HashInv, Fair
<1>3. CASE h \in hashes
  <2>1. Goto(s, "next") /\ UNCHANGED hashes
    BY <1>1, <1>2, <1>3 DEF RecordHash, AfterHook, Fair
  <2>2. Only(s) /\ SameWork(s) /\ request'[s].pc = "next"
    BY <1>1, <2>1, GotoFacts DEF Inv, RequestPC
  <2>3. Fair(s)'
    BY <1>1, <2>2 DEF Fair, Checking, At, My, SameWork
  <2>. QED  BY <1>1, <2>1, <2>2, <2>3, SweptOn, QuietFair
<1>4. CASE h \notin hashes
  <2>1. Goto(s, "credit") /\ hashes' = hashes \cup {h}
    BY <1>4 DEF RecordHash
  <2>2. Only(s) /\ SameWork(s) /\ request'[s].pc = "credit" /\ request'[s].hash = h
    BY <1>1, <2>1, GotoFacts DEF Inv, RequestPC
  <2>3. Fair(s)'
    BY <1>1, <2>2 DEF Fair, Checking, At, My, SameWork
  <2>4. ASSUME NEW t \in Slot \ {s} PROVE Fair(t)'
    <3>1. request'[t] = request[t] /\ Fair(t)
      BY <2>2 DEF Only, FairInv
    <3>2. At(t, "hook") /\ My(t) # Legacy =>
            /\ request[t].hash \notin hashes'
            /\ \A u \in Slot \ {t} : request'[u].pc \in {"hook", "credit"} => request'[u].hash # request[t].hash
      BY <1>1, <2>1, <2>2, <3>1 DEF Only, Fair, At
    <3>. QED  BY <1>1, <3>1, <3>2, KeepsFair
  <2>5. SweptInv'
    BY <1>1, SweptOn
  <2>. QED  BY <2>3, <2>4, <2>5 DEF FairInv
<1>. QED  BY <1>3, <1>4

LEMMA CreditFair == ASSUME Inv, FairInv, Lasting, NEW s \in Slot, Credit(s) PROVE FairInv'
<1>1. /\ request[s].pc = "credit" /\ Sweeping(s) /\ Fair(s)
      /\ UNCHANGED <<crashes, wallets, hashes, listed, tx>>
  BY DEF Credit, At, chain, Sweeping, FairInv
<1>2. PICK h \in Hash : h = request[s].hash
  BY <1>1 DEF Inv, HashInv
<1>3. credits[h] = 0 /\ Backed(h) /\ tx[h].wallet = My(s)
  BY <1>1, <1>2 DEF Inv, HashInv, Fair
<1> DEFINE pc == AfterHook(My(s), My(s) \in listed)
<1>4. /\ Goto(s, pc) /\ pc \in {"mark", "next"} /\ pc \in RequestPC
      /\ My(s) \in listed => credits' = [credits EXCEPT ![h] = @ + 1]
  BY <1>2, <1>3 DEF Credit, AfterHook, RequestPC
<1> HIDE DEF pc
<1>5. Only(s) /\ SameWork(s) /\ request'[s].pc = pc
  BY <1>1, <1>4, GotoFacts DEF Inv
<1>6. crashes = 0 /\ My(s) \in Disposable \ Lenient => PaidThen(My(s))
  <2> SUFFICES ASSUME crashes = 0, My(s) \in Disposable \ Lenient PROVE PaidThen(My(s))
    OBVIOUS
  <2>1. tx[h].mined /\ My(s) \in listed
    BY <1>3, ConstantsAssumption DEF Backed, Inv, ListInv
  <2>2. credits'[h] = 1
    BY <1>3, <1>4, <2>1 DEF Inv, TypeOK
  <2>. QED  BY <1>1, <1>3, <2>1, <2>2 DEF PaidThen
<1>7. Fair(s)'
  BY <1>1, <1>4, <1>5, <1>6 DEF Fair, Checking, At, My, SameWork, PaidThen, PaidIn
<1>. QED  BY <1>1, <1>4, <1>5, <1>7, SweptOn, QuietFair

LEMMA FairNext == ASSUME Inv, FairInv, [Next]_vars PROVE FairInv'
<1>1. Lasting
  BY LastingNext
<1>2. ASSUME NEW s \in Slot, Step(s) PROVE FairInv'
  BY <1>1, <1>2, CreateFair, CheckFair, SweepFair, TakeNextFair, MoveFair, MarkFair, RecordFair, CreditFair DEF Step
<1>3. CASE (\E w \in Disposable : Deposit(w)) \/ DepositLegacy \/ UNCHANGED vars
  <2>1. UNCHANGED <<request, crashes, hashes, wallets>>
    BY <1>3 DEF Deposit, DepositLegacy, tables, vars
  <2>2. ASSUME NEW t \in Slot PROVE Fair(t)'
    BY <1>1, <2>1, KeepsFair DEF FairInv, Fair
  <2>. QED  BY <1>1, <2>1, <2>2, SweptOn DEF FairInv
<1>4. CASE Crash
  <2>1. crashes' # 0 /\ \A s \in Slot : request'[s].pc = "idle"
    BY <1>4 DEF Crash, Idle, Inv, TypeOK
  <2>. QED  BY <2>1 DEF FairInv, SweptInv, Fair, Sweeping, Checking, At
<1>. QED  BY <1>2, <1>3, <1>4 DEF Next

\* A wallet stops saying swept only for a check that saves its copy late.
LEMMA LateStep ==
  ASSUME Inv, FairInv, [Next]_vars, NEW w \in Disposable, wallets[w] = "swept", wallets'[w] # "swept"
  PROVE  LateCheck(w)
<1>1. ASSUME NEW s \in Slot, Insert(s) PROVE FALSE
  <2>1. ~Taken(My(s)) => My(s) # w
    BY DEF Taken, NoRow
  <2>. QED  BY <1>1, <2>1 DEF Insert, Inv, TypeOK
<1>2. ASSUME NEW s \in Slot, Expire(s) PROVE LateCheck(w)
  <2>1. My(s) = w /\ request[s].pc = "expire" /\ Checking(s) /\ Fair(s)
    BY <1>2 DEF Expire, Inv, TypeOK, At, Checking, FairInv
  <2>. QED  BY <2>1 DEF LateCheck, Fair, At
<1>3. ASSUME NEW s \in Slot, SaveChecked(s) PROVE LateCheck(w)
  <2>1. My(s) = w /\ request[s].pc = "save" /\ Checking(s) /\ Fair(s) /\ request[s].status # "swept"
    BY <1>3 DEF SaveChecked, Inv, TypeOK, At, Checking, FairInv
  <2>. QED  BY <2>1 DEF LateCheck, Fair
<1>4. ASSUME NEW s \in Slot, Mark(s) PROVE FALSE
  BY <1>4 DEF Mark, Inv, TypeOK
<1>5. ASSUME NEW s \in Slot, Step(s) PROVE LateCheck(w)
  <2>1. Insert(s) \/ Expire(s) \/ SaveChecked(s) \/ Mark(s)
    BY <1>5 DEF Step, AskCreate, List, Check, ReadBalance, Sweep, SweepAll, TakeNext, Move, RecordHash, Credit, Track, tables
  <2>. QED  BY <2>1, <1>1, <1>2, <1>3, <1>4
<1>. QED  BY <1>5 DEF Next, Deposit, DepositLegacy, Crash, tables, vars

\* However checks, sweeps and webhooks of a wallet overlap: short of a restart,
\* what is marked swept was moved and credited where performSweep reports what it
\* did, and only a check that read the row before the sweep undoes the mark.
THEOREM SweptPaidIn == Spec => SweptIsPaidIn
<1>1. Init => FairInv
  BY DEF Init, FairInv, SweptInv, Fair, Sweeping, Checking, At, Idle, NoRow
<1>2. Inv /\ FairInv /\ [Next]_vars => FairInv'
  BY FairNext
<1>3. FairInv => (crashes = 0 => \A w \in Disposable \ Lenient : wallets[w] = "swept" => PaidIn(w))
  BY DEF FairInv, SweptInv
<1>4. Inv /\ FairInv /\ [Next]_vars =>
        [\A w \in Disposable : wallets[w] = "swept" /\ wallets'[w] # "swept" => LateCheck(w)]_vars
  BY LateStep
<1>5. Spec => []FairInv
  BY <1>1, <1>2, Invariance, PTL DEF Spec
<1>. QED  BY <1>3, <1>4, <1>5, Invariance, PTL DEF Spec, SweptIsPaidIn
=============================================================================
