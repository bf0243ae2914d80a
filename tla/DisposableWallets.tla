------------------------- MODULE DisposableWallets -------------------------
(***************************************************************************)
(* Deposits on addresses the application derives itself: disposable        *)
(* wallets, created, checked and swept on request                          *)
(* (disposable-wallet.service.ts with the sweeps of the HD wallets), and   *)
(* the legacy child wallets whose incoming transactions are looked up when *)
(* the app refreshes (web3.service walletsTracking).  Either way a deposit *)
(* is credited by its transaction hash (public.service                     *)
(* transactionWebhook).                                                    *)
(*                                                                         *)
(* Left out: amounts below what a sweep's fee or its webhook's floor asks  *)
(* for, received_amount (whether it differs from the balance is left       *)
(* open, and so is whether a wallet's time is over), and XRP, whose sweep  *)
(* looks at an address no deposit reaches.                                 *)
(***************************************************************************)
EXTENDS Naturals, FiniteSets

CONSTANTS
  Network,
  Family,       \* networks whose keys give the same addresses
  Lenient,      \* wallets whose performSweep says "sweep_completed" even if nothing moved
  Swallowing,   \* wallets whose HD wallet ignores a webhook that fails
  Silent,       \* wallets whose HD wallet catches every error (tokens of Solana)
  Unchecked,    \* wallets whose transfer is credited though it failed (TRX, Solana)
  MaxIndex,     \* wallets per network
  Legacy,       \* a legacy child wallet, in the wallet table from the start
  MaxTx,        \* transactions seen on chain
  MaxDeposits,  \* deposits per disposable wallet
  Slot,         \* requests that may be in progress at the same time
  MaxCrashes    \* process restarts

Disposable == Network \X (1 .. MaxIndex)
Wallet     == Disposable \cup {Legacy}
Hash       == 1 .. MaxTx

ASSUME ConstantsAssumption ==
  /\ MaxIndex \in Nat /\ MaxTx \in Nat /\ MaxDeposits \in Nat /\ MaxCrashes \in Nat
  /\ Legacy \notin Disposable
  /\ Lenient \subseteq Disposable
  /\ Silent \subseteq Lenient /\ Unchecked \subseteq Lenient

VARIABLES
  wallets,  \* status of the disposable_wallets rows
  listed,   \* addresses in the wallet table
  funds,    \* on chain
  sent,     \* deposits made
  tx,       \* by hash: whose transaction it is, whether it was mined, and
            \* whether the request that sent it went on
  hashes,   \* the webhooks rows
  credits,  \* credit transactions, by hash
  request,  \* the requests in progress
  crashes

vars == <<wallets, listed, funds, sent, tx, hashes, credits, request, crashes>>

NoRow   == "none"
Status  == {NoRow, "pending", "funded", "swept", "expired"}
NoTx    == [wallet |-> Legacy, mined |-> FALSE, known |-> FALSE]
Idle    == [pc |-> "idle"]
Request == [pc : {"insert", "list", "expire", "balance", "save", "move", "hook", "credit", "mark", "next"},
            wallet : Wallet, status : Status, hash : Hash \cup {0},
            wallets : SUBSET Disposable, hashes : SUBSET Hash,
            knew : BOOLEAN]  \* observer: the row it read said swept

Init ==
  /\ wallets = [w \in Disposable |-> NoRow]
  /\ listed = {Legacy}
  /\ funds = [w \in Disposable |-> 0]
  /\ sent = [w \in Disposable |-> 0]
  /\ tx = [h \in Hash |-> NoTx]
  /\ hashes = {}
  /\ credits = [h \in Hash |-> 0]
  /\ request = [s \in Slot |-> Idle]
  /\ crashes = 0

At(s, pc)   == request[s].pc = pc
My(s)       == request[s].wallet
Goto(s, pc) == request' = [request EXCEPT ![s].pc = pc]
Done(s)     == request' = [request EXCEPT ![s] = Idle]
Begin(s, pc, w, status, ws, hs) ==
  request' = [request EXCEPT ![s] =
    [pc |-> pc, wallet |-> w, status |-> status, hash |-> 0, wallets |-> ws, hashes |-> hs,
     knew |-> status = "swept"]]

\* Exchanges with the chain leave the tables alone and the other way round.
chain  == <<funds, sent, tx>>
tables == <<wallets, listed, hashes, credits>>

-----------------------------------------------------------------------------
(* createDisposableWallet                                                  *)

Rows(n) == {w \in Disposable : w[1] = n /\ wallets[w] # NoRow}

\* Mutant: the first index lies below those kept for disposable wallets.
BugFirstIndex(n) == Cardinality(Rows(n))

\* One more than the highest index of the network.
NextIndex(n) == Cardinality(Rows(n)) + 1

Taken(w) == \E v \in Disposable : wallets[v] # NoRow /\ Family[v[1]] = Family[w[1]] /\ v[2] = w[2]

AskCreate(s) ==
  /\ At(s, "idle")
  /\ \E n \in Network :
       /\ NextIndex(n) <= MaxIndex
       /\ Begin(s, "insert", <<n, NextIndex(n)>>, NoRow, {}, {})
  /\ UNCHANGED <<tables, chain, crashes>>

\* The address is unique: the row goes in or the request fails.
Insert(s) ==
  /\ At(s, "insert")
  /\ IF Taken(My(s))
     THEN Done(s) /\ UNCHANGED wallets
     ELSE Goto(s, "list") /\ wallets' = [wallets EXCEPT ![My(s)] = "pending"]
  /\ UNCHANGED <<listed, hashes, credits, chain, crashes>>

\* The row in the wallet table is saved on its own.
List(s) ==
  /\ At(s, "list") /\ Done(s)
  /\ listed' = listed \cup {My(s)}
  /\ UNCHANGED <<wallets, hashes, credits, chain, crashes>>

-----------------------------------------------------------------------------
(* checkDisposableWallet                                                   *)

\* Reads the row, which may be pending and past its time.
Check(s) ==
  /\ At(s, "idle")
  /\ \E w \in Disposable :
       /\ wallets[w] # NoRow
       /\ \/ Begin(s, "balance", w, wallets[w], {}, {})
          \/ wallets[w] = "pending" /\ Begin(s, "expire", w, wallets[w], {}, {})
  /\ UNCHANGED <<tables, chain, crashes>>

Expire(s) ==
  /\ At(s, "expire")
  /\ request' = [request EXCEPT ![s].pc = "balance", ![s].status = "expired"]
  /\ wallets' = [wallets EXCEPT ![My(s)] = "expired"]
  /\ UNCHANGED <<listed, hashes, credits, chain, crashes>>

\* Mutant: whatever has a balance is funded.
BugSeen(status) == "funded"

\* The status that a balance gives a copy of the row.
Seen(status) == IF status = "pending" THEN "funded" ELSE status

\* A balance that is new is saved, and the copy of the status with it.
ReadBalance(s) ==
  /\ At(s, "balance")
  /\ \/ /\ funds[My(s)] > 0
        /\ request' = [request EXCEPT ![s].pc = "save", ![s].status = Seen(request[s].status)]
     \/ Done(s)
  /\ UNCHANGED <<tables, chain, crashes>>

SaveChecked(s) ==
  /\ At(s, "save") /\ Done(s)
  /\ wallets' = [wallets EXCEPT ![My(s)] = request[s].status]
  /\ UNCHANGED <<listed, hashes, credits, chain, crashes>>

-----------------------------------------------------------------------------
(* sweepDisposableWallet, and sweepDisposableWallets for one address or    *)
(* for all that are funded.                                                *)

Sweepable(w) == wallets[w] \in {"pending", "funded"}

Sweep(s) ==
  /\ At(s, "idle")
  /\ \E w \in Disposable : Sweepable(w) /\ Begin(s, "move", w, wallets[w], {}, {})
  /\ UNCHANGED <<tables, chain, crashes>>

SweepAll(s) ==
  /\ At(s, "idle")
  /\ LET funded == {w \in Disposable : wallets[w] = "funded"}
     IN /\ funded # {}
        /\ Begin(s, "next", Legacy, "funded", funded, {})
  /\ UNCHANGED <<tables, chain, crashes>>

\* The next wallet of the list, or the next hash of a tracking.
TakeNext(s) ==
  /\ At(s, "next")
  /\ \/ /\ request[s].wallets = {} /\ request[s].hashes = {}
        /\ Done(s)
     \/ \E w \in request[s].wallets :
          request' = [request EXCEPT ![s].pc = "move", ![s].wallet = w, ![s].wallets = @ \ {w}]
     \/ \E h \in request[s].hashes :
          request' = [request EXCEPT ![s].pc = "hook", ![s].hash = h, ![s].hashes = @ \ {h}]
  /\ UNCHANGED <<tables, chain, crashes>>

Fresh == {h \in Hash : tx[h] = NoTx}
New   == CHOOSE h \in Fresh : \A g \in Fresh : h <= g

\* Mutant: the webhook is forgotten.
BugAfterSend(w, known) == IF known \/ w \in Silent THEN "mark" ELSE "next"

\* Where an error takes the sweep of a wallet.
AfterError(w) == IF w \in Silent THEN "mark" ELSE "next"

\* A transfer confirmed calls the webhook, one whose answer is lost does not.
AfterSend(w, known) == IF known THEN "hook" ELSE AfterError(w)

\* Too little is there, or nothing, or the fee cannot be paid.
MoveNothing(s) ==
  /\ Goto(s, IF My(s) \in Lenient THEN "mark" ELSE "next")
  /\ UNCHANGED <<funds, tx>>

\* A call to the chain throws.
MoveFails(s) == Goto(s, AfterError(My(s))) /\ UNCHANGED <<funds, tx>>

\* Everything moves to the master wallet; whether the sender learns of it is open.
MoveAll(s) ==
  /\ funds[My(s)] > 0 /\ Fresh # {}
  /\ funds' = [funds EXCEPT ![My(s)] = 0]
  /\ \E known \in BOOLEAN :
       /\ tx' = [tx EXCEPT ![New] = [wallet |-> My(s), mined |-> TRUE, known |-> known]]
       /\ request' = [request EXCEPT ![s].pc = AfterSend(My(s), known), ![s].hash = New]

\* The chain refuses the transfer, and nobody looks at its answer.
MoveRefused(s) ==
  /\ My(s) \in Unchecked /\ Fresh # {}
  /\ tx' = [tx EXCEPT ![New] = [wallet |-> My(s), mined |-> FALSE, known |-> TRUE]]
  /\ request' = [request EXCEPT ![s].pc = "hook", ![s].hash = New]
  /\ UNCHANGED funds

\* performSweep, by the network's HD wallet.
Move(s) ==
  /\ At(s, "move")
  /\ MoveNothing(s) \/ MoveFails(s) \/ MoveAll(s) \/ MoveRefused(s)
  /\ UNCHANGED <<tables, sent, crashes>>

\* The sweep went through: the copy of the row is saved as swept.
Mark(s) ==
  /\ At(s, "mark") /\ Goto(s, "next")
  /\ wallets' = [wallets EXCEPT ![My(s)] = "swept"]
  /\ UNCHANGED <<listed, hashes, credits, chain, crashes>>

-----------------------------------------------------------------------------
(* transactionWebhook                                                      *)

\* Where the caller goes on: a tracking with the next hash; a sweep to the end,
\* unless the webhook failed and the HD wallet says so.
AfterHook(w, ok) == IF w # Legacy /\ (ok \/ w \in Swallowing) THEN "mark" ELSE "next"

\* Mutant: the look for an earlier webhook is all there is.
BugRecordHash(s) ==
  /\ At(s, "hook") /\ Goto(s, "credit")
  /\ hashes' = hashes \cup {request[s].hash}
  /\ UNCHANGED <<wallets, listed, credits, chain, crashes>>

\* The hash is unique: the second of two webhooks fails.
RecordHash(s) ==
  /\ At(s, "hook")
  /\ IF request[s].hash \in hashes
     THEN Goto(s, AfterHook(tx[request[s].hash].wallet, FALSE)) /\ UNCHANGED hashes
     ELSE Goto(s, "credit") /\ hashes' = hashes \cup {request[s].hash}
  /\ UNCHANGED <<wallets, listed, credits, chain, crashes>>

\* The wallet is looked for after the hash is recorded.
Credit(s) ==
  LET w == tx[request[s].hash].wallet IN
  /\ At(s, "credit")
  /\ Goto(s, AfterHook(w, w \in listed))
  /\ IF w \in listed
     THEN credits' = [credits EXCEPT ![request[s].hash] = @ + 1]
     ELSE UNCHANGED credits
  /\ UNCHANGED <<wallets, listed, hashes, chain, crashes>>

-----------------------------------------------------------------------------

\* walletsTracking: the incoming transactions no credit is found for.
Track(s) ==
  /\ At(s, "idle")
  /\ Begin(s, "next", Legacy, NoRow, {},
           {h \in Hash : tx[h].wallet = Legacy /\ tx[h].mined /\ credits[h] = 0})
  /\ UNCHANGED <<tables, chain, crashes>>

\* Someone pays to an address that has been handed out.
Deposit(w) ==
  /\ wallets[w] # NoRow /\ sent[w] < MaxDeposits
  /\ \A s \in Slot : At(s, "list") => My(s) # w
  /\ sent' = [sent EXCEPT ![w] = @ + 1]
  /\ funds' = [funds EXCEPT ![w] = @ + 1]
  /\ UNCHANGED <<tables, tx, request, crashes>>

DepositLegacy ==
  /\ Fresh # {}
  /\ tx' = [tx EXCEPT ![New] = [wallet |-> Legacy, mined |-> TRUE, known |-> TRUE]]
  /\ UNCHANGED <<tables, funds, sent, request, crashes>>

Crash ==
  /\ crashes < MaxCrashes
  /\ crashes' = crashes + 1
  /\ request' = [s \in Slot |-> Idle]
  /\ UNCHANGED <<tables, chain>>

Step(s) ==
  \/ AskCreate(s) \/ Insert(s) \/ List(s) \/ Check(s) \/ Expire(s) \/ ReadBalance(s) \/ SaveChecked(s)
  \/ Sweep(s) \/ SweepAll(s) \/ TakeNext(s) \/ Move(s) \/ Mark(s)
  \/ RecordHash(s) \/ Credit(s) \/ Track(s)

Next ==
  \/ \E s \in Slot : Step(s)
  \/ \E w \in Disposable : Deposit(w)
  \/ DepositLegacy \/ Crash

Spec == Init /\ [][Next]_vars

-----------------------------------------------------------------------------

TypeOK ==
  /\ wallets \in [Disposable -> Status]
  /\ listed \subseteq Wallet
  /\ funds \in [Disposable -> 0 .. MaxDeposits] /\ sent \in [Disposable -> 0 .. MaxDeposits]
  /\ tx \in [Hash -> [wallet : Wallet, mined : BOOLEAN, known : BOOLEAN]]
  /\ hashes \subseteq Hash /\ credits \in [Hash -> Nat]
  /\ request \in [Slot -> Request \cup {Idle}]
  /\ crashes \in 0 .. MaxCrashes

\* No coin is credited twice or before it moved, while sweeps of one wallet
\* overlap, refreshes of the app bring one transaction again and again, and
\* restarts come anywhere; but for wallets whose transfers are not checked.
CreditIsBacked ==
  \A h \in Hash : credits[h] > 0 =>
    credits[h] = 1 /\ (tx[h].mined \/ tx[h].wallet \in Unchecked)

\* While no restart and no lost answer comes between, whatever a sweep has moved
\* or a refresh has recorded is credited or on its way to be: recording the hash
\* first does not burn it.
Underway(h) == \E s \in Slot : request[s].pc \in {"hook", "credit"} /\ request[s].hash = h
MovedIsCredited ==
  crashes = 0 => \A h \in Hash :
    tx[h].mined /\ tx[h].known /\ (tx[h].wallet # Legacy \/ h \in hashes) =>
      credits[h] = 1 \/ Underway(h)

\* The coins of a wallet were moved and credited to its user.
PaidIn(w) == \E h \in Hash : tx[h].wallet = w /\ tx[h].mined /\ credits[h] = 1

\* A check that read the row before it was swept saves its old status now.
LateCheck(w) == \E s \in Slot : request[s].pc \in {"expire", "save"} /\ My(s) = w /\ ~request[s].knew

\* While checks, sweeps and webhooks of one wallet overlap: short of a restart, a
\* wallet that says swept has had its coins moved and credited, except where
\* performSweep says so without having looked; and it stops saying so only for a
\* check that had read the row before and saves its copy late.
SweptIsPaidIn ==
  /\ [](crashes = 0 => \A w \in Disposable \ Lenient : wallets[w] = "swept" => PaidIn(w))
  /\ [][\A w \in Disposable : wallets[w] = "swept" /\ wallets'[w] # "swept" => LateCheck(w)]_vars
=============================================================================
