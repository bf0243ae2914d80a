------------------------------ MODULE Treasury ------------------------------
(***************************************************************************)
(* Balances on the chains that keep them by account (hd-wallet for the EVM *)
(* chains, sol-, tron- and xrp-hd-wallet): sweeps of child wallets to the  *)
(* master wallet, which pays the gas of those that hold a token, and the   *)
(* withdrawals that administrators make from the master wallet             *)
(* (web3.service withdrawToken), at the same time.  A request acts on      *)
(* balances it has read; nothing is held in between.                       *)
(*                                                                         *)
(* A behaviour is about one chain, one coin and one token on it.  Left     *)
(* out: keys, decimals, the table of token contracts, and amounts too      *)
(* small for the webhook of a sweep.                                       *)
(***************************************************************************)
EXTENDS Integers, FiniteSets

CONSTANTS
  Chain,
  Checked,   \* the balance is looked at before a withdrawal, a row is saved after it (EVM)
  Unsure,    \* a transaction that fails on chain may pass for one that went through
  ToppedUp,  \* the master wallet pays the gas of a token's sweep
  Net,       \* the sweep of the coin credits what was sent, not what was there
  Child,
  Token,     \* children that hold the token; the others hold the coin
  Cost,      \* prices of a transaction: what it may cost when it is quoted
  Buffer,    \* by chain: coin that a sweep leaves behind
  Coins, Tokens,  \* on the master wallet at the start
  Value,     \* values of deposits
  Amount,    \* amounts withdrawn
  MaxEvents, \* deposits made and withdrawals asked for
  Slot       \* requests that may be in progress at the same time

VARIABLES
  chain,
  coins, tokens,  \* of the master wallet
  funds,          \* by child: what is to be swept
  gas,            \* by child: coin of one that holds the token
  deposited, credited, moved,   \* by child: amounts, and transfers to the master wallet
  deposits, asked,
  paid,           \* withdrawals the chain has carried out
  rows,           \* withdrawals that have a row
  request

vars == <<chain, coins, tokens, funds, gas, deposited, credited, moved, deposits, asked,
          paid, rows, request>>

Idle == [pc |-> "idle"]

Init ==
  /\ chain \in Chain
  /\ coins = Coins /\ tokens = Tokens
  /\ funds = [c \in Child |-> 0] /\ gas = [c \in Child |-> 0]
  /\ deposited = [c \in Child |-> 0] /\ credited = [c \in Child |-> 0]
  /\ moved = [c \in Child |-> 0]
  /\ deposits = 0 /\ asked = 0
  /\ paid = {} /\ rows = {}
  /\ request = [s \in Slot |-> Idle]

Is(s, pc)   == request[s].pc = pc
My(s)       == request[s].child
Goto(s, pc) == request' = [request EXCEPT ![s].pc = pc]
Done(s)     == request' = [request EXCEPT ![s] = Idle]

master == <<coins, tokens>>
wallet == <<funds, gas, moved>>
users  == <<deposited, credited, deposits>>
office == <<asked, paid, rows>>

-----------------------------------------------------------------------------
(* The sweep of a child wallet.                                            *)

\* The balance is read, and the price.
Look(s) ==
  /\ Is(s, "idle")
  /\ \E c \in Child, cost \in Cost :
       /\ funds[c] > 0
       /\ c \notin Token => funds[c] > cost + Buffer[chain]
       /\ request' = [request EXCEPT ![s] =
            [pc |-> IF c \in Token /\ chain \in ToppedUp THEN "gas" ELSE "move",
             child |-> c, amount |-> funds[c], cost |-> cost, gift |-> 0]]
  /\ UNCHANGED <<chain, master, wallet, users, office>>

\* What the master wallet gives for what is missing: half as much again on EVM.
TopUp(missing) == IF chain \in Checked THEN (missing * 3) \div 2 ELSE missing

CheckGas(s) ==
  LET gift == TopUp(request[s].cost - gas[My(s)]) IN
  /\ Is(s, "gas")
  /\ IF gas[My(s)] >= request[s].cost THEN Goto(s, "move")
     ELSE IF coins < gift THEN Done(s)
     ELSE request' = [request EXCEPT ![s].pc = "fund", ![s].gift = gift]
  /\ UNCHANGED <<chain, master, wallet, users, office>>

\* The coin may have been spent since, or the call may fail.
Fund(s) ==
  LET gift == request[s].gift IN
  /\ Is(s, "fund")
  /\ \/ Done(s) /\ UNCHANGED <<coins, gas>>
     \/ /\ coins >= gift
        /\ coins' = coins - gift
        /\ gas' = [gas EXCEPT ![My(s)] = @ + gift]
        /\ Goto(s, "move")
  /\ UNCHANGED <<chain, tokens, funds, moved, users, office>>

\* Whether the chain can carry the transfer out.
Covered(r) ==
  IF r.child \in Token
  THEN funds[r.child] >= r.amount /\ (chain \in ToppedUp => gas[r.child] >= r.cost)
  ELSE funds[r.child] >= r.amount

\* What the master wallet receives.
Sent(r) == IF r.child \in Token THEN r.amount ELSE r.amount - r.cost - Buffer[chain]

MoveDone(s) ==
  LET r == request[s]
      c == r.child
  IN
  /\ Covered(r)
  /\ moved' = [moved EXCEPT ![c] = @ + 1]
  /\ IF c \in Token
     THEN /\ funds' = [funds EXCEPT ![c] = @ - r.amount]
          /\ gas' = IF chain \in ToppedUp THEN [gas EXCEPT ![c] = @ - r.cost] ELSE gas
          /\ tokens' = tokens + Sent(r) /\ UNCHANGED coins
     ELSE /\ funds' = [funds EXCEPT ![c] = @ - r.amount + Buffer[chain]]
          /\ coins' = coins + Sent(r) /\ UNCHANGED <<tokens, gas>>
  /\ Goto(s, "hook") \/ Done(s)  \* the answer may be lost

\* Mutant: the receipt is not waited for.
BugMoveFails(s) ==
  /\ ~Covered(request[s])
  /\ Goto(s, "hook")
  /\ UNCHANGED <<master, wallet>>

\* The transfer fails, on chain with its gas gone or before it gets there (the
\* node is away, or another transaction of the wallet has the same nonce).
MoveFails(s) ==
  LET r == request[s] IN
  /\ Done(s) \/ (chain \in Unsure /\ ~Covered(r) /\ Goto(s, "hook"))
  /\ \/ UNCHANGED gas
     \/ /\ r.child \in Token /\ chain \in ToppedUp /\ gas[r.child] >= r.cost
        /\ gas' = [gas EXCEPT ![r.child] = @ - r.cost]
  /\ UNCHANGED <<master, funds, moved>>

Move(s) ==
  /\ Is(s, "move")
  /\ MoveDone(s) \/ MoveFails(s)
  /\ UNCHANGED <<chain, users, office>>

\* What the user is credited.
Credit(r) == IF r.child \notin Token /\ chain \in Net THEN Sent(r) ELSE r.amount

\* The webhook of a sweep, which may fail.
Hook(s) ==
  /\ Is(s, "hook") /\ Done(s)
  /\ \/ credited' = [credited EXCEPT ![My(s)] = @ + Credit(request[s])]
     \/ UNCHANGED credited
  /\ UNCHANGED <<chain, master, wallet, deposited, deposits, office>>

-----------------------------------------------------------------------------
(* withdrawToken; a network or token it does not know changes nothing.     *)

Ask(s) ==
  /\ Is(s, "idle") /\ asked + deposits < MaxEvents
  /\ asked' = asked + 1
  /\ \E amount \in Amount, coin \in BOOLEAN, cost \in Cost :
       request' = [request EXCEPT ![s] =
         [pc |-> IF chain \in Checked THEN "check" ELSE "pay",
          id |-> asked + 1, coin |-> coin, amount |-> amount, cost |-> cost]]
  /\ UNCHANGED <<chain, master, wallet, users, paid, rows>>

\* The balance covers the withdrawal; the gas is looked at for the coin alone.
InHand(r) == IF r.coin THEN coins >= r.amount + r.cost ELSE tokens >= r.amount

CheckBalance(s) ==
  /\ Is(s, "check")
  /\ IF InHand(request[s]) THEN Goto(s, "pay") ELSE Done(s)
  /\ UNCHANGED <<chain, master, wallet, users, office>>

PayDone(s) ==
  LET r == request[s] IN
  /\ InHand(r) /\ coins >= r.cost
  /\ coins' = coins - r.cost - (IF r.coin THEN r.amount ELSE 0)
  /\ tokens' = tokens - (IF r.coin THEN 0 ELSE r.amount)
  /\ paid' = paid \cup {r.id}
  /\ Done(s) \/ (chain \in Checked /\ Goto(s, "row"))  \* the answer may be lost

\* What was in hand is spent since, or the call fails.
PayFails(s) ==
  /\ Done(s)
  /\ UNCHANGED <<coins, tokens, paid>>

Pay(s) ==
  /\ Is(s, "pay")
  /\ PayDone(s) \/ PayFails(s)
  /\ UNCHANGED <<chain, wallet, users, asked, rows>>

\* The row of a withdrawal, whose save may fail.
SaveRow(s) ==
  /\ Is(s, "row") /\ Done(s)
  /\ rows' = rows \cup {request[s].id} \/ UNCHANGED rows
  /\ UNCHANGED <<chain, master, wallet, users, asked, paid>>

-----------------------------------------------------------------------------

Deposit(c) ==
  /\ asked + deposits < MaxEvents
  /\ deposits' = deposits + 1
  /\ \E v \in Value :
       /\ funds' = [funds EXCEPT ![c] = @ + v]
       /\ deposited' = [deposited EXCEPT ![c] = @ + v]
  /\ UNCHANGED <<chain, master, gas, moved, credited, office, request>>

Step(s) ==
  \/ Look(s) \/ CheckGas(s) \/ Fund(s) \/ Move(s) \/ Hook(s)
  \/ Ask(s) \/ CheckBalance(s) \/ Pay(s) \/ SaveRow(s)

Next == (\E s \in Slot : Step(s)) \/ \E c \in Child : Deposit(c)

Spec == Init /\ [][Next]_vars

-----------------------------------------------------------------------------

TypeOK ==
  /\ chain \in Chain /\ coins \in Nat /\ tokens \in Nat
  /\ funds \in [Child -> Nat] /\ gas \in [Child -> Nat] /\ moved \in [Child -> Nat]
  /\ deposited \in [Child -> Nat] /\ credited \in [Child -> Nat]
  /\ deposits \in Nat /\ asked \in Nat /\ asked + deposits <= MaxEvents
  /\ paid \subseteq 1 .. asked /\ rows \subseteq 1 .. asked
  /\ \A s \in Slot :
       request[s].pc \in {"idle", "gas", "fund", "move", "hook", "check", "pay", "row"}

\* Sweeps of one wallet overlap, and deposits come in between: its user is never
\* credited more than was paid in, but for the buffers left behind and counted
\* again, and where the outcome of a transfer is not known.
CreditsCovered ==
  chain \notin Unsure =>
    \A c \in Child : credited[c] <= deposited[c] + moved[c] * Buffer[chain]

\* Withdrawals and the gas of sweeps spend the same balance after it was checked:
\* still only a withdrawal that the chain has carried out gets a row.
RowsArePaid == rows \subseteq paid
=============================================================================
