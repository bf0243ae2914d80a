---------------------------- MODULE UtxoWallets ----------------------------
(***************************************************************************)
(* Coins on the chains that keep them as unspent outputs (btc-hd-wallet,   *)
(* doge-hd-wallet, ada-hd-wallet): sweeps of child addresses to the master *)
(* address, and withdrawals that administrators make from the master       *)
(* address (web3.service withdrawToken).  A request reads the unspent      *)
(* outputs, quotes a fee and broadcasts; nothing is held in between, so    *)
(* requests overlap freely and the chain alone decides.                    *)
(*                                                                         *)
(* The chains do not meet, so a behaviour is about one of them.  Left out: *)
(* keys and signatures, native assets that travel with ADA, and what the   *)
(* webhook of a sweep does beyond the credit (DisposableWallets).          *)
(***************************************************************************)
EXTENDS Integers, Sequences, FiniteSets, Functions

CONSTANTS
  Chain,
  Gross,     \* chains whose sweep credits what was there, before the fee (ADA)
  Floor,     \* on these, the least a sweep moves
  Dust,      \* by chain: change up to this is left to the miners
  Reserve,   \* by chain: what the inputs shall exceed the amount by
  Rate,      \* by chain: fees asked for an input, one more for the rest
  Master,
  Child,
  MasterCoins, \* values on the master address at the start
  Value,     \* values of deposits
  Amount,    \* amounts withdrawn
  MaxCoins,  \* outputs made after the start
  Slot       \* requests that may be in progress at the same time

Address == Child \cup {Master}

VARIABLES
  chain,
  utxo,       \* unspent outputs
  made,       \* outputs there have been
  deposited,  \* by child address
  credited,   \* by child address: what its user was credited
  request

vars == <<chain, utxo, made, deposited, credited, request>>

Idle == [pc |-> "idle"]
Coin(n, a, v) == [id |-> n, at |-> a, value |-> v]
Total(coins) == SumFunctionOnSet([c \in coins |-> c.value], coins)
At(a) == {c \in utxo : c.at = a}

Init ==
  /\ chain \in Chain
  /\ utxo = {Coin(n, Master, MasterCoins[n]) : n \in DOMAIN MasterCoins}
  /\ made = Len(MasterCoins)
  /\ deposited = [a \in Child |-> 0]
  /\ credited = [a \in Child |-> 0]
  /\ request = [s \in Slot |-> Idle]

Is(s, pc) == request[s].pc = pc
Done(s)   == request' = [request EXCEPT ![s] = Idle]
ledger    == <<deposited, credited>>

-----------------------------------------------------------------------------

\* A sweep takes every output of a child address.
ReadForSweep(s) ==
  /\ Is(s, "idle")
  /\ \E a \in Child :
       /\ At(a) # {}
       /\ request' = [request EXCEPT ![s] =
            [pc |-> "quote", from |-> a, seen |-> At(a), inputs |-> At(a), amount |-> 0, fee |-> 0]]
  /\ UNCHANGED <<chain, utxo, made, ledger>>

\* Outputs are taken in the order the node lists them until there is more than
\* the amount and the reserve.
Enough(coins, amount) == Total(coins) > amount + Reserve[chain]
Picks(coins, amount) ==
  {p \in SUBSET coins :
     \/ p = coins /\ \E c \in p : ~Enough(p \ {c}, amount)
     \/ Enough(p, amount) /\ \E c \in p : ~Enough(p \ {c}, amount)}

\* A withdrawal takes outputs of the master address.
ReadForWithdrawal(s) ==
  /\ Is(s, "idle")
  /\ \E amount \in Amount : \E p \in Picks(At(Master), amount) :
       request' = [request EXCEPT ![s] =
         [pc |-> IF Total(p) < amount THEN "refused" ELSE "quote",
          from |-> Master, seen |-> At(Master), inputs |-> p, amount |-> amount, fee |-> 0]]
  /\ UNCHANGED <<chain, utxo, made, ledger>>

\* What goes to the master address: the fee is all a sweep pays for.
Swept(coins, fee) == Total(coins) - fee

\* Mutant: a sweep is sent whatever its fee.
BugTooSmall(coins, fee) == FALSE

\* Without a floor, what would be sent is dust; on chains with one the builder of
\* the transaction throws if the inputs do not cover the fee.
TooSmall(coins, fee) ==
  \/ Swept(coins, fee) <= IF chain \in Gross THEN 0 ELSE Dust[chain]
  \/ chain \in Gross /\ Total(coins) < Floor

\* Where a request goes when its fee is known.
Quoted(r, fee) ==
  IF r.from # Master
  THEN IF TooSmall(r.inputs, fee) THEN "small" ELSE "send"
  ELSE IF Total(r.inputs) < r.amount + fee THEN "refused" ELSE "send"

Quote(s) ==
  /\ Is(s, "quote")
  /\ \E rate \in Rate[chain] :
       LET r   == request[s]
           fee == rate * (Cardinality(r.inputs) + 1)
       IN request' = [request EXCEPT ![s].pc = Quoted(r, fee), ![s].fee = fee]
  /\ UNCHANGED <<chain, utxo, made, ledger>>

\* Too little to sweep, or a withdrawal refused.
Answer(s) ==
  /\ Is(s, "small") \/ Is(s, "refused")
  /\ Done(s)
  /\ UNCHANGED <<chain, utxo, made, ledger>>

-----------------------------------------------------------------------------

Change(r) == Total(r.inputs) - r.amount - r.fee

\* Mutant: the change is not paid back.
BugOutputs(r) == IF r.from # Master THEN {Coin(made + 1, Master, Swept(r.inputs, r.fee))} ELSE {}

\* What a transaction pays to the master address.
Outputs(r) ==
  IF r.from # Master THEN {Coin(made + 1, Master, Swept(r.inputs, r.fee))}
  ELSE IF Change(r) > Dust[chain] THEN {Coin(made + 1, Master, Change(r))}
  ELSE {}

\* An input is spent: the broadcast throws.
Refuse(s) ==
  /\ ~(request[s].inputs \subseteq utxo)
  /\ Done(s)
  /\ UNCHANGED <<utxo, made>>

\* The transaction is taken; its sender may not learn of it.
Accept(s) ==
  LET r == request[s] IN
  /\ r.inputs \subseteq utxo /\ made < MaxCoins
  /\ utxo' = (utxo \ r.inputs) \cup Outputs(r)
  /\ made' = made + 1
  /\ \/ r.from # Master /\ request' = [request EXCEPT ![s].pc = "hook"]
     \/ Done(s)

Broadcast(s) ==
  /\ Is(s, "send")
  /\ Refuse(s) \/ Accept(s)
  /\ UNCHANGED <<chain, ledger>>

Credit(r) == IF chain \in Gross THEN Total(r.inputs) ELSE Swept(r.inputs, r.fee)

\* The webhook of a sweep, which may fail; the sweep is over either way.
Hook(s) ==
  /\ Is(s, "hook") /\ Done(s)
  /\ \/ credited' = [credited EXCEPT ![request[s].from] = @ + Credit(request[s])]
     \/ UNCHANGED credited
  /\ UNCHANGED <<chain, utxo, made, deposited>>

Deposit(a) ==
  /\ made < MaxCoins
  /\ \E v \in Value :
       /\ utxo' = utxo \cup {Coin(made + 1, a, v)}
       /\ deposited' = [deposited EXCEPT ![a] = @ + v]
  /\ made' = made + 1
  /\ UNCHANGED <<chain, credited, request>>

Step(s) ==
  \/ ReadForSweep(s) \/ ReadForWithdrawal(s) \/ Quote(s) \/ Answer(s) \/ Broadcast(s) \/ Hook(s)

Next == (\E s \in Slot : Step(s)) \/ \E a \in Child : Deposit(a)

Spec == Init /\ [][Next]_vars

-----------------------------------------------------------------------------

TypeOK ==
  /\ chain \in Chain
  /\ \A c \in utxo : c.id \in 1 .. made /\ c.at \in Address /\ c.value > 0
  /\ made \in 0 .. MaxCoins
  /\ deposited \in [Child -> Nat] /\ credited \in [Child -> Nat]
  /\ \A s \in Slot : request[s].pc \in {"idle", "quote", "small", "refused", "send", "hook"}

\* However sweeps of one address overlap, with deposits in between, its user is
\* never credited more than was paid in.
CreditsCovered == \A a \in Child : credited[a] <= deposited[a]

\* A withdrawal is refused only if the master address cannot pay for it, unless
\* the fee is more than the reserve the inputs were picked with; and what is
\* broadcast pays out what it takes, but for its fee and at most dust: change
\* comes back, however the inputs were picked.
InputsFit ==
  \A s \in Slot :
    LET r == request[s] IN
    /\ Is(s, "refused") => Total(r.seen) < r.amount + r.fee \/ r.fee > Reserve[chain]
    /\ Is(s, "send") =>
         Total(r.inputs) - Total(Outputs(r)) - r.amount - r.fee \in 0 .. Dust[chain]
=============================================================================
