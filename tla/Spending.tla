------------------------------ MODULE Spending ------------------------------
(***************************************************************************)
(* What is spent, by overlapping executions: bills at VTPass (Purchases)   *)
(* and the coins of the application on every chain (Treasury, UtxoWallets, *)
(* whose requests are named as the runs of the job).  They share no state, *)
(* so each behaviour is one of a single part, chosen at the start.         *)
(***************************************************************************)
EXTENDS Purchases, Sequences

CONSTANTS
  AccountChain, Evm, Unsure, ToppedUp, Net, Wallet, Token,   \* Treasury
  Cost, Buffer, Coins, Tokens, Value, Amount, MaxEvents,
  OutputChain, Gross, Floor, Dust, Reserve, Rate, Master,    \* UtxoWallets
  Child, MasterCoins, CoinValue, CoinAmount, MaxCoins

ASSUME SpendingAssumption == IsFiniteSet(Run)

ASSUME AccountsAssumption ==
  /\ Cost \subseteq Nat /\ Value \subseteq Nat /\ Amount \subseteq Nat
  /\ Buffer \in [AccountChain -> Nat]
  /\ Coins \in Nat /\ Tokens \in Nat /\ MaxEvents \in Nat

ASSUME OutputsAssumption ==
  /\ Dust \in [OutputChain -> Nat] /\ Reserve \in [OutputChain -> Nat]
  /\ Rate \in [OutputChain -> SUBSET Nat]
  /\ Master \notin Child
  /\ CoinValue \subseteq Nat \ {0} /\ CoinAmount \subseteq Nat
  /\ MaxCoins \in Nat
  /\ MasterCoins \in Seq(Nat \ {0}) /\ Len(MasterCoins) <= MaxCoins

VARIABLES
  part,
  chain, coins, tokens, funds, gas, deposited, credited, moved, deposits, asked,
  paid, rows, request,
  utxoChain, utxo, made, utxoDeposited, utxoCredited, utxoRequest

Accounts == INSTANCE Treasury WITH
  Chain <- AccountChain, Checked <- Evm, Child <- Wallet, Slot <- Run

Utxos == INSTANCE UtxoWallets WITH
  Chain <- OutputChain, Value <- CoinValue, Amount <- CoinAmount, Slot <- Run,
  chain <- utxoChain, deposited <- utxoDeposited, credited <- utxoCredited, request <- utxoRequest

accounts == <<chain, coins, tokens, funds, gas, deposited, credited, moved, deposits, asked,
              paid, rows, request>>
outputs  == <<utxoChain, utxo, made, utxoDeposited, utxoCredited, utxoRequest>>
allVars  == <<part, vars, accounts, outputs>>

AllInit ==
  /\ part \in {"bills", "accounts", "outputs"}
  /\ Init /\ Accounts!Init /\ Utxos!Init

AllNext ==
  \/ part = "bills" /\ Next /\ UNCHANGED <<part, accounts, outputs>>
  \/ part = "accounts" /\ Accounts!Next /\ UNCHANGED <<part, vars, outputs>>
  \/ part = "outputs" /\ Utxos!Next /\ UNCHANGED <<part, vars, accounts>>

AllSpec == AllInit /\ [][AllNext]_allVars

AllTypesOK == TypeOK /\ Accounts!TypeOK /\ Utxos!TypeOK

\* However sweeps of one address overlap, with deposits in between, its user is
\* never credited more than was paid in (on account chains but for the buffers
\* left behind and counted again, and where the outcome of a transfer is not
\* known).
ChainCreditsCovered == Accounts!CreditsCovered /\ Utxos!CreditsCovered

\* A withdrawal of an administrator is refused only for want of coins, unless
\* the fee is more than the reserve its inputs were picked with, its change comes
\* back, and it gets a row only if the chain has carried it out, though other
\* requests spend the same balance after it was looked at.
WithdrawalsHold == Accounts!RowsArePaid /\ Utxos!InputsFit
=============================================================================
