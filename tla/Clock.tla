------------------------------- MODULE Clock -------------------------------
(***************************************************************************)
(* What only time puts right: staff accounts, whose cached copies run out  *)
(* (Staff, here Accounts), the users' addresses and the hourly run         *)
(* (Provisioning), the half-hourly run (SubAccountSweep) and the token     *)
(* that is replaced every twenty minutes (NombaToken).  They share no      *)
(* state, so each behaviour is one of a single part, chosen at the start.  *)
(***************************************************************************)
EXTENDS Provisioning

CONSTANTS
  Admin, Seeded, Slot, MaxInvites, DoubleAccept,   \* Staff
  Broken, MaxDeposits,                             \* SubAccountSweep
  Reader, Timer, Token,                            \* NombaToken: its slots and clock
  MaxCrashes                                       \* restarts in each part

ASSUME ClockAssumption ==
  /\ Seeded \subseteq Admin /\ MaxInvites \in Nat /\ DoubleAccept \in BOOLEAN
  /\ User # {} /\ Broken \subseteq User /\ MaxDeposits \in Nat
  /\ MaxCrashes \in Nat

VARIABLES
  part,
  staff, cache, links, signedIn, serving, restarts,
  balance, came, asking, sweepRunning, run, failed, crashes,
  tokens, reader, refused, stops

Accounts == INSTANCE Staff
Sweep    == INSTANCE SubAccountSweep
Nomba    == INSTANCE NombaToken WITH
              Slot <- Reader, Clock <- Timer,
              rows <- tokens, actor <- reader, failures <- refused, crashes <- stops

accounts == <<staff, cache, links, signedIn, serving, restarts>>
sweep    == <<balance, came, asking, sweepRunning, run, failed, crashes>>
nomba    == <<tokens, reader, refused, stops>>
allVars  == <<part, accounts, vars, sweep, nomba>>

AllInit ==
  /\ part \in {"accounts", "addresses", "sweep", "token"}
  /\ Accounts!Init /\ Init /\ Sweep!Init /\ Nomba!Init

InAccounts  == part = "accounts"  /\ UNCHANGED <<part, vars, sweep, nomba>>
InAddresses == part = "addresses" /\ UNCHANGED <<part, accounts, sweep, nomba>>
InSweep     == part = "sweep"     /\ UNCHANGED <<part, accounts, vars, nomba>>
InToken     == part = "token"     /\ UNCHANGED <<part, accounts, vars, sweep>>

AllNext ==
  \/ InAccounts /\ Accounts!Next
  \/ InAddresses /\ Next
  \/ InSweep /\ Sweep!Next
  \/ InToken /\ Nomba!Next

AllSpec == AllInit /\ [][AllNext]_allVars

AllTypesOK == TypeOK /\ Accounts!TypeOK /\ Sweep!TypeOK /\ Nomba!TypeOK

\* A disabled account comes back by updateStaffStatus alone.
SuspensionSticks == Accounts!SuspensionSticks

\* An account that stays disabled is in the end shut out for good.
SuspendedIsShutOut == Accounts!SuspendedIsShutOut

\* Who signs up has an address for every pair in the end.
AllProvisioned == part = "addresses" => Provisioned

\* Every deposit leaves its sub-account in the end.
EveryBalanceSwept == part = "sweep" => Sweep!EveryBalanceSwept

\* Generators of the token overlap, each deleting before it inserts, and a
\* restart may come in between: in the end there is a token again.
TokenComesBack == (part = "token" /\ tokens = {}) ~> tokens # {}
=============================================================================
