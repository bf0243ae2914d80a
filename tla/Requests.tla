------------------------------ MODULE Requests ------------------------------
(***************************************************************************)
(* Where requests overlap and restarts cut them off: disposable wallets    *)
(* (DisposableWallets), what opens an account (Credentials), identity      *)
(* verification (Kyc) and the administrators' reports (Reports).  They     *)
(* share no state, so each behaviour is one of a single part, chosen at    *)
(* the start.                                                              *)
(***************************************************************************)
EXTENDS DisposableWallets

CONSTANTS
  Account, MaxCodes,                                \* Credentials
  User, Bvn, ExcerptOf, Matches, MaxStops, KycEnv,  \* Kyc: its restarts and behaviours
  Tx, Country, Asset, Length, MaxDays, LongDays,    \* Reports, about the same users
  MaxTime, MaxChanges, Report

ASSUME RequestsAssumption ==
  /\ MaxCodes \in Nat
  /\ Bvn # {} /\ MaxStops \in Nat /\ KycEnv \subseteq {"sameBvn"}
  /\ MaxTime \in Nat \ {0, 1} /\ MaxChanges \in Nat

VARIABLES
  part,
  row, drawn, mailed, late, deletion, asking, session, spent,
  status, image, records, asked, declined, stops,
  now, user, entry, desk, changes, steady

C == INSTANCE Credentials WITH User <- Account, request <- asking
K == INSTANCE Kyc WITH MaxCrashes <- MaxStops, Env <- KycEnv
R == INSTANCE Reports WITH tx <- entry

ASSUME ReportsAssumption ==
  /\ Report \subseteq DOMAIN R!Queries
  /\ IsFiniteSet(User) /\ IsFiniteSet(Tx) /\ MaxDays \in Nat

credentials == <<row, drawn, mailed, late, deletion, asking, session, spent>>
kyc         == <<status, image, records, asked, declined, stops>>
reports     == <<now, user, entry, desk, changes, steady>>
allVars     == <<part, vars, credentials, kyc, reports>>

AllInit ==
  /\ part \in {"wallets", "credentials", "kyc", "reports"}
  /\ Init /\ C!Init /\ K!Init /\ R!Init

AllNext ==
  \/ part = "wallets" /\ Next /\ UNCHANGED <<part, credentials, kyc, reports>>
  \/ part = "credentials" /\ C!Next /\ UNCHANGED <<part, vars, kyc, reports>>
  \/ part = "kyc" /\ K!Next /\ UNCHANGED <<part, vars, credentials, reports>>
  \/ part = "reports" /\ R!Next /\ UNCHANGED <<part, vars, credentials, kyc>>

AllSpec == AllInit /\ [][AllNext]_allVars

AllTypesOK == TypeOK /\ C!TypeOK /\ K!TypeOK /\ R!TypeOK

\* A code that has opened something is never accepted again, and only a verified
\* email address gets a session.
CodesHold == C!SpentStaysSpent /\ C!SessionIsVerified

\* A deleted account stays deleted, and no later request on it is carried out.
DeletedIsOver == C!DeletedIsOver

\* A BVN verifies one user only.
OneUserPerBvn == K!OneUserPerBvn

\* A verification is lost only to an administrator who declines, or to a document
\* sent in before it; none is granted without evidence, no BVN recorded in vain.
VerifiedIsNotLost == K!VerifiedIsNotLost

\* The figures of a report agree with each other, with its window and with what
\* the application tells each user.
FiguresAgree == R!FiguresAgree
=============================================================================
