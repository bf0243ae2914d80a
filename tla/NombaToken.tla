----------------------------- MODULE NombaToken -----------------------------
(***************************************************************************)
(* The access token of Nomba, one row of a table that the clock replaces   *)
(* every twenty minutes and that whoever finds none replaces too           *)
(* (cron.job generateNombaAccessToken), in two statements: delete, insert. *)
(* Readers are the jobs (verifyTransactionJob, monitorProviderBalances),   *)
(* the users' requests (withdrawal, verifyAccountNumberFromNomba) and the  *)
(* list of banks (getBanksFromNomba).                                      *)
(*                                                                         *)
(* Left out: what is done with the token (Withdrawals), how long Nomba     *)
(* honours one, and the cache of the list of banks.                        *)
(***************************************************************************)
EXTENDS Naturals, FiniteSets

CONSTANTS
  Slot,        \* readers that may be in progress at the same time
  Clock,       \* the timer's own
  Token,
  MaxFailures, \* calls to Nomba that fail
  MaxCrashes   \* process restarts

Actor == Slot \cup {Clock}
None  == "none"

VARIABLES
  rows,     \* tokens in the table
  actor,
  failures, crashes

vars == <<rows, actor, failures, crashes>>

Kind == {"clock", "job", "user", "banks"}
Idle == [pc |-> "idle"]
Busy == [pc : {"issue", "delete", "save", "again", "call", "skip"},
         kind : Kind, token : Token \cup {None}]

Init ==
  /\ rows = {}
  /\ actor = [a \in Actor |-> Idle]
  /\ failures = 0 /\ crashes = 0

Is(a, pc) == actor[a].pc = pc
Done(a)   == actor' = [actor EXCEPT ![a] = Idle]
Begin(a, kind, pc, t) == actor' = [actor EXCEPT ![a] = [pc |-> pc, kind |-> kind, token |-> t]]

\* Mutant: the timer renews a token that is there.
BugTick ==
  /\ Is(Clock, "idle") /\ rows # {}
  /\ Begin(Clock, "clock", "issue", None)
  /\ UNCHANGED <<rows, failures, crashes>>

\* Every twenty minutes.
Tick ==
  /\ Is(Clock, "idle")
  /\ Begin(Clock, "clock", "issue", None)
  /\ UNCHANGED <<rows, failures, crashes>>

\* Any row will do; without one, a token is generated.
Read(a) ==
  /\ Is(a, "idle")
  /\ \E kind \in Kind \ {"clock"} :
       \/ \E t \in rows : Begin(a, kind, "call", t)
       \/ rows = {} /\ Begin(a, kind, "issue", None)
  /\ UNCHANGED <<rows, failures, crashes>>

-----------------------------------------------------------------------------
(* generateNombaAccessToken                                                *)

Unused == Token \ (rows \cup {actor[a].token : a \in {b \in Actor : ~Is(b, "idle")}})

\* A failure is thrown to the caller, which fails.
Issue(a) ==
  /\ Is(a, "issue")
  /\ \/ \E t \in Unused : Begin(a, actor[a].kind, "delete", t) /\ UNCHANGED failures
     \/ failures < MaxFailures /\ failures' = failures + 1 /\ Done(a)
  /\ UNCHANGED <<rows, crashes>>

\* The token is in hand before the old one goes.
Delete(a) ==
  /\ Is(a, "delete")
  /\ Begin(a, actor[a].kind, "save", actor[a].token)
  /\ rows' = {}
  /\ UNCHANGED <<failures, crashes>>

\* The answer of Nomba is returned as it came: its access_token is there, but the
\* token of a row, which the callers look for, is not.
Save(a) ==
  /\ Is(a, "save")
  /\ rows' = rows \cup {actor[a].token}
  /\ CASE actor[a].kind = "clock" -> Done(a)
       [] actor[a].kind = "job"   -> Begin(a, "job", "skip", None)
       [] actor[a].kind = "user"  -> Begin(a, "user", "call", None)
       [] actor[a].kind = "banks" -> Begin(a, "banks", "again", None)
  /\ UNCHANGED <<failures, crashes>>

-----------------------------------------------------------------------------

\* The list of banks looks into the table once more.
ReadAgain(a) ==
  /\ Is(a, "again")
  /\ \/ \E t \in rows : Begin(a, "banks", "call", t)
     \/ rows = {} /\ Done(a)
  /\ UNCHANGED <<rows, failures, crashes>>

\* A run is skipped, or Nomba is called with what there is.
Finish(a) ==
  /\ Is(a, "skip") \/ Is(a, "call")
  /\ Done(a)
  /\ UNCHANGED <<rows, failures, crashes>>

Crash ==
  /\ crashes < MaxCrashes
  /\ crashes' = crashes + 1
  /\ actor' = [a \in Actor |-> Idle]
  /\ UNCHANGED <<rows, failures>>

Step(a) == Issue(a) \/ Delete(a) \/ Save(a) \/ ReadAgain(a) \/ Finish(a)

Next == Tick \/ (\E a \in Slot : Read(a)) \/ (\E a \in Actor : Step(a)) \/ Crash

\* The timer, and the event loop.
FairSpec ==
  /\ Init /\ [][Next]_vars
  /\ WF_vars(Tick) /\ \A a \in Actor : WF_vars(Step(a))

-----------------------------------------------------------------------------

TypeOK ==
  /\ rows \subseteq Token
  /\ actor \in [Actor -> Busy \cup {Idle}]
  /\ failures \in 0 .. MaxFailures /\ crashes \in 0 .. MaxCrashes

\* Generators overlap, each deleting before it inserts, and a restart may come
\* in between: in the end there is a token again.
TokenComesBack == rows = {} ~> rows # {}

\* A job says that no token is available, and skips its run, only if there is none.
SkippedOnlyIfNone == \A a \in Slot : Is(a, "skip") => rows = {}
=============================================================================
