---------------------------- MODULE Provisioning ----------------------------
(***************************************************************************)
(* A user's wallets at Quidax: the sub-account and one deposit address per *)
(* currency and network.  They are asked for at sign-up, in the background *)
(* (auth.service setupQuidaxAccount), again by an hourly run for recent    *)
(* users (quidax-wallet.cron backfillNewUserWallets), and Quidax also      *)
(* sends each address by webhook (public.service                           *)
(* handleWalletAddressGenerated).  Nothing is locked.                      *)
(***************************************************************************)
EXTENDS Naturals

CONSTANTS
  User,
  Pair,          \* currencies with a network
  MaxAccounts,   \* sub-accounts Quidax makes for one user
  Window,        \* hourly runs that see a user: those of three hours
  MaxFailures,   \* disturbances: failed calls, restarts, missed runs
  Env            \* behaviours admitted beyond the ordinary ones

ASSUME ConstantsAssumption ==
  /\ MaxAccounts \in Nat /\ Window \in Nat /\ MaxFailures \in Nat
  /\ Env \subseteq {"overlap"}

\* "overlap" admits an hourly run while a sign-up is still being provisioned.

VARIABLES
  made,      \* how many sub-accounts Quidax has for a user
  quidaxId,  \* users.quidax_id
  rows,      \* wallet rows
  hooks,     \* wallet.address.generated on their way
  setup,     \* the sign-up's background work
  tick,      \* the hourly run
  age,       \* hours since the sign-up
  failures

vars == <<made, quidaxId, rows, hooks, setup, tick, age, failures>>

None == 0
Acct == 1 .. MaxAccounts   \* a user's sub-accounts by number
New  == "new"

Row   == [user : User, pair : Pair, acct : Acct]
Setup == [pc : {New, "make", "save", "ask", "store", "done"}, acct : Acct \cup {None}, got : SUBSET Pair]
Tick  == [pc : {"next", "make", "save", "look", "ask"}, todo : SUBSET User,
          copy : [User -> Acct \cup {None}], user : User, acct : Acct \cup {None}, missing : SUBSET Pair]
NoTick == [pc |-> "idle"]

Init ==
  /\ made = [u \in User |-> 0]
  /\ quidaxId = [u \in User |-> None]
  /\ rows = {} /\ hooks = {}
  /\ setup = [u \in User |-> [pc |-> New, acct |-> None, got |-> {}]]
  /\ tick = NoTick
  /\ age = [u \in User |-> 0]
  /\ failures = 0

Has(u, p)   == \E r \in rows : r.user = u /\ r.pair = p
AddRow(u, p, a) == rows' = rows \cup {[user |-> u, pair |-> p, acct |-> a]}
SignedUp(u) == setup[u].pc # New
Running(u)  == setup[u].pc \notin {New, "done"}
Fails       == failures < MaxFailures /\ failures' = failures + 1
Hook(u, p, a) == [user |-> u, pair |-> p, acct |-> a]

\* createSubAccount: Quidax makes another one for an email it knows.
MakeAccount(u) ==
  /\ made[u] < MaxAccounts
  /\ made' = [made EXCEPT ![u] = @ + 1]

-----------------------------------------------------------------------------
(* setupQuidaxAccount                                                      *)

SetupAt(u, pc)   == setup[u].pc = pc
SetupGoto(u, pc) == setup' = [setup EXCEPT ![u].pc = pc]

SignUp(u) ==
  /\ SetupAt(u, New)
  /\ "overlap" \in Env \/ tick = NoTick
  /\ SetupGoto(u, "make")
  /\ UNCHANGED <<made, quidaxId, rows, hooks, tick, age, failures>>

\* A failure ends the work; the account may have been made all the same.
SetupMake(u) ==
  /\ SetupAt(u, "make")
  /\ \/ /\ MakeAccount(u)
        /\ setup' = [setup EXCEPT ![u].pc = "save", ![u].acct = made[u] + 1]
        /\ UNCHANGED failures
     \/ /\ Fails /\ SetupGoto(u, "done")
        /\ MakeAccount(u) \/ UNCHANGED made
  /\ UNCHANGED <<quidaxId, rows, hooks, tick, age>>

SetupSave(u) ==
  /\ SetupAt(u, "save") /\ SetupGoto(u, "ask")
  /\ quidaxId' = [quidaxId EXCEPT ![u] = setup[u].acct]
  /\ UNCHANGED <<made, rows, hooks, tick, age, failures>>

\* createAllPaymentAddresses: a pair whose call fails, or is answered before
\* there is an address, is left out; a webhook follows wherever Quidax made one.
SetupAsk(u) ==
  /\ SetupAt(u, "ask")
  /\ \E got \in SUBSET Pair, sent \in SUBSET Pair :
       /\ got \subseteq sent
       /\ setup' = [setup EXCEPT ![u].pc = "store", ![u].got = got]
       /\ hooks' = hooks \cup {Hook(u, p, setup[u].acct) : p \in sent}
       /\ IF got = Pair THEN UNCHANGED failures ELSE Fails
  /\ UNCHANGED <<made, quidaxId, rows, tick, age>>

SetupStore(u) ==
  /\ SetupAt(u, "store")
  /\ \/ \E p \in setup[u].got :
          /\ IF Has(u, p) THEN UNCHANGED rows ELSE AddRow(u, p, setup[u].acct)
          /\ setup' = [setup EXCEPT ![u].got = @ \ {p}]
     \/ /\ setup[u].got = {} /\ SetupGoto(u, "done") /\ UNCHANGED rows
  /\ UNCHANGED <<made, quidaxId, hooks, tick, age, failures>>

-----------------------------------------------------------------------------
(* handleWalletAddressGenerated: for the user whose quidax_id it names.    *)
(* It misses a row whose currency is spelled in the other case.            *)

Deliver(h) ==
  /\ hooks' = hooks \ {h}
  /\ \/ quidaxId[h.user] = h.acct /\ AddRow(h.user, h.pair, h.acct)
     \/ (quidaxId[h.user] # h.acct \/ Has(h.user, h.pair)) /\ UNCHANGED rows
  /\ UNCHANGED <<made, quidaxId, setup, tick, age, failures>>

Lose(h) ==
  /\ hooks' = hooks \ {h}
  /\ UNCHANGED <<made, quidaxId, rows, setup, tick, age, failures>>

-----------------------------------------------------------------------------
(* backfillNewUserWallets                                                  *)

\* Mutant: the hour its comment speaks of.
BugInWindow(u) == SignedUp(u) /\ age[u] < 1

\* created_at is less than three hours ago.
InWindow(u) == SignedUp(u) /\ age[u] < Window

\* An hour passes for the users that still count.
Grow == age' = [u \in User |-> IF SignedUp(u) /\ age[u] < Window THEN age[u] + 1 ELSE age[u]]

\* The run reads the users with their quidax_id as it is now.
StartTick ==
  /\ tick = NoTick
  /\ "overlap" \in Env \/ \A u \in User : ~Running(u)
  /\ \E u \in User : InWindow(u)
  /\ tick' = [pc |-> "next", todo |-> {u \in User : InWindow(u)}, copy |-> quidaxId,
              user |-> CHOOSE u \in User : InWindow(u), acct |-> None, missing |-> {}]
  /\ Grow
  /\ UNCHANGED <<made, quidaxId, rows, hooks, setup, failures>>

\* The process is down when the hour strikes.
MissTick ==
  /\ tick = NoTick
  /\ \E u \in User : SignedUp(u) /\ age[u] < Window
  /\ Fails /\ Grow
  /\ UNCHANGED <<made, quidaxId, rows, hooks, setup, tick>>

TickAt(pc) == tick.pc = pc

\* Mutant: the stored quidax_id is not looked at.
BugNeedsAccount(u) == TRUE

NeedsAccount(u) == tick.copy[u] = None

NextUser ==
  /\ TickAt("next")
  /\ IF tick.todo = {}
     THEN tick' = NoTick
     ELSE \E u \in tick.todo :
            tick' = [tick EXCEPT !.user = u, !.todo = @ \ {u},
                       !.acct = IF NeedsAccount(u) THEN None ELSE tick.copy[u],
                       !.pc = IF NeedsAccount(u) THEN "make" ELSE "look"]
  /\ UNCHANGED <<made, quidaxId, rows, hooks, setup, age, failures>>

\* A refusal by Quidax goes on with the next user; no answer at all ends the
\* run, for the handler of the error reads the body of the answer.
TickMake ==
  /\ TickAt("make")
  /\ \/ /\ MakeAccount(tick.user)
        /\ tick' = [tick EXCEPT !.pc = "save", !.acct = made[tick.user] + 1]
        /\ UNCHANGED failures
     \/ /\ Fails
        /\ \/ tick' = [tick EXCEPT !.pc = "next"] /\ UNCHANGED made
           \/ tick' = NoTick /\ (MakeAccount(tick.user) \/ UNCHANGED made)
  /\ UNCHANGED <<quidaxId, rows, hooks, setup, age>>

TickSave ==
  /\ TickAt("save")
  /\ quidaxId' = [quidaxId EXCEPT ![tick.user] = tick.acct]
  /\ tick' = [tick EXCEPT !.pc = "look"]
  /\ UNCHANGED <<made, rows, hooks, setup, age, failures>>

TickLook ==
  /\ TickAt("look")
  /\ tick' = [tick EXCEPT !.pc = "ask", !.missing = {p \in Pair : ~Has(tick.user, p)}]
  /\ UNCHANGED <<made, quidaxId, rows, hooks, setup, age, failures>>

\* createPaymentAddress for a missing pair, and its row.
TickAsk ==
  /\ TickAt("ask")
  /\ \/ /\ tick.missing = {}
        /\ tick' = [tick EXCEPT !.pc = "next"]
        /\ UNCHANGED <<rows, hooks, failures>>
     \/ \E p \in tick.missing :
          /\ tick' = [tick EXCEPT !.missing = @ \ {p}]
          /\ \/ /\ AddRow(tick.user, p, tick.acct)
                /\ hooks' = hooks \cup {Hook(tick.user, p, tick.acct)}
                /\ UNCHANGED failures
             \/ /\ Fails
                /\ hooks' \in {hooks, hooks \cup {Hook(tick.user, p, tick.acct)}}
                /\ UNCHANGED rows
  /\ UNCHANGED <<made, quidaxId, setup, age>>

Crash ==
  /\ Fails
  /\ tick' = NoTick
  /\ setup' = [u \in User |-> IF Running(u) THEN [setup[u] EXCEPT !.pc = "done", !.got = {}] ELSE setup[u]]
  /\ UNCHANGED <<made, quidaxId, rows, hooks, age>>

SetupStep(u) == SetupMake(u) \/ SetupSave(u) \/ SetupAsk(u) \/ SetupStore(u)
TickStep     == NextUser \/ TickMake \/ TickSave \/ TickLook \/ TickAsk

Next ==
  \/ \E u \in User : SignUp(u) \/ SetupStep(u)
  \/ \E h \in hooks : Deliver(h) \/ Lose(h)
  \/ StartTick \/ TickStep
  \/ MissTick \/ Crash

Spec == Init /\ [][Next]_vars

\* Work goes on and the clock does.
FairSpec ==
  /\ Spec
  /\ \A u \in User : WF_vars(SetupStep(u))
  /\ WF_vars(StartTick) /\ WF_vars(TickStep)

-----------------------------------------------------------------------------

TypeOK ==
  /\ made \in [User -> 0 .. MaxAccounts]
  /\ quidaxId \in [User -> Acct \cup {None}]
  /\ rows \subseteq Row /\ hooks \subseteq Row
  /\ setup \in [User -> Setup]
  /\ tick \in Tick \cup {NoTick}
  /\ age \in [User -> 0 .. Window]
  /\ failures \in 0 .. MaxFailures

\* Every deposit address the application shows belongs to the sub-account in
\* users.quidax_id, the one that is swept, although three handlers write rows,
\* answers get lost after an account was made, and a run works on a copy of the
\* quidax_id.
RowsPayIn == \A r \in rows : r.acct = quidaxId[r.user]

\* A user who signs up has an address for every pair in the end, whatever two
\* failures spoil: his own provisioning, a restart, an hour's run, or another
\* user's call that ends it.
Provisioned == \A u \in User : SignedUp(u) ~> \A p \in Pair : Has(u, p)
=============================================================================
