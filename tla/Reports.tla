------------------------------ MODULE Reports ------------------------------
(***************************************************************************)
(* The administrators' analytics (analytics.service): each report is a     *)
(* sequence of queries over users and transactions, outside any database   *)
(* transaction, while both go on changing.                                 *)
(*                                                                         *)
(* Time is counted in half-days, the first of which stands for the hour    *)
(* after midnight in Lagos, which is still the day before in UTC.          *)
(* Left out: names, pages, the order of rows, dollar amounts, commissions  *)
(* and the figures of the current day.                                     *)
(***************************************************************************)
EXTENDS Integers, FiniteSets, Sequences, FiniteSetsExt

CONSTANTS
  User, Tx,
  Country,     \* user -> country, "Unknown" without one
  Asset,       \* <<coin, network>> pairs in which users deposit
  Length,      \* period -> its days
  MaxDays,     \* the most days a daily report or a funnel spans
  LongDays,    \* the days cash flow and deposits go back by default
  MaxTime,     \* the last half-day
  MaxChanges,  \* changes of the tables
  Report       \* the reports an administrator asks for

Period  == DOMAIN Length
None    == "none"
NoDay   == -9
NoAsset == <<None, None>>
Absent  == [status |-> "absent"]

VARIABLES
  now,
  user,     \* user -> row
  tx,       \* transaction -> row
  desk,     \* the report in progress
  changes, steady

vars == <<now, user, tx, desk, changes, steady>>

LocalDay(t) == t \div 2
UtcDay(t)   == (t + 1) \div 2 - 1
Today       == LocalDay(now)

Visitor == [status |-> "absent"]
Idle    == [pc |-> "idle"]

Init ==
  /\ now = 2
  /\ user = [u \in User |-> Visitor]
  /\ tx = [x \in Tx |-> Absent]
  /\ desk = Idle
  /\ changes = 0 /\ steady = TRUE

-----------------------------------------------------------------------------
(* The tables change. *)

\* Soft deletion hides a user from every query on users, not their rows in
\* transactions.
Users == {u \in User : user[u].status = "active"}
Rows  == {x \in Tx : tx[x].status # "absent"}

Change ==
  /\ changes < MaxChanges
  /\ changes' = changes + 1
  /\ steady' = FALSE
  /\ UNCHANGED desk

SignUp(u) ==
  /\ user[u] = Visitor
  /\ user' = [user EXCEPT ![u] = [status |-> "active", at |-> now, kyc |-> None, emailed |-> FALSE]]
  /\ Change /\ UNCHANGED <<now, tx>>

VerifyEmail(u) ==
  /\ u \in Users /\ ~user[u].emailed
  /\ user' = [user EXCEPT ![u].emailed = TRUE]
  /\ Change /\ UNCHANGED <<now, tx>>

SetKyc(u, s) ==
  /\ u \in Users /\ user[u].emailed /\ user[u].kyc # s
  /\ user' = [user EXCEPT ![u].kyc = s]
  /\ Change /\ UNCHANGED <<now, tx>>

Delete(u) ==
  /\ u \in Users
  /\ user' = [user EXCEPT ![u].status = "deleted"]
  /\ Change /\ UNCHANGED <<now, tx>>

Insert(x, r) ==
  /\ tx[x] = Absent
  /\ r.user \in Users
  /\ tx' = [tx EXCEPT ![x] = r]
  /\ Change /\ UNCHANGED <<now, user>>

Deposit(x, u, asset) ==
  Insert(x, [status |-> "success", user |-> u, mode |-> "credit", type |-> "deposit",
             amount |-> 3, asset |-> asset, at |-> now])

\* A withdrawal or a bill is processing until it has succeeded or failed.
Spend(x, u) ==
  Insert(x, [status |-> "processing", user |-> u, mode |-> "debit", type |-> "withdrawal",
             amount |-> 1, asset |-> NoAsset, at |-> now])

Settle(x, s) ==
  /\ tx[x].status = "processing"
  /\ tx' = [tx EXCEPT ![x].status = s]
  /\ Change /\ UNCHANGED <<now, user>>

Pass ==
  /\ now < MaxTime
  /\ now' = now + 1
  /\ steady' = FALSE
  /\ UNCHANGED <<user, tx, desk, changes>>

-----------------------------------------------------------------------------
(* The queries. *)

Sum(S, f(_)) == SumFunction([s \in S |-> f(s)])

\* No bound at an end that is NoDay.
Inside(w, t) ==
  /\ (w.start = NoDay \/ w.start <= LocalDay(t))
  /\ (w.end = NoDay \/ LocalDay(t) <= w.end)

Joined(w)      == {u \in Users : Inside(w, user[u].at)}
Succeeded      == {x \in Rows : tx[x].status = "success"}
Credits        == {x \in Succeeded : tx[x].mode = "credit"}
Within(S, w)   == {x \in S : Inside(w, tx[x].at)}
Owners(S)      == {tx[x].user : x \in S}
Amounts(S)     == Sum(S, LAMBDA x : tx[x].amount)
Trades         == {x \in Succeeded : tx[x].type = "withdrawal"}
First(S)       == Min({tx[x].at : x \in S})
Of(S, u)       == {x \in S : tx[x].user = u}

\* What the application itself tells a user.
AccountBalance(u) ==
  Amounts({x \in Of(Rows, u) : tx[x].mode = "credit" /\ tx[x].status = "success"})
  - Amounts({x \in Of(Rows, u) : tx[x].mode = "debit" /\ tx[x].status \in {"success", "processing"}})

\* Mutant: what is processing still counts as the users'.
BugUsersBalance ==
  Amounts({x \in Rows : tx[x].mode = "credit" /\ tx[x].status = "success"})
  - Amounts({x \in Rows : tx[x].mode = "debit" /\ tx[x].status = "success"})

UsersBalance ==
  Amounts({x \in Rows : tx[x].mode = "credit" /\ tx[x].status = "success"})
  - Amounts({x \in Rows : tx[x].mode = "debit" /\ tx[x].status \in {"success", "processing"}})

TimeToTrade(w) ==
  LET traded == {u \in Joined(w) : Of(Trades, u) # {} /\ First(Of(Trades, u)) >= user[u].at}
  IN  [users |-> Cardinality(traded), total |-> Sum(traded, LAMBDA u : First(Of(Trades, u)) - user[u].at)]

\* Who came back within the days of the period after being funded first, among
\* those whose days are over; without a period, whoever came back.
Repeat(w, p) ==
  LET window   == IF p = None THEN None ELSE 2 * Length[p]
      measured == {u \in Joined(w) : /\ Of(Credits, u) # {}
                                     /\ (p = None \/ First(Of(Credits, u)) <= now - window)}
      back(u)  == \E x \in Of(Succeeded, u) :
                    /\ tx[x].at > First(Of(Credits, u))
                    /\ (p = None \/ tx[x].at <= First(Of(Credits, u)) + window)
  IN  [measured |-> Cardinality(measured), back |-> Cardinality({u \in measured : back(u)})]

\* Day -> what fell on it, for the days something did.
ByDay(S, day(_), figure(_)) ==
  [d \in {day(s) : s \in S} |-> figure({s \in S : day(s) = d})]

DayOfTx(x) == LocalDay(tx[x].at)
DayOfUser(u) == LocalDay(user[u].at)

CashFlow(w) ==
  ByDay(Within(Succeeded, w), LAMBDA x : UtcDay(tx[x].at),
        LAMBDA S : [inflow |-> Amounts(S \cap Credits), outflow |-> Amounts(S \ Credits)])

Deposits(w) == {x \in Within(Credits, w) : tx[x].type = "deposit"}

\* The last days to the instant, not from midnight.
Volume(days) ==
  ByDay({x \in Succeeded : tx[x].at >= now - 2 * days}, LAMBDA x : UtcDay(tx[x].at),
        LAMBDA S : [count |-> Cardinality(S), volume |-> Amounts(S)])

Answer(q, w, p) ==
  CASE q = "balance"      -> UsersBalance
    [] q = "funded"       -> Cardinality(Owners(Within(Credits, w)))
    [] q = "transacting"  -> Cardinality(Owners(Within(Succeeded, w)))
    [] q = "total"        -> Cardinality(Joined(w))
    [] q = "trade"        -> TimeToTrade(w)
    [] q = "repeat"       -> Repeat(w, p)
    [] q = "verified"     -> Cardinality({u \in Users : user[u].kyc = "success"})
    [] q = "count"        -> Cardinality(Owners(Within(Rows, w)))
    [] q = "rows"         -> [u \in Owners(Within(Rows, w)) \cap Users |->
                               [count  |-> Cardinality(Of(Within(Rows, w), u)),
                                volume |-> Amounts(Of(Within(Succeeded, w), u))]]
    [] q = "cash"         -> CashFlow(w)
    [] q = "coins"        -> [c \in {tx[x].asset[1] : x \in Deposits(w)} |->
                               Amounts({x \in Deposits(w) : tx[x].asset[1] = c})]
    [] q = "networks"     -> [a \in {tx[x].asset : x \in Deposits(w)} |->
                               Amounts({x \in Deposits(w) : tx[x].asset = a})]
    [] q = "top"          -> [u \in Owners(Deposits(w)) \cap Users |-> Amounts(Of(Deposits(w), u))]
    [] q = "volume"       -> Volume(LongDays)
    [] q = "activity"     -> ByDay(Within(Rows, w), DayOfTx,
                                   LAMBDA S : [users |-> Cardinality(Owners(S)), rows |-> Cardinality(S)])
    [] q = "signups"      -> ByDay(Joined(w), DayOfUser, Cardinality)
    [] q = "fundedDays"   -> ByDay(Within(Credits, w), DayOfTx, LAMBDA S : Cardinality(Owners(S)))
    [] q = "emailed"      -> Cardinality({u \in Joined(w) : user[u].emailed})
    [] q = "byKyc"        -> [k \in {user[u].kyc : u \in Joined(w)} |->
                               Cardinality({u \in Joined(w) : user[u].kyc = k})]
    [] q = "depositors"   -> Cardinality(Owners({x \in Credits : tx[x].type = "deposit"}) \cap Joined(w))
    [] q = "traders"      -> Cardinality(Owners(Trades) \cap Joined(w))
    [] q = "countries"    -> [c \in {Country[u] : u \in Users} |->
                               Cardinality({u \in Users : Country[u] = c})]
    [] q = "volumes"      -> [c \in {Country[u] : u \in Owners(Succeeded) \cap Users} |->
                               Amounts({x \in Succeeded : tx[x].user \in Users /\ Country[tx[x].user] = c})]

Queries ==
  [overview  |-> <<"balance", "funded", "transacting", "total", "trade", "repeat", "verified">>,
   perUser   |-> <<"count", "rows">>,
   cashFlow  |-> <<"cash">>,
   deposits  |-> <<"coins", "networks", "top">>,
   volume    |-> <<"volume">>,
   daily     |-> <<"activity", "signups", "fundedDays">>,
   funnel    |-> <<"total", "emailed", "byKyc", "depositors", "traders">>,
   locations |-> <<"countries", "volumes">>]

-----------------------------------------------------------------------------
(* A report: its window, then its queries. *)

\* Where the current day, week, month or year began.
PeriodStart(p) == (Today \div Length[p]) * Length[p]

Open == [start |-> NoDay, end |-> NoDay]
Span(from, to) == [start |-> from, end |-> to]
Or(day, default) == IF day = NoDay THEN default ELSE day

\* At most MaxDays days, both ends included.
Capped(from, to) ==
  LET end == Or(to, Today)
  IN  Span(Or(from, end - (MaxDays - 1)), end)

WindowOf(r, from, to, p) ==
  LET dated == from # NoDay \/ to # NoDay
  IN  CASE r = "overview" -> IF dated THEN Span(from, Or(to, Today))
                             ELSE IF p # None THEN Span(PeriodStart(p), NoDay) ELSE Open
        [] r = "perUser"  -> Span(PeriodStart(p), NoDay)
        [] r \in {"cashFlow", "deposits"} -> Span(Or(from, Today - LongDays), Or(to, Today))
        [] r = "daily"    -> Capped(from, to)
        [] r = "funnel"   -> IF dated \/ p = None THEN Capped(from, to)
                             ELSE IF p = "all" THEN Open ELSE Span(PeriodStart(p), Today)
        [] OTHER          -> Open

Refused(r, from, to, w) ==
  \/ /\ r \in {"overview", "daily", "funnel"}
     /\ w.start # NoDay /\ w.end # NoDay /\ w.start > w.end
  \/ /\ r = "daily" \/ (r = "funnel" /\ {from, to} # {NoDay})
     /\ w.end - w.start + 1 > MaxDays

Ask(r, from, to, p) ==
  /\ desk = Idle
  /\ r \in Report
  /\ r = "perUser" => p \in Period
  /\ p = "all" => r = "funnel"
  /\ LET w == WindowOf(r, from, to, p)
     IN  /\ ~Refused(r, from, to, w)
         /\ desk' = [pc |-> "reading", report |-> r, window |-> w,
                     period |-> IF r = "overview" THEN p ELSE None,
                     left |-> Queries[r], figures |-> << >>]
  /\ steady' = TRUE
  /\ UNCHANGED <<now, user, tx, changes>>

Read ==
  /\ desk.pc = "reading" /\ desk.left # << >>
  /\ LET q == Head(desk.left)
     IN  desk' = [desk EXCEPT !.left = Tail(@),
                              !.figures = [k \in DOMAIN @ \cup {q} |->
                                 IF k = q THEN Answer(q, desk.window, desk.period) ELSE @[k]]]
  /\ UNCHANGED <<now, user, tx, changes, steady>>

Reply ==
  /\ desk.pc = "reading" /\ desk.left = << >>
  /\ desk' = Idle /\ steady' = TRUE
  /\ UNCHANGED <<now, user, tx, changes>>

Next ==
  \/ \E u \in User :
       \/ SignUp(u) \/ VerifyEmail(u) \/ Delete(u)
       \/ \E s \in {"pending", "success", "failed"} : SetKyc(u, s)
       \/ \E x \in Tx : Spend(x, u) \/ \E asset \in Asset : Deposit(x, u, asset)
  \/ \E x \in Tx, s \in {"success", "failed"} : Settle(x, s)
  \/ \E r \in Report, from, to \in {NoDay} \cup (0..LocalDay(MaxTime)), p \in Period \cup {None, "all"} :
       Ask(r, from, to, p)
  \/ Pass \/ Read \/ Reply

Spec == Init /\ [][Next]_vars

-----------------------------------------------------------------------------
(* Properties. *)

Kyc == {None, "pending", "success", "failed"}

\* Every row is one the schema admits, and a reading report has a window.
TypeOK ==
  /\ now \in 0..MaxTime /\ changes \in 0..MaxChanges /\ steady \in BOOLEAN
  /\ \A u \in User :
       \/ user[u] = Visitor
       \/ /\ user[u].status \in {"active", "deleted"} /\ user[u].at \in 0..now
          /\ user[u].kyc \in Kyc /\ user[u].emailed \in BOOLEAN
  /\ \A x \in Tx :
       \/ tx[x] = Absent
       \/ /\ tx[x].status \in {"processing", "success", "failed"} /\ tx[x].user \in User
          /\ tx[x].at \in user[tx[x].user].at..now
  /\ desk # Idle => /\ desk.report \in Report
                    /\ DOMAIN desk.figures \cup {desk.left[i] : i \in DOMAIN desk.left}
                         = {Queries[desk.report][i] : i \in DOMAIN Queries[desk.report]}

Answered(r) == desk # Idle /\ desk.left = << >> /\ desk.report = r
Total(f)    == SumFunction(f)

\* The figures of a report agree with each other and with what the application
\* tells each user: the balances the overview adds up are those of the users;
\* what is shown by day, coin, network or KYC status adds up to what the window
\* holds, and no day of a daily report is outside the days it lists.  All but
\* the last is about a report during which nothing changed.
FiguresAgree ==
  /\ Answered("daily") =>
       \A q \in {"activity", "signups", "fundedDays"} :
         DOMAIN desk.figures[q] \subseteq desk.window.start..desk.window.end
  /\ steady /\ Answered("daily") =>
       LET active == desk.figures["activity"]
       IN  /\ Sum(DOMAIN active, LAMBDA d : active[d].rows) = Cardinality(Within(Rows, desk.window))
           /\ Total(desk.figures["signups"]) = Cardinality(Joined(desk.window))
           /\ \A d \in DOMAIN desk.figures["fundedDays"] :
                desk.figures["fundedDays"][d] <= active[d].users
  /\ steady /\ Answered("overview") =>
       /\ desk.figures["balance"] = Sum(User, AccountBalance)
       /\ desk.figures["funded"] <= desk.figures["transacting"]
       /\ desk.figures["repeat"].back <= desk.figures["repeat"].measured
  /\ steady /\ Answered("deposits") =>
       /\ Total(desk.figures["coins"]) = Total(desk.figures["networks"])
       /\ Total(desk.figures["top"]) <= Total(desk.figures["coins"])
  /\ steady /\ Answered("funnel") =>
       /\ Total(desk.figures["byKyc"]) = desk.figures["total"]
       /\ desk.figures["depositors"] <= desk.figures["total"]

\* What analytics.service says of the overview: pending KYC is "everyone who has
\* not completed KYC yet", among the users the overview counts.
PendingIsUnverified ==
  steady /\ Answered("overview") =>
    desk.figures["total"] - desk.figures["verified"]
      = Cardinality({u \in Joined(desk.window) : user[u].kyc # "success"})
=============================================================================
