---------------------------- MODULE Credentials ----------------------------
(***************************************************************************)
(* What opens a user's account: the session, the one code column           *)
(* (remember_token with token_created_at) that email verification,         *)
(* password reset, MFA login, PIN change and password change share, and    *)
(* the account's deletion (auth.service.ts, users.service.ts,              *)
(* auth.guard.ts).  resendVerificationToken has no caller and no action.   *)
(*                                                                         *)
(* A request stands between two awaits and goes on with the row as it read *)
(* it.  Codes are numbered in the order they are drawn; two codes of one   *)
(* user are taken to differ.  Passwords and PINs are right or wrong.       *)
(***************************************************************************)
EXTENDS Naturals

CONSTANTS
  User,      \* accounts, by email address
  Slot,      \* requests that may be in progress at the same time
  MaxCodes   \* codes drawn per user

VARIABLES
  row,       \* the users row
  drawn,     \* how many codes were drawn for a user
  mailed,    \* the codes a mail was sent with
  late,      \* the codes whose write forgotPassword does not await
  deletion,  \* whose deletion request is in the cache
  request,   \* the requests in progress
  session,   \* the users holding a session
  spent      \* observer: the codes that have opened something

vars == <<row, drawn, mailed, late, deletion, request, session, spent>>

Code == 1 .. MaxCodes
None == 0

Row == [exists : BOOLEAN, active : BOOLEAN, deleted : BOOLEAN, verified : BOOLEAN,
        mfa : BOOLEAN, slot : Code \cup {None}, fresh : BOOLEAN]

NoRow == [exists |-> FALSE, active |-> FALSE, deleted |-> FALSE, verified |-> FALSE,
          mfa |-> FALSE, slot |-> None, fresh |-> FALSE]

\* Operations behind AuthGuard, those that are given a code, and the others.
\* "otp" asks for a code to change the PIN or the password with, "change" is
\* that change.
Guarded   == {"otp", "change", "askDeletion", "confirmDeletion", "mfa"}
WithCode  == {"verify", "verifyMfa", "reset", "change"}
Operation == Guarded \cup WithCode \cup {"signup", "login", "googleLogin", "forgot", "status"}

\* The code of a request is the one it was given, or has drawn and has yet to
\* mail.  It also remembers whether, when it arrived, the code it was given had
\* been spent (reused) and the account had been deleted (over).
Copied  == [verified : BOOLEAN, mfa : BOOLEAN]
Request == [op : Operation, user : User, given : Code \cup {None},
            pc : {"read", "hash", "write", "after"}, copy : Copied,
            reused : BOOLEAN, over : BOOLEAN]
NotRead   == [verified |-> FALSE, mfa |-> FALSE]
NoRequest == [pc |-> "idle"]

Init ==
  /\ row = [u \in User |-> NoRow]
  /\ drawn = [u \in User |-> 0]
  /\ mailed = [u \in User |-> {}]
  /\ late = [u \in User |-> {}]
  /\ deletion = {}
  /\ request = [s \in Slot |-> NoRequest]
  /\ session = {}
  /\ spent = [u \in User |-> {}]

\* Mutant: queries see deleted rows too.
BugVisible(r) == r.exists

\* Rows the repositories' queries see: not soft-deleted.
Visible(r) == r.exists /\ ~r.deleted

At(s, pc)   == request[s].pc = pc
Does(s, op) == request[s].pc # "idle" /\ request[s].op = op
Owner(s)    == request[s].user
Copy(s)     == request[s].copy
Goto(s, pc) == request' = [request EXCEPT ![s].pc = pc]
Finish(s)   == request' = [request EXCEPT ![s] = NoRequest]

\* A request arrives and passes its guard: AuthGuard wants a session and a
\* visible, active row, UserLoginGuard a visible row.
Arrive(s) ==
  /\ At(s, "idle")
  /\ \E u \in User, op \in Operation :
       /\ op \in Guarded => u \in session /\ Visible(row[u]) /\ row[u].active
       /\ op \in {"login", "googleLogin"} => Visible(row[u])
       /\ \E c \in IF op \in WithCode THEN mailed[u] ELSE {None} :
            request' = [request EXCEPT ![s] =
              [op |-> op, user |-> u, given |-> c, pc |-> IF op = "otp" THEN "write" ELSE "read",
               copy |-> NotRead, reused |-> c \in spent[u], over |-> row[u].deleted]]
  /\ UNCHANGED <<row, drawn, mailed, late, deletion, session, spent>>

\* The conditions each operation checks on the row it reads.
Passes(op, r, given) ==
  CASE op = "signup"         -> ~Visible(r)
    [] op = "verify"         -> Visible(r) /\ ~r.verified /\ r.slot = given
    [] op = "verifyMfa"      -> Visible(r) /\ r.slot = given /\ r.fresh
    [] op = "reset"          -> Visible(r) /\ r.slot = given
    [] op = "change"         -> Visible(r) /\ r.slot = given /\ r.fresh
    [] op \in {"login", "googleLogin"} -> Visible(r) /\ r.active
    [] OTHER                 -> Visible(r)

\* Operations with a bcrypt call, or another await, between read and write.
Hashes == {"login", "reset", "change", "askDeletion", "confirmDeletion"}

\* The fields of the row that are used after the read.
CopyFor(op, r) == [verified |-> op \in {"login", "googleLogin"} /\ r.verified,
                   mfa      |-> op \in {"login", "mfa"} /\ r.mfa]

Read(s) ==
  /\ At(s, "read") /\ ~Does(s, "forgot")
  /\ IF Passes(request[s].op, row[Owner(s)], request[s].given)
     THEN request' = [request EXCEPT ![s].copy = CopyFor(request[s].op, row[Owner(s)]),
                                     ![s].pc = IF request[s].op \in Hashes THEN "hash" ELSE "write"]
     ELSE Finish(s)
  /\ UNCHANGED <<row, drawn, mailed, late, deletion, session, spent>>

\* forgotPassword: read, then the mail is sent while the write is under way.
Forgot(s) ==
  /\ At(s, "read") /\ Does(s, "forgot")
  /\ \/ /\ Visible(row[Owner(s)]) /\ drawn[Owner(s)] < MaxCodes
        /\ LET u == Owner(s)
               c == drawn[u] + 1
           IN /\ drawn' = [drawn EXCEPT ![u] = c]
              /\ mailed' = [mailed EXCEPT ![u] = @ \cup {c}]
              /\ late' = [late EXCEPT ![u] = @ \cup {c}]
     \/ UNCHANGED <<drawn, mailed, late>>
  /\ Finish(s)
  /\ UNCHANGED <<row, deletion, session, spent>>

LateWrite(u) ==
  /\ \E c \in late[u] :
       /\ row' = [row EXCEPT ![u].slot = c]
       /\ late' = [late EXCEPT ![u] = @ \ {c}]
  /\ UNCHANGED <<drawn, mailed, deletion, request, session, spent>>

\* The secret was right, or a deletion request is found; or not.
Hash(s) ==
  /\ At(s, "hash")
  /\ \/ /\ Does(s, "confirmDeletion") => Owner(s) \in deletion
        /\ Goto(s, "write")
     \/ /\ ~Does(s, "reset")
        /\ Finish(s)
  /\ UNCHANGED <<row, drawn, mailed, late, deletion, session, spent>>

\* Draws the next code, which is mailed after it is written.
DrawCode(s) ==
  LET u == Owner(s) IN
  /\ drawn[u] < MaxCodes
  /\ drawn' = [drawn EXCEPT ![u] = @ + 1]
  /\ request' = [request EXCEPT ![s].given = drawn[u] + 1, ![s].pc = "after"]

WriteCode(s) ==
  /\ At(s, "write")
  /\ Does(s, "otp") \/ (Does(s, "login") /\ Copy(s).mfa)
  /\ DrawCode(s)
  /\ row' = [row EXCEPT ![Owner(s)].slot = drawn[Owner(s)] + 1, ![Owner(s)].fresh = TRUE]
  /\ UNCHANGED <<mailed, late, deletion, session, spent>>

\* createAccount: the unique index on email also counts deleted rows.  A Google
\* account is verified and gets no code.
SignUp(s) ==
  LET u == Owner(s) IN
  /\ At(s, "write") /\ Does(s, "signup")
  /\ IF row[u].exists
     THEN Finish(s) /\ UNCHANGED <<row, drawn>>
     ELSE \/ /\ row' = [row EXCEPT ![u] = [NoRow EXCEPT !.exists = TRUE, !.active = TRUE, !.verified = TRUE]]
             /\ Finish(s) /\ UNCHANGED drawn
          \/ /\ DrawCode(s)
             /\ row' = [row EXCEPT ![u] = [NoRow EXCEPT !.exists = TRUE, !.active = TRUE, !.slot = drawn[u] + 1]]
  /\ UNCHANGED <<mailed, late, deletion, session, spent>>

\* The mail with the code the request has written, which may not be the row's
\* any more.
SendCode(s) ==
  /\ At(s, "after") /\ ~Does(s, "confirmDeletion")
  /\ mailed' = [mailed EXCEPT ![Owner(s)] = @ \cup {request[s].given}]
  /\ Finish(s)
  /\ UNCHANGED <<row, drawn, late, deletion, session, spent>>

Write(s, op) == At(s, "write") /\ Does(s, op) /\ Finish(s) /\ UNCHANGED <<drawn, mailed, late, deletion>>
Spend(s)     == spent' = [spent EXCEPT ![Owner(s)] = @ \cup {request[s].given}]

\* Mutant: the verified row keeps its code.
BugVerify(s) ==
  /\ Write(s, "verify") /\ Spend(s)
  /\ row' = [row EXCEPT ![Owner(s)].verified = TRUE]
  /\ UNCHANGED session

Verify(s) ==
  /\ Write(s, "verify") /\ Spend(s)
  /\ row' = [row EXCEPT ![Owner(s)].verified = TRUE, ![Owner(s)].slot = None]
  /\ UNCHANGED session

\* verifyMfaLogin looks neither at the status nor at the verification.
VerifyMfa(s) ==
  /\ Write(s, "verifyMfa") /\ Spend(s)
  /\ row' = [row EXCEPT ![Owner(s)].slot = None, ![Owner(s)].fresh = FALSE]
  /\ session' = session \cup {Owner(s)}

\* A reset leaves token_created_at as it is.
ResetPassword(s) ==
  /\ Write(s, "reset") /\ Spend(s)
  /\ row' = [row EXCEPT ![Owner(s)].slot = None]
  /\ UNCHANGED session

Change(s) ==
  /\ Write(s, "change") /\ Spend(s)
  /\ row' = [row EXCEPT ![Owner(s)].slot = None, ![Owner(s)].fresh = FALSE]
  /\ UNCHANGED session

\* updateMfa writes the opposite of what it read.
ToggleMfa(s) ==
  /\ Write(s, "mfa")
  /\ row' = [row EXCEPT ![Owner(s)].mfa = ~Copy(s).mfa]
  /\ UNCHANGED <<session, spent>>

\* updateUserStatus of an administrator.
ToggleStatus(s) ==
  /\ Write(s, "status")
  /\ \E active \in BOOLEAN : row' = [row EXCEPT ![Owner(s)].active = active]
  /\ UNCHANGED <<session, spent>>

\* A login that needs no code: the session is given to a verified copy only.
LogIn(s) ==
  /\ Write(s, "googleLogin") \/ (Write(s, "login") /\ ~Copy(s).mfa)
  /\ session' = IF Copy(s).verified THEN session \cup {Owner(s)} ELSE session
  /\ UNCHANGED <<row, spent>>

AskDeletion(s) ==
  /\ At(s, "write") /\ Does(s, "askDeletion") /\ Finish(s)
  /\ deletion' = deletion \cup {Owner(s)}
  /\ UNCHANGED <<row, drawn, mailed, late, session, spent>>

\* Soft-deletes the row, then drops the request from the cache.
ConfirmDeletion(s) ==
  /\ At(s, "write") /\ Does(s, "confirmDeletion") /\ Goto(s, "after")
  /\ row' = [row EXCEPT ![Owner(s)].deleted = TRUE]
  /\ UNCHANGED <<drawn, mailed, late, deletion, session, spent>>

DropDeletion(s) ==
  /\ At(s, "after") /\ Does(s, "confirmDeletion") /\ Finish(s)
  /\ deletion' = deletion \ {Owner(s)}
  /\ UNCHANGED <<row, drawn, mailed, late, session, spent>>

-----------------------------------------------------------------------------

\* cancelAccountDeletion, or the cache entry has expired.
EndDeletion(u) ==
  /\ deletion' = deletion \ {u}
  /\ UNCHANGED <<row, drawn, mailed, late, request, session, spent>>

\* Fifteen minutes after token_created_at.
Elapse(u) ==
  /\ row[u].fresh
  /\ row' = [row EXCEPT ![u].fresh = FALSE]
  /\ UNCHANGED <<drawn, mailed, late, deletion, request, session, spent>>

\* The process restarts: requests and late writes are gone, Redis is not.
Crash ==
  /\ request' = [s \in Slot |-> NoRequest]
  /\ late' = [u \in User |-> {}]
  /\ UNCHANGED <<row, drawn, mailed, deletion, session, spent>>

Step(s) ==
  \/ Arrive(s) \/ Read(s) \/ Forgot(s) \/ Hash(s) \/ WriteCode(s) \/ SignUp(s) \/ SendCode(s)
  \/ Verify(s) \/ VerifyMfa(s) \/ ResetPassword(s) \/ Change(s) \/ ToggleMfa(s)
  \/ ToggleStatus(s) \/ LogIn(s) \/ AskDeletion(s) \/ ConfirmDeletion(s) \/ DropDeletion(s)

Next ==
  \/ \E s \in Slot : Step(s)
  \/ \E u \in User : LateWrite(u) \/ EndDeletion(u) \/ Elapse(u)
  \/ Crash

Spec == Init /\ [][Next]_vars

-----------------------------------------------------------------------------

TypeOK ==
  /\ row \in [User -> Row]
  /\ drawn \in [User -> 0 .. MaxCodes]
  /\ mailed \in [User -> SUBSET Code] /\ late \in [User -> SUBSET Code]
  /\ deletion \subseteq User /\ session \subseteq User
  /\ request \in [Slot -> Request \cup {NoRequest}]
  /\ spent \in [User -> SUBSET Code]

Past(s) == request[s].pc \in {"hash", "write", "after"}

\* A code that has verified, logged in, reset or changed something is never
\* accepted again: no request that brings it after that gets past its check,
\* although five operations share one column, forgotPassword writes it without
\* waiting, and the older code of two may be written last.
SpentStaysSpent == \A s \in Slot : Past(s) => ~request[s].reused

\* Only a verified email address ever gets a session, although the code step of
\* an MFA login (verifyMfaLogin) looks at the code alone and the code that
\* verifies an address stands in the same column.
SessionIsVerified == \A u \in session : row[u].verified

\* A deleted account is over: no request that arrives later is carried out but a
\* sign-up, which the unique email turns down, and the row stays deleted.
DeletedIsOver ==
  /\ [](\A s \in Slot : Past(s) /\ request[s].over => request[s].op = "signup")
  /\ [][\A u \in User : row[u].deleted => row'[u].deleted]_vars
=============================================================================
