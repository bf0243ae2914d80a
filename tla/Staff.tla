------------------------------- MODULE Staff -------------------------------
(***************************************************************************)
(* Staff accounts (administrator.service.ts, admin-auth.service.ts,        *)
(* admin-auth.guard.ts): invitation by a link, login, enabling and         *)
(* disabling, and the copy of each account in the Redis cache by which     *)
(* every request of a member of staff is let in.                           *)
(***************************************************************************)
EXTENDS Naturals

CONSTANTS
  Admin,         \* the administrators table's possible rows
  Seeded,        \* those there, and active, from the start
  Slot,          \* requests that may be in progress at the same time
  MaxInvites,    \* links made per account
  MaxCrashes,    \* process restarts
  DoubleAccept   \* whether one link may be opened twice at the same time

VARIABLES
  staff,     \* the administrators rows
  cache,     \* status in the cached copy under admin:<id>
  links,     \* the links that were mailed
  signedIn,  \* who holds a token; a token is never revoked
  serving,   \* the requests in progress
  restarts

vars == <<staff, cache, links, signedIn, serving, restarts>>

Status == {"none", "pending", "active", "suspend"}
Link   == [who : Admin, n : 1 .. MaxInvites]
Member == [status : Status, invite : 0 .. MaxInvites, made : 0 .. MaxInvites, expired : BOOLEAN]

\* A request: where it stands, whom it is about, the status it has read or is
\* to set, the link it has made.  Idle requests are at "idle".
Pc      == {"load", "fill", "handle", "set", "create", "resend", "mail", "drop", "accept", "login"}
Request == [pc : Pc, who : Admin, status : Status, link : 0 .. MaxInvites]
Idle    == [pc |-> "idle"]

Init ==
  /\ staff = [a \in Admin |-> [status |-> IF a \in Seeded THEN "active" ELSE "none",
                               invite |-> 0, made |-> 0, expired |-> FALSE]]
  /\ cache = [a \in Admin |-> "none"]
  /\ links = {}
  /\ signedIn = {}
  /\ serving = [s \in Slot |-> Idle]
  /\ restarts = 0

At(s, pc)   == serving[s].pc = pc
Who(s)      == serving[s].who
Goto(s, pc) == serving' = [serving EXCEPT ![s].pc = pc]
Done(s)     == serving' = [serving EXCEPT ![s] = Idle]
Begin(s, pc, a, status) ==
  serving' = [serving EXCEPT ![s] = [pc |-> pc, who |-> a, status |-> status, link |-> 0]]

-----------------------------------------------------------------------------
(* AdminAuthGuard and getWithId: the cache, else the row, which is put     *)
(* into the cache one await later.                                         *)

\* Let in with an active copy, and otherwise signed out.
LetIn(s, a, status) ==
  IF status = "active"
  THEN Begin(s, "handle", a, "none") /\ UNCHANGED signedIn
  ELSE Done(s) /\ signedIn' = signedIn \ {a}

Arrive(s) ==
  /\ At(s, "idle")
  /\ \E a \in signedIn :
       IF cache[a] = "none"
       THEN Begin(s, "load", a, "none") /\ UNCHANGED signedIn
       ELSE LetIn(s, a, cache[a])
  /\ UNCHANGED <<staff, cache, links, restarts>>

Load(s) ==
  /\ At(s, "load")
  /\ Begin(s, "fill", Who(s), staff[Who(s)].status)
  /\ UNCHANGED <<staff, cache, links, signedIn, restarts>>

Fill(s) ==
  /\ At(s, "fill")
  /\ cache' = [cache EXCEPT ![Who(s)] = serving[s].status]
  /\ LetIn(s, Who(s), serving[s].status)
  /\ UNCHANGED <<staff, links, restarts>>

-----------------------------------------------------------------------------
(* The handlers.  Each reads the row it is about and writes it one await   *)
(* later.                                                                  *)

\* updateStaffStatus, createStaff, resendStaffInvite, updateProfile (whose names
\* and addresses are left out), or an input that is refused.
Handle(s) ==
  /\ At(s, "handle")
  /\ \/ \E a \in Admin :
          \/ /\ staff[a].status \in {"active", "suspend"} /\ a # Who(s)
             /\ \E new \in {"active", "suspend"} : Begin(s, "set", a, new)
          \/ staff[a].status = "none"    /\ Begin(s, "create", a, "none")
          \/ staff[a].status = "pending" /\ Begin(s, "resend", a, "none")
     \/ Begin(s, "drop", Who(s), "none")
     \/ Done(s)
  /\ UNCHANGED <<staff, cache, links, signedIn, restarts>>

\* AdminLoginGuard lets active accounts in; the password is right.
AskLogIn(s) ==
  /\ At(s, "idle")
  /\ \E a \in Admin : staff[a].status = "active" /\ Begin(s, "login", a, "none")
  /\ UNCHANGED <<staff, cache, links, signedIn, restarts>>

\* Mutant: the link speaks for itself, the stored invitation is not consulted.
BugResolves(l) == staff[l.who].made >= l.n

\* findByInviteToken.
Resolves(l) ==
  staff[l.who].invite = l.n /\ staff[l.who].status = "pending" /\ ~staff[l.who].expired

OpenLink(s) ==
  /\ At(s, "idle")
  /\ \E l \in links :
       /\ DoubleAccept \/ \A t \in Slot : At(t, "accept") => Who(t) # l.who
       /\ Resolves(l) /\ Begin(s, "accept", l.who, "none")
  /\ UNCHANGED <<staff, cache, links, signedIn, restarts>>

\* A new link takes the place of the old one and restarts the 48 hours.  The
\* unique email lets one of two creations through.
Invite(s) ==
  LET m == staff[Who(s)] IN
  /\ At(s, "create") \/ At(s, "resend")
  /\ m.made < MaxInvites
  /\ IF At(s, "create") /\ m.status # "none"
     THEN Done(s) /\ UNCHANGED staff
     ELSE /\ staff' = [staff EXCEPT ![Who(s)] =
                         [status |-> IF At(s, "create") THEN "pending" ELSE m.status,
                          invite |-> m.made + 1, made |-> m.made + 1, expired |-> FALSE]]
          /\ serving' = [serving EXCEPT ![s].pc = "mail", ![s].link = m.made + 1]
  /\ UNCHANGED <<cache, links, signedIn, restarts>>

\* Sent, or it failed and the account stays as saved.
Mail(s) ==
  /\ At(s, "mail") /\ Done(s)
  /\ links' \in {links, links \cup {[who |-> Who(s), n |-> serving[s].link]}}
  /\ UNCHANGED <<staff, cache, signedIn, restarts>>

Accept(s) ==
  /\ At(s, "accept") /\ Done(s)
  /\ staff' = [staff EXCEPT ![Who(s)].status = "active", ![Who(s)].invite = 0]
  /\ UNCHANGED <<cache, links, signedIn, restarts>>

LogIn(s) ==
  /\ At(s, "login") /\ Done(s)
  /\ signedIn' = signedIn \cup {Who(s)}
  /\ UNCHANGED <<staff, cache, links, restarts>>

SetStatus(s) ==
  /\ At(s, "set") /\ Begin(s, "drop", Who(s), "none")
  /\ staff' = [staff EXCEPT ![Who(s)].status = serving[s].status]
  /\ UNCHANGED <<cache, links, signedIn, restarts>>

DropCached(s) ==
  /\ At(s, "drop") /\ Done(s)
  /\ cache' = [cache EXCEPT ![Who(s)] = "none"]
  /\ UNCHANGED <<staff, links, signedIn, restarts>>

-----------------------------------------------------------------------------

\* Mutant: a copy that is used does not run out.
BugExpire(a) ==
  /\ cache[a] # "none" /\ a \notin signedIn
  /\ cache' = [cache EXCEPT ![a] = "none"]
  /\ UNCHANGED <<staff, links, signedIn, serving, restarts>>

\* The cache's own time limit, 20 minutes whatever is asked for.
Expire(a) ==
  /\ cache[a] # "none"
  /\ cache' = [cache EXCEPT ![a] = "none"]
  /\ UNCHANGED <<staff, links, signedIn, serving, restarts>>

\* 48 hours after the link was made.
ExpireInvite(a) ==
  /\ staff[a].invite # 0 /\ ~staff[a].expired
  /\ staff' = [staff EXCEPT ![a].expired = TRUE]
  /\ UNCHANGED <<cache, links, signedIn, serving, restarts>>

Crash ==
  /\ restarts < MaxCrashes
  /\ restarts' = restarts + 1
  /\ serving' = [s \in Slot |-> Idle]
  /\ UNCHANGED <<staff, cache, links, signedIn>>

\* What a request does once it has begun.
Serve(s) ==
  \/ Load(s) \/ Fill(s) \/ Handle(s) \/ Invite(s) \/ Mail(s) \/ Accept(s)
  \/ LogIn(s) \/ SetStatus(s) \/ DropCached(s)

Next ==
  \/ \E s \in Slot : Arrive(s) \/ AskLogIn(s) \/ OpenLink(s) \/ Serve(s)
  \/ \E a \in Admin : Expire(a) \/ ExpireInvite(a)
  \/ Crash

Spec == Init /\ [][Next]_vars

\* Requests go on and cached copies run out.
FairSpec ==
  /\ Spec
  /\ \A s \in Slot : WF_vars(Serve(s))
  /\ \A a \in Admin : WF_vars(Expire(a))

-----------------------------------------------------------------------------

TypeOK ==
  /\ staff \in [Admin -> Member]
  /\ cache \in [Admin -> Status]
  /\ links \subseteq Link
  /\ signedIn \subseteq Admin
  /\ \A s \in Slot : serving[s] \in Request \cup {Idle}
  /\ restarts \in 0 .. MaxCrashes

\* A disabled account comes back by updateStaffStatus alone: no link, old, used
\* or reissued, accepted late or between two steps of another request,
\* reactivates it.
SuspensionSticks ==
  [][\A a \in Admin : staff[a].status = "suspend" /\ staff'[a].status # "suspend" =>
       \E s \in Slot : At(s, "set") /\ Who(s) = a]_vars

\* An account that stays disabled is in the end shut out for good, although a
\* request that read the row before may put the old copy into the cache after it
\* was dropped, and a restart may come between the write and the drop.
SuspendedIsShutOut ==
  \A a \in Admin : <>[](staff[a].status = "suspend") => <>[](cache[a] # "active")
=============================================================================
